------------------------------ MODULE MCResync ------------------------------
(* Two forks at height 1 and a block at height 2.  The forks share a         *)
(* transaction and a state node, the block above one of them repeats both.   *)
EXTENDS Resync

MCBlocks   == {"b1", "f1", "b2"}
MCNumberOf == [b1 |-> 1, f1 |-> 1, b2 |-> 2]
Content(header, uncles, txs, rcts, state, storage) ==
  [header |-> {header}, uncles |-> uncles, transactions |-> txs,
   receipts |-> rcts, state |-> state, storage |-> storage]
MCContents ==
  [b1 |-> Content("H1", {}, {"T1"}, {"R1"}, {"S1"}, {"X1"}),
   f1 |-> Content("F1", {}, {"T1", "T2"}, {"R1", "R2"}, {"S1"}, {"X2"}),
   b2 |-> Content("H2", {"F1"}, {"T2"}, {"R2"}, {"S1", "S2"}, {"X1"})]

Config(chn, mode, type, clear, reset, range, batch) ==
  [chain |-> chn, mode |-> mode, type |-> type, clear |-> clear, reset |-> reset,
   range |-> range, batch |-> batch]

MCConfigs ==
  {Config("eth", "pg", "full", TRUE, FALSE, <<1, 2>>, 1),
   Config("eth", "pg", "transactions", TRUE, FALSE, <<1, 1>>, 1),
   Config("eth", "pg", "uncles", TRUE, FALSE, <<2, 2>>, 2),
   Config("eth", "ipfs", "state", TRUE, FALSE, <<1, 1>>, 1),
   Config("eth", "pg", "storage", TRUE, TRUE, <<1, 1>>, 1),
   Config("eth", "pg", "receipts", TRUE, FALSE, <<2, 1>>, 1),
   Config("btc", "pg", "headers", TRUE, FALSE, <<1, 2>>, 2),
   Config("btc", "ipfs", "transactions", TRUE, FALSE, <<1, 1>>, 1),
   Config("btc", "pg", "full", FALSE, TRUE, <<1, 1>>, 1)}
=============================================================================
