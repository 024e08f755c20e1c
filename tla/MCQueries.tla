----------------------------- MODULE MCQueries ------------------------------
(* Requests for Queries: filters with and without every criterion against    *)
(* blocks of two transactions, trie nodes, or two or three indexed blocks.   *)
EXTENDS Queries

Addr == {"a", "b"}
Log(addr, topics) == [addr |-> addr, topics |-> topics]
Tx(src, dst, logs) == [src |-> src, dst |-> dst, logs |-> logs]

LogSets == {{}, {Log("a", <<>>)}, {Log("a", <<"t">>)}, {Log("b", <<"t">>)},
            {Log("a", <<"u", "t">>)}, {Log("a", <<"t">>), Log("b", <<"u", "t">>)}}

Block(number, hash, txs, state) ==
  [number |-> number, hash |-> hash, uncles |-> {"uncle"}, txs |-> txs, state |-> state]

TxBlocks ==
  {Block(1, "h", <<Tx(s, d, ls), Tx("a", "b", ms)>>, {}) :
     s, d \in Addr, ls \in LogSets, ms \in {{Log("a", <<"t">>)}}}

\* A contract creation has no destination.
Creation == {Block(1, "h", <<Tx("a", "", ls)>>, {}) : ls \in LogSets}

StorageNode(key, leaf) == [key |-> key, leaf |-> leaf]
StateNode(key, leaf, storage) == [key |-> key, leaf |-> leaf, storage |-> storage]
StorageSets == SUBSET {StorageNode("k", TRUE), StorageNode("l", TRUE), StorageNode("", FALSE)}

\* An intermediate node has no leaf key and carries no storage.
StateBlocks ==
  {Block(1, "h", <<>>, {StateNode("a", TRUE, x), StateNode("b", TRUE, y), StateNode("", FALSE, {})}) :
     x \in StorageSets, y \in {{}, {StorageNode("k", TRUE)}}}

Off == [off |-> TRUE]
TxFilters ==
  {[off |-> FALSE, src |-> s, dst |-> d] : s, d \in {{}, {"a"}, {"b"}}}
  \cup {[off |-> TRUE, src |-> {}, dst |-> {}]}
RctFilters ==
  {[off |-> FALSE, matchTxs |-> m, addrs |-> as, topics |-> ts] :
     m \in BOOLEAN, as \in {{}, {"a"}},
     ts \in {<<>>, <<{}, {}, {}, {}>>, <<{"t"}>>, <<{}, {"t"}>>, <<{"t"}, {"t"}>>,
             <<{}, {}, {}, {}, {"t"}>>}}
  \cup {[off |-> TRUE, matchTxs |-> TRUE, addrs |-> {}, topics |-> <<{"t"}>>]}
StateFilters ==
  {[off |-> o, addrs |-> as, intermediate |-> i] :
     o \in BOOLEAN, as \in {{}, {"a"}}, i \in BOOLEAN}
StorageFilters ==
  {[off |-> FALSE, addrs |-> as, keys |-> ks, intermediate |-> i] :
     as \in {{}, {"a"}}, i \in BOOLEAN,
     ks \in {{}, {<<"hex", "k">>}, {<<"hex", "k">>, <<"other", "l">>}, {<<"empty", "">>}, {<<"hex", "">>}}}
  \cup {[off |-> TRUE, addrs |-> {"a"}, keys |-> {<<"other", "l">>}, intermediate |-> FALSE]}
HeaderFilters == {[off |-> FALSE, uncles |-> TRUE], [off |-> TRUE, uncles |-> TRUE]}

\* Configurations of up to three keys.
Keys == {"header.off" :> TRUE, "header.uncles" :> TRUE, "tx.off" :> TRUE, "tx.src" :> {"a"},
         "tx.dst" :> {"b"}, "rct.off" :> TRUE, "rct.matchTxs" :> TRUE, "rct.contracts" :> {"a"},
         "rct.topic0s" :> {"t"}, "rct.topic1s" :> {"t"}, "rct.topic3s" :> {"t"}, "state.off" :> TRUE,
         "state.addresses" :> {"a"}, "state.intermediateNodes" :> TRUE, "storage.addresses" :> {"b"},
         "storage.storageKeys" :> {<<"hex", "k">>}}
Leaves == {"storage.intermediateNodes" :> TRUE, "storage.off" :> TRUE, <<>>}

MCEthRequests ==
  {<<NewEthSubscriptionConfig(g @@ h @@ i), b>> :
     g, h \in Keys, i \in Leaves, b \in {c \in TxBlocks : c.txs[1].src = "b" /\ c.txs[1].dst = "a"}}
  \cup
  {<<[header |-> [off |-> FALSE, uncles |-> TRUE], tx |-> t, rct |-> r, state |-> Off, storage |-> Off], b>> :
     t \in TxFilters, r \in RctFilters, b \in TxBlocks \cup Creation}
  \cup
  {<<[header |-> h, tx |-> Off, rct |-> [off |-> TRUE, matchTxs |-> FALSE], state |-> s, storage |-> t], b>> :
     h \in HeaderFilters, s \in StateFilters, t \in StorageFilters, b \in StateBlocks}

BtcOutputs == {[sigs |-> 1, addrs |-> {"a"}, class |-> 2, err |-> FALSE],
               [sigs |-> 2, addrs |-> {"a", "b"}, class |-> 1, err |-> FALSE],
               [sigs |-> 2, addrs |-> {}, class |-> 2, err |-> FALSE],
               [sigs |-> 0, addrs |-> {}, class |-> NonStandardTy, err |-> TRUE]}
BtcTxs == {[hash |-> "w", ins |-> is, scripts |-> os] :
             is \in {<<FALSE>>, <<TRUE>>, <<FALSE, TRUE>>}, os \in (SUBSET BtcOutputs) \ {{}}}

MCBtcRequests ==
  {<<[off |-> o, headerOff |-> h, segwit |-> s, multisig |-> m, witness |-> w, addrs |-> as,
      indexes |-> is, classes |-> cs], <<t>>>> :
     o \in {FALSE}, h \in BOOLEAN, s \in BOOLEAN, m \in BOOLEAN, w \in {{}, {"w"}},
     as \in {{}, {"b"}}, is \in {{}, {1}}, cs \in {{}, {NonStandardTy}}, t \in BtcTxs}

\* Blocks 0 and 2, and two forks at height 1.
ChainBlocks(ls, ms) ==
  {Block(0, "h0", <<Tx("a", "b", ls)>>, {}), Block(1, "h1", <<Tx("a", "b", ms)>>, {}),
   Block(1, "f1", <<Tx("a", "b", ls), Tx("b", "a", ms)>>, {}), Block(2, "h2", <<Tx("a", "b", ms)>>, {})}

MCLogRequests ==
  {<<[hash |-> r[1], from |-> r[2], to |-> r[3], addrs |-> as, topics |-> ts], ChainBlocks(ls, ms)>> :
     r \in {<<"f1", -1, -1>>, <<"missing", -1, -1>>}
             \cup {<<"none", x, y>> : x, y \in {-1, 0, 1, 2, 3}}, as \in {{}, {"a"}},
     ts \in {<<>>, <<{"t"}>>, <<{}, {"t"}>>, <<{}, {}, {}, {}, {"t"}>>}, ls \in LogSets, ms \in {{}, {Log("b", <<"t">>), Log("a", <<"t">>)}}}

\* At each height up to two headers, under-validated or valid.
MCGapRequests == {1} \X [Key -> {NoRow, 0, 1}]

Names == [chain : {"eth", "btc", "omni", "doge"}, mode : {"", "local", "remote", "direct"}, dials : BOOLEAN,
          repository : BOOLEAN, batchNumber : {-1, 0, 2}]

\* Every combination of processes, and every data type.
MCCommands ==
  {<<"superNode", [sync |-> s, serve |-> v, backFill |-> b, workers |-> w] @@ e>> :
     s, v, b \in BOOLEAN, w \in {-1, 0, 2}, e \in Names}
  \cup {<<"resync", [type |-> t] @@ e>> : t \in DataTypes \cup {"tx", "blocks"}, e \in Names}

Transformer(type, repository, rank) ==
  [path |-> "p", type |-> type, repository |-> repository, migrations |-> "db", rank |-> rank]

\* Two transformers of one or two repositories: ranks in order, shared, missing,
\* too large for an int, or none.
MCConfigs ==
  {<<>>} \cup
  {[t |-> Transformer("eth_event", "r", x), u |-> Transformer(ty, repo, y)] :
     ty \in {"eth_storage", "eth_log"}, repo \in {"r", "s"}, x, y \in {-1, 0, 1, 2, 4}}

MCPlugins ==
  MCConfigs \X {[t |-> Transformer("eth_contract", "s", 0)],
                [t |-> Transformer("eth_contract", "r", 1), u |-> Transformer("eth_event", "s", 0)]}
=============================================================================
