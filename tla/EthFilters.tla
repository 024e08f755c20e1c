----------------------------- MODULE EthFilters -----------------------------
(***************************************************************************)
(* What an Ethereum subscriber is sent of a block, twice: the filter over  *)
(* the live payload (pkg/super_node/eth/filterer.go) and the SQL over the  *)
(* index (cid_retriever.go) with the fetch of what it selects              *)
(* (ipld_fetcher.go, ipld_pg_fetcher.go); and eth_getLogs over the same    *)
(* index (api.go, backend.go).                                             *)
(*                                                                         *)
(* A block is [number, hash, uncles, txs, state]: a sequence of            *)
(* transactions [src, dst, logs] whose logs are records [addr, topics],    *)
(* and a set of trie nodes [key, leaf, storage] whose storage nodes are    *)
(* [key, leaf].  Transactions and receipts are named by their index, an    *)
(* IPLD by the item it encodes.  A key is a hash, "" the null hash.        *)
(*                                                                         *)
(* A wanted storage key is a text <<form, hash>>: the hash it is read as   *)
(* and how it is written: "hex" is 0x and the 64 lower-case digits,        *)
(* "empty" the empty text, "other" any other way (upper case, no 0x,       *)
(* leading zeros left out).  Wanted keys and topics are of at most 66      *)
(* characters, where the SQL cuts them.                                    *)
(***************************************************************************)
EXTENDS Integers, Sequences, FiniteSets

Slot == 1..4

\* PayloadConverter.Convert: the receipt metadata that filters and index use
\* are, per topic slot, the topics of all its logs, and their contracts.
ReceiptMetaData(tx) ==
  [topics    |-> [i \in Slot |->
                    {l.topics[i] : l \in {m \in tx.logs : i <= Len(m.topics)}}],
   contracts |-> {l.addr : l \in tx.logs}]

Convert(b) ==
  [number |-> b.number, uncles |-> b.uncles, state |-> b.state,
   txs    |-> [i \in DOMAIN b.txs |-> [src |-> b.txs[i].src, dst |-> b.txs[i].dst]],
   rcts   |-> [i \in DOMAIN b.txs |-> ReceiptMetaData(b.txs[i])]]

\* A selection of one block's data.
Selection(header, uncles, txs, rcts, state, storage) ==
  [header |-> header, uncles |-> uncles, txs |-> txs, rcts |-> rcts,
   state |-> state, storage |-> storage]
NoData == Selection(FALSE, {}, {}, {}, {}, {})

\* The settings from the keys of a configuration: what is not given is FALSE or
\* empty, and there are always four topic slots.
NewEthSubscriptionConfig(given) ==
  LET bool(key)    == key \in DOMAIN given /\ given[key]
      strings(key) == IF key \in DOMAIN given THEN given[key] ELSE {}
  IN  [header  |-> [off |-> bool("header.off"), uncles |-> bool("header.uncles")],
       tx      |-> [off |-> bool("tx.off"), src |-> strings("tx.src"), dst |-> strings("tx.dst")],
       rct     |-> [off |-> bool("rct.off"), matchTxs |-> bool("rct.matchTxs"),
                    addrs |-> strings("rct.contracts"),
                    topics |-> <<strings("rct.topic0s"), strings("rct.topic1s"),
                                 strings("rct.topic2s"), strings("rct.topic3s")>>],
       state   |-> [off |-> bool("state.off"), addrs |-> strings("state.addresses"),
                    intermediate |-> bool("state.intermediateNodes")],
       storage |-> [off |-> bool("storage.off"), addrs |-> strings("storage.addresses"),
                    keys |-> strings("storage.storageKeys"),
                    intermediate |-> bool("storage.intermediateNodes")]]
-----------------------------------------------------------------------------
(* ResponseFilterer: the live payload *)

\* Either address is enough; without any, every transaction passes.
checkTransactionAddrs(f, tx) ==
  (f.dst = {} /\ f.src = {}) \/ tx.src \in f.src \/ tx.dst \in f.dst

filterTransactions(f, p) ==
  IF f.off THEN {}
  ELSE {i \in DOMAIN p.txs : checkTransactionAddrs(f, p.txs[i])}

\* A slot that is absent or empty counts as a match.
filterMatch(wanted, actual) ==
  \A i \in Slot : (i <= Len(wanted) /\ wanted[i] # {}) => wanted[i] \cap actual[i] # {}

\* hashes are the transactions to match, none unless MatchTxs is set.
checkReceipts(f, i, rct, hashes) ==
  \/ f.topics = <<>> /\ f.addrs = {} /\ hashes = {}
  \/ i \in hashes
  \/ f.addrs = {} /\ filterMatch(f.topics, rct.topics)
  \/ f.addrs \cap rct.contracts # {} /\ filterMatch(f.topics, rct.topics)

filterReceipts(f, p, trxHashes) ==
  LET hashes == IF f.matchTxs THEN trxHashes ELSE {}
  IN  IF f.off THEN {}
      ELSE {i \in DOMAIN p.rcts : checkReceipts(f, i, p.rcts[i], hashes)}

checkNodeKeys(wanted, key) == wanted = {} \/ key \in wanted

filterState(f, p) ==
  IF f.off THEN {}
  ELSE {n \in p.state : checkNodeKeys(f.addrs, n.key) /\ (n.leaf \/ f.intermediate)}

\* common.HexToHash: however it is written, the empty text as the null hash.
HexToHash(text) == text[2]

\* The loop over the storage nodes does not look at IntermediateNodes.
filterStorage(f, p) ==
  IF f.off THEN {}
  ELSE UNION {{<<n.key, s>> :
                 s \in {t \in n.storage : checkNodeKeys({HexToHash(k) : k \in f.keys}, t.key)}} :
                n \in {m \in p.state : checkNodeKeys(f.addrs, m.key)}}

\* The response to a payload in the subscription's range (Subscriptions.tla
\* has the range).
Filter(s, p) ==
  LET txs == filterTransactions(s.tx, p)
  IN  Selection(~s.header.off,
                IF ~s.header.off /\ s.header.uncles THEN p.uncles ELSE {},
                txs, filterReceipts(s.rct, p, txs),
                filterState(s.state, p), filterStorage(s.storage, p))
-----------------------------------------------------------------------------
(* CIDRetriever: the SQL over the index of one header *)

\* Both lists restrict.
RetrieveTxCIDs(f, p) ==
  {i \in DOMAIN p.txs : /\ f.dst = {} \/ p.txs[i].dst \in f.dst
                        /\ f.src = {} \/ p.txs[i].src \in f.src}

hasTopics(topics) == \E i \in DOMAIN topics : topics[i] # {}

\* hasTopics looks at every slot, the condition is built from the first four:
\* with topics in a later slot only, the statement holds "AND ()".
Malformed(f) == hasTopics(f.topics) /\ \A i \in DOMAIN f.topics \cap Slot : f.topics[i] = {}

TopicsMatch(f, rct) ==
  \A i \in DOMAIN f.topics \cap Slot :
     f.topics[i] # {} => f.topics[i] \cap rct.topics[i] # {}

\* The WHERE clause of RetrieveRctCIDsByHeaderID, which RetrieveRctCIDs repeats.
RctCondition(f, i, rct, trxIds) ==
  LET matchTxs == f.matchTxs /\ trxIds # {}
      byTx     == matchTxs /\ i \in trxIds
  IN  IF f.addrs # {}
      THEN (f.addrs \cap rct.contracts # {} /\ TopicsMatch(f, rct)) \/ byTx
      ELSE IF hasTopics(f.topics) THEN TopicsMatch(f, rct) \/ byTx
           ELSE matchTxs => byTx

RetrieveRctCIDsByHeaderID(f, p, trxIds) ==
  {i \in DOMAIN p.rcts : RctCondition(f, i, p.rcts[i], trxIds)}

\* Mutant: intermediate nodes are never selected.
RetrieveStateLeafCIDs(f, p) == {n \in p.state : n.leaf /\ (f.addrs = {} \/ n.key \in f.addrs)}

RetrieveStateCIDs(f, p) ==
  {n \in p.state : /\ f.addrs = {} \/ n.key \in f.addrs
                   /\ f.intermediate \/ n.leaf}

\* What the index holds of a storage key: LeafKey.Hex() of the publisher, and the
\* empty text for the null hash of an intermediate node.
indexStorageCID(key) == IF key = "" THEN <<"empty", key>> ELSE <<"hex", key>>

\* The indexer stores storage nodes under leaves only, and the wanted keys are
\* compared with its text as they are written.
RetrieveStorageCIDs(f, p) ==
  UNION {{<<n.key, s>> : s \in {t \in n.storage : /\ f.keys = {} \/ indexStorageCID(t.key) \in f.keys
                                                  /\ f.intermediate \/ t.leaf}} :
           n \in {m \in p.state : m.leaf /\ (f.addrs = {} \/ m.key \in f.addrs)}}

\* Retrieve, for one header of the height: a section that is off stays empty.
Retrieve(s, p) ==
  LET txs == IF s.tx.off THEN {} ELSE RetrieveTxCIDs(s.tx, p)
  IN  Selection(~s.header.off,
                IF ~s.header.off /\ s.header.uncles THEN p.uncles ELSE {},
                txs,
                IF s.rct.off THEN {} ELSE RetrieveRctCIDsByHeaderID(s.rct, p, txs),
                IF s.state.off THEN {} ELSE RetrieveStateCIDs(s.state, p),
                IF s.storage.off THEN {} ELSE RetrieveStorageCIDs(s.storage, p))

RetrieveError(s) == ~s.rct.off /\ Malformed(s.rct)

\* Fetch parses the total difficulty of the header row: with the header filter
\* off there is no row and every fetch of the block fails.
FetchError(w) == ~w.header

\* What the historical feed sends of a block: nothing after an error, and
\* nothing when the height is empty.
History(s, p) ==
  IF RetrieveError(s) \/ FetchError(Retrieve(s, p)) THEN NoData ELSE Retrieve(s, p)
-----------------------------------------------------------------------------
(* eth_getLogs over a set of indexed blocks *)

\* The receipts are named by their block and their index.  A block number of 0
\* is no condition at all, nor is a hash that is not given.
RetrieveRctCIDs(f, number, hash, index) ==
  LET at == {b \in index : (number > 0 => b.number = number) /\ (hash # "none" => b.hash = hash)}
  IN  UNION {{b} \X RetrieveRctCIDsByHeaderID(f, Convert(b), {}) : b \in at}

\* A log's own topics must pass the slots it has.
wantedLog(wanted, log) ==
  \A i \in DOMAIN log.topics : wanted[i] = {} \/ log.topics[i] \in wanted[i]

\* The receipt was selected by address, the log is not.
extractLogsOfInterest(rcts, wanted) ==
  UNION {{<<r[1].hash, r[2], l>> : l \in {m \in r[1].txs[r[2]].logs : wantedLog(wanted, m)}} :
           r \in rcts}

\* Mutant: the end of the range is left out.
LogRangeShort(q, first, last) ==
  (IF q.from = -1 THEN first ELSE q.from)..((IF q.to = -1 THEN last ELSE q.to) - 1)

\* A bound that is not given (-1) is the first or the last block of the index.
LogRange(q, first, last) ==
  (IF q.from = -1 THEN first ELSE q.from)..(IF q.to = -1 THEN last ELSE q.to)

\* The four topic sets of the query: slots past the fourth are dropped.
TopicSets(q) == [i \in Slot |-> IF i <= Len(q.topics) THEN q.topics[i] ELSE {}]

GetLogs(q, index) ==
  LET f       == [addrs |-> q.addrs, topics |-> TopicSets(q), matchTxs |-> FALSE]
      numbers == {b.number : b \in index}
      first   == CHOOSE n \in numbers : \A m \in numbers : n <= m
      last    == CHOOSE n \in numbers : \A m \in numbers : m <= n
      rcts    == IF q.hash # "none" THEN RetrieveRctCIDs(f, 0, q.hash, index)
                 ELSE UNION {RetrieveRctCIDs(f, n, "none", index) : n \in LogRange(q, first, last)}
  IN  extractLogsOfInterest(rcts, f.topics)
=============================================================================
