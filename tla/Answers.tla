------------------------------ MODULE Answers -------------------------------
(***************************************************************************)
(* Requests about the data of blocks, and what their answers promise: a    *)
(* subscription is answered from the live payload of a block and, with     *)
(* historicalData, from the index of the same block; eth_getLogs from the  *)
(* index of several blocks.                                                *)
(***************************************************************************)
EXTENDS Request, EthFilters, BtcFilters

CONSTANTS
  EthRequests,  \* pairs <<settings, block>>
  BtcRequests,  \* pairs <<transaction filter, block>>
  LogRequests   \* pairs <<query, set of indexed blocks>>

\* The wanted topics come in slots, and only a leaf of the state trie has storage.
ASSUME EthAssumption ==
  \A r \in EthRequests :
    /\ ~r[1].rct.off => /\ Len(r[1].rct.topics) \in Nat
                         /\ DOMAIN r[1].rct.topics = 1..Len(r[1].rct.topics)
    /\ \A n \in r[2].state : ~n.leaf => n.storage = {}

\* A Bitcoin transaction has inputs and outputs.
ASSUME BtcAssumption ==
  \A r \in BtcRequests : \A i \in DOMAIN r[2] :
    /\ Len(r[2][i].ins) \in Nat \ {0}
    /\ IsFiniteSet(r[2][i].scripts) /\ r[2][i].scripts # {}

\* A hash names one block of the index, which has a last block; a log has at most
\* four topics.
ASSUME LogAssumption ==
  \A r \in LogRequests :
    /\ Len(r[1].topics) \in Nat /\ r[1].from \in Int /\ r[1].to \in Int
    /\ \A b, c \in r[2] : b.hash = c.hash => b = c
    /\ r[2] # {} => \E b \in r[2] : \A c \in r[2] : c.number <= b.number
    /\ \A b \in r[2] :
         /\ b.number \in Nat
         /\ \A i \in DOMAIN b.txs : \A l \in b.txs[i].logs :
              Len(l.topics) \in 0..4 /\ DOMAIN l.topics = 1..Len(l.topics)

Both(k) == kind = k /\ live # <<>> /\ answer # <<>>

\* The cases in which the two sides read the same settings differently:
\* headers off (the fetch fails), sources and destinations both given (AND
\* against OR), matchTxs without any other receipt criterion, a topic in a slot
\* past the fourth only, intermediate storage nodes, and a storage key that is not
\* written as the index writes it.
Diverges(s, p) ==
  \/ s.header.off
  \/ ~s.tx.off /\ s.tx.src # {} /\ s.tx.dst # {}
  \/ ~s.rct.off /\ s.rct.matchTxs /\ s.rct.addrs = {} /\ ~hasTopics(s.rct.topics)
  \/ ~s.rct.off /\ Malformed(s.rct)
  \/ ~s.storage.off /\ ~s.storage.intermediate
  \/ ~s.storage.off /\ \E k \in s.storage.keys : k # indexStorageCID(HexToHash(k))

\* Whatever the filter (with no key or topic of more than 66 characters), the
\* historical feed sends nothing of a block that the stream would not have sent: no part of the SQL in cid_retriever.go is wider
\* than the filterer's check.  Outside the cases above a subscriber that joins
\* late and reads a block from the history gets exactly what one on the stream
\* got.
HistoryIsStream ==
  Both("eth") =>
    /\ answer[1].header => live[1].header
    /\ \A part \in {"uncles", "txs", "rcts", "state", "storage"} :
         answer[1][part] \subseteq live[1][part]
    /\ ~Diverges(request[1], Convert(request[2])) => answer = live

\* Bitcoin: the join selects only transactions the stream selects, and all of
\* them when no more than one criterion is about outputs.
BtcHistoryIsStream ==
  Both("btc") =>
    LET f    == request[1]
        sent == {i \in DOMAIN answer[1] : answer[1][i] > 0}
        one  == \/ f.addrs = {} /\ f.classes = {}
                \/ f.addrs = {} /\ ~f.multisig
                \/ f.classes = {} /\ ~f.multisig
    IN  /\ sent \subseteq live[1]
        /\ one /\ ~f.headerOff => sent = live[1]

\* What eth_getLogs promises: every log of the indexed blocks in the range (or
\* of the block asked for) that comes from one of the addresses and carries a
\* wanted topic in every slot that is given; and no log from outside the range,
\* unless the range begins at height 0 or, with no start given (-1), at the first
\* block of the index: for height 0 RetrieveRctCIDs drops the height from its
\* conditions and answers with every block.
LogsExact ==
  kind = "logs" /\ answer # <<>> =>
    LET q          == request[1]
        inRange(b) ==
          IF q.hash # "none" THEN b.hash = q.hash
          ELSE (q.from = -1 \/ q.from <= b.number) /\ (q.to = -1 \/ b.number <= q.to)
        wanted(l)  ==
          /\ q.addrs = {} \/ l.addr \in q.addrs
          /\ \A i \in Slot : (i <= Len(q.topics) /\ q.topics[i] # {}) =>
               i <= Len(l.topics) /\ l.topics[i] \in q.topics[i]
    IN  \A b \in request[2] : \A i \in DOMAIN b.txs : \A l \in b.txs[i].logs :
          /\ inRange(b) /\ wanted(l) => <<b.hash, i, l>> \in answer[1]
          /\ <<b.hash, i, l>> \in answer[1] => inRange(b) \/ (q.hash = "none" /\ q.from <= 0)
=============================================================================
