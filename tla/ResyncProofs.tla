---------------------------- MODULE ResyncProofs ----------------------------
(***************************************************************************)
(* Proofs about Resync, for every set of blocks with what they contain and *)
(* share, every configuration of both chains and both IPFS modes, any      *)
(* number of workers, and every interleaving with the node and a reader.   *)
(***************************************************************************)
EXTENDS Resync, SequenceTheorems, TLAPS

\* The sections that have rows of their own, and the types of the store.
Secs  == {"uncles", "transactions", "receipts", "state", "storage"}
Node  == UNION {Contents[b][s] : b \in Blocks, s \in {"header"} \cup Secs}
Row   == [blk : Blocks, sec : Secs, item : Node]
Key   == [form : {"/blocks/"}, mh : Node]
Store == [hdr : [Blocks -> Int], rows : SUBSET Row, ipld : SUBSET Key]

\* The sections the chain's indexer writes, and a block whose nodes are all put.
Indexed == IF eth THEN Secs ELSE {"transactions"}
AllPut(st, b) == \A s \in {"header"} \cup Indexed : FetchPG(st, Contents[b][s])

HasSection(st, b, sec) == \E q \in st.rows : q.blk = b /\ q.sec = sec

\* What every transaction leaves in the database.
StoreInv(st) ==
  /\ st \in Store
  /\ \A b \in Blocks : st.hdr[b] >= NoRow
  /\ \A b \in Blocks : st.hdr[b] # NoRow => FetchPG(st, Contents[b]["header"])
  /\ \A r \in st.rows :
       /\ st.hdr[r.blk] # NoRow
       /\ r.item \in Contents[r.blk][r.sec] /\ FetchIPLD(st, r.item)
       /\ r.sec \in Indexed
       /\ r.sec = "receipts" => HasSection(st, r.blk, "transactions")
       /\ r.sec = "storage" => HasSection(st, r.blk, "state")
  /\ eth => \A b \in Blocks, s \in Secs :
              HasSection(st, b, s) => SectionRows(b, s) \subseteq st.rows

\* The height holds a whole block.
Restored(st, h) ==
  \E b \in Blocks : /\ st.hdr[b] # NoRow /\ NumberOf[b] = h
                    /\ \A s \in Secs : SectionRows(b, s) \subseteq st.rows

WorkerState == [pc : {"idle", "fetch", "publish", "index", "quit"},
                todo : SUBSET Int, block : Blocks \cup {None}]

TypeInv ==
  /\ cfg \in Configs
  /\ pc \in {"reset", "clean", "bins", "send", "done", "failed"}
  /\ bins \in Seq(SUBSET Int)
  /\ worker \in [Workers -> WorkerState]
  /\ node \in Blocks \cup {None}
  /\ reader \in [block : Blocks \cup {None}, read : Int, items : SUBSET Node]

\* Nothing is indexed before it is put.
PutInv ==
  /\ node # None => AllPut(store, node)
  /\ \A w \in Workers : worker[w].pc = "index" =>
       worker[w].block \in Blocks /\ AllPut(store, worker[w].block)

\* A reader holds only cids the store has, and loses its header row to Clean only.
ReadInv ==
  /\ FetchPG(store, reader.items) /\ reader.read >= 0
  /\ ~cfg.clear => /\ reader # NoTd
                   /\ reader.block # None => store.hdr[reader.block] # NoRow

\* Once the range is cut into sections, a height of it is with the sections not
\* sent, with a worker, lost, or restored.
ProgressInv ==
  /\ \A w \in Workers : worker[w].pc \in {"idle", "quit"} => worker[w].todo = {}
  /\ pc = "done" => bins = <<>> /\ \A w \in Workers : worker[w].pc = "quit"
  /\ pc \in {"send", "done"} /\ eth =>
       \A h \in cfg.range[1]..cfg.range[2] :
         \/ h \in lost \/ Restored(store, h)
         \/ \E i \in DOMAIN bins : h \in bins[i]
         \/ \E w \in Workers : \/ h \in worker[w].todo
                               \/ worker[w].pc = "index" /\ NumberOf[worker[w].block] = h

IInv == TypeInv /\ StoreInv(store) /\ PutInv /\ ReadInv /\ ProgressInv
-----------------------------------------------------------------------------
(* What the operators of CIDStore do to the three tables *)

LEMMA Nodes ==
  ASSUME NEW b \in Blocks, NEW s \in {"header"} \cup Secs
  PROVE  Contents[b][s] \subseteq Node
BY DEF Node

LEMMA SectionRowsType ==
  ASSUME NEW b \in Blocks, NEW s \in Secs
  PROVE  /\ SectionRows(b, s) \subseteq Row
         /\ \A r \in SectionRows(b, s) : r.blk = b /\ r.sec = s /\ r.item \in Contents[b][s]
         /\ \A r \in Row : r.blk = b /\ r.sec = s /\ r.item \in Contents[b][s] => r \in SectionRows(b, s)
<1>1. \A i \in Contents[b][s] : i \in Node
  BY Nodes
<1> QED
  BY <1>1 DEF SectionRows, Row

LEMMA PutEffect ==
  ASSUME NEW st \in Store, NEW b \in Blocks, NEW secs,
         \A i \in DOMAIN secs : secs[i] \in {"header"} \cup Secs
  PROVE  /\ Put(st, b, secs) \in Store
         /\ Put(st, b, secs).hdr = st.hdr /\ Put(st, b, secs).rows = st.rows
         /\ st.ipld \subseteq Put(st, b, secs).ipld
         /\ \A i \in DOMAIN secs : FetchPG(Put(st, b, secs), Contents[b][secs[i]])
<1> DEFINE items == UNION {Contents[b][secs[i]] : i \in DOMAIN secs}
           keys == {MultihashKeyFromCIDString(CidString(i)) : i \in items}
<1>1. items \subseteq Node
  BY Nodes
<1>2. \A i \in items : MultihashKeyFromCIDString(CidString(i)) \in Key
  BY <1>1 DEF MultihashKeyFromCIDString, CidString, Key
<1>3. keys \subseteq Key
  BY <1>2
<1>4. Put(st, b, secs) = [st EXCEPT !.ipld = st.ipld \cup keys]
  BY DEF Put, PublishIPLD, Store
<1> HIDE DEF keys
<1>5. /\ Put(st, b, secs) \in Store /\ Put(st, b, secs).ipld = st.ipld \cup keys
      /\ Put(st, b, secs).hdr = st.hdr /\ Put(st, b, secs).rows = st.rows
  BY <1>3, <1>4 DEF Store
<1>6. ASSUME NEW i \in DOMAIN secs PROVE FetchPG(Put(st, b, secs), Contents[b][secs[i]])
  <2>1. \A x \in Contents[b][secs[i]] : x \in items
    OBVIOUS
  <2> QED
    BY <1>5, <2>1 DEF FetchPG, FetchIPLD, keys
<1> QED
  BY <1>5, <1>6

LEMMA EthIndexEffect ==
  ASSUME NEW st \in Store, NEW b \in Blocks
  PROVE  /\ EthIndex(st, b) \in Store /\ EthIndex(st, b).ipld = st.ipld
         /\ EthIndex(st, b).hdr = [st.hdr EXCEPT ![b] = IF @ = NoRow THEN 1 ELSE @ + 1]
         /\ EthIndex(st, b).rows = st.rows \cup UNION {SectionRows(b, s) : s \in Secs}
<1> DEFINE new == UNION {SectionRows(b, s) : s \in Secs}
           hdr == [st.hdr EXCEPT ![b] = IF @ = NoRow THEN 1 ELSE @ + 1]
<1>1. new \subseteq Row
  BY SectionRowsType
<1>2. hdr \in [Blocks -> Int]
  BY DEF Store, NoRow
<1>3. indexHeaderCID(st, b) = [st EXCEPT !.hdr = hdr]
  BY DEF indexHeaderCID, Store
<1> HIDE DEF hdr
<1>4. indexHeaderCID(st, b) \in Store /\ indexHeaderCID(st, b).rows = st.rows
      /\ indexHeaderCID(st, b).ipld = st.ipld /\ indexHeaderCID(st, b).hdr = hdr
  BY <1>2, <1>3 DEF Store
<1>5. new = indexUncleCIDs(b) \cup indexTransactionAndReceiptCIDs(b) \cup indexStateAndStorageCIDs(b)
  BY DEF indexUncleCIDs, indexTransactionAndReceiptCIDs, indexStateAndStorageCIDs, Secs
<1> HIDE DEF new
<1>6. EthIndex(st, b) = [indexHeaderCID(st, b) EXCEPT !.rows = st.rows \cup new]
  BY <1>4, <1>5 DEF EthIndex
<1> QED
  BY <1>1, <1>4, <1>6 DEF Store, new, hdr

LEMMA BtcIndexEffect ==
  ASSUME NEW st \in Store, NEW b \in Blocks
  PROVE  /\ BtcIndex(st, b) \in Store /\ BtcIndex(st, b).ipld = st.ipld
         /\ BtcIndex(st, b).hdr = [st.hdr EXCEPT ![b] = IF @ = NoRow THEN 1 ELSE @ + 1]
         /\ BtcIndex(st, b).rows \subseteq st.rows \cup SectionRows(b, "transactions")
<1> DEFINE new == indexTransactionCIDs(st.rows, b)
           hdr == [st.hdr EXCEPT ![b] = IF @ = NoRow THEN 1 ELSE @ + 1]
<1>1. new \subseteq Row /\ new \subseteq st.rows \cup SectionRows(b, "transactions")
  BY SectionRowsType DEF indexTransactionCIDs, Store, Secs
<1>2. hdr \in [Blocks -> Int]
  BY DEF Store, NoRow
<1>3. indexHeaderCID(st, b) = [st EXCEPT !.hdr = hdr]
  BY DEF indexHeaderCID, Store
<1> HIDE DEF hdr
<1>4. indexHeaderCID(st, b) \in Store /\ indexHeaderCID(st, b).rows = st.rows
      /\ indexHeaderCID(st, b).ipld = st.ipld /\ indexHeaderCID(st, b).hdr = hdr
  BY <1>2, <1>3 DEF Store
<1>5. BtcIndex(st, b) = [indexHeaderCID(st, b) EXCEPT !.rows = new]
  BY <1>4 DEF BtcIndex
<1> HIDE DEF new
<1> QED
  BY <1>1, <1>4, <1>5 DEF Store, hdr

LEMMA SectionNames ==
  /\ EthSections \in Seq({"header"} \cup Secs) /\ Len(EthSections) = 6 /\ DOMAIN EthSections = 1..6
  /\ EthSections[1] = "header" /\ EthSections[2] = "uncles" /\ EthSections[3] = "transactions"
  /\ EthSections[4] = "receipts" /\ EthSections[5] = "state" /\ EthSections[6] = "storage"
  /\ BtcSections \in Seq({"header"} \cup Secs) /\ Len(BtcSections) = 2 /\ DOMAIN BtcSections = 1..2
  /\ BtcSections[1] = "header" /\ BtcSections[2] = "transactions"
BY DEF EthSections, BtcSections, Secs

LEMMA RowSections == \A i \in 2..6 : EthSections[i] \in Secs
<1>1. \A i \in 2..6 : i = 2 \/ i = 3 \/ i = 4 \/ i = 5 \/ i = 6
  OBVIOUS
<1> QED
  BY <1>1, SectionNames DEF Secs

LEMMA Prefix ==
  ASSUME NEW secs \in Seq({"header"} \cup Secs), NEW n \in 0..Len(secs)
  PROVE  /\ DOMAIN SubSeq(secs, 1, n) = 1..n
         /\ \A i \in 1..n : SubSeq(secs, 1, n)[i] = secs[i] /\ secs[i] \in {"header"} \cup Secs
<1>1. Len(secs) \in Nat /\ n \in Nat /\ \A i \in 1..Len(secs) : secs[i] \in {"header"} \cup Secs
  BY LenProperties
<1>2. \A i \in 1..n : i \in 1..Len(secs)
  BY <1>1
<1>3. SubSeq(secs, 1, n) = [i \in 1..n |-> secs[i]]
  BY <1>1
<1> QED
  BY <1>1, <1>2, <1>3

LEMMA PutPrefix ==
  ASSUME NEW st \in Store, NEW b \in Blocks,
         NEW secs \in Seq({"header"} \cup Secs), NEW n \in 0..Len(secs)
  PROVE  LET new == Put(st, b, SubSeq(secs, 1, n))
         IN  /\ new \in Store /\ new.hdr = st.hdr /\ new.rows = st.rows
             /\ st.ipld \subseteq new.ipld
             /\ \A i \in 1..n : FetchPG(new, Contents[b][secs[i]])
<1> DEFINE sub == SubSeq(secs, 1, n)
<1>1. /\ DOMAIN sub = 1..n
      /\ \A i \in 1..n : sub[i] = secs[i] /\ secs[i] \in {"header"} \cup Secs
  BY Prefix
<1> HIDE DEF sub
<1>2. \A i \in DOMAIN sub : sub[i] \in {"header"} \cup Secs
  BY <1>1
<1>3. /\ Put(st, b, sub) \in Store
      /\ Put(st, b, sub).hdr = st.hdr /\ Put(st, b, sub).rows = st.rows
      /\ st.ipld \subseteq Put(st, b, sub).ipld
      /\ \A i \in DOMAIN sub : FetchPG(Put(st, b, sub), Contents[b][sub[i]])
  BY <1>2, PutEffect
<1>4. \A i \in 1..n : FetchPG(Put(st, b, sub), Contents[b][secs[i]])
  BY <1>1, <1>3
<1> QED
  BY <1>3, <1>4 DEF sub

LEMMA EthPublishAndIndexEffect ==
  ASSUME NEW st \in Store, NEW b \in Blocks, eth
  PROVE  LET new == EthPublishAndIndex(st, b)
         IN  /\ new \in Store /\ st.ipld \subseteq new.ipld /\ AllPut(new, b)
             /\ new.hdr = [st.hdr EXCEPT ![b] = IF @ = NoRow THEN 1 ELSE @ + 1]
             /\ new.rows = st.rows \cup UNION {SectionRows(b, s) : s \in Secs}
<1> DEFINE p == Put(st, b, SubSeq(EthSections, 1, 4))
           hdr == [p.hdr EXCEPT ![b] = IF @ = NoRow THEN 1 ELSE @ + 1]
           q == [indexHeaderCID(p, b) EXCEPT !.rows =
                   @ \cup indexUncleCIDs(b) \cup indexTransactionAndReceiptCIDs(b)]
           r == Put(q, b, <<"state", "storage">>)
           new == EthPublishAndIndex(st, b)
<1>1. EthSections \in Seq({"header"} \cup Secs) /\ 4 \in 0..Len(EthSections)
  BY SectionNames
<1>2. /\ p \in Store /\ p.hdr = st.hdr /\ p.rows = st.rows /\ st.ipld \subseteq p.ipld
      /\ \A i \in 1..4 : FetchPG(p, Contents[b][EthSections[i]])
  BY <1>1, PutPrefix
<1> HIDE DEF p
<1>3. hdr \in [Blocks -> Int]
  BY <1>2 DEF Store, NoRow
<1>4. indexHeaderCID(p, b) = [p EXCEPT !.hdr = hdr]
  BY <1>2 DEF indexHeaderCID, Store
<1> HIDE DEF hdr
<1>5. /\ indexUncleCIDs(b) \subseteq Row /\ indexTransactionAndReceiptCIDs(b) \subseteq Row
      /\ indexStateAndStorageCIDs(b) \subseteq Row
  BY SectionRowsType DEF indexUncleCIDs, indexTransactionAndReceiptCIDs, indexStateAndStorageCIDs, Secs
<1>6. indexHeaderCID(p, b) \in Store /\ indexHeaderCID(p, b).rows = p.rows
      /\ indexHeaderCID(p, b).ipld = p.ipld /\ indexHeaderCID(p, b).hdr = hdr
  BY <1>2, <1>3, <1>4 DEF Store
<1>7. /\ q \in Store /\ q.hdr = hdr /\ q.ipld = p.ipld
      /\ q.rows = p.rows \cup indexUncleCIDs(b) \cup indexTransactionAndReceiptCIDs(b)
  BY <1>5, <1>6 DEF Store
<1> HIDE DEF q
<1>8. /\ r \in Store /\ r.hdr = q.hdr /\ r.rows = q.rows /\ q.ipld \subseteq r.ipld
      /\ FetchPG(r, Contents[b]["state"]) /\ FetchPG(r, Contents[b]["storage"])
  <2> DEFINE two == <<"state", "storage">>
  <2>1. DOMAIN two = {1, 2} /\ two[1] = "state" /\ two[2] = "storage"
    OBVIOUS
  <2>2. \A i \in DOMAIN two : two[i] \in {"header"} \cup Secs
    BY <2>1 DEF Secs
  <2>3. r = Put(q, b, two)
    OBVIOUS
  <2> HIDE DEF two, r
  <2>4. /\ r \in Store /\ r.hdr = q.hdr /\ r.rows = q.rows /\ q.ipld \subseteq r.ipld
        /\ \A i \in DOMAIN two : FetchPG(r, Contents[b][two[i]])
    BY <1>7, <2>2, <2>3, PutEffect
  <2> QED
    BY <2>1, <2>4
<1>9. new = [r EXCEPT !.rows = r.rows \cup indexStateAndStorageCIDs(b)]
  BY DEF EthPublishAndIndex, publishAndIndexStateAndStorage, p, q
<1> HIDE DEF r, new
<1>10. /\ new \in Store /\ new.hdr = hdr /\ new.ipld = r.ipld
       /\ new.rows = r.rows \cup indexStateAndStorageCIDs(b)
  BY <1>5, <1>7, <1>8, <1>9 DEF Store
<1>11. new.rows = st.rows \cup UNION {SectionRows(b, s) : s \in Secs}
  BY <1>2, <1>7, <1>8, <1>10
     DEF indexUncleCIDs, indexTransactionAndReceiptCIDs, indexStateAndStorageCIDs, Secs
<1>12. st.ipld \subseteq new.ipld /\ p.ipld \subseteq new.ipld
  BY <1>2, <1>7, <1>8, <1>10
<1>13. AllPut(new, b)
  <2>1. \A s \in {"header", "uncles", "transactions", "receipts"} : FetchPG(p, Contents[b][s])
    BY <1>2, SectionNames
  <2>2. \A s \in {"header", "uncles", "transactions", "receipts"} : FetchPG(new, Contents[b][s])
    BY <1>12, <2>1 DEF FetchPG, FetchIPLD
  <2>3. \A s \in {"state", "storage"} : FetchPG(new, Contents[b][s])
    BY <1>8, <1>10 DEF FetchPG, FetchIPLD
  <2> QED
    BY <2>2, <2>3 DEF AllPut, Indexed, Secs
<1> QED
  BY <1>2, <1>10, <1>11, <1>12, <1>13 DEF hdr, new

LEMMA BtcPublishAndIndexEffect ==
  ASSUME NEW st \in Store, NEW b \in Blocks, ~eth
  PROVE  LET new == BtcPublishAndIndex(st, b)
         IN  /\ new \in Store /\ st.ipld \subseteq new.ipld /\ AllPut(new, b)
             /\ new.hdr = [st.hdr EXCEPT ![b] = IF @ = NoRow THEN 1 ELSE @ + 1]
             /\ new.rows \subseteq st.rows \cup SectionRows(b, "transactions")
<1> DEFINE p == Put(st, b, BtcSections)
           new == BtcPublishAndIndex(st, b)
<1>1. \A i \in DOMAIN BtcSections : BtcSections[i] \in {"header"} \cup Secs
  BY SectionNames DEF Secs
<1>2. /\ p \in Store /\ p.hdr = st.hdr /\ p.rows = st.rows /\ st.ipld \subseteq p.ipld
      /\ \A i \in DOMAIN BtcSections : FetchPG(p, Contents[b][BtcSections[i]])
  BY <1>1, PutEffect
<1>3. FetchPG(p, Contents[b]["header"]) /\ FetchPG(p, Contents[b]["transactions"])
  <2>1. 1 \in DOMAIN BtcSections /\ 2 \in DOMAIN BtcSections
    BY SectionNames
  <2> QED
    BY <1>2, <2>1, SectionNames
<1>4. new = BtcIndex(p, b)
  BY DEF BtcPublishAndIndex
<1> HIDE DEF p, new
<1>5. /\ new \in Store /\ new.ipld = p.ipld
      /\ new.hdr = [p.hdr EXCEPT ![b] = IF @ = NoRow THEN 1 ELSE @ + 1]
      /\ new.rows \subseteq p.rows \cup SectionRows(b, "transactions")
  BY <1>2, <1>4, BtcIndexEffect
<1>6. AllPut(new, b)
  BY <1>3, <1>5 DEF AllPut, Indexed, FetchPG, FetchIPLD
<1> QED
  BY <1>2, <1>5, <1>6 DEF new

\* Clean takes no IPLD: the keys of public.blocks are not cids.
LEMMA CleanEffect ==
  ASSUME NEW st \in Store, NEW secs, NEW rng
  PROVE  LET new == cleanMetaData(cleanIPLDs(st, secs, rng), secs, rng)
         IN  /\ new \in Store /\ new.ipld = st.ipld
             /\ new.rows = st.rows \ RowsIn(st, secs, rng)
             /\ new.hdr = [b \in Blocks |-> IF "header" \in secs /\ InRange(b, rng) THEN NoRow
                                            ELSE st.hdr[b]]
<1> DEFINE c == cleanIPLDs(st, secs, rng)
           new == cleanMetaData(c, secs, rng)
           hdr == [b \in Blocks |-> IF "header" \in secs /\ InRange(b, rng) THEN NoRow
                                    ELSE st.hdr[b]]
<1>1. \A k \in st.ipld : \A i : k # CidString(i)
  BY DEF Store, Key, CidString
<1>2. c = [st EXCEPT !.ipld = st.ipld]
  BY <1>1 DEF cleanIPLDs, Store
<1>3. c = st
  BY <1>2 DEF Store
<1>4. hdr \in [Blocks -> Int]
  BY DEF Store, NoRow
<1>5. new = [st EXCEPT !.rows = st.rows \ RowsIn(st, secs, rng), !.hdr = hdr]
  BY <1>3 DEF cleanMetaData, Store
<1> HIDE DEF hdr, c, new
<1> QED
  BY <1>4, <1>5 DEF Store, hdr, c, new
-----------------------------------------------------------------------------
(* Every transaction keeps StoreInv *)

\* What no transaction but those of Clean takes away.
Later(st, new) ==
  /\ st.ipld \subseteq new.ipld
  /\ \A b \in Blocks : st.hdr[b] # NoRow => new.hdr[b] # NoRow
  /\ eth => st.rows \subseteq new.rows

LEMMA PutKeeps ==
  ASSUME NEW st, NEW new, StoreInv(st), new \in Store, new.hdr = st.hdr, new.rows = st.rows,
         st.ipld \subseteq new.ipld
  PROVE  StoreInv(new) /\ Later(st, new)
<1>1. Later(st, new)
  BY DEF Later
<1>2. \A i : FetchIPLD(st, i) => FetchIPLD(new, i)
  BY DEF FetchIPLD
<1>3. \A b, s : HasSection(st, b, s) <=> HasSection(new, b, s)
  BY DEF HasSection
<1> QED
  BY <1>1, <1>2, <1>3 DEF StoreInv, FetchPG

LEMMA EthIndexKeeps ==
  ASSUME NEW st, NEW new, NEW b \in Blocks, eth, StoreInv(st), new \in Store,
         st.ipld \subseteq new.ipld, AllPut(new, b),
         new.hdr = [st.hdr EXCEPT ![b] = IF @ = NoRow THEN 1 ELSE @ + 1],
         new.rows = st.rows \cup UNION {SectionRows(b, s) : s \in Secs}
  PROVE  StoreInv(new) /\ Later(st, new) /\ Restored(new, NumberOf[b])
<1>0. st.hdr \in [Blocks -> Int] /\ st.rows \subseteq Row /\ new.rows \subseteq Row /\ Indexed = Secs
  BY DEF StoreInv, Store, Indexed
<1>1. /\ new.hdr[b] >= NoRow /\ new.hdr[b] # NoRow
      /\ \A c \in Blocks : c # b => new.hdr[c] = st.hdr[c]
  BY <1>0 DEF StoreInv, NoRow
<1>2. Later(st, new)
  BY <1>1 DEF Later
<1>3. Restored(new, NumberOf[b])
  BY <1>1 DEF Restored
<1>4. \A i : FetchIPLD(st, i) => FetchIPLD(new, i)
  BY DEF FetchIPLD
<1>5. \A c, s : HasSection(st, c, s) => HasSection(new, c, s)
  BY DEF HasSection
<1>6. \A r \in new.rows \ st.rows : r.blk = b /\ r.sec \in Secs /\ r.item \in Contents[b][r.sec]
  BY SectionRowsType
<1>7. \A s \in Secs : Contents[b][s] # {} => HasSection(new, b, s)
  <2> SUFFICES ASSUME NEW s \in Secs, NEW i \in Contents[b][s] PROVE HasSection(new, b, s)
    OBVIOUS
  <2>1. [blk |-> b, sec |-> s, item |-> i] \in SectionRows(b, s)
    BY DEF SectionRows
  <2> QED
    BY <2>1 DEF HasSection
<1>8. \A c \in Blocks : new.hdr[c] >= NoRow
  BY <1>1 DEF StoreInv
<1>9. \A c \in Blocks : new.hdr[c] # NoRow => FetchPG(new, Contents[c]["header"])
  BY <1>1, <1>4 DEF StoreInv, AllPut, FetchPG
<1>10. ASSUME NEW r \in new.rows
       PROVE  /\ new.hdr[r.blk] # NoRow
              /\ r.item \in Contents[r.blk][r.sec] /\ FetchIPLD(new, r.item)
              /\ r.sec \in Indexed
              /\ r.sec = "receipts" => HasSection(new, r.blk, "transactions")
              /\ r.sec = "storage" => HasSection(new, r.blk, "state")
  <2>1. CASE r \in st.rows
    <3>1. r.blk \in Blocks
      BY <1>0, <2>1 DEF Row
    <3> QED
      BY <1>1, <1>4, <1>5, <2>1, <3>1 DEF StoreInv
  <2>2. CASE r \notin st.rows
    <3>1. r.blk = b /\ r.sec \in Secs /\ r.item \in Contents[b][r.sec]
      BY <1>6, <2>2
    <3>2. FetchIPLD(new, r.item)
      BY <1>0, <3>1 DEF AllPut, FetchPG
    <3>3. "transactions" \in Secs /\ "state" \in Secs
      BY DEF Secs
    <3> QED
      BY <1>0, <1>1, <1>7, <3>1, <3>2, <3>3, ResyncAssumption
  <2> QED
    BY <2>1, <2>2
<1>11. ASSUME NEW c \in Blocks, NEW s \in Secs, HasSection(new, c, s)
       PROVE  SectionRows(c, s) \subseteq new.rows
  <2>1. CASE c = b
    BY <2>1
  <2>2. CASE c # b
    <3>1. HasSection(st, c, s)
      BY <1>6, <1>11, <2>2 DEF HasSection
    <3> QED
      BY <3>1 DEF StoreInv
  <2> QED
    BY <2>1, <2>2
<1>12. StoreInv(new)
  BY <1>8, <1>9, <1>10, <1>11 DEF StoreInv
<1> QED
  BY <1>2, <1>3, <1>12

LEMMA BtcIndexKeeps ==
  ASSUME NEW st, NEW new, NEW b \in Blocks, ~eth, StoreInv(st), new \in Store,
         st.ipld \subseteq new.ipld, AllPut(new, b),
         new.hdr = [st.hdr EXCEPT ![b] = IF @ = NoRow THEN 1 ELSE @ + 1],
         new.rows \subseteq st.rows \cup SectionRows(b, "transactions")
  PROVE  StoreInv(new) /\ Later(st, new)
<1>0. /\ st.hdr \in [Blocks -> Int] /\ st.rows \subseteq Row /\ Indexed = {"transactions"}
      /\ "transactions" \in Secs
  BY DEF StoreInv, Store, Indexed, Secs
<1>1. /\ new.hdr[b] >= NoRow /\ new.hdr[b] # NoRow
      /\ \A c \in Blocks : c # b => new.hdr[c] = st.hdr[c]
  BY <1>0 DEF StoreInv, NoRow
<1>2. Later(st, new)
  BY <1>1 DEF Later
<1>4. \A i : FetchIPLD(st, i) => FetchIPLD(new, i)
  BY DEF FetchIPLD
<1>6. \A r \in new.rows \ st.rows : r.blk = b /\ r.sec = "transactions" /\ r.item \in Contents[b]["transactions"]
  BY <1>0, SectionRowsType
<1>8. \A c \in Blocks : new.hdr[c] >= NoRow
  BY <1>1 DEF StoreInv
<1>9. \A c \in Blocks : new.hdr[c] # NoRow => FetchPG(new, Contents[c]["header"])
  BY <1>1, <1>4 DEF StoreInv, AllPut, FetchPG
<1>10. ASSUME NEW r \in new.rows
       PROVE  /\ new.hdr[r.blk] # NoRow
              /\ r.item \in Contents[r.blk][r.sec] /\ FetchIPLD(new, r.item)
              /\ r.sec = "transactions"
  <2>1. CASE r \in st.rows
    <3>1. r.blk \in Blocks
      BY <1>0, <2>1 DEF Row
    <3> QED
      BY <1>0, <1>1, <1>4, <2>1, <3>1 DEF StoreInv
  <2>2. CASE r \notin st.rows
    BY <1>0, <1>1, <1>6, <2>2 DEF AllPut, FetchPG
  <2> QED
    BY <2>1, <2>2
<1>12. StoreInv(new)
  BY <1>0, <1>8, <1>9, <1>10 DEF StoreInv
<1> QED
  BY <1>2, <1>12

\* Publish: in pg mode the block is put and indexed together; in ipfs mode it may
\* be put in part, and goes on to Index only when all of it is put.
LEMMA PublishKeeps ==
  ASSUME StoreInv(store), NEW b \in Blocks, NEW outcome \in Outcomes, Publish(b, outcome)
  PROVE  /\ StoreInv(store') /\ Later(store, store')
         /\ Indexes(outcome) => AllPut(store', b)
         /\ pg /\ eth /\ outcome = "ok" => Restored(store', NumberOf[b])
<1>0. store \in Store
  BY DEF StoreInv
<1>1. CASE pg /\ outcome # "ok"
  BY <1>1 DEF Publish, Later, Indexes
<1>2. CASE pg /\ outcome = "ok" /\ eth
  <2>1. store' = EthPublishAndIndex(store, b)
    BY <1>2 DEF Publish, PublishAndIndex
  <2>2. /\ store' \in Store /\ store.ipld \subseteq store'.ipld /\ AllPut(store', b)
        /\ store'.hdr = [store.hdr EXCEPT ![b] = IF @ = NoRow THEN 1 ELSE @ + 1]
        /\ store'.rows = store.rows \cup UNION {SectionRows(b, s) : s \in Secs}
    BY <1>0, <1>2, <2>1, EthPublishAndIndexEffect
  <2> QED
    BY <1>2, <2>2, EthIndexKeeps DEF Indexes
<1>3. CASE pg /\ outcome = "ok" /\ ~eth
  <2>1. store' = BtcPublishAndIndex(store, b)
    BY <1>3 DEF Publish, PublishAndIndex
  <2>2. /\ store' \in Store /\ store.ipld \subseteq store'.ipld /\ AllPut(store', b)
        /\ store'.hdr = [store.hdr EXCEPT ![b] = IF @ = NoRow THEN 1 ELSE @ + 1]
        /\ store'.rows \subseteq store.rows \cup SectionRows(b, "transactions")
    BY <1>0, <1>3, <2>1, BtcPublishAndIndexEffect
  <2> QED
    BY <1>3, <2>2, BtcIndexKeeps DEF Indexes
<1>4. CASE ~pg
  <2> DEFINE secs == IF eth THEN EthSections ELSE BtcSections
  <2>1. secs \in Seq({"header"} \cup Secs) /\ Len(secs) = NumSections /\ Len(secs) \in Nat
    BY SectionNames DEF NumSections
  <2>2. PICK n \in IF outcome = "ok" THEN {NumSections} ELSE 0..(NumSections - 1) :
          store' = PublishIPFS(store, b, n)
    BY <1>4 DEF Publish
  <2>3. n \in 0..Len(secs) /\ (outcome = "ok" => n = Len(secs))
    BY <2>1, <2>2
  <2>4. store' = Put(store, b, SubSeq(secs, 1, n))
    BY <2>2 DEF PublishIPFS, EthPublish, BtcPublish
  <2> HIDE DEF secs
  <2>5. /\ store' \in Store /\ store'.hdr = store.hdr /\ store'.rows = store.rows
        /\ store.ipld \subseteq store'.ipld
        /\ \A i \in 1..n : FetchPG(store', Contents[b][secs[i]])
    BY <1>0, <2>1, <2>3, <2>4, PutPrefix
  <2>6. StoreInv(store') /\ Later(store, store')
    BY <2>5, PutKeeps
  <2>7. ASSUME outcome = "ok" PROVE AllPut(store', b)
    <3>1. \A i \in 1..Len(secs) : FetchPG(store', Contents[b][secs[i]])
      BY <2>3, <2>5, <2>7
    <3>2. CASE eth
      <4>1. \A i \in 1..6 : FetchPG(store', Contents[b][EthSections[i]])
        BY <3>1, <3>2, SectionNames DEF secs
      <4> QED
        BY <3>2, <4>1, SectionNames DEF AllPut, Indexed, Secs
    <3>3. CASE ~eth
      <4>1. \A i \in 1..2 : FetchPG(store', Contents[b][BtcSections[i]])
        BY <3>1, <3>3, SectionNames DEF secs
      <4> QED
        BY <3>3, <4>1, SectionNames DEF AllPut, Indexed, Secs
    <3> QED
      BY <3>2, <3>3
  <2> QED
    BY <1>4, <2>6, <2>7 DEF Indexes
<1> QED
  BY <1>1, <1>2, <1>3, <1>4

LEMMA IndexKeeps ==
  ASSUME StoreInv(store), NEW b \in Blocks, NEW outcome, AllPut(store, b), Index(b, outcome)
  PROVE  /\ StoreInv(store') /\ Later(store, store')
         /\ eth /\ outcome = "ok" => Restored(store', NumberOf[b])
<1>0. store \in Store
  BY DEF StoreInv
<1>1. CASE outcome # "ok"
  BY <1>1 DEF Index, Later
<1>2. CASE outcome = "ok" /\ eth
  <2>1. store' = EthIndex(store, b)
    BY <1>2 DEF Index, IndexCIDs
  <2>2. /\ store' \in Store /\ store'.ipld = store.ipld
        /\ store'.hdr = [store.hdr EXCEPT ![b] = IF @ = NoRow THEN 1 ELSE @ + 1]
        /\ store'.rows = store.rows \cup UNION {SectionRows(b, s) : s \in Secs}
    BY <1>0, <2>1, EthIndexEffect
  <2>3. AllPut(store', b)
    BY <2>2 DEF AllPut, FetchPG, FetchIPLD
  <2> QED
    BY <1>2, <2>2, <2>3, EthIndexKeeps
<1>3. CASE outcome = "ok" /\ ~eth
  <2>1. store' = BtcIndex(store, b)
    BY <1>3 DEF Index, IndexCIDs
  <2>2. /\ store' \in Store /\ store'.ipld = store.ipld
        /\ store'.hdr = [store.hdr EXCEPT ![b] = IF @ = NoRow THEN 1 ELSE @ + 1]
        /\ store'.rows \subseteq store.rows \cup SectionRows(b, "transactions")
    BY <1>0, <2>1, BtcIndexEffect
  <2>3. AllPut(store', b)
    BY <2>2 DEF AllPut, FetchPG, FetchIPLD
  <2> QED
    BY <1>3, <2>2, <2>3, BtcIndexKeeps
<1> QED
  BY <1>1, <1>2, <1>3

\* A section is cleaned for whole blocks, and with everything that hangs below it.
LEMMA CleanKeeps ==
  ASSUME StoreInv(store), cfg \in Configs,
         store' = IF eth THEN EthClean(store, cfg.range, cfg.type)
                         ELSE BtcClean(store, cfg.range, cfg.type)
  PROVE  StoreInv(store') /\ store'.ipld = store.ipld
<1> DEFINE secs == IF eth THEN EthCleaned(cfg.type) ELSE BtcCleaned(cfg.type)
           rng == cfg.range
<1>0. store \in Store /\ store.hdr \in [Blocks -> Int] /\ store.rows \subseteq Row
  BY DEF StoreInv, Store
<1>1. store' = cleanMetaData(cleanIPLDs(store, secs, rng), secs, rng)
  BY DEF EthClean, BtcClean
<1>2. cfg.type \in {"full", "headers", "uncles", "transactions", "receipts", "state", "storage"}
  BY ResyncAssumption
<1>3. /\ "header" \in secs => Indexed \subseteq secs
      /\ "transactions" \in secs /\ eth => "receipts" \in secs
      /\ "state" \in secs /\ eth => "storage" \in secs
  <2>1. CASE eth
    <3>1. CASE cfg.type \in {"full", "headers"}
      <4>1. secs = {EthSections[i] : i \in DOMAIN EthSections}
        BY <2>1, <3>1 DEF EthCleaned
      <4>2. \A s \in Secs : \E i \in DOMAIN EthSections : EthSections[i] = s
        <5>1. 2 \in 1..6 /\ 3 \in 1..6 /\ 4 \in 1..6 /\ 5 \in 1..6 /\ 6 \in 1..6
          OBVIOUS
        <5> QED
          BY <5>1, SectionNames DEF Secs
      <4>3. Secs \subseteq secs
        BY <4>1, <4>2
      <4> QED
        BY <2>1, <4>3 DEF Indexed, Secs
    <3>2. CASE cfg.type = "transactions"
      <4>1. secs = {"transactions", "receipts"}
        BY <2>1, <3>2 DEF EthCleaned
      <4> QED
        BY <4>1
    <3>3. CASE cfg.type = "state"
      <4>1. secs = {"state", "storage"}
        BY <2>1, <3>3 DEF EthCleaned
      <4> QED
        BY <4>1
    <3>4. CASE cfg.type \in {"uncles", "receipts", "storage"}
      <4>1. secs = {cfg.type}
        BY <2>1, <3>4 DEF EthCleaned
      <4> QED
        BY <3>4, <4>1
    <3> QED
      BY <1>2, <3>1, <3>2, <3>3, <3>4
  <2>2. CASE ~eth
    BY <1>2, <2>2 DEF BtcCleaned, Indexed
  <2> QED
    BY <2>1, <2>2
<1> HIDE DEF secs
<1>4. /\ store' \in Store /\ store'.ipld = store.ipld
      /\ store'.rows = store.rows \ RowsIn(store, secs, rng)
      /\ store'.hdr = [b \in Blocks |-> IF "header" \in secs /\ InRange(b, rng) THEN NoRow
                                        ELSE store.hdr[b]]
  BY <1>0, <1>1, CleanEffect
<1>5. \A i : FetchIPLD(store', i) <=> FetchIPLD(store, i)
  BY <1>4 DEF FetchIPLD
<1>6. \A b \in Blocks : /\ store'.hdr[b] >= NoRow
                        /\ store'.hdr[b] # NoRow => store.hdr[b] # NoRow
  BY <1>4 DEF StoreInv, NoRow
<1>7. \A b \in Blocks, s \in Secs :
        ~(s \in secs /\ InRange(b, rng)) => (HasSection(store', b, s) <=> HasSection(store, b, s))
  BY <1>4 DEF HasSection, RowsIn
<1>8. \A b \in Blocks, s \in Secs : s \in secs /\ InRange(b, rng) => ~HasSection(store', b, s)
  BY <1>4 DEF HasSection, RowsIn
<1>9. ASSUME NEW r \in store'.rows
      PROVE  /\ store'.hdr[r.blk] # NoRow
             /\ r.item \in Contents[r.blk][r.sec] /\ FetchIPLD(store', r.item)
             /\ r.sec \in Indexed
             /\ r.sec = "receipts" => HasSection(store', r.blk, "transactions")
             /\ r.sec = "storage" => HasSection(store', r.blk, "state")
  <2>1. r \in store.rows /\ r.blk \in Blocks /\ ~(r.sec \in secs /\ InRange(r.blk, rng))
    BY <1>0, <1>4 DEF RowsIn, Row
  <2>2. /\ store.hdr[r.blk] # NoRow
        /\ r.item \in Contents[r.blk][r.sec] /\ FetchIPLD(store, r.item)
        /\ r.sec \in Indexed
        /\ r.sec = "receipts" => HasSection(store, r.blk, "transactions")
        /\ r.sec = "storage" => HasSection(store, r.blk, "state")
    BY <2>1 DEF StoreInv
  <2>3. store'.hdr[r.blk] # NoRow
    BY <1>3, <1>4, <2>1, <2>2
  <2>4. "transactions" \in Secs /\ "state" \in Secs /\ (r.sec \in {"receipts", "storage"} => eth)
    BY <2>2 DEF Secs, Indexed
  <2> QED
    BY <1>3, <1>5, <1>7, <2>1, <2>2, <2>3, <2>4
<1>10. ASSUME eth, NEW b \in Blocks, NEW s \in Secs, HasSection(store', b, s)
       PROVE  SectionRows(b, s) \subseteq store'.rows
  <2>1. ~(s \in secs /\ InRange(b, rng))
    BY <1>8, <1>10
  <2>2. SectionRows(b, s) \subseteq store.rows
    BY <1>7, <1>10, <2>1 DEF StoreInv
  <2> QED
    BY <1>4, <2>1, <2>2, SectionRowsType DEF RowsIn
<1> QED
  BY <1>4, <1>5, <1>6, <1>9, <1>10 DEF StoreInv, FetchPG

LEMMA ResetKeeps ==
  ASSUME StoreInv(store), NEW rng, store' = ResetValidation(store, rng)
  PROVE  StoreInv(store') /\ Later(store, store')
<1> DEFINE hdr == [b \in Blocks |-> IF store.hdr[b] # NoRow /\ InRange(b, rng) THEN 0 ELSE store.hdr[b]]
<1>0. store \in Store
  BY DEF StoreInv
<1>1. hdr \in [Blocks -> Int]
  BY <1>0 DEF Store
<1>2. store' = [store EXCEPT !.hdr = hdr]
  BY <1>0 DEF ResetValidation, Store
<1>3. \A b \in Blocks : /\ hdr[b] # NoRow <=> store.hdr[b] # NoRow
                        /\ hdr[b] >= NoRow
  BY DEF StoreInv, NoRow
<1> HIDE DEF hdr
<1>4. /\ store' \in Store /\ store'.hdr = hdr /\ store'.rows = store.rows /\ store'.ipld = store.ipld
  BY <1>0, <1>1, <1>2 DEF Store
<1>5. \A b, s : HasSection(store, b, s) <=> HasSection(store', b, s)
  BY <1>4 DEF HasSection
<1>6. \A i : FetchIPLD(store', i) <=> FetchIPLD(store, i)
  BY <1>4 DEF FetchIPLD
<1>7. \A r \in store.rows : r.blk \in Blocks
  BY <1>0 DEF Store, Row
<1> QED
  BY <1>3, <1>4, <1>5, <1>6, <1>7 DEF StoreInv, Later, FetchPG
-----------------------------------------------------------------------------
(* The steps *)

LEMMA InitIInv == Init => IInv
<1> SUFFICES ASSUME Init PROVE IInv
  OBVIOUS
<1> USE DEF Init
<1>1. TypeInv
  BY EmptySeq DEF TypeInv, WorkerState, Idle, NoRead, None
<1>2. store \in Store /\ store.rows = {} /\ store.hdr = [b \in Blocks |-> NoRow]
  BY DEF EmptyStore, Store, NoRow
<1>3. StoreInv(store)
  BY <1>2 DEF StoreInv, HasSection, NoRow
<1>4. PutInv
  BY DEF PutInv, Idle
<1>5. ReadInv
  BY DEF ReadInv, NoRead, NoTd, FetchPG, None
<1>6. ProgressInv
  BY DEF ProgressInv, Idle
<1> QED
  BY <1>1, <1>3, <1>4, <1>5, <1>6 DEF IInv

LEMMA LaterFacts ==
  ASSUME NEW st, NEW new, Later(st, new)
  PROVE  /\ \A items : FetchPG(st, items) => FetchPG(new, items)
         /\ \A b : AllPut(st, b) => AllPut(new, b)
         /\ eth => \A h : Restored(st, h) => Restored(new, h)
<1>1. \A items : FetchPG(st, items) => FetchPG(new, items)
  BY DEF Later, FetchPG, FetchIPLD
<1> QED
  BY <1>1 DEF AllPut, Restored, Later

\* A transaction that is not Clean's disturbs neither readers nor other writers.
LEMMA LaterStep ==
  ASSUME IInv, cfg' = cfg, StoreInv(store'), Later(store, store'), reader' = reader
  PROVE  /\ StoreInv(store)' /\ ReadInv'
         /\ \A b : AllPut(store, b) => AllPut(store, b)'
         /\ \A b : AllPut(store', b) => AllPut(store, b)'
         /\ eth' = eth
<1>1. eth' = eth /\ Indexed' = Indexed
  BY DEF eth, Indexed
<1>2. StoreInv(store)'
  BY <1>1 DEF StoreInv
<1>3. ReadInv'
  BY LaterFacts DEF IInv, TypeInv, ReadInv, Later
<1>4. \A b : AllPut(store', b) => AllPut(store, b)'
  BY <1>1 DEF AllPut
<1> QED
  BY <1>1, <1>2, <1>3, <1>4, LaterFacts

LEMMA ResetStep == IInv /\ ResyncReset => IInv'
<1> SUFFICES ASSUME IInv, ResyncReset PROVE IInv'
  OBVIOUS
<1>1. /\ UNCHANGED <<cfg, bins, worker, node, reader, lost>> /\ pc = "reset"
      /\ pc' \in {"clean", "failed"}
  BY DEF ResyncReset
<1>2. StoreInv(store') /\ Later(store, store')
  <2>1. CASE store' = store
    BY <2>1 DEF IInv, Later
  <2>2. CASE store' = ResetValidation(store, cfg.range)
    BY <2>2, ResetKeeps DEF IInv
  <2> QED
    BY <2>1, <2>2 DEF ResyncReset
<1>3. /\ StoreInv(store)' /\ ReadInv' /\ \A b : AllPut(store, b) => AllPut(store, b)'
  BY <1>1, <1>2, LaterStep
<1>4. TypeInv' /\ ProgressInv'
  BY <1>1 DEF IInv, TypeInv, ProgressInv
<1>5. PutInv'
  BY <1>1, <1>3 DEF IInv, PutInv
<1> QED
  BY <1>3, <1>4, <1>5 DEF IInv

LEMMA CleanStep == IInv /\ ResyncClean => IInv'
<1> SUFFICES ASSUME IInv, ResyncClean PROVE IInv'
  OBVIOUS
<1>1. /\ UNCHANGED <<cfg, bins, worker, node, reader, lost>> /\ pc = "clean"
      /\ pc' \in {"bins", "failed"}
  BY DEF ResyncClean, vacuumAnalyze
<1>2. /\ StoreInv(store') /\ store'.ipld = store.ipld
      /\ ~cfg.clear => store' = store
  <2>1. CASE store' = store
    BY <2>1 DEF IInv
  <2>2. CASE cfg.clear /\ store' = IF eth THEN EthClean(store, cfg.range, cfg.type)
                                   ELSE BtcClean(store, cfg.range, cfg.type)
    BY <2>2, CleanKeeps DEF IInv, TypeInv
  <2> QED
    BY <2>1, <2>2 DEF ResyncClean
<1>3. eth' = eth /\ Indexed' = Indexed
  BY <1>1 DEF eth, Indexed
<1>4. StoreInv(store)'
  BY <1>2, <1>3 DEF StoreInv
<1>5. \A items : FetchPG(store', items) <=> FetchPG(store, items)
  BY <1>2 DEF FetchPG, FetchIPLD
<1>6. \A b : AllPut(store, b) => AllPut(store, b)'
  BY <1>3, <1>5 DEF AllPut
<1>7. TypeInv' /\ ProgressInv'
  BY <1>1 DEF IInv, TypeInv, ProgressInv
<1>8. PutInv'
  BY <1>1, <1>6 DEF IInv, PutInv
<1>9. ReadInv'
  BY <1>1, <1>2, <1>5 DEF IInv, ReadInv
<1> QED
  BY <1>4, <1>7, <1>8, <1>9 DEF IInv
-----------------------------------------------------------------------------
(* GetBlockHeightBins *)

LEMMA DivMod ==
  ASSUME NEW a \in Nat, NEW b \in Nat \ {0}
  PROVE  /\ a \div b \in Nat /\ a % b \in 0..(b - 1)
         /\ a = (a \div b) * b + (a % b)
OBVIOUS

LEMMA TimesMonotonic ==
  ASSUME NEW a \in Int, NEW b \in Int, NEW c \in Nat, a <= b
  PROVE  a * c \in Int /\ b * c \in Int /\ a * c <= b * c
OBVIOUS

LEMMA TimesNext ==
  ASSUME NEW a \in Int, NEW c \in Int
  PROVE  a * c \in Int /\ (a + 1) * c = a * c + c /\ (a - 1) * c = a * c - c
OBVIOUS

\* The bins of a range leave none of it out (that they are disjoint is proved with
\* the storage backfiller, which needs it).
LEMMA BinsCover ==
  ASSUME NEW s \in Nat, NEW e \in Nat, s <= e, NEW b \in Nat \ {0}
  PROVE  LET B == GetBlockHeightBins(s, e, b)
         IN  /\ B \in Seq(SUBSET Int)
             /\ \A h \in s..e : \E i \in DOMAIN B : h \in B[i]
<1> DEFINE len == e - s + 1
           n == len \div b + (IF len % b # 0 THEN 1 ELSE 0)
           B == GetBlockHeightBins(s, e, b)
<1>1. len \in Nat \ {0}
  OBVIOUS
<1>2. /\ len \div b \in Nat /\ len % b \in 0..(b - 1)
      /\ len = (len \div b) * b + (len % b)
  BY <1>1, DivMod
<1>3. n \in Nat /\ n >= 1
  BY <1>1, <1>2, TimesNext
<1>4. DOMAIN B = 1..n
  BY DEF GetBlockHeightBins
<1>5. \A i \in 1..n : B[i] = {j \in (s + (i - 1) * b)..(s + (i - 1) * b + b - 1) : j <= e}
  BY DEF GetBlockHeightBins
<1>6. \A i \in 1..n : (i - 1) * b \in Nat
  <2> SUFFICES ASSUME NEW i \in 1..n PROVE (i - 1) * b \in Nat
    OBVIOUS
  <2>1. i - 1 \in Nat /\ b \in Nat
    BY <1>3
  <2> QED
    BY <2>1
<1>7. B \in [1..n -> SUBSET Int]
  BY <1>3, <1>4, <1>5, <1>6 DEF GetBlockHeightBins
<1>8. B \in Seq(SUBSET Int)
  BY <1>3, <1>7, SeqDef
<1> HIDE DEF B, n, len
<1>9. ASSUME NEW j \in s..e PROVE \E i \in 1..n : j \in B[i]
  <2> DEFINE q == (j - s) \div b
  <2>1. /\ q \in Nat /\ (j - s) % b \in 0..(b - 1)
        /\ j - s = q * b + ((j - s) % b) /\ q * b \in Int
    BY DivMod
  <2> HIDE DEF q
  <2>2. q + 1 <= n
    <3>1. CASE q >= n
      <4>1. n * b <= q * b /\ n * b \in Int
        BY <1>3, <2>1, <3>1, TimesMonotonic
      <4>2. len % b # 0 => n * b = (len \div b) * b + b
        BY <1>2, TimesNext DEF n
      <4>3. len % b = 0 => n * b = (len \div b) * b
        BY <1>2 DEF n
      <4>4. (len \div b) * b \in Int
        BY <1>2
      <4>5. n * b >= len
        BY <1>1, <1>2, <4>1, <4>2, <4>3, <4>4
      <4> QED
        BY <2>1, <4>1, <4>5 DEF len
    <3> QED
      BY <1>3, <2>1, <3>1
  <2>3. q + 1 \in 1..n /\ (q + 1) - 1 = q
    BY <1>3, <2>1, <2>2
  <2>4. j \in B[q + 1]
    BY <1>5, <2>1, <2>3
  <2> QED
    BY <2>3, <2>4
<1> QED
  BY <1>4, <1>8, <1>9 DEF B
-----------------------------------------------------------------------------
LEMMA MakeBinsStep == IInv /\ MakeBins => IInv'
<1> SUFFICES ASSUME IInv, MakeBins PROVE IInv'
  OBVIOUS
<1> USE DEF IInv
<1>1. /\ UNCHANGED <<cfg, store, worker, node, reader, lost>> /\ pc = "bins" /\ pc' = "send"
  BY DEF MakeBins
<1>2. cfg.range[1] \in Nat /\ cfg.range[2] \in Nat /\ cfg.batch \in Nat \ {0}
  BY ResyncAssumption DEF TypeInv
<1>3. /\ bins' \in Seq(SUBSET Int)
      /\ \A h \in cfg.range[1]..cfg.range[2] : \E i \in DOMAIN bins' : h \in bins'[i]
  <2>1. CASE cfg.range[2] < cfg.range[1]
    BY <1>2, <2>1, EmptySeq DEF MakeBins
  <2>2. CASE ~(cfg.range[2] < cfg.range[1])
    <3>1. cfg.range[1] <= cfg.range[2]
      BY <1>2, <2>2
    <3>2. bins' = GetBlockHeightBins(cfg.range[1], cfg.range[2], cfg.batch)
      BY <2>2 DEF MakeBins
    <3> QED
      BY <1>2, <3>1, <3>2, BinsCover
  <2> QED
    BY <2>1, <2>2
<1>4. eth' = eth /\ Indexed' = Indexed /\ (\A b : AllPut(store, b)' = AllPut(store, b))
  BY <1>1 DEF eth, Indexed, AllPut
<1>5. StoreInv(store)' /\ ReadInv' /\ PutInv'
  BY <1>1, <1>4 DEF StoreInv, ReadInv, PutInv
<1>6. TypeInv'
  BY <1>1, <1>3 DEF TypeInv
<1>7. ProgressInv'
  BY <1>1, <1>3 DEF ProgressInv
<1> QED
  BY <1>5, <1>6, <1>7

\* The sections go to idle workers, and only idle workers quit.
LEMMA SendStep ==
  ASSUME IInv, (\E w \in Workers : SendBin(w) \/ SendQuit(w)) \/ Return
  PROVE  IInv'
<1> USE DEF IInv
<1>1. UNCHANGED <<cfg, store, node, reader, lost>> /\ pc = "send"
  BY DEF SendBin, SendQuit, Return
<1>2. eth' = eth /\ Indexed' = Indexed /\ (\A b : AllPut(store, b)' = AllPut(store, b))
  BY <1>1 DEF eth, Indexed, AllPut
<1>3. StoreInv(store)' /\ ReadInv'
  BY <1>1, <1>2 DEF StoreInv, ReadInv
<1>4. ASSUME NEW w \in Workers, SendBin(w) PROVE TypeInv' /\ PutInv' /\ ProgressInv'
  <2>1. /\ bins # <<>> /\ worker[w].pc = "idle" /\ pc' = "send" /\ bins' = Tail(bins)
        /\ worker' = [worker EXCEPT ![w].pc = "fetch", ![w].todo = Head(bins)]
    BY <1>1, <1>4 DEF SendBin
  <2>2. /\ Len(bins) \in Nat /\ Len(bins) >= 1 /\ DOMAIN bins = 1..Len(bins)
        /\ Head(bins) = bins[1] /\ Head(bins) \in SUBSET Int /\ bins' \in Seq(SUBSET Int)
        /\ DOMAIN bins' = 1..(Len(bins) - 1)
        /\ \A i \in 1..(Len(bins) - 1) : bins'[i] = bins[i + 1]
    <3>1. bins \in Seq(SUBSET Int)
      BY DEF TypeInv
    <3> QED
      BY <2>1, <3>1, HeadTailProperties, LenProperties, EmptySeq
  <2>3. /\ worker'[w].pc = "fetch" /\ worker'[w].todo = Head(bins)
        /\ \A v \in Workers : v # w => worker'[v] = worker[v]
        /\ worker' \in [Workers -> WorkerState]
    <3>1. worker' = [worker EXCEPT ![w] = [worker[w] EXCEPT !.pc = "fetch", !.todo = Head(bins)]]
      BY <2>1
    <3>2. /\ worker[w] \in WorkerState
          /\ Head(bins) \in SUBSET Int
      BY <2>2 DEF TypeInv
    <3> QED
      BY <3>1, <3>2 DEF TypeInv, WorkerState
  <2>4. TypeInv'
    BY <1>1, <2>1, <2>2, <2>3 DEF TypeInv
  <2>5. PutInv'
    BY <1>1, <1>2, <2>3 DEF PutInv
  <2>6. \A i \in DOMAIN bins : \A h \in bins[i] : h \in worker'[w].todo \/ \E j \in DOMAIN bins' : h \in bins'[j]
    <3> SUFFICES ASSUME NEW i \in DOMAIN bins, NEW h \in bins[i], i # 1
                 PROVE  \E j \in DOMAIN bins' : h \in bins'[j]
      BY <2>2, <2>3
    <3>1. i - 1 \in 1..(Len(bins) - 1) /\ (i - 1) + 1 = i
      BY <2>2
    <3> QED
      BY <2>2, <3>1
  <2>7. \A v \in Workers : worker'[v].pc \in {"idle", "quit"} => worker'[v].todo = {}
    BY <2>3 DEF ProgressInv
  <2>8. \A v \in Workers : worker[v].todo \subseteq worker'[v].todo
    BY <2>1, <2>3 DEF ProgressInv
  <2>9. \A v \in Workers : worker[v].pc = "index" => worker'[v] = worker[v]
    BY <2>1, <2>3
  <2>10. ProgressInv'
    <3> SUFFICES ASSUME eth, NEW h \in cfg.range[1]..cfg.range[2]
                 PROVE  \/ h \in lost \/ Restored(store, h)
                        \/ \E i \in DOMAIN bins' : h \in bins'[i]
                        \/ \E v \in Workers :
                             \/ h \in worker'[v].todo
                             \/ worker'[v].pc = "index" /\ NumberOf[worker'[v].block] = h
      BY <1>1, <1>2, <2>1, <2>7 DEF ProgressInv
    <3>1. \/ h \in lost \/ Restored(store, h)
          \/ \E i \in DOMAIN bins : h \in bins[i]
          \/ \E v \in Workers : \/ h \in worker[v].todo
                                \/ worker[v].pc = "index" /\ NumberOf[worker[v].block] = h
      BY <1>1 DEF ProgressInv
    <3> QED
      BY <2>6, <2>8, <2>9, <3>1
  <2> QED
    BY <2>4, <2>5, <2>10
<1>5. ASSUME NEW w \in Workers, SendQuit(w) PROVE TypeInv' /\ PutInv' /\ ProgressInv'
  <2>1. /\ bins = <<>> /\ worker[w].pc = "idle" /\ pc' = "send" /\ bins' = bins
        /\ worker' = [worker EXCEPT ![w].pc = "quit"]
    BY <1>1, <1>5 DEF SendQuit
  <2>2. /\ worker'[w] = [worker[w] EXCEPT !.pc = "quit"] /\ worker'[w].todo = worker[w].todo
        /\ worker'[w].pc = "quit"
        /\ \A v \in Workers : v # w => worker'[v] = worker[v]
        /\ worker' \in [Workers -> WorkerState]
    BY <2>1 DEF TypeInv, WorkerState
  <2>3. TypeInv'
    BY <1>1, <2>1, <2>2 DEF TypeInv
  <2>4. PutInv'
    BY <1>1, <1>2, <2>2 DEF PutInv
  <2>5. /\ \A v \in Workers : worker'[v].todo = worker[v].todo
        /\ \A v \in Workers : worker[v].pc = "index" => worker'[v] = worker[v]
        /\ \A v \in Workers : worker'[v].pc \in {"idle", "quit"} => worker'[v].todo = {}
    BY <2>1, <2>2 DEF ProgressInv
  <2>6. ProgressInv'
    BY <1>1, <1>2, <2>1, <2>5 DEF ProgressInv
  <2> QED
    BY <2>3, <2>4, <2>6
<1>6. CASE Return
  <2>1. /\ bins = <<>> /\ pc' = "done" /\ UNCHANGED <<bins, worker>>
        /\ \A w \in Workers : worker[w].pc = "quit"
    BY <1>6 DEF Return
  <2>2. TypeInv' /\ PutInv'
    BY <1>1, <1>2, <2>1 DEF TypeInv, PutInv
  <2>3. ProgressInv'
    BY <1>1, <1>2, <2>1 DEF ProgressInv
  <2> QED
    BY <1>3, <2>2, <2>3
<1> QED
  BY <1>3, <1>4, <1>5, <1>6
-----------------------------------------------------------------------------
(* The workers and the node *)

Has(w, h) == h \in w.todo \/ (w.pc = "index" /\ NumberOf[w.block] = h)

\* A worker's step accounts for the heights the worker has.
LEMMA WorkerProgress ==
  ASSUME IInv, NEW w \in Workers, cfg' = cfg, UNCHANGED <<pc, bins>>,
         Later(store, store'), lost \subseteq lost',
         worker[w].pc \notin {"idle", "quit"}, worker'[w].pc # "quit",
         worker'[w].pc = "idle" => worker'[w].todo = {},
         \A v \in Workers : v # w => worker'[v] = worker[v],
         eth => \A h : Has(worker[w], h) => \/ h \in lost' \/ Restored(store', h)
                                            \/ Has(worker'[w], h)
  PROVE  ProgressInv'
<1> USE DEF IInv
<1>1. eth' = eth
  BY DEF eth
<1>2. pc # "done"
  BY DEF ProgressInv
<1>3. \A v \in Workers : worker'[v].pc \in {"idle", "quit"} => worker'[v].todo = {}
  BY DEF ProgressInv
<1> SUFFICES ASSUME eth, pc \in {"send", "done"}, NEW h \in cfg.range[1]..cfg.range[2]
             PROVE  \/ h \in lost' \/ Restored(store', h)
                    \/ \E i \in DOMAIN bins : h \in bins[i]
                    \/ \E v \in Workers : Has(worker'[v], h)
  BY <1>1, <1>2, <1>3 DEF ProgressInv, Has
<1>4. \/ h \in lost \/ Restored(store, h)
      \/ \E i \in DOMAIN bins : h \in bins[i]
      \/ \E v \in Workers : Has(worker[v], h)
  BY DEF ProgressInv, Has
<1>5. Restored(store, h) => Restored(store', h)
  BY LaterFacts
<1>6. ASSUME NEW v \in Workers, Has(worker[v], h)
      PROVE  \/ h \in lost' \/ Restored(store', h) \/ Has(worker'[v], h)
  BY <1>6
<1> QED
  BY <1>4, <1>5, <1>6

LEMMA WorkerFetchStep ==
  ASSUME IInv, NEW w \in Workers, WorkerFetch(w) PROVE IInv'
<1> USE DEF IInv
<1>1. UNCHANGED <<cfg, store, pc, bins, node, reader>> /\ worker[w].pc = "fetch"
  BY DEF WorkerFetch
<1>2. PICK payloads \in {worker[w].todo, {}} :
        /\ worker' = [worker EXCEPT ![w] = IF payloads = {} THEN Idle ELSE [@ EXCEPT !.pc = "publish"]]
        /\ lost' = lost \cup (worker[w].todo \ payloads)
  BY DEF WorkerFetch, FetchAt, EthFetchAt, BtcFetchAt
<1>3. worker[w] \in WorkerState /\ worker \in [Workers -> WorkerState]
  BY DEF TypeInv
<1>4. \A v \in Workers : v # w => worker'[v] = worker[v]
  BY <1>2, <1>3
<1>5. worker'[w] = IF payloads = {} THEN Idle ELSE [worker[w] EXCEPT !.pc = "publish"]
  BY <1>2, <1>3
<1>6. /\ worker'[w] \in WorkerState /\ worker'[w].pc \in {"idle", "publish"}
      /\ worker'[w].pc = "idle" => worker'[w].todo = {}
      /\ \A h \in worker[w].todo : h \in lost' \/ h \in worker'[w].todo
  BY <1>2, <1>3, <1>5 DEF WorkerState, Idle
<1>7. worker' \in [Workers -> WorkerState]
  BY <1>2, <1>3, <1>4, <1>6
<1>8. StoreInv(store') /\ Later(store, store')
  BY <1>1 DEF Later
<1>9. /\ StoreInv(store)' /\ ReadInv' /\ \A b : AllPut(store, b) => AllPut(store, b)'
  BY <1>1, <1>8, LaterStep
<1>10. TypeInv'
  BY <1>1, <1>7 DEF TypeInv
<1>11. PutInv'
  BY <1>1, <1>4, <1>6, <1>9 DEF PutInv
<1>12. ProgressInv'
  <2>1. \A h : Has(worker[w], h) => h \in lost' \/ Has(worker'[w], h)
    BY <1>1, <1>6 DEF Has
  <2>2. lost \subseteq lost'
    BY <1>2
  <2> HIDE DEF IInv
  <2> QED
    BY <1>1, <1>4, <1>6, <1>8, <2>1, <2>2, WorkerProgress
<1> QED
  BY <1>9, <1>10, <1>11, <1>12

LEMMA WorkerPublishStep ==
  ASSUME IInv, NEW w \in Workers, WorkerPublish(w) PROVE IInv'
<1> USE DEF IInv
<1>1. UNCHANGED <<cfg, pc, bins, node, reader>> /\ worker[w].pc = "publish"
  BY DEF WorkerPublish
<1> DEFINE height == NextHeight(worker[w].todo)
<1>2. PICK b \in Blocks, outcome \in Outcomes :
           /\ NumberOf[b] = height
           /\ Publish(b, outcome)
           /\ worker' = [worker EXCEPT ![w].todo = @ \ {height},
                           ![w].block = IF Indexes(outcome) THEN b ELSE None,
                           ![w].pc = IF Indexes(outcome) THEN "index" ELSE "publish"]
           /\ Stored(height, outcome)
  BY DEF WorkerPublish
<1> HIDE DEF height
<1>3. worker[w] \in WorkerState /\ worker \in [Workers -> WorkerState]
  BY DEF TypeInv
<1>4. \A v \in Workers : v # w => worker'[v] = worker[v]
  BY <1>2, <1>3
<1>5. worker'[w] = [worker[w] EXCEPT !.todo = @ \ {height},
                      !.block = IF Indexes(outcome) THEN b ELSE None,
                      !.pc = IF Indexes(outcome) THEN "index" ELSE "publish"]
  BY <1>2, <1>3
<1>6. /\ worker'[w] \in WorkerState /\ worker'[w].todo = worker[w].todo \ {height}
      /\ worker'[w].pc = IF Indexes(outcome) THEN "index" ELSE "publish"
      /\ worker'[w].block = IF Indexes(outcome) THEN b ELSE None
  BY <1>3, <1>5 DEF WorkerState
<1>7. worker' \in [Workers -> WorkerState]
  BY <1>2, <1>3, <1>4, <1>6
<1>8. /\ StoreInv(store') /\ Later(store, store')
      /\ Indexes(outcome) => AllPut(store', b)
      /\ pg /\ eth /\ outcome = "ok" => Restored(store', NumberOf[b])
  BY <1>2, PublishKeeps
<1>9. /\ StoreInv(store)' /\ ReadInv' /\ \A c : AllPut(store, c) => AllPut(store, c)'
      /\ \A c : AllPut(store', c) => AllPut(store, c)'
  BY <1>1, <1>8, LaterStep
<1>10. TypeInv'
  BY <1>1, <1>7 DEF TypeInv
<1>11. PutInv'
  BY <1>1, <1>4, <1>6, <1>8, <1>9 DEF PutInv
<1>12. ProgressInv'
  <2>1. ASSUME eth, NEW h, Has(worker[w], h)
        PROVE  h \in lost' \/ Restored(store', h) \/ Has(worker'[w], h)
    <3>1. h \in worker[w].todo
      BY <1>1, <2>1 DEF Has
    <3>2. CASE h # height
      BY <1>6, <3>1, <3>2 DEF Has
    <3>3. CASE h = height /\ outcome # "ok"
      BY <1>2, <3>3 DEF Stored
    <3>4. CASE h = height /\ outcome = "ok" /\ pg
      BY <1>2, <1>8, <2>1, <3>4
    <3>5. CASE h = height /\ outcome = "ok" /\ ~pg
      BY <1>2, <1>6, <3>5 DEF Has, Indexes
    <3> QED
      BY <3>2, <3>3, <3>4, <3>5
  <2>2. lost \subseteq lost'
    BY <1>2 DEF Stored
  <2>3. worker'[w].pc \in {"index", "publish"}
    BY <1>6
  <2> HIDE DEF IInv
  <2> QED
    BY <1>1, <1>4, <1>8, <2>1, <2>2, <2>3, WorkerProgress
<1> QED
  BY <1>9, <1>10, <1>11, <1>12

LEMMA WorkerIndexStep ==
  ASSUME IInv, NEW w \in Workers, WorkerIndex(w) PROVE IInv'
<1> USE DEF IInv
<1>1. UNCHANGED <<cfg, pc, bins, node, reader>> /\ worker[w].pc = "index"
  BY DEF WorkerIndex
<1> DEFINE b == worker[w].block
<1>2. PICK outcome \in Outcomes : Index(b, outcome) /\ Stored(NumberOf[b], outcome)
  BY DEF WorkerIndex
<1>a. b \in Blocks /\ AllPut(store, b)
  BY <1>1 DEF PutInv
<1>3. worker[w] \in WorkerState /\ worker \in [Workers -> WorkerState]
  BY DEF TypeInv
<1>4. worker' = [worker EXCEPT ![w].pc = "publish", ![w].block = None]
  BY DEF WorkerIndex
<1>5. /\ \A v \in Workers : v # w => worker'[v] = worker[v]
      /\ worker'[w] = [worker[w] EXCEPT !.pc = "publish", !.block = None]
  BY <1>3, <1>4
<1>6. worker'[w] \in WorkerState /\ worker'[w].todo = worker[w].todo /\ worker'[w].pc = "publish"
  BY <1>3, <1>5 DEF WorkerState
<1>7. worker' \in [Workers -> WorkerState]
  BY <1>3, <1>4, <1>5, <1>6
<1>8. /\ StoreInv(store') /\ Later(store, store')
      /\ eth /\ outcome = "ok" => Restored(store', NumberOf[b])
  BY <1>2, <1>a, IndexKeeps
<1>9. /\ StoreInv(store)' /\ ReadInv' /\ \A c : AllPut(store, c) => AllPut(store, c)'
  BY <1>1, <1>8, LaterStep
<1>10. TypeInv'
  BY <1>1, <1>7 DEF TypeInv
<1>11. PutInv'
  BY <1>1, <1>5, <1>6, <1>9 DEF PutInv
<1>12. ProgressInv'
  <2>1. ASSUME eth, NEW h, Has(worker[w], h)
        PROVE  h \in lost' \/ Restored(store', h) \/ Has(worker'[w], h)
    BY <1>2, <1>6, <1>8, <2>1 DEF Has, Stored
  <2>2. lost \subseteq lost'
    BY <1>2 DEF Stored
  <2> HIDE DEF IInv
  <2> QED
    BY <1>1, <1>5, <1>6, <1>8, <2>1, <2>2, WorkerProgress
<1> QED
  BY <1>9, <1>10, <1>11, <1>12

LEMMA WorkerFinishStep ==
  ASSUME IInv, NEW w \in Workers, WorkerFinish(w) PROVE IInv'
<1> USE DEF IInv
<1>1. /\ UNCHANGED <<cfg, store, pc, bins, node, reader, lost>> /\ worker[w].pc = "publish"
      /\ worker[w].todo = {} /\ worker' = [worker EXCEPT ![w] = Idle]
  BY DEF WorkerFinish
<1>3. worker[w] \in WorkerState /\ worker \in [Workers -> WorkerState]
  BY DEF TypeInv
<1>5. /\ \A v \in Workers : v # w => worker'[v] = worker[v]
      /\ worker'[w] = Idle
  BY <1>1, <1>3
<1>6. worker'[w] \in WorkerState /\ worker'[w].todo = {} /\ worker'[w].pc = "idle"
  BY <1>5 DEF WorkerState, Idle
<1>7. worker' \in [Workers -> WorkerState]
  BY <1>1, <1>3, <1>6
<1>8. StoreInv(store') /\ Later(store, store')
  BY <1>1 DEF Later
<1>9. /\ StoreInv(store)' /\ ReadInv' /\ \A c : AllPut(store, c) => AllPut(store, c)'
  BY <1>1, <1>8, LaterStep
<1>10. TypeInv'
  BY <1>1, <1>7 DEF TypeInv
<1>11. PutInv'
  BY <1>1, <1>5, <1>6, <1>9 DEF PutInv
<1>12. ProgressInv'
  <2>1. \A h : ~Has(worker[w], h)
    BY <1>1 DEF Has
  <2> HIDE DEF IInv
  <2> QED
    BY <1>1, <1>5, <1>6, <1>8, <2>1, WorkerProgress
<1> QED
  BY <1>9, <1>10, <1>11, <1>12

\* The node's transactions only add to what resync has restored.
LEMMA NodeStep == IInv /\ (NodePublish \/ NodeIndex) => IInv'
<1> SUFFICES ASSUME IInv, NodePublish \/ NodeIndex PROVE IInv'
  OBVIOUS
<1> USE DEF IInv
<1>1. UNCHANGED <<cfg, pc, bins, worker, reader, lost>>
  BY DEF NodePublish, NodeIndex
<1>2. /\ StoreInv(store') /\ Later(store, store')
      /\ node' \in Blocks \cup {None} /\ (node' # None => AllPut(store', node'))
  <2>1. CASE NodePublish
    <3>1. PICK b \in Blocks, outcome \in Outcomes :
            Publish(b, outcome) /\ node' = IF Indexes(outcome) THEN b ELSE None
      BY <2>1 DEF NodePublish
    <3> QED
      BY <3>1, PublishKeeps
  <2>2. CASE NodeIndex
    <3>1. PICK outcome \in {"ok", "error"} : Index(node, outcome)
      BY <2>2 DEF NodeIndex
    <3>2. node \in Blocks /\ AllPut(store, node) /\ node' = None
      BY <2>2 DEF NodeIndex, TypeInv, PutInv
    <3> QED
      BY <3>1, <3>2, IndexKeeps
  <2> QED
    BY <2>1, <2>2
<1>3. /\ StoreInv(store)' /\ ReadInv' /\ eth' = eth
      /\ \A b : AllPut(store, b) => AllPut(store, b)'
      /\ \A b : AllPut(store', b) => AllPut(store, b)'
  BY <1>1, <1>2, LaterStep
<1>4. TypeInv'
  BY <1>1, <1>2 DEF TypeInv
<1>5. PutInv'
  BY <1>1, <1>2, <1>3 DEF PutInv
<1>6. eth => \A h : Restored(store, h) => Restored(store', h)
  BY <1>2, LaterFacts
<1>7. ProgressInv'
  BY <1>1, <1>3, <1>6 DEF ProgressInv
<1> QED
  BY <1>3, <1>4, <1>5, <1>7
-----------------------------------------------------------------------------
(* Readers *)

LEMMA FetchSucceeds ==
  ASSUME IInv PROVE Fetch(reader.items)
<1>1. \A i \in reader.items : FetchIPLD(store, i)
  BY DEF IInv, ReadInv, FetchPG
<1> QED
  BY <1>1 DEF Fetch, FetchPG, FetchIPFS, fetchBatch, BtcFetchPG, BtcFetchIPFS

LEMMA ReaderFields ==
  ASSUME NEW B, NEW N, NEW z \in Int, NEW e \in SUBSET N,
         NEW r \in [block : B, read : Int, items : SUBSET N]
  PROVE  /\ [r EXCEPT !.read = z, !.items = e] \in [block : B, read : Int, items : SUBSET N]
         /\ [r EXCEPT !.read = z, !.items = e].block = r.block
         /\ [r EXCEPT !.read = z, !.items = e].read = z
         /\ [r EXCEPT !.read = z, !.items = e].items = e
OBVIOUS

LEMMA ReaderStep == IInv /\ Reader => IInv'
<1> SUFFICES ASSUME IInv, Reader PROVE IInv'
  OBVIOUS
<1> USE DEF IInv
<1>1. UNCHANGED <<cfg, store, pc, bins, worker, node, lost>>
  BY DEF Reader, BlockByNumber, BlockByHash, GetTransaction, RetrieveSection, HeaderByNumber,
         FetchBlock, FetchAll, rpcMarshalBlock
<1>2. eth' = eth /\ Indexed' = Indexed /\ (\A b : AllPut(store, b)' = AllPut(store, b))
  BY <1>1 DEF eth, Indexed, AllPut
<1>3. StoreInv(store)' /\ PutInv' /\ ProgressInv'
  BY <1>1, <1>2 DEF StoreInv, PutInv, ProgressInv
<1> DEFINE ReaderState == [block : Blocks \cup {None}, read : Int, items : SUBSET Node]
           Good(r) == /\ r \in ReaderState /\ FetchPG(store, r.items) /\ r.read >= 0
                      /\ ~cfg.clear => /\ r # NoTd
                                       /\ r.block # None => store.hdr[r.block] # NoRow
<1>4. Good(reader)
  BY DEF TypeInv, ReadInv
<1>5. Good(NoRead)
  BY DEF NoRead, NoTd, FetchPG
<1>a. None \notin Blocks /\ store \in Store
  BY ResyncAssumption DEF None, StoreInv
<1>6. ASSUME NEW b \in Blocks, store.hdr[b] # NoRow, StartRead(b) PROVE Good(reader')
  <2>1. reader' = [block |-> b, read |-> 1, items |-> Contents[b]["header"]]
    BY <1>6 DEF StartRead
  <2>2. FetchPG(store, Contents[b]["header"]) /\ Contents[b]["header"] \subseteq Node
    BY <1>6, Nodes DEF StoreInv
  <2>3. reader' # NoTd
    BY <1>a, <2>1 DEF NoTd, NoRead
  <2> QED
    BY <1>6, <2>1, <2>2, <2>3
<1>7. ASSUME BlockByNumber PROVE Good(reader')
  BY <1>6, <1>7 DEF BlockByNumber, RetrieveHeaderCIDs
<1>8. ASSUME BlockByHash PROVE Good(reader')
  BY <1>6, <1>8 DEF BlockByHash, RetrieveHeaderCIDByHash
<1>9. ASSUME GetTransaction PROVE Good(reader')
  <2>1. PICK r \in store.rows : /\ store.hdr[r.blk] # NoRow
                                /\ reader' = [block |-> r.blk, read |-> NumSections, items |-> {r.item}]
    BY <1>9 DEF GetTransaction
  <2>2. r.blk \in Blocks /\ r.item \in Node /\ FetchIPLD(store, r.item)
    BY <1>a DEF StoreInv, Store, Row
  <2>3. NumSections \in Nat
    BY SectionNames DEF NumSections
  <2>4. reader' # NoTd
    BY <1>a, <2>1, <2>2 DEF NoTd, NoRead
  <2> QED
    BY <2>1, <2>2, <2>3, <2>4 DEF FetchPG
<1>10. ASSUME RetrieveSection PROVE Good(reader')
  <2> DEFINE sec == (IF eth THEN EthSections ELSE BtcSections)[reader.read + 1]
             new == RetrieveCIDs(store, reader.block, sec)
  <2>1. /\ reader.block # None
        /\ reader' = [reader EXCEPT !.read = @ + 1, !.items = @ \cup new]
    BY <1>10 DEF RetrieveSection
  <2>2. \A i \in new : i \in Node /\ FetchIPLD(store, i)
    BY <1>a DEF RetrieveCIDs, StoreInv, Store, Row
  <2>a. new \subseteq Node /\ reader \in ReaderState
    BY <1>4, <2>2
  <2> HIDE DEF new
  <2>b. reader.items \cup new \in SUBSET Node /\ reader.read + 1 \in Int
    BY <2>a
  <2>3. /\ reader'.block = reader.block /\ reader'.read = reader.read + 1
        /\ reader'.items = reader.items \cup new /\ reader' \in ReaderState
    BY <2>1, <2>a, <2>b
  <2>4. reader' # NoTd
    BY <2>1, <2>3 DEF NoTd, NoRead
  <2> QED
    BY <1>4, <2>2, <2>3, <2>4 DEF FetchPG
<1>11. Good(Marshal) \/ reader.block = None
  <2>1. /\ Marshal \in ReaderState /\ Marshal.items = {} /\ Marshal.read = 0
        /\ Marshal.block = reader.block
    <3>1. reader \in ReaderState /\ {} \in SUBSET Node /\ 0 \in Int
      BY <1>4
    <3> QED
      BY <3>1, ReaderFields DEF Marshal
  <2>2. reader.block # None => Marshal # NoTd
    BY <2>1 DEF NoTd, NoRead
  <2> QED
    BY <1>4, <2>1, <2>2 DEF FetchPG
<1>12. ASSUME HeaderByNumber PROVE Good(reader')
  BY <1>11, <1>12, FetchSucceeds DEF HeaderByNumber, FetchThen
<1>13. ASSUME FetchBlock PROVE Good(reader')
  BY <1>11, <1>13, FetchSucceeds DEF FetchBlock, FetchThen
<1>14. ASSUME FetchAll PROVE Good(reader')
  BY <1>5, <1>14, FetchSucceeds DEF FetchAll, FetchThen
<1>15. ASSUME rpcMarshalBlock PROVE Good(reader')
  <2>1. CASE reader' = NoRead
    BY <1>5, <2>1
  <2>2. CASE ~GetTd(store, reader.block) /\ reader' = NoTd
    <3>1. reader.block # None /\ store.hdr[reader.block] = NoRow
      BY <1>15, <2>2 DEF rpcMarshalBlock, GetTd
    <3>2. cfg.clear
      BY <1>4, <3>1
    <3>3. NoTd \in ReaderState /\ NoTd.items = {} /\ NoTd.read = 0
      BY DEF NoTd, NoRead
    <3> QED
      BY <2>2, <3>2, <3>3 DEF FetchPG
  <2> QED
    BY <1>15, <2>1, <2>2 DEF rpcMarshalBlock
<1>16. Good(reader')
  BY <1>7, <1>8, <1>9, <1>10, <1>12, <1>13, <1>14, <1>15 DEF Reader
<1>17. TypeInv' /\ ReadInv'
  BY <1>1, <1>16 DEF TypeInv, ReadInv
<1> QED
  BY <1>3, <1>17
-----------------------------------------------------------------------------
LEMMA StutterStep == IInv /\ UNCHANGED vars => IInv'
<1> SUFFICES ASSUME IInv, UNCHANGED vars PROVE IInv'
  OBVIOUS
<1>1. UNCHANGED <<cfg, store, pc, bins, worker, node, reader, lost>>
  BY DEF vars
<1>2. eth' = eth /\ Indexed' = Indexed /\ (\A b : AllPut(store, b)' = AllPut(store, b))
  BY <1>1 DEF eth, Indexed, AllPut
<1> QED
  BY <1>1, <1>2 DEF IInv, TypeInv, StoreInv, PutInv, ReadInv, ProgressInv

\* Resync, its workers, the node and the readers keep to IInv.
THEOREM Inductive == Spec => []IInv
<1>1. IInv /\ Next => IInv'
  <2>1. IInv /\ MainStep => IInv'
    BY ResetStep, CleanStep, MakeBinsStep, SendStep DEF MainStep
  <2>2. ASSUME NEW w \in Workers PROVE IInv /\ WorkerStep(w) => IInv'
    BY WorkerFetchStep, WorkerPublishStep, WorkerIndexStep, WorkerFinishStep DEF WorkerStep
  <2> QED
    BY <2>1, <2>2, SendStep, NodeStep, ReaderStep DEF Next
<1> QED
  BY <1>1, InitIInv, StutterStep, PTL DEF Spec

\* Nothing the index names, and nothing a reader is about to fetch, is missing
\* from the IPLD store (publisher.go, publish_and_indexer.go, cleaner.go), and a
\* request fails for want of a header row only beside a Clean (GetTd).
THEOREM ReferencedStoredAlways == Spec => []ReferencedStored
<1>1. ASSUME IInv PROVE ReferencedStored
  <2>1. reader # Failed
    BY <1>1 DEF IInv, ReadInv, Failed, NoRead
  <2>2. reader = NoTd => cfg.clear
    BY <1>1 DEF IInv, ReadInv
  <2> QED
    BY <1>1, <2>1, <2>2, FetchSucceeds DEF IInv, StoreInv, ReferencedStored
<1> QED
  BY <1>1, Inductive, PTL

\* The tables hold an Ethereum block section by section, whole or not at all,
\* and no row outlives its parent (CIDIndexer.Index, clean and its cascades).
THEOREM SectionsWholeAlways == Spec => []SectionsWhole
<1>1. ASSUME IInv PROVE SectionsWhole
  <2>1. StoreInv(store)
    BY <1>1 DEF IInv
  <2>2. ASSUME NEW b, NEW s, HasSection(store, b, s) PROVE RetrieveCIDs(store, b, s) # {}
    BY <2>2 DEF HasSection, RetrieveCIDs
  <2>3. ASSUME eth, NEW b \in Blocks, NEW s \in Secs, RetrieveCIDs(store, b, s) # {}
        PROVE  RetrieveCIDs(store, b, s) = Contents[b][s]
    <3>1. HasSection(store, b, s)
      BY <2>3 DEF HasSection, RetrieveCIDs
    <3>2. SectionRows(b, s) \subseteq store.rows
      BY <2>1, <2>3, <3>1 DEF StoreInv
    <3>3. \A i \in Contents[b][s] : [blk |-> b, sec |-> s, item |-> i] \in store.rows
      BY <3>2 DEF SectionRows
    <3>4. \A i \in Contents[b][s] : i \in RetrieveCIDs(store, b, s)
      <4> TAKE i \in Contents[b][s]
      <4>1. PICK r : r = [blk |-> b, sec |-> s, item |-> i]
        OBVIOUS
      <4>2. r \in store.rows /\ r.blk = b /\ r.sec = s /\ r.item = i
        BY <3>3, <4>1
      <4> QED
        BY <4>2 DEF RetrieveCIDs
    <3>5. \A i \in RetrieveCIDs(store, b, s) : i \in Contents[b][s]
      BY <2>1 DEF StoreInv, RetrieveCIDs
    <3> QED
      BY <3>4, <3>5
  <2>4. {EthSections[i] : i \in 2..6} \subseteq Secs
    BY RowSections
  <2>5. \A r \in store.rows :
          /\ store.hdr[r.blk] # NoRow
          /\ r.sec = "receipts" => RetrieveCIDs(store, r.blk, "transactions") # {}
          /\ r.sec = "storage" => RetrieveCIDs(store, r.blk, "state") # {}
    BY <2>1, <2>2 DEF StoreInv
  <2>6. eth => \A b \in Blocks, s \in Secs : RetrieveCIDs(store, b, s) \in {{}, Contents[b][s]}
    BY <2>3
  <2> QED
    BY <2>4, <2>5, <2>6 DEF SectionsWhole
<1> QED
  BY <1>1, Inductive, PTL

\* When Resync returns, every height of the range its workers did not fail to
\* store holds a whole block again, whatever was cleaned, with any number of
\* workers and batches and whatever the node published meanwhile.
THEOREM ResyncRestoresAlways == Spec => []ResyncRestores
<1>1. ASSUME IInv PROVE ResyncRestores
  <2> SUFFICES ASSUME pc = "done", eth, NEW h \in cfg.range[1]..cfg.range[2], h \notin lost
               PROVE  \E b \in RetrieveHeaderCIDs(store, h) :
                        \A i \in 2..6 : SectionRows(b, EthSections[i]) \subseteq store.rows
    BY DEF ResyncRestores
  <2>1. bins = <<>> /\ \A w \in Workers : worker[w].pc = "quit" /\ worker[w].todo = {}
    BY <1>1 DEF IInv, ProgressInv
  <2>2. Restored(store, h)
    BY <1>1, <2>1 DEF IInv, ProgressInv
  <2>3. PICK b \in Blocks : /\ store.hdr[b] # NoRow /\ NumberOf[b] = h
                            /\ \A s \in Secs : SectionRows(b, s) \subseteq store.rows
    BY <2>2 DEF Restored
  <2> QED
    BY <2>3, RowSections DEF RetrieveHeaderCIDs
<1> QED
  BY <1>1, Inductive, PTL
=============================================================================
