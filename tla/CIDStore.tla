------------------------------ MODULE CIDStore ------------------------------
(***************************************************************************)
(* The index of the super node and the IPLD blocks it names: indexer.go,   *)
(* publisher.go, publish_and_indexer.go, cleaner.go and the fetchers of    *)
(* pkg/super_node/eth and btc, shared/functions.go, and the keys and       *)
(* cascades of db/schema.sql, as operators on the store                    *)
(*   [hdr |-> block -> times_validated or NoRow, rows, ipld].              *)
(* A row is [blk, sec, item]: item is the multihash its cid names, blk the *)
(* header row its header_id (or its parent's) leads to.                    *)
(***************************************************************************)
EXTENDS Integers, Sequences

CONSTANTS
  Blocks,    \* the blocks that can be indexed
  NumberOf,  \* NumberOf[b]: the height of a block
  Contents   \* Contents[b][sec]: the nodes of a block, by section

NoRow == -1
EmptyStore == [hdr |-> [b \in Blocks |-> NoRow], rows |-> {}, ipld |-> {}]

\* The sections of a block, in the order the publishers put them.
EthSections == <<"header", "uncles", "transactions", "receipts", "state", "storage">>
BtcSections == <<"header", "transactions">>
-----------------------------------------------------------------------------
(* public.blocks, keyed by the prefixed multihash of the cid *)

CidString(item) == [form |-> "cid", mh |-> item]
MultihashKeyFromCIDString(cid) == [form |-> "/blocks/", mh |-> cid.mh]

\* PublishIPLD and PublishRaw: ON CONFLICT (key) DO NOTHING.
PublishIPLD(st, items) ==
  [st EXCEPT !.ipld = @ \cup {MultihashKeyFromCIDString(CidString(i)) : i \in items}]

FetchIPLD(st, item) == MultihashKeyFromCIDString(CidString(item)) \in st.ipld
-----------------------------------------------------------------------------
(* CIDIndexer: INSERT ... ON CONFLICT ... UPDATE, in one transaction *)

SectionRows(b, sec) == {[blk |-> b, sec |-> sec, item |-> i] : i \in Contents[b][sec]}

indexHeaderCID(st, b) == [st EXCEPT !.hdr[b] = IF @ = NoRow THEN 1 ELSE @ + 1]
indexUncleCIDs(b) == SectionRows(b, "uncles")
indexTransactionAndReceiptCIDs(b) == SectionRows(b, "transactions") \cup SectionRows(b, "receipts")
indexStateAndStorageCIDs(b) == SectionRows(b, "state") \cup SectionRows(b, "storage")

\* The unique keys of eth begin with the header, so no other block's row is hit.
EthIndex(st, b) ==
  [indexHeaderCID(st, b) EXCEPT !.rows =
     @ \cup indexUncleCIDs(b) \cup indexTransactionAndReceiptCIDs(b) \cup indexStateAndStorageCIDs(b)]

\* btc.transaction_cids is unique on tx_hash alone: the row of a transaction
\* moves to the header indexed last.  (Inputs and outputs hang on the row.)
indexTransactionCIDs(rows, b) ==
  {r \in rows : r.item \notin Contents[b]["transactions"]} \cup SectionRows(b, "transactions")

BtcIndex(st, b) == [indexHeaderCID(st, b) EXCEPT !.rows = indexTransactionCIDs(@, b)]
-----------------------------------------------------------------------------
(* IPLDPublisher: n sections are put before the put that fails *)

Put(st, b, secs) == PublishIPLD(st, UNION {Contents[b][secs[i]] : i \in DOMAIN secs})

EthPublish(st, b, n) == Put(st, b, SubSeq(EthSections, 1, n))
BtcPublish(st, b, n) == Put(st, b, SubSeq(BtcSections, 1, n))

(* IPLDPublisherAndIndexer.Publish: both in one transaction *)

publishAndIndexStateAndStorage(st, b) ==
  [Put(st, b, <<"state", "storage">>) EXCEPT !.rows = @ \cup indexStateAndStorageCIDs(b)]

EthPublishAndIndex(st, b) ==
  publishAndIndexStateAndStorage(
    [indexHeaderCID(Put(st, b, SubSeq(EthSections, 1, 4)), b) EXCEPT !.rows =
       @ \cup indexUncleCIDs(b) \cup indexTransactionAndReceiptCIDs(b)], b)

BtcPublishAndIndex(st, b) == BtcIndex(Put(st, b, BtcSections), b)
-----------------------------------------------------------------------------
(* Cleaner *)

InRange(b, rng) == NumberOf[b] \in rng[1]..rng[2]
RowsIn(st, secs, rng) == {r \in st.rows : r.sec \in secs /\ InRange(r.blk, rng)}

ResetValidation(st, rng) ==
  [st EXCEPT !.hdr = [b \in Blocks |-> IF @[b] # NoRow /\ InRange(b, rng) THEN 0 ELSE @[b]]]

\* What clean removes for a type, in eth and in btc: the rows that go with the
\* section by ON DELETE CASCADE are the ones whose IPLDs it deletes first.
EthCleaned(type) ==
  CASE type \in {"full", "headers"} -> {EthSections[i] : i \in DOMAIN EthSections}
    [] type = "transactions"        -> {"transactions", "receipts"}
    [] type = "state"               -> {"state", "storage"}
    [] OTHER                        -> {type}
BtcCleaned(type) ==
  IF type \in {"full", "headers"} THEN {"header", "transactions"} ELSE {type}

\* Mutant: DELETE FROM public.blocks matches the multihash key.
cleanIPLDsByKey(st, secs, rng) ==
  LET named == {r.item : r \in RowsIn(st, secs, rng)}
  IN  [st EXCEPT !.ipld = {k \in @ : k.mh \notin named}]

\* cleanStorageIPLDs, cleanStateIPLDs, ...: DELETE FROM public.blocks A USING
\* ... WHERE A.key = B.cid.
cleanIPLDs(st, secs, rng) ==
  LET headers == {b \in Blocks : "header" \in secs /\ st.hdr[b] # NoRow /\ InRange(b, rng)}
      named   == {CidString(r.item) : r \in RowsIn(st, secs, rng)}
                 \cup {CidString(i) : i \in UNION {Contents[b]["header"] : b \in headers}}
  IN  [st EXCEPT !.ipld = @ \ named]

\* Mutant: the rows below a deleted header stay.
cleanHeaderOnly(st, secs, rng) ==
  [st EXCEPT !.hdr = [b \in Blocks |-> IF "header" \in secs /\ InRange(b, rng) THEN NoRow ELSE @[b]]]

\* cleanStorageMetaData, ..., cleanHeaderMetaData, and the cascades.
cleanMetaData(st, secs, rng) ==
  [st EXCEPT
     !.rows = @ \ RowsIn(st, secs, rng),
     !.hdr  = [b \in Blocks |-> IF "header" \in secs /\ InRange(b, rng) THEN NoRow ELSE @[b]]]

EthClean(st, rng, type) ==
  LET secs == EthCleaned(type) IN cleanMetaData(cleanIPLDs(st, secs, rng), secs, rng)
BtcClean(st, rng, type) ==
  LET secs == BtcCleaned(type) IN cleanMetaData(cleanIPLDs(st, secs, rng), secs, rng)
-----------------------------------------------------------------------------
(* The reads: cids by header, then the IPLDs they name *)

RetrieveHeaderCIDs(st, n) == {b \in Blocks : st.hdr[b] # NoRow /\ NumberOf[b] = n}
RetrieveHeaderCIDByHash(st, b) == st.hdr[b] # NoRow
RetrieveCIDs(st, b, sec) == {r.item : r \in {s \in st.rows : s.blk = b /\ s.sec = sec}}
GetTd(st, b) == st.hdr[b] # NoRow

\* IPLDPGFetcher fails on the first IPLD it does not find.
FetchPG(st, items) == \A i \in items : FetchIPLD(st, i)
BtcFetchPG(st, items) == FetchPG(st, items)

\* fetchBatch returns what the block service has; IPLDFetcher compares counts.
fetchBatch(st, items) == {i \in items : FetchIPLD(st, i)}
FetchIPFS(st, items) == fetchBatch(st, items) = items
BtcFetchIPFS(st, items) == FetchIPFS(st, items)
=============================================================================
