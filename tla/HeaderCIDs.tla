----------------------------- MODULE HeaderCIDs -----------------------------
(***************************************************************************)
(* The header_cids table and the gap search over it                        *)
(* (pkg/super_node/eth/cid_retriever.go and indexer.go, cleaner.go,        *)
(* libraries/shared/utilities/utils.go; btc has the same code over         *)
(* btc.header_cids).                                                       *)
(*                                                                         *)
(* A row is <<block_number, block_hash>>, the table's unique key, and the  *)
(* table is a function from the keys to times_validated or NoRow.          *)
(***************************************************************************)
EXTENDS BlockHeightBins, Sequences, SequencesExt, FiniteSetsExt

CONSTANTS
  MaxHeight, \* bound: the highest block number
  Hashes     \* the block hashes that can exist at one height

ASSUME HeaderAssumption ==
  /\ MaxHeight \in Nat
  /\ IsFiniteSet(Hashes)

Height == 0..MaxHeight
Key == Height \X Hashes
NoRow  == -1

EmptyTable == [k \in Key |-> NoRow]

Rows(t)    == {k \in Key : t[k] # NoRow}
Stored(t)  == {k[1] : k \in Rows(t)}

\* Mutant: ON CONFLICT DO NOTHING.
UpsertIgnore(t, k) == [t EXCEPT ![k] = IF @ = NoRow THEN 1 ELSE @]

\* indexHeaderCID: INSERT ... times_validated 1 ON CONFLICT ... + 1.
Upsert(t, k) == [t EXCEPT ![k] = IF @ = NoRow THEN 1 ELSE @ + 1]

\* Cleaner.ResetValidation: UPDATE ... SET times_validated = 0 WHERE
\* block_number BETWEEN first AND last.
ResetRange(t, first, last) ==
  [k \in Key |-> IF t[k] # NoRow /\ k[1] \in first..last THEN 0 ELSE t[k]]

Gap(start, stop) == [start |-> start, stop |-> stop]
Span(gap)        == gap.start..gap.stop
-----------------------------------------------------------------------------
(* MissingHeightsToGaps *)

\* Mutant: the last gap is closed at the previous height.
MissingHeightsToGapsShort(heights) ==
  LET loop[i \in 1..Len(heights)] ==
        IF i = 1 THEN [start |-> heights[1], lastHeight |-> heights[1], gaps |-> <<>>]
        ELSE LET acc    == loop[i - 1]
                 breaks == heights[i] # acc.lastHeight + 1
                 start  == IF breaks THEN heights[i] ELSE acc.start
                 closed == IF breaks THEN <<Gap(acc.start, acc.lastHeight)>> ELSE <<>>
                 final  == IF i = Len(heights) THEN <<Gap(start, acc.lastHeight)>> ELSE <<>>
             IN  [start |-> start, lastHeight |-> heights[i], gaps |-> acc.gaps \o closed \o final]
  IN  IF heights = <<>> THEN <<>> ELSE loop[Len(heights)].gaps

\* loop[i] is the state after the first i heights.  The loop runs over
\* heights[1:]; a gap is closed where two neighbours are not consecutive, and at
\* the last height.
MissingHeightsToGaps(heights) ==
  LET loop[i \in 1..Len(heights)] ==
        IF i = 1 THEN [start |-> heights[1], lastHeight |-> heights[1], gaps |-> <<>>]
        ELSE LET acc    == loop[i - 1]
                 breaks == heights[i] # acc.lastHeight + 1
                 start  == IF breaks THEN heights[i] ELSE acc.start
                 closed == IF breaks THEN <<Gap(acc.start, acc.lastHeight)>> ELSE <<>>
                 final  == IF i = Len(heights) THEN <<Gap(start, heights[i])>> ELSE <<>>
             IN  [start |-> start, lastHeight |-> heights[i], gaps |-> acc.gaps \o closed \o final]
  IN  IF heights = <<>> THEN <<>> ELSE loop[Len(heights)].gaps
-----------------------------------------------------------------------------
(* RetrieveGapsInData *)

\* RetrieveFirstBlockNumber, on a table that is not empty.
RetrieveFirstBlockNumber(t) == Min(Stored(t))

\* Mutant: the blocks below the first one are not looked for.
InitialGapNone(t) == <<>>

\* The blocks below the first one.
InitialGap(t) ==
  LET startingBlock == RetrieveFirstBlockNumber(t)
  IN  IF startingBlock # 0 THEN <<Gap(0, startingBlock - 1)>> ELSE <<>>

\* Mutant: the gap ends at the next stored height instead of one below it.
EmptyGapsInclusive(t) ==
  {Gap(h + 1, Min({g \in Stored(t) : g > h})) :
     h \in {g \in Stored(t) : g + 1 \notin Stored(t) /\ g < Max(Stored(t))}}

\* The self join that finds a height with a later one but no next one.
EmptyGaps(t) ==
  {Gap(h + 1, Min({g \in Stored(t) : g > h}) - 1) :
     h \in {g \in Stored(t) : g + 1 \notin Stored(t) /\ g < Max(Stored(t))}}

UnderRows(t, validationLevel) == {k \in Rows(t) : t[k] < validationLevel}

\* SELECT block_number ... WHERE times_validated < $1 ORDER BY block_number:
\* one entry per row, so a forked height can occur more than once.
UnderHeights(t, validationLevel) ==
  FlattenSeq([i \in 1..(MaxHeight + 1) |->
    [j \in 1..Cardinality({k \in UnderRows(t, validationLevel) : k[1] = i - 1})
       |-> i - 1]])

\* The results the call can return: SQL leaves the order of the empty gaps open.
\* An empty table has no first block, the call returns an error, and the set is
\* empty.
RetrieveGapsInData(t, validationLevel) ==
  IF Rows(t) = {} THEN {}
  ELSE {InitialGap(t) \o empty \o
          MissingHeightsToGaps(UnderHeights(t, validationLevel)) :
          empty \in SetToSeqs(EmptyGaps(t))}
-----------------------------------------------------------------------------
\* All the batches of a pass, in the order BackFill dispatches them; a gap that
\* cannot be split is logged and skipped.
PassBins(gaps, batchSize) ==
  FlattenSeq([i \in 1..Len(gaps) |->
                IF BinsError(gaps[i].start, gaps[i].stop, batchSize) THEN <<>>
                ELSE GetBlockHeightBins(gaps[i].start, gaps[i].stop, batchSize)])
=============================================================================
