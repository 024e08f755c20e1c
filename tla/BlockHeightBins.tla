-------------------------- MODULE BlockHeightBins --------------------------
(***************************************************************************)
(* GetBlockHeightBins of libraries/shared/utilities/utils.go: a range of   *)
(* blocks is split into batches.  The super node's gap filler, the resync  *)
(* command and the storage backfiller call it.                             *)
(***************************************************************************)
EXTENDS Integers

\* GetBlockHeightBins returns an error instead of bins.
BinsError(startingBlock, endingBlock, batchSize) ==
  endingBlock < startingBlock \/ batchSize = 0

\* The batches of a range of blocks, each the set of its heights.
GetBlockHeightBins(startingBlock, endingBlock, batchSize) ==
  LET length       == endingBlock - startingBlock + 1
      numberOfBins == length \div batchSize
                      + (IF length % batchSize # 0 THEN 1 ELSE 0)
  IN  [i \in 1..numberOfBins |->
         LET first == startingBlock + (i - 1) * batchSize
         IN  {j \in first..(first + batchSize - 1) : j <= endingBlock}]
=============================================================================
