-------------------------- MODULE StorageBackFill --------------------------
(***************************************************************************)
(* The backfill of storage diffs: StorageWatcher.BackFill                  *)
(* (libraries/shared/watcher/storage_watcher.go) and backFiller.BackFill   *)
(* with its three kinds of goroutine (libraries/shared/storage/            *)
(* backfiller.go): the starter, which opens one goroutine per batch of     *)
(* blocks and throttles itself by activeCount; the ranges; and the         *)
(* tracker, which counts the ranges that report and wakes the starter.     *)
(*                                                                         *)
(* processingDone and forwardDone are unbuffered.  The tracker's send on   *)
(* forwardDone does not wait: it succeeds only while the starter is parked *)
(* in its receive.                                                         *)
(***************************************************************************)
EXTENDS BlockHeightBins, FiniteSets, Sequences

CONSTANTS
  Limit,     \* defaultMaxBatchNumber
  BatchSize, \* bf.batchSize
  MaxStart,  \* bound: the starting block (the lowest deployment block)
  MaxFirst,  \* bound: the height of the first diff the watcher receives
  MaxItems   \* bound: the diffs and errors one range sends

ASSUME StorageBackFillAssumption ==
  /\ Limit \in Nat \ {0}
  /\ BatchSize \in Nat \ {0}
  /\ MaxStart \in Nat
  /\ MaxFirst \in Nat
  /\ MaxItems \in Nat \ {0}

VARIABLES
  startingBlock, \* the argument of StorageWatcher.BackFill
  first,         \* the height of the first live diff, or -1 before it
  bins,          \* blockRangeBins
  sp,            \* where the starter is
  next,          \* the index of the batch it is at
  active,        \* activeCount
  range,         \* where the goroutine of each batch is
  items,         \* what each range has left to send
  tp,            \* where the tracker is
  finished,      \* goroutinesFinished
  done           \* has Execute received the final signal?

startVars   == <<startingBlock, first, bins>>
starterVars == <<sp, next>>
rangeVars   == <<range, items>>
trackerVars == <<tp, finished, done>>
vars        == <<startVars, starterVars, active, rangeVars, trackerVars>>

Init ==
  /\ startingBlock \in 0..MaxStart
  /\ first = -1
  /\ bins = <<>>
  /\ sp = "none"
  /\ next = 1
  /\ active = 0
  /\ range = <<>>
  /\ items = <<>>
  /\ tp = "none"
  /\ finished = 0
  /\ done = FALSE
-----------------------------------------------------------------------------
(* StorageWatcher.BackFill and the start of backFiller.BackFill.  Execute   *)
(* hands over uint64(diff.BlockHeight - 1), one joint step on an unbuffered *)
(* channel.                                                                 *)

Launch(batches) ==
  /\ bins' = batches
  /\ range' = [i \in DOMAIN batches |-> "idle"]
  /\ items' = [i \in DOMAIN batches |-> 0]
  /\ sp' = IF batches = <<>> THEN "finished" ELSE "add"
  /\ tp' = "receive"

BackFill(h) ==
  /\ first = -1
  /\ first' = h
  /\ h > 0
  /\ ~BinsError(startingBlock, h - 1, BatchSize)
  /\ Launch(GetBlockHeightBins(startingBlock, h - 1, BatchSize))
  /\ UNCHANGED <<startingBlock, next, active, finished, done>>

\* No block of the range is missing: the error is logged, and nothing starts.
BackFillInitErr(h) ==
  /\ first = -1
  /\ first' = h
  /\ h > 0
  /\ BinsError(startingBlock, h - 1, BatchSize)
  /\ UNCHANGED <<startingBlock, bins, starterVars, active, rangeVars, trackerVars>>

\* A first diff at block 0: the end of the range wraps around to 2^64 - 1.  From
\* block 0 its length wraps around to 0 and there are no batches.  (From a later
\* block the list of batches does not fit in memory; not modelled.)
BackFillWrapped ==
  /\ first = -1
  /\ startingBlock = 0
  /\ first' = 0
  /\ Launch(<<>>)
  /\ UNCHANGED <<startingBlock, next, active, finished, done>>
-----------------------------------------------------------------------------
(* The starter *)

\* if atomic.AddInt64(&activeCount, 1) > defaultMaxBatchNumber
Add ==
  /\ sp = "add"
  /\ active' = active + 1
  /\ sp' = IF active + 1 > Limit THEN "wait" ELSE "start"
  /\ UNCHANGED <<startVars, next, rangeVars, trackerVars>>

\* <-forwardDone: the starter is now one the tracker can wake.
Park ==
  /\ sp = "wait"
  /\ sp' = "parked"
  /\ UNCHANGED <<startVars, next, active, rangeVars, trackerVars>>

\* go bf.backFillRange(...)
Start ==
  /\ sp = "start"
  /\ range' = [range EXCEPT ![next] = "fetch"]
  /\ next' = next + 1
  /\ sp' = IF next = Len(bins) THEN "finished" ELSE "add"
  /\ UNCHANGED <<startVars, active, items, trackerVars>>
-----------------------------------------------------------------------------
(* backFillRange for batch i.  Execute takes every diff and every error that *)
(* a range sends.                                                            *)

\* FetchStateDiffsAt returns payloads, whose storage nodes each become a diff or
\* an error, or one error for the whole batch.
Fetch(i) ==
  /\ range[i] = "fetch"
  /\ \E n \in 0..MaxItems : items' = [items EXCEPT ![i] = n]
  /\ range' = [range EXCEPT ![i] = "send"]
  /\ UNCHANGED <<startVars, starterVars, active, trackerVars>>

Send(i) ==
  /\ range[i] = "send"
  /\ items[i] > 0
  /\ items' = [items EXCEPT ![i] = @ - 1]
  /\ UNCHANGED <<startVars, starterVars, active, range, trackerVars>>

Sent(i) ==
  /\ range[i] = "send"
  /\ items[i] = 0
  /\ range' = [range EXCEPT ![i] = "report"]
  /\ UNCHANGED <<startVars, starterVars, active, items, trackerVars>>

backFillRange(i) == Fetch(i) \/ Send(i) \/ Sent(i)
-----------------------------------------------------------------------------
(* The tracker *)

\* Mutant: activeCount is not decremented.
ReceiveUncounted(i) ==
  /\ tp = "receive"
  /\ range[i] = "report"
  /\ range' = [range EXCEPT ![i] = "finished"]
  /\ tp' = "forward"
  /\ UNCHANGED <<startVars, starterVars, active, items, finished, done>>

\* doneWithHeights := <-processingDone and atomic.AddInt64(&activeCount, -1).  An
\* increment between the two sees what one before the receive sees.
Receive(i) ==
  /\ tp = "receive"
  /\ range[i] = "report"
  /\ range' = [range EXCEPT ![i] = "finished"]
  /\ active' = active - 1
  /\ tp' = "forward"
  /\ UNCHANGED <<startVars, starterVars, items, finished, done>>

\* Mutant: a blocking send on forwardDone.
ForwardBlocking ==
  /\ tp = "forward"
  /\ sp = "parked"
  /\ sp' = "start"
  /\ tp' = "count"
  /\ UNCHANGED <<startVars, next, active, rangeVars, finished, done>>

\* select { case forwardDone <- true: default: }
Forward ==
  /\ tp = "forward"
  /\ sp' = IF sp = "parked" THEN "start" ELSE sp
  /\ tp' = "count"
  /\ UNCHANGED <<startVars, next, active, rangeVars, finished, done>>

\* Mutant: the last batch is not waited for.
CountShort ==
  /\ tp = "count"
  /\ finished' = finished + 1
  /\ tp' = IF finished + 2 >= Len(bins) THEN "signal" ELSE "receive"
  /\ UNCHANGED <<startVars, starterVars, active, rangeVars, done>>

\* goroutinesFinished++
Count ==
  /\ tp = "count"
  /\ finished' = finished + 1
  /\ tp' = IF finished + 1 >= Len(bins) THEN "signal" ELSE "receive"
  /\ UNCHANGED <<startVars, starterVars, active, rangeVars, done>>

\* done <- true
Signal ==
  /\ tp = "signal"
  /\ done' = TRUE
  /\ tp' = "finished"
  /\ UNCHANGED <<startVars, starterVars, active, rangeVars, finished>>
-----------------------------------------------------------------------------
Next ==
  \/ \E h \in 1..MaxFirst : BackFill(h) \/ BackFillInitErr(h)
  \/ BackFillWrapped
  \/ Add \/ Park \/ Start
  \/ \E i \in DOMAIN bins : backFillRange(i) \/ Receive(i)
  \/ Forward \/ Count \/ Signal

Spec == Init /\ [][Next]_vars

\* Go runs every goroutine that can take a step; Execute keeps receiving.  That a
\* live diff arrives at all is not assumed.
Fairness ==
  /\ WF_vars(Add \/ Park \/ Start)
  /\ WF_vars((\E i \in DOMAIN bins : Receive(i)) \/ Forward \/ Count \/ Signal)
  /\ \A i \in 1..(MaxFirst + 1) : WF_vars(i \in DOMAIN bins /\ backFillRange(i))

FairSpec == Spec /\ Fairness
-----------------------------------------------------------------------------
(* Properties *)

Working == {i \in DOMAIN bins : range[i] \in {"fetch", "send", "report"}}

\* activeCount is the number of ranges at work, and one for the starter while it
\* is between the increment and the goroutine it stands for: no interleaving of
\* the two atomic additions with the wakeups loses count.
ActiveExact ==
  active = Cardinality(Working) + (IF sp \in {"wait", "parked", "start"} THEN 1 ELSE 0)

\* The final signal stands for the whole range: every block from the starting
\* block up to the one before the first live diff is in exactly one batch, and
\* each batch is fetched, sent to the watcher and reported.
DoneMeansCovered ==
  done => /\ UNION {bins[i] : i \in DOMAIN bins} = startingBlock..(first - 1)
          /\ \A i, j \in DOMAIN bins : i # j => bins[i] \cap bins[j] = {}
          /\ \A i \in DOMAIN bins : range[i] = "finished" /\ items[i] = 0

\* The starter is parked and no one is left to wake it.
Stalled == sp = "parked" /\ Working = {} /\ tp = "receive"

\* Once batches are started they end in the final signal or in a lost wakeup:
\* there is no third way to hang, so no range is ever stuck.
EndsOrStalls == bins # <<>> ~> [](done \/ Stalled)

=============================================================================
