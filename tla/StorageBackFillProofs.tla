------------------------ MODULE StorageBackFillProofs ------------------------
(***************************************************************************)
(* Proofs about StorageBackFill, for every range of blocks, batch size,    *)
(* throttle and number of diffs, and every interleaving of the starter,    *)
(* the ranges and the tracker.                                             *)
(***************************************************************************)
EXTENDS StorageBackFill, FiniteSetTheorems, SequenceTheorems, TLAPS

(* GetBlockHeightBins *)

LEMMA DivMod ==
  ASSUME NEW a \in Nat, NEW b \in Nat \ {0}
  PROVE  /\ a \div b \in Nat /\ a % b \in 0..(b - 1)
         /\ a = (a \div b) * b + (a % b)
OBVIOUS

LEMMA TimesMonotonic ==
  ASSUME NEW a \in Int, NEW b \in Int, NEW c \in Nat, a <= b
  PROVE  a * c \in Int /\ b * c \in Int /\ a * c <= b * c
OBVIOUS

LEMMA TimesNext ==
  ASSUME NEW a \in Int, NEW c \in Int
  PROVE  a * c \in Int /\ (a + 1) * c = a * c + c /\ (a - 1) * c = a * c - c
OBVIOUS

\* The bins of a range partition it, whatever the size of the last one.
LEMMA BinsPartition ==
  ASSUME NEW s \in Nat, NEW e \in Nat, s <= e, NEW b \in Nat \ {0}
  PROVE  LET B == GetBlockHeightBins(s, e, b)
         IN  /\ B \in Seq(SUBSET Int) /\ B # <<>>
             /\ UNION {B[i] : i \in DOMAIN B} = s..e
             /\ \A i, j \in DOMAIN B : i # j => B[i] \cap B[j] = {}
<1> DEFINE len == e - s + 1
           n == len \div b + (IF len % b # 0 THEN 1 ELSE 0)
           B == GetBlockHeightBins(s, e, b)
<1>1. len \in Nat \ {0}
  OBVIOUS
<1>2. /\ len \div b \in Nat /\ len % b \in 0..(b - 1)
      /\ len = (len \div b) * b + (len % b)
  BY <1>1, DivMod
<1>3. n \in Nat /\ n >= 1
  BY <1>1, <1>2, TimesNext
<1>4. DOMAIN B = 1..n
  BY DEF GetBlockHeightBins
<1>5. \A i \in 1..n : B[i] = {j \in (s + (i - 1) * b)..(s + (i - 1) * b + b - 1) : j <= e}
  BY DEF GetBlockHeightBins
<1>6. \A i \in 1..n : (i - 1) * b \in Nat
  <2> SUFFICES ASSUME NEW i \in 1..n PROVE (i - 1) * b \in Nat
    OBVIOUS
  <2>1. i - 1 \in Nat /\ b \in Nat
    BY <1>3
  <2> QED
    BY <2>1
<1>7. B \in [1..n -> SUBSET Int]
  BY <1>3, <1>4, <1>5, <1>6 DEF GetBlockHeightBins
<1>8. B \in Seq(SUBSET Int)
  BY <1>3, <1>7, SeqDef
<1> HIDE DEF B, n, len
<1>9. ASSUME NEW j \in s..e PROVE \E i \in 1..n : j \in B[i]
  <2> DEFINE q == (j - s) \div b
  <2>1. /\ q \in Nat /\ (j - s) % b \in 0..(b - 1)
        /\ j - s = q * b + ((j - s) % b) /\ q * b \in Int
    BY DivMod
  <2> HIDE DEF q
  <2>2. q + 1 <= n
    <3>1. CASE q >= n
      <4>1. n * b <= q * b /\ n * b \in Int
        BY <1>3, <2>1, <3>1, TimesMonotonic
      <4>2. len % b # 0 => n * b = (len \div b) * b + b
        BY <1>2, TimesNext DEF n
      <4>3. len % b = 0 => n * b = (len \div b) * b
        BY <1>2 DEF n
      <4>4. (len \div b) * b \in Int
        BY <1>2
      <4>5. n * b >= len
        BY <1>1, <1>2, <4>1, <4>2, <4>3, <4>4
      <4> QED
        BY <2>1, <4>1, <4>5 DEF len
    <3> QED
      BY <1>3, <2>1, <3>1
  <2>3. q + 1 \in 1..n /\ (q + 1) - 1 = q
    BY <1>3, <2>1, <2>2
  <2>4. j \in B[q + 1]
    BY <1>5, <2>1, <2>3
  <2> QED
    BY <2>3, <2>4
<1>10. ASSUME NEW i \in 1..n, NEW j \in B[i] PROVE j \in s..e
  <2>1. (i - 1) * b \in Nat
    BY <1>6
  <2> QED
    BY <1>5, <2>1
<1>11. ASSUME NEW i \in 1..n, NEW k \in 1..n, i < k PROVE B[i] \cap B[k] = {}
  <2>1. i <= k - 1 /\ i \in Int /\ k - 1 \in Int
    BY <1>3, <1>11
  <2>2. i * b <= (k - 1) * b
    BY <2>1, TimesMonotonic
  <2>3. (i - 1) * b = i * b - b /\ i * b \in Int /\ (k - 1) * b \in Int
    BY <2>1, TimesNext
  <2> QED
    BY <1>5, <2>2, <2>3
<1>12. \A i, k \in 1..n : i # k => B[i] \cap B[k] = {}
  <2> SUFFICES ASSUME NEW i \in 1..n, NEW k \in 1..n, i # k PROVE B[i] \cap B[k] = {}
    OBVIOUS
  <2>1. i < k \/ k < i
    BY <1>3
  <2> QED
    BY <1>11, <2>1
<1>13. B # <<>>
  <2>1. 1 \in DOMAIN B
    BY <1>3, <1>4
  <2> QED
    BY <2>1
<1> QED
  BY <1>4, <1>8, <1>9, <1>10, <1>12, <1>13 DEF B
-----------------------------------------------------------------------------
(* The three kinds of goroutine *)

RangePC == {"idle", "fetch", "send", "report", "finished"}

TypeInv ==
  /\ startingBlock \in Nat /\ first \in Int
  /\ bins \in Seq(SUBSET Int)
  /\ sp \in {"none", "add", "wait", "parked", "start", "finished"}
  /\ next \in 1..(Len(bins) + 1)
  /\ active \in Int
  /\ range \in [1..Len(bins) -> RangePC]
  /\ items \in [1..Len(bins) -> Nat]
  /\ tp \in {"none", "receive", "forward", "count", "signal", "finished"}
  /\ finished \in Nat
  /\ done \in BOOLEAN

\* The batches are those of the range up to the first live diff; until then, and
\* when there are none, nobody works.
LaunchInv ==
  /\ first = -1 => sp = "none"
  /\ sp = "none" => tp = "none" /\ bins = <<>>
  /\ bins = <<>> => sp \in {"none", "finished"} /\ tp \in {"none", "receive"} /\ finished = 0
  /\ bins # <<>> =>
       /\ first > 0 /\ ~BinsError(startingBlock, first - 1, BatchSize)
       /\ bins = GetBlockHeightBins(startingBlock, first - 1, BatchSize)

\* The starter has passed exactly the batches whose goroutines were started.
StarterInv ==
  /\ \A i \in 1..Len(bins) : range[i] = "idle" <=> i >= next
  /\ sp \in {"add", "wait", "parked", "start"} => next <= Len(bins)

\* A range that reports has sent all it had.
RangeInv == \A i \in 1..Len(bins) : range[i] # "send" => items[i] = 0

Finished == {i \in DOMAIN bins : range[i] = "finished"}

\* The tracker counts each report once, and signals after the last.
TrackerInv ==
  /\ Cardinality(Finished) = finished + (IF tp \in {"forward", "count"} THEN 1 ELSE 0)
  /\ tp \in {"signal", "finished"} => finished >= Len(bins)
  /\ done => tp = "finished"

IInv == TypeInv /\ LaunchInv /\ StarterInv /\ RangeInv /\ TrackerInv /\ ActiveExact

LEMMA InitIInv == Init => IInv
<1> SUFFICES ASSUME Init PROVE IInv
  OBVIOUS
<1> USE DEF Init
<1>1. /\ bins \in Seq(SUBSET Int) /\ Len(bins) = 0 /\ DOMAIN bins = {}
      /\ range \in [1..Len(bins) -> RangePC] /\ items \in [1..Len(bins) -> Nat]
  BY EmptySeq
<1>2. Working = {} /\ Finished = {}
  BY <1>1 DEF Working, Finished
<1>3. ActiveExact /\ TrackerInv
  BY <1>2, FS_EmptySet DEF ActiveExact, TrackerInv
<1>4. TypeInv
  <2>1. startingBlock \in Nat /\ first \in Int /\ next \in 1..(Len(bins) + 1)
    BY <1>1, StorageBackFillAssumption
  <2>2. /\ sp = "none" /\ active = 0 /\ tp = "none" /\ finished = 0
    OBVIOUS
  <2>3. done \in BOOLEAN
    OBVIOUS
  <2> HIDE DEF Init
  <2>4. finished \in Nat /\ active \in Int
    BY <2>2
  <2> QED
    BY <1>1, <2>1, <2>2, <2>3, <2>4 DEF TypeInv
<1> QED
  BY <1>1, <1>3, <1>4 DEF IInv, LaunchInv, StarterInv, RangeInv

\* The sets the counters count are finite.
LEMMA Counted ==
  ASSUME TypeInv
  PROVE  /\ Len(bins) \in Nat /\ DOMAIN bins = 1..Len(bins)
         /\ IsFiniteSet(Working) /\ Cardinality(Working) \in Nat
         /\ IsFiniteSet(Finished) /\ Cardinality(Finished) \in Nat
         /\ Cardinality(Finished) <= Len(bins)
         /\ Cardinality(Finished) = Len(bins) => Finished = 1..Len(bins)
<1>1. Len(bins) \in Nat /\ DOMAIN bins = 1..Len(bins)
  BY LenProperties DEF TypeInv
<1>2. IsFiniteSet(1..Len(bins)) /\ Cardinality(1..Len(bins)) = Len(bins)
  <2> DEFINE n == Len(bins)
  <2>1. 1 \in Int /\ n \in Int /\ n >= 0
    BY <1>1
  <2> HIDE DEF n
  <2>2. IsFiniteSet(1..n) /\ Cardinality(1..n) = IF 1 > n THEN 0 ELSE n - 1 + 1
    BY <2>1, FS_Interval
  <2>3. Cardinality(1..n) = n
    BY <2>1, <2>2
  <2> QED
    BY <2>2, <2>3 DEF n
<1>3. Working \in SUBSET (1..Len(bins)) /\ Finished \in SUBSET (1..Len(bins))
  BY <1>1 DEF Working, Finished
<1>4. /\ IsFiniteSet(Working) /\ IsFiniteSet(Finished)
      /\ Cardinality(Finished) <= Len(bins)
      /\ Cardinality(Finished) = Len(bins) => Finished = 1..Len(bins)
  BY <1>2, <1>3, FS_Subset
<1> QED
  BY <1>1, <1>4, FS_CardinalityType

\* The first live diff fixes the batches; no goroutine runs before.
LEMMA LaunchStep ==
  ASSUME IInv, NEW batches \in Seq(SUBSET Int), NEW h \in Nat, first = -1, first' = h,
         Launch(batches), UNCHANGED <<startingBlock, next, active, finished, done>>,
         batches # <<>> => /\ h > 0 /\ ~BinsError(startingBlock, h - 1, BatchSize)
                           /\ batches = GetBlockHeightBins(startingBlock, h - 1, BatchSize)
  PROVE  IInv'
<1> USE DEF IInv
<1>1. /\ sp = "none" /\ tp = "none" /\ bins = <<>> /\ finished = 0
      /\ Len(bins) = 0 /\ DOMAIN bins = {} /\ next = 1 /\ done = FALSE
  BY Counted, EmptySeq DEF LaunchInv, TypeInv, TrackerInv
<1>2. active = 0
  <2>1. Working = {}
    BY <1>1 DEF Working
  <2> QED
    BY <1>1, <2>1, FS_EmptySet DEF ActiveExact
<1>3. Len(batches) \in Nat /\ DOMAIN batches = 1..Len(batches) /\ (batches # <<>> => Len(batches) >= 1)
  BY LenProperties, EmptySeq
<1>4. /\ bins' = batches
      /\ range' = [i \in 1..Len(batches) |-> "idle"]
      /\ items' = [i \in 1..Len(batches) |-> 0]
      /\ sp' = IF batches = <<>> THEN "finished" ELSE "add"
      /\ tp' = "receive"
  BY <1>3 DEF Launch
<1>5. range' \in [1..Len(bins') -> RangePC] /\ items' \in [1..Len(bins') -> Nat]
  BY <1>4 DEF RangePC
<1>6. TypeInv'
  BY <1>1, <1>3, <1>4, <1>5 DEF TypeInv
<1>7. LaunchInv'
  BY <1>1, <1>4 DEF LaunchInv
<1>8. StarterInv' /\ RangeInv'
  BY <1>1, <1>3, <1>4 DEF StarterInv, RangeInv
<1>9. Working' = {} /\ Finished' = {}
  BY <1>3, <1>4 DEF Working, Finished
<1>10. TrackerInv' /\ ActiveExact'
  BY <1>1, <1>2, <1>4, <1>9, FS_EmptySet DEF TrackerInv, ActiveExact
<1> QED
  BY <1>6, <1>7, <1>8, <1>10

LEMMA BackFillStep ==
  ASSUME IInv, NEW h \in 1..MaxFirst, BackFill(h) \/ BackFillInitErr(h)
  PROVE  IInv'
<1>1. h \in Nat /\ h > 0 /\ h - 1 \in Nat /\ startingBlock \in Nat /\ BatchSize \in Nat \ {0}
  BY StorageBackFillAssumption DEF IInv, TypeInv
<1>2. CASE BackFill(h)
  <2> DEFINE B == GetBlockHeightBins(startingBlock, h - 1, BatchSize)
  <2>1. ~BinsError(startingBlock, h - 1, BatchSize) /\ startingBlock <= h - 1
    BY <1>1, <1>2 DEF BackFill, BinsError
  <2>2. B \in Seq(SUBSET Int)
    BY <1>1, <2>1, BinsPartition
  <2>3. /\ first = -1 /\ first' = h /\ Launch(B)
        /\ UNCHANGED <<startingBlock, next, active, finished, done>>
    BY <1>2 DEF BackFill
  <2> HIDE DEF B
  <2> QED
    BY <1>1, <2>1, <2>2, <2>3, LaunchStep DEF B
<1>3. CASE BackFillInitErr(h)
  <2>1. /\ first = -1 /\ first' = h
        /\ UNCHANGED <<startingBlock, bins, sp, next, active, range, items, tp, finished, done>>
    BY <1>3 DEF BackFillInitErr, starterVars, rangeVars, trackerVars
  <2>2. sp = "none" /\ bins = <<>>
    BY <2>1 DEF IInv, LaunchInv
  <2>3. TypeInv' /\ LaunchInv'
    BY <1>1, <2>1, <2>2 DEF IInv, TypeInv, LaunchInv
  <2>4. Working' = Working /\ Finished' = Finished
    BY <2>1 DEF Working, Finished
  <2> QED
    BY <2>1, <2>3, <2>4 DEF IInv, StarterInv, RangeInv, TrackerInv, ActiveExact
<1> QED
  BY <1>2, <1>3

LEMMA WrappedStep ==
  ASSUME IInv, BackFillWrapped PROVE IInv'
<1>1. /\ first = -1 /\ first' = 0 /\ Launch(<<>>)
      /\ UNCHANGED <<startingBlock, next, active, finished, done>>
  BY DEF BackFillWrapped
<1>2. <<>> \in Seq(SUBSET Int)
  BY EmptySeq
<1> QED
  BY <1>1, <1>2, LaunchStep

\* The starter: one increment for each goroutine, and the goroutine takes over
\* what the starter counted.
LEMMA StarterStep ==
  ASSUME IInv, Add \/ Park \/ Start
  PROVE  IInv'
<1> USE DEF IInv
<1>1. /\ UNCHANGED <<startingBlock, first, bins, items, tp, finished, done>>
      /\ Len(bins) \in Nat /\ DOMAIN bins = 1..Len(bins)
  BY Counted DEF Add, Park, Start, startVars, rangeVars, trackerVars
<1>2. CASE Add \/ Park
  <2>1. /\ UNCHANGED <<next, range>> /\ sp \in {"add", "wait"}
        /\ sp' \in {"wait", "start", "parked"}
    BY <1>2 DEF Add, Park, rangeVars
  <2>2. active' = IF sp = "add" THEN active + 1 ELSE active
    BY <1>2 DEF Add, Park
  <2>3. Working' = Working /\ Finished' = Finished
    BY <1>1, <2>1 DEF Working, Finished
  <2>4. TypeInv' /\ LaunchInv' /\ StarterInv' /\ RangeInv'
    BY <1>1, <2>1, <2>2 DEF TypeInv, LaunchInv, StarterInv, RangeInv
  <2>5. TrackerInv'
    BY <1>1, <2>3 DEF TrackerInv
  <2>6. ActiveExact'
    BY <2>1, <2>2, <2>3, Counted DEF ActiveExact
  <2> QED
    BY <2>4, <2>5, <2>6
<1>3. CASE Start
  <2>b. sp = "start" /\ next \in 1..(Len(bins) + 1) /\ next <= Len(bins)
    BY <1>3 DEF Start, TypeInv, StarterInv
  <2>c. next \in 1..Len(bins) /\ next \in Nat
    BY <1>1, <2>b
  <2>d. range[next] = "idle"
    BY <2>c DEF StarterInv
  <2>1. /\ range' = [range EXCEPT ![next] = "fetch"] /\ next' = next + 1
        /\ sp' = IF next = Len(bins) THEN "finished" ELSE "add"
        /\ active' = active
    BY <1>3 DEF Start
  <2>2. /\ range' \in [1..Len(bins) -> RangePC] /\ range'[next] = "fetch"
        /\ \A i \in 1..Len(bins) : i # next => range'[i] = range[i]
    BY <2>1, <2>c DEF TypeInv, RangePC
  <2>3. Working' = Working \cup {next} /\ next \notin Working
    BY <1>1, <2>1, <2>2, <2>c, <2>d DEF Working
  <2>4. Finished' = Finished
    BY <1>1, <2>1, <2>2, <2>c, <2>d DEF Finished
  <2>f. next' = next + 1 /\ active' = active
    BY <1>3 DEF Start
  <2>e. sp' \in {"finished", "add"} /\ (sp' = "add" => next # Len(bins))
    BY <2>1
  <2>5. TypeInv'
    <3>1. next' \in 1..(Len(bins') + 1)
      BY <1>1, <2>c, <2>f
    <3> QED
      BY <1>1, <2>1, <2>2, <2>e, <3>1 DEF TypeInv
  <2>a. bins # <<>>
    BY <2>b DEF LaunchInv
  <2>6. LaunchInv'
    BY <1>1, <2>b, <2>e, <2>a DEF LaunchInv
  <2>7. StarterInv'
    <3>1. ASSUME NEW i \in 1..Len(bins) PROVE range'[i] = "idle" <=> i >= next + 1
      <4>1. CASE i = next
        BY <2>2, <2>c, <4>1
      <4>2. CASE i # next
        BY <2>2, <2>c, <4>2 DEF StarterInv
      <4> QED
        BY <4>1, <4>2
    <3>2. sp' \in {"add", "wait", "parked", "start"} => next' <= Len(bins)
      <4>1. next # Len(bins) => next + 1 <= Len(bins)
        <5>1. Len(bins) \in Int /\ next \in Int /\ next <= Len(bins)
          BY <1>1, <2>c
        <5> QED
          BY <5>1
      <4>2. sp' \in {"add", "wait", "parked", "start"} => next # Len(bins)
        BY <2>e
      <4> QED
        BY <2>f, <4>1, <4>2
    <3> QED
      BY <1>1, <2>1, <3>1, <3>2 DEF StarterInv
  <2>8. RangeInv'
    BY <1>1, <2>2, <2>c, <2>d DEF RangeInv
  <2>9. TrackerInv'
    BY <1>1, <2>4 DEF TrackerInv
  <2>10. ActiveExact'
    <3>1. Cardinality(Working') = Cardinality(Working) + 1
      BY <2>3, Counted, FS_AddElement
    <3> QED
      <4>1. active = Cardinality(Working) + 1
        BY <2>b DEF ActiveExact
      <4>2. sp' \notin {"wait", "parked", "start"}
        BY <2>e
      <4>3. active' = Cardinality(Working') + 0
        BY <2>f, <3>1, <4>1, Counted
      <4> QED
        BY <4>2, <4>3 DEF ActiveExact
  <2> QED
    BY <2>5, <2>6, <2>7, <2>8, <2>9, <2>10
<1> QED
  BY <1>2, <1>3

\* A range at work stays at work until it reports.
LEMMA RangeStep ==
  ASSUME IInv, NEW i \in DOMAIN bins, backFillRange(i)
  PROVE  IInv'
<1> USE DEF IInv
<1>1. /\ UNCHANGED <<startingBlock, first, bins, sp, next, active, tp, finished, done>>
      /\ Len(bins) \in Nat /\ DOMAIN bins = 1..Len(bins)
  BY Counted DEF backFillRange, Fetch, Send, Sent, startVars, starterVars, trackerVars
<1>2. /\ range[i] \in {"fetch", "send"} /\ range'[i] \in {"send", "report"}
      /\ range' \in [1..Len(bins) -> RangePC] /\ items' \in [1..Len(bins) -> Nat]
      /\ \A j \in 1..Len(bins) : j # i => range'[j] = range[j] /\ items'[j] = items[j]
      /\ range'[i] = "report" => items'[i] = 0
  <2>1. CASE Fetch(i)
    <3>1. PICK n \in 0..MaxItems : items' = [items EXCEPT ![i] = n]
      BY <2>1 DEF Fetch
    <3>2. n \in Nat
      BY StorageBackFillAssumption
    <3> QED
      BY <1>1, <2>1, <3>1, <3>2 DEF Fetch, TypeInv, RangePC
  <2>2. CASE Send(i)
    <3>1. items[i] \in Nat /\ items[i] - 1 \in Nat
      BY <1>1, <2>2 DEF Send, TypeInv
    <3> QED
      BY <1>1, <2>2, <3>1 DEF Send, TypeInv, RangePC
  <2>3. CASE Sent(i)
    BY <1>1, <2>3 DEF Sent, TypeInv, RangePC
  <2> QED
    BY <2>1, <2>2, <2>3 DEF backFillRange
<1>3. Working' = Working /\ Finished' = Finished
  <2>1. \A j \in DOMAIN bins : /\ j \in Working' <=> j \in Working
                               /\ j \in Finished' <=> j \in Finished
    BY <1>1, <1>2 DEF Working, Finished
  <2> QED
    BY <1>1, <2>1 DEF Working, Finished
<1>4. TypeInv' /\ LaunchInv'
  BY <1>1, <1>2 DEF TypeInv, LaunchInv
<1>5. StarterInv'
  <2>1. \A j \in 1..Len(bins) : range'[j] = "idle" <=> range[j] = "idle"
    BY <1>1, <1>2
  <2> QED
    BY <1>1, <2>1 DEF StarterInv
<1>6. RangeInv'
  BY <1>1, <1>2 DEF RangeInv
<1> QED
  BY <1>1, <1>3, <1>4, <1>5, <1>6 DEF TrackerInv, ActiveExact

\* The tracker: a report is counted once, and the last one makes the signal.
LEMMA TrackerStep ==
  ASSUME IInv, (\E i \in DOMAIN bins : Receive(i)) \/ Forward \/ Count \/ Signal
  PROVE  IInv'
<1> USE DEF IInv
<1>1. /\ UNCHANGED <<startingBlock, first, bins, next, items>>
      /\ Len(bins) \in Nat /\ DOMAIN bins = 1..Len(bins)
  BY Counted DEF Receive, Forward, Count, Signal, startVars, starterVars, rangeVars
<1>2. ASSUME NEW i \in DOMAIN bins, Receive(i) PROVE IInv'
  <2>1. /\ tp = "receive" /\ tp' = "forward" /\ range[i] = "report"
        /\ range' = [range EXCEPT ![i] = "finished"]
        /\ UNCHANGED <<sp, finished, done>>
    BY <1>2 DEF Receive, starterVars
  <2>2. active' = active - 1
    BY <1>2 DEF Receive
  <2>3. /\ range' \in [1..Len(bins) -> RangePC] /\ range'[i] = "finished"
        /\ \A j \in 1..Len(bins) : j # i => range'[j] = range[j]
    BY <1>1, <2>1 DEF TypeInv, RangePC
  <2>4. Working' = Working \ {i} /\ i \in Working
    BY <1>1, <2>1, <2>3 DEF Working
  <2>5. Finished' = Finished \cup {i} /\ i \notin Finished
    BY <1>1, <2>1, <2>3 DEF Finished
  <2>6. /\ Cardinality(Working') = Cardinality(Working) - 1
        /\ Cardinality(Finished') = Cardinality(Finished) + 1
    BY <2>4, <2>5, Counted, FS_AddElement, FS_RemoveElement
  <2>7. bins # <<>>
    BY <1>1
  <2>8. TypeInv' /\ LaunchInv'
    BY <1>1, <2>1, <2>2, <2>3, <2>7 DEF TypeInv, LaunchInv
  <2>9. StarterInv' /\ RangeInv'
    <3>1. \A j \in 1..Len(bins) : range'[j] = "idle" <=> range[j] = "idle"
      BY <1>1, <2>1, <2>3
    <3>2. \A j \in 1..Len(bins) : range'[j] # "send" => items[j] = 0
      BY <1>1, <2>1, <2>3 DEF RangeInv
    <3> QED
      BY <1>1, <2>1, <3>1, <3>2 DEF StarterInv, RangeInv
  <2>10. TrackerInv'
    <3>1. Cardinality(Finished) = finished + 0 /\ done' = done /\ ~done
      BY <2>1 DEF TrackerInv
    <3>2. Cardinality(Finished') = finished' + 1
      BY <2>1, <2>6, <3>1, Counted DEF TypeInv
    <3> QED
      BY <2>1, <3>1, <3>2 DEF TrackerInv
  <2>11. ActiveExact'
    <3>1. sp' = sp
      BY <2>1
    <3> QED
      BY <2>2, <2>6, <3>1, Counted DEF ActiveExact
  <2> QED
    BY <2>8, <2>9, <2>10, <2>11
<1>3. CASE Forward
  <2>1. /\ tp = "forward" /\ tp' = "count" /\ UNCHANGED <<active, range, finished, done>>
        /\ sp' = IF sp = "parked" THEN "start" ELSE sp
    BY <1>3 DEF Forward, rangeVars
  <2>2. Working' = Working /\ Finished' = Finished
    BY <1>1, <2>1 DEF Working, Finished
  <2>3. TypeInv' /\ LaunchInv'
    BY <1>1, <2>1 DEF TypeInv, LaunchInv
  <2>4. StarterInv' /\ RangeInv'
    BY <1>1, <2>1 DEF StarterInv, RangeInv
  <2>5. TrackerInv'
    BY <2>1, <2>2 DEF TrackerInv
  <2>6. ActiveExact'
    BY <2>1, <2>2 DEF ActiveExact
  <2> QED
    BY <2>3, <2>4, <2>5, <2>6
<1>4. CASE Count
  <2>1. /\ tp = "count" /\ UNCHANGED <<sp, active, range, done>>
        /\ finished' = finished + 1
    BY <1>4 DEF Count, starterVars, rangeVars
  <2>2. tp' \in {"signal", "receive"} /\ (tp' = "signal" => finished + 1 >= Len(bins))
    BY <1>4 DEF Count
  <2>3. Working' = Working /\ Finished' = Finished
    BY <1>1, <2>1 DEF Working, Finished
  <2>4. bins # <<>>
    BY <2>1 DEF LaunchInv
  <2>5. TypeInv' /\ LaunchInv'
    BY <1>1, <2>1, <2>2, <2>4 DEF TypeInv, LaunchInv
  <2>6. StarterInv' /\ RangeInv'
    BY <1>1, <2>1 DEF StarterInv, RangeInv
  <2>7. TrackerInv'
    <3>1. Cardinality(Finished) = finished + 1 /\ ~done
      BY <2>1 DEF TrackerInv
    <3>2. Cardinality(Finished') = finished' + 0
      BY <2>1, <2>3, <3>1, Counted
    <3>3. tp' \notin {"forward", "count", "finished"} /\ ~done'
      BY <2>1, <2>2, <3>1
    <3>4. tp' \in {"signal", "finished"} => finished' >= Len(bins')
      BY <1>1, <2>1, <2>2, <3>3
    <3> QED
      BY <3>2, <3>3, <3>4 DEF TrackerInv
  <2>8. ActiveExact'
    BY <2>1, <2>3 DEF ActiveExact
  <2> QED
    BY <2>5, <2>6, <2>7, <2>8
<1>5. CASE Signal
  <2>1. /\ tp = "signal" /\ tp' = "finished" /\ UNCHANGED <<sp, active, range, finished>>
    BY <1>5 DEF Signal, starterVars, rangeVars
  <2>2. done' \in BOOLEAN
    BY <1>5 DEF Signal
  <2>3. Working' = Working /\ Finished' = Finished
    BY <1>1, <2>1 DEF Working, Finished
  <2>4. TypeInv' /\ LaunchInv'
    BY <1>1, <2>1, <2>2 DEF TypeInv, LaunchInv
  <2>5. StarterInv' /\ RangeInv'
    BY <1>1, <2>1 DEF StarterInv, RangeInv
  <2>6. TrackerInv'
    BY <1>1, <2>1, <2>3 DEF TrackerInv
  <2>7. ActiveExact'
    BY <2>1, <2>3 DEF ActiveExact
  <2> QED
    BY <2>4, <2>5, <2>6, <2>7
<1> QED
  BY <1>2, <1>3, <1>4, <1>5
-----------------------------------------------------------------------------
\* The counters, the batches and the positions of the goroutines keep to IInv.
THEOREM Inductive == Spec => []IInv
<1>1. IInv /\ UNCHANGED vars => IInv'
  BY DEF vars, startVars, starterVars, rangeVars, trackerVars, IInv, TypeInv, LaunchInv, StarterInv,
         RangeInv, TrackerInv, ActiveExact, Working, Finished
<1>2. IInv /\ [Next]_vars => IInv'
  BY <1>1, BackFillStep, WrappedStep, StarterStep, RangeStep, TrackerStep DEF Next
<1> QED
  BY <1>2, InitIInv, PTL DEF Spec

\* activeCount (backfiller.go) never loses or double counts a range: it is the
\* number of ranges at work and of the starter's own increment.
THEOREM ActiveExactAlways == Spec => []ActiveExact
<1>1. IInv => ActiveExact
  BY DEF IInv
<1> QED
  BY <1>1, Inductive, PTL

\* The done signal of the storage backfiller is sent only when the batches
\* partition the whole range and all of them were fetched, sent and reported.
THEOREM DoneMeansCoveredAlways == Spec => []DoneMeansCovered
<1>1. IInv => DoneMeansCovered
  <2> SUFFICES ASSUME IInv, done PROVE DoneMeansCovered
    BY DEF DoneMeansCovered
  <2> USE DEF IInv
  <2>1. tp = "finished" /\ bins # <<>> /\ finished >= Len(bins) /\ Cardinality(Finished) = finished + 0
    BY DEF TrackerInv, LaunchInv
  <2>2. Finished = 1..Len(bins) /\ DOMAIN bins = 1..Len(bins)
    BY <2>1, Counted DEF TypeInv
  <2>3. \A i \in DOMAIN bins : range[i] = "finished" /\ items[i] = 0
    BY <2>2 DEF Finished, RangeInv
  <2>4. /\ first - 1 \in Nat /\ startingBlock <= first - 1
        /\ bins = GetBlockHeightBins(startingBlock, first - 1, BatchSize)
    BY <2>1 DEF LaunchInv, TypeInv, BinsError
  <2>5. /\ UNION {bins[i] : i \in DOMAIN bins} = startingBlock..(first - 1)
        /\ \A i, j \in DOMAIN bins : i # j => bins[i] \cap bins[j] = {}
    <3>1. startingBlock \in Nat /\ BatchSize \in Nat \ {0}
      BY StorageBackFillAssumption DEF TypeInv
    <3> HIDE DEF IInv
    <3>2. LET B == GetBlockHeightBins(startingBlock, first - 1, BatchSize)
          IN  /\ UNION {B[i] : i \in DOMAIN B} = startingBlock..(first - 1)
              /\ \A i, j \in DOMAIN B : i # j => B[i] \cap B[j] = {}
      BY <2>4, <3>1, BinsPartition
    <3> QED
      BY <2>4, <3>2
  <2> QED
    BY <2>3, <2>5 DEF DoneMeansCovered
<1> QED
  BY <1>1, Inductive, PTL
=============================================================================
