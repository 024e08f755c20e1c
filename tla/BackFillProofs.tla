--------------------------- MODULE BackFillProofs ---------------------------
(***************************************************************************)
(* Pass isolation of the backfill service; what its gap search finds, for  *)
(* every table and validation level; and, from that, that no two workers   *)
(* hold the same height, for every number of workers and every             *)
(* interleaving with Sync, resets and Stop.                                *)
(***************************************************************************)
EXTENDS BackFill, GapAnswers, FiniteSetTheorems, SequenceTheorems, WellFoundedInduction, TLAPS

\* The workers that have not returned.
Alive == {w \in Workers : wk[w] # "none"}

\* PassIsolation is not inductive: it rests on the count of the kill loop.  Every
\* token still to be sent outnumbers or equals the workers still alive; Stop can
\* only make workers leave earlier.
PassInv ==
  /\ pc \in MainPC
  /\ kills \in Nat
  /\ wk \in [Workers -> WorkerPC]
  /\ pc \in {"idle", "empty", "under"} => Alive = {}
  /\ pc = "kill" => Cardinality(Alive) <= kills

\* A worker can leave but not enter: its steps never add to the living ones.
LEMMA FewerAlive ==
  ASSUME Alive' \subseteq Alive
  PROVE  /\ IsFiniteSet(Alive) /\ IsFiniteSet(Alive')
         /\ Cardinality(Alive) \in Nat /\ Cardinality(Alive') \in Nat
         /\ Cardinality(Alive') <= Cardinality(Alive)
<1>1. Alive \subseteq Workers
  BY DEF Alive
<1>2. IsFiniteSet(Alive)
  BY <1>1, BackFillAssumption, FS_Subset DEF BackFillAssumption
<1>3. IsFiniteSet(Alive') /\ Cardinality(Alive') <= Cardinality(Alive)
  BY <1>2, FS_Subset
<1> QED
  BY <1>2, <1>3, FS_CardinalityType

\* Every step of a worker of its own keeps the pass invariant.
LEMMA WorkerStep ==
  ASSUME PassInv, NEW w \in Workers, backFill(w)
  PROVE  PassInv'
<1> USE DEF PassInv
<1>1. /\ wk[w] # "none"
      /\ wk' \in [Workers -> WorkerPC]
      /\ \A v \in Workers \ {w} : wk'[v] = wk[v]
      /\ pc' = pc /\ kills' = kills
  BY DEF backFill, FetchError, Fetch, Payload, PayloadError, WorkerQuit, Advance,
         mainVars, WorkerPC
<1>2. Alive' \subseteq Alive
  BY <1>1 DEF Alive
<1>3. pc' \in {"idle", "empty", "under"} => Alive' = {}
  BY <1>1, <1>2
<1>4. pc' = "kill" => Cardinality(Alive') <= kills'
  BY <1>1, <1>2, FewerAlive
<1> QED
  BY <1>1, <1>3, <1>4

\* A quit token sent to worker w takes it out of the living ones.
LEMMA KillStep ==
  ASSUME PassInv, NEW w \in Workers, Kill(w)
  PROVE  PassInv'
<1> USE DEF PassInv
<1>1. /\ wk' = [wk EXCEPT ![w] = "none"] /\ wk[w] = "select"
      /\ kills > 0 /\ kills' = kills - 1 /\ pc = "kill" /\ pc' = pc
  BY DEF Kill
<1>2. wk' \in [Workers -> WorkerPC] /\ kills' \in Nat
  BY <1>1 DEF WorkerPC
<1>3. Alive' = Alive \ {w} /\ w \in Alive
  BY <1>1 DEF Alive
<1>4. IsFiniteSet(Alive) /\ Cardinality(Alive) \in Nat
  BY <1>3, FewerAlive
<1>5. Cardinality(Alive') = Cardinality(Alive) - 1
  BY <1>3, <1>4, FS_RemoveElement
<1> QED
  BY <1>1, <1>2, <1>4, <1>5

\* The pass invariant is inductive.
LEMMA PassInvInductive == Spec => []PassInv
<1>1. Init => PassInv
  BY DEF Init, PassInv, MainPC, WorkerPC, Alive
<1>2. PassInv /\ [Next]_vars => PassInv'
  <2> SUFFICES ASSUME PassInv, [Next]_vars PROVE PassInv'
    OBVIOUS
  <2> USE DEF PassInv, MainPC, WorkerPC
  <2>1. CASE Search
    BY <2>1 DEF Search, SearchFirst, SearchEmpty, SearchUnder, SearchError, workerVars, Alive
  <2>2. CASE MainQuit
    BY <2>2 DEF MainQuit, workerVars
  <2>3. CASE Offer
    BY <2>3 DEF Offer, workerVars
  <2>4. CASE Dispatched
    <3>1. IsFiniteSet(Workers) /\ Cardinality(Workers) \in Nat
      BY BackFillAssumption, FS_CardinalityType DEF BackFillAssumption
    <3>2. Cardinality(Alive) <= Cardinality(Workers)
      BY <3>1, FS_Subset DEF Alive
    <3>3. Alive' = Alive
      BY <2>4 DEF Dispatched, workerVars, Alive
    <3> QED
      BY <2>4, <3>1, <3>2, <3>3 DEF Dispatched, workerVars
  <2>5. CASE KillClosed
    BY <2>5 DEF KillClosed
  <2>6. CASE PassDone
    <3>1. Alive' = Alive /\ Cardinality(Alive) <= 0
      BY <2>6 DEF PassDone, workerVars, Alive
    <3>2. IsFiniteSet(Alive) /\ Cardinality(Alive) \in Nat
      BY <3>1, FewerAlive
    <3>3. Alive = {}
      BY <3>1, <3>2, FS_EmptySet
    <3> QED
      BY <2>6, <3>1, <3>3 DEF PassDone, workerVars
  <2>7. ASSUME NEW w \in Workers, Hand(w) PROVE PassInv'
    BY <2>7 DEF Hand
  <2>8. ASSUME NEW w \in Workers, Kill(w) PROVE PassInv'
    BY <2>8, KillStep
  <2>9. ASSUME NEW w \in Workers, backFill(w) PROVE PassInv'
    BY <2>9, WorkerStep
  <2>10. CASE LiveIndex \/ ResetValidation \/ Stop
    BY <2>10 DEF LiveIndex, ResetValidation, Stop, mainVars,
       workerVars, Alive
  <2>11. CASE UNCHANGED vars
    BY <2>11 DEF vars, mainVars, workerVars, Alive
  <2> QED
    BY <2>1, <2>2, <2>3, <2>4, <2>5, <2>6, <2>7, <2>8, <2>9, <2>10, <2>11
    DEF Next, Main
<1> QED
  BY <1>1, <1>2, PTL DEF Spec

\* Whenever BackFill is between two passes or searches for gaps, every worker of
\* the earlier passes has returned (backfiller.go:133-134).
THEOREM PassIsolationAlways == Spec => []PassIsolation
<1>1. PassInv => PassIsolation
  BY DEF PassInv, PassIsolation, Alive
<1> QED
  BY <1>1, PassInvInductive, PTL
-----------------------------------------------------------------------------
(* Positions: induction, and what FlattenSeq does *)

\* Every nonempty set of natural numbers has a least element.
LEMMA LeastExists ==
  ASSUME NEW S \in SUBSET Nat, S # {}
  PROVE  \E x \in S : \A y \in S : x <= y
<1>1. PICK x \in S : \A y \in S : ~(<<y, x>> \in OpToRel(<, Nat))
  BY NatLessThanWellFounded, WFMin
<1>2. \A y \in S : ~(y < x)
  BY <1>1 DEF OpToRel
<1> QED
  BY <1>2

\* Induction over the positions 1..n, for a set of positions.
LEMMA PositionInduction ==
  ASSUME NEW n \in Nat, NEW S, 1 \in S, \A m \in 1..n : m \in S /\ m < n => m + 1 \in S
  PROVE  1..n \subseteq S
<1> SUFFICES ASSUME (1..n) \ S # {} PROVE FALSE
  OBVIOUS
<1>1. (1..n) \ S \in SUBSET Nat
  OBVIOUS
<1>2. PICK x \in (1..n) \ S : \A y \in (1..n) \ S : x <= y
  BY <1>1, LeastExists
<1>3. x \in 1..n /\ x \notin S /\ x # 1
  BY <1>2
<1>4. x - 1 \in 1..n /\ x - 1 < n /\ ~(x <= x - 1)
  BY <1>3
<1>5. x - 1 \in S
  BY <1>2, <1>4
<1>6. (x - 1) + 1 \in S
  BY <1>4, <1>5
<1> QED
  BY <1>3, <1>6

\* The recursive function of FlattenSeq exists: it is the one that unfolds.
LEMMA FlattenUnfolds ==
  ASSUME NEW ss, Len(ss) \in Nat,
         NEW F, F = CHOOSE f : f = [i \in 1..Len(ss) |-> IF i = 1 THEN ss[i] ELSE f[i - 1] \o ss[i]]
  PROVE  F = [i \in 1..Len(ss) |-> IF i = 1 THEN ss[i] ELSE F[i - 1] \o ss[i]]
<1> DEFINE Is(m, f) == f = [i \in 1..m |-> IF i = 1 THEN ss[i] ELSE f[i - 1] \o ss[i]]
<1> DEFINE S == {m \in Nat : \E f : Is(m, f)}
<1>1. 1 \in S
  <2> DEFINE f == [i \in 1..1 |-> ss[i]]
  <2>1. Is(1, f)
    OBVIOUS
  <2> QED
    BY <2>1
<1>2. ASSUME NEW m \in 1..Len(ss), m \in S PROVE m + 1 \in S
  <2>1. PICK f : Is(m, f)
    BY <1>2
  <2> DEFINE g == [i \in 1..(m + 1) |-> IF i = m + 1 THEN f[m] \o ss[m + 1] ELSE f[i]]
  <2>2. \A i \in 1..m : g[i] = f[i]
    OBVIOUS
  <2>3. \A i \in 1..(m + 1) : g[i] = IF i = 1 THEN ss[i] ELSE g[i - 1] \o ss[i]
    <3> SUFFICES ASSUME NEW i \in 1..(m + 1) PROVE g[i] = IF i = 1 THEN ss[i] ELSE g[i - 1] \o ss[i]
      OBVIOUS
    <3>1. CASE i = m + 1
      <4>1. i # 1 /\ i - 1 = m /\ m \in 1..m
        BY <3>1
      <4> QED
        BY <2>2, <3>1, <4>1
    <3>2. CASE i # m + 1
      <4>1. i \in 1..m /\ (i # 1 => i - 1 \in 1..m)
        BY <3>2
      <4>2. f[i] = IF i = 1 THEN ss[i] ELSE f[i - 1] \o ss[i]
        BY <2>1, <4>1
      <4> QED
        BY <2>2, <4>1, <4>2
    <3> QED
      BY <3>1, <3>2
  <2>4. Is(m + 1, g)
    BY <2>3
  <2> HIDE DEF Is, g
  <2>5. \E e : Is(m + 1, e)
    BY <2>4
  <2> QED
    BY <2>5
<1>3. Len(ss) = 0 \/ Len(ss) \in S
  <2> HIDE DEF S
  <2>1. 1..Len(ss) \subseteq S
    BY <1>1, <1>2, PositionInduction
  <2> QED
    BY <2>1
<1>4. \E f : Is(Len(ss), f)
  <2>1. CASE Len(ss) = 0
    <3> DEFINE f == [i \in 1..0 |-> ss[i]]
    <3>1. Is(0, f)
      OBVIOUS
    <3> QED
      BY <2>1, <3>1
  <2> QED
    BY <1>3, <2>1
<1> QED
  BY <1>4

\* The positions of two sequences, one after the other.
LEMMA ConcatPositions ==
  ASSUME NEW T, NEW A \in Seq(T), NEW B \in Seq(T), NEW C, C = A \o B
  PROVE  /\ A \in Seq(T) /\ B \in Seq(T) /\ C \in Seq(T) /\ Len(C) = Len(A) + Len(B)
         /\ Len(A) \in Nat /\ Len(B) \in Nat
         /\ DOMAIN A = 1..Len(A) /\ DOMAIN B = 1..Len(B) /\ DOMAIN C = 1..Len(C)
         /\ \A k \in 1..Len(A) : C[k] = A[k]
         /\ \A k \in 1..Len(C) : k > Len(A) => k - Len(A) \in 1..Len(B) /\ C[k] = B[k - Len(A)]
         /\ \A k \in 1..Len(B) : k + Len(A) \in 1..Len(C) /\ C[k + Len(A)] = B[k]
<1>1. Len(A) \in Nat /\ Len(B) \in Nat /\ DOMAIN A = 1..Len(A) /\ DOMAIN B = 1..Len(B)
  OBVIOUS
<1>2. C \in Seq(T) /\ Len(C) = Len(A) + Len(B) /\ DOMAIN C = 1..Len(C)
  OBVIOUS
<1>3. \A k \in 1..Len(A) : C[k] = A[k]
  OBVIOUS
<1>4. ASSUME NEW k \in 1..Len(C), k > Len(A)
      PROVE  k - Len(A) \in 1..Len(B) /\ C[k] = B[k - Len(A)]
  BY <1>1, <1>2, <1>4
<1>5. ASSUME NEW k \in 1..Len(B)
      PROVE  k + Len(A) \in 1..Len(C) /\ C[k + Len(A)] = B[k]
  <2>1. k + Len(A) \in 1..Len(C) /\ k + Len(A) > Len(A) /\ (k + Len(A)) - Len(A) = k
    BY <1>1, <1>2
  <2> QED
    BY <1>4, <2>1
<1> QED
  BY <1>1, <1>2, <1>3, <1>4, <1>5

\* The positions of flat are the pairs of a sequence of ss and a position in it,
\* in their order.
Flattens(flat, ss) ==
  /\ \A i \in DOMAIN ss : Len(ss[i]) <= Len(flat)
  /\ \A i \in DOMAIN ss : \A j \in DOMAIN ss[i] : \E k \in DOMAIN flat : flat[k] = ss[i][j]
  /\ \A k \in DOMAIN flat : \E i \in DOMAIN ss : \E j \in DOMAIN ss[i] : flat[k] = ss[i][j]
  /\ \A k, l \in DOMAIN flat : k < l =>
       \E h, i \in DOMAIN ss : \E j \in DOMAIN ss[h], m \in DOMAIN ss[i] :
         /\ flat[k] = ss[h][j] /\ flat[l] = ss[i][m]
         /\ h < i \/ (h = i /\ j < m)

\* What FlattenSeq does with the positions.
LEMMA FlattenPositions ==
  ASSUME NEW T, NEW ss \in Seq(Seq(T)), NEW flat, flat = FlattenSeq(ss)
  PROVE  flat \in Seq(T) /\ Flattens(flat, ss)
<1>1. CASE Len(ss) = 0
  <2>1. ss = <<>> /\ flat = <<>>
    BY <1>1 DEF FlattenSeq
  <2>2. DOMAIN ss = {} /\ DOMAIN flat = {}
    <3>1. DOMAIN ss = 1..Len(ss) /\ flat = ss
      BY <2>1
    <3> QED
      BY <1>1, <3>1
  <2>3. flat \in Seq(T)
    BY <2>1, EmptySeq
  <2> QED
    BY <2>2, <2>3 DEF Flattens
<1>2. CASE Len(ss) # 0
  <2> DEFINE F == CHOOSE f : f = [i \in 1..Len(ss) |-> IF i = 1 THEN ss[i] ELSE f[i - 1] \o ss[i]]
  <2>1. flat = F[Len(ss)]
    BY <1>2 DEF FlattenSeq
  <2>2. F = [i \in 1..Len(ss) |-> IF i = 1 THEN ss[i] ELSE F[i - 1] \o ss[i]]
    <3>1. Len(ss) \in Nat
      OBVIOUS
    <3> QED
      BY <3>1, FlattenUnfolds
  <2> HIDE DEF F
  <2>3. F[1] = ss[1] /\ \A m \in 1..Len(ss) : m < Len(ss) => F[m + 1] = F[m] \o ss[m + 1]
    <3>1. Len(ss) \in Nat /\ 1 \in 1..Len(ss)
      BY <1>2
    <3>2. F[1] = ss[1]
      BY <2>2, <3>1
    <3>3. ASSUME NEW m \in 1..Len(ss), m < Len(ss) PROVE F[m + 1] = F[m] \o ss[m + 1]
      <4>1. m + 1 \in 1..Len(ss) /\ m + 1 # 1 /\ (m + 1) - 1 = m
        BY <3>3
      <4>2. F[m + 1] = IF m + 1 = 1 THEN ss[m + 1] ELSE F[(m + 1) - 1] \o ss[m + 1]
        BY <2>2, <4>1
      <4> QED
        BY <4>1, <4>2
    <3> QED
      BY <3>2, <3>3
  <2> DEFINE Fits(m) ==
         /\ F[m] \in Seq(T)
         /\ \A i \in 1..m : Len(ss[i]) <= Len(F[m])
         /\ \A i \in 1..m : \A j \in DOMAIN ss[i] : \E k \in DOMAIN F[m] : F[m][k] = ss[i][j]
         /\ \A k \in DOMAIN F[m] : \E i \in 1..m : \E j \in DOMAIN ss[i] : F[m][k] = ss[i][j]
         /\ \A k, l \in DOMAIN F[m] : k < l =>
              \E h, i \in 1..m : \E j \in DOMAIN ss[h], n \in DOMAIN ss[i] :
                /\ F[m][k] = ss[h][j] /\ F[m][l] = ss[i][n]
                /\ h < i \/ (h = i /\ j < n)
  <2> DEFINE S == {m \in 1..Len(ss) : Fits(m)}
  <2>4. 1 \in S
    <3>1. 1 \in 1..Len(ss) /\ ss[1] \in Seq(T)
      BY <1>2
    <3>2. \A i \in 1..1 : i = 1
      OBVIOUS
    <3>3. Fits(1)
      BY <2>3, <3>1, <3>2
    <3> QED
      BY <3>1, <3>3
  <2>5. ASSUME NEW m \in 1..Len(ss), m \in S, m < Len(ss) PROVE m + 1 \in S
    <3>1. Fits(m)
      BY <2>5
    <3>2. m + 1 \in 1..Len(ss) /\ ss[m + 1] \in Seq(T) /\ m \in Nat
      BY <2>5
    <3> DEFINE A == F[m]  B == ss[m + 1]  C == F[m + 1]
    <3>3. C = A \o B
      BY <2>3, <2>5
    <3>4. /\ A \in Seq(T) /\ B \in Seq(T) /\ C \in Seq(T) /\ Len(C) = Len(A) + Len(B)
          /\ Len(A) \in Nat /\ Len(B) \in Nat
          /\ DOMAIN A = 1..Len(A) /\ DOMAIN B = 1..Len(B) /\ DOMAIN C = 1..Len(C)
          /\ \A k \in 1..Len(A) : C[k] = A[k]
          /\ \A k \in 1..Len(C) : k > Len(A) => k - Len(A) \in 1..Len(B) /\ C[k] = B[k - Len(A)]
          /\ \A k \in 1..Len(B) : k + Len(A) \in 1..Len(C) /\ C[k + Len(A)] = B[k]
      <4>1. A \in Seq(T) /\ B \in Seq(T)
        BY <3>1, <3>2
      <4> HIDE DEF A, B, C
      <4> QED
        BY <3>3, <4>1, ConcatPositions
    <3>5. \A i \in 1..(m + 1) : i = m + 1 \/ i \in 1..m
      BY <3>2
    <3>6. \A i \in 1..m : i \in 1..(m + 1) /\ i < m + 1 /\ i \in DOMAIN ss
      BY <3>2
    <3>7. \A i \in 1..m : ss[i] \in Seq(T) /\ Len(ss[i]) \in Nat
      BY <3>6
    <3> DEFINE At(k, i, j) == C[k] = ss[i][j]
    <3>8. \A k \in 1..Len(A) : \E i \in 1..m : \E j \in DOMAIN ss[i] : C[k] = ss[i][j]
      <4> SUFFICES ASSUME NEW k \in 1..Len(A)
                   PROVE  \E i \in 1..m : \E j \in DOMAIN ss[i] : C[k] = ss[i][j]
        OBVIOUS
      <4>1. k \in DOMAIN F[m] /\ C[k] = F[m][k]
        BY <3>4
      <4>2. PICK i \in 1..m : \E j \in DOMAIN ss[i] : F[m][k] = ss[i][j]
        BY <3>1, <4>1
      <4> HIDE DEF A, C
      <4> QED
        BY <4>1, <4>2
    <3>9. C \in Seq(T)
      BY <3>4
    <3>10. \A i \in 1..(m + 1) : Len(ss[i]) <= Len(C)
      <4> SUFFICES ASSUME NEW i \in 1..(m + 1) PROVE Len(ss[i]) <= Len(C)
        OBVIOUS
      <4>1. CASE i = m + 1
        <5>1. Len(ss[i]) = Len(B)
          BY <4>1
        <5> HIDE DEF A, B, C
        <5> QED
          BY <3>4, <5>1
      <4>2. CASE i \in 1..m
        <5>1. Len(ss[i]) <= Len(A) /\ Len(ss[i]) \in Nat
          BY <3>1, <3>7, <4>2
        <5> HIDE DEF A, B, C
        <5> QED
          BY <3>4, <5>1
      <4> QED
        BY <3>5, <4>1, <4>2
    <3>11. \A i \in 1..(m + 1) : \A j \in DOMAIN ss[i] : \E k \in DOMAIN C : C[k] = ss[i][j]
      <4> SUFFICES ASSUME NEW i \in 1..(m + 1), NEW j \in DOMAIN ss[i]
                   PROVE  \E k \in DOMAIN C : C[k] = ss[i][j]
        OBVIOUS
      <4>1. CASE i = m + 1
        <5>1. j \in DOMAIN B /\ ss[i][j] = B[j]
          BY <4>1
        <5> HIDE DEF A, B, C
        <5> QED
          BY <3>4, <5>1
      <4>2. CASE i \in 1..m
        <5>1. PICK k \in DOMAIN A : A[k] = ss[i][j]
          BY <3>1, <4>2
        <5> HIDE DEF A, B, C
        <5> QED
          BY <3>4, <5>1
      <4> QED
        BY <3>5, <4>1, <4>2
    <3>12. ASSUME NEW k \in DOMAIN C
           PROVE  \/ k \in 1..Len(A) /\ C[k] = A[k]
                  \/ k > Len(A) /\ k - Len(A) \in DOMAIN B /\ C[k] = B[k - Len(A)]
      <4> HIDE DEF A, B, C
      <4> QED
        BY <3>4
    <3>13. \A k \in DOMAIN C : \E i \in 1..(m + 1) : \E j \in DOMAIN ss[i] : C[k] = ss[i][j]
      <4> SUFFICES ASSUME NEW k \in DOMAIN C
                   PROVE  \E i \in 1..(m + 1) : \E j \in DOMAIN ss[i] : C[k] = ss[i][j]
        OBVIOUS
      <4>1. CASE k \in 1..Len(A)
        <5> HIDE DEF A, C
        <5> QED
          BY <3>6, <3>8, <4>1
      <4>2. CASE k - Len(A) \in DOMAIN B /\ C[k] = B[k - Len(A)]
        <5>1. m + 1 \in 1..(m + 1)
          BY <3>2
        <5> HIDE DEF A, C
        <5> QED
          BY <4>2, <5>1
      <4> QED
        BY <3>12, <4>1, <4>2
    <3>14. ASSUME NEW k \in DOMAIN C, NEW l \in DOMAIN C, k < l
           PROVE  \E h, i \in 1..(m + 1) : \E j \in DOMAIN ss[h], n \in DOMAIN ss[i] :
                    /\ C[k] = ss[h][j] /\ C[l] = ss[i][n]
                    /\ h < i \/ (h = i /\ j < n)
      <4>0. m + 1 \in 1..(m + 1)
        BY <3>2
      <4>1. CASE l \in 1..Len(A)
        <5>1. k \in 1..Len(A)
          <6> HIDE DEF A, C
          <6> QED
            BY <3>4, <3>14, <4>1
        <5>2. PICK h \in 1..m, i \in 1..m : \E j \in DOMAIN ss[h], n \in DOMAIN ss[i] :
                    /\ A[k] = ss[h][j] /\ A[l] = ss[i][n] /\ (h < i \/ (h = i /\ j < n))
          <6>1. k \in DOMAIN F[m] /\ l \in DOMAIN F[m]
            BY <3>4, <4>1, <5>1
          <6>2. \A p, q \in DOMAIN F[m] : p < q =>
                  \E h, i \in 1..m : \E j \in DOMAIN ss[h], n \in DOMAIN ss[i] :
                    F[m][p] = ss[h][j] /\ F[m][q] = ss[i][n] /\ (h < i \/ (h = i /\ j < n))
            BY <3>1
          <6>3. \E h, i \in 1..m : \E j \in DOMAIN ss[h], n \in DOMAIN ss[i] :
                  F[m][k] = ss[h][j] /\ F[m][l] = ss[i][n] /\ (h < i \/ (h = i /\ j < n))
            BY <3>14, <6>1, <6>2, Zenon
          <6> QED
            BY <6>3
        <5>3. C[k] = A[k] /\ C[l] = A[l]
          BY <3>4, <4>1, <5>1
        <5>4. h \in 1..(m + 1) /\ i \in 1..(m + 1)
          BY <3>6
        <5> HIDE DEF A, C
        <5> QED
          BY <5>2, <5>3, <5>4
      <4>2. CASE k \in 1..Len(A) /\ l - Len(A) \in DOMAIN B /\ C[l] = B[l - Len(A)]
        <5>1. PICK h \in 1..m : \E j \in DOMAIN ss[h] : C[k] = ss[h][j]
          BY <3>8, <4>2
        <5>2. h \in 1..(m + 1) /\ h < m + 1
          BY <3>6
        <5>3. l - Len(A) \in DOMAIN ss[m + 1] /\ C[l] = ss[m + 1][l - Len(A)]
          BY <4>2
        <5> HIDE DEF A, B, C
        <5> QED
          BY <4>0, <5>1, <5>2, <5>3
      <4>3. CASE k - Len(A) \in DOMAIN B /\ C[k] = B[k - Len(A)] /\ l - Len(A) \in DOMAIN B /\ C[l] = B[l - Len(A)]
        <5>1. /\ k - Len(A) \in DOMAIN ss[m + 1] /\ C[k] = ss[m + 1][k - Len(A)]
              /\ l - Len(A) \in DOMAIN ss[m + 1] /\ C[l] = ss[m + 1][l - Len(A)]
          BY <4>3
        <5>2. k - Len(A) < l - Len(A)
          <6> HIDE DEF A, B, C
          <6> QED
            BY <3>4, <3>14
        <5> HIDE DEF A, B, C
        <5> QED
          BY <4>0, <5>1, <5>2
      <4>4. ~(k > Len(A) /\ l \in 1..Len(A))
        <5> HIDE DEF A, B, C
        <5> QED
          BY <3>4, <3>14
      <4> QED
        BY <3>12, <3>14, <4>1, <4>2, <4>3, <4>4
    <3>15. Fits(m + 1)
      <4>1. \A k, l \in DOMAIN F[m + 1] : k < l =>
              \E h, i \in 1..(m + 1) : \E j \in DOMAIN ss[h], n \in DOMAIN ss[i] :
                /\ F[m + 1][k] = ss[h][j] /\ F[m + 1][l] = ss[i][n]
                /\ h < i \/ (h = i /\ j < n)
        BY <3>14
      <4> QED
        BY <3>9, <3>10, <3>11, <3>13, <4>1
    <3> HIDE DEF Fits
    <3> QED
      BY <3>2, <3>15
  <2>6. Len(ss) \in S
    <3> HIDE DEF S
    <3>1. Len(ss) \in Nat /\ \A m \in 1..Len(ss) : m \in S /\ m < Len(ss) => m + 1 \in S
      BY <2>5
    <3>2. 1..Len(ss) \subseteq S
      BY <2>4, <3>1, PositionInduction
    <3> QED
      BY <1>2, <3>1, <3>2
  <2>7. Fits(Len(ss))
    BY <2>6
  <2>8. DOMAIN ss = 1..Len(ss)
    OBVIOUS
  <2> HIDE DEF F
  <2>9. PICK n : n = Len(ss)
    OBVIOUS
  <2>10. Fits(n) /\ DOMAIN ss = 1..n /\ F[n] = flat
    <3> HIDE DEF Fits
    <3> QED
      BY <2>1, <2>7, <2>8, <2>9
  <2>15. DOMAIN ss = 1..n
    BY <2>10
  <2>11. flat \in Seq(T) /\ \A i \in DOMAIN ss : Len(ss[i]) <= Len(flat)
    BY <2>10
  <2>12. \A i \in DOMAIN ss : \A j \in DOMAIN ss[i] : \E k \in DOMAIN flat : flat[k] = ss[i][j]
    BY <2>10
  <2>13. \A k \in DOMAIN flat : \E i \in DOMAIN ss : \E j \in DOMAIN ss[i] : flat[k] = ss[i][j]
    <3>1. \A k \in DOMAIN flat : \E i \in 1..n : \E j \in DOMAIN ss[i] : flat[k] = ss[i][j]
      BY <2>10
    <3> QED
      BY ONLY <2>15, <3>1, Zenon
  <2>14. ASSUME NEW k \in DOMAIN flat, NEW l \in DOMAIN flat, k < l
         PROVE  \E h, i \in DOMAIN ss : \E j \in DOMAIN ss[h], m \in DOMAIN ss[i] :
                  /\ flat[k] = ss[h][j] /\ flat[l] = ss[i][m]
                  /\ h < i \/ (h = i /\ j < m)
    <3>1. PICK h \in 1..n, i \in 1..n : \E j \in DOMAIN ss[h], m \in DOMAIN ss[i] :
             /\ flat[k] = ss[h][j] /\ flat[l] = ss[i][m] /\ (h < i \/ (h = i /\ j < m))
      BY <2>10, <2>14
    <3>2. h \in DOMAIN ss /\ i \in DOMAIN ss
      BY <2>15
    <3> QED
      BY <3>1, <3>2
  <2> QED
    BY <2>11, <2>12, <2>13, <2>14 DEF Flattens
<1> QED
  BY <1>1, <1>2
-----------------------------------------------------------------------------
(* MissingHeightsToGaps *)

\* One round of the loop of MissingHeightsToGaps, and the state before it.
LoopInit(heights) == [start |-> heights[1], lastHeight |-> heights[1], gaps |-> <<>>]
LoopStep(heights, i, acc) ==
  LET breaks == heights[i] # acc.lastHeight + 1
      start  == IF breaks THEN heights[i] ELSE acc.start
      closed == IF breaks THEN <<Gap(acc.start, acc.lastHeight)>> ELSE <<>>
      final  == IF i = Len(heights) THEN <<Gap(start, heights[i])>> ELSE <<>>
  IN  [start |-> start, lastHeight |-> heights[i], gaps |-> acc.gaps \o closed \o final]

\* The recursive function of the loop exists: it is the one that unfolds.
LEMMA LoopUnfolds ==
  ASSUME NEW heights \in Seq(Nat), heights # <<>>
  PROVE  \E F : /\ F[1] = LoopInit(heights)
                /\ \A m \in 1..Len(heights) :
                     m < Len(heights) => F[m + 1] = LoopStep(heights, m + 1, F[m])
                /\ MissingHeightsToGaps(heights) = F[Len(heights)].gaps
<1> DEFINE Is(m, f) == f = [i \in 1..m |-> IF i = 1 THEN LoopInit(heights)
                                           ELSE LoopStep(heights, i, f[i - 1])]
<1> DEFINE S == {m \in Nat : \E f : Is(m, f)}
<1>0. Len(heights) \in Nat /\ 1 \in 1..Len(heights) /\ Len(heights) \in 1..Len(heights)
  OBVIOUS
<1>1. 1 \in S
  <2> DEFINE f == [i \in 1..1 |-> LoopInit(heights)]
  <2>1. Is(1, f)
    OBVIOUS
  <2> QED
    BY <2>1
<1>2. ASSUME NEW m \in 1..Len(heights), m \in S PROVE m + 1 \in S
  <2>1. PICK f : Is(m, f)
    BY <1>2
  <2> DEFINE g == [i \in 1..(m + 1) |-> IF i = m + 1 THEN LoopStep(heights, m + 1, f[m]) ELSE f[i]]
  <2>2. \A i \in 1..m : g[i] = f[i]
    OBVIOUS
  <2>3. \A i \in 1..(m + 1) :
          g[i] = IF i = 1 THEN LoopInit(heights) ELSE LoopStep(heights, i, g[i - 1])
    <3> SUFFICES ASSUME NEW i \in 1..(m + 1)
                 PROVE g[i] = IF i = 1 THEN LoopInit(heights) ELSE LoopStep(heights, i, g[i - 1])
      OBVIOUS
    <3>1. CASE i = m + 1
      <4>1. i # 1 /\ i - 1 = m /\ m \in 1..m
        BY <3>1
      <4> QED
        BY <2>2, <3>1, <4>1
    <3>2. CASE i # m + 1
      <4>1. i \in 1..m /\ (i # 1 => i - 1 \in 1..m)
        BY <3>2
      <4>2. f[i] = IF i = 1 THEN LoopInit(heights) ELSE LoopStep(heights, i, f[i - 1])
        BY <2>1, <4>1
      <4> QED
        BY <2>2, <4>1, <4>2
    <3> QED
      BY <3>1, <3>2
  <2>4. Is(m + 1, g)
    BY <2>3
  <2> HIDE DEF Is, g
  <2>5. \E e : Is(m + 1, e)
    BY <2>4
  <2> QED
    BY <2>5
<1>3. Len(heights) \in S
  <2> HIDE DEF S
  <2>1. 1..Len(heights) \subseteq S
    BY <1>0, <1>1, <1>2, PositionInduction
  <2> QED
    BY <1>0, <2>1
<1> DEFINE F == CHOOSE f : Is(Len(heights), f)
<1>4. Is(Len(heights), F)
  BY <1>3
<1>5. MissingHeightsToGaps(heights) = F[Len(heights)].gaps
  BY DEF MissingHeightsToGaps, LoopInit, LoopStep
<1> HIDE DEF F
<1>6. F[1] = LoopInit(heights)
  BY <1>0, <1>4
<1>7. ASSUME NEW m \in 1..Len(heights), m < Len(heights)
      PROVE  F[m + 1] = LoopStep(heights, m + 1, F[m])
  <2>1. m + 1 \in 1..Len(heights) /\ m + 1 # 1 /\ (m + 1) - 1 = m
    BY <1>7
  <2>2. F[m + 1] = IF m + 1 = 1 THEN LoopInit(heights) ELSE LoopStep(heights, m + 1, F[(m + 1) - 1])
    BY <1>4, <2>1
  <2> QED
    BY <2>1, <2>2
<1> QED
  BY <1>5, <1>6, <1>7

GapType == [start : Int, stop : Int]

\* The gaps cover the first n heights and nothing else, and a height in two gaps
\* occurs twice among them.
Covers(G, heights, n) ==
  /\ \A q \in 1..n : \E g \in DOMAIN G : heights[q] \in Span(G[g])
  /\ \A g \in DOMAIN G : \A h \in Span(G[g]) : \E q \in 1..n : heights[q] = h
  /\ \A f, g \in DOMAIN G : f < g => \A h \in Span(G[f]) \cap Span(G[g]) :
       \E p, q \in 1..n : p < q /\ heights[p] = h /\ heights[q] = h

\* A concatenation with at most one element.
LEMMA ConcatOne ==
  ASSUME NEW T, NEW A \in Seq(T), NEW x \in T
  PROVE  A \o <<x>> = Append(A, x) /\ A \o <<>> = A /\ Append(A, x) \in Seq(T)
<1>1. A \o <<>> = A
  BY ConcatEmptySeq
<1>2. <<x>> \in Seq(T) /\ Len(<<x>>) = 1 /\ <<x>>[1] = x
  OBVIOUS
<1>3. A \o <<x>> \in Seq(T) /\ Append(A, x) \in Seq(T) /\ Len(A \o <<x>>) = Len(A) + 1
      /\ Len(Append(A, x)) = Len(A) + 1
  BY <1>2
<1>4. \A k \in 1..(Len(A) + 1) : (A \o <<x>>)[k] = Append(A, x)[k]
  BY <1>2
<1> QED
  BY <1>1, <1>3, <1>4

\* A gap of its own for the next height.
LEMMA CoversBreak ==
  ASSUME NEW n \in Nat, NEW heights, \A q \in 1..(n + 1) : heights[q] \in Nat,
         NEW A \in Seq(GapType), Covers(A, heights, n),
         NEW G, G = Append(A, Gap(heights[n + 1], heights[n + 1]))
  PROVE  Covers(G, heights, n + 1)
<1> DEFINE x == Gap(heights[n + 1], heights[n + 1])  l == Len(A) + 1
<1>1. n + 1 \in 1..(n + 1) /\ heights[n + 1] \in Nat /\ x \in GapType
      /\ \A q \in 1..n : q \in 1..(n + 1) /\ q < n + 1
  BY DEF Gap, GapType
<1>2. Span(x) = {heights[n + 1]}
  BY <1>1 DEF Span, Gap
<1>3. /\ DOMAIN G = 1..l /\ l \in DOMAIN G /\ l \in Nat /\ DOMAIN A = 1..Len(A) /\ DOMAIN A \subseteq DOMAIN G
      /\ G[l] = x /\ \A g \in DOMAIN A : G[g] = A[g] /\ g < l
      /\ \A g \in DOMAIN G : g = l \/ g \in DOMAIN A
  BY <1>1
<1> HIDE DEF x, l
<1>4. ASSUME NEW q \in 1..(n + 1) PROVE \E g \in DOMAIN G : heights[q] \in Span(G[g])
  <2>1. q = n + 1 \/ q \in 1..n
    OBVIOUS
  <2> QED
    BY <1>2, <1>3, <2>1 DEF Covers
<1>5. ASSUME NEW g \in DOMAIN G, NEW h \in Span(G[g]) PROVE \E q \in 1..(n + 1) : heights[q] = h
  BY <1>1, <1>2, <1>3 DEF Covers
<1>6. ASSUME NEW f \in DOMAIN G, NEW g \in DOMAIN G, f < g, NEW h \in Span(G[f]) \cap Span(G[g])
      PROVE  \E p, q \in 1..(n + 1) : p < q /\ heights[p] = h /\ heights[q] = h
  <2>1. f \in DOMAIN A
    BY <1>3, <1>6
  <2>2. CASE g \in DOMAIN A
    <3>1. h \in Span(A[f]) \cap Span(A[g])
      BY <1>3, <2>1, <2>2
    <3>2. PICK p \in 1..n, q \in 1..n : p < q /\ heights[p] = h /\ heights[q] = h
      BY <1>6, <2>1, <2>2, <3>1 DEF Covers
    <3> QED
      BY <1>1, <3>2
  <2>3. CASE g = l
    <3>1. h = heights[n + 1] /\ h \in Span(A[f])
      BY <1>2, <1>3, <2>1, <2>3
    <3>2. PICK p \in 1..n : heights[p] = h
      BY <2>1, <3>1 DEF Covers
    <3> QED
      BY <1>1, <3>1, <3>2
  <2> QED
    BY <1>3, <2>2, <2>3
<1> QED
  BY <1>4, <1>5, <1>6 DEF Covers

\* The next height extends the last gap.
LEMMA CoversExtend ==
  ASSUME NEW n \in Nat, NEW heights, \A q \in 1..(n + 1) : heights[q] \in Nat,
         NEW B \in Seq(GapType), NEW s \in Nat, NEW t \in Nat, s <= t, heights[n + 1] = t + 1,
         NEW A, A = Append(B, Gap(s, t)), Covers(A, heights, n),
         NEW G, G = Append(B, Gap(s, t + 1))
  PROVE  Covers(G, heights, n + 1)
<1> DEFINE x == Gap(s, t)  y == Gap(s, t + 1)  l == Len(B) + 1
<1>1. n + 1 \in 1..(n + 1) /\ x \in GapType /\ y \in GapType
      /\ \A q \in 1..n : q \in 1..(n + 1) /\ q < n + 1
  BY DEF Gap, GapType
<1>2. Span(y) = Span(x) \cup {t + 1}
  BY DEF Span, Gap
<1>3. /\ DOMAIN A = 1..l /\ l \in DOMAIN A /\ A[l] = x
      /\ \A g \in DOMAIN A : g = l \/ g \in DOMAIN B
      /\ \A g \in DOMAIN B : A[g] = B[g] /\ g \in DOMAIN A
  BY <1>1
<1>4. /\ DOMAIN G = DOMAIN A /\ G[l] = y /\ l \in Nat /\ DOMAIN B \subseteq Nat
      /\ \A g \in DOMAIN B : G[g] = B[g] /\ g < l
  BY <1>1
<1>5. \A g \in DOMAIN A : \A h \in Span(G[g]) : h \in Span(A[g]) \/ (g = l /\ h = t + 1)
  BY <1>2, <1>3, <1>4
<1>6. \A g \in DOMAIN A : Span(A[g]) \subseteq Span(G[g])
  BY <1>2, <1>3, <1>4
<1> HIDE DEF x, y, l
<1>7. ASSUME NEW q \in 1..(n + 1) PROVE \E g \in DOMAIN G : heights[q] \in Span(G[g])
  <2>1. q = n + 1 \/ q \in 1..n
    OBVIOUS
  <2>2. CASE q = n + 1
    BY <1>2, <1>3, <1>4, <2>2
  <2>3. CASE q \in 1..n
    BY <1>4, <1>6, <2>3 DEF Covers
  <2> QED
    BY <2>1, <2>2, <2>3
<1>8. ASSUME NEW g \in DOMAIN G, NEW h \in Span(G[g]) PROVE \E q \in 1..(n + 1) : heights[q] = h
  <2>1. CASE h \in Span(A[g])
    BY <1>1, <1>4, <2>1 DEF Covers
  <2>2. CASE h = t + 1
    BY <1>1, <2>2
  <2> QED
    BY <1>4, <1>5, <2>1, <2>2
<1>9. ASSUME NEW f \in DOMAIN G, NEW g \in DOMAIN G, f < g, NEW h \in Span(G[f]) \cap Span(G[g])
      PROVE  \E p, q \in 1..(n + 1) : p < q /\ heights[p] = h /\ heights[q] = h
  <2>1. f \in DOMAIN B /\ f \in DOMAIN A /\ g \in DOMAIN A
    BY <1>3, <1>4, <1>9
  <2>2. h \in Span(A[f])
    BY <1>3, <1>4, <2>1
  <2>3. CASE h \in Span(A[g])
    <3>1. PICK p \in 1..n, q \in 1..n : p < q /\ heights[p] = h /\ heights[q] = h
      <4>1. h \in Span(A[f]) \cap Span(A[g])
        BY <2>2, <2>3
      <4> QED
        BY ONLY <1>9, <2>1, <4>1, Covers(A, heights, n) DEF Covers
    <3> QED
      BY <1>1, <3>1
  <2>4. CASE h = t + 1
    <3>1. PICK p \in 1..n : heights[p] = h
      BY <2>1, <2>2 DEF Covers
    <3> QED
      BY <1>1, <2>4, <3>1
  <2> QED
    BY <1>5, <2>1, <2>3, <2>4
<1> QED
  BY <1>7, <1>8, <1>9 DEF Covers

\* What the loop finds, whatever the heights are and in whatever order: its gaps
\* cover the heights and nothing else, and a height in two gaps occurs twice.
\* A list of one height gives no gap.
LEMMA HeightsToGaps ==
  ASSUME NEW heights \in Seq(Nat), NEW G, G = MissingHeightsToGaps(heights)
  PROVE  /\ G \in Seq(GapType)
         /\ Len(heights) < 2 => G = <<>>
         /\ Len(heights) >= 2 => Covers(G, heights, Len(heights))
<1>1. CASE heights = <<>>
  <2>1. G = <<>>
    BY <1>1 DEF MissingHeightsToGaps
  <2>2. G \in Seq(GapType)
    BY <2>1, EmptySeq
  <2>3. Len(heights) = 0
    BY <1>1
  <2> QED
    BY <2>1, <2>2, <2>3
<1>2. CASE heights # <<>>
  <2> DEFINE n == Len(heights)
  <2>0. n \in Nat /\ n >= 1 /\ DOMAIN heights = 1..n /\ \A q \in 1..n : heights[q] \in Nat
    BY <1>2
  <2>1. PICK F : /\ F[1] = LoopInit(heights)
                 /\ \A m \in 1..n : m < n => F[m + 1] = LoopStep(heights, m + 1, F[m])
                 /\ G = F[n].gaps
    BY <1>2, LoopUnfolds
  <2> HIDE DEF n
  \* The gaps after i heights, with the one that is still open.
  <2> DEFINE Open(i) == Append(F[i].gaps, Gap(F[i].start, F[i].lastHeight))
  <2> DEFINE Found(i) == IF i = n /\ n >= 2 THEN F[i].gaps ELSE Open(i)
  <2> DEFINE Good(i) ==
         /\ F[i].start \in Nat /\ F[i].lastHeight = heights[i] /\ F[i].start <= heights[i]
         /\ F[i].gaps \in Seq(GapType)
         /\ Covers(Found(i), heights, i)
  <2> DEFINE S == {i \in 1..n : Good(i)}
  <2>2. 1 \in S /\ F[1].gaps = <<>>
    <3>1. F[1].start = heights[1] /\ F[1].lastHeight = heights[1] /\ F[1].gaps = <<>>
      BY <2>1 DEF LoopInit
    <3>2. heights[1] \in Nat /\ 1 \in 1..n /\ Found(1) = Append(<<>>, Gap(heights[1], heights[1]))
      BY <2>0, <3>1
    <3>3. <<>> \in Seq(GapType) /\ Covers(<<>>, heights, 0)
      BY EmptySeq DEF Covers
    <3>4. Covers(Found(1), heights, 0 + 1)
      <4>1. \A q \in 1..(0 + 1) : heights[q] \in Nat
        BY <3>2
      <4>2. heights[0 + 1] = heights[1]
        OBVIOUS
      <4> HIDE DEF Found
      <4> QED
        BY <3>2, <3>3, <4>1, <4>2, CoversBreak
    <3>5. Good(1)
      BY <3>1, <3>2, <3>3, <3>4
    <3> HIDE DEF Good
    <3> QED
      BY <3>1, <3>2, <3>5
  <2>3. ASSUME NEW i \in 1..n, i \in S, i < n PROVE i + 1 \in S
    <3> DEFINE acc == F[i]  new == F[i + 1]  height == heights[i + 1]
    <3>1. Good(i) /\ i \in Nat /\ i + 1 \in 1..n /\ i # n /\ height \in Nat
          /\ \A q \in 1..(i + 1) : heights[q] \in Nat
      BY <2>0, <2>3
    <3>2. new = LoopStep(heights, i + 1, acc)
      BY <2>1, <2>3
    <3>3. /\ acc.start \in Nat /\ acc.lastHeight \in Nat /\ acc.start <= acc.lastHeight
          /\ acc.gaps \in Seq(GapType)
          /\ Covers(Append(acc.gaps, Gap(acc.start, acc.lastHeight)), heights, i)
      BY <2>0, <2>3, <3>1
    <3> HIDE DEF acc, Good
    <3> DEFINE breaks == height # acc.lastHeight + 1
               start  == IF breaks THEN height ELSE acc.start
               closed == IF breaks THEN Append(acc.gaps, Gap(acc.start, acc.lastHeight)) ELSE acc.gaps
               last   == Gap(start, height)
    <3>4. Gap(acc.start, acc.lastHeight) \in GapType /\ last \in GapType
      BY <3>1, <3>3 DEF Gap, GapType
    <3>5. /\ start \in Nat /\ start <= height
          /\ closed \in Seq(GapType)
      BY <3>1, <3>3, <3>4, ConcatOne
    <3>6. /\ new.start = start /\ new.lastHeight = height
          /\ new.gaps = IF i + 1 = n THEN Append(closed, last) ELSE closed
      <4>1. new.start = start /\ new.lastHeight = height
        BY <3>2 DEF LoopStep
      <4>2. new.gaps = acc.gaps
                       \o (IF breaks THEN <<Gap(acc.start, acc.lastHeight)>> ELSE <<>>)
                       \o (IF i + 1 = n THEN <<last>> ELSE <<>>)
        <5>1. LoopStep(heights, i + 1, acc) =
                [start |-> start, lastHeight |-> height,
                 gaps |-> acc.gaps
                          \o (IF breaks THEN <<Gap(acc.start, acc.lastHeight)>> ELSE <<>>)
                          \o (IF i + 1 = n THEN <<last>> ELSE <<>>)]
          BY Zenon DEF LoopStep, n
        <5>2. PICK gaps : gaps = acc.gaps
                          \o (IF breaks THEN <<Gap(acc.start, acc.lastHeight)>> ELSE <<>>)
                          \o (IF i + 1 = n THEN <<last>> ELSE <<>>)
          OBVIOUS
        <5>3. new = [start |-> start, lastHeight |-> height, gaps |-> gaps]
          BY <3>2, <5>1, <5>2, Zenon
        <5>4. new.gaps = gaps
          BY <5>3
        <5> QED
          BY <5>2, <5>4
      <4>3. acc.gaps \o (IF breaks THEN <<Gap(acc.start, acc.lastHeight)>> ELSE <<>>) = closed
        BY <3>3, <3>4, ConcatOne
      <4> HIDE DEF closed, last, breaks, start, new
      <4>4. closed \o (IF i + 1 = n THEN <<last>> ELSE <<>>) = IF i + 1 = n THEN Append(closed, last) ELSE closed
        BY <3>4, <3>5, ConcatOne
      <4> QED
        BY <4>1, <4>2, <4>3, <4>4
    <3>7. Found(i + 1) = Append(closed, last)
      <4> HIDE DEF closed, last, start, height
      <4>1. CASE i + 1 = n
        BY <2>0, <2>3, <3>6, <4>1
      <4>2. CASE i + 1 # n
        <5>1. new.gaps = closed /\ Found(i + 1) = Append(new.gaps, Gap(new.start, new.lastHeight))
          BY <3>6, <4>2
        <5> QED
          BY <3>6, <5>1 DEF last
      <4> QED
        BY <4>1, <4>2
    <3>8. Covers(Append(closed, last), heights, i + 1)
      <4>1. CASE breaks
        <5>1. closed = Append(acc.gaps, Gap(acc.start, acc.lastHeight)) /\ last = Gap(heights[i + 1], heights[i + 1])
          BY <4>1
        <5> HIDE DEF closed, last
        <5> QED
          BY <3>1, <3>3, <3>5, <5>1, CoversBreak
      <4>2. CASE ~breaks
        <5>1. closed = acc.gaps /\ last = Gap(acc.start, acc.lastHeight + 1) /\ heights[i + 1] = acc.lastHeight + 1
          BY <4>2
        <5> HIDE DEF closed, last
        <5> QED
          BY <3>1, <3>3, <3>5, <5>1, CoversExtend
      <4> QED
        BY <4>1, <4>2
    <3>9. new.gaps \in Seq(GapType)
      <4> HIDE DEF closed, last, new
      <4> QED
        BY <3>4, <3>5, <3>6, ConcatOne
    <3>10. Good(i + 1)
      <4>1. Covers(Found(i + 1), heights, i + 1)
        <5> HIDE DEF Found, closed, last
        <5> QED
          BY <3>7, <3>8
      <4>2. new.start \in Nat /\ new.lastHeight = heights[i + 1] /\ new.start <= heights[i + 1]
        BY <3>5, <3>6
      <4> HIDE DEF Found, closed, last, start
      <4> QED
        BY <3>9, <4>1, <4>2 DEF Good
    <3> QED
      BY <3>1, <3>10
  <2>4. n \in S
    <3> HIDE DEF S
    <3>1. \A i \in 1..n : i \in S /\ i < n => i + 1 \in S
      BY <2>3
    <3>2. 1..n \subseteq S
      BY <2>0, <2>2, <3>1, PositionInduction
    <3> QED
      BY <2>0, <3>2
  <2>5. Good(n)
    BY <2>4
  <2>6. G \in Seq(GapType)
    BY <2>1, <2>5
  <2>7. n < 2 => G = <<>>
    <3>1. n < 2 => n = 1
      BY <2>0
    <3> QED
      BY <2>1, <2>2, <3>1
  <2>8. n >= 2 => Covers(G, heights, n)
    <3>1. n >= 2 => Found(n) = G
      BY <2>1
    <3> HIDE DEF Found
    <3> QED
      BY <2>5, <3>1
  <2> QED
    BY <2>6, <2>7, <2>8 DEF n
<1> QED
  BY <1>1, <1>2
-----------------------------------------------------------------------------
(* The rows of the table and the gaps between them *)

\* Min picks the least height.
LEMMA MinOfHeights ==
  ASSUME NEW N \in Nat, NEW S \in SUBSET (0..N), S # {}
  PROVE  Min(S) \in S /\ \A y \in S : Min(S) <= y
<1>1. \E x \in S : \A y \in S : x <= y
  BY LeastExists
<1> QED
  BY <1>1 DEF Min

\* Max picks the greatest height.
LEMMA MaxOfHeights ==
  ASSUME NEW N \in Nat, NEW S \in SUBSET (0..N), S # {}
  PROVE  Max(S) \in S /\ \A y \in S : y <= Max(S)
<1> DEFINE Below == {d \in Nat : \E x \in S : d = N - x}
<1>1. Below # {}
  <2>1. PICK x \in S : TRUE
    OBVIOUS
  <2>2. N - x \in Nat
    BY <2>1
  <2> QED
    BY <2>1, <2>2
<1>2. PICK d \in Below : \A e \in Below : d <= e
  BY <1>1, LeastExists
<1>3. PICK x \in S : d = N - x
  OBVIOUS
<1>4. \A y \in S : x >= y
  <2> SUFFICES ASSUME NEW y \in S PROVE x >= y
    OBVIOUS
  <2>1. N - y \in Below
    OBVIOUS
  <2>2. d <= N - y
    BY <1>2, <2>1
  <2> QED
    BY <1>3, <2>2
<1>5. \A y \in S : Max(S) >= y /\ Max(S) \in S
  BY <1>4 DEF Max
<1> QED
  BY <1>5

\* The rows below a validation level, at one height.
UnderAt(t, level, h) == {k \in UnderRows(t, level) : k[1] = h}

\* Finitely many rows are below the level, all of stored heights.
LEMMA UnderFinite ==
  ASSUME NEW t, NEW level
  PROVE  /\ IsFiniteSet(UnderRows(t, level))
         /\ \A k \in UnderRows(t, level) : k[1] \in Height /\ k[1] \in Stored(t)
         /\ \A h : IsFiniteSet(UnderAt(t, level, h)) /\ Cardinality(UnderAt(t, level, h)) \in Nat
<1>1. IsFiniteSet(Height)
  BY HeaderAssumption, FS_Interval DEF HeaderAssumption, Height
<1>2. IsFiniteSet(Key)
  BY <1>1, HeaderAssumption, FS_Product DEF HeaderAssumption, Key
<1>3. UnderRows(t, level) \subseteq Key /\ \A k \in UnderRows(t, level) : k \in Rows(t)
  BY DEF UnderRows, Rows
<1>4. \A k \in UnderRows(t, level) : k[1] \in Height /\ k[1] \in Stored(t)
  BY <1>3 DEF Key, Stored
<1>5. IsFiniteSet(UnderRows(t, level))
  BY <1>2, <1>3, FS_Subset
<1>6. ASSUME NEW h PROVE IsFiniteSet(UnderAt(t, level, h)) /\ Cardinality(UnderAt(t, level, h)) \in Nat
  <2>1. UnderAt(t, level, h) \subseteq UnderRows(t, level)
    BY DEF UnderAt
  <2> QED
    BY <1>5, <2>1, FS_Subset, FS_CardinalityType
<1> QED
  BY <1>4, <1>5, <1>6

\* Two members make a set larger than one.
LEMMA TwoMembers ==
  ASSUME NEW S, IsFiniteSet(S), NEW x \in S, NEW y \in S, x # y
  PROVE  Cardinality(S) \in Nat /\ Cardinality(S) >= 2
<1>1. Cardinality(S) \in Nat
  BY FS_CardinalityType
<1>2. Cardinality(S) # 0 /\ Cardinality(S) # 1
  BY FS_EmptySet, FS_Singleton
<1> QED
  BY <1>1, <1>2

\* The query of under-validated headers: its result has the heights of these
\* headers, and one that occurs twice has two of them.
LEMMA UnderHeightsFacts ==
  ASSUME NEW t, NEW level, NEW H, H = UnderHeights(t, level)
  PROVE  /\ H \in Seq(Nat)
         /\ \A q \in DOMAIN H : \E k \in UnderRows(t, level) : k[1] = H[q]
         /\ \A k \in UnderRows(t, level) : \E q \in DOMAIN H : k[1] = H[q]
         /\ \A p, q \in DOMAIN H : p < q /\ H[p] = H[q] => Cardinality(UnderAt(t, level, H[p])) > 1
         /\ \A j, k \in UnderRows(t, level) : j # k => Len(H) >= 2
<1> DEFINE At(i) == UnderAt(t, level, i - 1)
           ss == [i \in 1..(MaxHeight + 1) |-> [j \in 1..Cardinality(At(i)) |-> i - 1]]
<1>1. MaxHeight \in Nat
  BY HeaderAssumption DEF HeaderAssumption
<1>2. H = FlattenSeq(ss)
  BY DEF UnderHeights, UnderAt
<1>3. \A i \in 1..(MaxHeight + 1) : Cardinality(At(i)) \in Nat /\ IsFiniteSet(At(i))
  BY UnderFinite
<1> HIDE DEF At
<1>4. ASSUME NEW i \in 1..(MaxHeight + 1)
      PROVE  /\ ss[i] \in Seq(Nat) /\ Len(ss[i]) = Cardinality(At(i)) /\ DOMAIN ss[i] = 1..Cardinality(At(i))
             /\ \A j \in DOMAIN ss[i] : ss[i][j] = i - 1
  <2>1. ss[i] = [j \in 1..Cardinality(At(i)) |-> i - 1] /\ i - 1 \in Nat
    BY <1>1
  <2>2. ss[i] \in [1..Cardinality(At(i)) -> Nat]
    BY <2>1
  <2>3. ss[i] \in Seq(Nat)
    BY <1>3, <2>2, SeqDef
  <2> HIDE DEF ss
  <2>4. DOMAIN ss[i] = 1..Cardinality(At(i)) /\ \A j \in DOMAIN ss[i] : ss[i][j] = i - 1
    BY <2>1
  <2>5. Len(ss[i]) = Cardinality(At(i))
    BY <1>3, <2>3, <2>4, LenProperties
  <2> QED
    BY <2>3, <2>4, <2>5
<1>5. ss \in Seq(Seq(Nat)) /\ DOMAIN ss = 1..(MaxHeight + 1)
  <2>1. ss \in [1..(MaxHeight + 1) -> Seq(Nat)]
    BY <1>4
  <2>2. MaxHeight + 1 \in Nat
    BY <1>1
  <2> HIDE DEF ss
  <2> QED
    BY <2>1, <2>2, SeqDef
<1> HIDE DEF ss
<1>6. /\ H \in Seq(Nat)
      /\ \A i \in DOMAIN ss : Len(ss[i]) <= Len(H)
      /\ \A i \in DOMAIN ss : \A j \in DOMAIN ss[i] : \E k \in DOMAIN H : H[k] = ss[i][j]
      /\ \A k \in DOMAIN H : \E i \in DOMAIN ss : \E j \in DOMAIN ss[i] : H[k] = ss[i][j]
      /\ \A k, l \in DOMAIN H : k < l =>
              \E h, i \in DOMAIN ss : \E j \in DOMAIN ss[h], m \in DOMAIN ss[i] :
                /\ H[k] = ss[h][j] /\ H[l] = ss[i][m]
                /\ h < i \/ (h = i /\ j < m)
  <2>1. ss \in Seq(Seq(Nat))
    BY <1>5
  <2>2. H \in Seq(Nat) /\ Flattens(H, ss)
    BY <1>2, <2>1, FlattenPositions
  <2> QED
    BY <2>2 DEF Flattens
<1>7. ASSUME NEW q \in DOMAIN H PROVE \E k \in UnderRows(t, level) : k[1] = H[q]
  <2>1. PICK i \in DOMAIN ss : \E j \in DOMAIN ss[i] : H[q] = ss[i][j]
    BY <1>6
  <2>2. i \in 1..(MaxHeight + 1) /\ H[q] = i - 1 /\ 1..Cardinality(At(i)) # {}
    BY <1>4, <1>5, <2>1
  <2>3. Cardinality(At(i)) # 0
    BY <1>3, <2>2
  <2>4. At(i) # {}
    BY <2>3, FS_EmptySet
  <2> QED
    BY <2>2, <2>4 DEF At, UnderAt
<1>8. ASSUME NEW k \in UnderRows(t, level)
      PROVE  /\ k[1] \in Height /\ k[1] + 1 \in DOMAIN ss /\ k \in At(k[1] + 1)
             /\ \E q \in DOMAIN H : k[1] = H[q]
  <2>1. k[1] \in Height
    BY UnderFinite
  <2>2. k[1] + 1 \in 1..(MaxHeight + 1) /\ (k[1] + 1) - 1 = k[1]
    BY <1>1, <2>1 DEF Height
  <2>3. k \in At(k[1] + 1)
    BY <2>2 DEF At, UnderAt
  <2>4. Cardinality(At(k[1] + 1)) # 0
    BY <1>3, <2>2, <2>3, FS_EmptySet
  <2>5. 1 \in DOMAIN ss[k[1] + 1] /\ ss[k[1] + 1][1] = k[1]
    <3>1. 1 \in 1..Cardinality(At(k[1] + 1))
      BY <1>3, <2>2, <2>4
    <3> QED
      BY <1>4, <2>2, <3>1
  <2>6. PICK q \in DOMAIN H : H[q] = ss[k[1] + 1][1]
    BY <1>5, <1>6, <2>2, <2>5
  <2> QED
    BY <1>5, <2>1, <2>2, <2>3, <2>5, <2>6
<1>9. ASSUME NEW p \in DOMAIN H, NEW q \in DOMAIN H, p < q, H[p] = H[q]
      PROVE  Cardinality(UnderAt(t, level, H[p])) > 1
  <2>1. PICK h \in DOMAIN ss, i \in DOMAIN ss : \E j \in DOMAIN ss[h], m \in DOMAIN ss[i] :
                /\ H[p] = ss[h][j] /\ H[q] = ss[i][m] /\ (h < i \/ (h = i /\ j < m))
    BY <1>6, <1>9
  <2>2. PICK j \in DOMAIN ss[h], m \in DOMAIN ss[i] :
                /\ H[p] = ss[h][j] /\ H[q] = ss[i][m] /\ (h < i \/ (h = i /\ j < m))
    BY <2>1
  <2>3. H[p] = h - 1 /\ H[q] = i - 1 /\ h \in Nat /\ i \in Nat
    BY <1>4, <1>5, <2>2
  <2>4. h = i /\ j < m
    <3>0. h - 1 = i - 1
      BY <1>9, <2>3
    <3>1. h = i
      BY <2>3, <3>0
    <3>2. ~(h < i)
      BY <2>3, <3>1
    <3> QED
      BY <2>2, <3>1, <3>2
  <2>5. j \in 1..Cardinality(At(h)) /\ m \in 1..Cardinality(At(h)) /\ Cardinality(At(h)) \in Nat
    BY <1>3, <1>4, <1>5, <2>2, <2>4
  <2>6. Cardinality(At(h)) > 1
    BY <2>4, <2>5
  <2> QED
    BY <2>3, <2>6 DEF At
<1>10. ASSUME NEW j \in UnderRows(t, level), NEW k \in UnderRows(t, level), j # k PROVE Len(H) >= 2
  <2>1. CASE j[1] = k[1]
    <3>1. j \in At(k[1] + 1) /\ k \in At(k[1] + 1) /\ k[1] + 1 \in DOMAIN ss
      BY <1>8, <2>1
    <3>2. IsFiniteSet(At(k[1] + 1))
      BY <1>3, <1>5, <3>1
    <3>3. Cardinality(At(k[1] + 1)) \in Nat /\ Cardinality(At(k[1] + 1)) >= 2
      BY <1>10, <3>1, <3>2, TwoMembers
    <3>4. Len(ss[k[1] + 1]) = Cardinality(At(k[1] + 1)) /\ Len(ss[k[1] + 1]) <= Len(H)
      BY <1>4, <1>5, <1>6, <3>1
    <3>5. Len(H) \in Nat
      BY <1>6
    <3> QED
      BY <3>3, <3>4, <3>5
  <2>2. CASE j[1] # k[1]
    <3>1. PICK p \in DOMAIN H : j[1] = H[p]
      BY <1>8
    <3>2. PICK q \in DOMAIN H : k[1] = H[q]
      BY <1>8
    <3>3. p # q /\ DOMAIN H = 1..Len(H) /\ Len(H) \in Nat
      BY <1>6, <2>2, <3>1, <3>2
    <3> QED
      BY <3>1, <3>2, <3>3
  <2> QED
    BY <2>1, <2>2
<1> QED
  BY <1>6, <1>7, <1>8, <1>9, <1>10

\* A table with a row has a first and a last height.
LEMMA StoredFacts ==
  ASSUME NEW t, Rows(t) # {}
  PROVE  /\ Stored(t) \in SUBSET (0..MaxHeight) /\ Stored(t) # {} /\ MaxHeight \in Nat
         /\ Min(Stored(t)) \in Stored(t) /\ \A h \in Stored(t) : Min(Stored(t)) <= h
         /\ Max(Stored(t)) \in Stored(t) /\ \A h \in Stored(t) : h <= Max(Stored(t))
<1>1. MaxHeight \in Nat
  BY HeaderAssumption DEF HeaderAssumption
<1>2. Stored(t) \in SUBSET (0..MaxHeight) /\ Stored(t) # {}
  BY DEF Stored, Rows, Key, Height
<1> QED
  BY <1>1, <1>2, MinOfHeights, MaxOfHeights

\* The gap below the first block.
LEMMA InitialGapFacts ==
  ASSUME NEW t, Rows(t) # {}, NEW I, I = InitialGap(t)
  PROVE  /\ I \in Seq(GapType)
         /\ \A i, j \in DOMAIN I : i = j
         /\ \A h : (\E i \in DOMAIN I : h \in Span(I[i])) <=> h \in Nat /\ h < Min(Stored(t))
<1> DEFINE m == Min(Stored(t))
<1>1. m \in Nat
  BY StoredFacts
<1>2. I = IF m # 0 THEN <<Gap(0, m - 1)>> ELSE <<>>
  BY DEF InitialGap, RetrieveFirstBlockNumber
<1> HIDE DEF m
<1>3. CASE m = 0
  <2>1. I = <<>> /\ DOMAIN I = {}
    BY <1>2, <1>3
  <2>2. I \in Seq(GapType)
    BY <2>1, EmptySeq
  <2> QED
    BY <1>1, <1>3, <2>1, <2>2 DEF m
<1>4. CASE m # 0
  <2> DEFINE g == Gap(0, m - 1)
  <2>1. g \in GapType /\ Span(g) = 0..(m - 1)
    BY <1>1, <1>4 DEF Gap, GapType, Span
  <2>2. I = <<g>>
    BY <1>2, <1>4
  <2> HIDE DEF g
  <2>3. I \in Seq(GapType) /\ DOMAIN I = {1} /\ I[1] = g
    BY <2>1, <2>2
  <2>4. \A h : h \in 0..(m - 1) <=> h \in Nat /\ h < m
    BY <1>1, <1>4
  <2> QED
    BY <2>1, <2>3, <2>4 DEF m
<1> QED
  BY <1>3, <1>4

\* The heights after which an empty gap begins, and the stored one that ends it.
Before(t) == {g \in Stored(t) : g + 1 \notin Stored(t) /\ g < Max(Stored(t))}
After(t, h) == Min({g \in Stored(t) : g > h})

\* The stored height after h is the least one above it.
LEMMA AfterFacts ==
  ASSUME NEW t, Rows(t) # {}, NEW h \in Int, h < Max(Stored(t))
  PROVE  After(t, h) \in Stored(t) /\ After(t, h) > h /\ \A g \in Stored(t) : g > h => After(t, h) <= g
<1> DEFINE S == {g \in Stored(t) : g > h}
<1>1. S \in SUBSET (0..MaxHeight) /\ MaxHeight \in Nat /\ Max(Stored(t)) \in S
  BY StoredFacts
<1>2. Min(S) \in S /\ \A y \in S : Min(S) <= y
  <2> HIDE DEF S
  <2> QED
    BY <1>1, MinOfHeights
<1> QED
  BY <1>2 DEF After

\* The empty gaps, one by one: the heights between two neighbours in the index.
LEMMA EmptyGapFacts ==
  ASSUME NEW t, Rows(t) # {}
  PROVE  /\ EmptyGaps(t) = {Gap(h + 1, After(t, h) - 1) : h \in Before(t)}
         /\ \A h \in Before(t) : /\ h \in Stored(t) /\ h \in Nat /\ After(t, h) \in Stored(t) /\ After(t, h) \in Nat
                                 /\ h < After(t, h) /\ \A g \in Stored(t) : g <= h \/ After(t, h) <= g
         /\ EmptyGaps(t) \subseteq GapType
         /\ IsFiniteSet(EmptyGaps(t))
<1>1. EmptyGaps(t) = {Gap(h + 1, After(t, h) - 1) : h \in Before(t)}
  BY DEF EmptyGaps, Before, After
<1>2. ASSUME NEW h \in Before(t)
      PROVE  /\ h \in Stored(t) /\ h \in Nat /\ After(t, h) \in Stored(t) /\ After(t, h) \in Nat
             /\ h < After(t, h) /\ \A g \in Stored(t) : g <= h \/ After(t, h) <= g
  <2>1. h \in Stored(t) /\ h < Max(Stored(t)) /\ Stored(t) \subseteq Nat
    BY StoredFacts DEF Before
  <2>2. After(t, h) \in Stored(t) /\ After(t, h) > h /\ \A g \in Stored(t) : g > h => After(t, h) <= g
    BY <2>1, AfterFacts
  <2>3. \A g \in Stored(t) : g <= h \/ g > h
    BY <2>1
  <2> QED
    BY <2>1, <2>2, <2>3
<1>3. EmptyGaps(t) \subseteq GapType
  <2> SUFFICES ASSUME NEW h \in Before(t) PROVE Gap(h + 1, After(t, h) - 1) \in GapType
    BY <1>1
  <2> QED
    BY <1>2 DEF Gap, GapType
<1>4. IsFiniteSet(EmptyGaps(t))
  <2> DEFINE f == [h \in Before(t) |-> Gap(h + 1, After(t, h) - 1)]
  <2>1. f \in Surjection(Before(t), EmptyGaps(t))
    BY <1>1 DEF Surjection
  <2>2. Before(t) \subseteq 0..MaxHeight /\ MaxHeight \in Nat
    BY StoredFacts DEF Before
  <2>3. IsFiniteSet(Before(t))
    <3>1. IsFiniteSet(0..MaxHeight)
      BY <2>2, FS_Interval
    <3> QED
      BY <2>2, <3>1, FS_Subset
  <2> HIDE DEF f
  <2> QED
    BY <2>1, <2>3, FS_Surjection
<1> QED
  BY <1>1, <1>2, <1>3, <1>4

\* Whatever order SQL gives the empty gaps: they are disjoint and hold the heights
\* above the first block and below the last one that are not stored.
LEMMA EmptySeqFacts ==
  ASSUME NEW t, Rows(t) # {}, NEW E \in SetToSeqs(EmptyGaps(t))
  PROVE  /\ E \in Seq(GapType)
         /\ \A i, j \in DOMAIN E : i # j => Span(E[i]) \cap Span(E[j]) = {}
         /\ \A h : (\E i \in DOMAIN E : h \in Span(E[i])) <=>
                     /\ h \in Nat /\ h \notin Stored(t)
                     /\ Min(Stored(t)) < h /\ h < Max(Stored(t))
<1> DEFINE n == Cardinality(EmptyGaps(t))
<1>1. n \in Nat
  BY EmptyGapFacts, FS_CardinalityType
<1>2. E \in [1..n -> EmptyGaps(t)] /\ \A i, j \in 1..n : i # j => E[i] # E[j]
  BY DEF SetToSeqs
<1> HIDE DEF n
<1>3. DOMAIN E = 1..n /\ E \in Seq(EmptyGaps(t))
  BY <1>1, <1>2, SeqDef
<1>4. E \in Seq(GapType)
  <2>1. E \in [1..n -> GapType]
    BY <1>2, EmptyGapFacts
  <2> QED
    BY <1>1, <2>1, SeqDef
<1>5. \A g \in EmptyGaps(t) : \E i \in 1..n : E[i] = g
  <2>1. E \in Injection(1..n, EmptyGaps(t))
    BY <1>2 DEF Injection, IsInjective
  <2>2. IsFiniteSet(EmptyGaps(t)) /\ Cardinality(1..n) = n
    <3>1. Cardinality(1..n) = IF 1 > n THEN 0 ELSE n - 1 + 1
      BY <1>1, FS_Interval
    <3> QED
      BY <1>1, <3>1, EmptyGapFacts
  <2>3. E \in Surjection(1..n, EmptyGaps(t))
    BY <2>1, <2>2, FS_Injection DEF n
  <2> QED
    BY <2>3 DEF Surjection
<1>6. ASSUME NEW i \in 1..n
      PROVE  \E h \in Before(t) : E[i] = Gap(h + 1, After(t, h) - 1) /\ Span(E[i]) = (h + 1)..(After(t, h) - 1)
  <2>1. PICK h \in Before(t) : E[i] = Gap(h + 1, After(t, h) - 1)
    BY <1>2, EmptyGapFacts
  <2>2. Span(E[i]) = (h + 1)..(After(t, h) - 1)
    BY <2>1 DEF Gap, Span
  <2> QED
    BY <2>1, <2>2
<1>7. ASSUME NEW i \in 1..n, NEW j \in 1..n, i # j PROVE Span(E[i]) \cap Span(E[j]) = {}
  <2>1. PICK h \in Before(t) : E[i] = Gap(h + 1, After(t, h) - 1) /\ Span(E[i]) = (h + 1)..(After(t, h) - 1)
    BY <1>6
  <2>2. PICK g \in Before(t) : E[j] = Gap(g + 1, After(t, g) - 1) /\ Span(E[j]) = (g + 1)..(After(t, g) - 1)
    BY <1>6
  <2>3. h # g
    BY <1>2, <1>7, <2>1, <2>2
  <2>4. /\ h \in Nat /\ g \in Nat /\ After(t, h) \in Nat /\ After(t, g) \in Nat
        /\ g <= h \/ After(t, h) <= g
        /\ h <= g \/ After(t, g) <= h
    BY EmptyGapFacts
  <2>5. After(t, h) <= g \/ After(t, g) <= h
    BY <2>3, <2>4
  <2> QED
    BY <2>1, <2>2, <2>4, <2>5
<1>8. ASSUME NEW i \in 1..n, NEW x \in Span(E[i])
      PROVE  x \in Nat /\ x \notin Stored(t) /\ Min(Stored(t)) < x /\ x < Max(Stored(t))
  <2>1. PICK h \in Before(t) : E[i] = Gap(h + 1, After(t, h) - 1) /\ Span(E[i]) = (h + 1)..(After(t, h) - 1)
    BY <1>6
  <2>2. /\ h \in Nat /\ After(t, h) \in Nat /\ h \in Stored(t) /\ After(t, h) \in Stored(t)
        /\ \A g \in Stored(t) : g <= h \/ After(t, h) <= g
    BY EmptyGapFacts
  <2>3. x \in Nat /\ h < x /\ x < After(t, h)
    BY <2>1, <2>2
  <2>4. x \notin Stored(t)
    BY <2>2, <2>3
  <2>5. Min(Stored(t)) <= h /\ After(t, h) <= Max(Stored(t)) /\ Min(Stored(t)) \in Nat /\ Max(Stored(t)) \in Nat
    BY <2>2, StoredFacts
  <2> QED
    BY <2>2, <2>3, <2>4, <2>5
<1>9. ASSUME NEW x \in Nat, x \notin Stored(t), Min(Stored(t)) < x, x < Max(Stored(t))
      PROVE  \E i \in 1..n : x \in Span(E[i])
  <2> DEFINE L == {g \in Stored(t) : g < x}  h == Max(L)
  <2>1. L \in SUBSET (0..MaxHeight) /\ MaxHeight \in Nat /\ Min(Stored(t)) \in L
    BY <1>9, StoredFacts
  <2>2. h \in L /\ \A y \in L : y <= h
    <3> HIDE DEF L
    <3> QED
      BY <2>1, MaxOfHeights
  <2> HIDE DEF h
  <2>3. h \in Stored(t) /\ h < x /\ h \in Nat /\ Stored(t) \subseteq Nat /\ Max(Stored(t)) \in Nat
    BY <2>2, StoredFacts
  <2>4. h + 1 \notin Stored(t)
    <3>1. CASE h + 1 = x
      BY <1>9, <3>1
    <3>2. CASE h + 1 # x
      <4>1. h + 1 < x
        BY <2>3, <3>2
      <4>2. h + 1 \in Stored(t) => h + 1 <= h
        BY <2>2, <4>1
      <4> QED
        BY <2>3, <4>2
    <3> QED
      BY <3>1, <3>2
  <2>5. h \in Before(t)
    BY <1>9, <2>3, <2>4 DEF Before
  <2>6. After(t, h) \in Stored(t) /\ After(t, h) > h /\ After(t, h) \in Nat
    BY <2>5, EmptyGapFacts
  <2>7. x < After(t, h)
    <3>1. After(t, h) # x
      BY <1>9, <2>6
    <3>2. ~(After(t, h) < x)
      <4>1. After(t, h) < x => After(t, h) <= h
        BY <2>2, <2>6
      <4> QED
        BY <2>3, <2>6, <4>1
    <3> QED
      BY <2>6, <3>1, <3>2
  <2>8. PICK i \in 1..n : E[i] = Gap(h + 1, After(t, h) - 1)
    BY <1>5, <2>5, EmptyGapFacts
  <2>9. x \in Span(E[i])
    BY <2>3, <2>6, <2>7, <2>8 DEF Span, Gap
  <2> QED
    BY <2>9
<1> QED
  BY <1>3, <1>4, <1>7, <1>8, <1>9
-----------------------------------------------------------------------------
(* RetrieveGapsInData and the batches of a pass *)

\* The gaps the search returns: no height is in two of them unless it has two
\* headers below the level, and together they hold the heights below the last
\* one that are not stored and, unless there is only one, those of the headers
\* below the level.
LEMMA SearchFacts ==
  ASSUME NEW t, NEW level, NEW gaps \in RetrieveGapsInData(t, level)
  PROVE  /\ Rows(t) # {}
         /\ gaps \in Seq(GapType)
         /\ \A i, j \in DOMAIN gaps : i < j => \A h \in Span(gaps[i]) \cap Span(gaps[j]) :
              Cardinality(UnderAt(t, level, h)) > 1
         /\ \A i \in DOMAIN gaps : \A h \in Span(gaps[i]) :
              \/ h \in 0..Max(Stored(t)) /\ h \notin Stored(t)
              \/ \E k \in UnderRows(t, level) : k[1] = h
         /\ \A h \in 0..Max(Stored(t)) : h \notin Stored(t) => \E i \in DOMAIN gaps : h \in Span(gaps[i])
         /\ \A j, k \in UnderRows(t, level) : j # k => \E i \in DOMAIN gaps : k[1] \in Span(gaps[i])
<1>1. Rows(t) # {}
  BY DEF RetrieveGapsInData
<1> DEFINE I == InitialGap(t)  H == UnderHeights(t, level)  U == MissingHeightsToGaps(H)
<1>2. PICK E \in SetToSeqs(EmptyGaps(t)) : gaps = I \o E \o U
  BY <1>1 DEF RetrieveGapsInData
<1> DEFINE Head2 == I \o E  min == Min(Stored(t))  max == Max(Stored(t))
<1>3. /\ min \in Nat /\ max \in Nat /\ min \in Stored(t) /\ max \in Stored(t)
      /\ \A h \in Stored(t) : h \in Nat /\ min <= h /\ h <= max
  BY <1>1, StoredFacts
<1>4. /\ I \in Seq(GapType)
      /\ \A i, j \in DOMAIN I : i = j
      /\ \A h : (\E i \in DOMAIN I : h \in Span(I[i])) <=> h \in Nat /\ h < min
  BY <1>1, InitialGapFacts
<1>5. /\ E \in Seq(GapType)
      /\ \A i, j \in DOMAIN E : i # j => Span(E[i]) \cap Span(E[j]) = {}
      /\ \A h : (\E i \in DOMAIN E : h \in Span(E[i])) <=>
                  h \in Nat /\ h \notin Stored(t) /\ min < h /\ h < max
  BY <1>1, EmptySeqFacts
<1>6. /\ H \in Seq(Nat)
      /\ \A q \in DOMAIN H : \E k \in UnderRows(t, level) : k[1] = H[q]
      /\ \A k \in UnderRows(t, level) : \E q \in DOMAIN H : k[1] = H[q]
      /\ \A p, q \in DOMAIN H : p < q /\ H[p] = H[q] => Cardinality(UnderAt(t, level, H[p])) > 1
      /\ \A j, k \in UnderRows(t, level) : j # k => Len(H) >= 2
  BY UnderHeightsFacts
<1> HIDE DEF I, H, min, max
<1>7. /\ U \in Seq(GapType) /\ (Len(H) < 2 => U = <<>>) /\ (Len(H) >= 2 => Covers(U, H, Len(H)))
      /\ Len(H) \in Nat /\ DOMAIN H = 1..Len(H)
  BY <1>6, HeightsToGaps
<1>8. ASSUME NEW g \in DOMAIN U, NEW h \in Span(U[g])
      PROVE  \E k \in UnderRows(t, level) : k[1] = h
  <2>1. Len(H) >= 2
    BY <1>7
  <2>2. PICK q \in 1..Len(H) : H[q] = h
    BY <1>7, <2>1 DEF Covers
  <2> QED
    BY <1>6, <1>7, <2>2
<1>9. ASSUME NEW f \in DOMAIN U, NEW g \in DOMAIN U, f < g, NEW h \in Span(U[f]) \cap Span(U[g])
      PROVE  Cardinality(UnderAt(t, level, h)) > 1
  <2>1. Len(H) >= 2
    BY <1>7
  <2>2. PICK p \in 1..Len(H), q \in 1..Len(H) : p < q /\ H[p] = h /\ H[q] = h
    BY <1>7, <1>9, <2>1 DEF Covers
  <2>3. p \in DOMAIN H /\ q \in DOMAIN H /\ H[p] = H[q] /\ H[p] = h
    BY <1>7, <2>2
  <2> QED
    BY <1>6, <2>2, <2>3
<1>10. ASSUME NEW j \in UnderRows(t, level), NEW k \in UnderRows(t, level), j # k
       PROVE  \E g \in DOMAIN U : k[1] \in Span(U[g])
  <2>1. Len(H) >= 2
    BY <1>6, <1>10
  <2>2. PICK q \in DOMAIN H : k[1] = H[q]
    BY <1>6
  <2>3. PICK g \in DOMAIN U : H[q] \in Span(U[g])
    BY <1>7, <2>1, <2>2 DEF Covers
  <2> QED
    BY <2>2, <2>3
<1>11. ASSUME NEW g \in DOMAIN U, NEW h \in Span(U[g]) PROVE h \in Stored(t)
  BY <1>8, UnderFinite
<1> HIDE DEF U
\* The three parts of the result.
<1>12. /\ Head2 \in Seq(GapType) /\ Len(Head2) = Len(I) + Len(E)
       /\ Len(I) \in Nat /\ Len(E) \in Nat
       /\ DOMAIN I = 1..Len(I) /\ DOMAIN E = 1..Len(E) /\ DOMAIN Head2 = 1..Len(Head2)
       /\ \A k \in 1..Len(I) : Head2[k] = I[k]
       /\ \A k \in 1..Len(Head2) : k > Len(I) => k - Len(I) \in 1..Len(E) /\ Head2[k] = E[k - Len(I)]
       /\ \A k \in 1..Len(E) : k + Len(I) \in 1..Len(Head2) /\ Head2[k + Len(I)] = E[k]
  BY <1>4, <1>5, ConcatPositions
<1>13. gaps = Head2 \o U
  BY <1>2
<1> HIDE DEF Head2
<1>14. /\ gaps \in Seq(GapType) /\ Len(gaps) = Len(Head2) + Len(U)
       /\ Len(Head2) \in Nat /\ Len(U) \in Nat
       /\ DOMAIN U = 1..Len(U) /\ DOMAIN gaps = 1..Len(gaps)
       /\ \A k \in 1..Len(Head2) : gaps[k] = Head2[k]
       /\ \A k \in 1..Len(gaps) : k > Len(Head2) => k - Len(Head2) \in 1..Len(U) /\ gaps[k] = U[k - Len(Head2)]
       /\ \A k \in 1..Len(U) : k + Len(Head2) \in 1..Len(gaps) /\ gaps[k + Len(Head2)] = U[k]
  <2>1. Head2 \in Seq(GapType) /\ U \in Seq(GapType)
    BY <1>7, <1>12
  <2> QED
    BY <1>13, <2>1, ConcatPositions
<1> DEFINE InI(k) == k \in DOMAIN I /\ gaps[k] = I[k]
           InE(k) == k > Len(I) /\ k - Len(I) \in DOMAIN E /\ gaps[k] = E[k - Len(I)]
           InU(k) == k > Len(Head2) /\ k - Len(Head2) \in DOMAIN U /\ gaps[k] = U[k - Len(Head2)]
<1>15. \A k \in DOMAIN gaps : k \in Nat /\ (InI(k) \/ InE(k) \/ InU(k))
  <2> SUFFICES ASSUME NEW k \in DOMAIN gaps PROVE k \in Nat /\ (InI(k) \/ InE(k) \/ InU(k))
    OBVIOUS
  <2>1. k \in 1..Len(gaps) /\ k \in Nat
    BY <1>12, <1>14
  <2>2. CASE k > Len(Head2)
    BY <1>14, <2>1, <2>2
  <2>3. CASE ~(k > Len(Head2))
    <3>1. k \in 1..Len(Head2) /\ gaps[k] = Head2[k]
      BY <1>14, <2>1, <2>3
    <3>2. CASE k > Len(I)
      BY <1>12, <2>1, <3>1, <3>2
    <3>3. CASE ~(k > Len(I))
      <4>1. k \in 1..Len(I)
        BY <1>12, <2>1, <3>3
      <4> QED
        BY <1>12, <2>1, <3>1, <4>1
    <3> QED
      BY <3>2, <3>3
  <2> QED
    BY <2>2, <2>3
<1>16. \A k \in DOMAIN I : k \in DOMAIN gaps /\ gaps[k] = I[k]
  <2> SUFFICES ASSUME NEW k \in DOMAIN I PROVE k \in DOMAIN gaps /\ gaps[k] = I[k]
    OBVIOUS
  <2>1. k \in 1..Len(I) /\ k \in 1..Len(Head2) /\ k \in 1..Len(gaps)
    BY <1>12, <1>14
  <2> QED
    BY <1>12, <1>14, <2>1
<1>17. \A k \in DOMAIN E : k + Len(I) \in DOMAIN gaps /\ gaps[k + Len(I)] = E[k]
  <2> SUFFICES ASSUME NEW k \in DOMAIN E PROVE k + Len(I) \in DOMAIN gaps /\ gaps[k + Len(I)] = E[k]
    OBVIOUS
  <2>1. k + Len(I) \in 1..Len(Head2) /\ k + Len(I) \in 1..Len(gaps) /\ Head2[k + Len(I)] = E[k]
    BY <1>12, <1>14
  <2> QED
    BY <1>14, <2>1
<1>18. \A k \in DOMAIN U : k + Len(Head2) \in DOMAIN gaps /\ gaps[k + Len(Head2)] = U[k]
  BY <1>14
\* What a height in one of the parts is.
<1>19. ASSUME NEW k \in DOMAIN gaps, NEW h \in Span(gaps[k])
       PROVE  /\ InI(k) => h \in Nat /\ h < min
              /\ InE(k) => h \in Nat /\ h \notin Stored(t) /\ min < h /\ h < max
              /\ InU(k) => h \in Stored(t) /\ h \in Nat /\ min <= h /\ \E x \in UnderRows(t, level) : x[1] = h
  <2>1. InI(k) => h \in Nat /\ h < min
    BY <1>4
  <2>2. InE(k) => h \in Nat /\ h \notin Stored(t) /\ min < h /\ h < max
    BY <1>5
  <2>3. InU(k) => h \in Stored(t) /\ \E x \in UnderRows(t, level) : x[1] = h
    BY <1>8, <1>11
  <2> QED
    BY <1>3, <2>1, <2>2, <2>3
<1>20. ASSUME NEW i \in DOMAIN gaps, NEW j \in DOMAIN gaps, i < j, NEW h \in Span(gaps[i]) \cap Span(gaps[j])
       PROVE  Cardinality(UnderAt(t, level, h)) > 1
  <2>0. i \in Nat /\ j \in Nat /\ (InI(i) \/ InE(i) \/ InU(i)) /\ (InI(j) \/ InE(j) \/ InU(j))
    BY <1>15
  <2>1. /\ InI(i) => h < min
        /\ InI(j) => h < min
        /\ InE(i) => min < h /\ h \notin Stored(t)
        /\ InE(j) => min < h /\ h \notin Stored(t)
        /\ InU(i) => h \in Stored(t) /\ min <= h
        /\ InU(j) => h \in Stored(t) /\ min <= h
        /\ h \in Nat
    BY <1>19, <2>0
  <2>2. (InI(i) /\ InI(j)) \/ (InE(i) /\ InE(j)) \/ (InU(i) /\ InU(j))
    <3> HIDE DEF InI, InE, InU
    <3> QED
      BY <1>3, <2>0, <2>1
  <2>3. ~(InI(i) /\ InI(j))
    BY <1>4, <1>20, <2>0
  <2>4. ~(InE(i) /\ InE(j))
    <3> SUFFICES ASSUME InE(i), InE(j) PROVE FALSE
      OBVIOUS
    <3>1. i - Len(I) # j - Len(I)
      BY <1>12, <1>20, <2>0
    <3>2. Span(E[i - Len(I)]) \cap Span(E[j - Len(I)]) = {}
      BY <1>5, <3>1
    <3> QED
      BY <3>2
  <2>5. ASSUME InU(i), InU(j) PROVE Cardinality(UnderAt(t, level, h)) > 1
    <3>1. i - Len(Head2) < j - Len(Head2)
      BY <1>14, <1>20, <2>0
    <3>2. h \in Span(U[i - Len(Head2)]) \cap Span(U[j - Len(Head2)])
      BY <2>5
    <3> QED
      BY <1>9, <2>5, <3>1, <3>2
  <2> QED
    BY <2>2, <2>3, <2>4, <2>5
<1>21. ASSUME NEW i \in DOMAIN gaps, NEW h \in Span(gaps[i])
       PROVE  (h \in 0..max /\ h \notin Stored(t)) \/ \E k \in UnderRows(t, level) : k[1] = h
  <2>1. InI(i) \/ InE(i) \/ InU(i)
    BY <1>15
  <2> HIDE DEF InI, InE, InU
  <2>2. CASE InI(i)
    <3>1. h \in Nat /\ h < min
      BY <1>19, <2>2
    <3>2. min <= max /\ ~(h \in Stored(t))
      BY <1>3, <3>1
    <3> QED
      BY <1>3, <3>1, <3>2
  <2>3. CASE InE(i)
    BY <1>3, <1>19, <2>3
  <2>4. CASE InU(i)
    BY <1>19, <2>4
  <2> QED
    BY <2>1, <2>2, <2>3, <2>4
<1>22. ASSUME NEW h \in 0..max, h \notin Stored(t) PROVE \E i \in DOMAIN gaps : h \in Span(gaps[i])
  <2>1. CASE h < min
    <3>0. h \in Nat /\ h < min
      BY <1>3, <2>1
    <3>1. PICK i \in DOMAIN I : h \in Span(I[i])
      BY <1>4, <3>0
    <3> QED
      BY <1>16, <3>1
  <2>2. CASE ~(h < min)
    <3>1. h \in Nat /\ min < h /\ h < max
      BY <1>3, <1>22, <2>2
    <3>2. PICK i \in DOMAIN E : h \in Span(E[i])
      BY <1>5, <1>22, <3>1
    <3> QED
      BY <1>17, <3>2
  <2> QED
    BY <2>1, <2>2
<1>23. ASSUME NEW j \in UnderRows(t, level), NEW k \in UnderRows(t, level), j # k
       PROVE  \E i \in DOMAIN gaps : k[1] \in Span(gaps[i])
  <2>1. PICK g \in DOMAIN U : k[1] \in Span(U[g])
    BY <1>10, <1>23
  <2> QED
    BY <1>18, <2>1
<1>24. gaps \in Seq(GapType)
  BY <1>14
<1> QED
  BY <1>1, <1>20, <1>21, <1>22, <1>23, <1>24 DEF max

\* Multiplication, as the bins need it.
LEMMA TimesMonotonic ==
  ASSUME NEW a \in Int, NEW b \in Int, NEW c \in Nat, a <= b
  PROVE  a * c \in Int /\ b * c \in Int /\ a * c <= b * c
OBVIOUS

\* The next multiple and the one before.
LEMMA TimesNext ==
  ASSUME NEW a \in Int, NEW c \in Int
  PROVE  a * c \in Int /\ (a + 1) * c = a * c + c /\ (a - 1) * c = a * c - c
OBVIOUS

\* Quotient and rest of a division by a positive number.
LEMMA DivMod ==
  ASSUME NEW a \in Nat, NEW b \in Nat \ {0}
  PROVE  a \div b \in Nat /\ a % b \in 0..(b - 1)
OBVIOUS

\* The batches of one gap hold its heights, none of them twice.
LEMMA BinsDisjoint ==
  ASSUME NEW s \in Int, NEW e \in Int, NEW b \in Nat \ {0}, ~BinsError(s, e, b),
         NEW B, B = GetBlockHeightBins(s, e, b)
  PROVE  /\ B \in Seq(SUBSET (s..e))
         /\ \A i, j \in DOMAIN B : i < j => B[i] \cap B[j] = {}
<1> DEFINE len == e - s + 1
           n == len \div b + (IF len % b # 0 THEN 1 ELSE 0)
<1>1. len \in Nat
  BY DEF BinsError
<1>2. n \in Nat
  <2>1. len \div b \in Nat
    BY <1>1, DivMod
  <2> HIDE DEF len
  <2> QED
    BY <2>1
<1>3. B = [i \in 1..n |-> {j \in (s + (i - 1) * b)..(s + (i - 1) * b + b - 1) : j <= e}]
  BY DEF GetBlockHeightBins
<1> HIDE DEF len, n
<1>4. DOMAIN B = 1..n /\ \A i \in 1..n : B[i] = {j \in (s + (i - 1) * b)..(s + (i - 1) * b + b - 1) : j <= e}
  BY <1>3
<1>5. ASSUME NEW i \in 1..n PROVE (i - 1) * b \in Nat /\ B[i] \subseteq s..e
  <2>1. i - 1 \in Nat /\ b \in Nat
    BY <1>2
  <2>2. (i - 1) * b \in Nat
    BY <2>1
  <2> QED
    BY <1>4, <2>2
<1>6. B \in [1..n -> SUBSET (s..e)]
  BY <1>3, <1>5, <1>4
<1>7. B \in Seq(SUBSET (s..e))
  BY <1>2, <1>6, SeqDef
<1>8. ASSUME NEW i \in 1..n, NEW k \in 1..n, i < k PROVE B[i] \cap B[k] = {}
  <2>1. i <= k - 1 /\ i \in Int /\ k - 1 \in Int
    BY <1>2, <1>8
  <2>2. i * b <= (k - 1) * b
    BY <2>1, TimesMonotonic
  <2>3. (i - 1) * b = i * b - b /\ i * b \in Int /\ (k - 1) * b \in Int
    BY <2>1, TimesNext
  <2> QED
    BY <1>4, <2>2, <2>3
<1> QED
  BY <1>4, <1>7, <1>8

\* The batches of a pass: every one is of heights of one gap, and a height in two
\* batches is one of those that the gaps share.
LEMMA PassBinsFacts ==
  ASSUME NEW gaps \in Seq(GapType), NEW size \in Nat \ {0}, NEW D,
         \A i \in DOMAIN gaps : Span(gaps[i]) \subseteq Height,
         \A i, j \in DOMAIN gaps : i < j => Span(gaps[i]) \cap Span(gaps[j]) \subseteq D,
         NEW bins, bins = PassBins(gaps, size)
  PROVE  /\ bins \in Seq(SUBSET Height)
         /\ \A i, j \in DOMAIN bins : i < j => bins[i] \cap bins[j] \subseteq D
<1> DEFINE Of(g) == IF BinsError(g.start, g.stop, size) THEN <<>>
                    ELSE GetBlockHeightBins(g.start, g.stop, size)
           ss == [i \in 1..Len(gaps) |-> Of(gaps[i])]
<1>1. bins = FlattenSeq(ss)
  BY DEF PassBins
<1>2. /\ \A i, j \in DOMAIN gaps : i < j => \A h \in Span(gaps[i]) \cap Span(gaps[j]) : h \in D
      /\ \A i \in DOMAIN gaps : Span(gaps[i]) \subseteq Height
  OBVIOUS
<1>3. DOMAIN gaps = 1..Len(gaps) /\ Len(gaps) \in Nat
  BY <1>2
<1>4. ASSUME NEW i \in DOMAIN gaps
      PROVE  /\ ss[i] \in Seq(SUBSET Height)
             /\ \A j \in DOMAIN ss[i] : ss[i][j] \subseteq Span(gaps[i])
             /\ \A j, k \in DOMAIN ss[i] : j < k => ss[i][j] \cap ss[i][k] = {}
  <2>1. ss[i] = Of(gaps[i]) /\ gaps[i] \in GapType
    BY <1>2, <1>3
  <2>2. gaps[i].start \in Int /\ gaps[i].stop \in Int /\ Span(gaps[i]) = gaps[i].start..gaps[i].stop
    BY <2>1 DEF GapType, Span
  <2> HIDE DEF ss
  <2>3. CASE BinsError(gaps[i].start, gaps[i].stop, size)
    <3>1. ss[i] = <<>>
      BY <2>1, <2>3
    <3>2. DOMAIN ss[i] = {} /\ ss[i] \in Seq(SUBSET Height)
      BY <3>1, EmptySeq
    <3> QED
      BY <3>2
  <2>4. CASE ~BinsError(gaps[i].start, gaps[i].stop, size)
    <3>1. ss[i] = GetBlockHeightBins(gaps[i].start, gaps[i].stop, size)
      BY <2>1, <2>4
    <3>2. /\ ss[i] \in Seq(SUBSET Span(gaps[i]))
          /\ \A j, k \in DOMAIN ss[i] : j < k => ss[i][j] \cap ss[i][k] = {}
      BY <2>2, <2>4, <3>1, BinsDisjoint
    <3>3. /\ ss[i] \in [1..Len(ss[i]) -> SUBSET Span(gaps[i])] /\ Len(ss[i]) \in Nat
          /\ SUBSET Span(gaps[i]) \subseteq SUBSET Height
      BY <1>2, <3>2
    <3>4. ss[i] \in [1..Len(ss[i]) -> SUBSET Height]
      BY <3>3
    <3>5. ss[i] \in Seq(SUBSET Height)
      BY <3>3, <3>4, SeqDef
    <3> QED
      BY <3>2, <3>3, <3>5
  <2> QED
    BY <2>3, <2>4
<1>5. ss \in Seq(Seq(SUBSET Height)) /\ DOMAIN ss = DOMAIN gaps
  <2>1. ss \in [1..Len(gaps) -> Seq(SUBSET Height)]
    BY <1>3, <1>4
  <2> HIDE DEF ss
  <2>2. DOMAIN ss = DOMAIN gaps
    BY <1>3, <2>1
  <2>3. ss \in Seq(Seq(SUBSET Height))
    <3>1. PICK n \in Nat : n = Len(gaps)
      BY <1>3
    <3>2. ss \in [1..n -> Seq(SUBSET Height)]
      BY <2>1, <3>1
    <3>3. PICK T : T = Seq(SUBSET Height)
      OBVIOUS
    <3>4. ss \in Seq(T)
      BY <3>2, <3>3, SeqDef
    <3> QED
      BY <3>3, <3>4
  <2> QED
    BY <2>2, <2>3
<1> HIDE DEF ss
<1>6. bins \in Seq(SUBSET Height) /\ Flattens(bins, ss)
  <2>1. ss \in Seq(Seq(SUBSET Height))
    BY <1>5
  <2> QED
    BY <1>1, <2>1, FlattenPositions
<1>7. ASSUME NEW k \in DOMAIN bins, NEW l \in DOMAIN bins, k < l, NEW h \in bins[k] \cap bins[l]
      PROVE  h \in D
  <2>1. PICK f \in DOMAIN ss, g \in DOMAIN ss : \E j \in DOMAIN ss[f], m \in DOMAIN ss[g] :
           /\ bins[k] = ss[f][j] /\ bins[l] = ss[g][m] /\ (f < g \/ (f = g /\ j < m))
    BY <1>6, <1>7 DEF Flattens
  <2>2. PICK j \in DOMAIN ss[f], m \in DOMAIN ss[g] :
           /\ bins[k] = ss[f][j] /\ bins[l] = ss[g][m] /\ (f < g \/ (f = g /\ j < m))
    BY <2>1
  <2>3. ~(f = g /\ j < m)
    BY <1>4, <1>5, <1>7, <2>2
  <2>4. f < g /\ h \in Span(gaps[f]) \cap Span(gaps[g])
    BY <1>4, <1>5, <1>7, <2>2, <2>3
  <2> QED
    BY <1>2, <1>5, <2>4
<1> QED
  BY <1>6, <1>7

\* A search on one table: a height in two batches has two headers below the level.
LEMMA PassFacts ==
  ASSUME NEW t, NEW level, NEW gaps \in RetrieveGapsInData(t, level), NEW size \in Nat \ {0},
         NEW bins, bins = PassBins(gaps, size)
  PROVE  /\ bins \in Seq(SUBSET Height)
         /\ \A i, j \in DOMAIN bins : i < j => \A h \in bins[i] \cap bins[j] :
              Cardinality(UnderAt(t, level, h)) > 1
<1> DEFINE D == {h \in Height : Cardinality(UnderAt(t, level, h)) > 1}
<1>0. gaps \in Seq(GapType)
  BY SearchFacts
<1>1. Rows(t) # {} /\ \A i \in DOMAIN gaps : \A h \in Span(gaps[i]) :
            \/ h \in 0..Max(Stored(t)) /\ h \notin Stored(t)
            \/ \E k \in UnderRows(t, level) : k[1] = h
  BY SearchFacts
<1>2. 0..Max(Stored(t)) \subseteq Height
  BY <1>1, StoredFacts DEF Height
<1>3. \A i \in DOMAIN gaps : Span(gaps[i]) \subseteq Height
  BY <1>1, <1>2, UnderFinite
<1>4. \A i, j \in DOMAIN gaps : i < j => Span(gaps[i]) \cap Span(gaps[j]) \subseteq D
  BY <1>3, SearchFacts
<1>5. /\ bins \in Seq(SUBSET Height)
      /\ \A i, j \in DOMAIN bins : i < j => bins[i] \cap bins[j] \subseteq D
  <2> HIDE DEF D
  <2> QED
    BY <1>0, <1>3, <1>4, PassBinsFacts
<1> QED
  BY <1>5
-----------------------------------------------------------------------------
(* Exclusive heights *)

\* A set of more than one member has two.
LEMMA TwoOf ==
  ASSUME NEW S, IsFiniteSet(S), Cardinality(S) > 1
  PROVE  \E x, y \in S : x # y
<1>1. S # {}
  BY FS_EmptySet
<1>2. PICK x \in S : TRUE
  BY <1>1
<1>3. S # {x}
  BY FS_Singleton
<1> QED
  BY <1>2, <1>3

\* One list of gaps after another: where the spans lie and what two of them share.
LEMMA ConcatGaps ==
  ASSUME NEW A \in Seq(GapType), NEW B \in Seq(GapType), NEW C, C = A \o B, NEW X, NEW D,
         \A i \in DOMAIN A : Span(A[i]) \subseteq X,
         \A i \in DOMAIN B : Span(B[i]) \subseteq X,
         \A i, j \in DOMAIN A : i < j => Span(A[i]) \cap Span(A[j]) \subseteq D,
         \A i, j \in DOMAIN B : i < j => Span(B[i]) \cap Span(B[j]) \subseteq D,
         \A i \in DOMAIN A, j \in DOMAIN B : Span(A[i]) \cap Span(B[j]) \subseteq D
  PROVE  /\ C \in Seq(GapType)
         /\ \A i \in DOMAIN C : Span(C[i]) \subseteq X
         /\ \A i, j \in DOMAIN C : i < j => Span(C[i]) \cap Span(C[j]) \subseteq D
<1>1. /\ C \in Seq(GapType) /\ Len(C) = Len(A) + Len(B)
      /\ Len(A) \in Nat /\ Len(B) \in Nat
      /\ DOMAIN A = 1..Len(A) /\ DOMAIN B = 1..Len(B) /\ DOMAIN C = 1..Len(C)
      /\ \A k \in 1..Len(A) : C[k] = A[k]
      /\ \A k \in 1..Len(C) : k > Len(A) => k - Len(A) \in 1..Len(B) /\ C[k] = B[k - Len(A)]
  BY ConcatPositions
<1>2. \A k \in DOMAIN C : k \in DOMAIN A \/ k > Len(A)
  BY <1>1
<1>3. \A i \in DOMAIN C : Span(C[i]) \subseteq X
  BY <1>1, <1>2
<1>4. ASSUME NEW i \in DOMAIN C, NEW j \in DOMAIN C, i < j PROVE Span(C[i]) \cap Span(C[j]) \subseteq D
  <2>1. CASE j \in DOMAIN A
    <3>1. i \in DOMAIN A
      BY <1>1, <1>4, <2>1
    <3> QED
      BY <1>1, <1>4, <2>1, <3>1
  <2>2. CASE i \in DOMAIN A /\ j > Len(A)
    BY <1>1, <2>2
  <2>3. CASE i > Len(A) /\ j > Len(A)
    <3>1. i - Len(A) < j - Len(A) /\ i - Len(A) \in DOMAIN B /\ j - Len(A) \in DOMAIN B
      BY <1>1, <1>4, <2>3
    <3> QED
      BY <1>1, <2>3, <3>1
  <2> QED
    BY <1>2, <2>1, <2>2, <2>3
<1> QED
  BY <1>1, <1>3, <1>4

\* The gaps of the third statement: of stored heights, and two of them share only
\* heights with two headers below the level, so forked ones.
LEMMA UnderGapFacts ==
  ASSUME NEW U, U = MissingHeightsToGaps(UnderHeights(headers, ValidationLevel))
  PROVE  /\ U \in Seq(GapType)
         /\ \A i \in DOMAIN U : Span(U[i]) \subseteq Height \cap Stored(headers)
         /\ \A i, j \in DOMAIN U : i < j => \A h \in Span(U[i]) \cap Span(U[j]) : Forked(h)
<1> DEFINE H == UnderHeights(headers, ValidationLevel)
<1>1. /\ H \in Seq(Nat)
      /\ \A q \in DOMAIN H : \E k \in UnderRows(headers, ValidationLevel) : k[1] = H[q]
      /\ \A p, q \in DOMAIN H : p < q /\ H[p] = H[q] =>
           Cardinality(UnderAt(headers, ValidationLevel, H[p])) > 1
  BY UnderHeightsFacts
<1>2. U = MissingHeightsToGaps(H)
  OBVIOUS
<1> HIDE DEF H
<1>3. /\ U \in Seq(GapType) /\ (Len(H) < 2 => U = <<>>) /\ (Len(H) >= 2 => Covers(U, H, Len(H)))
      /\ Len(H) \in Nat /\ DOMAIN H = 1..Len(H)
  BY <1>1, <1>2, HeightsToGaps
<1>4. ASSUME NEW i \in DOMAIN U, NEW h \in Span(U[i]) PROVE h \in Height \cap Stored(headers)
  <2>1. PICK q \in 1..Len(H) : H[q] = h
    BY <1>3, <1>4 DEF Covers
  <2> QED
    BY <1>1, <1>3, <2>1, UnderFinite
<1>5. ASSUME NEW i \in DOMAIN U, NEW j \in DOMAIN U, i < j, NEW h \in Span(U[i]) \cap Span(U[j])
      PROVE  Forked(h)
  <2>1. PICK p \in 1..Len(H), q \in 1..Len(H) : p < q /\ H[p] = h /\ H[q] = h
    BY <1>3, <1>5 DEF Covers
  <2>2. Cardinality(UnderAt(headers, ValidationLevel, h)) > 1
    BY <1>1, <1>3, <2>1
  <2>3. IsFiniteSet(UnderAt(headers, ValidationLevel, h))
    BY UnderFinite
  <2>4. PICK j1 \in UnderAt(headers, ValidationLevel, h), k1 \in UnderAt(headers, ValidationLevel, h) : j1 # k1
    BY <2>2, <2>3, TwoOf
  <2> QED
    BY <2>4 DEF UnderAt, UnderRows, Forked
<1> QED
  BY <1>3, <1>4, <1>5

\* What the search under way has found: heights that the first statement did not
\* see stored.  Two gaps share a height only if it is below the first block of
\* that statement and above one indexed since.
FoundInv ==
  pc \in {"empty", "under"} =>
    /\ before # {} /\ before \subseteq Stored(headers)
    /\ found \in Seq(GapType)
    /\ \A i \in DOMAIN found : Span(found[i]) \subseteq Height \ before
    /\ \A i, j \in DOMAIN found : i < j => \A h \in Span(found[i]) \cap Span(found[j]) :
         (\A f \in before : h < f) /\ \E g \in Stored(headers) \ before : g < h
    /\ pc = "empty" => \A i \in DOMAIN found : \A h \in Span(found[i]) : \A f \in before : h < f

\* A worker that waits has no heights, nothing is to be handed out while the
\* search runs, and the batches not handed out, like those that are, share only
\* forked heights and those the search raced with.
ShareInv ==
  /\ todo \in Seq(SUBSET Height)
  /\ batch \in [Workers -> SUBSET Height]
  /\ pc = "send" => todo # <<>>
  /\ pc \in {"idle", "empty", "under", "kill"} => todo = <<>>
  /\ \A w \in Workers : wk[w] \in {"none", "select"} => batch[w] = {}
  /\ \A i, j \in DOMAIN todo : i # j => \A h \in todo[i] \cap todo[j] : Forked(h) \/ Raced(h)

\* Rows are indexed and reset, never removed: a forked height stays forked.
LEMMA RowsKept ==
  ASSUME headers \in [Key -> Int], \A k \in Key : headers[k] >= NoRow, [Next]_vars
  PROVE  /\ headers' \in [Key -> Int] /\ \A k \in Key : headers'[k] >= NoRow
         /\ Rows(headers) \subseteq Rows(headers')
<1>1. ASSUME NEW k, headers' = Upsert(headers, k)
      PROVE  /\ headers' \in [Key -> Int] /\ \A x \in Key : headers'[x] >= NoRow
             /\ Rows(headers) \subseteq Rows(headers')
  <2>1. headers' = [headers EXCEPT ![k] = IF headers[k] = NoRow THEN 1 ELSE headers[k] + 1]
    BY <1>1 DEF Upsert
  <2>2. ASSUME NEW x \in Key
        PROVE  headers'[x] \in Int /\ headers'[x] >= headers[x]
               /\ (headers[x] # NoRow => headers'[x] # NoRow)
    <3>1. CASE x = k
      <4>1. headers'[x] = IF headers[x] = NoRow THEN 1 ELSE headers[x] + 1
        BY <2>1, <3>1
      <4> QED
        BY <4>1 DEF NoRow
    <3>2. CASE x # k
      <4>1. headers'[x] = headers[x]
        BY <2>1, <3>2
      <4> QED
        BY <4>1
    <3> QED
      BY <3>1, <3>2
  <2>3. headers' \in [Key -> Int]
    BY <2>1, <2>2
  <2> QED
    BY <2>2, <2>3 DEF Rows, NoRow
<1>2. CASE UNCHANGED headers
  BY <1>2
<1>3. ASSUME NEW first, NEW last, headers' = ResetRange(headers, first, last)
      PROVE  /\ headers' \in [Key -> Int] /\ \A x \in Key : headers'[x] >= NoRow
             /\ Rows(headers) \subseteq Rows(headers')
  BY <1>3 DEF ResetRange, Rows, NoRow
<1>4. CASE LiveIndex
  BY <1>1, <1>4 DEF LiveIndex
<1>5. CASE ResetValidation
  BY <1>3, <1>5 DEF ResetValidation
<1>6. ASSUME NEW w \in Workers, Payload(w)
      PROVE  /\ headers' \in [Key -> Int] /\ \A x \in Key : headers'[x] >= NoRow
             /\ Rows(headers) \subseteq Rows(headers')
  BY <1>1, <1>6 DEF Payload
<1>7. Next => \/ UNCHANGED headers \/ LiveIndex \/ ResetValidation \/ \E w \in Workers : Payload(w)
  BY DEF Next, Main, Search, SearchFirst, SearchEmpty, SearchUnder, SearchError, MainQuit, Offer, Dispatched, KillClosed, PassDone, Hand, Kill, backFill,
         FetchError, Fetch, PayloadError, WorkerQuit, Stop, envVars
<1> QED
  BY <1>2, <1>4, <1>5, <1>6, <1>7 DEF vars, envVars

TableInv == headers \in [Key -> Int] /\ \A k \in Key : headers[k] >= NoRow

ShareIInv == PassInv /\ TableInv /\ FoundInv /\ ShareInv /\ ExclusiveHeights

\* What a step does to the shares when it hands out nothing new.
LEMMA SharesKept ==
  ASSUME ShareIInv, TableInv', Rows(headers) \subseteq Rows(headers'),
         UNCHANGED <<todo, before, after>>, pc' = "send" => todo # <<>>,
         pc' \in {"idle", "empty", "under", "kill"} => todo = <<>>,
         batch' \in [Workers -> SUBSET Height], \A w \in Workers : batch'[w] \subseteq batch[w],
         \A w \in Workers : wk'[w] \in {"none", "select"} => batch'[w] = {}
  PROVE  ShareInv' /\ ExclusiveHeights'
<1>1. \A h : Forked(h) \/ Raced(h) => (Forked(h) \/ Raced(h))'
  BY DEF Forked, Raced
<1> QED
  BY <1>1 DEF ShareIInv, ShareInv, ExclusiveHeights

\* The search keeps what it knows about the gaps found, through every block that
\* is indexed meanwhile.
LEMMA FoundKept ==
  ASSUME FoundInv, Rows(headers) \subseteq Rows(headers'),
         \/ UNCHANGED <<pc, found, before>>
         \/ pc' \notin {"empty", "under"}
  PROVE  FoundInv'
<1>1. Stored(headers) \subseteq Stored(headers')
  BY DEF Stored
<1> QED
  BY <1>1 DEF FoundInv

\* The first statement.
LEMMA FoundFirst == ASSUME SearchFirst PROVE FoundInv'
<1>1. /\ found' = InitialGap(headers) /\ before' = Stored(headers) /\ Rows(headers) # {}
      /\ headers' = headers
  BY DEF SearchFirst, envVars
<1>2. /\ before' \subseteq Nat /\ before' # {} /\ Min(before') \in before' /\ \A f \in before' : Min(before') <= f
      /\ before' \subseteq 0..MaxHeight /\ MaxHeight \in Nat
  BY <1>1, StoredFacts
<1>3. /\ found' \in Seq(GapType)
      /\ \A i, j \in DOMAIN found' : i = j
      /\ \A h : (\E i \in DOMAIN found' : h \in Span(found'[i])) => h \in Nat /\ h < Min(before')
  BY <1>1, InitialGapFacts
<1>4. \A h : h \in Nat /\ h < Min(before') => h \in Height /\ \A f \in before' : h < f
  <2> SUFFICES ASSUME NEW h \in Nat, h < Min(before') PROVE h \in Height /\ \A f \in before' : h < f
    OBVIOUS
  <2>1. PICK m \in 0..MaxHeight : m = Min(before')
    BY <1>2
  <2>2. h \in Height
    BY <1>2, <2>1 DEF Height
  <2>3. \A f \in before' : m <= f /\ f \in Nat
    BY <1>2, <2>1
  <2> QED
    BY <2>1, <2>2, <2>3
<1>5. \A i \in DOMAIN found' : \A h \in Span(found'[i]) : h \in Height /\ \A f \in before' : h < f
  BY <1>3, <1>4
<1>6. \A i \in DOMAIN found' : Span(found'[i]) \subseteq Height \ before'
  <2>1. \A h \in before' : ~(h < h)
    BY <1>2
  <2> QED
    BY <1>5, <2>1
<1>7. \A i, j \in DOMAIN found' : ~(i < j)
  <2>1. \A i \in DOMAIN found' : i \in Nat
    BY <1>3
  <2> QED
    BY <1>3, <2>1
<1> QED
  BY <1>1, <1>2, <1>3, <1>5, <1>6, <1>7 DEF FoundInv

\* The second statement: an empty gap and the initial one share a height only if
\* a block below the first one was indexed between the two statements.
LEMMA FoundEmpty == ASSUME FoundInv, SearchEmpty PROVE FoundInv'
<1>1. PICK E \in SetToSeqs(EmptyGaps(headers)) : found' = found \o E
  BY DEF SearchEmpty
<1>2. /\ before # {} /\ before \subseteq Stored(headers)
      /\ found \in Seq(GapType)
      /\ \A i \in DOMAIN found : Span(found[i]) \subseteq Height \ before
      /\ \A i, j \in DOMAIN found : i < j => \A h \in Span(found[i]) \cap Span(found[j]) :
           (\A f \in before : h < f) /\ \E g \in Stored(headers) \ before : g < h
      /\ \A i \in DOMAIN found : \A h \in Span(found[i]) : \A f \in before : h < f
  BY DEF FoundInv, SearchEmpty
<1>3. Rows(headers) # {}
  BY <1>2 DEF Stored
<1>4. /\ E \in Seq(GapType)
      /\ \A i, j \in DOMAIN E : i # j => Span(E[i]) \cap Span(E[j]) = {}
      /\ \A i \in DOMAIN E : \A h \in Span(E[i]) : /\ h \in Nat /\ h \notin Stored(headers)
                                                  /\ Min(Stored(headers)) < h /\ h < Max(Stored(headers))
  BY <1>3, EmptySeqFacts
<1>5. /\ Stored(headers) \subseteq 0..MaxHeight /\ MaxHeight \in Nat
      /\ Min(Stored(headers)) \in Stored(headers) /\ Max(Stored(headers)) \in Stored(headers)
  BY <1>3, StoredFacts
<1> DEFINE D == {h \in Height : (\A f \in before : h < f) /\ \E g \in Stored(headers) \ before : g < h}
<1>6. \A i \in DOMAIN E : Span(E[i]) \subseteq Height \ before
  BY <1>2, <1>4, <1>5 DEF Height
<1>7. ASSUME NEW i \in DOMAIN found, NEW j \in DOMAIN E, NEW h \in Span(found[i]) \cap Span(E[j])
      PROVE  h \in D
  <2>1. h \in Height /\ \A f \in before : h < f
    BY <1>2, <1>7
  <2>2. Min(Stored(headers)) < h /\ h \in Nat /\ Min(Stored(headers)) \in Nat
    BY <1>4, <1>5, <1>7
  <2>3. Min(Stored(headers)) \notin before
    BY <2>1, <2>2
  <2> QED
    BY <1>5, <2>1, <2>2, <2>3
<1>8. \A i, j \in DOMAIN found : i < j => Span(found[i]) \cap Span(found[j]) \subseteq D
  BY <1>2
<1>9. \A i, j \in DOMAIN E : i < j => Span(E[i]) \cap Span(E[j]) \subseteq D
  <2>1. \A i, j \in DOMAIN E : i < j => i # j
    BY <1>4
  <2> QED
    BY <1>4, <2>1
<1>10. \A i \in DOMAIN found, j \in DOMAIN E : Span(found[i]) \cap Span(E[j]) \subseteq D
  BY <1>7
<1>11. /\ found' \in Seq(GapType)
       /\ \A i \in DOMAIN found' : Span(found'[i]) \subseteq Height \ before
       /\ \A i, j \in DOMAIN found' : i < j => Span(found'[i]) \cap Span(found'[j]) \subseteq D
  <2> HIDE DEF D
  <2>1. PICK X : X = Height \ before
    OBVIOUS
  <2>2. /\ \A i \in DOMAIN found : Span(found[i]) \subseteq X
        /\ \A i \in DOMAIN E : Span(E[i]) \subseteq X
    BY <1>2, <1>6, <2>1
  <2>3. found \in Seq(GapType) /\ E \in Seq(GapType)
    BY <1>2, <1>4
  <2>4. /\ found' \in Seq(GapType)
        /\ \A i \in DOMAIN found' : Span(found'[i]) \subseteq X
        /\ \A i, j \in DOMAIN found' : i < j => Span(found'[i]) \cap Span(found'[j]) \subseteq D
    BY <1>1, <1>8, <1>9, <1>10, <2>2, <2>3, ConcatGaps
  <2> QED
    BY <2>1, <2>4
<1>12. UNCHANGED <<headers, before>> /\ pc' = "under"
  BY DEF SearchEmpty, envVars
<1> QED
  BY <1>2, <1>11, <1>12 DEF FoundInv

\* The third statement: a gap below the level and one of the others share only
\* heights indexed since the first statement, and the pass starts.
LEMMA UnderShares ==
  ASSUME ShareIInv, SearchUnder PROVE ShareInv' /\ ExclusiveHeights'
<1> DEFINE U == MissingHeightsToGaps(UnderHeights(headers, ValidationLevel))
           gaps == found \o U
           D == {h \in Height : (Forked(h) \/ Raced(h))'}
<1>1. /\ todo' = PassBins(gaps, BatchSize) /\ pc = "under" /\ pc' = "dispatch"
      /\ wk' = [w \in Workers |-> "select"] /\ after' = Stored(headers)
      /\ UNCHANGED <<headers, before, batch>>
  BY DEF SearchUnder, envVars
<1>2. /\ found \in Seq(GapType)
      /\ \A i \in DOMAIN found : Span(found[i]) \subseteq Height \ before
      /\ \A i, j \in DOMAIN found : i < j => \A h \in Span(found[i]) \cap Span(found[j]) :
           (\A f \in before : h < f) /\ \E g \in Stored(headers) \ before : g < h
  BY <1>1 DEF ShareIInv, FoundInv
<1>3. /\ U \in Seq(GapType)
      /\ \A i \in DOMAIN U : Span(U[i]) \subseteq Height \cap Stored(headers)
      /\ \A i, j \in DOMAIN U : i < j => \A h \in Span(U[i]) \cap Span(U[j]) : Forked(h)
  BY UnderGapFacts
<1> HIDE DEF U
<1>4. \A h : Forked(h) => Forked(h)'
  BY <1>1 DEF Forked
<1>5. /\ \A h \in Stored(headers) \ before : Raced(h)'
      /\ \A h : (\A f \in before : h < f) /\ (\E g \in Stored(headers) \ before : g < h) => Raced(h)'
  BY <1>1 DEF Raced
<1>6. \A i, j \in DOMAIN found : i < j => Span(found[i]) \cap Span(found[j]) \subseteq D
  <2> SUFFICES ASSUME NEW i \in DOMAIN found, NEW j \in DOMAIN found, i < j,
                      NEW h \in Span(found[i]) \cap Span(found[j])
               PROVE  h \in Height /\ Raced(h)'
    OBVIOUS
  <2> QED
    BY <1>2, <1>5
<1>7. \A i, j \in DOMAIN U : i < j => Span(U[i]) \cap Span(U[j]) \subseteq D
  BY <1>3, <1>4
<1>8. \A i \in DOMAIN found, j \in DOMAIN U : Span(found[i]) \cap Span(U[j]) \subseteq D
  <2> SUFFICES ASSUME NEW i \in DOMAIN found, NEW j \in DOMAIN U,
                      NEW h \in Span(found[i]) \cap Span(U[j])
               PROVE  h \in Height /\ Raced(h)'
    OBVIOUS
  <2>1. h \in Height /\ h \in Stored(headers) \ before
    BY <1>2, <1>3
  <2> QED
    BY <1>5, <2>1
<1>9. BatchSize \in Nat \ {0}
  BY BackFillAssumption DEF BackFillAssumption
<1> HIDE DEF D
<1>10. /\ gaps \in Seq(GapType)
       /\ \A i \in DOMAIN gaps : Span(gaps[i]) \subseteq Height
       /\ \A i, j \in DOMAIN gaps : i < j => Span(gaps[i]) \cap Span(gaps[j]) \subseteq D
  <2>1. /\ \A i \in DOMAIN found : Span(found[i]) \subseteq Height
        /\ \A i \in DOMAIN U : Span(U[i]) \subseteq Height
    BY <1>2, <1>3
  <2> QED
    BY <1>2, <1>3, <1>6, <1>7, <1>8, <2>1, ConcatGaps
<1> HIDE DEF gaps
<1>11. /\ todo' \in Seq(SUBSET Height)
       /\ \A i, j \in DOMAIN todo' : i < j => todo'[i] \cap todo'[j] \subseteq D
  BY <1>1, <1>9, <1>10, PassBinsFacts
<1>12. ASSUME NEW i \in DOMAIN todo', NEW j \in DOMAIN todo', i # j, NEW h \in todo'[i] \cap todo'[j]
       PROVE  (Forked(h) \/ Raced(h))'
  <2>1. i < j \/ j < i
    BY <1>11, <1>12
  <2>2. h \in D
    BY <1>11, <1>12, <2>1
  <2> QED
    BY <2>2 DEF D
<1>13. \A w \in Workers : batch[w] = {}
  BY <1>1 DEF ShareIInv, PassInv, Alive, ShareInv
<1> QED
  BY <1>1, <1>11, <1>12, <1>13 DEF ShareIInv, ShareInv, ExclusiveHeights

\* Between passes and while the search runs there is nothing to share.
LEMMA IdleShares ==
  ASSUME ShareIInv, PassInv', SearchFirst \/ SearchEmpty \/ SearchError \/ PassDone
  PROVE  ShareInv' /\ ExclusiveHeights'
<1>1. /\ todo' = todo /\ todo = <<>> /\ pc' \in {"idle", "empty", "under"}
      /\ UNCHANGED <<wk, batch>>
  BY DEF ShareIInv, ShareInv, SearchFirst, SearchEmpty, SearchError, PassDone, workerVars
<1>2. \A w \in Workers : wk[w] = "none" /\ batch'[w] = {}
  BY <1>1 DEF ShareIInv, ShareInv, PassInv, Alive
<1>3. batch' \in [Workers -> SUBSET Height] /\ todo' = <<>> /\ DOMAIN todo' = {}
      /\ todo' \in Seq(SUBSET Height) /\ pc' # "send"
  BY <1>1 DEF ShareIInv, ShareInv
<1> QED
  BY <1>2, <1>3 DEF ShareInv, ExclusiveHeights

\* A bin goes to a worker and is no longer to be handed out.
LEMMA HandShares ==
  ASSUME ShareIInv, NEW w \in Workers, Hand(w) PROVE ShareInv' /\ ExclusiveHeights'
<1> USE DEF ShareIInv
<1>1. /\ pc = "send" /\ wk[w] = "select" /\ wk' = [wk EXCEPT ![w] = "fetch"]
      /\ batch' = [batch EXCEPT ![w] = Head(todo)] /\ todo' = Tail(todo) /\ pc' = "dispatch"
      /\ UNCHANGED <<headers, before, after>>
  BY DEF Hand, envVars, searchVars
<1>2. todo \in Seq(SUBSET Height) /\ todo # <<>>
  BY <1>1 DEF ShareInv
<1>3. /\ 1 \in DOMAIN todo /\ Head(todo) = todo[1] /\ Tail(todo) \in Seq(SUBSET Height)
      /\ \A i \in DOMAIN Tail(todo) : i + 1 \in DOMAIN todo /\ Tail(todo)[i] = todo[i + 1]
                                      /\ i \in Nat /\ i + 1 # 1
  BY <1>2
<1>4. \A h : Forked(h) \/ Raced(h) => (Forked(h) \/ Raced(h))'
  BY <1>1 DEF Forked, Raced
<1>5. batch' \in [Workers -> SUBSET Height]
  BY <1>1, <1>2, <1>3 DEF ShareInv
<1>6. /\ \A v \in Workers : v # w => batch'[v] = batch[v] /\ wk'[v] = wk[v]
      /\ batch'[w] = todo[1] /\ wk'[w] = "fetch"
  BY <1>1, <1>3 DEF ShareInv, PassInv
<1>7. ShareInv'
  <2>1. \A i, j \in DOMAIN todo' : i # j => \A h \in todo'[i] \cap todo'[j] : (Forked(h) \/ Raced(h))'
    <3> SUFFICES ASSUME NEW i \in DOMAIN todo', NEW j \in DOMAIN todo', i # j,
                        NEW h \in todo'[i] \cap todo'[j]
                 PROVE  Forked(h) \/ Raced(h)
      BY <1>4
    <3>1. i + 1 # j + 1 /\ h \in todo[i + 1] \cap todo[j + 1]
      BY <1>1, <1>3
    <3> QED
      BY <1>1, <1>3, <3>1 DEF ShareInv
  <2>2. \A v \in Workers : wk'[v] \in {"none", "select"} => batch'[v] = {}
    BY <1>6 DEF ShareInv
  <2> QED
    BY <1>1, <1>3, <1>5, <2>1, <2>2 DEF ShareInv
<1>8. ExclusiveHeights'
  <2>1. ASSUME NEW u \in Workers, NEW v \in Workers, u # v, NEW h \in batch'[u] \cap batch'[v]
        PROVE  (Forked(h) \/ Raced(h))'
    BY <1>3, <1>4, <1>6, <2>1 DEF ExclusiveHeights, ShareInv
  <2>2. ASSUME NEW v \in Workers, NEW i \in DOMAIN todo', NEW h \in batch'[v] \cap todo'[i]
        PROVE  (Forked(h) \/ Raced(h))'
    <3>1. i + 1 \in DOMAIN todo /\ h \in todo[i + 1] /\ i + 1 # 1
      BY <1>1, <1>3
    <3> QED
      BY <1>3, <1>4, <1>6, <3>1 DEF ExclusiveHeights, ShareInv
  <2> QED
    BY <2>1, <2>2 DEF ExclusiveHeights
<1> QED
  BY <1>7, <1>8

\* The steps of a worker, which only ever gives up its heights.
LEMMA WorkerShares ==
  ASSUME ShareIInv, TableInv', Rows(headers) \subseteq Rows(headers'), NEW w \in Workers, backFill(w)
  PROVE  ShareInv' /\ ExclusiveHeights'
<1>1. UNCHANGED <<todo, pc, before, after>>
  BY DEF backFill, FetchError, Fetch, Payload, PayloadError, WorkerQuit, mainVars, searchVars
<1>2. wk \in [Workers -> WorkerPC] /\ batch \in [Workers -> SUBSET Height]
      /\ \A v \in Workers : wk[v] \in {"none", "select"} => batch[v] = {}
  BY DEF ShareIInv, PassInv, ShareInv
<1>3. PICK rest, next :
        /\ rest \subseteq batch[w] /\ (next \in {"none", "select"} => rest = {})
        /\ batch' = [batch EXCEPT ![w] = rest] /\ wk' = [wk EXCEPT ![w] = next]
  <2>1. CASE FetchError(w)
    <3> DEFINE none == {}
    <3>1. /\ none \subseteq batch[w] /\ none = {}
          /\ batch' = [batch EXCEPT ![w] = none] /\ wk' = [wk EXCEPT ![w] = "select"]
      BY <2>1 DEF FetchError
    <3> HIDE DEF none
    <3> QED
      BY <3>1
  <2>2. CASE Fetch(w)
    <3>1. batch' = [batch EXCEPT ![w] = batch[w]]
      BY <1>2, <2>2 DEF Fetch
    <3> QED
      BY <2>2, <3>1 DEF Fetch
  <2>3. CASE Payload(w) \/ PayloadError(w)
    <3> DEFINE rest == batch[w] \ {Min(batch[w])}
    <3>1. /\ batch' = [batch EXCEPT ![w] = rest]
          /\ wk' = [wk EXCEPT ![w] = IF rest = {} THEN "select" ELSE "payload"]
      BY <2>3 DEF Payload, PayloadError, Advance
    <3>2. rest \subseteq batch[w]
      OBVIOUS
    <3> HIDE DEF rest
    <3>3. CASE rest = {}
      BY <3>1, <3>2, <3>3
    <3>4. CASE rest # {}
      <4>1. wk' = [wk EXCEPT ![w] = "payload"]
        BY <3>1, <3>4
      <4>2. "payload" \notin {"none", "select"}
        OBVIOUS
      <4> QED
        BY <3>1, <3>2, <4>1, <4>2
    <3> QED
      BY <3>3, <3>4
  <2>4. CASE WorkerQuit(w)
    <3>1. batch' = [batch EXCEPT ![w] = batch[w]] /\ batch[w] = {}
      BY <1>2, <2>4 DEF WorkerQuit
    <3> QED
      BY <2>4, <3>1 DEF WorkerQuit
  <2> QED
    BY <2>1, <2>2, <2>3, <2>4 DEF backFill
<1>4. /\ batch' \in [Workers -> SUBSET Height] /\ \A v \in Workers : batch'[v] \subseteq batch[v]
      /\ \A v \in Workers : wk'[v] \in {"none", "select"} => batch'[v] = {}
  BY <1>2, <1>3
<1>5. (pc' = "send" => todo # <<>>) /\ (pc' \in {"idle", "empty", "under", "kill"} => todo = <<>>)
  BY <1>1 DEF ShareIInv, ShareInv
<1> QED
  BY <1>1, <1>4, <1>5, SharesKept

\* Sync, resets, the kill loop and Stop move no bin.
LEMMA OtherShares ==
  ASSUME ShareIInv, TableInv', Rows(headers) \subseteq Rows(headers'),
         \/ MainQuit \/ Offer \/ Dispatched \/ KillClosed
         \/ LiveIndex \/ ResetValidation \/ Stop \/ UNCHANGED vars
         \/ \E w \in Workers : Kill(w)
  PROVE  ShareInv' /\ ExclusiveHeights'
<1>1. /\ wk \in [Workers -> WorkerPC] /\ batch \in [Workers -> SUBSET Height]
      /\ \A v \in Workers : wk[v] \in {"none", "select"} => batch[v] = {}
      /\ pc = "send" => todo # <<>>
      /\ pc \in {"idle", "empty", "under", "kill"} => todo = <<>>
  BY DEF ShareIInv, PassInv, ShareInv
<1>2. /\ UNCHANGED <<todo, before, after>>
      /\ pc' = "send" => todo # <<>>
      /\ pc' \in {"idle", "empty", "under", "kill"} => todo = <<>>
  BY <1>1 DEF MainQuit, Offer, Dispatched, KillClosed, LiveIndex,
     ResetValidation, Stop, Kill, vars, mainVars, searchVars
<1>3. /\ batch' \in [Workers -> SUBSET Height] /\ \A v \in Workers : batch'[v] \subseteq batch[v]
      /\ \A v \in Workers : wk'[v] \in {"none", "select"} => batch'[v] = {}
  <2>1. CASE KillClosed
    BY <2>1 DEF KillClosed
  <2>2. CASE \E w \in Workers : Kill(w)
    BY <1>1, <2>2 DEF Kill
  <2>3. CASE UNCHANGED <<wk, batch>>
    BY <1>1, <2>3
  <2> QED
    BY <2>1, <2>2, <2>3 DEF MainQuit, Offer, Dispatched, LiveIndex,
       ResetValidation, Stop, vars, workerVars
<1> QED
  BY <1>2, <1>3, SharesKept

\* What a step does to the search under way.
LEMMA FoundStep ==
  ASSUME FoundInv, Rows(headers) \subseteq Rows(headers'), [Next]_vars PROVE FoundInv'
<1>1. CASE SearchFirst
  BY <1>1, FoundFirst
<1>2. CASE SearchEmpty
  BY <1>2, FoundEmpty
<1>3. CASE ~SearchFirst /\ ~SearchEmpty
  <2>1. UNCHANGED <<pc, found, before>> \/ pc' \notin {"empty", "under"}
    BY <1>3 DEF Next, Main, Search, SearchUnder, SearchError, MainQuit, Offer, Dispatched, KillClosed,
       PassDone, Hand, Kill, backFill, FetchError, Fetch, Payload, PayloadError, WorkerQuit, LiveIndex,
       ResetValidation, Stop, vars, mainVars, searchVars
  <2> QED
    BY <2>1, FoundKept
<1> QED
  BY <1>1, <1>2, <1>3

\* No two workers of a pass are on one height, and no height in work is still to
\* be handed out, but for a forked one and one that the three statements of the
\* search raced with (RetrieveGapsInData, GetBlockHeightBins, BackFill's dispatch
\* over heightsChan and the kill loop): for any number of workers, any validation
\* level and any index, through failures, resets, blocks indexed in any order
\* between any two statements, and Stop.
THEOREM ExclusiveHeightsAlways == Spec => []ExclusiveHeights
<1>1. Init => TableInv /\ FoundInv /\ ShareInv /\ ExclusiveHeights
  BY DEF Init, EmptyTable, TableInv, NoRow, FoundInv, ShareInv, ExclusiveHeights
<1>2. ASSUME PassInv, PassInv', TableInv, FoundInv, ShareInv, ExclusiveHeights, [Next]_vars
      PROVE  TableInv' /\ FoundInv' /\ ShareInv' /\ ExclusiveHeights'
  <2>1. ShareIInv
    BY <1>2 DEF ShareIInv
  <2>2. TableInv' /\ Rows(headers) \subseteq Rows(headers')
    BY <1>2, RowsKept DEF TableInv
  <2>3. FoundInv'
    BY <1>2, <2>2, FoundStep
  <2> QED
    BY <1>2, <2>1, <2>2, <2>3, UnderShares, IdleShares, HandShares, WorkerShares, OtherShares
    DEF Next, Main, Search
<1> QED
  BY <1>1, <1>2, PassInvInductive, PTL DEF Spec
-----------------------------------------------------------------------------
(* The answers of the gap search, as Queries gives them *)

CONSTANTS EthRequests, BtcRequests, LogRequests, GapRequests, Commands, Plugins, RankBits

Q == INSTANCE Queries

\* Queries is instantiated under its own constants: its search is this one.
LEMMA SameSearch == \A t, level : Q!RetrieveGapsInData(t, level) = RetrieveGapsInData(t, level)
<1>1. \A S : Q!Cardinality(S) = Cardinality(S)
  BY DEF Q!Cardinality, Cardinality
<1>2. \A heights : Q!MissingHeightsToGaps(heights) = MissingHeightsToGaps(heights)
  BY DEF Q!MissingHeightsToGaps, MissingHeightsToGaps, Q!Gap, Gap
<1>3. \A t, level : Q!UnderRows(t, level) = UnderRows(t, level)
  BY DEF Q!UnderRows, UnderRows, Q!Rows, Rows, Q!NoRow, NoRow, Q!Key, Key, Q!Height, Height
<1>4. \A ss : Q!FlattenSeq(ss) = FlattenSeq(ss)
  BY DEF Q!FlattenSeq, FlattenSeq
<1>5. \A t, level : Q!UnderHeights(t, level) = UnderHeights(t, level)
  BY <1>1, <1>3, <1>4 DEF Q!UnderHeights, UnderHeights
<1>6. \A S : Q!SetToSeqs(S) = SetToSeqs(S)
  BY <1>1 DEF Q!SetToSeqs, SetToSeqs
<1>7. \A t : Q!Rows(t) = Rows(t) /\ Q!Stored(t) = Stored(t)
  BY DEF Q!Stored, Stored, Q!Rows, Rows, Q!NoRow, NoRow, Q!Key, Key, Q!Height, Height
<1>8. \A S : Q!Min(S) = Min(S) /\ Q!Max(S) = Max(S)
  BY DEF Q!Min, Min, Q!Max, Max
<1>9. \A t : Q!InitialGap(t) = InitialGap(t)
  BY <1>7, <1>8 DEF Q!InitialGap, InitialGap, Q!RetrieveFirstBlockNumber, RetrieveFirstBlockNumber, Q!Gap, Gap
<1>10. \A t : Q!EmptyGaps(t) = EmptyGaps(t)
  BY <1>7, <1>8 DEF Q!EmptyGaps, EmptyGaps, Q!Gap, Gap
<1> QED
  BY <1>2, <1>5, <1>6, <1>7, <1>9, <1>10 DEF Q!RetrieveGapsInData, RetrieveGapsInData

\* An answer about gaps is a result of the search on the table asked about.
SearchInv ==
  kind = "gaps" /\ answer # <<>> => answer[1] \in RetrieveGapsInData(request[2], request[1])

\* The invariant of the gap requests, whatever is asked.
LEMMA SearchInductive == Q!Spec => []SearchInv
<1>1. Q!Init => SearchInv
  BY DEF Q!Init, SearchInv
<1>2. SearchInv /\ [Q!Next]_Q!vars => SearchInv'
  BY SameSearch
     DEF SearchInv, Q!Next, Q!vars, Q!FilterEth, Q!HistoryEth, Q!FilterBtc, Q!HistoryBtc, Q!AnswerLogs,
         Q!SearchGaps, Q!StartSuperNode, Q!StartResync, Q!StartCompose, Q!StepCompose
<1> QED
  BY <1>1, <1>2, PTL DEF Q!Spec

\* RetrieveGapsInData finds every height below the last stored one that is not
\* stored and every height with a header below the validation level, and nothing
\* else, for every table and level, unless a single header is below the level.
THEOREM GapsCompleteAlways == Q!Spec => []GapsComplete
<1>1. SearchInv => GapsComplete
  <2> SUFFICES ASSUME kind = "gaps", answer # <<>>, Cardinality(Under) # 1,
                      answer[1] \in RetrieveGapsInData(request[2], request[1])
               PROVE  UNION Range(Spans(answer[1])) =
                        {h \in 0..Max(Stored(request[2])) : h \notin Stored(request[2])}
                          \cup {k[1] : k \in Under}
    BY DEF SearchInv, GapsComplete
  <2> DEFINE gaps == answer[1]  t == request[2]  level == request[1]
  <2>1. UNION Range(Spans(gaps)) = {h \in UNION Range(Spans(gaps)) : TRUE}
        /\ \A h : h \in UNION Range(Spans(gaps)) <=> \E i \in DOMAIN gaps : h \in Span(gaps[i])
    BY DEF Range, Spans
  <2>2. /\ \A i \in DOMAIN gaps : \A h \in Span(gaps[i]) :
              \/ h \in 0..Max(Stored(t)) /\ h \notin Stored(t)
              \/ \E k \in UnderRows(t, level) : k[1] = h
        /\ \A h \in 0..Max(Stored(t)) : h \notin Stored(t) => \E i \in DOMAIN gaps : h \in Span(gaps[i])
        /\ \A j, k \in UnderRows(t, level) : j # k => \E i \in DOMAIN gaps : k[1] \in Span(gaps[i])
    BY SearchFacts
  <2>3. Under = UnderRows(t, level)
    BY DEF Under
  <2>4. ASSUME NEW k \in Under PROVE \E i \in DOMAIN gaps : k[1] \in Span(gaps[i])
    <3>1. IsFiniteSet(Under)
      BY <2>3, UnderFinite
    <3>2. Under # {k}
      BY <3>1, FS_Singleton
    <3>3. PICK j \in Under : j # k
      BY <3>2
    <3> QED
      BY <2>2, <2>3, <3>3
  <2> HIDE DEF gaps, t, level
  <2>5. \A h : h \in UNION Range(Spans(gaps)) <=>
                h \in {x \in 0..Max(Stored(t)) : x \notin Stored(t)} \cup {k[1] : k \in Under}
    BY <2>1, <2>2, <2>3, <2>4
  <2> QED
    BY <2>5 DEF gaps, t
<1> QED
  BY <1>1, SearchInductive, PTL

\* Whatever the size of a batch, no height is in two batches of a pass but for
\* one with two headers below the level, for every table and level.
THEOREM GapsDisjointAlways == Q!Spec => []GapsDisjoint
<1>1. SearchInv => GapsDisjoint
  <2> SUFFICES ASSUME kind = "gaps", answer # <<>>, NEW size \in 1..(MaxHeight + 1),
                      answer[1] \in RetrieveGapsInData(request[2], request[1]),
                      NEW bins, bins = PassBins(answer[1], size),
                      NEW i \in DOMAIN bins, NEW j \in DOMAIN bins, i # j,
                      NEW h \in bins[i] \cap bins[j]
               PROVE  Cardinality({k \in Under : k[1] = h}) > 1
    BY DEF SearchInv, GapsDisjoint
  <2>1. size \in Nat \ {0}
    BY HeaderAssumption DEF HeaderAssumption
  <2>2. /\ bins \in Seq(SUBSET Height)
        /\ \A k, l \in DOMAIN bins : k < l => \A x \in bins[k] \cap bins[l] :
             Cardinality(UnderAt(request[2], request[1], x)) > 1
    BY <2>1, PassFacts
  <2>3. i < j \/ j < i
    BY <2>2
  <2>4. Cardinality(UnderAt(request[2], request[1], h)) > 1
    BY <2>2, <2>3
  <2> QED
    BY <2>4 DEF UnderAt, Under
<1> QED
  BY <1>1, SearchInductive, PTL
=============================================================================
