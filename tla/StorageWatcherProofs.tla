------------------------ MODULE StorageWatcherProofs ------------------------
(***************************************************************************)
(* Proofs about StorageWatcher, for every set of diffs and contracts and   *)
(* every bound on deliveries, crashes and failures; and, in the second     *)
(* half, about the compose command, which builds the plugins that storage  *)
(* and event watchers run: for every pair of configurations, composed over *)
(* whatever earlier runs left on the disk.                                 *)
(***************************************************************************)
EXTENDS StorageWatcher, Compose, FiniteSetTheorems, SequenceTheorems, WellFoundedInduction, TLAPS

\* While it works on one diff, Execute has one in hand.
CurOK == pc \in {"create", "execute", "enqueue", "delete"} => cur \in Diffs

TypeInv == TypeOK /\ CurOK

\* The rows left of GetAll are still in the queue, for nothing else deletes; a diff in hand is not queued yet; and a row of
\* a watched contract is only deleted after a run.
QueueInv ==
  /\ todo \subseteq queued_storage
  /\ pc \notin {"queue", "delete"} => todo = {}
  /\ pc = "delete" => cur \in todo
  /\ pc = "delete" /\ IsWatched(cur) => runs[cur] > 0
  /\ \A d \in Diffs : InHand(d) => d \in storage_diff \ queued_storage

\* A regular run of d is still to come.
Fresh(d) ==
  \/ d \notin storage_diff
  \/ InHand(d)
  \/ d \in queued_storage /\ ~(pc = "delete" /\ cur = d /\ IsWatched(d))

\* A run of d under ID 0 is about to happen.
Unpersisted(d) == pc = "execute" /\ ~hasID /\ cur = d

\* The runs made and the irregular one to come are paid for by the mishaps, and by
\* the one regular run once it is made.
CountInv ==
  \A d \in Diffs :
    runs[d] + (IF Unpersisted(d) THEN 1 ELSE 0)
      <= mishaps[d] + (IF Fresh(d) THEN 0 ELSE 1)

IInv == TypeInv /\ QueueInv /\ AccountedFor /\ CountInv

\* A look-up caches nothing but diffs.
LEMMA LookupCache ==
  ASSUME TypeOK, NEW d \in Diffs, NEW r \in Lookup(d)
  PROVE  r.cache \subseteq Diffs
BY DEF Lookup, TypeOK

\* Nothing has arrived or run yet.
LEMMA InitIInv == Init => IInv
<1> SUFFICES ASSUME Init PROVE IInv
  OBVIOUS
<1>1. TypeInv
  <2>1. /\ runs \in [Diffs -> Nat]
        /\ mishaps \in [Diffs -> Nat]
        /\ copies \in [Diffs -> 0..MaxCopies]
        /\ crashes \in 0..MaxCrashes
    BY StorageWatcherAssumption DEF Init
  <2>2. DiffsChan \in Seq(Diffs)
    BY DEF Init
  <2>3. QED
    BY <2>1, <2>2 DEF Init, TypeInv, TypeOK, CurOK, PC
<1>2. QueueInv /\ AccountedFor
  BY DEF Init, QueueInv, AccountedFor, InHand
<1>3. CountInv
  BY DEF Init, CountInv, Fresh, Unpersisted
<1>4. QED
  BY <1>1, <1>2, <1>3 DEF IInv

\* Execute's state stays well formed.
LEMMA TypeStep == TypeInv /\ QueueInv /\ [Next]_vars => TypeInv'
<1> SUFFICES ASSUME TypeInv, QueueInv, [Next]_vars PROVE TypeInv'
  OBVIOUS
<1> USE StorageWatcherAssumption DEF TypeInv, TypeOK, CurOK, PC, tables, feed, hand, history
<1>1. ASSUME NEW d \in Diffs, Deliver(d) PROVE TypeInv'
  BY <1>1 DEF Deliver
<1>2. ASSUME NEW d \in Diffs, Learn(d) PROVE TypeInv'
  BY <1>2 DEF Learn
<1>3. CASE ReceiveDiff
  BY <1>3 DEF ReceiveDiff
<1>4. CASE DuplicateDiff
  BY <1>4 DEF DuplicateDiff
<1>5. CASE CreateStorageDiff
  BY <1>5 DEF CreateStorageDiff, Dispatch
<1>6. CASE CreateStorageDiffError
  <2>1. mishaps' \in [Diffs -> Nat]
    BY <1>6 DEF CreateStorageDiffError
  <2>2. pc' \in PC /\ excused' \subseteq Diffs /\ hasID' \in BOOLEAN
    BY <1>6 DEF CreateStorageDiffError, Dispatch
  <2>3. QED
    BY <1>6, <2>1, <2>2 DEF CreateStorageDiffError
<1>7. CASE Execute
  <2>1. mappings' \subseteq Diffs
    BY <1>7, LookupCache DEF Execute, ExecuteOK
  <2>2. QED
    BY <1>7, <2>1 DEF Execute, ExecuteOK
<1>8. CASE ExecuteError
  <2>1. mappings' \subseteq Diffs
    BY <1>8, LookupCache DEF ExecuteError, ExecuteErr
  <2>2. QED
    BY <1>8, <2>1 DEF ExecuteError, ExecuteErr
<1>9. CASE QueueAdd
  BY <1>9 DEF QueueAdd, QueueInv, InHand
<1>10. CASE QueueAddError
  BY <1>10 DEF QueueAddError
<1>11. CASE Tick
  BY <1>11 DEF Tick
<1>12. ASSUME NEW d \in Diffs, QueueUnwatched(d) PROVE TypeInv'
  BY <1>12 DEF QueueUnwatched
<1>13. ASSUME NEW d \in Diffs, QueueExecute(d) PROVE TypeInv'
  <2>1. mappings' \subseteq Diffs
    BY <1>13, LookupCache DEF QueueExecute, ExecuteOK
  <2>2. QED
    BY <1>13, <2>1 DEF QueueExecute, ExecuteOK
<1>14. ASSUME NEW d \in Diffs, QueueExecuteError(d) PROVE TypeInv'
  <2>1. mappings' \subseteq Diffs
    BY <1>14, LookupCache DEF QueueExecuteError, ExecuteErr
  <2>2. QED
    BY <1>14, <2>1 DEF QueueExecuteError, ExecuteErr
<1>15. CASE QueueDelete
  BY <1>15 DEF QueueDelete
<1>16. CASE QueueDeleteError
  BY <1>16 DEF QueueDeleteError
<1>17. CASE QueueDone
  BY <1>17 DEF QueueDone
<1>18. CASE Crash
  <2>1. mishaps' \in [Diffs -> Nat]
    BY <1>18 DEF Crash
  <2>2. excused' \subseteq Diffs
    BY <1>18 DEF Crash
  <2>3. DiffsChan' \in Seq(Diffs) /\ crashes' \in 0..MaxCrashes
    BY <1>18 DEF Crash
  <2>4. QED
    BY <1>18, <2>1, <2>2, <2>3 DEF Crash
<1>19. CASE UNCHANGED vars
  BY <1>19 DEF vars
<1>20. QED
  BY <1>1, <1>2, <1>3, <1>4, <1>5, <1>6, <1>7, <1>8, <1>9, <1>10, <1>11, <1>12,
     <1>13, <1>14, <1>15, <1>16, <1>17, <1>18, <1>19
  DEF Next, processRow, processQueue

\* The queue, the account and the count are preserved together.
LEMMA SafetyStep == IInv /\ TypeInv' /\ [Next]_vars => (QueueInv /\ AccountedFor /\ CountInv)'
<1> SUFFICES ASSUME IInv, TypeInv', [Next]_vars
             PROVE  (QueueInv /\ AccountedFor /\ CountInv)'
  OBVIOUS
<1> USE StorageWatcherAssumption
    DEF IInv, TypeInv, TypeOK, CurOK, PC, QueueInv, AccountedFor, CountInv, Fresh,
        Unpersisted, InHand, IsWatched, tables, feed, hand, history
<1>1. ASSUME NEW d \in Diffs, Deliver(d) PROVE (QueueInv /\ AccountedFor /\ CountInv)'
  BY <1>1 DEF Deliver
<1>2. ASSUME NEW d \in Diffs, Learn(d) PROVE (QueueInv /\ AccountedFor /\ CountInv)'
  BY <1>2 DEF Learn
<1>3. CASE ReceiveDiff
  BY <1>3 DEF ReceiveDiff
<1>4. CASE DuplicateDiff
  BY <1>4 DEF DuplicateDiff
<1>5. CASE CreateStorageDiff
  BY <1>5 DEF CreateStorageDiff, Dispatch
<1>6. CASE CreateStorageDiffError
  BY <1>6 DEF CreateStorageDiffError, Dispatch
<1>7. CASE Execute
  BY <1>7 DEF Execute, ExecuteOK
<1>8. CASE ExecuteError
  BY <1>8 DEF ExecuteError, ExecuteErr
<1>9. CASE QueueAdd
  BY <1>9 DEF QueueAdd
<1>10. CASE QueueAddError
  BY <1>10 DEF QueueAddError
<1>11. CASE Tick
  BY <1>11 DEF Tick
<1>12. ASSUME NEW d \in Diffs, QueueUnwatched(d) PROVE (QueueInv /\ AccountedFor /\ CountInv)'
  BY <1>12 DEF QueueUnwatched
<1>13. ASSUME NEW d \in Diffs, QueueExecute(d) PROVE (QueueInv /\ AccountedFor /\ CountInv)'
  BY <1>13 DEF QueueExecute, ExecuteOK
<1>14. ASSUME NEW d \in Diffs, QueueExecuteError(d) PROVE (QueueInv /\ AccountedFor /\ CountInv)'
  BY <1>14 DEF QueueExecuteError, ExecuteErr
<1>15. CASE QueueDelete
  BY <1>15 DEF QueueDelete
<1>16. CASE QueueDeleteError
  BY <1>16 DEF QueueDeleteError
<1>17. CASE QueueDone
  BY <1>17 DEF QueueDone
<1>18. CASE Crash
  BY <1>18 DEF Crash
<1>19. CASE UNCHANGED vars
  BY <1>19 DEF vars
<1>20. QED
  BY <1>1, <1>2, <1>3, <1>4, <1>5, <1>6, <1>7, <1>8, <1>9, <1>10, <1>11, <1>12,
     <1>13, <1>14, <1>15, <1>16, <1>17, <1>18, <1>19
  DEF Next, processRow, processQueue

\* The inductive invariant, in every state.
LEMMA IInvAlways == Spec => []IInv
<1>1. IInv /\ [Next]_vars => IInv'
  BY TypeStep, SafetyStep DEF IInv
<1>2. QED
  BY <1>1, InitIInv, PTL DEF Spec

\* Every persisted diff is transformed, queued, in hand or given up for a reason the
\* code states.
THEOREM AccountedForAlways == Spec => []AccountedFor
<1>1. IInv => AccountedFor
  BY DEF IInv
<1>2. QED
  BY <1>1, IInvAlways, PTL

\* A diff is transformed at most once more than it met with mishaps.
THEOREM RunsBoundedAlways == Spec => []RunsBounded
<1>1. IInv => RunsBounded
  <2> SUFFICES ASSUME IInv, NEW d \in Diffs PROVE runs[d] <= 1 + mishaps[d]
    BY DEF RunsBounded
  <2>1. runs[d] \in Nat /\ mishaps[d] \in Nat
    BY DEF IInv, TypeInv, TypeOK
  <2>2. runs[d] + (IF Unpersisted(d) THEN 1 ELSE 0)
          <= mishaps[d] + (IF Fresh(d) THEN 0 ELSE 1)
    BY DEF IInv, CountInv
  <2>3. QED
    BY <2>1, <2>2
<1>2. QED
  BY <1>1, IInvAlways, PTL

\* The variables of StorageWatcher keep their types.
THEOREM TypeCorrect == Spec => []TypeOK
<1>1. IInv => TypeOK
  BY DEF IInv, TypeInv
<1>2. QED
  BY <1>1, IInvAlways, PTL
-----------------------------------------------------------------------------
(* GetMigrationsPaths *)

\* Every nonempty set of natural numbers has a least element.
LEMMA LeastExists ==
  ASSUME NEW S \in SUBSET Nat, S # {}
  PROVE  \E x \in S : \A y \in S : x <= y
<1>1. PICK x \in S : \A y \in S : ~(<<y, x>> \in OpToRel(<, Nat))
  BY NatLessThanWellFounded, WFMin
<1>2. \A y \in S : ~(y < x)
  BY <1>1 DEF OpToRel
<1> QED
  BY <1>2

\* A set of integers with an upper bound has a greatest element, which Max picks.
LEMMA MaxOfBounded ==
  ASSUME NEW N \in Int, NEW S \in SUBSET Int, S # {}, \A x \in S : x <= N
  PROVE  Max(S) \in S /\ \A y \in S : y <= Max(S)
<1> DEFINE Below == {d \in Nat : \E x \in S : d = N - x}
<1>1. Below # {} /\ Below \in SUBSET Nat
  <2>1. PICK x \in S : TRUE
    OBVIOUS
  <2>2. N - x \in Nat
    BY <2>1
  <2> QED
    BY <2>1, <2>2
<1>3. PICK d \in Below : \A e \in Below : d <= e
  <2> HIDE DEF Below
  <2> QED
    BY <1>1, LeastExists
<1>4. PICK x \in S : d = N - x
  OBVIOUS
<1>5. \A y \in S : x >= y
  <2> SUFFICES ASSUME NEW y \in S PROVE x >= y
    OBVIOUS
  <2>1. N - y \in Below
    OBVIOUS
  <2>2. d <= N - y
    BY <1>3, <2>1
  <2> QED
    BY <1>4, <2>2
<1>6. \A y \in S : Max(S) >= y /\ Max(S) \in S
  BY <1>5 DEF Max
<1> QED
  BY <1>6

Ranks(conf) == {conf[name].rank : name \in DOMAIN conf}

\* The ranks of a configuration that prepConfig lets through.
LEMMA RankFacts ==
  ASSUME NEW conf, prepConfig(conf), IsFiniteSet(DOMAIN conf)
  PROVE  /\ Ranks(conf) \in SUBSET Nat /\ IsFiniteSet(Ranks(conf))
         /\ \A r \in Ranks(conf) : r <= 2^RankBits - 1
<1>1. 2^RankBits \in Nat
  BY RankAssumption DEF RankAssumption
<1>2. ASSUME NEW name \in DOMAIN conf PROVE conf[name].rank \in Nat /\ conf[name].rank <= 2^RankBits - 1
  <2>1. conf[name].rank \in 0..(2^RankBits - 1)
    BY DEF prepConfig
  <2> QED
    BY <1>1, <2>1
<1>3. IsFiniteSet(Ranks(conf))
  <2> DEFINE f == [name \in DOMAIN conf |-> conf[name].rank]
  <2>1. f \in Surjection(DOMAIN conf, Ranks(conf))
    BY DEF Surjection, Ranks
  <2> HIDE DEF f
  <2> QED
    BY <2>1, FS_Surjection
<1> QED
  BY <1>2, <1>3 DEF Ranks

\* GetMigrationsPaths gives one path per rank, in the order of the ranks, and all
\* of them: a path in place i belongs to transformers of rank i - 1 only.
LEMMA PathsOrdered ==
  ASSUME NEW conf, prepConfig(conf), IsFiniteSet(DOMAIN conf),
         GetMigrationsPaths(conf).is = "paths",
         NEW paths, paths = GetMigrationsPaths(conf).paths
  PROVE  /\ DOMAIN paths = 1..Cardinality(Ranks(conf)) /\ Cardinality(Ranks(conf)) \in Nat
         /\ Len(paths) = Cardinality(Ranks(conf))
         /\ \A i \in DOMAIN paths : paths[i] \in {MigrationPath(conf[name]) : name \in DOMAIN conf}
         /\ \A i \in DOMAIN paths : \A name \in DOMAIN conf :
              paths[i] = MigrationPath(conf[name]) => conf[name].rank = i - 1
         /\ \A name \in DOMAIN conf : \E i \in DOMAIN paths : paths[i] = MigrationPath(conf[name])
<1> DEFINE R == Ranks(conf)  n == Cardinality(R)  P(r) == MigrationPaths(conf, {r})
<1>0. R \in SUBSET Nat /\ IsFiniteSet(R) /\ n \in Nat
  BY RankFacts, FS_CardinalityType
<1>1. /\ \A r \in R : ~(Cardinality(P(r)) > 1)
      /\ ~anyDupes(conf, R)
      /\ \A r \in R : ~(r >= n)
      /\ paths = [i \in 1..n |-> CHOOSE p \in P(i - 1) : TRUE]
  BY DEF GetMigrationsPaths, Ranks
<1>2. R = 0..(n - 1)
  <2> HIDE DEF R
  <2>1. R \subseteq 0..(n - 1)
    BY <1>0, <1>1
  <2>2. IsFiniteSet(0..(n - 1)) /\ Cardinality(0..(n - 1)) = n
    <3>1. Cardinality(0..(n - 1)) = IF 0 > n - 1 THEN 0 ELSE (n - 1) - 0 + 1
      BY <1>0, FS_Interval
    <3> QED
      BY <1>0, <3>1, FS_Interval
  <2> QED
    BY <2>1, <2>2, FS_Subset
<1>3. ASSUME NEW r \in R PROVE \E p : P(r) = {p}
  <2>1. PICK name \in DOMAIN conf : conf[name].rank = r
    BY DEF Ranks
  <2>2. MigrationPath(conf[name]) \in P(r)
    BY <2>1 DEF MigrationPaths
  <2>3. IsFiniteSet(P(r))
    <3> DEFINE D == {m \in DOMAIN conf : conf[m].rank \in {r}}
               f == [m \in D |-> MigrationPath(conf[m])]
    <3>1. IsFiniteSet(D)
      BY FS_Subset
    <3>2. f \in Surjection(D, P(r))
      BY DEF Surjection, MigrationPaths
    <3> HIDE DEF D, f, P
    <3> QED
      BY <3>1, <3>2, FS_Surjection
  <2>4. Cardinality(P(r)) \in Nat /\ Cardinality(P(r)) # 0
    BY <2>2, <2>3, FS_CardinalityType, FS_EmptySet
  <2>5. Cardinality(P(r)) = 1
    <3> HIDE DEF P, R
    <3> QED
      BY <1>1, <2>4
  <2> QED
    BY <2>3, <2>5, FS_Singleton
<1> DEFINE f == [r \in R |-> CHOOSE p \in P(r) : TRUE]
<1>4. \A r \in R : P(r) = {f[r]}
  <2> HIDE DEF P, R
  <2> QED
    BY <1>3
<1>5. \A name \in DOMAIN conf : conf[name].rank \in R /\ MigrationPath(conf[name]) = f[conf[name].rank]
  <2> SUFFICES ASSUME NEW name \in DOMAIN conf
               PROVE  conf[name].rank \in R /\ MigrationPath(conf[name]) = f[conf[name].rank]
    OBVIOUS
  <2>1. conf[name].rank \in R
    BY DEF Ranks
  <2>2. MigrationPath(conf[name]) \in P(conf[name].rank)
    BY DEF MigrationPaths
  <2> HIDE DEF P, R, f
  <2> QED
    BY <1>4, <2>1, <2>2
<1> DEFINE M == MigrationPaths(conf, R)
<1>6. f \in Surjection(R, M)
  <2>1. \A r \in R : \E name \in DOMAIN conf : conf[name].rank = r
    BY DEF Ranks
  <2>2. M = {MigrationPath(conf[name]) : name \in DOMAIN conf}
    BY <1>5 DEF MigrationPaths
  <2> HIDE DEF R, M
  <2>3. \A r \in R : f[r] \in M
    <3> HIDE DEF f
    <3> QED
      BY <1>5, <2>1, <2>2
  <2>4. \A m \in M : \E r \in R : f[r] = m
    <3> HIDE DEF f
    <3> QED
      BY <1>5, <2>2
  <2>5. f \in [R -> M]
    BY <2>3
  <2> HIDE DEF f
  <2> QED
    BY <2>4, <2>5 DEF Surjection
<1>7. f \in Injection(R, M)
  <2>1. ~(Cardinality(M) < n)
    BY <1>1 DEF anyDupes
  <2> HIDE DEF R, M, f
  <2>2. IsFiniteSet(M) /\ Cardinality(M) <= n /\ (Cardinality(M) = n <=> f \in Injection(R, M))
    BY <1>0, <1>6, FS_Surjection
  <2>3. Cardinality(M) \in Nat
    BY <2>2, FS_CardinalityType
  <2> QED
    BY <1>0, <2>1, <2>2, <2>3
<1>8. \A r, s \in R : f[r] = f[s] => r = s
  <2> HIDE DEF R, M
  <2>1. DOMAIN f = R
    OBVIOUS
  <2> HIDE DEF f
  <2> QED
    BY <1>7, <2>1 DEF Injection, IsInjective
<1>9. DOMAIN paths = 1..n /\ \A i \in 1..n : i - 1 \in R /\ paths[i] = f[i - 1]
  <2> HIDE DEF R, P
  <2>1. DOMAIN paths = 1..n
    BY <1>1
  <2>2. \A i \in 1..n : i - 1 \in R
    BY <1>0, <1>2
  <2> QED
    BY <1>1, <2>1, <2>2
<1>10. ASSUME NEW name \in DOMAIN conf PROVE \E i \in 1..n : paths[i] = MigrationPath(conf[name])
  <2> HIDE DEF R, f
  <2>1. conf[name].rank + 1 \in 1..n /\ (conf[name].rank + 1) - 1 = conf[name].rank
    BY <1>0, <1>2, <1>5
  <2>2. paths[conf[name].rank + 1] = f[conf[name].rank]
    BY <1>9, <2>1
  <2> QED
    BY <1>5, <2>1, <2>2
<1>11. ASSUME NEW i \in 1..n, NEW name \in DOMAIN conf, paths[i] = MigrationPath(conf[name])
       PROVE  conf[name].rank = i - 1
  <2> HIDE DEF R, f
  <2> QED
    BY <1>5, <1>8, <1>9, <1>11
<1>12. Len(paths) = n
  BY <1>0, <1>9
<1>13. ASSUME NEW i \in 1..n PROVE paths[i] \in {MigrationPath(conf[name]) : name \in DOMAIN conf}
  <2>1. PICK name \in DOMAIN conf : conf[name].rank = i - 1
    BY <1>9 DEF Ranks
  <2> HIDE DEF R, f
  <2>2. paths[i] = MigrationPath(conf[name])
    BY <1>5, <1>9, <2>1
  <2> QED
    BY <2>2
<1> QED
  BY <1>0, <1>9, <1>10, <1>11, <1>12, <1>13

\* An index out of range needs a rank of at least half their range.
LEMMA PanicNeedsLargeRank ==
  ASSUME NEW conf, prepConfig(conf), IsFiniteSet(DOMAIN conf), GetMigrationsPaths(conf).is = "panic"
  PROVE  \E name \in DOMAIN conf : conf[name].rank >= 2^(RankBits - 1)
<1> SUFFICES ASSUME \A name \in DOMAIN conf : ~(conf[name].rank >= 2^(RankBits - 1))
             PROVE  FALSE
  OBVIOUS
<1> DEFINE R == Ranks(conf)  n == Cardinality(R)  S == {-1} \cup {AsInt(r) : r \in R}
<1>0. /\ R \in SUBSET Nat /\ IsFiniteSet(R) /\ n \in Nat /\ 2^RankBits \in Nat /\ 2^(RankBits - 1) \in Nat
      /\ \A r \in R : r <= 2^RankBits - 1
  BY RankFacts, FS_CardinalityType, RankAssumption DEF RankAssumption
<1>1. \A r \in R : r < 2^(RankBits - 1)
  BY <1>0 DEF Ranks
<1>2. \A r \in R : AsInt(r) = r
  BY <1>1 DEF AsInt
<1>3. n = Max(S) + 1 /\ \E r \in R : r >= n
  BY DEF GetMigrationsPaths, Ranks
<1>4. S = {-1} \cup R
  <2> HIDE DEF R
  <2> QED
    BY <1>2
<1>5. S \in SUBSET Int /\ S # {} /\ \A x \in S : x <= 2^RankBits
  <2> HIDE DEF R, S
  <2> QED
    BY <1>0, <1>4
<1>6. Max(S) \in S /\ \A y \in S : y <= Max(S)
  <2>1. PICK N \in Int : N = 2^RankBits
    BY <1>0
  <2> HIDE DEF S
  <2> QED
    BY <1>5, <2>1, MaxOfBounded
<1> HIDE DEF R, S, n
<1>7. PICK r \in R : r >= n
  BY <1>3
<1>8. r \in Nat /\ r <= Max(S) /\ Max(S) \in Int /\ n = Max(S) + 1
  BY <1>0, <1>3, <1>4, <1>5, <1>6
<1> QED
  BY <1>7, <1>8
-----------------------------------------------------------------------------
(* A run of compose *)

\* The configurations that are composed, with their repositories and migrations.
Configs == UNION {{p[1], p[2]} : p \in Plugins}
Repos == UNION {GetRepoPaths(c) : c \in Configs}
AllPaths == UNION {{MigrationPath(c[name]) : name \in DOMAIN c} : c \in Configs}

DiskType == [vendor : SUBSET Repos, goFile : BOOLEAN, soFile : Configs \cup {NoPlugin}, tmpMigDir : BOOLEAN]
RunPC == {"write", "refused", "copy", "build", "migrate", "run", "cleanup", "done", "killed"}
RunType == [conf : Configs, before : DiskType, disk : DiskType, copied : SUBSET Repos,
            migrated : Seq(AllPaths), faults : SUBSET Repos, pc : RunPC,
            result : {"none", "ok", "error", "panic"}]

\* What is on the disk: in the vendor directory what was there, what is copied and
\* what a fault left; and a .so file of this configuration or none.
DiskInv(r) ==
  /\ r.copied \subseteq GetRepoPaths(r.conf) /\ r.copied \cap r.before.vendor = {}
  /\ r.pc \in {"build", "migrate", "run"} => r.copied = GetRepoPaths(r.conf)
  /\ r.pc \in {"write", "copy", "build", "migrate", "run"} => r.result = "none" /\ r.faults = {}
  /\ r.pc \in {"write", "copy", "build", "migrate", "run", "cleanup"} =>
       r.disk.vendor = r.before.vendor \cup r.copied \cup r.faults
  /\ r.pc = "cleanup" => r.faults \cap r.copied = {}
  /\ r.pc = "done" => r.disk.vendor = r.before.vendor \cup r.faults
  /\ r.pc \in {"copy", "build"} => r.disk.soFile = NoPlugin
  /\ r.pc \in {"migrate", "run"} => r.disk.soFile = r.conf
  /\ r.pc \in {"cleanup", "done"} => r.disk.soFile \in {NoPlugin, r.conf}

\* What has run: the first of the paths that GetMigrationsPaths gives, and all of
\* them in a run that succeeded.
MigrationInv(r) ==
  /\ r.pc # "refused" => prepConfig(r.conf)
  /\ r.pc \in {"write", "copy", "build", "migrate"} => r.migrated = <<>>
  /\ r.pc = "run" => GetMigrationsPaths(r.conf).is = "paths"
  /\ r.migrated # <<>> => prepConfig(r.conf) /\ GetMigrationsPaths(r.conf).is = "paths"
  /\ \A i \in DOMAIN r.migrated : /\ i \in DOMAIN GetMigrationsPaths(r.conf).paths
                                  /\ r.migrated[i] = GetMigrationsPaths(r.conf).paths[i]
  /\ r.result = "panic" => prepConfig(r.conf) /\ GetMigrationsPaths(r.conf).is = "panic"
  /\ r.result = "ok" => /\ prepConfig(r.conf) /\ GetMigrationsPaths(r.conf).is = "paths"
                        /\ Len(r.migrated) = Len(GetMigrationsPaths(r.conf).paths)
                        /\ r.disk.soFile = r.conf /\ r.copied = GetRepoPaths(r.conf)

RunInv(r) == r \in RunType /\ DiskInv(r) /\ MigrationInv(r)

\* A run starts with its invariant, on any disk.
LEMMA ComposeStarts ==
  ASSUME NEW conf \in Configs, NEW disk \in DiskType PROVE RunInv(compose(conf, disk))
<1> DEFINE r == compose(conf, disk)
<1>1. /\ r.conf = conf /\ r.before = disk /\ r.disk = disk /\ r.copied = {} /\ r.migrated = <<>>
      /\ r.faults = {} /\ r.result = "none"
      /\ r.pc = IF prepConfig(conf) /\ conf # <<>> THEN "write" ELSE "refused"
  BY DEF compose
<1>2. r \in RunType
  BY EmptySeq DEF compose, RunType, RunPC
<1> HIDE DEF r
<1>3. DiskInv(r)
  BY <1>1 DEF DiskInv
<1>4. MigrationInv(r)
  BY <1>1 DEF MigrationInv
<1> QED
  BY <1>2, <1>3, <1>4 DEF RunInv, r

\* ClearFiles and the source: a .so file of before is gone, or the run is refused.
LEMMA WriteStep ==
  ASSUME NEW r, RunInv(r), NEW s \in WritePlugin(r) PROVE RunInv(s)
<1> USE DEF RunInv
<1>1. r.pc = "write" /\ r \in RunType
  BY DEF WritePlugin
<1>2. CASE s = [r EXCEPT !.disk.goFile = TRUE, !.disk.soFile = NoPlugin, !.pc = "copy"]
  <2>1. /\ s.conf = r.conf /\ s.before = r.before /\ s.copied = r.copied /\ s.migrated = r.migrated
        /\ s.faults = r.faults /\ s.result = r.result /\ s.pc = "copy"
        /\ s.disk.vendor = r.disk.vendor /\ s.disk.soFile = NoPlugin /\ s.disk.tmpMigDir = r.disk.tmpMigDir
    BY <1>1, <1>2 DEF RunType, DiskType
  <2>2. s \in RunType
    BY <1>1, <1>2 DEF RunType, DiskType, RunPC
  <2>3. DiskInv(s)
    BY <1>1, <2>1 DEF DiskInv
  <2>4. MigrationInv(s)
    BY <1>1, <2>1 DEF MigrationInv, DiskInv
  <2> QED
    BY <2>2, <2>3, <2>4
<1>3. ASSUME NEW d \in ClearFiles(r.disk), s = [r EXCEPT !.disk = d, !.pc = "refused"] PROVE RunInv(s)
  <2>1. /\ s.conf = r.conf /\ s.before = r.before /\ s.copied = r.copied /\ s.migrated = r.migrated
        /\ s.faults = r.faults /\ s.result = r.result /\ s.pc = "refused"
    BY <1>1, <1>3 DEF RunType
  <2>2. d \in DiskType
    BY <1>1 DEF RunType, DiskType, ClearFiles
  <2>3. s \in RunType
    BY <1>1, <1>3, <2>2 DEF RunType, RunPC
  <2>4. DiskInv(s)
    BY <1>1, <2>1 DEF DiskInv
  <2>5. MigrationInv(s)
    BY <1>1, <2>1 DEF MigrationInv, DiskInv
  <2> QED
    BY <2>3, <2>4, <2>5
<1> QED
  BY <1>1, <1>2, <1>3 DEF WritePlugin

\* A step that keeps the disk and gives up, with an error or a panic.
LEMMA AbortStep ==
  ASSUME NEW r, RunInv(r), r.pc \in {"copy", "build", "migrate", "run"},
         NEW result \in {"error", "panic"},
         result = "panic" => GetMigrationsPaths(r.conf).is = "panic",
         NEW s, s = Abort(r, result)
  PROVE  RunInv(s)
<1> USE DEF RunInv
<1>1. /\ s.conf = r.conf /\ s.before = r.before /\ s.disk = r.disk /\ s.copied = r.copied
      /\ s.migrated = r.migrated /\ s.faults = r.faults /\ s.result = result /\ s.pc = "cleanup"
  BY DEF RunType, Abort
<1>2. s \in RunType
  BY DEF RunType, RunPC, Abort
<1>3. DiskInv(s)
  BY <1>1 DEF DiskInv
<1>4. MigrationInv(s)
  BY <1>1 DEF MigrationInv
<1> QED
  BY <1>2, <1>3, <1>4

\* setupBuildEnv, one repository at a time.
LEMMA CopyStep ==
  ASSUME NEW r, RunInv(r), NEW s \in setupBuildEnv(r) PROVE RunInv(s)
<1> USE DEF RunInv
<1>1. r.pc = "copy" /\ r \in RunType
  BY DEF setupBuildEnv
<1> DEFINE left == GetRepoPaths(r.conf) \ r.copied
<1>2. CASE left = {}
  <2>1. s = [r EXCEPT !.pc = "build"]
    BY <1>1, <1>2 DEF setupBuildEnv
  <2>2. /\ s.conf = r.conf /\ s.before = r.before /\ s.disk = r.disk /\ s.copied = r.copied
        /\ s.migrated = r.migrated /\ s.faults = r.faults /\ s.result = r.result /\ s.pc = "build"
    BY <1>1, <2>1 DEF RunType
  <2>3. s \in RunType
    BY <1>1, <2>1 DEF RunType, RunPC
  <2>4. DiskInv(s)
    BY <1>1, <1>2, <2>2 DEF DiskInv
  <2>5. MigrationInv(s)
    BY <1>1, <2>2 DEF MigrationInv, DiskInv
  <2> QED
    BY <2>3, <2>4, <2>5
<1>3. CASE left # {}
  <2>1. PICK repo \in left : s \in CopyDir(r, repo)
    BY <1>1, <1>3 DEF setupBuildEnv
  <2>2. repo \in Repos /\ repo \in GetRepoPaths(r.conf) /\ repo \notin r.copied
    BY <1>1, <2>1 DEF Repos, RunType
  <2>3. /\ r.faults = {} /\ r.result = "none"
        /\ r.disk.vendor = r.before.vendor \cup r.copied /\ r.disk.soFile = NoPlugin
        /\ r.copied \subseteq GetRepoPaths(r.conf) /\ r.copied \cap r.before.vendor = {}
    BY <1>1 DEF DiskInv
  <2>4. CASE s = Abort(r, "error")
    BY <1>1, <2>3, <2>4, AbortStep
  <2>5. CASE repo \notin r.disk.vendor /\ s = [r EXCEPT !.disk.vendor = @ \cup {repo}, !.copied = @ \cup {repo}]
    <3>1. /\ s.conf = r.conf /\ s.before = r.before /\ s.copied = r.copied \cup {repo}
          /\ s.migrated = r.migrated /\ s.faults = r.faults /\ s.result = r.result /\ s.pc = r.pc
          /\ s.disk.vendor = r.disk.vendor \cup {repo} /\ s.disk.soFile = r.disk.soFile
          /\ s.disk.tmpMigDir = r.disk.tmpMigDir
      BY <1>1, <2>5 DEF RunType, DiskType
    <3>2. s \in RunType
      BY <1>1, <2>2, <2>5 DEF RunType, DiskType
    <3>3. DiskInv(s)
      BY <1>1, <2>2, <2>3, <2>5, <3>1 DEF DiskInv
    <3>4. MigrationInv(s)
      BY <1>1, <2>3, <3>1 DEF MigrationInv
    <3> QED
      BY <3>2, <3>3, <3>4
  <2>6. CASE /\ repo \notin r.disk.vendor
             /\ s = [Abort(r, "error") EXCEPT !.disk.vendor = @ \cup {repo}, !.faults = {repo}]
    <3>1. /\ s.conf = r.conf /\ s.before = r.before /\ s.copied = r.copied
          /\ s.migrated = r.migrated /\ s.faults = {repo} /\ s.result = "error" /\ s.pc = "cleanup"
          /\ s.disk.vendor = r.disk.vendor \cup {repo} /\ s.disk.soFile = r.disk.soFile
          /\ s.disk.tmpMigDir = r.disk.tmpMigDir
      BY <1>1, <2>6 DEF RunType, DiskType, Abort
    <3>2. s \in RunType
      BY <1>1, <2>2, <2>6 DEF RunType, DiskType, Abort, RunPC
    <3>3. DiskInv(s)
      BY <1>1, <2>2, <2>3, <2>6, <3>1 DEF DiskInv
    <3>4. MigrationInv(s)
      BY <1>1, <2>3, <3>1 DEF MigrationInv
    <3> QED
      BY <3>2, <3>3, <3>4
  <2> QED
    BY <2>1, <2>4, <2>5, <2>6 DEF CopyDir
<1> QED
  BY <1>2, <1>3

\* BuildPlugin puts this configuration in the .so file.
LEMMA BuildStep ==
  ASSUME NEW r, RunInv(r), NEW s \in BuildPlugin(r) PROVE RunInv(s)
<1> USE DEF RunInv
<1>1. r.pc = "build" /\ r \in RunType
  BY DEF BuildPlugin
<1>2. CASE s = Abort(r, "error")
  BY <1>1, <1>2, AbortStep
<1>3. CASE s = [r EXCEPT !.disk.soFile = r.conf, !.pc = "migrate"]
  <2>1. /\ s.conf = r.conf /\ s.before = r.before /\ s.copied = r.copied /\ s.migrated = r.migrated
        /\ s.faults = r.faults /\ s.result = r.result /\ s.pc = "migrate"
        /\ s.disk.vendor = r.disk.vendor /\ s.disk.soFile = r.conf /\ s.disk.tmpMigDir = r.disk.tmpMigDir
    BY <1>1, <1>3 DEF RunType, DiskType
  <2>2. s \in RunType
    BY <1>1, <1>3 DEF RunType, DiskType, RunPC
  <2>3. DiskInv(s)
    BY <1>1, <2>1 DEF DiskInv
  <2>4. MigrationInv(s)
    BY <1>1, <2>1 DEF MigrationInv, DiskInv
  <2> QED
    BY <2>2, <2>3, <2>4
<1> QED
  BY <1>1, <1>2, <1>3 DEF BuildPlugin

\* RunMigrations finds the paths and makes the directory for the copies.
LEMMA MigrateStep ==
  ASSUME NEW r, RunInv(r), NEW s \in RunMigrations(r) PROVE RunInv(s)
<1> USE DEF RunInv
<1>1. r.pc = "migrate" /\ r \in RunType
  BY DEF RunMigrations
<1> DEFINE found == GetMigrationsPaths(r.conf)
<1>0. found.is \in {"error", "panic", "paths"}
  BY DEF GetMigrationsPaths
<1> HIDE DEF found
<1>2. /\ r.faults = {} /\ r.result = "none"
      /\ r.disk.soFile = r.conf /\ r.migrated = <<>> /\ prepConfig(r.conf)
      /\ r.copied = GetRepoPaths(r.conf)
  BY <1>1 DEF DiskInv, MigrationInv
<1>3. CASE found.is # "paths"
  <2>1. s = Abort(r, found.is)
    BY <1>1, <1>3 DEF RunMigrations, found
  <2>2. found.is \in {"error", "panic"} /\ (found.is = "panic" => GetMigrationsPaths(r.conf).is = "panic")
    BY <1>0, <1>3 DEF found
  <2> QED
    BY <1>1, <1>2, <2>1, <2>2, AbortStep
<1>4. CASE found.is = "paths"
  <2>1. s \in setupMigrationEnv(r)
    BY <1>1, <1>4 DEF RunMigrations, found
  <2>2. CASE s = Abort(r, "error")
    BY <1>1, <1>2, <2>2, AbortStep
  <2>3. CASE s = [r EXCEPT !.disk.tmpMigDir = TRUE, !.pc = "run"]
    <3>1. /\ s.conf = r.conf /\ s.before = r.before /\ s.copied = r.copied /\ s.migrated = r.migrated
          /\ s.faults = r.faults /\ s.result = r.result /\ s.pc = "run"
          /\ s.disk.vendor = r.disk.vendor /\ s.disk.soFile = r.disk.soFile /\ s.disk.tmpMigDir = TRUE
      BY <1>1, <2>3 DEF RunType, DiskType
    <3>2. s \in RunType
      BY <1>1, <2>3 DEF RunType, DiskType, RunPC
    <3>3. DiskInv(s)
      BY <1>1, <3>1 DEF DiskInv
    <3>4. MigrationInv(s)
      BY <1>1, <1>2, <1>4, <3>1 DEF MigrationInv, found
    <3> QED
      BY <3>2, <3>3, <3>4
  <2>4. CASE s = [Abort(r, "error") EXCEPT !.disk.tmpMigDir = FALSE]
    <3>1. /\ s.conf = r.conf /\ s.before = r.before /\ s.copied = r.copied /\ s.migrated = r.migrated
          /\ s.faults = r.faults /\ s.result = "error" /\ s.pc = "cleanup"
          /\ s.disk.vendor = r.disk.vendor /\ s.disk.soFile = r.disk.soFile /\ s.disk.tmpMigDir = FALSE
      BY <1>1, <2>4 DEF RunType, DiskType, Abort
    <3>2. s \in RunType
      BY <1>1, <2>4 DEF RunType, DiskType, Abort, RunPC
    <3>3. DiskInv(s)
      BY <1>1, <1>2, <3>1 DEF DiskInv
    <3>4. MigrationInv(s)
      BY <1>1, <1>2, <3>1 DEF MigrationInv
    <3> QED
      BY <3>2, <3>3, <3>4
  <2> QED
    BY <2>1, <2>2, <2>3, <2>4 DEF setupMigrationEnv
<1> QED
  BY <1>3, <1>4

\* createMigrationCopies and goose: the next path of GetMigrationsPaths is run.
LEMMA RunStep ==
  ASSUME NEW r, RunInv(r), IsFiniteSet(DOMAIN r.conf), NEW s \in createMigrationCopies(r) PROVE RunInv(s)
<1> USE DEF RunInv
<1>1. r.pc = "run" /\ r \in RunType
  BY DEF createMigrationCopies
<1> DEFINE paths == GetMigrationsPaths(r.conf).paths
           next == paths[Len(r.migrated) + 1]
           cleaned(x, left) == [x EXCEPT !.disk.tmpMigDir = left]
<1>2. /\ r.faults = {} /\ r.result = "none" /\ r.disk.soFile = r.conf /\ prepConfig(r.conf)
      /\ r.copied = GetRepoPaths(r.conf) /\ GetMigrationsPaths(r.conf).is = "paths"
      /\ \A i \in DOMAIN r.migrated : i \in DOMAIN paths /\ r.migrated[i] = paths[i]
  BY <1>1 DEF DiskInv, MigrationInv
<1>3. /\ Len(paths) \in Nat /\ DOMAIN paths = 1..Len(paths)
      /\ \A i \in DOMAIN paths : paths[i] \in AllPaths
  <2> DEFINE conf == r.conf
  <2>1. conf \in Configs /\ IsFiniteSet(DOMAIN conf) /\ prepConfig(conf) /\ GetMigrationsPaths(conf).is = "paths"
    BY <1>1, <1>2 DEF RunType
  <2> HIDE DEF conf
  <2>2. paths = GetMigrationsPaths(conf).paths
    BY DEF conf
  <2> HIDE DEF paths
  <2>3. /\ DOMAIN paths = 1..Cardinality(Ranks(conf)) /\ Cardinality(Ranks(conf)) \in Nat
        /\ Len(paths) = Cardinality(Ranks(conf))
        /\ \A i \in DOMAIN paths : paths[i] \in {MigrationPath(conf[name]) : name \in DOMAIN conf}
    BY <2>1, <2>2, PathsOrdered
  <2>4. {MigrationPath(conf[name]) : name \in DOMAIN conf} \subseteq AllPaths
    BY <2>1 DEF AllPaths
  <2> QED
    BY <2>3, <2>4
<1>4. ASSUME NEW result \in {"ok", "error"}, NEW left \in BOOLEAN, s = cleaned(Abort(r, result), left),
             result = "ok" => Len(r.migrated) = Len(paths)
      PROVE  RunInv(s)
  <2>1. /\ s.conf = r.conf /\ s.before = r.before /\ s.copied = r.copied /\ s.migrated = r.migrated
        /\ s.faults = r.faults /\ s.result = result /\ s.pc = "cleanup"
        /\ s.disk.vendor = r.disk.vendor /\ s.disk.soFile = r.disk.soFile /\ s.disk.tmpMigDir = left
    BY <1>1, <1>4 DEF RunType, DiskType, Abort
  <2>2. s \in RunType
    BY <1>1, <1>4 DEF RunType, DiskType, Abort, RunPC
  <2>3. DiskInv(s)
    BY <1>1, <1>2, <2>1 DEF DiskInv
  <2>4. MigrationInv(s)
    BY <1>1, <1>2, <1>4, <2>1 DEF MigrationInv
  <2> QED
    BY <2>2, <2>3, <2>4
<1>5. CASE Len(r.migrated) # Len(paths) /\ s = [r EXCEPT !.migrated = Append(@, next)]
  <2>0. r.migrated \in Seq(AllPaths)
    BY <1>1 DEF RunType
  <2> HIDE DEF paths
  <2>1. Len(r.migrated) + 1 \in DOMAIN paths
    <3>1. Len(r.migrated) \in Nat /\ DOMAIN r.migrated = 1..Len(r.migrated)
      BY <2>0
    <3>2. Len(r.migrated) <= Len(paths)
      <4>1. CASE Len(r.migrated) = 0
        BY <1>3, <4>1
      <4>2. CASE Len(r.migrated) # 0
        <5>1. Len(r.migrated) \in DOMAIN r.migrated
          BY <3>1, <4>2
        <5> QED
          BY <1>2, <1>3, <3>1, <5>1
      <4> QED
        BY <4>1, <4>2
    <3> QED
      BY <1>3, <1>5, <3>1, <3>2
  <2>2. next \in AllPaths
    BY <1>3, <2>1
  <2> DEFINE more == Append(r.migrated, next)
  <2>3. /\ more \in Seq(AllPaths)
        /\ \A i \in DOMAIN more : i \in DOMAIN paths /\ more[i] = paths[i]
    BY <1>2, <2>0, <2>1, <2>2
  <2>4. s = [r EXCEPT !.migrated = more]
    BY <1>5
  <2> HIDE DEF more
  <2>5. /\ s.conf = r.conf /\ s.before = r.before /\ s.disk = r.disk /\ s.copied = r.copied
        /\ s.migrated = more /\ s.faults = r.faults /\ s.result = r.result /\ s.pc = r.pc
    BY <1>1, <2>4 DEF RunType
  <2>6. s \in RunType
    BY <1>1, <2>3, <2>4 DEF RunType
  <2>7. DiskInv(s)
    BY <1>1, <2>5 DEF DiskInv
  <2>8. MigrationInv(s)
    BY <1>1, <1>2, <2>3, <2>5 DEF MigrationInv, paths
  <2> QED
    BY <2>6, <2>7, <2>8
<1>6. CASE Len(r.migrated) = Len(paths) /\ s \in {cleaned(Abort(r, "ok"), left) : left \in BOOLEAN}
  <2>1. PICK left \in BOOLEAN : s = cleaned(Abort(r, "ok"), left)
    BY <1>6
  <2> QED
    BY <1>4, <1>6, <2>1
<1>7. CASE s \in {cleaned(Abort(r, "error"), left) : left \in BOOLEAN}
  <2>1. PICK left \in BOOLEAN : s = cleaned(Abort(r, "error"), left)
    BY <1>7
  <2> QED
    BY <1>4, <2>1
<1> QED
  BY <1>1, <1>5, <1>6, <1>7 DEF createMigrationCopies

\* CleanUp: what is not removed is a fault.
LEMMA CleanStep ==
  ASSUME NEW r, RunInv(r), NEW s \in CleanUp(r) PROVE RunInv(s)
<1> USE DEF RunInv
<1>1. r.pc = "cleanup" /\ r \in RunType
  BY DEF CleanUp
<1> DEFINE next(gone, kept) == [r EXCEPT !.disk.vendor = @ \ gone, !.disk.goFile = kept, !.pc = "done",
                                         !.faults = @ \cup (r.copied \ gone)]
<1>2. PICK kept \in {r.disk.goFile, FALSE}, gone \in SUBSET r.copied : s = next(gone, kept)
  <2>1. s \in UNION {{next(gone, kept) : gone \in SUBSET r.copied} : kept \in {r.disk.goFile, FALSE}}
    BY <1>1 DEF CleanUp
  <2> HIDE DEF next
  <2>2. PICK kept \in {r.disk.goFile, FALSE} : s \in {next(gone, kept) : gone \in SUBSET r.copied}
    BY <2>1
  <2>3. PICK gone \in SUBSET r.copied : s = next(gone, kept)
    BY <2>2
  <2> QED
    BY <2>3
<1>3. /\ s.conf = r.conf /\ s.before = r.before /\ s.copied = r.copied /\ s.migrated = r.migrated
      /\ s.faults = r.faults \cup (r.copied \ gone) /\ s.result = r.result /\ s.pc = "done"
      /\ s.disk.vendor = r.disk.vendor \ gone /\ s.disk.soFile = r.disk.soFile
      /\ s.disk.tmpMigDir = r.disk.tmpMigDir
  BY <1>1, <1>2 DEF RunType, DiskType
<1>4. s \in RunType
  <2>1. kept \in BOOLEAN /\ r.disk.vendor \ gone \in SUBSET Repos /\ r.faults \cup (r.copied \ gone) \in SUBSET Repos
    BY <1>1, <1>2 DEF RunType, DiskType
  <2> QED
    BY <1>1, <1>2, <2>1 DEF RunType, DiskType, RunPC
<1>5. DiskInv(s)
  <2>1. s.disk.vendor = s.before.vendor \cup s.faults
    BY <1>1, <1>2, <1>3 DEF DiskInv
  <2> QED
    BY <1>1, <1>3, <2>1 DEF DiskInv
<1>6. MigrationInv(s)
  BY <1>1, <1>3 DEF MigrationInv
<1> QED
  BY <1>4, <1>5, <1>6

\* The process is killed: what it copied is a fault.
LEMMA KilledStep ==
  ASSUME NEW r, RunInv(r), NEW s \in Killed(r) PROVE RunInv(s)
<1> USE DEF RunInv
<1>1. r.pc \notin {"refused", "done", "killed"} /\ r \in RunType
  BY DEF Killed
<1>2. PICK begun \in {{}} \cup {{p} : p \in IF r.pc = "copy" THEN GetRepoPaths(r.conf) ELSE {}} :
        s = [r EXCEPT !.pc = "killed", !.faults = @ \cup r.copied \cup begun, !.disk.vendor = @ \cup begun]
  BY <1>1 DEF Killed
<1>3. begun \in SUBSET Repos
  BY <1>1 DEF Repos, RunType
<1>4. /\ s.conf = r.conf /\ s.before = r.before /\ s.copied = r.copied /\ s.migrated = r.migrated
      /\ s.result = r.result /\ s.pc = "killed" /\ s.disk.soFile = r.disk.soFile
  BY <1>1, <1>2 DEF RunType, DiskType
<1>5. s \in RunType
  BY <1>1, <1>2, <1>3 DEF RunType, DiskType, RunPC
<1>6. DiskInv(s)
  BY <1>1, <1>4 DEF DiskInv
<1>7. MigrationInv(s)
  BY <1>1, <1>4 DEF MigrationInv
<1> QED
  BY <1>5, <1>6, <1>7
-----------------------------------------------------------------------------
(* The runs of compose, as Queries makes them *)

CONSTANTS EthRequests, BtcRequests, LogRequests, GapRequests, Commands, MaxHeight, Hashes

Q == INSTANCE Queries

\* Queries is instantiated under its own constants: its Compose is this one.
LEMMA SameCompose ==
  /\ Q!EmptyDisk = EmptyDisk
  /\ \A conf, disk : Q!compose(conf, disk) = compose(conf, disk)
<1>1. \A conf : Q!prepConfig(conf) = prepConfig(conf)
  BY DEF Q!prepConfig, prepConfig, Q!GetTransformerType, GetTransformerType
<1> QED
  BY <1>1 DEF Q!EmptyDisk, EmptyDisk, Q!NoPlugin, NoPlugin, Q!compose, compose

\* So are the steps of its generator.
LEMMA SameGenerator == \A r : Q!GenerateExporterPlugin(r) = GenerateExporterPlugin(r)
<1>1. \A S : Q!Cardinality(S) = Cardinality(S)
  BY DEF Q!Cardinality, Cardinality
<1>2. \A S : Q!Max(S) = Max(S)
  BY DEF Q!Max, Max
<1>3. \A conf : Q!GetMigrationsPaths(conf) = GetMigrationsPaths(conf)
  BY <1>1, <1>2
     DEF Q!GetMigrationsPaths, GetMigrationsPaths, Q!AsInt, AsInt, Q!anyDupes, anyDupes,
         Q!MigrationPaths, MigrationPaths, Q!MigrationPath, MigrationPath
<1>4. \A conf : Q!GetRepoPaths(conf) = GetRepoPaths(conf)
  BY DEF Q!GetRepoPaths, GetRepoPaths
<1>5. \A r, result : Q!Abort(r, result) = Abort(r, result)
  BY DEF Q!Abort, Abort
<1>6. \A r : Q!WritePlugin(r) = WritePlugin(r)
  BY DEF Q!WritePlugin, WritePlugin, Q!ClearFiles, ClearFiles, Q!NoPlugin, NoPlugin
<1>7. \A r : Q!setupBuildEnv(r) = setupBuildEnv(r)
  BY <1>4, <1>5 DEF Q!setupBuildEnv, setupBuildEnv, Q!CopyDir, CopyDir
<1>8. \A r : Q!BuildPlugin(r) = BuildPlugin(r)
  BY <1>5 DEF Q!BuildPlugin, BuildPlugin
<1>9. \A r : Q!RunMigrations(r) = RunMigrations(r)
  BY <1>3, <1>5 DEF Q!RunMigrations, RunMigrations, Q!setupMigrationEnv, setupMigrationEnv
<1>10. \A r : Q!createMigrationCopies(r) = createMigrationCopies(r)
  BY <1>3, <1>5 DEF Q!createMigrationCopies, createMigrationCopies
<1>11. \A r : Q!CleanUp(r) = CleanUp(r)
  BY DEF Q!CleanUp, CleanUp
<1>12. \A r : Q!Killed(r) = Killed(r)
  BY <1>4 DEF Q!Killed, Killed
<1> QED
  BY <1>6, <1>7, <1>8, <1>9, <1>10, <1>11, <1>12 DEF Q!GenerateExporterPlugin, GenerateExporterPlugin

\* The answer of compose is a run that keeps RunInv.
ComposeInv ==
  kind = "compose" =>
    /\ request \in Plugins
    /\ answer # <<>> => RunInv(answer[1])

\* Every step of a run keeps its invariant.
LEMMA GeneratorStep ==
  ASSUME NEW r, RunInv(r), NEW s \in GenerateExporterPlugin(r) PROVE RunInv(s)
<1>1. IsFiniteSet(DOMAIN r.conf)
  <2>1. r.conf \in Configs
    BY DEF RunInv, RunType
  <2>2. PICK p \in Plugins : r.conf \in {p[1], p[2]}
    BY <2>1 DEF Configs
  <2> QED
    BY <2>2, PluginAssumption DEF PluginAssumption
<1> QED
  BY <1>1, WriteStep, CopyStep, BuildStep, MigrateStep, RunStep, CleanStep, KilledStep
     DEF GenerateExporterPlugin

\* The invariant of the runs, over any number of them.
LEMMA ComposeInductive == Q!Spec => []ComposeInv
<1>1. Q!Init => ComposeInv
  BY DEF Q!Init, ComposeInv
<1>2. ASSUME ComposeInv, [Q!Next]_Q!vars PROVE ComposeInv'
  <2>1. CASE Q!StartCompose
    <3>1. kind = "compose" /\ kind' = kind /\ request' = request /\ request \in Plugins
      BY <1>2, <2>1 DEF Q!StartCompose, ComposeInv
    <3>2. request[1] \in Configs /\ request[2] \in Configs
      BY <3>1 DEF Configs
    <3>3. CASE answer = <<>> /\ answer' = <<compose(request[1], EmptyDisk)>>
      <4>1. EmptyDisk \in DiskType
        BY DEF EmptyDisk, DiskType
      <4> QED
        BY <3>1, <3>2, <3>3, <4>1, ComposeStarts DEF ComposeInv
    <3>4. CASE answer # <<>> /\ answer' = <<compose(request[2], answer[1].disk)>>
      <4>1. answer[1].disk \in DiskType
        BY <1>2, <3>1, <3>4 DEF ComposeInv, RunInv, RunType
      <4> QED
        BY <3>1, <3>2, <3>4, <4>1, ComposeStarts DEF ComposeInv
    <3> QED
      BY <2>1, <3>3, <3>4, SameCompose DEF Q!StartCompose
  <2>2. CASE Q!StepCompose
    <3>1. kind = "compose" /\ kind' = kind /\ request' = request /\ answer # <<>>
      BY <2>2 DEF Q!StepCompose
    <3>2. PICK s \in GenerateExporterPlugin(answer[1]) : answer' = <<s>>
      BY <2>2, SameGenerator DEF Q!StepCompose
    <3>3. RunInv(s)
      BY <1>2, <3>1, <3>2, GeneratorStep DEF ComposeInv
    <3> QED
      BY <1>2, <3>1, <3>2, <3>3 DEF ComposeInv
  <2>3. CASE Q!FilterEth \/ Q!HistoryEth \/ Q!FilterBtc \/ Q!HistoryBtc \/ Q!AnswerLogs \/ Q!SearchGaps
             \/ Q!StartSuperNode \/ Q!StartResync
    BY <1>2, <2>3
       DEF ComposeInv, Q!FilterEth, Q!HistoryEth, Q!FilterBtc, Q!HistoryBtc, Q!AnswerLogs, Q!SearchGaps,
           Q!StartSuperNode, Q!StartResync
  <2>4. CASE UNCHANGED Q!vars
    BY <1>2, <2>4 DEF ComposeInv, Q!vars
  <2> QED
    BY <1>2, <2>1, <2>2, <2>3, <2>4 DEF Q!Next
<1> QED
  BY <1>1, <1>2, PTL DEF Q!Spec

\* What RunInv says of a run, as ComposeOrdered puts it.
LEMMA RunOrdered ==
  ASSUME NEW r, RunInv(r)
  PROVE  /\ \A i \in DOMAIN r.migrated : \A name \in DOMAIN r.conf :
              r.migrated[i] = MigrationPath(r.conf[name]) => r.conf[name].rank = i - 1
         /\ r.result = "ok" => \A name \in DOMAIN r.conf : MigrationPath(r.conf[name]) \in Range(r.migrated)
         /\ r.result = "panic" => \E name \in DOMAIN r.conf : r.conf[name].rank >= 2^(RankBits - 1)
<1> DEFINE conf == r.conf  paths == GetMigrationsPaths(conf).paths
<1>1. IsFiniteSet(DOMAIN conf)
  <2>1. r.conf \in Configs
    BY DEF RunInv, RunType
  <2>2. PICK p \in Plugins : r.conf \in {p[1], p[2]}
    BY <2>1 DEF Configs
  <2> QED
    BY <2>2, PluginAssumption DEF PluginAssumption
<1>2. r.migrated \in Seq(AllPaths)
  BY DEF RunInv, RunType
<1>3. \A i \in DOMAIN r.migrated : i \in DOMAIN paths /\ r.migrated[i] = paths[i]
  BY DEF RunInv, MigrationInv
<1>4. /\ r.migrated # <<>> => prepConfig(conf) /\ GetMigrationsPaths(conf).is = "paths"
      /\ r.result = "panic" => prepConfig(conf) /\ GetMigrationsPaths(conf).is = "panic"
      /\ r.result = "ok" => prepConfig(conf) /\ GetMigrationsPaths(conf).is = "paths"
                            /\ Len(r.migrated) = Len(paths)
  BY DEF RunInv, MigrationInv
<1> HIDE DEF conf
<1>5. ASSUME prepConfig(conf), GetMigrationsPaths(conf).is = "paths"
      PROVE  /\ DOMAIN paths = 1..Len(paths)
             /\ \A i \in DOMAIN paths : \A name \in DOMAIN conf :
                  paths[i] = MigrationPath(conf[name]) => conf[name].rank = i - 1
             /\ \A name \in DOMAIN conf : \E i \in DOMAIN paths : paths[i] = MigrationPath(conf[name])
  <2>1. paths = GetMigrationsPaths(conf).paths
    OBVIOUS
  <2> HIDE DEF paths
  <2> QED
    BY <1>1, <1>5, <2>1, PathsOrdered
<1> HIDE DEF paths
<1>6. ASSUME NEW i \in DOMAIN r.migrated, NEW name \in DOMAIN conf, r.migrated[i] = MigrationPath(conf[name])
      PROVE  conf[name].rank = i - 1
  <2>1. r.migrated # <<>>
    BY <1>6
  <2> QED
    BY <1>3, <1>4, <1>5, <1>6, <2>1
<1>7. ASSUME r.result = "ok", NEW name \in DOMAIN conf PROVE MigrationPath(conf[name]) \in Range(r.migrated)
  <2>1. DOMAIN r.migrated = DOMAIN paths
    BY <1>2, <1>4, <1>5, <1>7
  <2>2. PICK i \in DOMAIN paths : paths[i] = MigrationPath(conf[name])
    BY <1>4, <1>5, <1>7
  <2>3. r.migrated[i] = MigrationPath(conf[name]) /\ i \in DOMAIN r.migrated
    BY <1>3, <2>1, <2>2
  <2> QED
    BY <2>3 DEF Range
<1>8. ASSUME r.result = "panic" PROVE \E name \in DOMAIN conf : conf[name].rank >= 2^(RankBits - 1)
  BY <1>1, <1>4, <1>8, PanicNeedsLargeRank
<1> QED
  BY <1>6, <1>7, <1>8 DEF conf

\* Over any disk that earlier runs left, of any configurations and whatever failed
\* or was killed: GenerateExporterPlugin runs the migrations in the order of their
\* ranks, all of them when it reports success, with its own .so file and nothing in
\* the vendor directory but what was there, could not be removed or was half copied.
THEOREM ComposeOrderedAlways == Q!Spec => []ComposeOrdered
<1>1. ComposeInv => ComposeOrdered
  <2> SUFFICES ASSUME ComposeInv, kind = "compose", answer # <<>> PROVE ComposeOrdered
    BY DEF ComposeOrdered
  <2> DEFINE r == answer[1]
  <2>1. RunInv(r)
    BY DEF ComposeInv
  <2> HIDE DEF r
  <2>2. /\ \A i \in DOMAIN r.migrated : \A name \in DOMAIN r.conf :
             r.migrated[i] = MigrationPath(r.conf[name]) => r.conf[name].rank = i - 1
        /\ r.result = "ok" => \A name \in DOMAIN r.conf : MigrationPath(r.conf[name]) \in Range(r.migrated)
        /\ r.result = "panic" => \E name \in DOMAIN r.conf : r.conf[name].rank >= 2^(RankBits - 1)
    BY <2>1, RunOrdered
  <2>3. r.result = "ok" => r.disk.soFile = r.conf /\ GetRepoPaths(r.conf) \cap r.before.vendor = {}
    BY <2>1 DEF RunInv, DiskInv, MigrationInv
  <2>4. r.pc \notin {"write", "refused", "killed"} => r.disk.soFile \in {NoPlugin, r.conf}
    BY <2>1 DEF RunInv, DiskInv, RunType, RunPC
  <2>5. r.pc = "done" => r.disk.vendor = r.before.vendor \cup r.faults
    BY <2>1 DEF RunInv, DiskInv
  <2> QED
    BY <2>2, <2>3, <2>4, <2>5 DEF ComposeOrdered, r
<1> QED
  BY <1>1, ComposeInductive, PTL
=============================================================================
