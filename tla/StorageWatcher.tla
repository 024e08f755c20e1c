--------------------------- MODULE StorageWatcher ---------------------------
(***************************************************************************)
(* StorageWatcher.Execute with processRow and processQueue                 *)
(* (libraries/shared/watcher/storage_watcher.go), the tables storage_diff  *)
(* and queued_storage behind it, and the storage transformer with its      *)
(* cached key mappings (libraries/shared/factories/storage).               *)
(*                                                                         *)
(* One goroutine does the work; what interleaves with it is the delivery   *)
(* of diffs (live, from the start of the CSV file after a restart, or by   *)
(* the storage backfill), the keys that become known, failing calls and    *)
(* crashes.  Each database statement is one action, so a crash can fall    *)
(* between any two.  A diff is one value of storage_diff's unique key.     *)
(***************************************************************************)
EXTENDS Integers, Sequences, FiniteSets

CONSTANTS
  Diffs,      \* the storage diffs that exist
  Contracts,  \* the hashed addresses
  Contract,   \* the contract of each diff
  None,       \* no diff in hand
  MaxCopies,  \* bound: deliveries of one diff
  MaxCrashes, \* bound: crashes
  MaxMishaps  \* bound: a row with this many mishaps is deleted without error

ASSUME StorageWatcherAssumption ==
  /\ Contract \in [Diffs -> Contracts]
  /\ None \notin Diffs
  /\ MaxCopies \in Nat
  /\ MaxCrashes \in Nat
  /\ MaxMishaps \in Nat

VARIABLES
  storage_diff,   \* table: the diffs persisted
  queued_storage, \* table: the diffs to be transformed later
  runs,           \* the rows Repository.Create has written for each diff
  DiffsChan,      \* the channel of diffs
  copies,         \* how often each diff was delivered
  known,          \* the diffs whose storage key the loader can load
  mappings,       \* the diffs whose key is in the lookup's cache
  watched,        \* the contracts that have a transformer
  pc,             \* where Execute is
  cur,            \* the diff in hand
  hasID,          \* does the diff in hand have an ID?
  todo,           \* the rows of Queue.GetAll that are left
  crashes,        \* the number of crashes
  mishaps,        \* history: what can make a diff run again
  excused         \* history: the diffs given up by a crash, error or choice

tables  == <<storage_diff, queued_storage, runs>>
feed    == <<DiffsChan, copies, known>>
hand    == <<pc, cur, hasID, todo>>
history == <<mishaps, excused>>
vars    == <<tables, feed, mappings, watched, hand, crashes, history>>

PC == {"select", "create", "execute", "enqueue", "queue", "delete"}

Init ==
  /\ storage_diff = {}
  /\ queued_storage = {}
  /\ runs = [d \in Diffs |-> 0]
  /\ DiffsChan = <<>>
  /\ copies = [d \in Diffs |-> 0]
  /\ known = {}
  /\ mappings = {}
  /\ watched \in SUBSET Contracts
  /\ pc = "select"
  /\ cur = None
  /\ hasID = FALSE
  /\ todo = {}
  /\ crashes = 0
  /\ mishaps = [d \in Diffs |-> 0]
  /\ excused = {}

IsWatched(d) == Contract[d] \in watched
-----------------------------------------------------------------------------
(* The environment *)

\* A fetcher or the backfill sends a diff.
Deliver(d) ==
  /\ copies[d] < MaxCopies
  /\ copies' = [copies EXCEPT ![d] = @ + 1]
  /\ DiffsChan' = Append(DiffsChan, d)
  /\ UNCHANGED <<tables, known, mappings, watched, hand, crashes, history>>

\* Another part of the program stores the data the storage key derives from.
Learn(d) ==
  /\ d \notin known
  /\ known' = known \cup {d}
  /\ UNCHANGED <<tables, DiffsChan, copies, mappings, watched, hand, crashes, history>>
-----------------------------------------------------------------------------
(* Transformer.Execute *)

\* Mutant: a key that is not in the cache is not looked for again.
LookupNoRefresh(d) == {[found |-> d \in mappings, cache |-> mappings]}

\* What keysLookup.Lookup can return, with the cache it leaves.  On a miss the
\* transformer's mappings are replaced by what LoadMappings returns: the keys now
\* known, or nothing and an error.
Lookup(d) ==
  LET others == {e \in mappings : Contract[e] # Contract[d]}
      loaded == {e \in known : Contract[e] = Contract[d]}
  IN  IF d \in mappings THEN {[found |-> TRUE, cache |-> mappings]}
      ELSE {[found |-> d \in known, cache |-> others \cup loaded],
            [found |-> FALSE, cache |-> others]}

\* The key is found, the value decoded and the row written.
ExecuteOK(d) ==
  /\ \E r \in Lookup(d) : r.found /\ mappings' = r.cache
  /\ runs' = [runs EXCEPT ![d] = @ + 1]

\* The lookup, Decode or Repository.Create fails.
ExecuteErr(d) ==
  /\ \E r \in Lookup(d) : mappings' = r.cache
  /\ UNCHANGED runs
-----------------------------------------------------------------------------
(* processRow *)

ReceiveDiff ==
  /\ pc = "select"
  /\ DiffsChan # <<>>
  /\ cur' = Head(DiffsChan)
  /\ DiffsChan' = Tail(DiffsChan)
  /\ pc' = "create"
  /\ UNCHANGED <<tables, copies, known, mappings, watched, hasID, todo, crashes, history>>

\* ErrDuplicateDiff: the diff was persisted before, and is ignored.
DuplicateDiff ==
  /\ pc = "create"
  /\ cur \in storage_diff
  /\ pc' = "select"
  /\ UNCHANGED <<tables, feed, mappings, watched, cur, hasID, todo, crashes, history>>

\* getTransformer: a diff from an unwatched contract is ignored.
Dispatch(id) ==
  /\ hasID' = id
  /\ pc' = IF IsWatched(cur) THEN "execute" ELSE "select"
  /\ excused' = IF id /\ ~IsWatched(cur) THEN excused \cup {cur} ELSE excused

CreateStorageDiff ==
  /\ pc = "create"
  /\ cur \notin storage_diff
  /\ storage_diff' = storage_diff \cup {cur}
  /\ Dispatch(TRUE)
  /\ UNCHANGED <<queued_storage, runs, feed, mappings, watched, cur, todo, crashes, mishaps>>

\* Another error is logged only, and the diff is transformed under ID 0: a later
\* copy of it will not be a duplicate.
CreateStorageDiffError ==
  /\ pc = "create"
  /\ Dispatch(FALSE)
  /\ mishaps' = [mishaps EXCEPT ![cur] = @ + 1]
  /\ UNCHANGED <<tables, feed, mappings, watched, cur, todo, crashes>>

Execute ==
  /\ pc = "execute"
  /\ ExecuteOK(cur)
  /\ pc' = "select"
  /\ UNCHANGED <<storage_diff, queued_storage, feed, watched, cur, hasID, todo, crashes, history>>

ExecuteError ==
  /\ pc = "execute"
  /\ ExecuteErr(cur)
  /\ pc' = "enqueue"
  /\ UNCHANGED <<storage_diff, queued_storage, feed, watched, cur, hasID, todo, crashes, history>>

QueueAdd ==
  /\ pc = "enqueue"
  /\ hasID
  /\ queued_storage' = queued_storage \cup {cur}
  /\ pc' = "select"
  /\ UNCHANGED <<storage_diff, runs, feed, mappings, watched, cur, hasID, todo, crashes, history>>

\* The insert fails, as it must for ID 0, which storage_diff does not have: the
\* error is logged only.
QueueAddError ==
  /\ pc = "enqueue"
  /\ pc' = "select"
  /\ excused' = IF hasID THEN excused \cup {cur} ELSE excused
  /\ UNCHANGED <<tables, feed, mappings, watched, cur, hasID, todo, crashes, mishaps>>
-----------------------------------------------------------------------------
(* processQueue.  An error of GetAll is logged; there are no rows then, and *)
(* nothing changes.                                                         *)

\* case <-ticker.C
Tick ==
  /\ pc = "select"
  /\ todo' = queued_storage
  /\ pc' = "queue"
  /\ UNCHANGED <<tables, feed, mappings, watched, cur, hasID, crashes, history>>

\* A row whose contract is no longer watched: on to its deletion.
QueueUnwatched(d) ==
  /\ pc = "queue"
  /\ d \in todo
  /\ ~IsWatched(d)
  /\ cur' = d
  /\ pc' = "delete"
  /\ UNCHANGED <<tables, feed, mappings, watched, hasID, todo, crashes, history>>

QueueExecute(d) ==
  /\ pc = "queue"
  /\ d \in todo
  /\ IsWatched(d)
  /\ ExecuteOK(d)
  /\ cur' = d
  /\ pc' = "delete"
  /\ UNCHANGED <<storage_diff, queued_storage, feed, watched, hasID, todo, crashes, history>>

\* Mutant: the row is deleted whether or not the transformer succeeds.
QueueExecuteErrorDeletes(d) ==
  /\ pc = "queue"
  /\ d \in todo
  /\ IsWatched(d)
  /\ ExecuteErr(d)
  /\ cur' = d
  /\ pc' = "delete"
  /\ UNCHANGED <<storage_diff, queued_storage, feed, watched, hasID, todo, crashes, history>>

\* The row stays in the queue.
QueueExecuteError(d) ==
  /\ pc = "queue"
  /\ d \in todo
  /\ IsWatched(d)
  /\ ExecuteErr(d)
  /\ todo' = todo \ {d}
  /\ UNCHANGED <<storage_diff, queued_storage, feed, watched, pc, cur, hasID, crashes, history>>

\* Mutant: the row of a transformed diff is not deleted.
QueueDeleteNothing ==
  /\ pc = "delete"
  /\ todo' = todo \ {cur}
  /\ pc' = "queue"
  /\ excused' = IF IsWatched(cur) THEN excused ELSE excused \cup {cur}
  /\ UNCHANGED <<tables, feed, mappings, watched, cur, hasID, crashes, mishaps>>

\* deleteRow
QueueDelete ==
  /\ pc = "delete"
  /\ queued_storage' = queued_storage \ {cur}
  /\ todo' = todo \ {cur}
  /\ pc' = "queue"
  /\ excused' = IF IsWatched(cur) THEN excused ELSE excused \cup {cur}
  /\ UNCHANGED <<storage_diff, runs, feed, mappings, watched, cur, hasID, crashes, mishaps>>

\* The delete fails: logged, and the diff will be transformed again.
QueueDeleteError ==
  /\ pc = "delete"
  /\ mishaps[cur] < MaxMishaps
  /\ mishaps' = [mishaps EXCEPT ![cur] = @ + 1]
  /\ todo' = todo \ {cur}
  /\ pc' = "queue"
  /\ UNCHANGED <<tables, feed, mappings, watched, cur, hasID, crashes, excused>>

QueueDone ==
  /\ pc = "queue"
  /\ todo = {}
  /\ pc' = "select"
  /\ UNCHANGED <<tables, feed, mappings, watched, cur, hasID, todo, crashes, history>>
-----------------------------------------------------------------------------
\* The process dies and is started again, with its tables and perhaps with other
\* transformers.  What it was about to transform or to queue is lost to it, and
\* what it was about to delete stays in the queue.
Crash ==
  /\ crashes < MaxCrashes
  /\ crashes' = crashes + 1
  /\ DiffsChan' = <<>>
  /\ mappings' = {}
  /\ watched' \in SUBSET Contracts
  /\ pc' = "select"
  /\ cur' = None
  /\ hasID' = FALSE
  /\ todo' = {}
  /\ excused' = IF pc \in {"execute", "enqueue"} /\ hasID
                THEN excused \cup {cur} ELSE excused
  /\ mishaps' = IF pc = "delete" THEN [mishaps EXCEPT ![cur] = @ + 1] ELSE mishaps
  /\ UNCHANGED <<tables, copies, known>>

processRow ==
  \/ ReceiveDiff \/ DuplicateDiff \/ CreateStorageDiff \/ CreateStorageDiffError
  \/ Execute \/ ExecuteError \/ QueueAdd \/ QueueAddError

processQueue ==
  \/ \E d \in Diffs : QueueUnwatched(d) \/ QueueExecute(d) \/ QueueExecuteError(d)
  \/ QueueDelete \/ QueueDeleteError \/ QueueDone

Next ==
  \/ \E d \in Diffs : Deliver(d) \/ Learn(d)
  \/ processRow \/ Tick \/ processQueue \/ Crash

Spec == Init /\ [][Next]_vars

(***************************************************************************)
(* Execute goes on, and its select takes the ticker in the end.  A         *)
(* transformer that is called with a diff of a known key again and again   *)
(* succeeds in the end: the queue exists for that.  Nothing is assumed of  *)
(* the fetchers and of crashes.                                            *)
(***************************************************************************)
Fairness ==
  /\ WF_vars(processRow \/ processQueue)
  /\ SF_vars(Tick)
  /\ \A d \in Diffs : SF_vars(QueueExecute(d))

FairSpec == Spec /\ Fairness
-----------------------------------------------------------------------------
(* Properties *)

\* diff_id of queued_storage references storage_diff.
TypeOK ==
  /\ storage_diff \subseteq Diffs
  /\ queued_storage \subseteq storage_diff
  /\ runs \in [Diffs -> Nat]
  /\ DiffsChan \in Seq(Diffs)
  /\ copies \in [Diffs -> 0..MaxCopies]
  /\ known \subseteq Diffs
  /\ mappings \subseteq Diffs
  /\ watched \subseteq Contracts
  /\ pc \in PC
  /\ cur \in Diffs \cup {None}
  /\ hasID \in BOOLEAN
  /\ todo \subseteq Diffs
  /\ crashes \in 0..MaxCrashes
  /\ mishaps \in [Diffs -> Nat]
  /\ excused \subseteq Diffs

\* The diff is persisted and processRow has not decided about it yet.
InHand(d) == pc \in {"execute", "enqueue"} /\ hasID /\ cur = d

\* A persisted diff is transformed, queued or in hand, or was given up for a reason
\* the code states: its contract was not watched, queueing it failed, or the process
\* died between the two tables.  This is all that stands between a diff and being
\* forgotten, because every later copy is ignored as a duplicate.
AccountedFor ==
  \A d \in storage_diff :
    runs[d] > 0 \/ d \in queued_storage \/ InHand(d) \/ d \in excused

\* A diff is transformed once, and once more at most for each failure to persist it,
\* failure to delete its row and crash before that: neither redelivery nor the
\* queue's timer repeats a transformation by itself.
RunsBounded == \A d \in Diffs : runs[d] <= 1 + mishaps[d]

\* A queued diff whose key is known is transformed in the end, for as long as its
\* contract is watched: the lookup's cache does not hide the key.
QueuedTransformed ==
  \A d \in Diffs :
    (d \in queued_storage /\ d \in known /\ IsWatched(d))
      ~> (runs[d] > 0 \/ ~IsWatched(d))
=============================================================================
