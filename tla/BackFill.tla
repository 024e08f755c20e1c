------------------------------ MODULE BackFill ------------------------------
(***************************************************************************)
(* The gap-filling half of the super node: BackFillService.BackFill, the   *)
(* backFill workers it starts and kills on every pass and                  *)
(* BackFillService.Stop (pkg/super_node/backfiller.go), over the           *)
(* header_cids table that Sync writes to meanwhile.                        *)
(*                                                                         *)
(* heightsChan and QuitChan are unbuffered, so a send on either is one     *)
(* joint step of the BackFill goroutine and of the worker that receives.   *)
(* QuitChan has two uses: BackFill sends one token per worker to end a     *)
(* pass, and Stop closes it to end the service.                            *)
(*                                                                         *)
(* RetrieveGapsInData is three SQL statements without a transaction, so    *)
(* each of them may see a later table than the one before.                 *)
(***************************************************************************)
EXTENDS HeaderCIDs

CONSTANTS
  Workers,         \* the backFill goroutines of a pass (BatchNumber)
  Canon,           \* the hash of the node's canonical block at each height
  ValidationLevel, \* headers validated fewer times are to be resynced
  BatchSize,       \* most heights in one batch
  MaxLive,         \* bound: blocks indexed by Sync or by a resync command
  MaxResets,       \* bound: validation resets by a resync command
  MaxValidated     \* bound: BackFill indexes no header more often

ASSUME BackFillAssumption ==
  /\ IsFiniteSet(Workers)
  /\ Canon \in Hashes
  /\ ValidationLevel \in Nat
  /\ BatchSize \in Nat \ {0}
  /\ MaxLive \in Nat
  /\ MaxResets \in Nat
  /\ MaxValidated \in Nat

VARIABLES
  headers,  \* the table header_cids
  indexed,  \* how many blocks Sync has indexed
  resets,   \* how many validation resets there were
  pc,       \* where the BackFill goroutine is
  found,    \* the gaps the search under way has found so far
  todo,     \* the batches of this pass that no worker has received yet
  kills,    \* quit tokens this pass has left to send
  wk,       \* where each worker is
  batch,    \* the heights each worker has left to process
  quit,     \* has Stop closed QuitChan?
  before,   \* history: the heights stored at the first statement of the search
  after     \* history: the heights stored at its last statement

envVars    == <<headers, indexed, resets>>
searchVars == <<found, before, after>>
mainVars   == <<pc, todo, kills>>
workerVars == <<wk, batch>>
vars       == <<envVars, searchVars, mainVars, workerVars, quit>>

MainPC   == {"idle", "empty", "under", "dispatch", "send", "kill", "returned", "panicked"}
WorkerPC == {"none", "select", "fetch", "payload"}

Init ==
  /\ headers = EmptyTable
  /\ indexed = 0
  /\ resets = 0
  /\ pc = "idle"
  /\ todo = <<>>
  /\ kills = 0
  /\ wk = [w \in Workers |-> "none"]
  /\ batch = [w \in Workers |-> {}]
  /\ quit = FALSE
  /\ found = <<>>
  /\ before = {}
  /\ after = {}
-----------------------------------------------------------------------------
(* The BackFill goroutine *)

\* case <-ticker.C: RetrieveGapsInData asks for the first block.  An error, an
\* empty table included, is logged and changes nothing.
SearchFirst ==
  /\ pc = "idle"
  /\ Rows(headers) # {}
  /\ found' = InitialGap(headers)
  /\ before' = Stored(headers)
  /\ pc' = "empty"
  /\ UNCHANGED <<envVars, after, todo, kills, workerVars, quit>>

\* The second statement: the self join, in any order of its rows.
SearchEmpty ==
  /\ pc = "empty"
  /\ \E empty \in SetToSeqs(EmptyGaps(headers)) : found' = found \o empty
  /\ pc' = "under"
  /\ UNCHANGED <<envVars, before, after, todo, kills, workerVars, quit>>

\* The third statement: the rows below the level.  The gaps are complete, and
\* BackFill starts this pass's workers.
SearchUnder ==
  /\ pc = "under"
  /\ \E heights \in {UnderHeights(headers, ValidationLevel)} :
     \E gaps \in {found \o MissingHeightsToGaps(heights)} :
        todo' = PassBins(gaps, BatchSize)
  /\ found' = <<>>
  /\ after' = Stored(headers)
  /\ wk' = [w \in Workers |-> "select"]
  /\ pc' = "dispatch"
  /\ UNCHANGED <<envVars, before, kills, batch, quit>>

\* The second or the third statement fails: logged, and on to the next tick.
SearchError ==
  /\ pc \in {"empty", "under"}
  /\ found' = <<>>
  /\ before' = {}
  /\ pc' = "idle"
  /\ UNCHANGED <<envVars, after, todo, kills, workerVars, quit>>

Search == SearchFirst \/ SearchEmpty \/ SearchUnder \/ SearchError

\* case <-bfs.QuitChan: return; between passes and before each batch.
MainQuit ==
  /\ pc = "idle" \/ (pc = "dispatch" /\ todo # <<>>)
  /\ quit
  /\ pc' = "returned"
  /\ UNCHANGED <<envVars, searchVars, todo, kills, workerVars, quit>>

\* default: enter the blocking send heightsChan <- heights.
Offer ==
  /\ pc = "dispatch"
  /\ todo # <<>>
  /\ ~quit
  /\ pc' = "send"
  /\ UNCHANGED <<envVars, searchVars, todo, kills, workerVars, quit>>

\* Mutant: one batch goes to a worker and stays at the head of the list.
HandAgain(w) ==
  /\ pc = "send"
  /\ wk[w] = "select"
  /\ wk' = [wk EXCEPT ![w] = "fetch"]
  /\ batch' = [batch EXCEPT ![w] = Head(todo)]
  /\ pc' = "dispatch"
  /\ UNCHANGED <<envVars, searchVars, todo, kills, quit>>

\* A worker in its select receives the batch.
Hand(w) ==
  /\ pc = "send"
  /\ wk[w] = "select"
  /\ wk' = [wk EXCEPT ![w] = "fetch"]
  /\ batch' = [batch EXCEPT ![w] = Head(todo)]
  /\ todo' = Tail(todo)
  /\ pc' = "dispatch"
  /\ UNCHANGED <<envVars, searchVars, kills, quit>>

\* Mutant: the loop that kills the workers sends one token too few.
DispatchedOneShort ==
  /\ pc = "dispatch"
  /\ todo = <<>>
  /\ kills' = Cardinality(Workers) - 1
  /\ pc' = "kill"
  /\ UNCHANGED <<envVars, searchVars, todo, workerVars, quit>>

\* Every batch is handed out: start to send a quit token to each worker.
Dispatched ==
  /\ pc = "dispatch"
  /\ todo = <<>>
  /\ kills' = Cardinality(Workers)
  /\ pc' = "kill"
  /\ UNCHANGED <<envVars, searchVars, todo, workerVars, quit>>

\* bfs.QuitChan <- true, received by a worker that is free.
Kill(w) ==
  /\ pc = "kill"
  /\ kills > 0
  /\ ~quit
  /\ wk[w] = "select"
  /\ kills' = kills - 1
  /\ wk' = [wk EXCEPT ![w] = "none"]
  /\ UNCHANGED <<envVars, searchVars, pc, todo, batch, quit>>

\* bfs.QuitChan <- true on the channel that Stop closed: the panic ends the
\* process, the workers with it.
KillClosed ==
  /\ pc = "kill"
  /\ kills > 0
  /\ quit
  /\ pc' = "panicked"
  /\ wk' = [w \in Workers |-> "none"]
  /\ batch' = [w \in Workers |-> {}]
  /\ UNCHANGED <<envVars, searchVars, todo, kills, quit>>

PassDone ==
  /\ pc = "kill"
  /\ kills = 0
  /\ before' = {}
  /\ after' = {}
  /\ pc' = "idle"
  /\ UNCHANGED <<envVars, found, todo, kills, workerVars, quit>>
-----------------------------------------------------------------------------
(* The backFill workers *)

\* What follows in the worker when it is through with the lowest height it has
\* left: the next payload, or the select.
Advance(w) ==
  LET rest == batch[w] \ {Min(batch[w])}
  IN  /\ batch' = [batch EXCEPT ![w] = rest]
      /\ wk' = [wk EXCEPT ![w] = IF rest = {} THEN "select" ELSE "payload"]

\* FetchAt fails for the whole batch; it is logged and there are no payloads.
FetchError(w) ==
  /\ wk[w] = "fetch"
  /\ wk' = [wk EXCEPT ![w] = "select"]
  /\ batch' = [batch EXCEPT ![w] = {}]
  /\ UNCHANGED <<envVars, searchVars, mainVars, quit>>

\* FetchAt returns a payload for every height of the batch.
Fetch(w) ==
  /\ wk[w] = "fetch"
  /\ wk' = [wk EXCEPT ![w] = "payload"]
  /\ UNCHANGED <<envVars, searchVars, mainVars, batch, quit>>

\* The next payload goes through Convert, to ScreenAndServeChan by a send that
\* never blocks (the subscribers' side of it is Subscriptions), and through
\* Publish and Index.  Only Index's transaction changes what others see.  A
\* forked height is fetched again and again as long as its orphan is below the
\* level, hence the bound.
Payload(w) ==
  /\ wk[w] = "payload"
  /\ headers[<<Min(batch[w]), Canon>>] < MaxValidated
  /\ headers' = Upsert(headers, <<Min(batch[w]), Canon>>)
  /\ Advance(w)
  /\ UNCHANGED <<indexed, resets, searchVars, mainVars, quit>>

\* One of the calls fails: logged, and on to the next payload.  After a
\* conversion error it is Publish that refuses the nil result.
PayloadError(w) ==
  /\ wk[w] = "payload"
  /\ Advance(w)
  /\ UNCHANGED <<envVars, searchVars, mainVars, quit>>

\* case <-bfs.QuitChan after Stop closed it.
WorkerQuit(w) ==
  /\ wk[w] = "select"
  /\ quit
  /\ wk' = [wk EXCEPT ![w] = "none"]
  /\ UNCHANGED <<envVars, searchVars, mainVars, batch, quit>>

backFill(w) ==
  \/ FetchError(w) \/ Fetch(w) \/ Payload(w) \/ PayloadError(w) \/ WorkerQuit(w)
-----------------------------------------------------------------------------
(* The environment *)

\* One of Sync's publishAndIndex workers, or a resync command beside the node,
\* indexes a block.  Several workers commit in any order, a reorganisation brings
\* another block of a height, and a block that is never indexed is one missed.
LiveIndex ==
  /\ indexed < MaxLive
  /\ indexed' = indexed + 1
  /\ \E k \in Key : headers' = Upsert(headers, k)
  /\ UNCHANGED <<resets, searchVars, mainVars, workerVars, quit>>

\* The resync command resets the validation level of a range of blocks.
ResetValidation ==
  /\ resets < MaxResets
  /\ resets' = resets + 1
  /\ \E first, last \in Height :
        /\ first <= last
        /\ headers' = ResetRange(headers, first, last)
  /\ UNCHANGED <<indexed, searchVars, mainVars, workerVars, quit>>

Stop ==
  /\ ~quit
  /\ quit' = TRUE
  /\ UNCHANGED <<envVars, searchVars, mainVars, workerVars>>

Main == Search \/ MainQuit \/ Offer \/ Dispatched \/ KillClosed \/ PassDone

Next ==
  \/ Main
  \/ \E w \in Workers : Hand(w) \/ Kill(w) \/ backFill(w)
  \/ LiveIndex \/ ResetValidation \/ Stop

Spec == Init /\ [][Next]_vars

(***************************************************************************)
(* Go runs every goroutine that can take a step, the ticker keeps ticking, *)
(* and a select with two ready cases picks either.  The calls that can     *)
(* fail, to the archival node, the converter, IPFS and Postgres, do not    *)
(* fail for ever while they are tried again and again.  For a chain        *)
(* without forks this is enough; a forked height is fetched in every pass, *)
(* and then it would have to be assumed of each height.                    *)
(* Nothing is assumed of Sync, of the resync command or of Stop.           *)
(***************************************************************************)
Fairness ==
  /\ WF_vars(Main)
  /\ SF_vars(SearchEmpty)
  /\ SF_vars(SearchUnder)
  /\ WF_vars(\E w \in Workers : Hand(w) \/ Kill(w))
  /\ \A w \in Workers : WF_vars(backFill(w))
  /\ SF_vars(\E w \in Workers : Fetch(w))
  /\ SF_vars(\E w \in Workers : Payload(w))

FairSpec == Spec /\ Fairness
-----------------------------------------------------------------------------
(* Properties *)

\* "we start and kill a new batch of workers for each pass so that we know each
\* of the previous workers is done before we search for new gaps"
\* (backfiller.go:133-134).
PassIsolation ==
  pc \in {"idle", "empty", "under"} => \A w \in Workers : wk[w] = "none"

\* The height has a header that lost its place in the canonical chain.
Forked(h) == \E j, k \in Rows(headers) : j[1] = h /\ k[1] = h /\ j # k

\* The search met the height in two states of the table: it was indexed while
\* the statements ran, or it lies below the first block of the first statement
\* and above one that was.
Raced(h) ==
  \/ h \in after \ before
  \/ (\A f \in before : h < f) /\ \E g \in after \ before : g < h

\* No two workers are on the same height, and no height that is being
\* processed is still to be handed out, but for a forked height (each of its
\* under-validated headers puts it into a gap) and for one that the search raced
\* with: "There will be no overlap between these "gaps" and the ones above"
\* (cid_retriever.go:482) is true of one state of the table only.
ExclusiveHeights ==
  /\ \A w, v \in Workers : w # v =>
       \A h \in batch[w] \cap batch[v] : Forked(h) \/ Raced(h)
  /\ \A w \in Workers, i \in DOMAIN todo :
       \A h \in batch[w] \cap todo[i] : Forked(h) \/ Raced(h)

\* Every gap is filled, unless the service is stopped: again and again each height
\* below a stored one is stored, and what is stored stays.
GapsFilled ==
  []<>(\/ \A g \in Stored(headers), h \in Height : h < g => h \in Stored(headers)
       \/ quit)

\* Validation catches up with the resets: again and again at most one canonical
\* header is below the level (the gap search does not find a single one).  An
\* orphaned header stays below it: FetchAt never returns its block again.
ValidationCatchesUp ==
  []<>(\/ Cardinality({k \in UnderRows(headers, ValidationLevel) : k[2] = Canon}) <= 1
       \/ quit)

=============================================================================
