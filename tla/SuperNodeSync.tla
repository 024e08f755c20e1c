--------------------------- MODULE SuperNodeSync ---------------------------
(***************************************************************************)
(* The head-following half of the super node: Service.Sync, the pool of    *)
(* publishAndIndex workers it spins up and Service.Stop                    *)
(* (pkg/super_node/service.go).                                            *)
(*                                                                         *)
(* A payload is its position in the stream, 1 for the first one read from  *)
(* Service.PayloadChan.  Two buffered Go channels leave the Sync goroutine *)
(*   screenChan  screenAndServePayload, drained by the Serve goroutine     *)
(*   pubChan     publishAndIndexPayload, "acts as a ring buffer", drained  *)
(*               by the workers                                            *)
(* One Go statement that another goroutine can interleave with (a channel  *)
(* operation, a database transaction) is one action.  The ring buffer code *)
(*      select { case pubChan <- x: default: <-pubChan; pubChan <- x }     *)
(* is three of them: Forward, Evict and Push.                              *)
(***************************************************************************)
EXTENDS Naturals, Sequences

CONSTANTS
  Workers,               \* the publishAndIndex goroutines (WorkerPoolSize)
  PayloadChanBufferSize, \* capacity of both channels (2000 in the code)
  MaxPayloads,           \* bound: payloads the node streams in a behaviour
  Serving                \* is there a Serve process? a nil channel otherwise

ASSUME SyncAssumption ==
  /\ PayloadChanBufferSize \in Nat \ {0}
  /\ MaxPayloads \in Nat
  /\ Serving \in BOOLEAN

Payload == 1..MaxPayloads

VARIABLES
  streamed,   \* how many payloads were received from PayloadChan
  pc,         \* where the Sync goroutine is
  cur,        \* the converted payload the Sync goroutine has in hand
  screenChan, \* screenAndServePayload
  pubChan,    \* publishAndIndexPayload
  wk,         \* where each publishAndIndex worker is
  task,       \* the payload each worker received last (0: none yet)
  quit,       \* has Stop closed QuitChan?
  fate        \* history: what became of each payload

vars == <<streamed, pc, cur, screenChan, pubChan, wk, task, quit, fate>>

SyncPC   == {"select", "screen", "forward", "evict", "push", "returned"}
WorkerPC == {"select", "publish", "index", "returned"}
Fate     == {"pending", "unconverted", "evicted", "unpublished", "unindexed",
             "indexed"}

Init ==
  /\ streamed = 0
  /\ pc = "select"
  /\ cur = 0
  /\ screenChan = <<>>
  /\ pubChan = <<>>
  /\ wk = [w \in Workers |-> "select"]
  /\ task = [w \in Workers |-> 0]
  /\ quit = FALSE
  /\ fate = [p \in Payload |-> "pending"]
-----------------------------------------------------------------------------
(* The Sync goroutine *)

\* case payload := <-sap.PayloadChan, Convert succeeds.
Receive ==
  /\ pc = "select"
  /\ streamed < MaxPayloads
  /\ streamed' = streamed + 1
  /\ cur' = streamed + 1
  /\ pc' = "screen"
  /\ UNCHANGED <<screenChan, pubChan, wk, task, quit, fate>>

\* case payload := <-sap.PayloadChan, Convert fails: logged, continue.
ReceiveUnconvertible ==
  /\ pc = "select"
  /\ streamed < MaxPayloads
  /\ streamed' = streamed + 1
  /\ fate' = [fate EXCEPT ![streamed + 1] = "unconverted"]
  /\ UNCHANGED <<pc, cur, screenChan, pubChan, wk, task, quit>>

\* Non-blocking send to the Serve process; a full or nil channel drops it.
Screen ==
  /\ pc = "screen"
  /\ screenChan' = IF Serving /\ Len(screenChan) < PayloadChanBufferSize
                   THEN Append(screenChan, cur)
                   ELSE screenChan
  /\ pc' = "forward"
  /\ UNCHANGED <<streamed, cur, pubChan, wk, task, quit, fate>>

\* Mutant: a full buffer drops the newest payload, as the send to Serve does.
ForwardDropNewest ==
  /\ pc = "forward"
  /\ IF Len(pubChan) < PayloadChanBufferSize
     THEN pubChan' = Append(pubChan, cur) /\ UNCHANGED fate
     ELSE fate' = [fate EXCEPT ![cur] = "evicted"] /\ UNCHANGED pubChan
  /\ pc' = "select"
  /\ UNCHANGED <<streamed, cur, screenChan, wk, task, quit>>

\* The outer select on pubChan: send if there is room, else the default case.
Forward ==
  /\ pc = "forward"
  /\ IF Len(pubChan) < PayloadChanBufferSize
     THEN /\ pubChan' = Append(pubChan, cur)
          /\ pc' = "select"
     ELSE /\ pc' = "evict"
          /\ UNCHANGED pubChan
  /\ UNCHANGED <<streamed, cur, screenChan, wk, task, quit, fate>>

\* Mutant: the newest entry makes room instead of the oldest.
EvictNewest ==
  /\ pc = "evict"
  /\ pubChan # <<>>
  /\ fate' = [fate EXCEPT ![pubChan[Len(pubChan)]] = "evicted"]
  /\ pubChan' = SubSeq(pubChan, 1, Len(pubChan) - 1)
  /\ pc' = "push"
  /\ UNCHANGED <<streamed, cur, screenChan, wk, task, quit>>

\* default: <-publishAndIndexPayload, a receive that blocks on an empty channel.
Evict ==
  /\ pc = "evict"
  /\ pubChan # <<>>
  /\ fate' = [fate EXCEPT ![Head(pubChan)] = "evicted"]
  /\ pubChan' = Tail(pubChan)
  /\ pc' = "push"
  /\ UNCHANGED <<streamed, cur, screenChan, wk, task, quit>>

\* publishAndIndexPayload <- ipldPayload, a send that blocks on a full channel.
Push ==
  /\ pc = "push"
  /\ Len(pubChan) < PayloadChanBufferSize
  /\ pubChan' = Append(pubChan, cur)
  /\ pc' = "select"
  /\ UNCHANGED <<streamed, cur, screenChan, wk, task, quit, fate>>

\* case <-sap.QuitChan: return.
SyncQuit ==
  /\ pc = "select"
  /\ quit
  /\ pc' = "returned"
  /\ UNCHANGED <<streamed, cur, screenChan, pubChan, wk, task, quit, fate>>

Sync == Receive \/ ReceiveUnconvertible \/ Screen \/ Forward \/ Evict \/ Push
        \/ SyncQuit
-----------------------------------------------------------------------------
(* The publishAndIndex workers *)

\* Mutant: the worker reads the oldest payload and leaves it in the buffer.
WorkerPeek(w) ==
  /\ wk[w] = "select"
  /\ pubChan # <<>>
  /\ task' = [task EXCEPT ![w] = Head(pubChan)]
  /\ wk' = [wk EXCEPT ![w] = "publish"]
  /\ UNCHANGED <<streamed, pc, cur, screenChan, pubChan, quit, fate>>

\* case payload := <-publishAndIndexPayload.
WorkerReceive(w) ==
  /\ wk[w] = "select"
  /\ pubChan # <<>>
  /\ task' = [task EXCEPT ![w] = Head(pubChan)]
  /\ pubChan' = Tail(pubChan)
  /\ wk' = [wk EXCEPT ![w] = "publish"]
  /\ UNCHANGED <<streamed, pc, cur, screenChan, quit, fate>>

\* Mutant: a publishing error ends the worker (return in place of continue).
PublishReturns(w) ==
  /\ wk[w] = "publish"
  /\ \/ /\ wk' = [wk EXCEPT ![w] = "index"]
        /\ UNCHANGED fate
     \/ /\ wk' = [wk EXCEPT ![w] = "returned"]
        /\ fate' = [fate EXCEPT ![task[w]] = "unpublished"]
  /\ UNCHANGED <<streamed, pc, cur, screenChan, pubChan, task, quit>>

\* Publisher.Publish; an error is logged and the worker continues its loop.
Publish(w) ==
  /\ wk[w] = "publish"
  /\ \/ /\ wk' = [wk EXCEPT ![w] = "index"]
        /\ UNCHANGED fate
     \/ /\ wk' = [wk EXCEPT ![w] = "select"]
        /\ fate' = [fate EXCEPT ![task[w]] = "unpublished"]
  /\ UNCHANGED <<streamed, pc, cur, screenChan, pubChan, task, quit>>

\* Indexer.Index; an error is logged, either way the worker is free again.
Index(w) ==
  /\ wk[w] = "index"
  /\ wk' = [wk EXCEPT ![w] = "select"]
  /\ \E outcome \in {"indexed", "unindexed"} :
        fate' = [fate EXCEPT ![task[w]] = outcome]
  /\ UNCHANGED <<streamed, pc, cur, screenChan, pubChan, task, quit>>

\* Mutant: Stop sends one quit token instead of closing QuitChan.
WorkerQuitToken(w) ==
  /\ wk[w] = "select"
  /\ quit
  /\ quit' = FALSE
  /\ wk' = [wk EXCEPT ![w] = "returned"]
  /\ UNCHANGED <<streamed, pc, cur, screenChan, pubChan, task, fate>>

\* case <-sap.QuitChan: return, whatever is still buffered.
WorkerQuit(w) ==
  /\ wk[w] = "select"
  /\ quit
  /\ wk' = [wk EXCEPT ![w] = "returned"]
  /\ UNCHANGED <<streamed, pc, cur, screenChan, pubChan, task, quit, fate>>

publishAndIndex(w) == WorkerReceive(w) \/ Publish(w) \/ Index(w) \/ WorkerQuit(w)
-----------------------------------------------------------------------------
(* The environment *)

\* The Serve goroutine receives from screenAndServePayload.
ServeReceive ==
  /\ screenChan # <<>>
  /\ screenChan' = Tail(screenChan)
  /\ UNCHANGED <<streamed, pc, cur, pubChan, wk, task, quit, fate>>

\* Stop closes QuitChan; every goroutine in a select sees it from then on.
Stop ==
  /\ ~quit
  /\ quit' = TRUE
  /\ UNCHANGED <<streamed, pc, cur, screenChan, pubChan, wk, task, fate>>

Next ==
  \/ Sync
  \/ \E w \in Workers : publishAndIndex(w)
  \/ ServeReceive
  \/ Stop

Spec == Init /\ [][Next]_vars

(***************************************************************************)
(* Go runs every goroutine that can take a step, and a select with several *)
(* ready cases picks one at random, so a case that is ready again and      *)
(* again is picked in the end: strong fairness for the QuitChan cases.     *)
(* Nothing is assumed of the node (Receive), of Serve, or of the operator  *)
(* (Stop): a node that stops streaming, or whose subscription failed       *)
(* (sub.Err() is only logged), is a behaviour in which Receive stops.      *)
(***************************************************************************)
Fairness ==
  /\ WF_vars(Screen \/ Forward \/ Evict \/ Push)
  /\ SF_vars(SyncQuit)
  /\ \A w \in Workers :
       /\ WF_vars(WorkerReceive(w) \/ WorkerQuit(w))
       /\ WF_vars(Publish(w) \/ Index(w))
       /\ SF_vars(WorkerQuit(w))

FairSpec == Spec /\ Fairness
-----------------------------------------------------------------------------
(* Properties *)

TypeOK ==
  /\ streamed \in 0..MaxPayloads
  /\ pc \in SyncPC
  /\ cur \in 0..MaxPayloads
  /\ pc \notin {"select", "returned"} => cur \in Payload
  /\ screenChan \in Seq(Payload) /\ Len(screenChan) <= PayloadChanBufferSize
  /\ pubChan \in Seq(Payload) /\ Len(pubChan) <= PayloadChanBufferSize
  /\ wk \in [Workers -> WorkerPC]
  /\ task \in [Workers -> 0..MaxPayloads]
  /\ quit \in BOOLEAN
  /\ fate \in [Payload -> Fate]

Open(p)        == p <= streamed /\ fate[p] = "pending"
InHand(p)      == pc \in {"screen", "forward", "evict", "push"} /\ cur = p
Buffered(p)    == \E i \in 1..Len(pubChan) : pubChan[i] = p
AtWorker(w, p) == wk[w] \in {"publish", "index"} /\ task[w] = p

Placed(p) ==
  /\ Open(p) <=> InHand(p) \/ Buffered(p) \/ \E w \in Workers : AtWorker(w, p)
  /\ InHand(p) => ~Buffered(p)
  /\ \A w \in Workers : AtWorker(w, p) =>
       /\ ~InHand(p) /\ ~Buffered(p)
       /\ \A v \in Workers : AtWorker(v, p) => v = w

\* A payload that was read from the node and whose fate is still open is in
\* exactly one place: the Sync goroutine's hand, one slot of the ring buffer,
\* or one worker.  So Sync and the pool never publish a block twice and never
\* lose one except by a logged error or an eviction.
OnePlace == \A p \in Payload : Placed(p)

\* The ring buffer is first-in first-out and gives up its oldest entry:
\* whatever left it, to a worker or by eviction, is older than everything
\* still in it, and the payload in Sync's hand is newer than all of those.
OldestFirst ==
  /\ \A i, j \in 1..Len(pubChan) : i < j => pubChan[i] < pubChan[j]
  /\ \A i \in 1..Len(pubChan) :
       /\ \A p \in Payload : fate[p] = "evicted" => p < pubChan[i]
       /\ \A w \in Workers : task[w] < pubChan[i]
       /\ \A p \in Payload : InHand(p) => pubChan[i] < p

\* What the proofs of the two invariants above need besides them.
Bookkeeping ==
  /\ \A p \in Payload : InHand(p) => p = streamed
  /\ \A p \in Payload : fate[p] # "pending" => p <= streamed
  /\ \A w \in Workers : task[w] <= streamed
  /\ \A w \in Workers, p \in Payload : InHand(p) => task[w] < p

IInv == TypeOK /\ OnePlace /\ OldestFirst /\ Bookkeeping

\* Once Stop has closed QuitChan every publishAndIndex worker finishes the
\* payload it is on and returns (service.go:261-263), so that the WaitGroup of
\* cmd/superNode.go is released by the pool.
WorkersReturn == quit ~> \A w \in Workers : wk[w] = "returned"

\* A payload the ring buffer accepted is taken by a worker or evicted, unless
\* the service is stopped first.
BufferDrains ==
  \A p \in Payload : Buffered(p) ~> (~Buffered(p) \/ quit)

\* "this channel acts as a ring buffer" (service.go:224): a producer that finds
\* it full makes room and goes on.
RingBufferAccepts == pc = "evict" ~> pc = "select"
-----------------------------------------------------------------------------
(* What the ring buffer promises: a first-in first-out queue of the         *)
(* converted payloads, the one in Sync's hand at its end, that may drop its *)
(* oldest entry.                                                            *)

Queue == pubChan \o (IF \E p \in Payload : InHand(p) THEN <<cur>> ELSE <<>>)

LF == INSTANCE LossyFIFO WITH offered <- streamed, queue <- Queue,
                              Capacity <- PayloadChanBufferSize + 1

\* Sync and its workers implement the lossy queue.
ImplementsLossyFIFO == LF!Spec
=============================================================================
