------------------------ MODULE SuperNodeSyncProofs ------------------------
(***************************************************************************)
(* TLAPS proofs about SuperNodeSync, for every number of workers, every    *)
(* channel capacity and every length of the stream.  The inductive         *)
(* invariant is IInv: the two properties a reader cares about, OnePlace    *)
(* and OldestFirst, lean on each other and on Bookkeeping.  The second     *)
(* half is about how a node comes to be started: StartUp, for every        *)
(* environment.                                                            *)
(***************************************************************************)
EXTENDS SuperNodeSync, SequenceTheorems, StartUp, TLAPS

(* A sequence used as a Go channel *)

\* The empty channel is a channel of any element type and holds nothing.
LEMMA ChanEmpty == ASSUME NEW S
                   PROVE  <<>> \in Seq(S) /\ Len(<<>>) = 0
BY EmptySeq

\* A send puts the element behind all others and moves none of them.
LEMMA ChanSend ==
  ASSUME NEW S, NEW c \in Seq(S), NEW e \in S
  PROVE  /\ Append(c, e) \in Seq(S)
         /\ Len(c) \in Nat
         /\ Len(Append(c, e)) = Len(c) + 1
         /\ \A i \in 1..Len(c) : Append(c, e)[i] = c[i]
         /\ Append(c, e)[Len(c) + 1] = e
BY AppendProperties, LenProperties

\* A receive takes the front element and moves the others one slot forward.
LEMMA ChanRecv ==
  ASSUME NEW S, NEW c \in Seq(S), c # <<>>
  PROVE  /\ Len(c) \in Nat /\ Len(c) >= 1
         /\ Head(c) \in S /\ Head(c) = c[1]
         /\ Tail(c) \in Seq(S)
         /\ Len(Tail(c)) = Len(c) - 1
         /\ \A i \in 1..(Len(c) - 1) : Tail(c)[i] = c[i + 1]
BY HeadTailProperties, EmptySeq, LenProperties

\* Every slot of a channel holds an element of its type.
LEMMA ChanSlot ==
  ASSUME NEW S, NEW c \in Seq(S)
  PROVE  Len(c) \in Nat /\ \A i \in 1..Len(c) : c[i] \in S
BY LenProperties, ElementOfSeq
-----------------------------------------------------------------------------
USE SyncAssumption DEF SyncAssumption

\* The type invariant of Sync and its workers: in particular neither channel
\* ever holds more than PayloadChanBufferSize payloads.
THEOREM TypeCorrect == Spec => []TypeOK
<1>1. Init => TypeOK
  <2> SUFFICES ASSUME Init PROVE TypeOK
    OBVIOUS
  <2>1. pubChan \in Seq(Payload) /\ Len(pubChan) <= PayloadChanBufferSize
    BY ChanEmpty DEF Init
  <2>2. screenChan \in Seq(Payload) /\ Len(screenChan) <= PayloadChanBufferSize
    BY ChanEmpty DEF Init
  <2>3. /\ streamed \in 0..MaxPayloads /\ cur \in 0..MaxPayloads
        /\ pc \in SyncPC /\ (pc \notin {"select", "returned"} => cur \in Payload)
    BY DEF Init, SyncPC
  <2>4. /\ wk \in [Workers -> WorkerPC] /\ task \in [Workers -> 0..MaxPayloads]
        /\ fate \in [Payload -> Fate]
    BY DEF Init, WorkerPC, Fate
  <2>5. quit \in BOOLEAN
    BY DEF Init
  <2> QED BY <2>1, <2>2, <2>3, <2>4, <2>5 DEF TypeOK
<1>2. TypeOK /\ [Next]_vars => TypeOK'
  <2> SUFFICES ASSUME TypeOK, [Next]_vars PROVE TypeOK'
    OBVIOUS
  <2> USE DEF TypeOK, SyncPC, WorkerPC, Fate, Payload
  <2>1. CASE Receive BY <2>1 DEF Receive
  <2>2. CASE ReceiveUnconvertible BY <2>2 DEF ReceiveUnconvertible
  <2>3. CASE Screen
    <3>1. Append(screenChan, cur) \in Seq(Payload)
          /\ Len(Append(screenChan, cur)) = Len(screenChan) + 1
      BY <2>3, ChanSend DEF Screen
    <3>2. CASE Serving /\ Len(screenChan) < PayloadChanBufferSize
      BY <2>3, <3>1, <3>2, ChanSlot DEF Screen
    <3>3. CASE ~(Serving /\ Len(screenChan) < PayloadChanBufferSize)
      BY <2>3, <3>3 DEF Screen
    <3> QED BY <3>2, <3>3
  <2>4. CASE Forward
    <3>1. Append(pubChan, cur) \in Seq(Payload)
          /\ Len(Append(pubChan, cur)) = Len(pubChan) + 1
      BY <2>4, ChanSend DEF Forward
    <3>2. CASE Len(pubChan) < PayloadChanBufferSize
      <4>1. /\ pc' = "select" /\ pubChan' = Append(pubChan, cur)
            /\ UNCHANGED <<streamed, cur, screenChan, wk, task, quit, fate>>
        BY <2>4, <3>2 DEF Forward
      <4> QED BY <3>1, <3>2, <4>1, ChanSlot
    <3>3. CASE ~(Len(pubChan) < PayloadChanBufferSize)
      <4>1. /\ pc = "forward" /\ pc' = "evict"
            /\ UNCHANGED <<streamed, cur, screenChan, pubChan, wk, task, quit, fate>>
        BY <2>4, <3>3 DEF Forward
      <4> QED BY <4>1
    <3> QED BY <3>2, <3>3
  <2>5. CASE Evict BY <2>5, ChanRecv DEF Evict
  <2>6. CASE Push
    <3>1. Append(pubChan, cur) \in Seq(Payload)
          /\ Len(Append(pubChan, cur)) = Len(pubChan) + 1
      BY <2>6, ChanSend DEF Push
    <3> QED BY <2>6, <3>1, ChanSlot DEF Push
  <2>7. CASE SyncQuit BY <2>7 DEF SyncQuit
  <2>8. ASSUME NEW w \in Workers, WorkerReceive(w) PROVE TypeOK'
    BY <2>8, ChanRecv DEF WorkerReceive
  <2>9. ASSUME NEW w \in Workers, Publish(w) PROVE TypeOK'
    BY <2>9 DEF Publish
  <2>10. ASSUME NEW w \in Workers, Index(w) PROVE TypeOK'
    BY <2>10 DEF Index
  <2>11. ASSUME NEW w \in Workers, WorkerQuit(w) PROVE TypeOK'
    BY <2>11 DEF WorkerQuit
  <2>12. CASE ServeReceive BY <2>12, ChanRecv DEF ServeReceive
  <2>13. CASE Stop BY <2>13 DEF Stop
  <2>14. CASE UNCHANGED vars BY <2>14 DEF vars
  <2> QED
    BY <2>1, <2>2, <2>3, <2>4, <2>5, <2>6, <2>7, <2>8, <2>9, <2>10, <2>11,
       <2>12, <2>13, <2>14 DEF Next, Sync, publishAndIndex
<1> QED BY <1>1, <1>2, PTL DEF Spec

-----------------------------------------------------------------------------
(* How a send and a receive change the set of buffered payloads *)

\* Sync's send to the ring buffer (Forward, Push) adds the payload in hand to
\* what is buffered, and nothing else.
LEMMA BufferedSend ==
  ASSUME TypeOK, cur \in Payload, pubChan' = Append(pubChan, cur)
  PROVE  \A p \in Payload : Buffered(p)' <=> Buffered(p) \/ p = cur
<1>1. /\ Len(pubChan) \in Nat /\ Len(pubChan') = Len(pubChan) + 1
      /\ \A i \in 1..Len(pubChan) : pubChan'[i] = pubChan[i]
      /\ pubChan'[Len(pubChan) + 1] = cur
  BY ChanSend DEF TypeOK
<1> QED BY <1>1 DEF Buffered

\* A receive (WorkerReceive, Evict) removes the oldest payload from what is
\* buffered, and nothing else: no payload is buffered twice.
LEMMA BufferedRecv ==
  ASSUME TypeOK, OldestFirst, pubChan # <<>>, pubChan' = Tail(pubChan)
  PROVE  /\ Head(pubChan) \in Payload /\ Buffered(Head(pubChan))
         /\ \A p \in Payload : Buffered(p)' <=> Buffered(p) /\ p # Head(pubChan)
<1>1. /\ Len(pubChan) \in Nat /\ Len(pubChan) >= 1
      /\ Len(pubChan') = Len(pubChan) - 1
      /\ Head(pubChan) = pubChan[1] /\ Head(pubChan) \in Payload
      /\ \A i \in 1..(Len(pubChan) - 1) : pubChan'[i] = pubChan[i + 1]
  BY ChanRecv DEF TypeOK
<1>2. \A i \in 1..Len(pubChan) : pubChan[i] \in Nat
  BY ChanSlot DEF TypeOK, Payload
<1>3. \A i \in 2..Len(pubChan) : pubChan[1] < pubChan[i]
  BY <1>1 DEF OldestFirst
<1>4. ASSUME NEW p \in Payload, Buffered(p)'
      PROVE  Buffered(p) /\ p # Head(pubChan)
  <2>1. PICK i \in 1..Len(pubChan') : pubChan'[i] = p
    BY <1>4 DEF Buffered
  <2>2. i + 1 \in 2..Len(pubChan) /\ pubChan[i + 1] = p
    BY <1>1, <2>1
  <2> QED BY <1>1, <1>2, <1>3, <2>2 DEF Buffered, Payload
<1>5. ASSUME NEW p \in Payload, Buffered(p), p # Head(pubChan)
      PROVE  Buffered(p)'
  <2>1. PICK i \in 1..Len(pubChan) : pubChan[i] = p
    BY <1>5 DEF Buffered
  <2>2. i - 1 \in 1..Len(pubChan') /\ pubChan'[i - 1] = p
    BY <1>1, <1>5, <2>1
  <2> QED BY <2>2 DEF Buffered
<1> QED BY <1>1, <1>4, <1>5 DEF Buffered
-----------------------------------------------------------------------------
(* OnePlace is preserved, one step per action *)

\* Every step of Sync, of a worker and of the environment keeps each open payload
\* in exactly one place.
LEMMA StepOnePlace ==
  ASSUME IInv, TypeOK', [Next]_vars
  PROVE  OnePlace'
<1> USE DEF IInv
<1>1. CASE Receive
  <2> SUFFICES ASSUME NEW p \in Payload PROVE Placed(p)'
    BY DEF OnePlace
  <2>0. Placed(p)
    BY DEF OnePlace
  <2>1. /\ ~InHand(p)
        /\ InHand(p)' <=> p = streamed + 1
        /\ Open(p)' <=> Open(p) \/ p = streamed + 1
        /\ Open(p) => p # streamed + 1
    BY <1>1 DEF Receive, InHand, Open, Bookkeeping, TypeOK, Payload
  <2>2. Buffered(p)' <=> Buffered(p)
    BY <1>1 DEF Receive, Buffered
  <2>3. \A w \in Workers : AtWorker(w, p)' <=> AtWorker(w, p)
    BY <1>1 DEF Receive, AtWorker
  <2> QED BY <2>0, <2>1, <2>2, <2>3 DEF Placed
<1>2. CASE ReceiveUnconvertible
  <2> SUFFICES ASSUME NEW p \in Payload PROVE Placed(p)'
    BY DEF OnePlace
  <2>0. Placed(p)
    BY DEF OnePlace
  <2>1. /\ InHand(p)' <=> InHand(p)
        /\ Open(p)' <=> Open(p)
    BY <1>2 DEF ReceiveUnconvertible, InHand, Open, TypeOK, Payload
  <2>2. Buffered(p)' <=> Buffered(p)
    BY <1>2 DEF ReceiveUnconvertible, Buffered
  <2>3. \A w \in Workers : AtWorker(w, p)' <=> AtWorker(w, p)
    BY <1>2 DEF ReceiveUnconvertible, AtWorker
  <2> QED BY <2>0, <2>1, <2>2, <2>3 DEF Placed
<1>3. CASE Screen
  <2> SUFFICES ASSUME NEW p \in Payload PROVE Placed(p)'
    BY DEF OnePlace
  <2>0. Placed(p)
    BY DEF OnePlace
  <2>1. /\ InHand(p)' <=> InHand(p)
        /\ Open(p)' <=> Open(p)
    BY <1>3 DEF Screen, InHand, Open
  <2>2. Buffered(p)' <=> Buffered(p)
    BY <1>3 DEF Screen, Buffered
  <2>3. \A w \in Workers : AtWorker(w, p)' <=> AtWorker(w, p)
    BY <1>3 DEF Screen, AtWorker
  <2> QED BY <2>0, <2>1, <2>2, <2>3 DEF Placed
<1>4. CASE Forward
  <2> SUFFICES ASSUME NEW p \in Payload PROVE Placed(p)'
    BY DEF OnePlace
  <2>0. Placed(p)
    BY DEF OnePlace
  <2>1. CASE Len(pubChan) < PayloadChanBufferSize
    <3>1. pubChan' = Append(pubChan, cur) /\ pc = "forward" /\ pc' = "select"
      BY <1>4, <2>1 DEF Forward
    <3>2. cur \in Payload
      BY <3>1 DEF TypeOK
    <3>3. (InHand(p) <=> p = cur) /\ ~InHand(p)' /\ (Open(p)' <=> Open(p))
      BY <1>4, <3>1 DEF Forward, InHand, Open
    <3>4. Buffered(p)' <=> Buffered(p) \/ p = cur
      BY <3>1, <3>2, BufferedSend
    <3>5. \A w \in Workers : AtWorker(w, p)' <=> AtWorker(w, p)
      BY <1>4 DEF Forward, AtWorker
    <3> QED BY <2>0, <3>3, <3>4, <3>5 DEF Placed
  <2>2. CASE ~(Len(pubChan) < PayloadChanBufferSize)
    <3>1. pubChan' = pubChan /\ pc = "forward" /\ pc' = "evict"
      BY <1>4, <2>2 DEF Forward
    <3>2. /\ InHand(p)' <=> InHand(p)
          /\ Open(p)' <=> Open(p)
          /\ Buffered(p)' <=> Buffered(p)
          /\ \A w \in Workers : AtWorker(w, p)' <=> AtWorker(w, p)
      BY <1>4, <3>1 DEF Forward, InHand, Open, Buffered, AtWorker
    <3> QED BY <2>0, <3>2 DEF Placed
  <2> QED BY <2>1, <2>2
<1>5. CASE Evict
  <2> SUFFICES ASSUME NEW p \in Payload PROVE Placed(p)'
    BY DEF OnePlace
  <2>0. Placed(p)
    BY DEF OnePlace
  <2>1. /\ Head(pubChan) \in Payload /\ Buffered(Head(pubChan))
        /\ Buffered(p)' <=> Buffered(p) /\ p # Head(pubChan)
    BY <1>5, BufferedRecv DEF Evict
  <2>2. Placed(Head(pubChan))
    BY <2>1 DEF OnePlace
  <2>3. Open(p)' <=> Open(p) /\ p # Head(pubChan)
    BY <1>5, <2>1 DEF Evict, Open, TypeOK
  <2>4. /\ InHand(p)' <=> InHand(p)
        /\ \A w \in Workers : AtWorker(w, p)' <=> AtWorker(w, p)
    BY <1>5 DEF Evict, InHand, AtWorker
  <2> QED BY <2>0, <2>1, <2>2, <2>3, <2>4 DEF Placed
<1>6. CASE Push
  <2> SUFFICES ASSUME NEW p \in Payload PROVE Placed(p)'
    BY DEF OnePlace
  <2>0. Placed(p)
    BY DEF OnePlace
  <2>1. cur \in Payload
    BY <1>6 DEF Push, TypeOK
  <2>2. (InHand(p) <=> p = cur) /\ ~InHand(p)' /\ (Open(p)' <=> Open(p))
    BY <1>6 DEF Push, InHand, Open
  <2>3. Buffered(p)' <=> Buffered(p) \/ p = cur
    BY <1>6, <2>1, BufferedSend DEF Push
  <2>4. \A w \in Workers : AtWorker(w, p)' <=> AtWorker(w, p)
    BY <1>6 DEF Push, AtWorker
  <2> QED BY <2>0, <2>2, <2>3, <2>4 DEF Placed
<1>7. CASE SyncQuit
  <2> SUFFICES ASSUME NEW p \in Payload PROVE Placed(p)'
    BY DEF OnePlace
  <2>0. Placed(p)
    BY DEF OnePlace
  <2>1. /\ InHand(p)' <=> InHand(p)
        /\ Open(p)' <=> Open(p)
    BY <1>7 DEF SyncQuit, InHand, Open
  <2>2. Buffered(p)' <=> Buffered(p)
    BY <1>7 DEF SyncQuit, Buffered
  <2>3. \A w \in Workers : AtWorker(w, p)' <=> AtWorker(w, p)
    BY <1>7 DEF SyncQuit, AtWorker
  <2> QED BY <2>0, <2>1, <2>2, <2>3 DEF Placed
<1>8. ASSUME NEW u \in Workers, WorkerReceive(u) PROVE OnePlace'
  <2> SUFFICES ASSUME NEW p \in Payload PROVE Placed(p)'
    BY DEF OnePlace
  <2>0. Placed(p)
    BY DEF OnePlace
  <2>1. /\ Head(pubChan) \in Payload /\ Buffered(Head(pubChan))
        /\ Buffered(p)' <=> Buffered(p) /\ p # Head(pubChan)
    BY <1>8, BufferedRecv DEF WorkerReceive
  <2>2. Placed(Head(pubChan))
    BY <2>1 DEF OnePlace
  <2>3. (InHand(p)' <=> InHand(p)) /\ (Open(p)' <=> Open(p))
    BY <1>8 DEF WorkerReceive, InHand, Open
  <2>4. ~AtWorker(u, p) /\ (AtWorker(u, p)' <=> p = Head(pubChan))
    BY <1>8 DEF WorkerReceive, AtWorker, TypeOK
  <2>5. \A w \in Workers \ {u} : AtWorker(w, p)' <=> AtWorker(w, p)
    BY <1>8 DEF WorkerReceive, AtWorker, TypeOK
  <2> QED BY <2>0, <2>1, <2>2, <2>3, <2>4, <2>5 DEF Placed
<1>9. ASSUME NEW u \in Workers, Publish(u) PROVE OnePlace'
  <2> SUFFICES ASSUME NEW p \in Payload PROVE Placed(p)'
    BY DEF OnePlace
  <2>0. Placed(p)
    BY DEF OnePlace
  <2>1. CASE wk'[u] = "index"
    <3>1. /\ InHand(p)' <=> InHand(p)
          /\ Buffered(p)' <=> Buffered(p)
      BY <1>9 DEF Publish, InHand, Buffered
    <3>2. \A w \in Workers : AtWorker(w, p)' <=> AtWorker(w, p)
      BY <1>9, <2>1 DEF Publish, AtWorker, TypeOK
    <3>3. Open(p)' <=> Open(p)
      BY <1>9, <2>1 DEF Publish, Open, TypeOK
    <3> QED BY <2>0, <3>1, <3>2, <3>3 DEF Placed
  <2>2. CASE wk'[u] # "index"
    <3>1. /\ wk' = [wk EXCEPT ![u] = "select"]
          /\ fate' = [fate EXCEPT ![task[u]] = "unpublished"]
      BY <1>9, <2>2 DEF Publish, TypeOK
    <3>2. (InHand(p)' <=> InHand(p)) /\ (Buffered(p)' <=> Buffered(p))
      BY <1>9 DEF Publish, InHand, Buffered
    <3>3. (AtWorker(u, p) <=> p = task[u]) /\ ~AtWorker(u, p)'
      BY <1>9, <3>1 DEF Publish, AtWorker, TypeOK
    <3>4. \A w \in Workers \ {u} : AtWorker(w, p)' <=> AtWorker(w, p)
      BY <1>9, <3>1 DEF Publish, AtWorker, TypeOK
    <3>5. Open(p)' <=> Open(p) /\ p # task[u]
      BY <1>9, <3>1 DEF Publish, Open, TypeOK
    <3> QED BY <2>0, <3>2, <3>3, <3>4, <3>5 DEF Placed
  <2> QED BY <2>1, <2>2
<1>10. ASSUME NEW u \in Workers, Index(u) PROVE OnePlace'
  <2> SUFFICES ASSUME NEW p \in Payload PROVE Placed(p)'
    BY DEF OnePlace
  <2>0. Placed(p)
    BY DEF OnePlace
  <2>1. PICK outcome \in {"indexed", "unindexed"} :
            fate' = [fate EXCEPT ![task[u]] = outcome]
    BY <1>10 DEF Index
  <2>2. (InHand(p)' <=> InHand(p)) /\ (Buffered(p)' <=> Buffered(p))
    BY <1>10 DEF Index, InHand, Buffered
  <2>3. (AtWorker(u, p) <=> p = task[u]) /\ ~AtWorker(u, p)'
    BY <1>10 DEF Index, AtWorker, TypeOK
  <2>4. \A w \in Workers \ {u} : AtWorker(w, p)' <=> AtWorker(w, p)
    BY <1>10 DEF Index, AtWorker, TypeOK
  <2>5. Open(p)' <=> Open(p) /\ p # task[u]
    BY <1>10, <2>1 DEF Index, Open, TypeOK
  <2> QED BY <2>0, <2>2, <2>3, <2>4, <2>5 DEF Placed
<1>11. ASSUME NEW u \in Workers, WorkerQuit(u) PROVE OnePlace'
  <2> SUFFICES ASSUME NEW p \in Payload PROVE Placed(p)'
    BY DEF OnePlace
  <2>0. Placed(p)
    BY DEF OnePlace
  <2>1. /\ InHand(p)' <=> InHand(p)
        /\ Open(p)' <=> Open(p)
        /\ Buffered(p)' <=> Buffered(p)
    BY <1>11 DEF WorkerQuit, InHand, Open, Buffered
  <2>2. \A w \in Workers : AtWorker(w, p)' <=> AtWorker(w, p)
    BY <1>11 DEF WorkerQuit, AtWorker, TypeOK
  <2> QED BY <2>0, <2>1, <2>2 DEF Placed
<1>12. CASE ServeReceive \/ Stop \/ UNCHANGED vars
  BY <1>12 DEF ServeReceive, Stop, vars, OnePlace, Placed, Open, InHand, Buffered,
               AtWorker
<1> QED
  BY <1>1, <1>2, <1>3, <1>4, <1>5, <1>6, <1>7, <1>8, <1>9, <1>10, <1>11, <1>12
     DEF Next, Sync, publishAndIndex
-----------------------------------------------------------------------------
(* OldestFirst is preserved *)

\* What a buffered payload is: one the node streamed, whose fate is open.
LEMMA BufferedIsOpen ==
  ASSUME IInv, NEW i \in 1..Len(pubChan)
  PROVE  /\ pubChan[i] \in Payload /\ pubChan[i] <= streamed
         /\ fate[pubChan[i]] = "pending"
<1>1. pubChan[i] \in Payload
  BY ChanSlot DEF IInv, TypeOK
<1>2. Buffered(pubChan[i])
  BY DEF Buffered
<1> QED BY <1>1, <1>2 DEF IInv, OnePlace, Placed, Open

\* A send keeps the ring buffer in order: the payload in hand is the newest.
LEMMA SendOldestFirst ==
  ASSUME IInv, InHand(cur), cur \in Payload, pubChan' = Append(pubChan, cur),
         task' = task, fate' = fate, pc' = "select"
  PROVE  OldestFirst'
<1>1. /\ Len(pubChan) \in Nat /\ Len(pubChan') = Len(pubChan) + 1
      /\ \A i \in 1..Len(pubChan) : pubChan'[i] = pubChan[i]
      /\ pubChan'[Len(pubChan) + 1] = cur
  BY ChanSend DEF IInv, TypeOK
<1>2. \A i \in 1..Len(pubChan) : pubChan[i] \in Nat /\ pubChan[i] < cur
  BY BufferedIsOpen DEF IInv, OldestFirst, Payload
<1>3. \A p \in Payload : fate[p] = "evicted" => p < cur
  BY DEF IInv, OnePlace, Placed, Open, Bookkeeping, TypeOK, Payload
<1>4. \A w \in Workers : task[w] < cur
  BY DEF IInv, Bookkeeping
<1>5. \A p \in Payload : ~InHand(p)'
  BY DEF InHand
<1>6. \A i, j \in 1..Len(pubChan') : i < j => pubChan'[i] < pubChan'[j]
  BY <1>1, <1>2 DEF IInv, OldestFirst
<1>7. \A i \in 1..Len(pubChan') :
        /\ \A p \in Payload : fate'[p] = "evicted" => p < pubChan'[i]
        /\ \A w \in Workers : task'[w] < pubChan'[i]
  BY <1>1, <1>3, <1>4 DEF IInv, OldestFirst
<1> QED BY <1>5, <1>6, <1>7 DEF OldestFirst

\* A receive keeps the ring buffer in order: what leaves it is older than all
\* that stays.
LEMMA RecvOldestFirst ==
  ASSUME IInv, pubChan # <<>>, pubChan' = Tail(pubChan),
         \A p \in Payload : InHand(p)' => InHand(p),
         \A p \in Payload : fate'[p] = "evicted" =>
                               fate[p] = "evicted" \/ p = Head(pubChan),
         \A w \in Workers : task'[w] = task[w] \/ task'[w] = Head(pubChan)
  PROVE  OldestFirst'
<1>1. /\ Len(pubChan) \in Nat /\ Len(pubChan) >= 1
      /\ Len(pubChan') = Len(pubChan) - 1
      /\ Head(pubChan) = pubChan[1]
      /\ \A i \in 1..(Len(pubChan) - 1) : pubChan'[i] = pubChan[i + 1]
  BY ChanRecv DEF IInv, TypeOK
<1>2. \A i \in 1..Len(pubChan') :
        i + 1 \in 1..Len(pubChan) /\ pubChan'[i] = pubChan[i + 1]
  BY <1>1
<1>3. \A i \in 1..Len(pubChan') : Head(pubChan) < pubChan'[i]
  BY <1>1, <1>2 DEF IInv, OldestFirst
<1>4. \A i, j \in 1..Len(pubChan') : i < j => pubChan'[i] < pubChan'[j]
  BY <1>1, <1>2 DEF IInv, OldestFirst
<1>5. \A i \in 1..Len(pubChan') :
        /\ \A p \in Payload : fate'[p] = "evicted" => p < pubChan'[i]
        /\ \A w \in Workers : task'[w] < pubChan'[i]
        /\ \A p \in Payload : InHand(p)' => pubChan'[i] < p
  BY <1>2, <1>3 DEF IInv, OldestFirst
<1> QED BY <1>4, <1>5 DEF OldestFirst

\* Every step keeps the ring buffer first-in first-out.
LEMMA StepOldestFirst ==
  ASSUME IInv, TypeOK', [Next]_vars
  PROVE  OldestFirst'
<1> USE DEF IInv
<1>1. CASE Receive
  <2>1. \A i \in 1..Len(pubChan) : pubChan[i] \in Payload /\ pubChan[i] <= streamed
    BY BufferedIsOpen
  <2>2. \A p \in Payload : InHand(p)' => p = streamed + 1
    BY <1>1 DEF Receive, InHand
  <2>3. \A i \in 1..Len(pubChan), p \in Payload : InHand(p)' => pubChan[i] < p
    BY <2>1, <2>2 DEF TypeOK, Payload
  <2>4. pubChan' = pubChan /\ task' = task /\ fate' = fate
    BY <1>1 DEF Receive
  <2> QED BY <2>3, <2>4 DEF OldestFirst
<1>2. CASE ReceiveUnconvertible
  BY <1>2 DEF ReceiveUnconvertible, OldestFirst, InHand, TypeOK
<1>3. CASE Screen
  BY <1>3 DEF Screen, OldestFirst, InHand
<1>4. CASE Forward
  <2>1. CASE Len(pubChan) < PayloadChanBufferSize
    BY <1>4, <2>1, SendOldestFirst DEF Forward, InHand, TypeOK
  <2>2. CASE ~(Len(pubChan) < PayloadChanBufferSize)
    BY <1>4, <2>2 DEF Forward, OldestFirst, InHand
  <2> QED BY <2>1, <2>2
<1>5. CASE Evict
  <2>1. \A p \in Payload : InHand(p)' => InHand(p)
    BY <1>5 DEF Evict, InHand
  <2>2. \A p \in Payload : fate'[p] = "evicted" =>
                              fate[p] = "evicted" \/ p = Head(pubChan)
    BY <1>5 DEF Evict, TypeOK
  <2> QED BY <1>5, <2>1, <2>2, RecvOldestFirst DEF Evict
<1>6. CASE Push
  BY <1>6, SendOldestFirst DEF Push, InHand, TypeOK
<1>7. CASE SyncQuit
  BY <1>7 DEF SyncQuit, OldestFirst, InHand
<1>8. ASSUME NEW u \in Workers, WorkerReceive(u) PROVE OldestFirst'
  <2>1. \A p \in Payload : InHand(p)' => InHand(p)
    BY <1>8 DEF WorkerReceive, InHand
  <2>2. \A w \in Workers : task'[w] = task[w] \/ task'[w] = Head(pubChan)
    BY <1>8 DEF WorkerReceive, TypeOK
  <2> QED BY <1>8, <2>1, <2>2, RecvOldestFirst DEF WorkerReceive
<1>9. ASSUME NEW u \in Workers, Publish(u) PROVE OldestFirst'
  BY <1>9 DEF Publish, OldestFirst, InHand, TypeOK
<1>10. ASSUME NEW u \in Workers, Index(u) PROVE OldestFirst'
  BY <1>10 DEF Index, OldestFirst, InHand, TypeOK
<1>11. ASSUME NEW u \in Workers, WorkerQuit(u) PROVE OldestFirst'
  BY <1>11 DEF WorkerQuit, OldestFirst, InHand
<1>12. CASE ServeReceive \/ Stop \/ UNCHANGED vars
  BY <1>12 DEF ServeReceive, Stop, vars, OldestFirst, InHand
<1> QED
  BY <1>1, <1>2, <1>3, <1>4, <1>5, <1>6, <1>7, <1>8, <1>9, <1>10, <1>11, <1>12
     DEF Next, Sync, publishAndIndex
-----------------------------------------------------------------------------
(* Bookkeeping is preserved *)

\* Every step keeps what the two invariants need besides each other: the payload
\* in hand is the one streamed last.
LEMMA StepBookkeeping ==
  ASSUME IInv, TypeOK', [Next]_vars
  PROVE  Bookkeeping'
<1> USE DEF IInv
<1>1. CASE Receive
  BY <1>1 DEF Receive, Bookkeeping, InHand, TypeOK, Payload
<1>2. CASE ReceiveUnconvertible
  BY <1>2 DEF ReceiveUnconvertible, Bookkeeping, InHand, TypeOK, Payload
<1>3. CASE Screen
  BY <1>3 DEF Screen, Bookkeeping, InHand
<1>4. CASE Forward
  BY <1>4 DEF Forward, Bookkeeping, InHand
<1>5. CASE Evict
  <2>1. Head(pubChan) = pubChan[1] /\ 1 \in 1..Len(pubChan)
    BY <1>5, ChanRecv DEF Evict, TypeOK
  <2>2. Head(pubChan) <= streamed
    BY <2>1, BufferedIsOpen
  <2> QED BY <1>5, <2>2 DEF Evict, Bookkeeping, InHand, TypeOK
<1>6. CASE Push
  BY <1>6 DEF Push, Bookkeeping, InHand
<1>7. CASE SyncQuit
  BY <1>7 DEF SyncQuit, Bookkeeping, InHand
<1>8. ASSUME NEW u \in Workers, WorkerReceive(u) PROVE Bookkeeping'
  <2>1. Head(pubChan) = pubChan[1] /\ 1 \in 1..Len(pubChan)
    BY <1>8, ChanRecv DEF WorkerReceive, TypeOK
  <2>2. Head(pubChan) <= streamed
    BY <2>1, BufferedIsOpen
  <2>3. \A p \in Payload : InHand(p) => Head(pubChan) < p
    BY <2>1 DEF OldestFirst
  <2> QED BY <1>8, <2>2, <2>3 DEF WorkerReceive, Bookkeeping, InHand, TypeOK
<1>9. ASSUME NEW u \in Workers, Publish(u) PROVE Bookkeeping'
  BY <1>9 DEF Publish, Bookkeeping, InHand, TypeOK
<1>10. ASSUME NEW u \in Workers, Index(u) PROVE Bookkeeping'
  BY <1>10 DEF Index, Bookkeeping, InHand, TypeOK
<1>11. ASSUME NEW u \in Workers, WorkerQuit(u) PROVE Bookkeeping'
  BY <1>11 DEF WorkerQuit, Bookkeeping, InHand
<1>12. CASE ServeReceive \/ Stop \/ UNCHANGED vars
  BY <1>12 DEF ServeReceive, Stop, vars, Bookkeeping, InHand
<1> QED
  BY <1>1, <1>2, <1>3, <1>4, <1>5, <1>6, <1>7, <1>8, <1>9, <1>10, <1>11, <1>12
     DEF Next, Sync, publishAndIndex

\* The inductive invariant holds in every state of the specification.
LEMMA InvInductive == Spec => []IInv
<1>1. Init /\ TypeOK => IInv
  <2> SUFFICES ASSUME Init, TypeOK PROVE OnePlace /\ OldestFirst /\ Bookkeeping
    BY DEF IInv
  <2>1. /\ Len(pubChan) = 0 /\ streamed = 0
        /\ \A p \in Payload : ~InHand(p) /\ ~Open(p)
    BY ChanEmpty DEF Init, InHand, Open, Payload
  <2>2. \A p \in Payload : ~Buffered(p) /\ \A w \in Workers : ~AtWorker(w, p)
    BY <2>1 DEF Init, Buffered, AtWorker
  <2>3. OnePlace
    BY <2>1, <2>2 DEF OnePlace, Placed
  <2>4. OldestFirst
    BY <2>1 DEF OldestFirst
  <2>5. Bookkeeping
    BY <2>1 DEF Init, Bookkeeping
  <2> QED BY <2>3, <2>4, <2>5
<1>2. IInv /\ TypeOK' /\ [Next]_vars => IInv'
  BY StepOnePlace, StepOldestFirst, StepBookkeeping DEF IInv
<1> QED BY <1>1, <1>2, TypeCorrect, PTL DEF Spec

\* No payload is published twice, or lost without a logged error or an
\* eviction, whatever the number of workers, the capacity and the stream.
THEOREM OnePlaceAlways == Spec => []OnePlace
<1>1. IInv => OnePlace
  BY DEF IInv
<1> QED BY <1>1, InvInductive, PTL

\* The ring buffer is first-in first-out and only ever gives up its oldest
\* entry, whatever the interleaving of Sync's evictions with the workers.
THEOREM OldestFirstAlways == Spec => []OldestFirst
<1>1. IInv => OldestFirst
  BY DEF IInv
<1> QED BY <1>1, InvInductive, PTL
-----------------------------------------------------------------------------
(* Refinement: Sync and its workers implement LossyFIFO *)

\* The queue of the mapping while Sync has a payload in hand.
LEMMA QueueInHand ==
  TypeOK /\ pc \notin {"select", "returned"} => Queue = Append(pubChan, cur)
<1> SUFFICES ASSUME TypeOK, pc \notin {"select", "returned"}
             PROVE  Queue = Append(pubChan, cur)
  OBVIOUS
<1>1. cur \in Payload /\ InHand(cur)
  BY DEF TypeOK, SyncPC, InHand
<1>2. Queue = pubChan \o <<cur>>
  BY <1>1 DEF Queue
<1>3. pubChan \o <<cur>> = Append(pubChan, cur)
  BY <1>1, AppendIsConcat DEF TypeOK
<1> QED BY <1>2, <1>3

\* The queue of the mapping while Sync waits in its select, or has returned.
LEMMA QueueNotInHand ==
  TypeOK /\ pc \in {"select", "returned"} => Queue = pubChan
<1> SUFFICES ASSUME TypeOK, pc \in {"select", "returned"}
             PROVE  Queue = pubChan
  OBVIOUS
<1>1. \A p \in Payload : ~InHand(p)
  BY DEF InHand
<1>2. Queue = pubChan \o <<>>
  BY <1>1 DEF Queue
<1> QED BY <1>2, ConcatEmptySeq DEF TypeOK

\* A receive from the buffer is a receive from the queue of the mapping.
LEMMA TailOfQueue ==
  ASSUME TypeOK, TypeOK', pubChan # <<>>, pubChan' = Tail(pubChan), cur' = cur,
         pc \notin {"select", "returned"} <=> pc' \notin {"select", "returned"}
  PROVE  Queue # <<>> /\ Queue' = Tail(Queue)
<1>1. (TypeOK /\ pc \notin {"select", "returned"} => Queue = Append(pubChan, cur))'
  BY QueueInHand, PTL
<1>2. (TypeOK /\ pc \in {"select", "returned"} => Queue = pubChan)'
  BY QueueNotInHand, PTL
<1>3. CASE pc \notin {"select", "returned"}
  <2>1. Queue = Append(pubChan, cur) /\ Queue' = Append(Tail(pubChan), cur)
    BY <1>1, <1>3, QueueInHand
  <2>2. cur \in Payload /\ pubChan \in Seq(Payload)
    BY <1>3 DEF TypeOK
  <2>3. /\ Append(pubChan, cur) # <<>>
        /\ Tail(Append(pubChan, cur)) = Append(Tail(pubChan), cur)
    BY <2>2, HeadTailAppend, AppendProperties
  <2> QED BY <2>1, <2>3
<1>4. CASE pc \in {"select", "returned"}
  BY <1>2, <1>4, QueueNotInHand
<1> QED BY <1>3, <1>4

\* Sync and its pool of workers implement the lossy first-in first-out queue:
\* a payload is accepted or refused when it is converted, leaves the queue only
\* at its old end, and the newest payload is never dropped.
THEOREM Refinement == Spec => ImplementsLossyFIFO
<1>1. Init /\ TypeOK => LF!Init
  <2> SUFFICES ASSUME Init, TypeOK PROVE LF!Init
    OBVIOUS
  <2>1. Queue = pubChan
    BY QueueNotInHand DEF Init
  <2> QED BY <2>1 DEF Init, LF!Init
<1>2. TypeOK /\ TypeOK' /\ [Next]_vars => [LF!Next]_<<streamed, Queue>>
  <2> SUFFICES ASSUME TypeOK, TypeOK', [Next]_vars
               PROVE  [LF!Next]_<<streamed, Queue>>
    OBVIOUS
  <2>1. (TypeOK /\ pc \notin {"select", "returned"} => Queue = Append(pubChan, cur))'
    BY QueueInHand, PTL
  <2>2. (TypeOK /\ pc \in {"select", "returned"} => Queue = pubChan)'
    BY QueueNotInHand, PTL
  <2>3. CASE Receive
    <3>1. Queue = pubChan /\ Queue' = Append(pubChan, streamed + 1)
      BY <2>1, <2>3, QueueNotInHand DEF Receive
    <3>2. Len(pubChan) \in Nat /\ Len(pubChan) <= PayloadChanBufferSize
      BY ChanSlot DEF TypeOK
    <3>3. LF!Offer
      BY <2>3, <3>1, <3>2 DEF LF!Offer, Receive
    <3> QED BY <3>3 DEF LF!Next
  <2>4. CASE ReceiveUnconvertible
    <3>1. Queue' = Queue
      BY <2>2, <2>4, QueueNotInHand DEF ReceiveUnconvertible
    <3> QED BY <2>4, <3>1 DEF LF!Next, LF!Refuse, ReceiveUnconvertible
  <2>5. CASE Screen
    BY <2>1, <2>5, QueueInHand DEF Screen
  <2>6. CASE Forward
    <3>1. CASE Len(pubChan) < PayloadChanBufferSize
      BY <2>2, <2>6, <3>1, QueueInHand DEF Forward
    <3>2. CASE ~(Len(pubChan) < PayloadChanBufferSize)
      BY <2>1, <2>6, <3>2, QueueInHand DEF Forward
    <3> QED BY <3>1, <3>2
  <2>7. CASE Evict
    <3>1. Queue' = Tail(Queue)
      BY <2>7, TailOfQueue DEF Evict
    <3>2. Len(Queue) > 1
      <4>1. Queue = Append(pubChan, cur) /\ cur \in Payload
        BY <2>7, QueueInHand DEF Evict, TypeOK
      <4>2. Len(Append(pubChan, cur)) = Len(pubChan) + 1
        BY <4>1, ChanSend DEF TypeOK
      <4>3. Len(pubChan) \in Nat /\ Len(pubChan) >= 1
        BY <2>7, ChanRecv DEF Evict, TypeOK
      <4> QED BY <4>1, <4>2, <4>3
    <3> QED BY <2>7, <3>1, <3>2 DEF LF!Next, LF!Drop, Evict
  <2>8. CASE Push
    BY <2>2, <2>8, QueueInHand DEF Push
  <2>9. CASE SyncQuit
    BY <2>2, <2>9, QueueNotInHand DEF SyncQuit
  <2>10. ASSUME NEW w \in Workers, WorkerReceive(w)
         PROVE  [LF!Next]_<<streamed, Queue>>
    <3>1. Queue # <<>> /\ Queue' = Tail(Queue)
      BY <2>10, TailOfQueue DEF WorkerReceive
    <3> QED BY <2>10, <3>1 DEF LF!Next, LF!Take, WorkerReceive
  <2>11. ASSUME UNCHANGED <<streamed, pc, cur, pubChan>>
         PROVE  [LF!Next]_<<streamed, Queue>>
    BY <2>11 DEF Queue, InHand
  <2> QED
    BY <2>3, <2>4, <2>5, <2>6, <2>7, <2>8, <2>9, <2>10, <2>11
       DEF Next, Sync, publishAndIndex, Publish, Index, WorkerQuit, ServeReceive,
           Stop, vars
<1> QED BY <1>1, <1>2, TypeCorrect, PTL DEF Spec, ImplementsLossyFIFO, LF!Spec
-----------------------------------------------------------------------------
(* What the commands superNode and resync start *)

\* Max picks the greater one of two numbers.
LEMMA MaxOfTwo ==
  ASSUME NEW m \in Int, NEW n \in Int, NEW S, S = {m, n}
  PROVE  Max(S) \in Int /\ Max(S) >= m /\ Max(S) >= n
<1>1. \E x \in S : \A y \in S : x >= y
  <2>1. CASE m >= n
    BY <2>1
  <2>2. CASE ~(m >= n)
    BY <2>2
  <2> QED
    BY <2>1, <2>2
<1>2. Max(S) \in S /\ \A y \in S : Max(S) >= y
  BY <1>1 DEF Max
<1> QED
  BY <1>2

\* A negative number of batches is the only one without a worker.
LEMMA FillWorkers ==
  ASSUME NEW n \in Int PROVE BackFillWorkers(n) > 0 \/ n < 0
<1>1. PICK S : S = {0, n}
  OBVIOUS
<1>2. PICK m \in Int : m = 0
  OBVIOUS
<1>3. Max(S) \in Int /\ Max(S) >= n
  BY <1>1, <1>2, MaxOfTwo
<1> QED
  BY <1>1, <1>3 DEF BackFillWorkers, DefaultMaxBatchNumber

\* Parts that are all there, of the chain's package, and a publisher and an
\* indexer that fit.
Own(parts, chain) == \A p \in DOMAIN parts \ {"Indexer"} : parts[p][1] = Pkg(chain)

\* A constructor whose error is not nil ends the command.
LEMMA CheckedParts ==
  ASSUME NEW parts, Checked(parts) # Failed
  PROVE  Checked(parts) = parts /\ \A p \in DOMAIN parts : parts[p] # Invalid
  BY DEF Checked, Range

\* What a constructor gives, if it gives no error.
LEMMA PartFacts ==
  ASSUME NEW chain, NEW mode, NEW env, NEW client, NEW type
  PROVE  /\ NewPart(chain, type) # Invalid => Known(chain) /\ NewPart(chain, type)[1] = Pkg(chain)
         /\ NewPayloadStreamer(chain, client) # Invalid =>
              Known(chain) /\ NewPayloadStreamer(chain, client)[1] = Pkg(chain)
         /\ NewPaylaodFetcher(chain, client) # Invalid =>
              Known(chain) /\ NewPaylaodFetcher(chain, client)[1] = Pkg(chain)
         /\ NewIPLDPublisher(chain, mode, env) # Invalid =>
              Known(chain) /\ NewIPLDPublisher(chain, mode, env)[1] = Pkg(chain)
         /\ NewIPLDFetcher(chain, mode, env) # Invalid =>
              Known(chain) /\ NewIPLDFetcher(chain, mode, env)[1] = Pkg(chain)
  BY DEF NewPart, NewPayloadStreamer, NewPaylaodFetcher, NewIPLDPublisher, NewIPLDFetcher

\* In Postgres mode both write the index while publishing, in local mode neither.
LEMMA PairFits ==
  ASSUME NEW chain, NEW mode, NEW env,
         NewIPLDPublisher(chain, mode, env) # Invalid, NewCIDIndexer(chain, mode) # Invalid
  PROVE  (NewIPLDPublisher(chain, mode, env)[2] = "IPLDPublisherAndIndexer")
           <=> (NewCIDIndexer(chain, mode)[2] = "IPLDPublisherAndIndexer")
  BY DEF NewIPLDPublisher, NewCIDIndexer

\* The parts for syncing.
LEMMA SyncPartsOwn ==
  ASSUME NEW c, \A p \in DOMAIN SyncParts(c) : SyncParts(c)[p] # Invalid
  PROVE  /\ DOMAIN SyncParts(c) = {"Streamer", "Converter", "Publisher", "Indexer", "Filterer"}
         /\ Own(SyncParts(c), c.chain) /\ IndexedOnce(SyncParts(c)) /\ Known(c.chain)
  BY PartFacts, PairFits
     DEF SyncParts, Own, IndexedOnce, NewResponseFilterer, NewPayloadConverter

\* The parts for serving.
LEMMA ServePartsOwn ==
  ASSUME NEW c, \A p \in DOMAIN ServeParts(c) : ServeParts(c)[p] # Invalid
  PROVE  /\ DOMAIN ServeParts(c) = {"Retriever", "IPLDFetcher"}
         /\ Own(ServeParts(c), c.chain) /\ Known(c.chain)
  BY PartFacts DEF ServeParts, Own, NewCIDRetriever

\* The parts of the backfill service.
LEMMA FillerOwn ==
  ASSUME NEW c, NEW B, B = NewBackFillService(c), B # Failed
  PROVE  Pipeline \subseteq DOMAIN B /\ Own(B, c.chain) /\ IndexedOnce(B)
<1> DEFINE parts == [Publisher |-> NewIPLDPublisher(c.chain, c.mode, c),
                     Indexer   |-> NewCIDIndexer(c.chain, c.mode),
                     Converter |-> NewPayloadConverter(c.chain),
                     Retriever |-> NewCIDRetriever(c.chain),
                     Fetcher   |-> NewPaylaodFetcher(c.chain, c.httpClient)]
<1>1. B = Checked(parts)
  BY DEF NewBackFillService
<1> HIDE DEF parts
<1>2. B = parts /\ \A p \in DOMAIN parts : parts[p] # Invalid
  BY <1>1, CheckedParts
<1> QED
  BY <1>2, PartFacts, PairFits
     DEF parts, Own, IndexedOnce, NewPayloadConverter, NewCIDRetriever, Pipeline

\* The parts of a node that starts.
LEMMA NodeOwn ==
  ASSUME NEW c, c.sync \in BOOLEAN, c.serve \in BOOLEAN, NEW N, N = NewSuperNode(c), N # Failed
  PROVE  /\ Own(N, c.chain)
         /\ c.sync => /\ {"Streamer", "Converter", "Publisher", "Indexer", "Filterer"} \subseteq DOMAIN N
                      /\ IndexedOnce(N)
         /\ c.serve => {"Retriever", "IPLDFetcher"} \subseteq DOMAIN N /\ Known(c.chain)
<1> DEFINE f == IF c.sync THEN SyncParts(c) ELSE <<>>
           g == IF c.serve THEN ServeParts(c) ELSE <<>>
<1>1. N = Checked(Joined(f, g))
  BY DEF NewSuperNode
<1> HIDE DEF f, g
<1>2. N = Joined(f, g) /\ \A p \in DOMAIN N : N[p] # Invalid
  BY <1>1, CheckedParts
<1>3. /\ DOMAIN N = DOMAIN f \cup DOMAIN g
      /\ \A p \in DOMAIN f : N[p] = f[p]
      /\ \A p \in DOMAIN g : p \in DOMAIN f \/ N[p] = g[p]
  BY <1>2 DEF Joined
<1>4. /\ c.sync => /\ DOMAIN f = {"Streamer", "Converter", "Publisher", "Indexer", "Filterer"}
                   /\ Own(f, c.chain) /\ IndexedOnce(f)
      /\ ~c.sync => DOMAIN f = {}
  <2>1. CASE c.sync
    <3>1. f = SyncParts(c)
      BY <2>1 DEF f
    <3> QED
      BY <1>2, <1>3, <2>1, <3>1, SyncPartsOwn
  <2>2. CASE ~c.sync
    BY <2>2 DEF f
  <2> QED
    BY <2>1, <2>2
<1>5. /\ c.serve => DOMAIN g = {"Retriever", "IPLDFetcher"} /\ Own(g, c.chain) /\ Known(c.chain)
      /\ ~c.serve => DOMAIN g = {}
  <2>1. CASE c.serve
    <3>1. g = ServeParts(c)
      BY <2>1 DEF g
    <3>2. DOMAIN g = {"Retriever", "IPLDFetcher"}
      BY <3>1 DEF ServeParts
    <3>3. \A p \in DOMAIN g : p \notin DOMAIN f
      BY <1>4, <3>2
    <3> QED
      BY <1>2, <1>3, <2>1, <3>1, <3>3, ServePartsOwn
  <2>2. CASE ~c.serve
    BY <2>2 DEF g
  <2> QED
    BY <2>1, <2>2
<1>6. Own(N, c.chain)
  BY <1>3, <1>4, <1>5 DEF Own
<1>7. c.sync => IndexedOnce(N)
  BY <1>3, <1>4 DEF IndexedOnce
<1> QED
  BY <1>3, <1>4, <1>5, <1>6, <1>7

\* At least one worker publishes and indexes.
LEMMA SyncWorkers == \A n \in Int : Max({1, n}) > 0
<1> SUFFICES ASSUME NEW n \in Int PROVE Max({1, n}) > 0
  OBVIOUS
<1>1. PICK S : S = {1, n}
  OBVIOUS
<1>2. PICK m \in Int : m = 1
  OBVIOUS
<1>3. Max(S) \in Int /\ Max(S) >= m
  BY <1>1, <1>2, MaxOfTwo
<1> QED
  BY <1>1, <1>2, <1>3

\* Of the configuration, what the properties are about.
LEMMA ConfigFacts ==
  ASSUME NEW env, env.workers \in Int, NEW c, c = NewSuperNodeConfig(env), c # Failed
  PROVE  /\ c.sync = env.sync /\ c["sync"] = env.sync
         /\ c.serve = env.serve /\ c["serve"] = env.serve
         /\ c.backFill = env.backFill /\ c["backFill"] = env.backFill
         /\ env.sync => c.workers > 0
         /\ env.backFill => c.batchNumber = env.batchNumber
<1> DEFINE workers == IF env.sync THEN Max({1, env.workers}) ELSE 0
<1>1. env.sync => workers > 0
  BY SyncWorkers
<1>2. c = [chain |-> NewChainType(env.chain), mode |-> GetIPFSMode(env.mode), repository |-> env.repository,
           sync |-> env.sync, serve |-> env.serve, backFill |-> env.backFill,
           wsClient |-> IF env.sync THEN NodeAndClient(NewChainType(env.chain), env) ELSE Nil,
           workers |-> workers,
           httpClient |-> BackFillFields(NewChainType(env.chain), env).httpClient,
           batchNumber |-> BackFillFields(NewChainType(env.chain), env).batchNumber]
  BY DEF NewSuperNodeConfig
<1>3. env.backFill => BackFillFields(NewChainType(env.chain), env).batchNumber = env.batchNumber
  BY DEF BackFillFields
<1> HIDE DEF workers
<1> QED
  BY <1>1, <1>2, <1>3

\* A known chain's server: web sockets and IPC offer the subscriptions, HTTP the
\* public API of an Ethereum node.
LEMMA ServersFacts ==
  ASSUME NEW chain, Known(chain)
  PROVE  "vdb" \in startServers(chain).ipc /\ (startServers(chain).http # {} \/ chain = "Bitcoin")
<1>1. chain = "Ethereum" => API(chain) = "eth"
  BY DEF API
<1>2. chain = "Ethereum" => "eth" \in APIs(chain)
  BY DEF APIs, NewPublicAPI, Nil
<1> QED
  BY <1>1, <1>2 DEF startServers, APIs, Known

\* What superNode starts, for every environment.
NodeComplete(n, env) ==
  /\ "sync" \in n.running =>
       /\ {"Streamer", "Converter", "Publisher", "Indexer"} \subseteq DOMAIN n.node
       /\ IndexedOnce(n.node) /\ n.workers > 0
  /\ "serve" \in n.running =>
       /\ {"Retriever", "IPLDFetcher"} \subseteq DOMAIN n.node
       /\ n.running \in {{"serve"}, {"serve", "backFill"}} \/ "Filterer" \in DOMAIN n.node
       /\ "vdb" \in n.servers.ipc /\ (n.servers.http # {} \/ n.chain = "Bitcoin")
  /\ "backFill" \in n.running =>
       /\ Pipeline \subseteq DOMAIN n.filler
       /\ IndexedOnce(n.filler)
       /\ n.fillWorkers > 0 \/ env.batchNumber < 0
  /\ Own(n.node, n.chain) /\ Own(n.filler, n.chain)

\* Every process of a node that starts has its parts.
LEMMA SuperNodeComplete ==
  ASSUME NEW env, env.sync \in BOOLEAN, env.serve \in BOOLEAN, env.backFill \in BOOLEAN,
         env.workers \in Int, env.batchNumber \in Int,
         NEW n, n = superNode(env), n # Failed
  PROVE  NodeComplete(n, env)
<1> DEFINE c == NewSuperNodeConfig(env)
           N == NewSuperNode(c)
           B == IF c.backFill THEN NewBackFillService(c) ELSE <<>>
<1>1. /\ c # Failed /\ N # Failed /\ B # Failed
      /\ n = [chain       |-> c.chain,
              running     |-> {p \in {"sync", "serve", "backFill"} : c[p]},
              node        |-> N,
              filler      |-> B,
              workers     |-> c.workers,
              fillWorkers |-> IF c.backFill THEN BackFillWorkers(c.batchNumber) ELSE 0,
              servers     |-> IF c.serve THEN startServers(c.chain) ELSE Nil]
  BY DEF superNode
<1> HIDE DEF c, N, B
<1>2. /\ c.sync = env.sync /\ c["sync"] = env.sync
      /\ c.serve = env.serve /\ c["serve"] = env.serve
      /\ c.backFill = env.backFill /\ c["backFill"] = env.backFill
      /\ env.sync => c.workers > 0
      /\ env.backFill => c.batchNumber = env.batchNumber
  BY <1>1, ConfigFacts DEF c
<1>3. /\ n.chain = c.chain /\ n.node = N /\ n.filler = B /\ n.workers = c.workers
      /\ n.running = {p \in {"sync", "serve", "backFill"} : c[p]}
      /\ env.backFill => n.fillWorkers = BackFillWorkers(env.batchNumber)
      /\ env.serve => n.servers = startServers(c.chain)
  BY <1>1, <1>2
<1>4. /\ "sync" \in n.running <=> env.sync
      /\ "serve" \in n.running <=> env.serve
      /\ "backFill" \in n.running <=> env.backFill
      /\ n.running \subseteq {"sync", "serve", "backFill"}
  BY <1>2, <1>3
<1>5. /\ Own(N, c.chain)
      /\ c.sync => /\ {"Streamer", "Converter", "Publisher", "Indexer", "Filterer"} \subseteq DOMAIN N
                   /\ IndexedOnce(N)
      /\ c.serve => {"Retriever", "IPLDFetcher"} \subseteq DOMAIN N /\ Known(c.chain)
  BY <1>1, <1>2, NodeOwn DEF N
<1>6. /\ Own(B, c.chain)
      /\ env.backFill => Pipeline \subseteq DOMAIN B /\ IndexedOnce(B)
  <2>1. CASE env.backFill
    BY <1>1, <1>2, <2>1, FillerOwn DEF B
  <2>2. CASE ~env.backFill
    BY <1>2, <2>2 DEF B, Own
  <2> QED
    BY <2>1, <2>2
<1>7. env.backFill => n.fillWorkers > 0 \/ env.batchNumber < 0
  BY <1>3, FillWorkers
<1>8. env.serve => "vdb" \in n.servers.ipc /\ (n.servers.http # {} \/ n.chain = "Bitcoin")
  BY <1>2, <1>3, <1>5, ServersFacts
<1>9. n.running \in {{"serve"}, {"serve", "backFill"}} \/ ~env.serve \/ env.sync
  <2>1. CASE env.backFill
    BY <1>4, <2>1
  <2>2. CASE ~env.backFill
    BY <1>4, <2>2
  <2> QED
    BY <2>1, <2>2
<1> QED
  BY <1>2, <1>3, <1>4, <1>5, <1>6, <1>7, <1>8, <1>9 DEF NodeComplete

\* A name of a data type is one of the types or refused.
LEMMA TypeFacts == \A str : GenerateDataTypeFromString(str) \in DataTypes \cup {Nil}
  BY DEF GenerateDataTypeFromString, DataTypes

\* What resync starts, for every environment.
ResyncComplete(n, env) ==
  /\ Pipeline \cup {"Cleaner"} \subseteq DOMAIN n.parts
  /\ IndexedOnce(n.parts) /\ Own(n.parts, n.chain)
  /\ n.type \in CleanTypes(n.chain)
  /\ n.workers > 0 \/ env.batchNumber < 0

\* A resync that starts has its parts, and a cleaner for its type of data.
LEMMA ResyncServiceComplete ==
  ASSUME NEW env, env.batchNumber \in Int, NEW n, n = NewResyncService(env), n # Failed
  PROVE  ResyncComplete(n, env)
<1> DEFINE c == NewReSyncConfig(env)
           parts == [Publisher |-> NewIPLDPublisher(c.chain, c.mode, c),
                     Indexer   |-> NewCIDIndexer(c.chain, c.mode),
                     Converter |-> NewPayloadConverter(c.chain),
                     Retriever |-> NewCIDRetriever(c.chain),
                     Fetcher   |-> NewPaylaodFetcher(c.chain, c.httpClient),
                     Cleaner   |-> NewCleaner(c.chain)]
           P == Checked(parts)
<1>1. /\ c # Failed /\ P # Failed
      /\ n = [chain |-> c.chain, type |-> c.type, parts |-> P, workers |-> BackFillWorkers(c.batchNumber)]
  BY DEF NewResyncService
<1>2. /\ c.type \in DataTypes /\ c.chain # Nil /\ SupportedDataType(c.type, c.chain)
      /\ c.batchNumber = env.batchNumber
  <2> DEFINE chain == NewChainType(env.chain)  mode == GetIPFSMode(env.mode)
             type == GenerateDataTypeFromString(env.type)  client == NodeAndClient(chain, env)
             conf == [chain |-> chain, mode |-> mode, repository |-> env.repository, type |-> type,
                      httpClient |-> client, batchNumber |-> env.batchNumber]
  <2>1. c = conf /\ type # Nil /\ chain # Nil /\ SupportedDataType(type, chain)
    BY <1>1 DEF NewReSyncConfig
  <2>2. type \in DataTypes
    BY <2>1, TypeFacts
  <2> HIDE DEF c, chain, mode, type, client
  <2> QED
    BY <2>1, <2>2
<1> HIDE DEF c, P
<1>3. n.chain = c.chain /\ n.type = c.type /\ n.parts = P /\ n.workers = BackFillWorkers(env.batchNumber)
  BY <1>1, <1>2
<1>4. P = parts /\ \A p \in DOMAIN parts : parts[p] # Invalid
  <2> HIDE DEF parts
  <2> QED
    BY <1>1, CheckedParts DEF P
<1>5. Pipeline \cup {"Cleaner"} \subseteq DOMAIN P /\ Own(P, c.chain) /\ IndexedOnce(P)
  BY <1>4, PartFacts, PairFits
     DEF Own, IndexedOnce, NewPayloadConverter, NewCIDRetriever, NewCleaner, Pipeline
<1>6. c.type \in CleanTypes(c.chain)
  BY <1>2 DEF SupportedDataType, CleanTypes
<1>7. n.workers > 0 \/ env.batchNumber < 0
  BY <1>3, FillWorkers
<1> QED
  BY <1>3, <1>5, <1>6, <1>7 DEF ResyncComplete
-----------------------------------------------------------------------------
(* The commands, as Queries runs them *)

CONSTANTS EthRequests, BtcRequests, LogRequests, GapRequests, Plugins, RankBits, MaxHeight, Hashes

Q == INSTANCE Queries

\* Queries is instantiated under its own constants: its StartUp is this one.
LEMMA SameConstructors ==
  /\ \A chain : Q!NewResponseFilterer(chain) = NewResponseFilterer(chain)
  /\ \A chain : Q!NewCIDRetriever(chain) = NewCIDRetriever(chain)
  /\ \A chain : Q!NewPayloadConverter(chain) = NewPayloadConverter(chain)
  /\ \A chain : Q!NewCleaner(chain) = NewCleaner(chain)
  /\ \A chain, client : Q!NewPayloadStreamer(chain, client) = NewPayloadStreamer(chain, client)
  /\ \A chain, client : Q!NewPaylaodFetcher(chain, client) = NewPaylaodFetcher(chain, client)
  /\ \A chain, mode : Q!NewCIDIndexer(chain, mode) = NewCIDIndexer(chain, mode)
  /\ \A chain, mode, env : Q!NewIPLDPublisher(chain, mode, env) = NewIPLDPublisher(chain, mode, env)
  /\ \A chain, mode, env : Q!NewIPLDFetcher(chain, mode, env) = NewIPLDFetcher(chain, mode, env)
  /\ \A parts : Q!Checked(parts) = Checked(parts)
  BY DEF Q!NewResponseFilterer, NewResponseFilterer, Q!NewCIDRetriever, NewCIDRetriever,
         Q!NewPayloadConverter, NewPayloadConverter, Q!NewCleaner, NewCleaner,
         Q!NewPayloadStreamer, NewPayloadStreamer, Q!NewPaylaodFetcher, NewPaylaodFetcher,
         Q!NewCIDIndexer, NewCIDIndexer, Q!NewIPLDPublisher, NewIPLDPublisher,
         Q!NewIPLDFetcher, NewIPLDFetcher, Q!Checked, Checked, Q!NewPart, NewPart,
         Q!Known, Known, Q!Pkg, Pkg, Q!Invalid, Invalid, Q!ClientOf, ClientOf, Q!Range, Range,
         Q!Failed, Failed

\* So are its names,
LEMMA SameNames ==
  /\ \A name : Q!NewChainType(name) = NewChainType(name)
  /\ \A name : Q!GetIPFSMode(name) = GetIPFSMode(name)
  /\ \A str : Q!GenerateDataTypeFromString(str) = GenerateDataTypeFromString(str)
  /\ \A chain : Q!API(chain) = API(chain)
  /\ \A chain, env : Q!NodeAndClient(chain, env) = NodeAndClient(chain, env)
  BY DEF Q!NewChainType, NewChainType, Q!GetIPFSMode, GetIPFSMode, Q!NewIPFSMode, NewIPFSMode,
         Q!GenerateDataTypeFromString, GenerateDataTypeFromString, Q!DataTypes, DataTypes,
         Q!API, API, Q!NodeAndClient, NodeAndClient, Q!GetEthNodeAndClient, GetEthNodeAndClient,
         Q!GetBtcNodeAndClient, GetBtcNodeAndClient, Q!Nil, Nil

\* and its commands.
LEMMA SameCommands ==
  /\ \A env : Q!superNode(env) = superNode(env)
  /\ \A env : Q!NewResyncService(env) = NewResyncService(env)
<1>1. \A S : Q!Max(S) = Max(S)
  BY DEF Q!Max, Max
<1>2. \A n : Q!BackFillWorkers(n) = BackFillWorkers(n)
  BY <1>1 DEF Q!BackFillWorkers, BackFillWorkers, Q!DefaultMaxBatchNumber, DefaultMaxBatchNumber
<1>3. \A env : Q!NewSuperNodeConfig(env) = NewSuperNodeConfig(env)
  BY <1>1, SameNames
     DEF Q!NewSuperNodeConfig, NewSuperNodeConfig, Q!BackFillFields, BackFillFields,
         Q!Failed, Failed, Q!Nil, Nil
<1>4. \A c : Q!SyncParts(c) = SyncParts(c) /\ Q!ServeParts(c) = ServeParts(c)
  BY SameConstructors DEF Q!SyncParts, SyncParts, Q!ServeParts, ServeParts
<1>5. \A c : Q!NewSuperNode(c) = NewSuperNode(c)
  BY <1>4, SameConstructors DEF Q!NewSuperNode, NewSuperNode, Q!Joined, Joined
<1>6. \A c : Q!NewBackFillService(c) = NewBackFillService(c)
  BY SameConstructors DEF Q!NewBackFillService, NewBackFillService
<1>7. \A chain : Q!startServers(chain) = startServers(chain)
  BY SameNames DEF Q!startServers, startServers, Q!APIs, APIs, Q!NewPublicAPI, NewPublicAPI, Q!Nil, Nil
<1>8. \A env : Q!superNode(env) = superNode(env)
  BY <1>2, <1>3, <1>5, <1>6, <1>7 DEF Q!superNode, superNode, Q!Failed, Failed, Q!Nil, Nil
<1>9. \A env : Q!NewReSyncConfig(env) = NewReSyncConfig(env)
  BY SameNames
     DEF Q!NewReSyncConfig, NewReSyncConfig, Q!SupportedDataType, SupportedDataType, Q!Failed, Failed, Q!Nil, Nil
<1>10. \A env : Q!NewResyncService(env) = NewResyncService(env)
  BY <1>2, <1>9, SameConstructors DEF Q!NewResyncService, NewResyncService, Q!Failed, Failed
<1> QED
  BY <1>8, <1>10

\* The answer of a command is what it started for the environment it was given.
CommandInv ==
  kind = "start" =>
    /\ request \in Commands
    /\ \/ answer = <<>>
       \/ request[1] = "superNode" /\ answer = <<superNode(request[2])>>
       \/ request[1] = "resync" /\ answer = <<NewResyncService(request[2])>>

\* The invariant of the commands, whatever is asked.
LEMMA CommandInductive == Q!Spec => []CommandInv
<1>1. Q!Init => CommandInv
  BY DEF Q!Init, CommandInv
<1>2. CommandInv /\ [Q!Next]_Q!vars => CommandInv'
  BY SameCommands
     DEF CommandInv, Q!Next, Q!vars, Q!FilterEth, Q!HistoryEth, Q!FilterBtc, Q!HistoryBtc, Q!AnswerLogs,
         Q!SearchGaps, Q!StartSuperNode, Q!StartResync, Q!StartCompose, Q!StepCompose
<1> QED
  BY <1>1, <1>2, PTL DEF Q!Spec

\* Whatever chain, mode, processes, workers and data type flags, file and variables
\* give: superNode and resync either end with an error or start with every part
\* their goroutines call, of the right chain, a publisher and an indexer that
\* write the index once, and workers (NewSuperNode, NewBackFillService,
\* NewResyncService and the constructors).
THEOREM PartsCompleteAlways == Q!Spec => []PartsComplete
<1>1. CommandInv => PartsComplete
  <2> SUFFICES ASSUME CommandInv, kind = "start", answer # <<>> PROVE PartsComplete
    BY DEF PartsComplete
  <2> DEFINE n == answer[1]  env == request[2]
  <2>1. request \in Commands
    BY DEF CommandInv
  <2>2. CASE request[1] = "superNode" /\ answer = <<superNode(request[2])>>
    <3>1. n = superNode(env)
      BY <2>2
    <3>2. /\ env.sync \in BOOLEAN /\ env.serve \in BOOLEAN /\ env.backFill \in BOOLEAN
          /\ env.workers \in Int /\ env.batchNumber \in Int
      BY <2>1, <2>2, CommandAssumption DEF CommandAssumption
    <3> HIDE DEF n, env
    <3>3. n = Failed \/ NodeComplete(n, env)
      BY <3>1, <3>2, SuperNodeComplete
    <3> QED
      BY <2>2, <3>3 DEF PartsComplete, NodeComplete, Own, n, env
  <2>3. CASE request[1] = "resync" /\ answer = <<NewResyncService(request[2])>>
    <3>1. n = NewResyncService(env)
      BY <2>3
    <3>2. env.batchNumber \in Int
      BY <2>1, CommandAssumption DEF CommandAssumption
    <3> HIDE DEF n, env
    <3>3. n = Failed \/ ResyncComplete(n, env)
      BY <3>1, <3>2, ResyncServiceComplete
    <3> QED
      BY <2>3, <3>3 DEF PartsComplete, ResyncComplete, Own, n, env
  <2> QED
    BY <2>2, <2>3 DEF CommandInv
<1> QED
  BY <1>1, CommandInductive, PTL
=============================================================================
