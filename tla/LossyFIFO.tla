----------------------------- MODULE LossyFIFO -----------------------------
(***************************************************************************)
(* What a lossy first-in first-out queue with one producer promises.  The  *)
(* items are offered in order 1, 2, ..., an offered item is either refused *)
(* at once or appended; from then on only the oldest queued item leaves,   *)
(* because a consumer takes it or because it is dropped.  The newest item  *)
(* is never dropped: a drop leaves the queue nonempty.                     *)
(***************************************************************************)
EXTENDS Naturals, Sequences

CONSTANT Capacity   \* the most items the queue holds

VARIABLES
  offered,          \* number of items offered so far
  queue             \* the accepted items that have not left yet

Init == offered = 0 /\ queue = <<>>

Offer ==
  /\ Len(queue) < Capacity
  /\ offered' = offered + 1
  /\ queue' = Append(queue, offered + 1)

Refuse ==
  /\ offered' = offered + 1
  /\ UNCHANGED queue

Take ==
  /\ queue # <<>>
  /\ queue' = Tail(queue)
  /\ UNCHANGED offered

Drop ==
  /\ Len(queue) > 1
  /\ queue' = Tail(queue)
  /\ UNCHANGED offered

Next == Offer \/ Refuse \/ Take \/ Drop

Spec == Init /\ [][Next]_<<offered, queue>>
=============================================================================
