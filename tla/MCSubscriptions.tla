-------------------------- MODULE MCSubscriptions --------------------------
(* Subscriptions for TLC: the settings clients may ask for. *)
EXTENDS Subscriptions, TLC

Ask(historical, only, start, end) ==
  [chain |-> TRUE, historical |-> historical, only |-> only,
   start |-> start, end |-> end]

\* The stream from block 1 on, the stream with history up to block 1, and history
\* only.
ServedSettings ==
  {Ask(FALSE, FALSE, 1, 0), Ask(TRUE, FALSE, 0, 1), Ask(FALSE, TRUE, 0, 1)}

\* The same, and another chain.
MixedSettings ==
  ServedSettings \cup {[Ask(FALSE, FALSE, 0, 0) EXCEPT !.chain = FALSE]}

IdSymmetry == Permutations(Ids)
=============================================================================
