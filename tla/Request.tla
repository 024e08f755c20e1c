------------------------------ MODULE Request -------------------------------
(* A request and its answers: the state of Queries, and what the properties *)
(* of the answers are about.                                                *)

VARIABLES
  kind,    \* the API that is asked
  request, \* the request, of the set of its kind
  live,    \* the answer of the filterer, a sequence of at most one
  answer   \* the answer from the index or of the command, a sequence of at most one
=============================================================================
