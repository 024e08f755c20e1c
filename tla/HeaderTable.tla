---------------------------- MODULE HeaderTable -----------------------------
(***************************************************************************)
(* The table public.headers, as HeaderRepository and                       *)
(* CheckedHeadersRepository (pkg/eth/datastore/postgres/repositories)      *)
(* change it: one SQL statement is one step.  A row is                     *)
(* [id, num, fork, checks]; (num, fork) stands for the block hash and ids  *)
(* are never used again.                                                   *)
(***************************************************************************)
EXTENDS Integers, FiniteSets

VARIABLES
  headers,  \* the rows of one node's fingerprint
  nextId    \* the sequence the ids come from

RowsAt(n) == {h \in headers : h.num = n}
Exists(id) == \E h \in headers : h.id = id

TableInit == headers = {} /\ nextId = 1

\* Mutant: INSERT without ON CONFLICT.
InternalInsertAlways(n, f) ==
  /\ headers' = headers \cup {[id |-> nextId, num |-> n, fork |-> f, checks |-> 0]}
  /\ nextId' = nextId + 1

\* ON CONFLICT DO NOTHING: UNIQUE (block_number, hash, eth_node_fingerprint)
\* admits a second row with another hash.
InternalInsertHeader(n, f) ==
  IF \E h \in RowsAt(n) : h.fork = f THEN UNCHANGED <<headers, nextId>>
  ELSE /\ headers' = headers \cup {[id |-> nextId, num |-> n, fork |-> f, checks |-> 0]}
       /\ nextId' = nextId + 1

\* The first statement of replaceHeader.
DeleteHeaders(n) == headers' = headers \ RowsAt(n) /\ UNCHANGED nextId

MissingBlockNumbers(first, last) == {n \in first..last : RowsAt(n) = {}}

MarkHeaderChecked(id) ==
  headers' = {IF h.id = id THEN [h EXCEPT !.checks = @ + 1] ELSE h : h \in headers}

MarkHeadersUnchecked(start) ==
  headers' = {IF h.num >= start THEN [h EXCEPT !.checks = 0] ELSE h : h \in headers}

UncheckedHeaders(start, checkCount) ==
  {h \in headers : h.num >= start /\ h.checks < checkCount}
=============================================================================
