---------------------------- MODULE HeaderChain -----------------------------
(***************************************************************************)
(* The node's chain beside the table of headers, and what a reader of the  *)
(* table may rely on while headerSync writes it.                           *)
(***************************************************************************)
EXTENDS HeaderTable

VARIABLES
  chain,  \* height -> fork: the node's canonical chain
  reorgs  \* reorganisations so far, the fork of the newest blocks

\* ethClient.LastBlock
Last == CHOOSE n \in DOMAIN chain : \A m \in DOMAIN chain : m <= n

\* The two goroutines insert no header twice, and two rows at one height mean
\* that the chain has reorganised between their reads: without a reorganisation
\* the race between lookup and insert is harmless.
NoDuplicateHeaders ==
  \A g, h \in headers : g.num = h.num /\ g # h => g.fork # h.fork /\ reorgs > 0
=============================================================================
