----------------------------- MODULE HeaderSync -----------------------------
(***************************************************************************)
(* The headerSync command (cmd/headerSync.go, pkg/eth/history): the        *)
(* validator rereads the last windowSize headers on every tick while a     *)
(* goroutine fills in the missing ones.  Both call                         *)
(* RetrieveAndUpdateHeaders, whose lookup, delete and insert are separate  *)
(* statements, and both read a chain that grows and reorganises.           *)
(***************************************************************************)
EXTENDS HeaderChain

CONSTANTS
  StartingBlock,  \* --starting-block-number
  WindowSize,     \* validationWindow
  MaxBatchSize,   \* MAX_BATCH_SIZE of blockchain.go
  MaxHead,        \* bound: the height the chain grows to
  MaxReorgs,      \* bound: reorganisations
  MaxFaults       \* bound: failed calls and answers a batch leaves out

VARIABLES
  writer,  \* what each of the two goroutines is doing
  faults

vars == <<headers, nextId, chain, reorgs, writer, faults>>
Writers == {"validator", "backfill"}

Idle == [pc |-> "idle", numbers |-> {}, got |-> {}]
Lowest(got) == CHOOSE b \in got : \A c \in got : b[1] <= c[1]
FirstNumbers(numbers) == {n \in numbers : Cardinality({m \in numbers : m < n}) < MaxBatchSize}

Init ==
  /\ TableInit
  /\ chain = [n \in 0..1 |-> 0] /\ reorgs = 0
  /\ writer = [p \in Writers |-> Idle]
  /\ faults = 0

Grow ==
  /\ Last < MaxHead
  /\ chain' = [n \in 0..(Last + 1) |-> IF n <= Last THEN chain[n] ELSE reorgs]
  /\ UNCHANGED <<headers, nextId, reorgs, writer, faults>>

Reorg ==
  /\ reorgs < MaxReorgs
  /\ \E first \in 1..Last :
       chain' = [n \in DOMAIN chain |-> IF n >= first THEN reorgs + 1 ELSE chain[n]]
  /\ reorgs' = reorgs + 1
  /\ UNCHANGED <<headers, nextId, writer, faults>>
-----------------------------------------------------------------------------
\* With MakeRange: the window may reach below 0.
MakeValidationWindow == (Last - WindowSize)..Last

ValidateHeaders ==
  /\ writer["validator"].pc = "idle"
  /\ writer' = [writer EXCEPT !["validator"] =
                  [Idle EXCEPT !.pc = "fetch", !.numbers = MakeValidationWindow]]
  /\ UNCHANGED <<headers, nextId, chain, reorgs, faults>>

PopulateMissingHeaders ==
  /\ writer["backfill"].pc = "idle"
  /\ MissingBlockNumbers(StartingBlock, Last) # {}
  /\ writer' = [writer EXCEPT !["backfill"] =
                  [Idle EXCEPT !.pc = "fetch", !.numbers = MissingBlockNumbers(StartingBlock, Last)]]
  /\ UNCHANGED <<headers, nextId, chain, reorgs, faults>>

\* One batch request; what it does not answer is left out without an error.
GetHeadersByNumbers(p) ==
  /\ writer[p].pc = "fetch"
  /\ LET all == {<<n, chain[n]>> : n \in FirstNumbers(writer[p].numbers) \cap DOMAIN chain}
     IN  \E got \in SUBSET all :
           /\ got # all => faults < MaxFaults
           /\ faults' = IF got = all THEN faults ELSE faults + 1
           /\ writer' = [writer EXCEPT ![p].pc = "next", ![p].got = got]
  /\ UNCHANGED <<headers, nextId, chain, reorgs>>

\* Mutant: a row at the height is taken for the header.
LookupAnyRow(p) ==
  /\ writer[p].pc = "next" /\ writer[p].got # {}
  /\ LET b == Lowest(writer[p].got)
     IN  writer' = IF RowsAt(b[1]) = {} THEN [writer EXCEPT ![p].pc = "insert"]
                                        ELSE [writer EXCEPT ![p].got = @ \ {b}]
  /\ UNCHANGED <<headers, nextId, chain, reorgs, faults>>

\* CreateOrUpdateHeader: getHeaderHash reads one row of the height, any of them.
CreateOrUpdateHeader(p) ==
  /\ writer[p].pc = "next" /\ writer[p].got # {}
  /\ LET b == Lowest(writer[p].got)
     IN  \/ RowsAt(b[1]) = {} /\ writer' = [writer EXCEPT ![p].pc = "insert"]
         \/ \E h \in RowsAt(b[1]) :
              writer' = IF h.fork = b[2] THEN [writer EXCEPT ![p].got = @ \ {b}]
                                         ELSE [writer EXCEPT ![p].pc = "delete"]
  /\ UNCHANGED <<headers, nextId, chain, reorgs, faults>>

ReplaceHeader(p) ==
  /\ writer[p].pc = "delete"
  /\ DeleteHeaders(Lowest(writer[p].got)[1])
  /\ writer' = [writer EXCEPT ![p].pc = "insert"]
  /\ UNCHANGED <<chain, reorgs, faults>>

InsertHeader(p) ==
  /\ writer[p].pc = "insert"
  /\ LET b == Lowest(writer[p].got)
     IN  /\ InternalInsertHeader(b[1], b[2])
         /\ writer' = [writer EXCEPT ![p].pc = "next", ![p].got = @ \ {b}]
  /\ UNCHANGED <<chain, reorgs, faults>>

Finish(p) ==
  /\ writer[p].pc = "next" /\ writer[p].got = {}
  /\ writer' = [writer EXCEPT ![p] = Idle]
  /\ UNCHANGED <<headers, nextId, chain, reorgs, faults>>

\* A call fails, or the process is killed: the rest of the headers is dropped.
Fail(p) ==
  /\ writer[p].pc # "idle" /\ faults < MaxFaults
  /\ faults' = faults + 1
  /\ writer' = [writer EXCEPT ![p] = Idle]
  /\ UNCHANGED <<headers, nextId, chain, reorgs>>

RetrieveAndUpdateHeaders(p) ==
  \/ GetHeadersByNumbers(p) \/ CreateOrUpdateHeader(p) \/ ReplaceHeader(p)
  \/ InsertHeader(p) \/ Finish(p)

Next ==
  \/ Grow \/ Reorg \/ ValidateHeaders \/ PopulateMissingHeaders
  \/ \E p \in Writers : RetrieveAndUpdateHeaders(p) \/ Fail(p)

\* The ticker ticks, the backfill goroutine is started again and calls return.
Fairness ==
  /\ WF_vars(ValidateHeaders) /\ WF_vars(PopulateMissingHeaders)
  /\ \A p \in Writers : WF_vars(RetrieveAndUpdateHeaders(p))

Spec == Init /\ [][Next]_vars /\ Fairness
-----------------------------------------------------------------------------
(* Properties *)

\* When the chain and the failures have come to rest, every height from the
\* starting block on has a header for good, and the heights of the window have
\* the chain's: lost answers, a crash between the delete and the insert of
\* replaceHeader and stale writers are all repaired.
HeadersConverge ==
  <>[](\A n \in DOMAIN chain :
         /\ n >= StartingBlock => RowsAt(n) # {}
         /\ n >= Last - WindowSize => \E h \in RowsAt(n) : h.fork = chain[n])
=============================================================================
