------------------------------- MODULE Resync -------------------------------
(***************************************************************************)
(* The resync command (pkg/super_node/resync/service.go) beside a running  *)
(* super node on the same database: resync resets the validation level,    *)
(* cleans the range and lets its workers fetch it again, while the node    *)
(* publishes and indexes blocks, and the JSON-RPC backend (eth/backend.go) *)
(* or a historical feed reads one, statement by statement.                 *)
(*                                                                         *)
(* The constructors choose the parts by chain and by IPFS mode: in "pg"    *)
(* mode Publish writes IPLDs and rows in one database transaction and      *)
(* Index does nothing; in "ipfs" mode Publish puts the nodes one by one    *)
(* and Index is a transaction of its own.                                  *)
(***************************************************************************)
EXTENDS CIDStore, BlockHeightBins

CONSTANTS
  Configs,      \* [chain, mode, type, clear, reset, range, batch]
  Workers,      \* the resync goroutines, BatchNumber of them
  MaxValidated  \* bound: how far times_validated is counted

\* A receipt is one of a transaction and a storage node hangs below a state
\* node; a batch size of 0 is replaced by the default.
ASSUME ResyncAssumption ==
  /\ "none" \notin Blocks
  /\ \A b \in Blocks : /\ Contents[b]["receipts"] # {} => Contents[b]["transactions"] # {}
                       /\ Contents[b]["storage"] # {} => Contents[b]["state"] # {}
  /\ Configs \subseteq
       [chain : {"eth", "btc"}, mode : {"pg", "ipfs"},
        type : {"full", "headers", "uncles", "transactions", "receipts", "state", "storage"},
        clear : BOOLEAN, reset : BOOLEAN, range : Nat \X Nat, batch : Nat \ {0}]

VARIABLES
  cfg,     \* the resync configuration
  store,   \* the database, and the IPFS blocks
  pc,      \* where Resync() is
  bins,    \* the sections not yet sent to a worker
  worker,  \* worker -> [pc, todo, block]
  node,    \* the block a node worker has published and not indexed, or None
  reader,  \* [block, read, items]: the sections read and the cids they gave
  lost     \* heights a resync worker did not store

vars == <<cfg, store, pc, bins, worker, node, reader, lost>>

None == "none"
eth == cfg.chain = "eth"
pg  == cfg.mode = "pg"

Idle == [pc |-> "idle", todo |-> {}, block |-> None]
NoRead == [block |-> None, read |-> 1, items |-> {}]   \* no request is under way
NoTd   == [NoRead EXCEPT !.read = 0]                    \* the last one had no header row
Failed == [NoRead EXCEPT !.read = -1]                   \* an IPLD was not found
NextHeight(todo) == CHOOSE h \in todo : \A i \in todo : h <= i

Init ==
  /\ cfg \in Configs
  /\ store = EmptyStore
  /\ pc = "reset" /\ bins = <<>>
  /\ worker = [w \in Workers |-> Idle]
  /\ node = None /\ reader = NoRead
  /\ lost = {}
-----------------------------------------------------------------------------
(* The parts the constructors choose *)

NumSections == Len(IF eth THEN EthSections ELSE BtcSections)
PublishAndIndex(st, b) == IF eth THEN EthPublishAndIndex(st, b) ELSE BtcPublishAndIndex(st, b)
PublishIPFS(st, b, n) == IF eth THEN EthPublish(st, b, n) ELSE BtcPublish(st, b, n)
IndexCIDs(st, b) == IF eth THEN EthIndex(st, b) ELSE BtcIndex(st, b)

\* What Publish and then Index may do: both succeed, one returns an error, or
\* COMMIT fails in the deferred function, whose assignment to err the caller
\* does not see.
Outcomes == {"ok", "error", "commit"}

Publish(b, outcome) ==
  IF pg THEN store' = IF outcome = "ok" THEN PublishAndIndex(store, b) ELSE store
  ELSE \E n \in IF outcome = "ok" THEN {NumSections} ELSE 0..(NumSections - 1) :
         /\ outcome # "commit"
         /\ store' = PublishIPFS(store, b, n)

Index(b, outcome) == store' = IF outcome = "ok" THEN IndexCIDs(store, b) ELSE store

\* Index(nil) fails its type assertion in ipfs mode and is a no-op in pg mode.
Indexes(outcome) == ~pg /\ outcome = "ok"

Stored(h, outcome) == lost' = IF outcome = "ok" THEN lost ELSE lost \cup {h}
-----------------------------------------------------------------------------
(* Resync() *)

ResyncReset ==
  /\ pc = "reset"
  /\ \/ /\ store' = IF cfg.reset THEN ResetValidation(store, cfg.range) ELSE store
        /\ pc' = "clean"
     \/ cfg.reset /\ pc' = "failed" /\ UNCHANGED store
  /\ UNCHANGED <<cfg, bins, worker, node, reader, lost>>

\* VACUUM runs after the commit and changes no row; its error is Clean's.
vacuumAnalyze == pc' \in {"bins", "failed"}

ResyncClean ==
  /\ pc = "clean"
  /\ \/ /\ cfg.clear
        /\ store' = IF eth THEN EthClean(store, cfg.range, cfg.type)
                           ELSE BtcClean(store, cfg.range, cfg.type)
        /\ vacuumAnalyze
     \/ cfg.clear /\ pc' = "failed" /\ UNCHANGED store
     \/ ~cfg.clear /\ pc' = "bins" /\ UNCHANGED store
  /\ UNCHANGED <<cfg, bins, worker, node, reader, lost>>

\* A range that ends before it starts is skipped.
MakeBins ==
  /\ pc = "bins"
  /\ bins' = IF cfg.range[2] < cfg.range[1] THEN <<>>
             ELSE GetBlockHeightBins(cfg.range[1], cfg.range[2], cfg.batch)
  /\ pc' = "send"
  /\ UNCHANGED <<cfg, store, worker, node, reader, lost>>

\* heightsChan <- heights, which an idle worker receives.
SendBin(w) ==
  /\ pc = "send" /\ bins # <<>> /\ worker[w].pc = "idle"
  /\ worker' = [worker EXCEPT ![w].pc = "fetch", ![w].todo = Head(bins)]
  /\ bins' = Tail(bins)
  /\ UNCHANGED <<cfg, store, pc, node, reader, lost>>

\* Mutant: a worker that is busy is told to quit.
SendQuitBusy(w) ==
  /\ pc = "send" /\ bins = <<>> /\ worker[w].pc # "quit"
  /\ worker' = [worker EXCEPT ![w].pc = "quit"]
  /\ UNCHANGED <<cfg, store, pc, bins, node, reader, lost>>

\* quitChan <- true, once for each worker.
SendQuit(w) ==
  /\ pc = "send" /\ bins = <<>> /\ worker[w].pc = "idle"
  /\ worker' = [worker EXCEPT ![w].pc = "quit"]
  /\ UNCHANGED <<cfg, store, pc, bins, node, reader, lost>>

Return ==
  /\ pc = "send" /\ bins = <<>> /\ \A w \in Workers : worker[w].pc = "quit"
  /\ pc' = "done"
  /\ UNCHANGED <<cfg, store, bins, worker, node, reader, lost>>
-----------------------------------------------------------------------------
(* resync(), the worker *)

\* The payloads FetchAt can return: those of all the heights, or none.  For
\* Ethereum it is one batch call, which an error of any element fails, for
\* Bitcoin two calls for each height, the first error ending the loop.
EthFetchAt(heights) == {heights, {}}
BtcFetchAt(heights) == {heights, {}}
FetchAt(heights) == IF eth THEN EthFetchAt(heights) ELSE BtcFetchAt(heights)

\* An error is logged and the worker goes on without payloads.
WorkerFetch(w) ==
  /\ worker[w].pc = "fetch"
  /\ \E payloads \in FetchAt(worker[w].todo) :
       /\ worker' = [worker EXCEPT ![w] = IF payloads = {} THEN Idle
                                          ELSE [@ EXCEPT !.pc = "publish"]]
       /\ lost' = lost \cup (worker[w].todo \ payloads)
  /\ UNCHANGED <<cfg, store, pc, bins, node, reader>>

\* Convert and Publish of the next payload, the block the chain has at that
\* height.  No error ends the iteration: the calls after it fail in their turn.
WorkerPublish(w) ==
  /\ worker[w].pc = "publish" /\ worker[w].todo # {}
  /\ LET height == NextHeight(worker[w].todo)
     IN  \E b \in Blocks, outcome \in Outcomes :
           /\ NumberOf[b] = height
           /\ Publish(b, outcome)
           /\ worker' = [worker EXCEPT ![w].todo = @ \ {height},
                           ![w].block = IF Indexes(outcome) THEN b ELSE None,
                           ![w].pc = IF Indexes(outcome) THEN "index" ELSE "publish"]
           /\ Stored(height, outcome)
  /\ UNCHANGED <<cfg, pc, bins, node, reader>>

WorkerIndex(w) ==
  /\ worker[w].pc = "index"
  /\ \E outcome \in Outcomes :
       Index(worker[w].block, outcome) /\ Stored(NumberOf[worker[w].block], outcome)
  /\ worker' = [worker EXCEPT ![w].pc = "publish", ![w].block = None]
  /\ UNCHANGED <<cfg, pc, bins, node, reader>>

\* Mutant: the worker returns after its section.
WorkerFinishReturns(w) ==
  /\ worker[w].pc = "publish" /\ worker[w].todo = {}
  /\ worker' = [worker EXCEPT ![w] = [Idle EXCEPT !.pc = "returned"]]
  /\ UNCHANGED <<cfg, store, pc, bins, node, reader, lost>>

WorkerFinish(w) ==
  /\ worker[w].pc = "publish" /\ worker[w].todo = {}
  /\ worker' = [worker EXCEPT ![w] = Idle]
  /\ UNCHANGED <<cfg, store, pc, bins, node, reader, lost>>
-----------------------------------------------------------------------------
(* The node's own workers *)

NodePublish ==
  /\ node = None
  /\ \E b \in Blocks, outcome \in Outcomes :
       /\ store.hdr[b] + 1 < MaxValidated
       /\ Publish(b, outcome)
       /\ node' = IF Indexes(outcome) THEN b ELSE None
  /\ UNCHANGED <<cfg, pc, bins, worker, reader, lost>>

NodeIndex ==
  /\ node # None
  /\ store.hdr[node] + 1 < MaxValidated
  /\ \E outcome \in {"ok", "error"} : Index(node, outcome)
  /\ node' = None
  /\ UNCHANGED <<cfg, pc, bins, worker, reader, lost>>
-----------------------------------------------------------------------------
(* Readers: the JSON-RPC backend and the historical feeds.  The cids are   *)
(* read one statement after another, the IPLDs in a transaction that comes *)
(* after, and for the backend the total difficulty in a third one.         *)

StartRead(b) == reader' = [block |-> b, read |-> 1, items |-> Contents[b]["header"]]
Marshal == [reader EXCEPT !.read = 0, !.items = {}]
Fetch(items) ==
  IF eth THEN IF pg THEN FetchPG(store, items) ELSE FetchIPFS(store, items)
         ELSE IF pg THEN BtcFetchPG(store, items) ELSE BtcFetchIPFS(store, items)
FetchThen(next) == reader' = IF Fetch(reader.items) THEN next ELSE Failed

\* The first header row at the height, whichever it is.
BlockByNumber ==
  /\ reader \in {NoRead, NoTd}
  /\ \E n \in {NumberOf[b] : b \in Blocks} : \E b \in RetrieveHeaderCIDs(store, n) : StartRead(b)
  /\ UNCHANGED <<cfg, store, pc, bins, worker, node, lost>>

BlockByHash ==
  /\ eth /\ reader \in {NoRead, NoTd}
  /\ \E b \in Blocks : RetrieveHeaderCIDByHash(store, b) /\ StartRead(b)
  /\ UNCHANGED <<cfg, store, pc, bins, worker, node, lost>>

\* A transaction's row, joined with its header's.
GetTransaction ==
  /\ eth /\ reader \in {NoRead, NoTd}
  /\ \E r \in {s \in store.rows : s.sec = "transactions" /\ store.hdr[s.blk] # NoRow} :
       reader' = [block |-> r.blk, read |-> NumSections, items |-> {r.item}]
  /\ UNCHANGED <<cfg, store, pc, bins, worker, node, lost>>

RetrieveSection ==
  /\ reader.block # None /\ reader.read \in 1..(NumSections - 1)
  /\ LET sec == (IF eth THEN EthSections ELSE BtcSections)[reader.read + 1]
     IN  reader' = [reader EXCEPT !.read = @ + 1,
                      !.items = @ \cup RetrieveCIDs(store, reader.block, sec)]
  /\ UNCHANGED <<cfg, store, pc, bins, worker, node, lost>>

HeaderByNumber ==
  /\ eth /\ reader.block # None /\ reader.read = 1
  /\ FetchThen(Marshal)
  /\ UNCHANGED <<cfg, store, pc, bins, worker, node, lost>>

\* The backend needs no state.
FetchBlock ==
  /\ eth /\ reader.block # None /\ reader.read = 4
  /\ FetchThen(Marshal)
  /\ UNCHANGED <<cfg, store, pc, bins, worker, node, lost>>

\* A feed, which has read every section, or GetTransaction.
FetchAll ==
  /\ reader.block # None /\ reader.read = NumSections
  /\ FetchThen(NoRead)
  /\ UNCHANGED <<cfg, store, pc, bins, worker, node, lost>>

\* rpcMarshalHeader and rpcMarshalBlock: without its row the header has no total
\* difficulty and the request fails after all.
rpcMarshalBlock ==
  /\ reader.block # None /\ reader.read = 0
  /\ \/ GetTd(store, reader.block) /\ reader' = NoRead
     \/ ~GetTd(store, reader.block) /\ reader' = NoTd
  /\ UNCHANGED <<cfg, store, pc, bins, worker, node, lost>>

Reader ==
  \/ BlockByNumber \/ BlockByHash \/ GetTransaction \/ RetrieveSection
  \/ HeaderByNumber \/ FetchBlock \/ FetchAll \/ rpcMarshalBlock
-----------------------------------------------------------------------------
MainStep   == ResyncReset \/ ResyncClean \/ MakeBins \/ Return
WorkerStep(w) == WorkerFetch(w) \/ WorkerPublish(w) \/ WorkerIndex(w) \/ WorkerFinish(w)

Next ==
  \/ MainStep
  \/ \E w \in Workers : SendBin(w) \/ SendQuit(w) \/ WorkerStep(w)
  \/ NodePublish \/ NodeIndex \/ Reader

\* The goroutines of resync are scheduled and its calls return.
Fairness ==
  /\ WF_vars(MainStep)
  /\ \A w \in Workers : WF_vars(WorkerStep(w))
  /\ WF_vars(\E w \in Workers : SendBin(w) \/ SendQuit(w))

Spec == Init /\ [][Next]_vars /\ Fairness
-----------------------------------------------------------------------------
(* Properties *)

\* Nothing the index names, and nothing a reader is about to fetch, is missing
\* from the IPLD store: a row is committed after its node (ipfs) or with it
\* (pg), and Clean between the two transactions of a read, or of a block that
\* shares a node with another one, takes no IPLD that is still named.  A request
\* fails for want of a header row only beside a Clean.
ReferencedStored ==
  /\ \A r \in store.rows : FetchIPLD(store, r.item)
  /\ \A b \in Blocks : store.hdr[b] # NoRow => FetchPG(store, Contents[b]["header"])
  /\ Fetch(reader.items) /\ reader # Failed
  /\ reader = NoTd => cfg.clear

\* The tables hold an Ethereum block section by section, whole or not at all,
\* and no row outlives its parent: Index is one transaction, its keys begin with
\* the header, and cleaning a table takes what hangs below it.
SectionsWhole ==
  /\ \A r \in store.rows :
       /\ store.hdr[r.blk] # NoRow
       /\ r.sec = "receipts" => RetrieveCIDs(store, r.blk, "transactions") # {}
       /\ r.sec = "storage" => RetrieveCIDs(store, r.blk, "state") # {}
  /\ eth => \A b \in Blocks, s \in {EthSections[i] : i \in 2..6} :
              RetrieveCIDs(store, b, s) \in {{}, Contents[b][s]}

\* When resync returns, every height of the range it did not fail to store
\* holds a whole block again, whatever it cleaned and whatever the node did.
ResyncRestores ==
  pc = "done" /\ eth =>
    \A h \in cfg.range[1]..cfg.range[2] : h \notin lost =>
      \E b \in RetrieveHeaderCIDs(store, h) :
        \A i \in 2..6 : SectionRows(b, EthSections[i]) \subseteq store.rows

\* Resync ends: the workers take every section and every quit signal.
ResyncEnds == <>(pc \in {"done", "failed"})
=============================================================================
