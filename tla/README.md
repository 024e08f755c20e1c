# A TLA+ model of VulcanizeDB

VulcanizeDB follows a blockchain, publishes its data to IPFS, indexes it in
Postgres, serves it to subscribers, and turns headers, logs and storage diffs into
tables by transformers. This directory holds TLA+ modules that model the program,
the TLC configurations that check them on small instances, and TLAPS proofs of the
main invariants for every size of the parameters. `PROJECT.json` maps every
definition to the lines it models and lists the main hazards with the line where each
one bites.

## 1. Inventory

| Part | State it keeps | Operations | Interacts with | What is hard about it |
|---|---|---|---|---|
| `Service.Sync`, `publishAndIndex` (pkg/super_node/service.go) | two buffered channels, a worker pool, QuitChan | receive, convert, forward, evict, publish, index, quit | streamer, converter, publisher, indexer; Serve through `screenAndServePayload` | the ring buffer is three channel operations; workers interleave with them; Stop |
| `Service.Serve`, `Subscribe`, `sendHistoricalData`, `Unsubscribe`, `Stop`; `PublicSuperNodeAPI.Stream` | `Subscriptions`, `SubscriptionTypes`, per-client channels | subscribe, serve, feed, relay, close | Sync and BackFill feed it; Postgres for history | four goroutines per client, non-blocking sends, two maps under one lock, ranges |
| `BackFillService` (pkg/super_node/backfiller.go) | pass state, `heightsChan`, `QuitChan` | search, dispatch, kill, fetch, convert, publish, index, Stop | header_cids, Serve | one channel with two uses; workers start and die every pass |
| Gap search, batching | header_cids | `RetrieveGapsInData`, `MissingHeightsToGaps`, `GetBlockHeightBins` | BackFill, Resync | boundaries, forks, single heights |
| Publisher, indexer (eth, btc; ipfs and postgres mode) | CID tables, IPLD blocks | `Publish`, `Index`, in one or two transactions | Sync, BackFill, Resync | upserts, cascades, deferred commit whose error is lost |
| Cleaner, Resync | CID tables | `ResetValidation`, `Clean`, `Resync` | a second process on the node's tables | deletes beside an indexing node and its readers |
| Retriever, filterer, fetchers (eth, btc) | none | `Retrieve`, `Filter`, `Fetch` | Subscribe, Serve | two implementations of the same filters |
| JSON-RPC backend | none | eth_getLogs, headers, blocks, transactions | retriever, fetcher | several transactions per answer |
| Header sync (pkg/eth/history) | headers | populate, validate, replace | event and contract watchers | two goroutines write one table; reorganisations |
| Event watcher, log extractor, delegator | headers.check_count, header_sync_logs, watched logs | add transformers, extract, delegate | header sync replaces headers meanwhile | marks and data in separate statements; snapshots that age |
| Contract watcher | checked_headers columns, event and method tables | init, execute, poll | header sync | two kinds of marks; a continuous run of headers; argument lists |
| Storage watcher, queue, storage backfill | storage_diff, queued_storage | process row, process queue, backfill | statediff stream, transformers | crash between two writes; lost wakeups |
| Plugin composition | vendor directories, .go and .so files, migrations | prepare, write, build, migrate, clean up | custom transformers | a step fails, or the process is killed, between two |
| Start-up | configuration | which parts run, from which constructors | all of the super node | combinations of chain, mode and processes |
| Super node watcher, IPLD encodings | | | | unfinished; data layout |

For each part the properties that make it correct:

* Sync: a converted payload is published at most once and lost only by a logged
  error or by eviction of the oldest; the head is followed on; Stop ends the pool.
* Subscriptions: the maps agree, a client that is no longer served is told,
  packets lie in the range asked for, a feed ends.
* Backfill: a pass starts on a table no earlier worker is writing, a height is
  given out once (but for forks and races with Sync), every gap is filled in the end.
* Gap search: exactly the missing and under-validated heights, each once.
* Index: nothing the index names is missing from the IPLD store; a block is
  indexed section by section, whole or not at all; resync restores what it cleans.
* Filters: history and stream send the same; eth_getLogs finds every log.
* Header sync: no duplicates; headers agree with the chain in the end.
* Event watcher: a checked header has all its logs; a log is transformed by the
  transformers it is for, in the end by each of them (the code loses the events of
  some logs that several transformers share, see section 5).
* Contract watcher: a checked header has all its events and was polled.
* Storage watcher: no persisted diff is forgotten, none is transformed twice without
  a mishap, the queue is worked off as keys become known.
* Storage backfill: the counter, the whole range, the final signal.
* Plugins: migrations in the order of their ranks, a plugin of this configuration,
  a vendor directory as before but for what a failure leaves.
* Start-up: a node that starts has every part its goroutines call.

## 2. Modules

| Module | Models | State and actions |
|---|---|---|
| `SuperNodeSync` | Sync, publishAndIndex, Stop | one action per channel operation or transaction: `Receive`, `ReceiveUnconvertible`, `Screen`, `Forward`, `Evict`, `Push`, `SyncQuit`; per worker `WorkerReceive`, `Publish`, `Index`, `WorkerQuit`; environment `ServeReceive`, `Stop`. `fate` is a history variable |
| `LossyFIFO` | what the ring buffer promises | abstract queue: `Offer`, `Refuse`, `Take`, `Drop` of the oldest |
| `HeaderCIDs`, `BlockHeightBins` | header_cids, the gap search, the batches | pure operators |
| `BackFill` | BackFillService over header_cids | the search statement by statement, `SearchFirst`, `SearchEmpty`, `SearchUnder`, `SearchError`; `Offer`, `Hand`, `Dispatched`, `Kill`, `KillClosed`, `PassDone`, `MainQuit`; per worker `Fetch`, `FetchError`, `Payload`, `PayloadError`, `WorkerQuit`; environment `LiveIndex` (Sync's workers, in any order), `ResetValidation`, `Stop`. `before` and `after` are history variables |
| `Subscriptions` | Stream, Serve, Subscribe, feed, Unsubscribe, Stop | per client `Stream`, `SubscribeRefused`, `Subscribe`, `StartFeed`, `StartFeedError`, `FeedQuit`, `FeedRetrieve`, `FeedBlock`, `FeedComplete`, `RelayPacket`, `RelayFails`, `RelayGone`, `RelayQuit`; `ServeBlock`, `ServeNil`, `ServeCrash`, `ServeQuit`, `IndexBlock`, `Stop` |
| `CIDStore` | tables and IPLDs of both chains | operators on the store: Publish, Index, PublishAndIndex, Clean, ResetValidation, the readers and fetchers |
| `Resync` | Resync, its workers, the node beside it, a reader | `ResyncReset`, `ResyncClean`, `MakeBins`, `SendBin`, `SendQuit`, `Return`; `WorkerFetch`, `WorkerPublish`, `WorkerIndex`, `WorkerFinish`; `NodePublish`, `NodeIndex`; the reader's statements (`BlockByNumber`, `BlockByHash`, `GetTransaction`, `RetrieveSection`, `FetchBlock`, `rpcMarshalBlock`, ...) |
| `EthFilters`, `BtcFilters` | converters, filterers, retrievers, eth_getLogs | pure operators: `Filter` and `History` of the same block, `GetLogs` |
| `Request` | | the variables of a request and its answers, shared by the next five |
| `Answers`, `GapAnswers` | requests about block data and about gaps | what the answers promise |
| `StartUp` | configurations, constructors, NewSuperNode, NewBackFillService, NewResyncService | pure operators: what `superNode` and `NewResyncService` give for an environment; what the commands promise |
| `Compose` | compose: configuration, writer, builder, migration manager | every operator gives the runs that may follow a run; what a run promises |
| `Queries` | composes the four above | a request is chosen in `Init` and answered by `FilterEth`, `HistoryEth`, `FilterBtc`, `HistoryBtc`, `AnswerLogs`, `SearchGaps`, `StartSuperNode`, `StartResync`, `StartCompose`, `StepCompose` |
| `HeaderTable`, `HeaderChain` | the headers table, and the node's chain beside it | one operator or action per SQL statement, shared by the next three |
| `HeaderSync` | headerSync: validator and backfill of headers | `ValidateHeaders`, `PopulateMissingHeaders`; per goroutine `GetHeadersByNumbers`, `CreateOrUpdateHeader`, `ReplaceHeader`, `InsertHeader`, `Finish`, `Fail`; environment `Grow`, `Reorg` |
| `EventWatcher` | AddTransformers, extractor, delegator, transformers | `AddTransformers`, `AlreadyWatchingLog`, `UncheckHeaders`, `MarkLogWatched`, `Execute`; `ExtractLogs`, `FetchLogs`, `SyncTransactions`, `CreateHeaderSyncLogs`, `MarkChecked`; `DelegateLogs`, `TransformerExecute`; `Fail`, `Exit`, `HeaderInserted`, `HeadersDeleted`. `life.lost` and the start kept with a watched pair are history |
| `ContractWatcher` | contract watcher with the header transformer, poller, repositories | `TransformerInit`, `Execute`, `FetchLogs`, `ConvertBatch`, `CreateEventTable`, `PersistLogs`, `MarkEvents`, `PollContractAt`, `PollMethod`, `PollBlank`, `CreateMethodTable`, `PersistResults`, `MarkMethods`, `HeaderDone`, `Fail`; headers as above |
| `StorageWatcher` | Execute, processRow, processQueue, storage_diff, queued_storage, the transformer's key cache | one action per database statement or transformer call: `ReceiveDiff`, `DuplicateDiff`, `CreateStorageDiff`, `CreateStorageDiffError`, `Execute`, `ExecuteError`, `QueueAdd`, `QueueAddError`; `Tick`, `QueueUnwatched`, `QueueExecute`, `QueueExecuteError`, `QueueDelete`, `QueueDeleteError`, `QueueDone`; environment `Deliver`, `Learn`, `Crash`. `mishaps` and `excused` are history variables |
| `StorageBackFill` | StorageWatcher.BackFill, backFiller.BackFill | `BackFill`, `BackFillInitErr`, `BackFillWrapped`; starter `Add`, `Park`, `Start`; per batch `Fetch`, `Send`, `Sent`; tracker `Receive`, `Forward`, `Count`, `Signal` |
| `MC...` | | model values, settings, blocks and symmetry for TLC |
| `SuperNodeSyncProofs` (also of `StartUp`), `BackFillProofs` (also of `HeaderCIDs`), `SubscriptionsProofs` (also of the filters), `StorageWatcherProofs` (also of `Compose`), `StorageBackFillProofs`, `ResyncProofs`, `EventWatcherProofs` (also of `HeaderSync`), `ContractWatcherProofs` | | theorems |

Conventions. A Go statement another goroutine can interleave with is one action;
a critical section under the service's lock, or a database transaction, is one
action. A send on an unbuffered channel is one joint step of both goroutines. A
call that may fail is a choice between its outcomes. A definition whose comment
starts with "Mutant" is a plausible bug; it is used by nothing, and exists to
show that a property would notice it.

What is abstracted. Addresses, topics, hashes and payloads are members of small
sets. In `CIDStore` a row names the multihash of its IPLD; cid and database key are
different values of the same multihash, which is what makes the cleaner's
comparison of the two fail. A block hash is (number, fork). In `Compose` an unsigned
rank has `RankBits` bits, and its conversion to int wraps around.

## 3. Runs

| Run | Checks | Instance |
|---|---|---|
| `sync` | `OnePlace`, `OldestFirst`, the refinement of `LossyFIFO`, `WorkersReturn`, `BufferDrains` | two workers, two slots, three payloads |
| `sync_ringbuffer` (violation) | `RingBufferAccepts`: Sync stalls in the default case of the ring buffer (service.go:228) | one slot |
| `backfill` | `PassIsolation`, `ExclusiveHeights`, `GapsFilled`, `ValidationCatchesUp` | three heights, two workers, batches of two, a validation level of two, three blocks indexed by Sync at any time, one reset, Stop |
| `subscriptions` | `TypesAgree`, `ToldBeforeDropped`, `LiveInRange`, `HistoricalClamped` | two clients with the settings of `ServedSettings`, three heights |
| `subscriptions_liveness` | `QuitEndsRelay`, `FeedsEnd` | one client, forked heights |
| `queries` | `HistoryIsStream`, `BtcHistoryIsStream`, `LogsExact`, `GapsComplete`, `GapsDisjoint`, `PartsComplete`, `ComposeOrdered` | every request of `MCQueries`: settings and blocks in which each criterion is absent, met and missed; every header_cids table of five heights and two hashes, cut into batches of every size; every environment; plugins with good, duplicate, missing and overflowing ranks over disks earlier runs left |
| `resync` | `ReferencedStored`, `SectionsWhole`, `ResyncRestores`, `ResyncEnds` | forked blocks that share nodes, both chains and modes, every data type, two workers |
| `header_sync` | `NoDuplicateHeaders`, `HeadersConverge` | three heights, a window of one, batches of two, one reorganisation, one failure |
| `event_watcher` | `CheckedMeansExtracted`, `EventsExact`, `EventsTransformed` | three transformers, two of them for one pair of address and topic with different starting blocks, two header rows, two failures |
| `contract_watcher` | `CheckedMeansPersisted`, `MissedPollsNeedFailure`, `StartCatchesUp` | two contracts, methods with and without arguments, an Init that may stop at a column, two header rows, two failures |
| `storage_watcher` | `AccountedFor`, `RunsBounded`, `QueuedTransformed` | two diffs delivered twice each, one crash, failing statements |
| `storage_backfill` | `ActiveExact`, `DoneMeansCovered`, `EndsOrStalls` | up to five batches, a limit of two |

Deadlock is not checked where the system may stop: after Stop, when the payloads,
headers or diffs that a bound allows are used up. `queries`, `resync` and
`header_sync` check it.

Bounds. `MaxPayloads`, `MaxHeight`, `MaxLive`, `MaxResets`, `MaxValidated`, `MaxForks`,
`MaxCopies`, `MaxCrashes`, `MaxMishaps`, `MaxStart`, `MaxFirst`, `MaxItems`, `MaxHead`,
`MaxReorgs`, `MaxFaults` and `MaxId` cap counters that are unbounded in the code. Three
payloads over two slots fill the buffer, send Sync to its default case, and let the two
workers empty the buffer before or after it evicts. Three heights give an initial gap,
an inner gap and under-validated rows, and a level of two makes a block that Sync has
just indexed one of these, before, between or after the statements of a search.
`MaxValidated` is only reached at a height that is forked or was found twice, where the
code validates a header again. The instance has no forks, since with them fairness is
needed for each height and TLC does not finish; forked tables are searched in `queries`,
and the theorems about backfill hold with any set of hashes. Five batches under a limit
of two give the starter several chances to park, to be woken in time, late or not at
all. Two copies of a diff are one delivery and one redelivery, before or after the
crash. Two header ids let a header be deleted and stored again while the extractor holds
the id of the old row. One failure can fall between any two statements; two let a
watcher fail while it repairs the first, or end between the two events of a shared log
after an earlier restart. One reorganisation between the reads of two goroutines is the
case `NoDuplicateHeaders` names.

Fairness. Go's scheduler runs every goroutine that can move (weak fairness), and a
select picks among ready cases at random (strong fairness of the quit cases). In
`BackFill` the statements of the gap search and the calls to the archival node, to the
publisher and to Postgres do not fail for ever while they are tried again and again
(strong fairness): the service's design, one more pass after every failure, rests on
that. `StorageWatcher` assumes the same of a transformer that is called with a known key
again and again, for which the queue exists. `HeaderSync`, `EventWatcher` and
`ContractWatcher` bound the failures and assume only that goroutines go on, tickers tick
and, for the event watcher, that the process is started again when it ends. Nothing is
assumed of the node, of clients or of the operator.

## 4. Proofs

| Theorem | For every |
|---|---|
| `TypeCorrect`, `OnePlaceAlways`, `OldestFirstAlways`, `Refinement` (SuperNodeSyncProofs) | pool of workers, capacity, number of payloads |
| `PassIsolationAlways`, `ExclusiveHeightsAlways` (BackFillProofs) | finite pool, table, batch size, validation level |
| `GapsCompleteAlways`, `GapsDisjointAlways` (BackFillProofs) | table over any heights and finite set of hashes, validation level, batch size |
| `PartsCompleteAlways` (SuperNodeSyncProofs) | environment |
| `ComposeOrderedAlways` (StorageWatcherProofs) | pair of configurations with finitely many transformers, width of a rank, number of runs |
| `TypesAgreeAlways`, `ToldBeforeDroppedAlways`, `LiveInRangeAlways`, `HistoricalClampedAlways` (SubscriptionsProofs) | set of clients and settings |
| `HistoryIsStreamAlways`, `BtcHistoryIsStreamAlways`, `LogsExactAlways` (SubscriptionsProofs) | settings, transaction filter, query; block and index |
| `TypeCorrect`, `AccountedForAlways`, `RunsBoundedAlways` (StorageWatcherProofs) | set of diffs and contracts, number of deliveries, crashes and failures |
| `ActiveExactAlways`, `DoneMeansCoveredAlways` (StorageBackFillProofs) | range, batch size, throttle, number of diffs |
| `ReferencedStoredAlways`, `SectionsWholeAlways`, `ResyncRestoresAlways` (ResyncProofs) | set of blocks, what they contain and share, configuration of both chains and modes, pool of workers |
| `CheckedMeansExtractedAlways`, `EventsExactAlways` (EventWatcherProofs) | set of transformers, chain with its logs, number of headers, failures and restarts |
| `NoDuplicateHeadersAlways` (EventWatcherProofs) | starting block, window, batch size, number of reorganisations and failures; nothing is assumed |
| `CheckedMeansPersistedAlways`, `MissedPollsNeedFailureAlways` (ContractWatcherProofs) | set of contracts, configuration and ABI, chain with its logs; nothing is assumed |

*Sync.* `OnePlace` alone is not inductive: that a send does not duplicate a
buffered payload needs the buffer to be in order, and that needs the payload in
hand to be the one streamed last. `IInv` is the conjunction of the type invariant,
`OnePlace`, `OldestFirst` and `Bookkeeping` (nothing that has a fate or a worker
is newer than what was streamed). The refinement maps the payload in Sync's hand
to the end of the abstract queue, so that Evict is a drop of the oldest from a
queue that keeps its newest entry.

*Backfill.* Pass isolation rests on counting: while the kill loop runs, the workers
alive are at most as many as the tokens left to send. Stop makes workers leave earlier
and so only helps. `ExclusiveHeights` adds that a waiting worker has an empty batch,
that the batches not handed out share forked or raced heights only (`ShareInv`), and
that rows are never removed, so that a forked height stays forked. `FoundInv` is about a
search under way: the gaps found so far were empty at the first statement, and meet each
other only behind a first block that has changed since. A height of the third statement
is stored; when it is in an earlier gap it was stored meanwhile.

*Gap search.* `RetrieveGapsInData` is a concatenation of three lists, the last from a
loop over a flattened sequence of rows. Induction over positions is a lemma
(`PositionInduction`): a set of positions that is not everything would have a least one
outside, for the order on Nat is well founded. `Flattens` relates the positions of the
flattened sequence to those of its parts, in order. `Covers` is the invariant of the
loop of MissingHeightsToGaps: the gaps made so far hold exactly the heights read so far,
and a height in two of them was read twice. The gaps between stored heights lie between
neighbours (`After`), so that they meet neither each other nor a stored height, and an
under-validated row is stored: for one state of the table this is the comment "no
overlap" of the source. With `BinsDisjoint` for the batches of one gap, `PassFacts` puts
the pass together. The exception in `GapsComplete`, a single header below the level, is
the case in which the loop over `heights[1:]` has no iteration.

*Compose.* `RunInv` is about one run on any disk, `ComposeInv` about any number of them.
Nothing is claimed of the temporary migration directory: the error of the deferred
`cleanUp` is dropped (manager.go:83), and the model leaves the directory behind or not.
`DiskInv`: the vendor directory holds what was there, what is copied and what is at
fault, and the three are told apart until CleanUp. `MigrationInv`: what has run is a
prefix of the paths GetMigrationsPaths gave. `PathsOrdered` is about these: as many
ranks as the highest one says, none too large, are 0 to n - 1; one path per rank and not
fewer paths than ranks make the map from ranks to paths a bijection, so that a path has
one rank. A panic needs a rank that the conversion to int made smaller
(`PanicNeedsLargeRank`).

*Start-up.* `CommandInv` says that an answer is what the command started; the rest goes
through the constructors: a part that is no error belongs to a known chain and to its
package (`PartFacts`), publisher and indexer depend on the mode in the same way
(`PairFits`), and Max gives at least one worker (`SyncWorkers`, `FillWorkers`).

*Subscriptions.* The agreement of the maps comes first; the other three invariants
use it to conclude that a client is served by the settings it asked for.
`ServeInv` adds the range each feed computed when it started.

*Answers about blocks.* The theorems are about an instance of `Queries`. `AnswerInv`
says that an answer is that of the operator asked; the rest is about the operators.
Section by section the SQL is shown to select what the filterer selects or less
(`NarrowerTxs`, ...): AND is narrower than OR, the two ways to walk the topic slots
agree, receipts matched by transaction depend on the transactions selected before, and a
storage key that equals the text of the index is one that `HexToHash` reads as the same
hash. A wanted key is a pair of a spelling and a hash; the index has one spelling. A row
of the Bitcoin join is an output that meets all criteria at once (`RowsOfOutputs`). For
eth_getLogs, a log that is wanted makes its receipt's metadata match in every slot
(`WantedSelected`), and the bounds that are not given are those of the index
(`LogRangeCovers`).

*Storage watcher.* `AccountedFor` needs that a row is only deleted after a run, and
that the rows in hand are still queued (`QueueInv`). `RunsBounded` is not inductive:
`CountInv` says which diffs still have their regular run to come (not persisted, in
hand, or queued and not just transformed) and which are about to have one under ID 0;
the runs made and about to be made are paid for by the mishaps and the regular run.

*Storage backfill.* `BinsPartition` shows by arithmetic that GetBlockHeightBins cuts a
range into disjoint bins that cover it, the short last one included. `LaunchInv` says
which bins are started, `StarterInv` and `TrackerInv` how many reports were received: the
final signal is sent at as many reports as there are bins, and a range reports once, after
its last diff (`RangeInv`).

*Resync.* `StoreInv` is what every transaction leaves behind: a row has its header, its
parent section and its IPLD, and a section is whole. It is kept by Put, Index and Clean of
both chains; Clean takes no IPLD, since a key is never equal to a cid. `PutInv` says that
nothing is indexed before it is put, `ReadInv` that a reader holds only cids the store has,
and `ProgressInv` that each height of the range is in a section not sent, with a worker,
lost, or restored; at the end only the last two are left.

*Event watcher.* Watched pairs are looked up by address and topic alone, as in the
interface; the model keeps with each pair the starting block its headers were unchecked
from, which is how far back `CheckedMeansExtracted` reaches. `IdInv`: an id names one
row for ever, so what the extractor has in hand for a header that was replaced meanwhile
cannot be taken for the new one's. `ExtractInv`: how much of the header in hand is
stored at each statement. `LifeInv`: watched pairs belong to running transformers, and a
pair becomes watched only when the headers it concerns are unchecked; this is where the
order of MarkHeadersUnchecked and MarkLogWatched counts.

*Header sync.* The theorem is about an instance of `HeaderSync` over the table the event
watcher reads. `SyncInv`: the unique key on number and hash admits one row per block, and
before the first reorganisation the chain, the hands of both goroutines and the table know
one block per height.

*Contract watcher.* A contract whose columns Init could not all add is watched with
those it has, and Start does not heed it. `ColumnInv`: without a failure the columns of
the running contracts are complete. A mark without any column is a malformed statement
and fails. `EventInv`: every log asked for is stored, or its contract and event are
still to come; the mark is set when none is left. `PollInv`: while nothing has failed, a
marked header is polled for every contract that is due, or is the one being polled. It
has to speak of every event column of the running contracts, since the list of headers
is that of the ones with any column unset.

Assumptions are the named ones in the modules (`SyncAssumption`,
`HeaderAssumption`, `BackFillAssumption`, `SubscriptionsAssumption`,
`StorageWatcherAssumption`, `StorageBackFillAssumption`, `EventWatcherAssumption`,
`ResyncAssumption`, `EthAssumption`, `BtcAssumption`, `LogAssumption`,
`RankAssumption`, `PluginAssumption`, `CommandAssumption`): finite pools, sets of hashes and
configurations, positive capacities and batch sizes, natural bounds, flags that are truth
values or numbers, and facts about blocks: one with receipts has transactions, one with storage has
state, only leaves of the state trie have storage, a log has at most four topics, a
Bitcoin transaction has inputs and outputs, a hash names one block. The inductive
invariants hold on the instances of the runs, where TLC checked them first.

Only model-checked are the liveness properties (`WorkersReturn`, `BufferDrains`,
`GapsFilled`, `ValidationCatchesUp`, `QuitEndsRelay`, `FeedsEnd`, `QueuedTransformed`,
`EndsOrStalls`, `ResyncEnds`, `HeadersConverge`, `EventsTransformed`, `StartCatchesUp`): the
prover has no rule for fairness and ENABLED. Every invariant and every action property a
passing run checks is proved.

The proofs changed the model in two places. An expression with several CASE arms that can
apply at once may take any of them in TLA+, while TLC takes the first: `GetMigrationsPaths`
and the constructors of `StartUp` are written with IF and ELSE, in the order in which the
code tests. And the loop of `MissingHeightsToGaps` is a recursive function of its index.

## 5. Findings

The violation run documents a disagreement between the code and its own comments,
quoted in `PROJECT.json`: the ring buffer can stall Sync (`sync_ringbuffer`).

Other behaviour a reader should know of is part of the models without a run of its
own. It shows as the stated exception of a passing property:

* a single under-validated header is not found (`GapsComplete`; utils.go:60);
* a one-block historical range is not clamped (`HistoricalClamped`; service.go:396);
* a height that is forked, or that Sync indexes while the gaps are searched, can be
  handed out twice in one pass: the search is three statements without a transaction,
  and its comment "no overlap" is true of one state of the table only
  (`ExclusiveHeights`; cid_retriever.go:447-487);
* history and stream differ for filters with sources and destinations, for
  `matchTxs` alone, for topics past the fourth slot, for leaf-only storage, for storage
  keys not written as a full lower-case 0x hash, which match live only, and with
  headers off (`Diverges` in `Answers`; cid_retriever.go, ipld_pg_fetcher.go:54); for
  Bitcoin, criteria about outputs must meet in one output (`BtcHistoryIsStream`);
* eth_getLogs over a range with block 0 answers with the logs of every block
  (`LogsExact`; cid_retriever.go:300);
* a node that serves and backfills without syncing has no Filterer, a negative
  number of batches starts no worker, and a Bitcoin node's HTTP endpoint offers
  nothing (`PartsComplete`);
* a crash between storage_diff and queued_storage loses a diff, and a diff that was
  ignored as unwatched is never transformed when its contract is watched later
  (`AccountedFor`);
* the storage backfill can lose the wakeup of its starter and stall
  (`EndsOrStalls`; storage/backfiller.go:101);
* two header rows at one height after a reorganisation between lookup and insert
  (`NoDuplicateHeaders`);
* an event of a log that several transformers want is lost when the process ends after
  the first of them wrote its own, or when the transformer is added later: the log is
  marked for all (log_chunker.go:62); and a pair that is added again with an earlier
  starting block is not unchecked, so its older logs are not extracted
  (`EventsTransformed`, `CheckedMeansExtracted`; extractor.go:138);
* a header whose polling failed is not polled again, although the comment at
  transformer.go:230 says the cycle restarts at it (`MissedPollsNeedFailure`);
* what a killed or failed compose leaves in the vendor directory fails every later
  one, and a rank of 2^63 or more panics (`ComposeOrdered`).

Or it shows as an action:

* a failed conversion forwards nil (`PayloadError`, `ServeNil`), and a subscription
  above the head crashes the Serve goroutine (`ServeCrash`);
* Stop during a backfill pass panics on the closed QuitChan or leaves the dispatcher
  waiting (`KillClosed`, `Hand`; backfiller.go:152, 159);
* a failed historical query, or an early disconnect, leaves a registration behind
  (`StartFeedError`, `Subscribe` after `RelayGone`; service.go:372, api.go:84);
* the error of COMMIT is lost although the comment at publish_and_indexer.go:156
  says that it is returned, and likewise in indexer.go:65 (`Publish`, `Index` of
  `Resync`);
* the cleaner's statements delete no IPLD, since they compare keys with cids
  (`cleanIPLDs`);
* a first storage diff at block 0 wraps around (`BackFillWrapped`);
* compose may leave its temporary migration directory behind and report success
  (`createMigrationCopies`; manager.go:83);
* a contract whose Init failed at a column is watched in part (`Watching`;
  transformer.go:176).

And some concern code before the modelled part: `NewEventWatcher` leaves the
extractor's `CheckedLogsRepository` unset and no implementation of that interface is
in the repository; an event without arguments never passes `PassesEventFilter`,
although its comment says otherwise; `NewBtcSubscriptionConfig` asserts types a TOML
file never gives.

## 6. Not modelled, and the plan

Not modelled: the IPLD encodings (data layout); the super node watcher (its wasm
runner, the processing of ready data and several repository functions are unfinished
in the source); the generated plugin text and its loading by execute; the decoding of
ABI, RLP and storage values; the text layout of JSON answers; flags, logging and
database connections; the WaitGroup of the process (its effect is on the exit only).
The seam between history and stream (service.go:392) and the missing resubscription
(service.go:231) are behaviours of the models without a property, since no document
promises anything about them.

What would come next:

* A composition of Sync, Serve and BackFill over one index.
