---------------------------- MODULE EventWatcher ----------------------------
(***************************************************************************)
(* The event watcher (libraries/shared/watcher/event_watcher.go): one      *)
(* goroutine extracts the logs of unchecked headers, one delegates         *)
(* untransformed logs to the transformers, while headerSync inserts and    *)
(* deletes the headers they read.  An error of either goroutine ends the   *)
(* process; it is started again with the same transformers or more.        *)
(***************************************************************************)
EXTENDS HeaderTable

CONSTANTS
  Transformers,  \* EventTransformerConfigs: [name, addrs, topic, start]
  Blocks,        \* the blocks <<number, fork>> headerSync may store
  LogsOf,        \* block -> its logs [addr, topic, tx]
  CheckCount,    \* getCheckCount: 1, or RecheckHeaderCap with --recheck-headers
  MaxId,         \* bound: headers inserted
  MaxFaults      \* bound: failures that are not the database's own

ASSUME EventWatcherAssumption ==
  /\ Blocks \subseteq Nat \X Nat
  /\ \A t \in Transformers : t.start \in Nat
  /\ CheckCount \in Nat \ {0}
  /\ MaxId \in Nat /\ MaxFaults \in Nat

VARIABLES
  logs,     \* header_sync_logs: [hid, log, transformed]
  txs,      \* header_sync_transactions: <<hid, tx>>
  events,   \* the transformers' tables: <<hid, log, transformer>>
  watched,  \* watched_logs: [addr, topic, start], start being of the model only:
            \* headers were unchecked from there on when the pair was marked
  life,     \* the process: its transformers and those still to be added; lost,
            \* of the model only: the events marked logs lacked at the last start
  ext,      \* the extractor's goroutine
  del,      \* the delegator's goroutine
  faults

vars == <<headers, nextId, logs, txs, events, watched, life, ext, del, faults>>

NoExtract == [pc |-> "idle", todo |-> {}, cur |-> {}, got |-> {}]
NoDelegate == [pc |-> "idle", rows |-> {}, left |-> {}]
Topics == {t.topic : t \in life.running}
Addresses == UNION {t.addrs : t \in life.running}
StartingBlock == CHOOSE s \in {t.start : t \in life.running} : \A t \in life.running : s <= t.start
Relevant(t, log) == log.addr \in t.addrs /\ log.topic = t.topic
WatchedBy(t) == {[addr |-> a, topic |-> t.topic, start |-> t.start] : a \in t.addrs}
IsWatched(addr, topic) == \E w \in watched : w.addr = addr /\ w.topic = topic
HasRow(hid, log) == \E r \in logs : r.hid = hid /\ r.log = log

Init ==
  /\ TableInit
  /\ logs = {} /\ txs = {} /\ events = {} /\ watched = {}
  /\ life = [pc |-> "down", running |-> {}, adding |-> {}, unchecked |-> {}, lost |-> {}]
  /\ ext = NoExtract /\ del = NoDelegate /\ faults = 0
-----------------------------------------------------------------------------
(* headerSync, another process; ON DELETE CASCADE takes the rows along *)

HeaderInserted ==
  /\ nextId <= MaxId
  /\ \E b \in Blocks : InternalInsertHeader(b[1], b[2])
  /\ UNCHANGED <<logs, txs, events, watched, life, ext, del, faults>>

HeadersDeleted ==
  \E n \in {b[1] : b \in Blocks} :
    LET gone == {h.id : h \in RowsAt(n)}
    IN  /\ gone # {} /\ nextId <= MaxId
        /\ DeleteHeaders(n)
        /\ logs' = {r \in logs : r.hid \notin gone}
        /\ txs' = {x \in txs : x[1] \notin gone}
        /\ events' = {e \in events : e[1] \notin gone}
        /\ UNCHANGED <<watched, life, ext, del, faults>>
-----------------------------------------------------------------------------
(* The process *)

\* Events that will never be: their log is marked with another one's.
Unwritten(c) == UNION {{<<e[1], e[2], t>> : e \in {x \in events : Relevant(t, x[2])}} : t \in c} \ events

\* A (re)start with at least the transformers of the last run. NewEventWatcher
\* leaves the extractor's CheckedLogsRepository unset; the model is of an
\* extractor that was given one, as in its tests.
AddTransformers ==
  /\ life.pc = "down"
  /\ \E c \in SUBSET Transformers \ {{}} :
       /\ life.running \subseteq c
       /\ life' = [pc |-> "setup", running |-> c, adding |-> c, unchecked |-> {},
                   lost |-> life.lost \cup Unwritten(c)]
  /\ UNCHANGED <<headers, nextId, logs, txs, events, watched, ext, del, faults>>

\* The pairs are looked up whatever starting block they were marked with.
AlreadyWatchingLog(t) ==
  /\ life.pc = "setup" /\ life.unchecked = {} /\ t \in life.adding
  /\ \A a \in t.addrs : IsWatched(a, t.topic)
  /\ life' = [life EXCEPT !.adding = @ \ {t}]
  /\ UNCHANGED <<headers, nextId, logs, txs, events, watched, ext, del, faults>>

UncheckHeaders(t) ==
  /\ life.pc = "setup" /\ life.unchecked = {} /\ t \in life.adding
  /\ \E a \in t.addrs : ~IsWatched(a, t.topic)
  /\ MarkHeadersUnchecked(t.start) /\ UNCHANGED nextId
  /\ life' = [life EXCEPT !.unchecked = {t}]
  /\ UNCHANGED <<logs, txs, events, watched, ext, del, faults>>

\* Mutant: the pair is marked before the headers are.
MarkWatchedFirst(t) ==
  /\ life.pc = "setup" /\ t \in life.adding
  /\ watched' = watched \cup WatchedBy(t)
  /\ life' = [life EXCEPT !.adding = @ \ {t}]
  /\ UNCHANGED <<headers, nextId, logs, txs, events, ext, del, faults>>

MarkLogWatched(t) ==
  /\ life.pc = "setup" /\ t \in life.unchecked
  /\ watched' = watched \cup WatchedBy(t)
  /\ life' = [life EXCEPT !.adding = @ \ {t}, !.unchecked = {}]
  /\ UNCHANGED <<headers, nextId, logs, txs, events, ext, del, faults>>

Execute ==
  /\ life.pc = "setup" /\ life.adding = {}
  /\ life' = [life EXCEPT !.pc = "up"]
  /\ UNCHANGED <<headers, nextId, logs, txs, events, watched, ext, del, faults>>

\* A call of either goroutine or of the set-up fails.
Fail ==
  /\ life.pc # "down" /\ faults < MaxFaults
  /\ faults' = faults + 1
  /\ \/ life' = [life EXCEPT !.pc = "fatal"] /\ UNCHANGED <<ext, del>>
     \/ ext.pc # "idle" /\ ext' = [ext EXCEPT !.pc = "error"] /\ UNCHANGED <<life, del>>
     \/ del.pc # "idle" /\ del' = [del EXCEPT !.pc = "error"] /\ UNCHANGED <<life, ext>>
  /\ UNCHANGED <<headers, nextId, logs, txs, events, watched>>

\* The first error on a channel is Execute's result, and the command's end.
Exit ==
  /\ life.pc = "fatal" \/ "error" \in {ext.pc, del.pc}
  /\ life' = [life EXCEPT !.pc = "down", !.adding = {}, !.unchecked = {}]
  /\ ext' = NoExtract /\ del' = NoDelegate
  /\ UNCHANGED <<headers, nextId, logs, txs, events, watched, faults>>
-----------------------------------------------------------------------------
(* LogExtractor.ExtractLogs: the header ids it works through may be stale *)

ExtractLogs ==
  /\ life.pc = "up" /\ ext.pc = "idle"
  /\ UncheckedHeaders(StartingBlock, CheckCount) # {}
  /\ ext' = [NoExtract EXCEPT !.pc = "next", !.todo = UncheckedHeaders(StartingBlock, CheckCount)]
  /\ UNCHANGED <<headers, nextId, logs, txs, events, watched, life, del, faults>>

\* One query by block hash: any watched address with any watched topic.
FetchLogs ==
  /\ ext.pc = "next"
  /\ \/ ext.todo = {} /\ ext' = NoExtract
     \/ \E h \in ext.todo :
          LET got == {l \in LogsOf[<<h.num, h.fork>>] : l.addr \in Addresses /\ l.topic \in Topics}
          IN  ext' = [pc |-> IF got = {} THEN "mark" ELSE "txs",
                      todo |-> ext.todo \ {h}, cur |-> {h.id}, got |-> got]
  /\ UNCHANGED <<headers, nextId, logs, txs, events, watched, life, del, faults>>

\* Each transaction is a statement of its own; a deleted header is an error.
SyncTransactions ==
  /\ ext.pc = "txs"
  /\ \E hid \in ext.cur :
       LET missing == {l.tx : l \in ext.got} \ {x[2] : x \in {y \in txs : y[1] = hid}}
       IN  \/ missing = {} /\ ext' = [ext EXCEPT !.pc = "logs"] /\ UNCHANGED txs
           \/ /\ missing # {} /\ ~Exists(hid)
              /\ ext' = [ext EXCEPT !.pc = "error"] /\ UNCHANGED txs
           \/ /\ Exists(hid)
              /\ \E x \in missing : txs' = txs \cup {<<hid, x>>}
              /\ UNCHANGED ext
  /\ UNCHANGED <<headers, nextId, logs, events, watched, life, del, faults>>

\* One transaction, ON CONFLICT DO NOTHING.
CreateHeaderSyncLogs ==
  /\ ext.pc = "logs"
  /\ \E hid \in ext.cur :
       IF ~Exists(hid) THEN ext' = [ext EXCEPT !.pc = "error"] /\ UNCHANGED logs
       ELSE /\ logs' = logs \cup {[hid |-> hid, log |-> l, transformed |-> FALSE] :
                                    l \in {k \in ext.got : ~HasRow(hid, k)}}
            /\ ext' = [ext EXCEPT !.pc = "mark"]
  /\ UNCHANGED <<headers, nextId, txs, events, watched, life, del, faults>>

MarkChecked ==
  /\ ext.pc = "mark"
  /\ \E hid \in ext.cur : MarkHeaderChecked(hid)
  /\ ext' = [ext EXCEPT !.pc = "next"]
  /\ UNCHANGED <<nextId, logs, txs, events, watched, life, del, faults>>
-----------------------------------------------------------------------------
(* LogDelegator.DelegateLogs *)

GetUntransformedHeaderSyncLogs == {r \in logs : ~r.transformed}

DelegateLogs ==
  /\ life.pc = "up" /\ del.pc = "idle"
  /\ GetUntransformedHeaderSyncLogs # {}
  /\ del' = [pc |-> "transform", rows |-> GetUntransformedHeaderSyncLogs, left |-> life.running]
  /\ UNCHANGED <<headers, nextId, logs, txs, events, watched, life, ext, faults>>

\* Mutant: the address alone decides.
ChunkByAddress(t) == {r \in del.rows : r.log.addr \in t.addrs}

ChunkLogs(t) == {r \in del.rows : Relevant(t, r.log)}

\* Mutant: the whole snapshot is marked.
CreateMarkAll(t, rows) ==
  /\ events' = events \cup {<<r.hid, r.log, t>> : r \in rows}
  /\ logs' = {[r EXCEPT !.transformed = @ \/ r \in del.rows] : r \in logs}

\* event.Create, one transaction: the events and the marks of their logs.
Create(t, rows) ==
  /\ events' = events \cup {<<r.hid, r.log, t>> : r \in rows}
  /\ logs' = {[r EXCEPT !.transformed = @ \/ r \in rows] : r \in logs}

\* A row whose header is gone violates the foreign keys.
TransformerExecute(t) ==
  /\ del.pc = "transform" /\ t \in del.left
  /\ LET chunk == ChunkLogs(t)
     IN  IF \A r \in chunk : HasRow(r.hid, r.log)
         THEN /\ Create(t, chunk)
              /\ del' = IF del.left = {t} THEN NoDelegate ELSE [del EXCEPT !.left = @ \ {t}]
         ELSE del' = [del EXCEPT !.pc = "error"] /\ UNCHANGED <<events, logs>>
  /\ UNCHANGED <<headers, nextId, txs, watched, life, ext, faults>>
-----------------------------------------------------------------------------
SetUp ==
  \/ AddTransformers \/ Execute
  \/ \E t \in Transformers : AlreadyWatchingLog(t) \/ UncheckHeaders(t) \/ MarkLogWatched(t)
Extractor == ExtractLogs \/ FetchLogs \/ SyncTransactions \/ CreateHeaderSyncLogs \/ MarkChecked
Delegator == DelegateLogs \/ \E t \in Transformers : TransformerExecute(t)

Next == HeaderInserted \/ HeadersDeleted \/ SetUp \/ Fail \/ Exit \/ Extractor \/ Delegator

\* The process is started again when it ends, and its calls return.
Fairness == WF_vars(SetUp) /\ WF_vars(Exit) /\ WF_vars(Extractor) /\ WF_vars(Delegator)

Spec == Init /\ [][Next]_vars /\ Fairness
-----------------------------------------------------------------------------
(* Properties *)

\* A header counts as checked for a watched pair, from the starting block the
\* pair was marked with on, only when every log of that pair in its block is
\* stored, under the header it belongs to and with its transaction: through
\* added transformers, failures between any two statements, and headers deleted
\* under the extractor.
CheckedMeansExtracted ==
  \A w \in watched, h \in headers :
    h.checks > 0 /\ h.num >= w.start =>
      \A l \in {k \in LogsOf[<<h.num, h.fork>>] : k.addr = w.addr /\ k.topic = w.topic} :
        HasRow(h.id, l) /\ <<h.id, l.tx>> \in txs

\* A stored log is marked transformed exactly when one of the transformers it
\* is for has an event of it, and no event outlives its log or is another
\* transformer's: the delegator works on a snapshot that ages.
EventsExact ==
  /\ \A r \in logs : r.transformed <=> \E t \in Transformers : <<r.hid, r.log, t>> \in events
  /\ \A e \in events : HasRow(e[1], e[2]) /\ Relevant(e[3], e[2])

\* When headers and failures have come to rest, every log a running transformer
\* asked for has its event, the transformer's own, for good.  Two kinds of events
\* the code loses: of a log that the chunker gives to several transformers, when
\* the process ended after the first of them marked it, or a transformer was
\* added afterwards; and of blocks before the one its pair was first marked with.
EventsTransformed ==
  <>[](\A t \in life.running, h \in headers :
         h.num >= t.start =>
           \A l \in {k \in LogsOf[<<h.num, h.fork>>] : Relevant(t, k)} :
             \/ <<h.id, l, t>> \in events \cup life.lost
             \/ \A w \in watched : w.addr = l.addr /\ w.topic = l.topic => h.num < w.start)
=============================================================================
