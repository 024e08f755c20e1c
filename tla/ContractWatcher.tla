--------------------------- MODULE ContractWatcher ---------------------------
(***************************************************************************)
(* The contract watcher (libraries/shared/watcher/contract_watcher.go) and *)
(* the header transformer it runs on every tick                            *)
(* (pkg/eth/contract_watcher): for each header not yet checked for the     *)
(* watched events it stores the contracts' logs and then polls their       *)
(* methods with the arguments the logs have emitted, while headerSync      *)
(* inserts and deletes headers.  Addresses and hashes, which are collected *)
(* alike, are one kind of argument.                                        *)
(***************************************************************************)
EXTENDS HeaderTable, TLC

CONSTANTS
  Contracts,  \* the contracts of the configuration
  Raws,       \* the configurations: contract -> what the file gives for it
  Abi,        \* contract -> the events and the methods of its ABI
  Arity,      \* method -> the number of its arguments
  Plain,      \* the methods all of whose types can be polled and stored
  Returns,    \* method -> the argument values among what it returns
  Blocks,     \* the blocks <<number, fork>> headerSync may store
  LogsOf,     \* block -> its logs [addr, event, args]
  MaxId,      \* bound: headers inserted
  MaxFaults   \* bound: failed calls and restarts

VARIABLES
  raw,      \* the configuration, one of Raws
  checked,  \* checked_headers: <<header id, column>> with a count above 0
  events,   \* the event tables: <<header id, log>>
  results,  \* the method tables: <<contract, method, block number, inputs>>
  tables,   \* the event and method tables that exist: <<contract, name>>
  args,     \* contract -> EmittedAddrs and EmittedHashes, in memory only
  tr,       \* the transformer
  faults

vars == <<raw, headers, nextId, checked, events, results, tables, args, tr, faults>>

Least(S) == CHOOSE n \in S : \A m \in S : n <= m
Nums(rows) == {h.num : h \in rows}
-----------------------------------------------------------------------------
(* PrepConfig and parser.go: what is watched *)

\* Only startingBlock has to be given; a list that is not given is empty.
PrepConfig(given) ==
  given @@ [events |-> {}, methods |-> {}, eventArgs |-> {}, methodArgs |-> {}, piping |-> FALSE]

Config == [c \in Contracts |-> PrepConfig(raw[c])]

\* No event wanted by name: all of them.
GetEvents(c) ==
  IF Config[c].events = {} THEN Abi[c].events ELSE Config[c].events \cap Abi[c].events

okTypes(m) == Arity[m] < 3 /\ m \in Plain

\* The array has a place for each wanted method; the place of one that cannot be
\* polled keeps the zero value, a method without a name and a return value.
Blank == "blank"
GetSelectMethods(c) ==
  {IF m \in Abi[c].methods /\ okTypes(m) THEN m ELSE Blank : m \in Config[c].methods}

Events  == [c \in Contracts |-> GetEvents(c)]
Methods == [c \in Contracts |-> GetSelectMethods(c)]
ArityOf(m) == IF m = Blank THEN 0 ELSE Arity[m]

EventIds(cs) == UNION {{c} \X Events[c] : c \in cs}
MethodIds(c) == {c} \X Methods[c]
AllMethodIds(cs) == UNION {MethodIds(c) : c \in cs}
-----------------------------------------------------------------------------
\* eventIds and methodIds are the columns Init has added; made is the
\* repositories' cache of the tables they have seen.
Down == [pc |-> "down", running |-> {}, eventIds |-> {}, methodIds |-> {},
         starts |-> <<>>, start |-> 0, made |-> {},
         todo |-> {}, cur |-> {}, got |-> {}, con |-> {}, left |-> {}, work |-> {}, out |-> {}]
Cleared == [tr EXCEPT !.pc = "idle", !.todo = {}, !.cur = {}, !.got = {},
                      !.con = {}, !.left = {}, !.work = {}, !.out = {}]

Init ==
  /\ raw \in Raws /\ TableInit
  /\ checked = {} /\ events = {} /\ results = {} /\ tables = {} /\ faults = 0
  /\ args = [c \in Contracts |-> {}] /\ tr = Down
-----------------------------------------------------------------------------
(* headerSync; checked_headers and the event tables follow on delete, the  *)
(* method tables hold no header id                                         *)

HeaderInserted ==
  /\ nextId <= MaxId
  /\ \E b \in Blocks : InternalInsertHeader(b[1], b[2])
  /\ UNCHANGED <<raw, checked, events, results, tables, args, tr, faults>>

HeadersDeleted ==
  \E n \in {b[1] : b \in Blocks} :
    LET gone == {h.id : h \in RowsAt(n)}
    IN  /\ gone # {} /\ nextId <= MaxId
        /\ DeleteHeaders(n)
        /\ checked' = {x \in checked : x[1] \notin gone}
        /\ events' = {e \in events : e[1] \notin gone}
        /\ UNCHANGED <<raw, results, tables, args, tr, faults>>
-----------------------------------------------------------------------------
(* contract.go *)

WantedEventArg(c, a) == Config[c].eventArgs = {} \/ a \in Config[c].eventArgs
WantedMethodArg(c, a) == Config[c].methodArgs = {} \/ a \in Config[c].methodArgs
PassesEventFilter(c, log) == \E a \in log.args : WantedEventArg(c, a)

\* Contract.Init makes the maps only for methods with arguments.
HasMaps(c) == \E m \in Methods[c] : ArityOf(m) > 0

AddEmitted(c, values) ==
  IF HasMaps(c)
  THEN [args EXCEPT ![c] = @ \cup {a \in values : WantedMethodArg(c, a)}]
  ELSE args
-----------------------------------------------------------------------------
(* header_repository.go *)

\* Mutant: a header with a row in checked_headers is never missing.
MissingHeadersNoRow(start, ids) ==
  {h \in headers : h.num >= start /\ \A x \in checked : x[1] # h.id}

MissingHeadersForAll(start, ids) ==
  {h \in headers : h.num >= start /\ \/ \A x \in checked : x[1] # h.id
                                     \/ \E i \in ids : <<h.id, i>> \notin checked}

\* The rows come ordered by number: the first of every height up to the first
\* gap or second row of a height.
ContinuousHeaders(rows) ==
  {S \in SUBSET rows :
     /\ S = {} <=> rows = {}
     /\ \A g, h \in S : g.num = h.num => g = h
     /\ rows # {} =>
          LET lo == Least(Nums(rows))
              end == CHOOSE n \in lo..(lo + Cardinality(rows)) :
                       /\ \A k \in lo..(n - 1) : Cardinality({h \in rows : h.num = k}) = 1
                       /\ Cardinality({h \in rows : h.num = n}) # 1
          IN  Nums(S) = (lo..end) \cap Nums(rows)}

\* The INSERT names every column: without one it is malformed.
MarkRefused(hid, ids) == ~Exists(hid) \/ ids = {}
MarkHeaderCheckedForAll(hid, ids) == checked' = checked \cup ({hid} \X ids)
-----------------------------------------------------------------------------
(* ContractWatcher.AddTransformers and Transformer.Init; execute.go drops  *)
(* the error, and the contracts set up before it are watched               *)

\* The first header stored; an empty table counts as 0.
RetrieveFirstBlock == IF headers = {} THEN 0 ELSE Least(Nums(headers))

\* math.MaxInt64: no header has that number.
MaxInt64 == 1 + CHOOSE n \in {b[1] : b \in Blocks} : \A b \in Blocks : b[1] <= n

StartingBlock(c) ==
  IF RetrieveFirstBlock < Config[c].start THEN Config[c].start ELSE RetrieveFirstBlock

\* The contracts cs are set up in full. One more may have failed at a column: it
\* is watched with the columns added before, an event's preceding a method's, and
\* Start does not heed it.
Watching(cs, run, E, M) ==
  [Down EXCEPT !.pc = "idle", !.running = run, !.eventIds = E, !.methodIds = M,
     !.starts = [c \in run |-> StartingBlock(c)],
     !.start = IF cs = {} THEN MaxInt64 ELSE Least({StartingBlock(c) : c \in cs})]

TransformerInit ==
  /\ tr.pc = "down"
  /\ \E cs \in SUBSET Contracts : \E run \in {cs} \cup {cs \cup {c} : c \in Contracts \ cs} :
       \E E \in SUBSET EventIds(run), M \in SUBSET AllMethodIds(run) :
         /\ EventIds(cs) \subseteq E /\ AllMethodIds(cs) \subseteq M
         /\ \A i \in M : EventIds({i[1]}) \subseteq E
         /\ run = cs \/ E # EventIds(run) \/ M # AllMethodIds(run)
         /\ cs # Contracts => faults < MaxFaults
         /\ faults' = IF cs = Contracts THEN faults ELSE faults + 1
         /\ tr' = Watching(cs, run, E, M)
  /\ args' = [c \in Contracts |-> {}]
  /\ UNCHANGED <<raw, headers, nextId, checked, events, results, tables>>

Execute ==
  /\ tr.pc = "idle" /\ tr.running # {}
  /\ \E S \in ContinuousHeaders(MissingHeadersForAll(tr.start, tr.eventIds)) :
       S # {} /\ tr' = [tr EXCEPT !.pc = "next", !.todo = S]
  /\ UNCHANGED <<raw, headers, nextId, checked, events, results, tables, args, faults>>

\* All watched addresses and topics at the hash of the next header; without a
\* topic, all logs of the addresses.
FetchLogs ==
  /\ tr.pc = "next" /\ tr.todo # {}
  /\ \E h \in {g \in tr.todo : g.num = Least(Nums(tr.todo))} :
       LET got == {l \in LogsOf[<<h.num, h.fork>>] :
                     /\ l.addr \in tr.running
                     /\ tr.eventIds = {} \/ l.event \in {i[2] : i \in tr.eventIds}}
       IN  tr' = [tr EXCEPT !.start = h.num, !.todo = @ \ {h}, !.cur = {h}, !.got = got,
                    !.left = {l.addr : l \in got}, !.pc = "events"]
  /\ UNCHANGED <<raw, headers, nextId, checked, events, results, tables, args, faults>>

\* Converter.ConvertBatch: the wanted logs by event, and the values they emit.
ConvertBatch(c) ==
  /\ tr.pc = "events" /\ tr.work = {} /\ c \in tr.left
  /\ LET own == {l \in tr.got : /\ l.addr = c /\ l.event \in Events[c]
                                /\ PassesEventFilter(c, l)}
     IN  /\ tr' = [tr EXCEPT !.left = @ \ {c}, !.con = {c}, !.work = {l.event : l \in own}]
         /\ args' = AddEmitted(c, UNION {l.args : l \in own})
  /\ UNCHANGED <<raw, headers, nextId, checked, events, results, tables, faults>>

\* CreateContractSchema and CreateEventTable, or CreateMethodTable: a table that
\* is not in the cache is made unless it exists, in a transaction of its own.
CreateTable(c, x) ==
  /\ <<c, x>> \notin tr.made
  /\ tables' = tables \cup {<<c, x>>}
  /\ tr' = [tr EXCEPT !.made = @ \cup {<<c, x>>}]
  /\ UNCHANGED <<raw, headers, nextId, checked, events, results, args, faults>>

CreateEventTable(e) ==
  tr.pc = "events" /\ e \in tr.work /\ \E c \in tr.con : CreateTable(c, e)

CreateMethodTable(m) ==
  (\E o \in tr.out : m = o[1]) /\ \E c \in tr.con : CreateTable(c, m)

\* PersistLogs: one transaction an event.
PersistLogs(e) ==
  /\ tr.pc = "events" /\ e \in tr.work
  /\ \E h \in tr.cur, c \in tr.con :
       /\ <<c, e>> \in tr.made
       /\ IF ~Exists(h.id) THEN tr' = Cleared /\ UNCHANGED events
          ELSE /\ events' = events \cup {<<h.id, l>> : l \in {k \in tr.got :
                               k.addr = c /\ k.event = e /\ PassesEventFilter(c, k)}}
               /\ tr' = [tr EXCEPT !.work = @ \ {e}]
  /\ UNCHANGED <<raw, headers, nextId, checked, results, tables, args, faults>>

\* Mutant: a contract is not polled at its first block.
PolledAfterStart(h) == {c \in tr.running : Methods[c] # {} /\ h.num > tr.starts[c]}

Polled(h) == {c \in tr.running : Methods[c] # {} /\ h.num >= tr.starts[c]}

\* Mutant: the header is marked while logs are still to be stored.
MarkEventsEarly ==
  /\ tr.pc = "events" /\ tr.left = {}
  /\ \E h \in tr.cur :
       IF MarkRefused(h.id, tr.eventIds) THEN tr' = Cleared /\ UNCHANGED checked
       ELSE /\ MarkHeaderCheckedForAll(h.id, tr.eventIds)
            /\ tr' = IF tr.work = {} THEN [tr EXCEPT !.pc = "poll", !.con = {}, !.left = Polled(h)]
                                     ELSE tr
  /\ UNCHANGED <<raw, headers, nextId, events, results, tables, args, faults>>

MarkEvents ==
  /\ tr.pc = "events" /\ tr.left = {} /\ tr.work = {}
  /\ \E h \in tr.cur :
       IF MarkRefused(h.id, tr.eventIds) THEN tr' = Cleared /\ UNCHANGED checked
       ELSE /\ MarkHeaderCheckedForAll(h.id, tr.eventIds)
            /\ tr' = [tr EXCEPT !.pc = "poll", !.con = {}, !.left = Polled(h)]
  /\ UNCHANGED <<raw, headers, nextId, events, results, tables, args, faults>>

\* Transformer.methodPolling: PollContractAt for one contract after another.
PollContractAt(c) ==
  /\ tr.pc = "poll" /\ tr.con = {} /\ c \in tr.left
  /\ tr' = [tr EXCEPT !.con = {c}, !.left = @ \ {c}, !.work = Methods[c]]
  /\ UNCHANGED <<raw, headers, nextId, checked, events, results, tables, args, faults>>

Inputs(m, S) ==
  CASE ArityOf(m) = 0 -> {<<>>} [] ArityOf(m) = 1 -> {<<a>> : a \in S} [] OTHER -> S \X S

\* pollNoArgAt, pollSingleArgAt, pollDoubleArgAt call the node for one batch of
\* inputs.  A value piped into the map while the loop ranges over it may be used
\* at once.
PollMethod(m) ==
  /\ tr.pc = "poll" /\ m \in tr.work \ {Blank} /\ tr.out = {}
  /\ \E c \in tr.con :
       LET now == Inputs(m, args[c])
           piped == IF Config[c].piping /\ now # {} THEN AddEmitted(c, Returns[m]) ELSE args
       IN  /\ args' = piped
           /\ \/ now = {} /\ tr' = [tr EXCEPT !.work = @ \ {m}]
              \/ \E ins \in SUBSET Inputs(m, piped[c]) :
                   now # {} /\ now \subseteq ins /\ tr' = [tr EXCEPT !.out = {m} \X ins]
  /\ UNCHANGED <<raw, headers, nextId, checked, events, results, tables, faults>>

\* A method without a return value: m.Return[0] panics.
PollBlank ==
  /\ tr.pc = "poll" /\ Blank \in tr.work /\ tr.out = {}
  /\ tr' = Down
  /\ UNCHANGED <<raw, headers, nextId, checked, events, results, tables, args, faults>>

\* The batch is stored in one transaction, under the block's number.
PersistResults(m) ==
  /\ tr.out # {} /\ \A o \in tr.out : o[1] = m
  /\ \E h \in tr.cur, c \in tr.con :
       /\ <<c, m>> \in tr.made
       /\ results' = results \cup {<<c, m, h.num, o[2]>> : o \in tr.out}
  /\ tr' = [tr EXCEPT !.work = @ \ {m}, !.out = {}]
  /\ UNCHANGED <<raw, headers, nextId, checked, events, tables, args, faults>>

MarkMethods ==
  /\ tr.pc = "poll" /\ tr.con # {} /\ tr.work = {}
  /\ \E h \in tr.cur, c \in tr.con :
       LET ids == {i \in tr.methodIds : i[1] = c}
       IN  IF MarkRefused(h.id, ids) THEN tr' = Cleared /\ UNCHANGED checked
           ELSE /\ MarkHeaderCheckedForAll(h.id, ids)
                /\ tr' = [tr EXCEPT !.con = {}]
  /\ UNCHANGED <<raw, headers, nextId, events, results, tables, args, faults>>

\* Only now does Start move past the header.
HeaderDone ==
  /\ tr.pc = "poll" /\ tr.left = {} /\ tr.con = {}
  /\ \E h \in tr.cur :
       tr' = IF tr.todo = {} THEN [Cleared EXCEPT !.start = h.num + 1]
                             ELSE [tr EXCEPT !.pc = "next", !.start = h.num + 1]
  /\ UNCHANGED <<raw, headers, nextId, checked, events, results, tables, args, faults>>

\* A call fails, which ends Execute, or the process is killed.
Fail ==
  /\ tr.pc # "down" /\ faults < MaxFaults
  /\ faults' = faults + 1
  /\ \/ tr.pc # "idle" /\ tr' = Cleared
     \/ tr' = Down
  /\ UNCHANGED <<raw, headers, nextId, checked, events, results, tables, args>>
-----------------------------------------------------------------------------
Transform ==
  \/ TransformerInit \/ Execute \/ FetchLogs \/ MarkEvents \/ MarkMethods \/ HeaderDone \/ PollBlank
  \/ \E c \in tr.running : ConvertBatch(c) \/ PollContractAt(c)
  \/ \E e \in tr.work : CreateEventTable(e) \/ PersistLogs(e)
  \/ \E m \in tr.work : PollMethod(m) \/ CreateMethodTable(m) \/ PersistResults(m)

Next == HeaderInserted \/ HeadersDeleted \/ Transform \/ Fail

\* The ticker ticks, calls return, and a process that ended is started again.
Spec == Init /\ [][Next]_vars /\ WF_vars(Transform)
-----------------------------------------------------------------------------
(* Properties *)

\* A watched event's column of a header is set only when every wanted log of that
\* event in the header's block is stored, also where a method of the same name
\* shares the column: through failures between the
\* transactions, contracts missing from one start and present in the next, and
\* headers replaced while their logs are being stored.
CheckedMeansPersisted ==
  \A h \in headers, c \in Contracts :
    \A l \in {k \in LogsOf[<<h.num, h.fork>>] :
                 k.addr = c /\ k.event \in Events[c] /\ PassesEventFilter(c, k)} :
      <<h.id, <<c, l.event>>>> \in checked => <<h.id, l>> \in events

\* When headers and failures have come to rest, no header from Start on is
\* left unchecked for an event whose column Init has added.
StartCatchesUp ==
  <>[](\A h \in headers, i \in tr.eventIds :
         h.num >= tr.start => <<h.id, i>> \in checked)

\* Only a failure, or a configured method that cannot be polled, can make the
\* transformer leave a contract unpolled at a header it has marked for an event:
\* the mark of the events precedes the polling, and the next Execute looks at the
\* events' marks alone.
MissedPollsNeedFailure ==
  /\ tr.pc = "idle" /\ faults = 0
  /\ \A c \in tr.running : Blank \notin Methods[c]
  => \A h \in headers, c \in tr.running :
       /\ h.num >= tr.starts[c] /\ \E i \in tr.eventIds : <<h.id, i>> \in checked
       => /\ ({h.id} \X MethodIds(c)) \subseteq checked
          /\ \A m \in Methods[c] : ArityOf(m) = 0 => <<c, m, h.num, <<>>>> \in results

=============================================================================
