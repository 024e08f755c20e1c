----------------------- MODULE ContractWatcherProofs ------------------------
(***************************************************************************)
(* Proofs about ContractWatcher, for every set of contracts, configuration *)
(* and ABI, every chain with its logs, and any number of headers, failures *)
(* and restarts; nothing is assumed of the constants.                      *)
(***************************************************************************)
EXTENDS ContractWatcher, TLAPS

Fields == {"pc", "running", "eventIds", "methodIds", "starts", "start", "made", "todo", "cur", "got",
           "con", "left", "work", "out"}

NoBlank == \A c \in Contracts : Blank \notin Methods[c]

\* The logs of a header's block the running contracts ask for, and the ones of
\* them that are to be stored.
Asked(h) == {l \in LogsOf[<<h.num, h.fork>>] :
               l.addr \in tr.running /\ (tr.eventIds = {} \/ l.event \in {i[2] : i \in tr.eventIds})}
ToStore(l) == l.event \in Events[l.addr] /\ PassesEventFilter(l.addr, l)

TypeInv ==
  /\ DOMAIN tr = Fields /\ tr.running \subseteq Contracts
  /\ nextId \in Nat /\ faults \in Nat
  /\ faults = 0 /\ tr.pc # "down" => tr.running = Contracts

\* The columns are of running contracts, all the events' of one that has a method's,
\* and all there are when nothing failed.
ColumnInv ==
  /\ tr.eventIds \subseteq EventIds(tr.running)
  /\ \A i \in tr.methodIds : EventIds({i[1]}) \subseteq tr.eventIds
  /\ faults = 0 /\ tr.pc # "down" => \A c \in Contracts : MethodIds(c) \subseteq tr.methodIds

\* An id names one row for ever, also in the transformer's list, and only headers
\* that were inserted are checked.
IdInv ==
  /\ \A h \in headers \cup tr.todo \cup tr.cur : h.id \in Nat /\ h.id < nextId
  /\ \A g, h \in headers \cup tr.todo \cup tr.cur : g.id = h.id => g = h
  /\ \A x \in checked : x[1] \in Nat /\ x[1] < nextId

\* The transformer is at one header and one contract, and what it has polled and
\* not stored is of a method of that contract.
HandInv ==
  /\ \A g, h \in tr.cur : g = h
  /\ tr.con \subseteq tr.running /\ \A c, d \in tr.con : c = d
  /\ tr.pc = "poll" => /\ \A m \in tr.work : \E c \in tr.con : m \in Methods[c]
                       /\ \A c \in tr.left \cup tr.con : Methods[c] # {}
  /\ \A o \in tr.out : /\ tr.pc = "poll" /\ o[1] \in tr.work
                       /\ ArityOf(o[1]) = 0 => <<o[1], <<>>>> \in tr.out

\* Every log asked for is stored or still to come, and the header is marked for
\* the events before a method is polled, unless the header is gone.
EventInv ==
  \A h \in tr.cur : Exists(h.id) =>
    /\ tr.pc = "events" =>
         /\ tr.got = Asked(h)
         /\ \A l \in tr.got : ToStore(l) =>
              \/ l.addr \in tr.left
              \/ l.addr \in tr.con /\ l.event \in tr.work
              \/ <<h.id, l>> \in events
    /\ tr.pc = "poll" => ({h.id} \X tr.eventIds) \subseteq checked

\* The contract's methods are polled at the header and marked.
IsPolled(h, c) ==
  /\ ({h.id} \X MethodIds(c)) \subseteq checked
  /\ \A m \in Methods[c] : ArityOf(m) = 0 => <<c, m, h.num, <<>>>> \in results

Marked(h) == \E i \in tr.eventIds : <<h.id, i>> \in checked

\* As long as nothing failed, a marked header is polled for every contract that is
\* due, or is the one being polled.
PollInv ==
  faults = 0 /\ NoBlank =>
    /\ tr.pc = "down" => checked = {}
    /\ \A h \in headers, c \in tr.running : Marked(h) /\ h.num >= tr.starts[c] =>
           \/ IsPolled(h, c)
           \/ tr.pc = "poll" /\ h \in tr.cur /\ c \in tr.left \cup tr.con
    /\ tr.pc = "poll" =>
         \A h \in tr.cur, c \in tr.con : \A m \in Methods[c] \ tr.work :
           ArityOf(m) = 0 => <<c, m, h.num, <<>>>> \in results

IInv == TypeInv /\ ColumnInv /\ IdInv /\ HandInv /\ EventInv /\ CheckedMeansPersisted /\ PollInv
-----------------------------------------------------------------------------
LEMMA InitIInv == Init => IInv
<1> SUFFICES ASSUME Init PROVE IInv
  OBVIOUS
<1>1. /\ DOMAIN tr = Fields /\ tr.pc = "down" /\ tr.running = {} /\ tr.todo = {} /\ tr.cur = {}
      /\ tr.con = {} /\ tr.out = {} /\ tr.eventIds = {} /\ tr.methodIds = {}
  BY DEF Init, Down, Fields
<1>2. headers = {} /\ nextId = 1 /\ checked = {} /\ faults = 0
  BY DEF Init, TableInit
<1> QED
  BY <1>1, <1>2 DEF IInv, TypeInv, ColumnInv, IdInv, HandInv, EventInv, CheckedMeansPersisted, PollInv

\* The configuration is fixed, and with it what is watched, stored and polled.
LEMMA Fixed ==
  ASSUME raw' = raw
  PROVE  /\ Events' = Events /\ Methods' = Methods /\ NoBlank' = NoBlank
         /\ \A c, l : PassesEventFilter(c, l)' = PassesEventFilter(c, l)
         /\ \A l : ToStore(l)' = ToStore(l)
         /\ \A cs : EventIds(cs)' = EventIds(cs)
         /\ \A c : MethodIds(c)' = MethodIds(c)
<1>1. Config' = Config
  BY DEF Config
<1>2. Events' = Events /\ Methods' = Methods
  BY <1>1 DEF Events, Methods, GetEvents, GetSelectMethods
<1>3. \A c, l : PassesEventFilter(c, l)' = PassesEventFilter(c, l)
  BY <1>1 DEF PassesEventFilter, WantedEventArg
<1> QED
  BY <1>2, <1>3 DEF NoBlank, ToStore, EventIds, MethodIds

LEMMA PersistedKept ==
  ASSUME CheckedMeansPersisted, UNCHANGED <<raw, headers, checked, events>>
  PROVE  CheckedMeansPersisted'
BY Fixed DEF CheckedMeansPersisted

\* A step of the transformer adds no column.
LEMMA ColumnsKept ==
  ASSUME ColumnInv, raw' = raw, faults' = 0 => faults = 0 /\ tr.pc # "down",
         tr'.running = tr.running, tr'.eventIds = tr.eventIds, tr'.methodIds = tr.methodIds
  PROVE  ColumnInv'
BY Fixed DEF ColumnInv

LEMMA StutterStep == IInv /\ UNCHANGED vars => IInv'
<1> SUFFICES ASSUME IInv, UNCHANGED vars PROVE IInv'
  OBVIOUS
<1>1. UNCHANGED <<raw, headers, nextId, checked, events, results, tr, faults>>
  BY DEF vars
<1>2. \A h : Asked(h)' = Asked(h)
  BY <1>1, Fixed DEF Asked
<1>3. TypeInv' /\ ColumnInv' /\ IdInv' /\ HandInv'
  BY <1>1, Fixed DEF IInv, TypeInv, ColumnInv, IdInv, HandInv
<1>4. EventInv'
  BY <1>1, <1>2, Fixed DEF IInv, EventInv, Exists, EventIds
<1>5. \A h, c : Marked(h)' = Marked(h) /\ IsPolled(h, c)' = IsPolled(h, c)
  BY <1>1, Fixed DEF Marked, IsPolled, EventIds, MethodIds
<1>6. PollInv'
  BY <1>1, <1>5, Fixed DEF IInv, PollInv
<1> QED
  BY <1>1, <1>3, <1>4, <1>6, PersistedKept DEF IInv
-----------------------------------------------------------------------------
(* headerSync *)

\* A new row has a new id, which has no mark.
LEMMA InsertStep == IInv /\ HeaderInserted => IInv'
<1> SUFFICES ASSUME IInv, HeaderInserted PROVE IInv'
  OBVIOUS
<1> USE DEF IInv
<1>1. PICK b \in Blocks : InternalInsertHeader(b[1], b[2])
  BY DEF HeaderInserted
<1>2. UNCHANGED <<raw, checked, events, results, tables, args, tr, faults>>
  BY DEF HeaderInserted
<1> DEFINE new == [id |-> nextId, num |-> b[1], fork |-> b[2], checks |-> 0]
<1>3. CASE UNCHANGED <<headers, nextId>>
  BY <1>2, <1>3, StutterStep DEF vars
<1>4. CASE headers' = headers \cup {new} /\ nextId' = nextId + 1
  <2>1. new.id = nextId /\ nextId \in Nat
    BY DEF TypeInv
  <2> HIDE DEF new
  <2>2. \A h \in headers \cup tr.todo \cup tr.cur : h.id \in Nat /\ h.id < nextId /\ h.id # new.id
    BY <2>1 DEF IdInv
  <2>3. TypeInv' /\ ColumnInv' /\ HandInv'
    BY <1>2, <1>4, <2>1, Fixed DEF TypeInv, ColumnInv, HandInv
  <2>4. IdInv'
    BY <1>2, <1>4, <2>1, <2>2 DEF IdInv
  <2>5. \A h \in tr.cur : Exists(h.id)' => Exists(h.id)
    BY <1>4, <2>2 DEF Exists
  <2>6. \A h : Asked(h)' = Asked(h)
    BY <1>2, Fixed DEF Asked
  <2>7. EventInv'
    BY <1>2, <2>5, <2>6, Fixed DEF EventInv, EventIds
  <2>8. \A x \in checked : x[1] # new.id
    BY <2>1 DEF IdInv
  <2>9. CheckedMeansPersisted'
    <3> SUFFICES ASSUME NEW h \in headers', NEW c \in Contracts,
                        NEW l \in LogsOf[<<h.num, h.fork>>],
                        l.addr = c, l.event \in Events[c], PassesEventFilter(c, l),
                        <<h.id, <<c, l.event>>>> \in checked
                 PROVE  <<h.id, l>> \in events
      BY <1>2, Fixed DEF CheckedMeansPersisted
    <3>1. h \in headers
      BY <1>4, <2>8
    <3> QED
      BY <3>1 DEF CheckedMeansPersisted
  <2>10. PollInv'
    BY <1>2, <1>4, <2>8, Fixed DEF PollInv, IsPolled, MethodIds, Marked, EventIds
  <2> QED
    BY <2>3, <2>4, <2>7, <2>9, <2>10
<1> QED
  BY <1>1, <1>3, <1>4 DEF InternalInsertHeader

\* The cascade takes the marks and the logs of the deleted rows only.
LEMMA DeleteStep == IInv /\ HeadersDeleted => IInv'
<1> SUFFICES ASSUME IInv, HeadersDeleted PROVE IInv'
  OBVIOUS
<1> USE DEF IInv
<1>1. PICK n \in {b[1] : b \in Blocks} :
        /\ headers' = headers \ RowsAt(n) /\ UNCHANGED nextId
        /\ checked' = {x \in checked : x[1] \notin {h.id : h \in RowsAt(n)}}
        /\ events' = {e \in events : e[1] \notin {h.id : h \in RowsAt(n)}}
        /\ UNCHANGED <<raw, results, tables, args, tr, faults>>
  BY DEF HeadersDeleted, DeleteHeaders
<1> DEFINE gone == {h.id : h \in RowsAt(n)}
<1>2. \A h \in headers' : h \in headers /\ h.id \notin gone
  BY <1>1 DEF RowsAt, IdInv
<1>3. \A id : Exists(id)' => Exists(id) /\ id \notin gone
  BY <1>1, <1>2 DEF Exists
<1>4. /\ \A id, i : <<id, i>> \in checked' <=> <<id, i>> \in checked /\ id \notin gone
      /\ \A id, l : <<id, l>> \in events' <=> <<id, l>> \in events /\ id \notin gone
      /\ checked' \subseteq checked
  BY <1>1
<1> HIDE DEF gone
<1>5. TypeInv' /\ ColumnInv' /\ HandInv' /\ IdInv'
  BY <1>1, <1>2, <1>4, Fixed DEF TypeInv, ColumnInv, HandInv, IdInv
<1>6. \A h : Asked(h)' = Asked(h)
  BY <1>1, Fixed DEF Asked
<1>7. EventInv'
  <2> SUFFICES ASSUME NEW h \in tr.cur, Exists(h.id)'
               PROVE  /\ tr.pc = "events" =>
                           /\ tr.got = Asked(h)
                           /\ \A l \in tr.got : ToStore(l) =>
                                \/ l.addr \in tr.left
                                \/ l.addr \in tr.con /\ l.event \in tr.work
                                \/ <<h.id, l>> \in events'
                      /\ tr.pc = "poll" => \A i \in tr.eventIds : <<h.id, i>> \in checked'
    BY <1>1, <1>6, Fixed DEF EventInv, EventIds
  <2> QED
    BY <1>3, <1>4 DEF EventInv
<1>8. CheckedMeansPersisted'
  <2> SUFFICES ASSUME NEW h \in headers', NEW c \in Contracts,
                      NEW l \in LogsOf[<<h.num, h.fork>>],
                      l.addr = c, l.event \in Events[c], PassesEventFilter(c, l),
                      <<h.id, <<c, l.event>>>> \in checked'
               PROVE  <<h.id, l>> \in events'
    BY <1>1, Fixed DEF CheckedMeansPersisted
  <2> QED
    BY <1>2, <1>4 DEF CheckedMeansPersisted
<1>9. PollInv'
  <2> SUFFICES ASSUME faults = 0, NoBlank PROVE PollInv'
    BY <1>1, Fixed DEF PollInv
  <2>1. \A h \in headers', c \in tr.running : IsPolled(h, c) => IsPolled(h, c)'
    BY <1>1, <1>2, <1>4, Fixed DEF IsPolled, MethodIds
  <2>2. \A h : Marked(h)' => Marked(h)
    BY <1>1, <1>4, Fixed DEF Marked, EventIds
  <2> QED
    BY <1>1, <1>2, <1>4, <2>1, <2>2, Fixed DEF PollInv
<1> QED
  BY <1>5, <1>7, <1>8, <1>9
-----------------------------------------------------------------------------
(* The end of an Execute or of the process *)

\* Execute ends early: nothing is in hand, and unless a failure is counted a
\* header that was being polled is gone.
LEMMA ClearedStep ==
  ASSUME IInv, tr' = Cleared, UNCHANGED <<raw, headers, nextId, checked, events, results>>,
         tr.pc # "down", faults' \in Nat,
         faults' = 0 => faults = 0 /\ (tr.pc = "poll" => \A h \in tr.cur : ~Exists(h.id))
  PROVE  IInv'
<1> USE DEF IInv
<1>1. /\ DOMAIN tr' = Fields /\ tr'.pc = "idle" /\ tr'.todo = {} /\ tr'.cur = {} /\ tr'.con = {}
      /\ tr'.out = {} /\ tr'.running = tr.running /\ tr'.starts = tr.starts
      /\ tr'.eventIds = tr.eventIds /\ tr'.methodIds = tr.methodIds
  BY DEF Cleared, TypeInv, Fields
<1>2. TypeInv' /\ IdInv' /\ HandInv' /\ EventInv' /\ ColumnInv'
  BY <1>1, ColumnsKept DEF TypeInv, IdInv, HandInv, EventInv
<1>3. CheckedMeansPersisted'
  BY PersistedKept
<1>4. PollInv'
  <2> SUFFICES ASSUME faults' = 0, NoBlank PROVE PollInv'
    BY Fixed DEF PollInv
  <2>1. tr.pc = "poll" => \A h \in headers : h \notin tr.cur
    BY DEF Exists
  <2>2. \A h, c : IsPolled(h, c)' = IsPolled(h, c)
    BY Fixed DEF IsPolled, MethodIds
  <2>3. \A h : Marked(h)' = Marked(h)
    BY <1>1, Fixed DEF Marked, EventIds
  <2> QED
    BY <1>1, <2>1, <2>2, <2>3 DEF PollInv
<1> QED
  BY <1>2, <1>3, <1>4

\* The process ends: by a failure, or for want of a method that can be polled.
LEMMA DownStep ==
  ASSUME IInv, tr' = Down, UNCHANGED <<raw, headers, nextId, checked, events, results>>,
         faults' \in Nat, faults' # 0 \/ ~NoBlank
  PROVE  IInv'
<1> USE DEF IInv
<1>1. /\ DOMAIN tr' = Fields /\ tr'.pc = "down" /\ tr'.todo = {} /\ tr'.cur = {} /\ tr'.con = {}
      /\ tr'.out = {} /\ tr'.running = {} /\ tr'.eventIds = {} /\ tr'.methodIds = {}
  BY DEF Down, Fields
<1>2. TypeInv' /\ ColumnInv' /\ IdInv' /\ HandInv' /\ EventInv'
  BY <1>1 DEF TypeInv, ColumnInv, IdInv, HandInv, EventInv
<1> QED
  BY <1>2, PersistedKept, Fixed DEF PollInv

LEMMA FailStep == IInv /\ Fail => IInv'
<1> SUFFICES ASSUME IInv, Fail PROVE IInv'
  OBVIOUS
<1>1. /\ tr.pc # "down" /\ faults' = faults + 1 /\ tr' \in {Cleared, Down}
      /\ UNCHANGED <<raw, headers, nextId, checked, events, results>>
  BY DEF Fail
<1>2. faults' \in Nat /\ faults' # 0
  BY <1>1 DEF IInv, TypeInv
<1> QED
  BY <1>1, <1>2, ClearedStep, DownStep

LEMMA PollBlankStep == IInv /\ PollBlank => IInv'
<1> SUFFICES ASSUME IInv, PollBlank PROVE IInv'
  OBVIOUS
<1>1. /\ tr.pc = "poll" /\ Blank \in tr.work /\ tr' = Down
      /\ UNCHANGED <<raw, headers, nextId, checked, events, results, faults>>
  BY DEF PollBlank
<1>2. \E c \in Contracts : Blank \in Methods[c]
  BY <1>1 DEF IInv, TypeInv, HandInv
<1>3. ~NoBlank /\ faults' \in Nat
  BY <1>1, <1>2 DEF NoBlank, IInv, TypeInv
<1> QED
  BY <1>1, <1>3, DownStep
-----------------------------------------------------------------------------
(* The transformer.  No step of it changes the headers. *)

\* What is left to show of a step that marks and stores nothing.
LEMMA UnmarkedStep ==
  ASSUME IInv, UNCHANGED <<raw, headers, nextId, checked, events, results, faults>>,
         TypeInv', HandInv', EventInv',
         tr'.running = tr.running, tr'.starts = tr.starts,
         tr'.eventIds = tr.eventIds, tr'.methodIds = tr.methodIds,
         tr'.todo \cup tr'.cur \subseteq headers \cup tr.todo \cup tr.cur,
         tr.pc # "down", tr'.pc # "down",
         tr.pc = "poll" => \A h \in headers \cap tr.cur, c \in tr.left \cup tr.con :
                             tr'.pc = "poll" /\ h \in tr'.cur /\ c \in tr'.left \cup tr'.con,
         faults = 0 /\ NoBlank /\ tr'.pc = "poll" =>
           \A h \in tr'.cur, c \in tr'.con : \A m \in Methods[c] \ tr'.work :
             ArityOf(m) = 0 => <<c, m, h.num, <<>>>> \in results
  PROVE  IInv'
<1> USE DEF IInv
<1>1. IdInv' /\ ColumnInv'
  BY ColumnsKept DEF IdInv
<1>2. CheckedMeansPersisted'
  BY PersistedKept
<1>3. \A h, c : IsPolled(h, c)' = IsPolled(h, c)
  BY Fixed DEF IsPolled, MethodIds
<1>4. PollInv'
  <2> SUFFICES ASSUME faults = 0, NoBlank PROVE PollInv'
    BY Fixed DEF PollInv
  <2>1. \A h : Marked(h)' = Marked(h)
    BY Fixed DEF Marked, EventIds
  <2>2. ASSUME NEW h \in headers, NEW c \in tr.running, Marked(h), h.num >= tr.starts[c]
        PROVE  IsPolled(h, c) \/ (tr'.pc = "poll" /\ h \in tr'.cur /\ c \in tr'.left \cup tr'.con)
    BY <2>2 DEF PollInv
  <2> QED
    BY <2>1, <2>2, <1>3, Fixed DEF PollInv
<1> QED
  BY <1>1, <1>2, <1>4

\* With no failure the process starts once, on a table without marks.
LEMMA TransformerInitStep == IInv /\ TransformerInit => IInv'
<1> SUFFICES ASSUME IInv, TransformerInit PROVE IInv'
  OBVIOUS
<1> USE DEF IInv
<1>1. PICK cs \in SUBSET Contracts : \E run \in {cs} \cup {cs \cup {c} : c \in Contracts \ cs} :
        \E E \in SUBSET EventIds(run), M \in SUBSET AllMethodIds(run) :
          /\ EventIds(cs) \subseteq E /\ AllMethodIds(cs) \subseteq M
          /\ \A i \in M : EventIds({i[1]}) \subseteq E
          /\ run = cs \/ E # EventIds(run) \/ M # AllMethodIds(run)
          /\ cs # Contracts => faults < MaxFaults
          /\ faults' = IF cs = Contracts THEN faults ELSE faults + 1
          /\ tr' = Watching(cs, run, E, M)
  BY Zenon DEF TransformerInit
<1>c. PICK run \in {cs} \cup {cs \cup {c} : c \in Contracts \ cs} :
        \E E \in SUBSET EventIds(run), M \in SUBSET AllMethodIds(run) :
          /\ AllMethodIds(cs) \subseteq M /\ \A i \in M : EventIds({i[1]}) \subseteq E
          /\ faults' = IF cs = Contracts THEN faults ELSE faults + 1
          /\ tr' = Watching(cs, run, E, M)
  BY <1>1
<1>a. PICK E \in SUBSET EventIds(run), M \in SUBSET AllMethodIds(run) :
        /\ AllMethodIds(cs) \subseteq M /\ \A i \in M : EventIds({i[1]}) \subseteq E
        /\ faults' = IF cs = Contracts THEN faults ELSE faults + 1
        /\ tr' = Watching(cs, run, E, M)
  BY <1>c
<1>2. tr.pc = "down" /\ UNCHANGED <<raw, headers, nextId, checked, events, results>>
  BY DEF TransformerInit
<1>3. /\ DOMAIN tr' = Fields /\ tr'.pc = "idle" /\ tr'.todo = {} /\ tr'.cur = {} /\ tr'.con = {}
      /\ tr'.out = {} /\ tr'.running = run /\ tr'.eventIds = E /\ tr'.methodIds = M
  BY <1>a DEF Watching, Down, Fields
<1>b. run \subseteq Contracts /\ (cs = Contracts => run = Contracts)
  OBVIOUS
<1>4. TypeInv' /\ IdInv' /\ HandInv' /\ EventInv'
  BY <1>a, <1>b, <1>2, <1>3 DEF TypeInv, IdInv, HandInv, EventInv
<1>7. ColumnInv'
  <2>2. faults' = 0 => cs = Contracts
    BY <1>a DEF TypeInv
  <2>3. faults' = 0 => \A c \in Contracts : MethodIds(c) \subseteq M
    BY <1>a, <2>2 DEF AllMethodIds
  <2> QED
    BY <1>a, <1>2, <1>3, <2>3, Fixed DEF ColumnInv
<1>5. CheckedMeansPersisted'
  BY <1>2, PersistedKept
<1>6. PollInv'
  <2> SUFFICES ASSUME faults' = 0, NoBlank PROVE PollInv'
    BY <1>2, Fixed DEF PollInv
  <2>1. faults = 0
    BY <1>a DEF TypeInv
  <2>2. checked = {}
    BY <1>2, <2>1 DEF PollInv
  <2> QED
    BY <1>2, <1>3, <2>2 DEF PollInv, Marked
<1> QED
  BY <1>4, <1>5, <1>6, <1>7

LEMMA ExecuteStep == IInv /\ Execute => IInv'
<1> SUFFICES ASSUME IInv, Execute PROVE IInv'
  OBVIOUS
<1>1. PICK S \in ContinuousHeaders(MissingHeadersForAll(tr.start, tr.eventIds)) :
        tr' = [tr EXCEPT !.pc = "next", !.todo = S]
  BY DEF Execute
<1>2. tr.pc = "idle" /\ UNCHANGED <<raw, headers, nextId, checked, events, results, faults>>
  BY DEF Execute
<1>3. S \subseteq headers
  BY DEF ContinuousHeaders, MissingHeadersForAll
<1>4. /\ DOMAIN tr' = Fields /\ tr'.pc = "next" /\ tr'.todo = S /\ tr'.cur = tr.cur
      /\ tr'.con = tr.con /\ tr'.out = tr.out /\ tr'.running = tr.running
      /\ tr'.starts = tr.starts /\ tr'.work = tr.work
      /\ tr'.eventIds = tr.eventIds /\ tr'.methodIds = tr.methodIds
  BY <1>1 DEF IInv, TypeInv, Fields
<1>5. TypeInv' /\ HandInv' /\ EventInv'
  BY <1>2, <1>4 DEF IInv, TypeInv, HandInv, EventInv
<1> QED
  BY <1>2, <1>3, <1>4, <1>5, UnmarkedStep

LEMMA FetchLogsStep == IInv /\ FetchLogs => IInv'
<1> SUFFICES ASSUME IInv, FetchLogs PROVE IInv'
  OBVIOUS
<1>1. PICK h \in tr.todo :
        tr' = [tr EXCEPT !.start = h.num, !.todo = @ \ {h}, !.cur = {h}, !.got = Asked(h),
                 !.left = {l.addr : l \in Asked(h)}, !.pc = "events"]
  BY DEF FetchLogs, Asked
<1>2. tr.pc = "next" /\ UNCHANGED <<raw, headers, nextId, checked, events, results, faults>>
  BY DEF FetchLogs
<1>3. /\ DOMAIN tr' = Fields /\ tr'.pc = "events" /\ tr'.todo = tr.todo \ {h} /\ tr'.cur = {h}
      /\ tr'.got = Asked(h) /\ tr'.left = {l.addr : l \in Asked(h)}
      /\ tr'.con = tr.con /\ tr'.out = tr.out /\ tr'.running = tr.running
      /\ tr'.starts = tr.starts
      /\ tr'.eventIds = tr.eventIds /\ tr'.methodIds = tr.methodIds
  BY <1>1 DEF IInv, TypeInv, Fields
<1>4. tr.out = {}
  BY <1>2 DEF IInv, HandInv
<1>5. Asked(h)' = Asked(h)
  BY <1>2, <1>3, Fixed DEF Asked
<1>6. TypeInv' /\ HandInv'
  BY <1>2, <1>3, <1>4 DEF IInv, TypeInv, HandInv
<1>7. EventInv'
  BY <1>3, <1>5 DEF EventInv
<1> QED
  BY <1>2, <1>3, <1>6, <1>7, UnmarkedStep

LEMMA ConvertBatchStep ==
  ASSUME IInv, NEW c \in tr.running, ConvertBatch(c) PROVE IInv'
<1> DEFINE own == {l \in tr.got : l.addr = c /\ l.event \in Events[c] /\ PassesEventFilter(c, l)}
<1>1. tr' = [tr EXCEPT !.left = @ \ {c}, !.con = {c}, !.work = {l.event : l \in own}]
  BY DEF ConvertBatch
<1>2. /\ tr.pc = "events" /\ tr.work = {}
      /\ UNCHANGED <<raw, headers, nextId, checked, events, results, faults>>
  BY DEF ConvertBatch
<1>a. \A l \in own : l.event \in {k.event : k \in own}
  OBVIOUS
<1>b. \A l \in tr.got : ToStore(l) /\ l.addr = c => l \in own
  BY DEF ToStore
<1> DEFINE names == {l.event : l \in own}
<1>c. \A l \in tr.got : ToStore(l) /\ l.addr = c => l.event \in names
  BY <1>a, <1>b
<1> HIDE DEF names
<1>3. /\ DOMAIN tr' = Fields /\ tr'.pc = "events" /\ tr'.todo = tr.todo /\ tr'.cur = tr.cur
      /\ tr'.got = tr.got /\ tr'.left = tr.left \ {c} /\ tr'.con = {c} /\ tr'.work = names
      /\ tr'.out = tr.out /\ tr'.running = tr.running /\ tr'.starts = tr.starts
      /\ tr'.eventIds = tr.eventIds /\ tr'.methodIds = tr.methodIds
  BY <1>1, <1>2 DEF IInv, TypeInv, Fields, names
<1>4. tr.out = {}
  BY <1>2 DEF IInv, HandInv
<1>5. TypeInv' /\ HandInv'
  BY <1>2, <1>3, <1>4 DEF IInv, TypeInv, HandInv
<1>6. \A h : Asked(h)' = Asked(h)
  BY <1>2, <1>3, Fixed DEF Asked
<1>7. EventInv'
  BY <1>2, <1>3, <1>6, <1>c, Fixed DEF IInv, EventInv, Exists
<1> QED
  BY <1>2, <1>3, <1>5, <1>7, UnmarkedStep

\* A table of one contract is made: the transformer's place does not change.
LEMMA CreateTableStep ==
  ASSUME IInv, NEW c, NEW x, CreateTable(c, x), tr.con # {}, tr.pc # "down" PROVE IInv'
<1>1. /\ tr' = [tr EXCEPT !.made = @ \cup {<<c, x>>}]
      /\ UNCHANGED <<raw, headers, nextId, checked, events, results, faults>>
  BY DEF CreateTable
<1>2. /\ DOMAIN tr' = Fields /\ tr'.pc = tr.pc /\ tr'.todo = tr.todo /\ tr'.cur = tr.cur
      /\ tr'.got = tr.got /\ tr'.left = tr.left /\ tr'.con = tr.con /\ tr'.work = tr.work
      /\ tr'.out = tr.out /\ tr'.running = tr.running /\ tr'.starts = tr.starts
      /\ tr'.eventIds = tr.eventIds /\ tr'.methodIds = tr.methodIds
  BY <1>1 DEF IInv, TypeInv, Fields
<1>3. TypeInv' /\ HandInv'
  BY <1>1, <1>2, Fixed DEF IInv, TypeInv, HandInv
<1>4. \A h : Asked(h)' = Asked(h)
  BY <1>1, <1>2, Fixed DEF Asked
<1>5. EventInv'
  BY <1>1, <1>2, <1>4, Fixed DEF IInv, EventInv, Exists, EventIds
<1> QED
  BY <1>1, <1>2, <1>3, <1>5, UnmarkedStep DEF IInv, PollInv

LEMMA CreateEventTableStep ==
  ASSUME IInv, NEW e, CreateEventTable(e) PROVE IInv'
BY CreateTableStep DEF CreateEventTable

LEMMA CreateMethodTableStep ==
  ASSUME IInv, NEW m, CreateMethodTable(m) PROVE IInv'
<1>1. tr.pc = "poll"
  BY DEF CreateMethodTable, IInv, HandInv
<1> QED
  BY <1>1, CreateTableStep DEF CreateMethodTable

\* One event's logs are stored with the header, or the header is gone.
LEMMA PersistLogsStep ==
  ASSUME IInv, NEW e, PersistLogs(e) PROVE IInv'
<1> USE DEF IInv
<1>1. PICK h \in tr.cur, c \in tr.con :
        IF ~Exists(h.id) THEN tr' = Cleared /\ UNCHANGED events
        ELSE /\ events' = events \cup {<<h.id, l>> : l \in {k \in tr.got :
                             k.addr = c /\ k.event = e /\ PassesEventFilter(c, k)}}
             /\ tr' = [tr EXCEPT !.work = @ \ {e}]
  BY DEF PersistLogs
<1>2. tr.pc = "events" /\ UNCHANGED <<raw, headers, nextId, checked, results, faults>>
  BY DEF PersistLogs
<1>3. \A g \in tr.cur, d \in tr.con : g = h /\ d = c
  BY DEF HandInv
<1>4. CASE ~Exists(h.id)
  BY <1>1, <1>2, <1>3, <1>4, ClearedStep DEF TypeInv
<1>5. CASE Exists(h.id)
  <2> DEFINE mine == {k \in tr.got : k.addr = c /\ k.event = e /\ PassesEventFilter(c, k)}
  <2>1. events' = events \cup {<<h.id, l>> : l \in mine} /\ tr' = [tr EXCEPT !.work = @ \ {e}]
    BY <1>1, <1>5
  <2>2. /\ DOMAIN tr' = Fields /\ tr'.pc = "events" /\ tr'.todo = tr.todo /\ tr'.cur = tr.cur
        /\ tr'.got = tr.got /\ tr'.left = tr.left /\ tr'.con = tr.con /\ tr'.work = tr.work \ {e}
        /\ tr'.out = tr.out /\ tr'.running = tr.running /\ tr'.starts = tr.starts
        /\ tr'.eventIds = tr.eventIds /\ tr'.methodIds = tr.methodIds
    BY <1>2, <2>1 DEF TypeInv, Fields
  <2>3. events \subseteq events' /\ \A l \in mine : <<h.id, l>> \in events'
    BY <2>1
  <2>4. \A l \in tr.got : ToStore(l) /\ l.addr \in tr.con /\ l.event = e => l \in mine
    BY <1>3 DEF ToStore
  <2> HIDE DEF mine
  <2>5. tr.out = {}
    BY <1>2 DEF HandInv
  <2>6. TypeInv' /\ ColumnInv' /\ HandInv' /\ IdInv'
    BY <1>2, <2>2, <2>5, ColumnsKept DEF TypeInv, HandInv, IdInv
  <2>7. \A g : Asked(g)' = Asked(g)
    BY <1>2, <2>2, Fixed DEF Asked
  <2>8. EventInv'
    <3> SUFFICES ASSUME NEW l \in tr.got, ToStore(l)
                 PROVE  \/ l.addr \in tr.left
                        \/ l.addr \in tr.con /\ l.event \in tr.work \ {e}
                        \/ <<h.id, l>> \in events'
      BY <1>2, <1>3, <1>5, <2>2, <2>7, Fixed DEF EventInv
    <3> QED
      BY <1>2, <1>5, <2>3, <2>4 DEF EventInv
  <2>9. CheckedMeansPersisted'
    BY <1>2, <2>3, Fixed DEF CheckedMeansPersisted
  <2>10. \A g, d : IsPolled(g, d)' = IsPolled(g, d)
    BY <1>2, Fixed DEF IsPolled, MethodIds
  <2>11. PollInv'
    BY <1>2, <2>2, <2>10, Fixed DEF PollInv, Marked, EventIds
  <2> QED
    BY <2>6, <2>8, <2>9, <2>11
<1> QED
  BY <1>4, <1>5

\* The mark of the events comes when every log asked for is stored, and makes
\* every contract that is due one still to be polled.
LEMMA MarkEventsStep == IInv /\ MarkEvents => IInv'
<1> SUFFICES ASSUME IInv, MarkEvents PROVE IInv'
  OBVIOUS
<1> USE DEF IInv
<1>1. PICK h \in tr.cur :
        IF MarkRefused(h.id, tr.eventIds) THEN tr' = Cleared /\ UNCHANGED checked
        ELSE /\ checked' = checked \cup ({h.id} \X tr.eventIds)
             /\ tr' = [tr EXCEPT !.pc = "poll", !.con = {}, !.left = Polled(h)]
  BY DEF MarkEvents, MarkHeaderCheckedForAll
<1>2. /\ tr.pc = "events" /\ tr.left = {} /\ tr.work = {}
      /\ UNCHANGED <<raw, headers, nextId, events, results, faults>>
  BY DEF MarkEvents
<1>3. \A g \in tr.cur : g = h
  BY DEF HandInv
<1>4. CASE MarkRefused(h.id, tr.eventIds)
  BY <1>1, <1>2, <1>3, <1>4, ClearedStep DEF TypeInv
<1>5. CASE ~MarkRefused(h.id, tr.eventIds)
  <2> DEFINE ids == tr.eventIds
  <2>1. /\ checked' = checked \cup ({h.id} \X ids)
        /\ tr' = [tr EXCEPT !.pc = "poll", !.con = {}, !.left = Polled(h)]
    BY <1>1, <1>5
  <2>2. /\ DOMAIN tr' = Fields /\ tr'.pc = "poll" /\ tr'.todo = tr.todo /\ tr'.cur = tr.cur
        /\ tr'.left = Polled(h) /\ tr'.con = {} /\ tr'.work = {}
        /\ tr'.out = tr.out /\ tr'.running = tr.running /\ tr'.starts = tr.starts
        /\ tr'.eventIds = tr.eventIds /\ tr'.methodIds = tr.methodIds
    BY <1>2, <2>1 DEF TypeInv, Fields
  <2>3. /\ \A id, i : <<id, i>> \in checked' => <<id, i>> \in checked \/ (id = h.id /\ i \in ids)
        /\ \A i \in ids : <<h.id, i>> \in checked'
        /\ checked \subseteq checked'
        /\ \A x \in checked' : x \in checked \/ x[1] = h.id
    BY <2>1
  <2>4. tr.out = {}
    BY <1>2 DEF HandInv
  <2>5. \A g \in headers : g.id = h.id => g = h
    BY DEF IdInv
  <2>a. \A c \in Polled(h) : Methods[c] # {}
    BY DEF Polled
  <2>6. TypeInv' /\ ColumnInv' /\ HandInv' /\ IdInv'
    BY <1>2, <2>2, <2>3, <2>4, <2>a, ColumnsKept, Fixed DEF TypeInv, HandInv, IdInv
  <2>7. EventInv'
    BY <1>3, <2>2, <2>3 DEF EventInv
  <2>8. \A l \in Asked(h) : ToStore(l) => <<h.id, l>> \in events
    BY <1>2, <1>5 DEF EventInv, MarkRefused
  <2>9. CheckedMeansPersisted'
    <3> SUFFICES ASSUME NEW g \in headers, NEW c \in Contracts,
                        NEW l \in LogsOf[<<g.num, g.fork>>],
                        l.addr = c, l.event \in Events[c], PassesEventFilter(c, l),
                        <<g.id, <<c, l.event>>>> \in checked'
                 PROVE  <<g.id, l>> \in events
      BY <1>2, Fixed DEF CheckedMeansPersisted
    <3>1. CASE <<g.id, <<c, l.event>>>> \in checked
      BY <3>1 DEF CheckedMeansPersisted
    <3>2. CASE g.id = h.id /\ <<c, l.event>> \in ids
      <4>1. c \in tr.running
        BY <3>2 DEF ColumnInv, EventIds
      <4>2. l \in Asked(h) /\ ToStore(l)
        BY <2>5, <3>2, <4>1 DEF Asked, ToStore
      <4> QED
        BY <2>8, <3>2, <4>2
    <3> QED
      BY <2>3, <3>1, <3>2
  <2>10. PollInv'
    <3> SUFFICES ASSUME faults = 0, NoBlank PROVE PollInv'
      BY <1>2, Fixed DEF PollInv
    <3>1. \A g, c : IsPolled(g, c) => IsPolled(g, c)'
      BY <1>2, <2>3, Fixed DEF IsPolled, MethodIds
    <3>2. ASSUME NEW c \in tr.running, h.num >= tr.starts[c]
          PROVE  IsPolled(h, c)' \/ c \in tr'.left
      <4>1. CASE Methods[c] = {}
        BY <1>2, <4>1, Fixed DEF IsPolled, MethodIds
      <4>2. CASE Methods[c] # {}
        BY <2>2, <3>2, <4>2 DEF Polled
      <4> QED
        BY <4>1, <4>2
    <3>3. ASSUME NEW g \in headers, NEW c \in tr.running, Marked(g)', g.num >= tr.starts[c]
          PROVE  IsPolled(g, c)' \/ (g \in tr'.cur /\ c \in tr'.left)
      <4>1. CASE g.id = h.id
        BY <2>2, <2>5, <3>2, <3>3, <4>1
      <4>2. CASE g.id # h.id
        <5>1. Marked(g)
          BY <1>2, <2>2, <2>3, <3>3, <4>2, Fixed DEF Marked, EventIds
        <5> QED
          BY <1>2, <3>1, <3>3, <5>1 DEF PollInv
      <4> QED
        BY <4>1, <4>2
    <3> QED
      BY <1>2, <2>2, <3>3 DEF PollInv
  <2> QED
    BY <2>6, <2>7, <2>9, <2>10
<1> QED
  BY <1>4, <1>5
-----------------------------------------------------------------------------
(* Method polling *)

LEMMA PollContractAtStep ==
  ASSUME IInv, NEW c \in tr.running, PollContractAt(c) PROVE IInv'
<1>1. /\ tr.pc = "poll" /\ tr.con = {} /\ c \in tr.left
      /\ tr' = [tr EXCEPT !.con = {c}, !.left = @ \ {c}, !.work = Methods[c]]
      /\ UNCHANGED <<raw, headers, nextId, checked, events, results, faults>>
  BY DEF PollContractAt
<1>2. /\ DOMAIN tr' = Fields /\ tr'.pc = "poll" /\ tr'.todo = tr.todo /\ tr'.cur = tr.cur
      /\ tr'.left = tr.left \ {c} /\ tr'.con = {c} /\ tr'.work = Methods[c]
      /\ tr'.out = tr.out /\ tr'.running = tr.running /\ tr'.starts = tr.starts
      /\ tr'.eventIds = tr.eventIds /\ tr'.methodIds = tr.methodIds
  BY <1>1 DEF IInv, TypeInv, Fields
<1>3. tr.work = {} /\ tr.out = {}
  BY <1>1 DEF IInv, HandInv
<1>4. TypeInv' /\ HandInv'
  BY <1>1, <1>2, <1>3, Fixed DEF IInv, TypeInv, HandInv
<1>5. EventInv'
  BY <1>1, <1>2, Fixed DEF IInv, EventInv, Exists, EventIds
<1> QED
  BY <1>1, <1>2, <1>4, <1>5, UnmarkedStep

\* The calls for a method: one without arguments always has its one input.
LEMMA PollMethodStep ==
  ASSUME IInv, NEW m, PollMethod(m) PROVE IInv'
<1> USE DEF IInv
<1>1. /\ tr.pc = "poll" /\ m \in tr.work /\ tr.out = {}
      /\ UNCHANGED <<raw, headers, nextId, checked, events, results, faults>>
  BY DEF PollMethod
<1>a. PICK d \in tr.con :
        \/ Inputs(m, args[d]) = {} /\ tr' = [tr EXCEPT !.work = @ \ {m}]
        \/ \E ins : Inputs(m, args[d]) \subseteq ins /\ tr' = [tr EXCEPT !.out = {m} \X ins]
  BY DEF PollMethod
<1> DEFINE now == Inputs(m, args[d])
<1>2. ArityOf(m) = 0 => now = {<<>>}
  BY DEF Inputs
<1> HIDE DEF now
<1>3. CASE now = {} /\ tr' = [tr EXCEPT !.work = @ \ {m}]
  <2>1. ArityOf(m) # 0
    BY <1>2, <1>3
  <2>2. /\ DOMAIN tr' = Fields /\ tr'.pc = "poll" /\ tr'.todo = tr.todo /\ tr'.cur = tr.cur
        /\ tr'.left = tr.left /\ tr'.con = tr.con /\ tr'.work = tr.work \ {m}
        /\ tr'.out = {} /\ tr'.running = tr.running /\ tr'.starts = tr.starts
        /\ tr'.eventIds = tr.eventIds /\ tr'.methodIds = tr.methodIds
    BY <1>1, <1>3 DEF TypeInv, Fields
  <2>3. TypeInv' /\ HandInv'
    BY <1>1, <2>2, Fixed DEF TypeInv, HandInv
  <2>4. EventInv'
    BY <1>1, <2>2, Fixed DEF EventInv, Exists, EventIds
  <2>5. faults = 0 /\ NoBlank =>
          \A h \in tr.cur, c \in tr.con : \A k \in Methods[c] \ (tr.work \ {m}) :
            ArityOf(k) = 0 => <<c, k, h.num, <<>>>> \in results
    BY <1>1, <2>1 DEF PollInv
  <2> QED
    BY <1>1, <2>2, <2>3, <2>4, <2>5, UnmarkedStep
<1>4. ASSUME NEW ins, now \subseteq ins, tr' = [tr EXCEPT !.out = {m} \X ins] PROVE IInv'
  <2> DEFINE batch == {m} \X ins
  <2>1. \A o \in batch : o[1] = m /\ (ArityOf(m) = 0 => <<m, <<>>>> \in batch)
    BY <1>2, <1>4
  <2> HIDE DEF batch
  <2>2. /\ DOMAIN tr' = Fields /\ tr'.pc = "poll" /\ tr'.todo = tr.todo /\ tr'.cur = tr.cur
        /\ tr'.left = tr.left /\ tr'.con = tr.con /\ tr'.work = tr.work
        /\ tr'.out = batch /\ tr'.running = tr.running /\ tr'.starts = tr.starts
        /\ tr'.eventIds = tr.eventIds /\ tr'.methodIds = tr.methodIds
    BY <1>1, <1>4 DEF TypeInv, Fields, batch
  <2>3. TypeInv' /\ HandInv'
    BY <1>1, <2>1, <2>2, Fixed DEF TypeInv, HandInv
  <2>4. EventInv'
    BY <1>1, <2>2, Fixed DEF EventInv, Exists, EventIds
  <2> QED
    BY <1>1, <2>2, <2>3, <2>4, UnmarkedStep DEF PollInv
<1> QED
  BY <1>a, <1>3, <1>4 DEF now

LEMMA PersistResultsStep ==
  ASSUME IInv, NEW m, PersistResults(m) PROVE IInv'
<1> USE DEF IInv
<1>1. PICK h \in tr.cur, c \in tr.con :
        results' = results \cup {<<c, m, h.num, o[2]>> : o \in tr.out}
  BY DEF PersistResults
<1>2. /\ tr.out # {} /\ \A o \in tr.out : o[1] = m
      /\ tr' = [tr EXCEPT !.work = @ \ {m}, !.out = {}]
      /\ UNCHANGED <<raw, headers, nextId, checked, events, faults>>
  BY DEF PersistResults
<1>3. /\ DOMAIN tr' = Fields /\ tr'.pc = tr.pc /\ tr'.todo = tr.todo /\ tr'.cur = tr.cur
      /\ tr'.left = tr.left /\ tr'.con = tr.con /\ tr'.work = tr.work \ {m}
      /\ tr'.out = {} /\ tr'.running = tr.running /\ tr'.starts = tr.starts
      /\ tr'.eventIds = tr.eventIds /\ tr'.methodIds = tr.methodIds
  BY <1>2 DEF TypeInv, Fields
<1>4. tr.pc = "poll" /\ (ArityOf(m) = 0 => <<m, <<>>>> \in tr.out)
  BY <1>2 DEF HandInv
<1>5. results \subseteq results' /\ (ArityOf(m) = 0 => <<c, m, h.num, <<>>>> \in results')
  BY <1>1, <1>4
<1>6. \A g \in tr.cur, d \in tr.con : g = h /\ d = c
  BY DEF HandInv
<1>7. TypeInv' /\ ColumnInv' /\ HandInv' /\ IdInv'
  BY <1>2, <1>3, <1>4, ColumnsKept, Fixed DEF TypeInv, HandInv, IdInv
<1>8. EventInv'
  BY <1>2, <1>3, <1>4, Fixed DEF EventInv, Exists, EventIds
<1>9. CheckedMeansPersisted'
  BY <1>2, PersistedKept
<1>10. PollInv'
  <2> SUFFICES ASSUME faults = 0, NoBlank PROVE PollInv'
    BY <1>2, Fixed DEF PollInv
  <2>1. \A g, d : IsPolled(g, d) => IsPolled(g, d)'
    BY <1>2, <1>5, Fixed DEF IsPolled, MethodIds
  <2>2. \A k \in Methods[c] \ (tr.work \ {m}) : ArityOf(k) = 0 => <<c, k, h.num, <<>>>> \in results'
    BY <1>4, <1>5 DEF PollInv
  <2>3. \A g : Marked(g)' = Marked(g)
    BY <1>2, <1>3, Fixed DEF Marked, EventIds
  <2> QED
    BY <1>2, <1>3, <1>4, <1>6, <2>1, <2>2, <2>3, Fixed DEF PollInv
<1> QED
  BY <1>7, <1>8, <1>9, <1>10

\* A contract all of whose methods are polled is marked, and no mark it sets is of
\* an event whose logs are not stored.
LEMMA MarkMethodsStep == IInv /\ MarkMethods => IInv'
<1> SUFFICES ASSUME IInv, MarkMethods PROVE IInv'
  OBVIOUS
<1> USE DEF IInv
<1>1. PICK h \in tr.cur, c \in tr.con :
        LET ids == {i \in tr.methodIds : i[1] = c}
        IN  IF MarkRefused(h.id, ids) THEN tr' = Cleared /\ UNCHANGED checked
            ELSE /\ checked' = checked \cup ({h.id} \X ids)
                 /\ tr' = [tr EXCEPT !.con = {}]
  BY DEF MarkMethods, MarkHeaderCheckedForAll
<1>2. /\ tr.pc = "poll" /\ tr.work = {}
      /\ UNCHANGED <<raw, headers, nextId, events, results, faults>>
  BY DEF MarkMethods
<1>3. \A g \in tr.cur, d \in tr.con : g = h /\ d = c
  BY DEF HandInv
<1> DEFINE ids == {i \in tr.methodIds : i[1] = c}
<1>6. faults = 0 => MethodIds(c) \subseteq ids /\ ids # {}
  <2>1. c \in Contracts /\ Methods[c] # {}
    BY <1>2 DEF HandInv, TypeInv
  <2>2. \A i \in MethodIds(c) : i[1] = c
    BY DEF MethodIds
  <2>4. PICK m \in Methods[c] : TRUE
    BY <2>1
  <2>3. <<c, m>> \in MethodIds(c)
    BY <2>4 DEF MethodIds
  <2> QED
    BY <1>2, <2>1, <2>2, <2>3 DEF ColumnInv
<1>4. CASE MarkRefused(h.id, ids)
  <2>1. tr' = Cleared /\ UNCHANGED checked
    BY <1>1, <1>4
  <2>2. faults = 0 => ~Exists(h.id)
    BY <1>4, <1>6 DEF MarkRefused
  <2> QED
    BY <1>2, <1>3, <2>1, <2>2, ClearedStep DEF TypeInv
<1>5. CASE ~MarkRefused(h.id, ids)
  <2>1. checked' = checked \cup ({h.id} \X ids) /\ tr' = [tr EXCEPT !.con = {}]
    BY <1>1, <1>5
  <2>2. /\ DOMAIN tr' = Fields /\ tr'.pc = "poll" /\ tr'.todo = tr.todo /\ tr'.cur = tr.cur
        /\ tr'.left = tr.left /\ tr'.con = {} /\ tr'.work = {}
        /\ tr'.out = tr.out /\ tr'.running = tr.running /\ tr'.starts = tr.starts
        /\ tr'.eventIds = tr.eventIds /\ tr'.methodIds = tr.methodIds
    BY <1>2, <2>1 DEF TypeInv, Fields
  <2>3. /\ \A id, i : <<id, i>> \in checked' => <<id, i>> \in checked \/ (id = h.id /\ i \in ids)
        /\ \A i \in ids : <<h.id, i>> \in checked'
        /\ checked \subseteq checked'
        /\ \A x \in checked' : x \in checked \/ x[1] = h.id
    BY <2>1
  <2>4. tr.out = {}
    BY <1>2 DEF HandInv
  <2>5. \A g \in headers : g.id = h.id => g = h
    BY DEF IdInv
  <2>6. TypeInv' /\ ColumnInv' /\ HandInv' /\ IdInv'
    BY <1>2, <2>2, <2>3, <2>4, ColumnsKept, Fixed DEF TypeInv, HandInv, IdInv
  <2>7. EventInv'
    BY <1>2, <2>2, <2>3, Fixed DEF EventInv, Exists, EventIds
  <2>8. c \in tr.running /\ \A i \in tr.eventIds : <<h.id, i>> \in checked
    BY <1>2, <1>5 DEF HandInv, EventInv, MarkRefused
  <2>9. CheckedMeansPersisted'
    <3> SUFFICES ASSUME NEW g \in headers, NEW d \in Contracts,
                        NEW l \in LogsOf[<<g.num, g.fork>>],
                        l.addr = d, l.event \in Events[d], PassesEventFilter(d, l),
                        <<g.id, <<d, l.event>>>> \in checked'
                 PROVE  <<g.id, l>> \in events
      BY <1>2, Fixed DEF CheckedMeansPersisted
    <3>1. <<g.id, <<d, l.event>>>> \in checked
      <4>1. CASE g.id = h.id /\ <<d, l.event>> \in ids
        <5>1. EventIds({d}) \subseteq tr.eventIds
          BY <4>1 DEF ColumnInv
        <5>2. <<d, l.event>> \in tr.eventIds
          BY <5>1 DEF EventIds
        <5> QED
          BY <2>8, <4>1, <5>2
      <4> QED
        BY <2>3, <4>1
    <3> QED
      BY <3>1 DEF CheckedMeansPersisted
  <2>10. PollInv'
    <3> SUFFICES ASSUME faults = 0, NoBlank PROVE PollInv'
      BY <1>2, Fixed DEF PollInv
    <3>1. \A g, d : IsPolled(g, d) => IsPolled(g, d)'
      BY <1>2, <2>3, Fixed DEF IsPolled, MethodIds
    <3>2. IsPolled(h, c)'
      <4>1. \A m \in Methods[c] : ArityOf(m) = 0 => <<c, m, h.num, <<>>>> \in results
        BY <1>2 DEF PollInv
      <4>3. ({h.id} \X MethodIds(c)) \subseteq checked'
        BY <1>6, <2>3
      <4> QED
        BY <1>2, <4>1, <4>3, Fixed DEF IsPolled
    <3>3. ASSUME NEW g \in headers, NEW d \in tr.running, Marked(g)', g.num >= tr.starts[d]
          PROVE  IsPolled(g, d)' \/ (g \in tr'.cur /\ d \in tr'.left)
      <4>1. Marked(g)
        BY <1>2, <2>2, <2>3, <2>8, <3>3, Fixed DEF Marked, EventIds
      <4> QED
        BY <1>2, <1>3, <2>2, <3>1, <3>2, <3>3, <4>1 DEF PollInv
    <3> QED
      BY <1>2, <2>2, <3>3 DEF PollInv
  <2> QED
    BY <2>6, <2>7, <2>9, <2>10
<1> QED
  BY <1>4, <1>5

LEMMA HeaderDoneStep == IInv /\ HeaderDone => IInv'
<1> SUFFICES ASSUME IInv, HeaderDone PROVE IInv'
  OBVIOUS
<1>1. PICK start :
        tr' = IF tr.todo = {} THEN [Cleared EXCEPT !.start = start]
                              ELSE [tr EXCEPT !.pc = "next", !.start = start]
  BY DEF HeaderDone
<1>2. /\ tr.pc = "poll" /\ tr.left = {} /\ tr.con = {}
      /\ UNCHANGED <<raw, headers, nextId, checked, events, results, faults>>
  BY DEF HeaderDone
<1>3. tr.work = {} /\ tr.out = {}
  BY <1>2 DEF IInv, HandInv
<1>4. /\ DOMAIN tr' = Fields /\ tr'.pc \in {"idle", "next"} /\ tr'.todo \subseteq tr.todo
      /\ tr'.cur \subseteq tr.cur /\ tr'.con = {} /\ tr'.out = {}
      /\ tr'.running = tr.running /\ tr'.starts = tr.starts
      /\ tr'.eventIds = tr.eventIds /\ tr'.methodIds = tr.methodIds
  BY <1>1, <1>2, <1>3 DEF IInv, TypeInv, Fields, Cleared
<1>5. TypeInv' /\ HandInv' /\ EventInv'
  BY <1>2, <1>4 DEF IInv, TypeInv, HandInv, EventInv
<1> QED
  BY <1>2, <1>4, <1>5, UnmarkedStep
-----------------------------------------------------------------------------
\* headerSync, the transformer and its failures keep to IInv.
THEOREM Inductive == Spec => []IInv
<1>1. IInv /\ Transform => IInv'
  BY TransformerInitStep, ExecuteStep, FetchLogsStep, MarkEventsStep, MarkMethodsStep,
     HeaderDoneStep, PollBlankStep, ConvertBatchStep, PollContractAtStep, CreateEventTableStep,
     PersistLogsStep, PollMethodStep, CreateMethodTableStep, PersistResultsStep DEF Transform
<1>2. IInv /\ Next => IInv'
  BY <1>1, InsertStep, DeleteStep, FailStep DEF Next
<1> QED
  BY <1>2, InitIInv, StutterStep, PTL DEF Spec

\* A watched event's column of a header is set only when every wanted log of that
\* event in the header's block is stored (Execute, MarkHeaderCheckedForAll),
\* through any failures, restarts with other contracts, and headers replaced.
THEOREM CheckedMeansPersistedAlways == Spec => []CheckedMeansPersisted
<1>1. IInv => CheckedMeansPersisted
  BY DEF IInv
<1> QED
  BY <1>1, Inductive, PTL

\* Only a failure, or a configured method that cannot be polled, makes the
\* transformer leave a contract unpolled at a header marked for an event
\* (methodPolling): in a process without either there is none between Executes.
THEOREM MissedPollsNeedFailureAlways == Spec => []MissedPollsNeedFailure
<1>1. ASSUME IInv PROVE MissedPollsNeedFailure
  <2> SUFFICES ASSUME tr.pc = "idle", faults = 0, \A c \in tr.running : Blank \notin Methods[c],
                      NEW h \in headers, NEW c \in tr.running, h.num >= tr.starts[c],
                      NEW i \in tr.eventIds, <<h.id, i>> \in checked
               PROVE  IsPolled(h, c)
    BY DEF MissedPollsNeedFailure, IsPolled
  <2>1. NoBlank
    BY <1>1 DEF IInv, TypeInv, NoBlank
  <2> QED
    BY <1>1, <2>1 DEF IInv, PollInv, Marked
<1> QED
  BY <1>1, Inductive, PTL
=============================================================================
