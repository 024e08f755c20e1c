------------------------- MODULE EventWatcherProofs -------------------------
(***************************************************************************)
(* Proofs about EventWatcher, for every set of transformers, every chain   *)
(* with its logs, and any number of headers, failures and restarts, and    *)
(* about HeaderSync, which writes the table the watcher reads.             *)
(***************************************************************************)
EXTENDS EventWatcher, HeaderChain, NaturalsInduction, WellFoundedInduction, TLAPS

Log == UNION {LogsOf[b] : b \in Blocks}
Row == [id : Nat, num : Nat, fork : Nat, checks : Nat]
LogRow == [hid : Nat, log : Log, transformed : BOOLEAN]

\* The block a header row stands for, and the logs the extractor asks for in it.
BlockOf(h) == <<h.num, h.fork>>
Wanted(h) == {l \in LogsOf[BlockOf(h)] : l.addr \in Addresses /\ l.topic \in Topics}

TypeInv ==
  /\ headers \subseteq Row /\ nextId \in Nat
  /\ \A h \in headers : BlockOf(h) \in Blocks
  /\ logs \subseteq LogRow
  /\ \A x \in txs : x = <<x[1], x[2]>>
  /\ life = [pc |-> life.pc, running |-> life.running, adding |-> life.adding,
             unchecked |-> life.unchecked, lost |-> life.lost]
  /\ life.pc \in {"down", "setup", "up", "fatal"}
  /\ life.running \cup life.adding \cup life.unchecked \subseteq Transformers
  /\ ext \in [pc : {"idle", "next", "txs", "logs", "mark", "error"}, todo : SUBSET Row,
              cur : SUBSET Nat, got : SUBSET Log]
  /\ \A h \in ext.todo : BlockOf(h) \in Blocks
  /\ \A i, j \in ext.cur : i = j
  /\ del \in [pc : {"idle", "transform", "error"}, rows : SUBSET LogRow, left : SUBSET Transformers]

\* An id names one row for ever: also the rows of the extractor's list, which may
\* be gone from the table, agree with the table on the block of an id.
IdInv ==
  /\ \A h \in headers \cup ext.todo : h.id < nextId
  /\ \A g \in headers, h \in headers \cup ext.todo : g.id = h.id => BlockOf(g) = BlockOf(h)
  /\ \A g, h \in headers : g.id = h.id => g = h
  /\ \A hid \in ext.cur : hid < nextId
  /\ \A r \in logs : Exists(r.hid)
  /\ \A r \in del.rows : r.hid < nextId /\ r.transformed = FALSE

\* The extractor only works while the transformers are fixed, every watched pair
\* is one of theirs, and a pair about to be watched finds no checked header.
LifeInv ==
  /\ ext.pc # "idle" => life.pc \in {"up", "fatal"}
  /\ life.adding \cup life.unchecked \subseteq life.running
  /\ \A w \in watched : \E t \in life.running : w.addr \in t.addrs /\ w.topic = t.topic
  /\ life.pc = "setup" =>
       \A t \in life.unchecked, h \in headers : h.num >= t.start => h.checks = 0

\* What the extractor has in hand: the logs asked for in the block of the header
\* it is at, and how many of them and of their transactions are stored, unless
\* the header is gone.
ExtractInv ==
  ext.pc \in {"txs", "logs", "mark"} =>
    \A hid \in ext.cur, h \in headers : h.id = hid =>
      /\ ext.got = Wanted(h)
      /\ ext.pc \in {"logs", "mark"} => \A l \in ext.got : <<hid, l.tx>> \in txs
      /\ ext.pc = "mark" => \A l \in ext.got : HasRow(hid, l)

IInv == TypeInv /\ IdInv /\ LifeInv /\ ExtractInv /\ CheckedMeansExtracted /\ EventsExact
-----------------------------------------------------------------------------
LEMMA InitIInv == Init => IInv
BY EventWatcherAssumption
   DEF Init, TableInit, NoExtract, NoDelegate, IInv, TypeInv, IdInv, LifeInv, ExtractInv,
       CheckedMeansExtracted, EventsExact, Row, LogRow

\* The two updates of check_count change no other column.
LEMMA CheckedRows ==
  ASSUME TypeInv, NEW id \in Nat, MarkHeaderChecked(id)
  PROVE  /\ headers' \subseteq Row
         /\ \A g \in headers' : \E h \in headers :
              /\ g.id = h.id /\ g.num = h.num /\ g.fork = h.fork
              /\ h.id # id => g = h
              /\ h.id = id => g = [h EXCEPT !.checks = @ + 1]
         /\ \A h \in headers : \E g \in headers' : g.id = h.id
<1>1. \A h \in headers : /\ h \in Row
                         /\ [h EXCEPT !.checks = @ + 1] \in Row
                         /\ [h EXCEPT !.checks = @ + 1].id = h.id
                         /\ [h EXCEPT !.checks = @ + 1].num = h.num
                         /\ [h EXCEPT !.checks = @ + 1].fork = h.fork
  BY DEF TypeInv, Row
<1> QED
  BY <1>1 DEF MarkHeaderChecked

LEMMA UncheckedRows ==
  ASSUME TypeInv, NEW start, MarkHeadersUnchecked(start)
  PROVE  /\ headers' \subseteq Row
         /\ \A g \in headers' : \E h \in headers :
              /\ g.id = h.id /\ g.num = h.num /\ g.fork = h.fork
              /\ g.num >= start => g.checks = 0 /\ g = [h EXCEPT !.checks = 0]
              /\ ~(g.num >= start) => g = h
         /\ \A h \in headers : \E g \in headers' : g.id = h.id
<1>1. \A h \in headers : /\ h \in Row
                         /\ [h EXCEPT !.checks = 0] \in Row
                         /\ [h EXCEPT !.checks = 0].id = h.id
                         /\ [h EXCEPT !.checks = 0].num = h.num
                         /\ [h EXCEPT !.checks = 0].fork = h.fork
                         /\ [h EXCEPT !.checks = 0].checks = 0
  BY DEF TypeInv, Row
<1> QED
  BY <1>1 DEF MarkHeadersUnchecked
-----------------------------------------------------------------------------
(* headerSync *)

\* A new row has a new id and is unchecked.
LEMMA InsertStep == IInv /\ HeaderInserted => IInv'
<1> SUFFICES ASSUME IInv, HeaderInserted PROVE IInv'
  OBVIOUS
<1> USE DEF IInv
<1>1. PICK b \in Blocks : InternalInsertHeader(b[1], b[2])
  BY DEF HeaderInserted
<1>2. UNCHANGED <<logs, txs, events, watched, life, ext, del, faults>>
  BY DEF HeaderInserted
<1> DEFINE new == [id |-> nextId, num |-> b[1], fork |-> b[2], checks |-> 0]
<1>3. CASE UNCHANGED <<headers, nextId>>
  BY <1>2, <1>3 DEF TypeInv, IdInv, LifeInv, ExtractInv, CheckedMeansExtracted, EventsExact, Exists,
                    HasRow, Wanted, Addresses, Topics
<1>4. CASE headers' = headers \cup {new} /\ nextId' = nextId + 1
  <2>1. /\ nextId \in Nat /\ b \in Nat \X Nat /\ <<b[1], b[2]>> = b
        /\ new \in Row /\ BlockOf(new) = b
    BY EventWatcherAssumption DEF TypeInv, Row, BlockOf
  <2>2. TypeInv'
    BY <1>2, <1>4, <2>1 DEF TypeInv, BlockOf
  <2>3. IdInv'
    BY <1>2, <1>4, <2>1 DEF TypeInv, IdInv, Row, LogRow, Exists, BlockOf
  <2>4. LifeInv'
    BY <1>2, <1>4 DEF LifeInv
  <2>a. \A hid \in ext.cur, h \in headers' : h.id = hid => h \in headers
    BY <1>4, <2>1 DEF IdInv, TypeInv
  <2>5. ExtractInv'
    BY <1>2, <2>a DEF ExtractInv, Wanted, Addresses, Topics, HasRow
  <2>6. CheckedMeansExtracted' /\ EventsExact'
    BY <1>2, <1>4 DEF CheckedMeansExtracted, EventsExact, HasRow
  <2> QED
    BY <2>2, <2>3, <2>4, <2>5, <2>6
<1> QED
  BY <1>1, <1>3, <1>4 DEF InternalInsertHeader

\* The cascade takes logs, transactions and events of the deleted rows only, and
\* their ids are not used again.
LEMMA DeleteStep == IInv /\ HeadersDeleted => IInv'
<1> SUFFICES ASSUME IInv, HeadersDeleted PROVE IInv'
  OBVIOUS
<1> USE DEF IInv
<1>1. PICK n \in {b[1] : b \in Blocks} :
        /\ headers' = headers \ RowsAt(n) /\ UNCHANGED nextId
        /\ logs' = {r \in logs : r.hid \notin {h.id : h \in RowsAt(n)}}
        /\ txs' = {x \in txs : x[1] \notin {h.id : h \in RowsAt(n)}}
        /\ events' = {e \in events : e[1] \notin {h.id : h \in RowsAt(n)}}
        /\ UNCHANGED <<watched, life, ext, del, faults>>
  BY DEF HeadersDeleted, DeleteHeaders
<1> DEFINE gone == {h.id : h \in RowsAt(n)}
<1>2. \A h \in headers' : h \in headers /\ h.id \notin gone
  BY <1>1 DEF RowsAt, IdInv
<1>3. \A id : Exists(id) /\ id \notin gone => Exists(id)'
  BY <1>1 DEF Exists, RowsAt
<1>4. TypeInv'
  BY <1>1 DEF TypeInv
<1>5. IdInv'
  BY <1>1, <1>2, <1>3 DEF IdInv
<1>6. LifeInv'
  BY <1>1, <1>2 DEF LifeInv
<1>7. \A id, l : HasRow(id, l) /\ id \notin gone => HasRow(id, l)'
  BY <1>1 DEF HasRow
<1>8. \A id, x : <<id, x>> \in txs /\ id \notin gone => <<id, x>> \in txs'
  BY <1>1
<1>9. ExtractInv'
  BY <1>1, <1>2, <1>7, <1>8 DEF ExtractInv, Wanted, Addresses, Topics
<1>10. CheckedMeansExtracted'
  BY <1>1, <1>2, <1>7, <1>8 DEF CheckedMeansExtracted
<1>11. EventsExact'
  <2>1. ASSUME NEW r \in logs'
        PROVE  r.transformed <=> \E t \in Transformers : <<r.hid, r.log, t>> \in events'
    BY <1>1 DEF EventsExact
  <2>2. ASSUME NEW e \in events'
        PROVE  HasRow(e[1], e[2])' /\ Relevant(e[3], e[2])
    BY <1>1, <1>7 DEF EventsExact
  <2> QED
    BY <2>1, <2>2 DEF EventsExact, Relevant
<1> QED
  BY <1>4, <1>5, <1>6, <1>9, <1>10, <1>11
-----------------------------------------------------------------------------
(* The process *)

\* The statements of the set-up: a pair becomes watched only after the headers
\* from its starting block on were unchecked, and no extractor runs meanwhile.
LEMMA SetUpStep == IInv /\ SetUp => IInv'
<1> SUFFICES ASSUME IInv, SetUp PROVE IInv'
  OBVIOUS
<1> USE DEF IInv
<1>1. CASE AddTransformers
  <2>0. PICK c \in SUBSET Transformers :
          /\ life.running \subseteq c /\ life.pc = "down"
          /\ life' = [pc |-> "setup", running |-> c, adding |-> c, unchecked |-> {},
                      lost |-> life.lost \cup Unwritten(c)]
    BY <1>1 DEF AddTransformers
  <2>1. /\ life.running \subseteq c /\ life.pc = "down"
        /\ life' = [pc |-> "setup", running |-> c, adding |-> c, unchecked |-> {}, lost |-> life'.lost]
    BY <2>0
  <2>2. UNCHANGED <<headers, nextId, logs, txs, events, watched, ext, del, faults>>
    BY <1>1 DEF AddTransformers
  <2>3. ext.pc = "idle"
    BY <2>1 DEF LifeInv, TypeInv
  <2>4. TypeInv' /\ LifeInv'
    BY <2>1, <2>2, <2>3 DEF TypeInv, LifeInv
  <2>5. IdInv' /\ ExtractInv'
    BY <2>2, <2>3 DEF IdInv, ExtractInv, Exists
  <2> QED
    BY <2>2, <2>4, <2>5 DEF CheckedMeansExtracted, EventsExact, HasRow
<1>2. CASE Execute
  BY <1>2 DEF Execute, TypeInv, IdInv, LifeInv, ExtractInv, CheckedMeansExtracted, EventsExact,
              Exists, HasRow, Wanted, Addresses, Topics
<1>3. ASSUME NEW t \in Transformers, AlreadyWatchingLog(t) PROVE IInv'
  <2>1. /\ life' = [life EXCEPT !.adding = @ \ {t}]
        /\ UNCHANGED <<headers, nextId, logs, txs, events, watched, ext, del, faults>>
    BY <1>3 DEF AlreadyWatchingLog
  <2>2. TypeInv' /\ LifeInv'
    BY <2>1 DEF TypeInv, LifeInv
  <2> QED
    BY <2>1, <2>2 DEF IdInv, ExtractInv, CheckedMeansExtracted, EventsExact, Exists, HasRow, Wanted,
                      Addresses, Topics, TypeInv
<1>4. ASSUME NEW t \in Transformers, UncheckHeaders(t) PROVE IInv'
  <2>1. /\ life.pc = "setup" /\ t \in life.adding /\ life' = [life EXCEPT !.unchecked = {t}]
        /\ MarkHeadersUnchecked(t.start)
        /\ UNCHANGED <<nextId, logs, txs, events, watched, ext, del, faults>>
    BY <1>4 DEF UncheckHeaders
  <2>2. /\ headers' \subseteq Row
        /\ \A g \in headers' : \E h \in headers :
             /\ g.id = h.id /\ g.num = h.num /\ g.fork = h.fork
             /\ g.num >= t.start => g.checks = 0 /\ g = [h EXCEPT !.checks = 0]
             /\ ~(g.num >= t.start) => g = h
        /\ \A h \in headers : \E g \in headers' : g.id = h.id
    BY <2>1, UncheckedRows
  <2>3. ext.pc = "idle"
    BY <2>1 DEF LifeInv
  <2>4. TypeInv'
    BY <2>1, <2>2 DEF TypeInv, BlockOf
  <2>5. IdInv'
    <3>1. /\ \A h \in headers' \cup ext'.todo : h.id < nextId'
          /\ \A g \in headers', h \in headers' \cup ext'.todo : g.id = h.id => BlockOf(g) = BlockOf(h)
      BY <2>1, <2>2 DEF IdInv, BlockOf
    <3>2. \A g, h \in headers' : g.id = h.id => g = h
      BY <2>2 DEF IdInv
    <3> QED
      BY <2>1, <2>2, <3>1, <3>2 DEF IdInv, Exists
  <2>6. LifeInv'
    BY <2>1, <2>2, <2>3 DEF LifeInv, TypeInv
  <2>7. CheckedMeansExtracted'
    <3> SUFFICES ASSUME NEW s \in watched, NEW g \in headers', g.checks > 0, g.num >= s.start,
                        NEW l \in LogsOf[<<g.num, g.fork>>], l.addr = s.addr, l.topic = s.topic
                 PROVE  HasRow(g.id, l) /\ <<g.id, l.tx>> \in txs
      BY <2>1 DEF CheckedMeansExtracted, HasRow
    <3>1. g \in headers
      BY <2>2
    <3> QED
      BY <3>1 DEF CheckedMeansExtracted
  <2> QED
    BY <2>1, <2>3, <2>4, <2>5, <2>6, <2>7 DEF ExtractInv, EventsExact, HasRow
<1>5. ASSUME NEW t \in Transformers, MarkLogWatched(t) PROVE IInv'
  <2>1. /\ life.pc = "setup" /\ t \in life.unchecked
        /\ watched' = watched \cup WatchedBy(t)
        /\ life' = [life EXCEPT !.adding = @ \ {t}, !.unchecked = {}]
        /\ UNCHANGED <<headers, nextId, logs, txs, events, ext, del, faults>>
    BY <1>5 DEF MarkLogWatched
  <2>5. \A w \in WatchedBy(t) : w.addr \in t.addrs /\ w.topic = t.topic /\ w.start = t.start
    BY DEF WatchedBy
  <2>2. TypeInv' /\ LifeInv'
    BY <2>1, <2>5 DEF TypeInv, LifeInv
  <2>3. IdInv' /\ ExtractInv'
    BY <2>1 DEF IdInv, ExtractInv, LifeInv, Exists
  <2>4. CheckedMeansExtracted'
    <3>1. \A h \in headers : h.num >= t.start => h.checks = 0
      BY <2>1 DEF LifeInv
    <3> QED
      BY <2>1, <2>5, <3>1 DEF CheckedMeansExtracted, HasRow
  <2> QED
    BY <2>1, <2>2, <2>3, <2>4 DEF EventsExact, HasRow
<1> QED
  BY <1>1, <1>2, <1>3, <1>4, <1>5 DEF SetUp

\* A failure and the end of the process touch no table.
LEMMA FailStep == IInv /\ (Fail \/ Exit) => IInv'
<1> SUFFICES ASSUME IInv, Fail \/ Exit PROVE IInv'
  OBVIOUS
<1> USE DEF IInv
<1>1. UNCHANGED <<headers, nextId, logs, txs, events, watched>>
  BY DEF Fail, Exit
<1>2. CheckedMeansExtracted' /\ EventsExact'
  BY <1>1 DEF CheckedMeansExtracted, EventsExact, HasRow
<1>3. CASE Fail
  <2>1. /\ life'.running = life.running /\ life'.adding = life.adding
        /\ life'.unchecked = life.unchecked
        /\ ext'.todo = ext.todo /\ ext'.cur = ext.cur /\ del'.rows = del.rows
    BY <1>3 DEF Fail, TypeInv
  <2>3. TypeInv'
    BY <1>1, <1>3 DEF Fail, TypeInv
  <2>4. LifeInv'
    BY <1>1, <1>3, <2>1 DEF Fail, TypeInv, LifeInv
  <2>5. IdInv'
    BY <1>1, <2>1 DEF IdInv, Exists
  <2>2. ExtractInv'
    BY <1>1, <1>3 DEF Fail, TypeInv, ExtractInv, HasRow, Wanted, Addresses, Topics
  <2> QED
    BY <1>2, <2>2, <2>3, <2>4, <2>5
<1>4. CASE Exit
  <2>1. /\ life' = [life EXCEPT !.pc = "down", !.adding = {}, !.unchecked = {}]
        /\ ext' = [pc |-> "idle", todo |-> {}, cur |-> {}, got |-> {}]
        /\ del' = [pc |-> "idle", rows |-> {}, left |-> {}]
    BY <1>4 DEF Exit, NoExtract, NoDelegate
  <2>3. TypeInv'
    BY <1>1, <2>1 DEF TypeInv
  <2>4. LifeInv' /\ IdInv'
    BY <1>1, <2>1 DEF TypeInv, LifeInv, IdInv, Exists
  <2>2. ExtractInv'
    BY <2>1 DEF ExtractInv
  <2> QED
    BY <1>2, <2>2, <2>3, <2>4
<1> QED
  BY <1>3, <1>4
-----------------------------------------------------------------------------
(* The extractor *)

\* Only the mark of a header touches the table of headers; what precedes it adds
\* transactions and logs of the header in hand.
LEMMA ExtractorStep == IInv /\ Extractor => IInv'
<1> SUFFICES ASSUME IInv, Extractor PROVE IInv'
  OBVIOUS
<1> USE DEF IInv
<1>1. CASE ExtractLogs
  <2>1. /\ life.pc = "up"
        /\ ext' = [NoExtract EXCEPT !.pc = "next", !.todo = UncheckedHeaders(StartingBlock, CheckCount)]
        /\ UNCHANGED <<headers, nextId, logs, txs, events, watched, life, del, faults>>
    BY <1>1 DEF ExtractLogs
  <2>2. /\ ext'.pc = "next" /\ ext'.cur = {} /\ ext'.got = {} /\ ext'.todo \subseteq headers
        /\ ext' = [pc |-> "next", todo |-> ext'.todo, cur |-> {}, got |-> {}]
    BY <2>1 DEF NoExtract, UncheckedHeaders
  <2>3. TypeInv'
    BY <2>1, <2>2 DEF TypeInv
  <2>4. IdInv' /\ LifeInv' /\ ExtractInv'
    BY <2>1, <2>2 DEF IdInv, LifeInv, ExtractInv, Exists
  <2> QED
    BY <2>1, <2>3, <2>4 DEF CheckedMeansExtracted, EventsExact, HasRow
<1>2. CASE FetchLogs
  <2>1. /\ ext.pc = "next"
        /\ UNCHANGED <<headers, nextId, logs, txs, events, watched, life, del, faults>>
    BY <1>2 DEF FetchLogs
  <2>2. CheckedMeansExtracted' /\ EventsExact'
    BY <2>1 DEF CheckedMeansExtracted, EventsExact, HasRow
  <2>3. CASE ext' = NoExtract
    BY <2>1, <2>2, <2>3 DEF NoExtract, TypeInv, IdInv, LifeInv, ExtractInv, Exists
  <2>4. ASSUME NEW h \in ext.todo,
               ext' = [pc |-> IF Wanted(h) = {} THEN "mark" ELSE "txs",
                       todo |-> ext.todo \ {h}, cur |-> {h.id}, got |-> Wanted(h)]
        PROVE  IInv'
    <3>1. /\ ext'.pc \in {"mark", "txs"}
          /\ ext'.pc = "mark" => Wanted(h) = {}
          /\ ext'.todo = ext.todo \ {h} /\ ext'.cur = {h.id} /\ ext'.got = Wanted(h)
      BY <2>4
    <3>2. h \in Row /\ Wanted(h) \subseteq Log
      BY DEF TypeInv, Wanted, Log
    <3>3. TypeInv'
      BY <2>1, <2>4, <3>2 DEF TypeInv, Row
    <3>4. IdInv' /\ LifeInv'
      BY <2>1, <3>1 DEF IdInv, LifeInv, Exists
    <3>5. \A g \in headers : g.id = h.id => Wanted(g) = Wanted(h)
      BY DEF IdInv, Wanted
    <3>6. \A g : Wanted(g)' = Wanted(g)
      BY <2>1 DEF Wanted, Addresses, Topics
    <3>7. ExtractInv'
      <4>1. ASSUME NEW hid \in ext'.cur, NEW g \in headers', g.id = hid
            PROVE  /\ ext'.got = Wanted(g)'
                   /\ ext'.pc \in {"logs", "mark"} => ext'.got = {}
        BY <2>1, <3>1, <3>5, <3>6, <4>1
      <4> QED
        BY <4>1 DEF ExtractInv
    <3> QED
      BY <2>2, <3>3, <3>4, <3>7
  <2> QED
    BY <1>2, <2>3, <2>4 DEF FetchLogs, Wanted, BlockOf
<1>3. CASE SyncTransactions
  <2>1. PICK hid \in ext.cur :
          LET missing == {l.tx : l \in ext.got} \ {x[2] : x \in {y \in txs : y[1] = hid}}
          IN  \/ missing = {} /\ ext' = [ext EXCEPT !.pc = "logs"] /\ UNCHANGED txs
              \/ /\ missing # {} /\ ~Exists(hid)
                 /\ ext' = [ext EXCEPT !.pc = "error"] /\ UNCHANGED txs
              \/ /\ Exists(hid)
                 /\ \E x \in missing : txs' = txs \cup {<<hid, x>>}
                 /\ UNCHANGED ext
    BY <1>3 DEF SyncTransactions
  <2>2. /\ ext.pc = "txs"
        /\ UNCHANGED <<headers, nextId, logs, events, watched, life, del, faults>>
        /\ txs \subseteq txs'
    BY <1>3, <2>1 DEF SyncTransactions
  <2>3. /\ ext'.pc \in {"txs", "logs", "error"} /\ ext' = [ext EXCEPT !.pc = ext'.pc]
    BY <2>1, <2>2 DEF TypeInv
  <2>a. \A x \in txs' : x = <<x[1], x[2]>>
    BY <2>1 DEF TypeInv
  <2>b. ext'.todo = ext.todo /\ ext'.cur = ext.cur /\ ext'.got = ext.got
    BY <2>3 DEF TypeInv
  <2>c. TypeInv'
    BY <2>2, <2>3, <2>a, <2>b DEF TypeInv
  <2>4. IdInv' /\ LifeInv'
    BY <2>2, <2>b DEF IdInv, LifeInv, Exists
  <2>5. CheckedMeansExtracted' /\ EventsExact'
    BY <2>2 DEF CheckedMeansExtracted, EventsExact, HasRow
  <2>6. \A g : Wanted(g)' = Wanted(g)
    BY <2>2 DEF Wanted, Addresses, Topics
  <2>7. ext'.pc = "logs" => \A l \in ext.got : <<hid, l.tx>> \in txs'
    BY <2>1, <2>2 DEF TypeInv
  <2>8. ExtractInv'
    BY <2>2, <2>3, <2>6, <2>7 DEF ExtractInv, TypeInv
  <2> QED
    BY <2>c, <2>4, <2>5, <2>8
<1>4. CASE CreateHeaderSyncLogs
  <2>1. /\ ext.pc = "logs"
        /\ UNCHANGED <<headers, nextId, txs, events, watched, life, del, faults>>
    BY <1>4 DEF CreateHeaderSyncLogs
  <2>2. PICK hid \in ext.cur :
          IF ~Exists(hid) THEN ext' = [ext EXCEPT !.pc = "error"] /\ UNCHANGED logs
          ELSE /\ logs' = logs \cup {[hid |-> hid, log |-> l, transformed |-> FALSE] :
                                       l \in {k \in ext.got : ~HasRow(hid, k)}}
               /\ ext' = [ext EXCEPT !.pc = "mark"]
    BY <1>4 DEF CreateHeaderSyncLogs
  <2>3. /\ ext'.todo = ext.todo /\ ext'.cur = ext.cur /\ ext'.got = ext.got
        /\ ext'.pc \in {"mark", "error"} /\ ext' = [ext EXCEPT !.pc = ext'.pc]
    BY <2>2 DEF TypeInv
  <2>4. /\ logs \subseteq logs'
        /\ \A r \in logs' \ logs : /\ r \in LogRow /\ Exists(r.hid)
                                   /\ r.transformed = FALSE /\ ~HasRow(r.hid, r.log)
    <3>1. ASSUME NEW r \in logs' \ logs
          PROVE  /\ r \in LogRow /\ Exists(r.hid)
                 /\ r.transformed = FALSE /\ ~HasRow(r.hid, r.log)
      <4>1. PICK l \in ext.got : /\ r = [hid |-> hid, log |-> l, transformed |-> FALSE]
                                 /\ ~HasRow(hid, l) /\ Exists(hid)
        BY <2>2
      <4>2. r.hid = hid /\ r.log = l /\ r.transformed = FALSE /\ hid \in Nat /\ l \in Log
        BY <4>1 DEF TypeInv
      <4> QED
        BY <4>1, <4>2 DEF LogRow
    <3> QED
      BY <2>2, <3>1
  <2>5. \A l \in ext.got : ext'.pc = "mark" => HasRow(hid, l)'
    <3> SUFFICES ASSUME NEW l \in ext.got, ext'.pc = "mark" PROVE HasRow(hid, l)'
      OBVIOUS
    <3>1. Exists(hid)
      BY <2>2 DEF TypeInv
    <3>2. CASE HasRow(hid, l)
      BY <2>4, <3>2 DEF HasRow
    <3>3. CASE ~HasRow(hid, l)
      <4> DEFINE r == [hid |-> hid, log |-> l, transformed |-> FALSE]
      <4>1. r \in logs'
        BY <2>2, <3>1, <3>3
      <4> QED
        BY <4>1 DEF HasRow
    <3> QED
      BY <3>2, <3>3
  <2>6. \A id, l : HasRow(id, l) => HasRow(id, l)'
    BY <2>4 DEF HasRow
  <2>7. \A g : Wanted(g)' = Wanted(g)
    BY <2>1 DEF Wanted, Addresses, Topics
  <2>8. TypeInv'
    BY <2>1, <2>3, <2>4 DEF TypeInv
  <2>9. IdInv' /\ LifeInv'
    BY <2>1, <2>3, <2>4 DEF IdInv, LifeInv, Exists
  <2>10. ExtractInv'
    BY <2>1, <2>3, <2>5, <2>7 DEF ExtractInv, TypeInv
  <2>11. CheckedMeansExtracted'
    BY <2>1, <2>6 DEF CheckedMeansExtracted
  <2>12. EventsExact'
    <3>1. \A r \in logs' \ logs, t \in Transformers : <<r.hid, r.log, t>> \notin events
      BY <2>4 DEF EventsExact
    <3>2. ASSUME NEW r \in logs'
          PROVE  r.transformed <=> \E t \in Transformers : <<r.hid, r.log, t>> \in events
      BY <2>4, <3>1 DEF EventsExact
    <3> QED
      BY <2>1, <2>6, <3>2 DEF EventsExact
  <2> QED
    BY <2>8, <2>9, <2>10, <2>11, <2>12
<1>5. CASE MarkChecked
  <2>1. /\ ext.pc = "mark" /\ ext' = [ext EXCEPT !.pc = "next"]
        /\ UNCHANGED <<nextId, logs, txs, events, watched, life, del, faults>>
    BY <1>5 DEF MarkChecked
  <2>2. PICK hid \in ext.cur : MarkHeaderChecked(hid)
    BY <1>5 DEF MarkChecked
  <2>3. /\ headers' \subseteq Row
        /\ \A g \in headers' : \E h \in headers :
             /\ g.id = h.id /\ g.num = h.num /\ g.fork = h.fork
             /\ h.id # hid => g = h
             /\ h.id = hid => g = [h EXCEPT !.checks = @ + 1]
        /\ \A h \in headers : \E g \in headers' : g.id = h.id
    <3>1. hid \in Nat
      BY DEF TypeInv
    <3> QED
      BY <2>2, <3>1, CheckedRows
  <2>4. ext'.todo = ext.todo /\ ext'.cur = ext.cur /\ ext'.pc = "next"
    BY <2>1 DEF TypeInv
  <2>5. TypeInv'
    BY <2>1, <2>3, <2>4 DEF TypeInv, BlockOf
  <2>6. IdInv'
    <3>1. /\ \A h \in headers' \cup ext'.todo : h.id < nextId'
          /\ \A g \in headers', h \in headers' \cup ext'.todo : g.id = h.id => BlockOf(g) = BlockOf(h)
      BY <2>1, <2>3, <2>4 DEF IdInv, BlockOf
    <3>2. \A g, h \in headers' : g.id = h.id => g = h
      BY <2>3 DEF IdInv
    <3> QED
      BY <2>1, <2>3, <2>4, <3>1, <3>2 DEF IdInv, Exists
  <2>7. LifeInv' /\ ExtractInv'
    BY <2>1, <2>4 DEF LifeInv, ExtractInv
  <2>8. CheckedMeansExtracted'
    <3> SUFFICES ASSUME NEW s \in watched, NEW g \in headers', g.checks > 0, g.num >= s.start,
                        NEW l \in LogsOf[<<g.num, g.fork>>], l.addr = s.addr, l.topic = s.topic
                 PROVE  HasRow(g.id, l) /\ <<g.id, l.tx>> \in txs
      BY <2>1 DEF CheckedMeansExtracted, HasRow
    <3>1. PICK h \in headers :
             /\ g.id = h.id /\ g.num = h.num /\ g.fork = h.fork
             /\ h.id # hid => g = h
      BY <2>3
    <3>2. CASE h.id # hid
      BY <3>1, <3>2 DEF CheckedMeansExtracted
    <3>3. CASE h.id = hid
      <4>1. s.addr \in Addresses /\ s.topic \in Topics
        BY DEF LifeInv, Addresses, Topics
      <4>2. l \in Wanted(h)
        BY <3>1, <4>1 DEF Wanted, BlockOf
      <4> QED
        BY <2>1, <3>1, <3>3, <4>2 DEF ExtractInv
    <3> QED
      BY <3>2, <3>3
  <2> QED
    BY <2>1, <2>5, <2>6, <2>7, <2>8 DEF EventsExact, HasRow
<1> QED
  BY <1>1, <1>2, <1>3, <1>4, <1>5 DEF Extractor
-----------------------------------------------------------------------------
(* The delegator *)

\* A chunk is transformed in one transaction: the rows it marks are the rows it
\* writes events of, and a row that was marked before stays so.
LEMMA DelegatorStep == IInv /\ Delegator => IInv'
<1> SUFFICES ASSUME IInv, Delegator PROVE IInv'
  OBVIOUS
<1> USE DEF IInv
<1>1. CASE DelegateLogs
  <2>1. /\ del' = [pc |-> "transform", rows |-> {r \in logs : ~r.transformed}, left |-> life.running]
        /\ UNCHANGED <<headers, nextId, logs, txs, events, watched, life, ext, faults>>
    BY <1>1 DEF DelegateLogs, GetUntransformedHeaderSyncLogs
  <2>2. TypeInv'
    BY <2>1 DEF TypeInv
  <2>3. \A r \in logs : r.hid < nextId /\ (~r.transformed => r.transformed = FALSE)
    BY DEF IdInv, TypeInv, LogRow, Exists
  <2>4. IdInv'
    BY <2>1, <2>3 DEF IdInv, Exists
  <2> QED
    BY <2>1, <2>2, <2>4 DEF LifeInv, ExtractInv, CheckedMeansExtracted, EventsExact, HasRow, Wanted,
                            Addresses, Topics
<1>2. ASSUME NEW t \in Transformers, TransformerExecute(t) PROVE IInv'
  <2>1. UNCHANGED <<headers, nextId, txs, watched, life, ext, faults>>
    BY <1>2 DEF TransformerExecute
  <2>2. CASE del' = [del EXCEPT !.pc = "error"] /\ UNCHANGED <<events, logs>>
    <3>1. del'.rows = del.rows
      BY <2>2 DEF TypeInv
    <3>2. TypeInv'
      BY <2>1, <2>2 DEF TypeInv
    <3> QED
      BY <2>1, <2>2, <3>1, <3>2 DEF IdInv, Exists, LifeInv, ExtractInv, CheckedMeansExtracted,
                                    EventsExact, HasRow, Wanted, Addresses, Topics
  <2>3. CASE /\ \A r \in ChunkLogs(t) : HasRow(r.hid, r.log)
             /\ Create(t, ChunkLogs(t))
             /\ del' = IF del.left = {t} THEN NoDelegate ELSE [del EXCEPT !.left = @ \ {t}]
    <3> DEFINE chunk == ChunkLogs(t)
               new == {<<r.hid, r.log, t>> : r \in chunk}
               mark(r) == [r EXCEPT !.transformed = @ \/ r \in chunk]
    <3>1. events' = events \cup new /\ logs' = {mark(r) : r \in logs}
      BY <2>3 DEF Create
    <3>2. \A r \in logs : mark(r) \in LogRow /\ mark(r).hid = r.hid /\ mark(r).log = r.log
      BY DEF TypeInv, LogRow
    <3>3. \A r \in logs : mark(r).transformed = (r.transformed \/ r \in chunk)
      BY DEF TypeInv, LogRow
    <3> HIDE DEF mark
    <3>4. \A id, l : HasRow(id, l)' <=> HasRow(id, l)
      BY <3>1, <3>2 DEF HasRow
    <3>5. TypeInv'
      BY <2>1, <2>3, <3>1, <3>2 DEF TypeInv, NoDelegate
    <3>6. del'.rows \subseteq del.rows
      BY <2>3 DEF NoDelegate, TypeInv
    <3>7. IdInv'
      BY <2>1, <3>1, <3>2, <3>6 DEF IdInv, Exists
    <3>8. LifeInv' /\ ExtractInv' /\ CheckedMeansExtracted'
      BY <2>1, <3>4 DEF LifeInv, ExtractInv, CheckedMeansExtracted, Wanted, Addresses, Topics
    <3>9. EventsExact'
      <4>1. \A r \in chunk : /\ r \in LogRow /\ r.transformed = FALSE
                             /\ Relevant(t, r.log) /\ HasRow(r.hid, r.log)
        BY <2>3 DEF ChunkLogs, TypeInv, IdInv
      <4>2. ASSUME NEW r \in logs, NEW c \in chunk, c.hid = r.hid, c.log = r.log,
                   ~r.transformed
            PROVE  r = c
        <5>1. r \in LogRow /\ r.transformed = FALSE
          BY <4>2 DEF TypeInv, LogRow
        <5> QED
          BY <4>1, <4>2, <5>1 DEF LogRow
      <4> HIDE DEF chunk
      <4>3. ASSUME NEW r \in logs, r.transformed \/ r \in chunk
            PROVE  \E s \in Transformers : <<r.hid, r.log, s>> \in events'
        BY <3>1, <4>3 DEF EventsExact
      <4>4. ASSUME NEW r \in logs, NEW s \in Transformers, <<r.hid, r.log, s>> \in events'
            PROVE  r.transformed \/ r \in chunk
        <5>1. CASE <<r.hid, r.log, s>> \in events
          BY <5>1 DEF EventsExact
        <5>2. CASE <<r.hid, r.log, s>> \in new
          <6>1. PICK c \in chunk : c.hid = r.hid /\ c.log = r.log
            BY <5>2
          <6> QED
            BY <4>2, <6>1
        <5> QED
          BY <3>1, <4>4, <5>1, <5>2
      <4>5. \A r \in logs :
              mark(r).transformed <=> \E s \in Transformers : <<r.hid, r.log, s>> \in events'
        BY <3>3, <4>3, <4>4
      <4>6. ASSUME NEW q \in logs'
            PROVE  q.transformed <=> \E s \in Transformers : <<q.hid, q.log, s>> \in events'
        <5>1. PICK r \in logs : q = mark(r)
          BY <3>1
        <5>2. q.hid = r.hid /\ q.log = r.log
          BY <3>2, <5>1
        <5> QED
          BY <4>5, <5>1, <5>2
      <4>7. ASSUME NEW e \in events'
            PROVE  HasRow(e[1], e[2])' /\ Relevant(e[3], e[2])
        <5>1. HasRow(e[1], e[2]) /\ Relevant(e[3], e[2])
          BY <3>1, <4>1 DEF EventsExact
        <5> QED
          BY <3>4, <5>1
      <4> QED
        BY <4>6, <4>7 DEF EventsExact, Relevant
    <3> QED
      BY <3>5, <3>7, <3>8, <3>9
  <2> QED
    BY <1>2, <2>2, <2>3 DEF TransformerExecute
<1> QED
  BY <1>1, <1>2 DEF Delegator
-----------------------------------------------------------------------------
LEMMA StutterStep == IInv /\ UNCHANGED vars => IInv'
BY DEF vars, IInv, TypeInv, IdInv, LifeInv, ExtractInv, CheckedMeansExtracted, EventsExact, Exists,
       HasRow, Wanted, Addresses, Topics

\* The tables, the two goroutines and the set-up of the process keep to IInv.
THEOREM Inductive == Spec => []IInv
<1>1. IInv /\ [Next]_vars => IInv'
  BY InsertStep, DeleteStep, SetUpStep, FailStep, ExtractorStep, DelegatorStep, StutterStep
     DEF Next
<1> QED
  BY <1>1, InitIInv, PTL DEF Spec

\* A checked header, from the block a pair was marked with on, has every log of
\* the pair stored and the transaction of each (ExtractLogs, AddTransformerConfig),
\* pairs that several transformers share included: however the set-up,
\* the extractor's statements, deletions of headers, failures and restarts fall.
THEOREM CheckedMeansExtractedAlways == Spec => []CheckedMeansExtracted
<1>1. IInv => CheckedMeansExtracted
  BY DEF IInv
<1> QED
  BY <1>1, Inductive, PTL

\* The mark of a log and its events agree (event.Create), and every event has its
\* log and the transformer the log is for, however old the delegator's snapshot.
THEOREM EventsExactAlways == Spec => []EventsExact
<1>1. IInv => EventsExact
  BY DEF IInv
<1> QED
  BY <1>1, Inductive, PTL
-----------------------------------------------------------------------------
(***************************************************************************)
(* headerSync, whose two goroutines are the writers of the table that the  *)
(* watcher reads: HeaderSync over the same headers.                        *)
(***************************************************************************)
CONSTANTS SyncStart, WindowSize, MaxBatchSize, MaxHead, MaxReorgs, SyncFaults
VARIABLES writer, syncFaults

HS == INSTANCE HeaderSync WITH StartingBlock <- SyncStart, MaxFaults <- SyncFaults,
                               faults <- syncFaults

LEMMA LowestExists ==
  ASSUME NEW got \in SUBSET (Nat \X Nat), got # {}
  PROVE  HS!Lowest(got) \in got
<1> DEFINE S == {b[1] : b \in got}
<1>1. S \in SUBSET Nat /\ S # {}
  OBVIOUS
<1> HIDE DEF S
<1>2. PICK x \in S : \A y \in S : ~(<<y, x>> \in OpToRel(<, Nat))
  BY <1>1, NatLessThanWellFounded, WFMin
<1>a. \A y \in S : ~(y < x)
  BY <1>1, <1>2 DEF OpToRel
<1>3. \A y \in S : x <= y
  BY <1>1, <1>a
<1>4. \E b \in got : \A c \in got : b[1] <= c[1]
  BY <1>3 DEF S
<1> QED
  BY <1>4 DEF HS!Lowest

WriterState == [pc : {"idle", "fetch", "next", "delete", "insert"}, numbers : SUBSET Int,
                got : SUBSET (Nat \X Nat)]

\* Before the first reorganisation the chain, the goroutines and the table know
\* one block at each height.
SyncInv ==
  /\ reorgs \in Nat
  /\ \E last \in Nat : chain \in [0..last -> Nat]
  /\ writer \in [HS!Writers -> WriterState]
  /\ \A p \in HS!Writers : writer[p].pc \in {"delete", "insert"} => writer[p].got # {}
  /\ \A g, h \in headers : g.num = h.num /\ g.fork = h.fork => g = h
  /\ reorgs = 0 =>
       /\ \A n \in DOMAIN chain : chain[n] = 0
       /\ \A p \in HS!Writers : \A b \in writer[p].got : b[2] = 0
       /\ \A h \in headers : h.fork = 0

\* A goroutine goes on with another hand, and the blocks in it are the chain's.
LEMMA WriterSet ==
  ASSUME SyncInv, NEW p \in HS!Writers, NEW s \in WriterState, writer' = [writer EXCEPT ![p] = s],
         s.pc \in {"delete", "insert"} => s.got # {},
         reorgs = 0 => \A b \in s.got : b[2] = 0,
         UNCHANGED <<chain, reorgs>>,
         \A g, h \in headers' : g.num = h.num /\ g.fork = h.fork => g = h,
         reorgs = 0 => \A h \in headers' : h.fork = 0
  PROVE  SyncInv'
<1>1. /\ writer' \in [HS!Writers -> WriterState] /\ writer'[p] = s
      /\ \A q \in HS!Writers : q # p => writer'[q] = writer[q]
  BY DEF SyncInv
<1> QED
  BY <1>1 DEF SyncInv

LEMMA ChainTop ==
  ASSUME SyncInv
  PROVE  HS!Last \in Nat /\ DOMAIN chain = 0..HS!Last
<1>1. PICK last \in Nat : chain \in [0..last -> Nat]
  BY DEF SyncInv
<1>2. DOMAIN chain = 0..last /\ last \in 0..last
  BY <1>1
<1>3. HS!Last \in DOMAIN chain /\ \A m \in DOMAIN chain : m <= HS!Last
  BY <1>2 DEF HS!Last
<1>a. HS!Last \in 0..last /\ last <= HS!Last
  BY <1>2, <1>3
<1>4. HS!Last = last
  BY <1>a
<1> QED
  BY <1>2, <1>4

LEMMA SyncInit == HS!Init => SyncInv
<1> SUFFICES ASSUME HS!Init PROVE SyncInv
  OBVIOUS
<1>1. /\ chain = [n \in 0..1 |-> 0] /\ reorgs = 0 /\ headers = {}
      /\ writer = [p \in HS!Writers |-> HS!Idle]
  BY DEF HS!Init, HS!TableInit
<1>2. HS!Idle \in WriterState /\ HS!Idle.pc = "idle" /\ HS!Idle.got = {}
  BY DEF HS!Idle, WriterState
<1>3. chain \in [0..1 -> Nat] /\ 1 \in Nat
  BY <1>1
<1> QED
  BY <1>1, <1>2, <1>3 DEF SyncInv

\* The chain grows and reorganises; no new block of it is known before a step of a
\* goroutine.
LEMMA ChainStep ==
  ASSUME SyncInv, HS!Grow \/ HS!Reorg PROVE SyncInv'
<1>1. HS!Last \in Nat /\ DOMAIN chain = 0..HS!Last /\ \A n \in DOMAIN chain : chain[n] \in Nat
  BY ChainTop DEF SyncInv
<1>2. CASE HS!Grow
  <2> DEFINE top == HS!Last + 1
  <2>1. /\ chain' = [n \in 0..top |-> IF n <= HS!Last THEN chain[n] ELSE reorgs]
        /\ UNCHANGED <<headers, reorgs, writer>>
    BY <1>2 DEF HS!Grow
  <2>2. \A n \in 0..top : n <= HS!Last => n \in DOMAIN chain
    BY <1>1
  <2>3. top \in Nat /\ reorgs \in Nat
    BY <1>1 DEF SyncInv
  <2> HIDE DEF top
  <2>4. chain' \in [0..top -> Nat]
    BY <1>1, <2>1, <2>2, <2>3
  <2>5. reorgs = 0 => \A n \in DOMAIN chain' : chain'[n] = 0
    BY <2>1, <2>2 DEF SyncInv
  <2> QED
    BY <2>1, <2>3, <2>4, <2>5 DEF SyncInv
<1>3. CASE HS!Reorg
  <2>1. PICK first \in 1..HS!Last :
          chain' = [n \in DOMAIN chain |-> IF n >= first THEN reorgs + 1 ELSE chain[n]]
    BY <1>3 DEF HS!Reorg
  <2>2. reorgs' = reorgs + 1 /\ UNCHANGED <<headers, writer>>
    BY <1>3 DEF HS!Reorg
  <2>3. reorgs' \in Nat /\ reorgs' # 0
    BY <2>2 DEF SyncInv
  <2>4. chain' \in [0..HS!Last -> Nat]
    BY <1>1, <2>1, <2>2, <2>3
  <2> QED
    BY <1>1, <2>2, <2>3, <2>4 DEF SyncInv
<1> QED
  BY <1>2, <1>3

LEMMA StartStep ==
  ASSUME SyncInv, HS!ValidateHeaders \/ HS!PopulateMissingHeaders PROVE SyncInv'
<1>1. HS!Last \in Nat
  BY ChainTop
<1>2. PICK p \in HS!Writers, numbers \in SUBSET Int :
        writer' = [writer EXCEPT ![p] = [HS!Idle EXCEPT !.pc = "fetch", !.numbers = numbers]]
  <2>1. CASE HS!ValidateHeaders
    <3>1. (HS!Last - WindowSize)..HS!Last \subseteq Int
      OBVIOUS
    <3> QED
      BY <2>1, <3>1 DEF HS!ValidateHeaders, HS!MakeValidationWindow, HS!Writers
  <2>2. CASE HS!PopulateMissingHeaders
    <3>1. HS!MissingBlockNumbers(SyncStart, HS!Last) \subseteq Int
      BY DEF HS!MissingBlockNumbers
    <3> QED
      BY <2>2, <3>1 DEF HS!PopulateMissingHeaders, HS!Writers
  <2> QED
    BY <2>1, <2>2
<1>3. UNCHANGED <<headers, chain, reorgs>>
  BY DEF HS!ValidateHeaders, HS!PopulateMissingHeaders
<1> DEFINE s == [HS!Idle EXCEPT !.pc = "fetch", !.numbers = numbers]
<1>4. s \in WriterState /\ s.pc = "fetch" /\ s.got = {}
  BY DEF HS!Idle, WriterState
<1> HIDE DEF s
<1>5. writer' = [writer EXCEPT ![p] = s]
  BY <1>2 DEF s
<1> QED
  BY <1>3, <1>4, <1>5, WriterSet DEF SyncInv

\* The next place of a goroutine, and what is left in its hand.
LEMMA WriterMoves ==
  ASSUME SyncInv, NEW p \in HS!Writers, NEW x \in {"idle", "fetch", "next", "delete", "insert"},
         NEW got \in SUBSET (Nat \X Nat),
         \/ writer' = [writer EXCEPT ![p].pc = x, ![p].got = got]
         \/ writer' = [writer EXCEPT ![p].got = got] /\ x = writer[p].pc
         \/ writer' = [writer EXCEPT ![p] = HS!Idle] /\ x = "idle" /\ got = {},
         x \in {"delete", "insert"} => got # {},
         reorgs = 0 => \A b \in got : b[2] = 0,
         UNCHANGED <<chain, reorgs>>,
         \A g, h \in headers' : g.num = h.num /\ g.fork = h.fork => g = h,
         reorgs = 0 => \A h \in headers' : h.fork = 0
  PROVE  SyncInv'
<1>1. writer \in [HS!Writers -> WriterState] /\ writer[p] \in WriterState
  BY DEF SyncInv
<1>2. PICK s \in WriterState : writer' = [writer EXCEPT ![p] = s] /\ s.pc = x /\ s.got = got
  <2>1. CASE writer' = [writer EXCEPT ![p].pc = x, ![p].got = got]
    <3> DEFINE s == [writer[p] EXCEPT !.pc = x, !.got = got]
    <3>1. s \in WriterState /\ s.pc = x /\ s.got = got
      BY <1>1 DEF WriterState
    <3>2. writer' = [writer EXCEPT ![p] = s]
      BY <1>1, <2>1
    <3> QED
      BY <3>1, <3>2
  <2>2. CASE writer' = [writer EXCEPT ![p].got = got] /\ x = writer[p].pc
    <3> DEFINE s == [writer[p] EXCEPT !.got = got]
    <3>1. s \in WriterState /\ s.pc = x /\ s.got = got
      BY <1>1, <2>2 DEF WriterState
    <3>2. writer' = [writer EXCEPT ![p] = s]
      BY <1>1, <2>2
    <3> QED
      BY <3>1, <3>2
  <2>3. CASE writer' = [writer EXCEPT ![p] = HS!Idle] /\ x = "idle" /\ got = {}
    <3>1. HS!Idle \in WriterState /\ HS!Idle.pc = x /\ HS!Idle.got = got
      BY <2>3 DEF HS!Idle, WriterState
    <3> QED
      BY <2>3, <3>1
  <2> QED
    BY <2>1, <2>2, <2>3
<1> QED
  BY <1>2, WriterSet

LEMMA PlaceMoves ==
  ASSUME SyncInv, NEW p \in HS!Writers, NEW x \in {"delete", "insert"},
         writer' = [writer EXCEPT ![p].pc = x], writer[p].got # {},
         UNCHANGED <<chain, reorgs>>, headers' \subseteq headers
  PROVE  SyncInv'
<1> DEFINE got == writer[p].got
<1>1. got \in SUBSET (Nat \X Nat) /\ (reorgs = 0 => \A b \in got : b[2] = 0)
  BY DEF SyncInv, WriterState
<1>2. /\ \A g, h \in headers' : g.num = h.num /\ g.fork = h.fork => g = h
      /\ reorgs = 0 => \A h \in headers' : h.fork = 0
  BY DEF SyncInv
<1> DEFINE s == [writer[p] EXCEPT !.pc = x]
<1>3. s \in WriterState /\ s.got = got
  BY DEF SyncInv, WriterState
<1>4. writer' = [writer EXCEPT ![p] = s]
  BY DEF SyncInv
<1> HIDE DEF s
<1> QED
  BY <1>1, <1>2, <1>3, <1>4, WriterSet

LEMMA FetchStep ==
  ASSUME SyncInv, NEW p \in HS!Writers, HS!GetHeadersByNumbers(p) PROVE SyncInv'
<1> DEFINE all == {<<n, chain[n]>> : n \in HS!FirstNumbers(writer[p].numbers) \cap DOMAIN chain}
<1>1. PICK got \in SUBSET all : writer' = [writer EXCEPT ![p].pc = "next", ![p].got = got]
  BY DEF HS!GetHeadersByNumbers
<1>2. UNCHANGED <<headers, chain, reorgs>>
  BY DEF HS!GetHeadersByNumbers
<1>3. \A n \in DOMAIN chain : n \in Nat /\ chain[n] \in Nat
  BY ChainTop DEF SyncInv
<1>4. all \subseteq Nat \X Nat /\ (reorgs = 0 => \A b \in all : b[2] = 0)
  BY <1>3 DEF SyncInv
<1> HIDE DEF all
<1>5. got \in SUBSET (Nat \X Nat) /\ (reorgs = 0 => \A b \in got : b[2] = 0)
  BY <1>4
<1> QED
  BY <1>1, <1>2, <1>5, WriterMoves DEF SyncInv

\* The statements for the lowest block in hand: the lookup, the delete, and the
\* insert, which adds no row that is there.
LEMMA StatementStep ==
  ASSUME SyncInv, NEW p \in HS!Writers,
         HS!CreateOrUpdateHeader(p) \/ HS!ReplaceHeader(p) \/ HS!InsertHeader(p)
  PROVE  SyncInv'
<1> DEFINE got == writer[p].got
           b == HS!Lowest(got)
<1>1. got \in SUBSET (Nat \X Nat) /\ writer[p].pc \in {"idle", "fetch", "next", "delete", "insert"}
  BY DEF SyncInv, WriterState
<1>2. got # {} /\ UNCHANGED <<chain, reorgs>>
  BY DEF SyncInv, HS!CreateOrUpdateHeader, HS!ReplaceHeader, HS!InsertHeader
<1>3. b \in got
  BY <1>1, <1>2, LowestExists
<1>4. got \ {b} \in SUBSET (Nat \X Nat)
  BY <1>1
<1>5. reorgs = 0 => b[2] = 0 /\ \A c \in got : c[2] = 0
  BY <1>3 DEF SyncInv
<1>6. /\ \A g, h \in headers : g.num = h.num /\ g.fork = h.fork => g = h
      /\ reorgs = 0 => \A h \in headers : h.fork = 0
  BY DEF SyncInv
<1>7. CASE HS!CreateOrUpdateHeader(p)
  <2>1. UNCHANGED headers /\ writer[p].pc = "next"
    BY <1>7 DEF HS!CreateOrUpdateHeader
  <2>2. \/ writer' = [writer EXCEPT ![p].pc = "insert"]
        \/ writer' = [writer EXCEPT ![p].pc = "delete"]
        \/ writer' = [writer EXCEPT ![p].got = got \ {b}]
    BY <1>7 DEF HS!CreateOrUpdateHeader
  <2> HIDE DEF b
  <2>3. CASE writer' = [writer EXCEPT ![p].pc = "insert"]
    BY <1>2, <2>1, <2>3, PlaceMoves
  <2>4. CASE writer' = [writer EXCEPT ![p].pc = "delete"]
    BY <1>2, <2>1, <2>4, PlaceMoves
  <2>5. CASE writer' = [writer EXCEPT ![p].got = got \ {b}]
    <3> DEFINE rest == got \ {b}
    <3>1. rest \in SUBSET (Nat \X Nat) /\ (reorgs = 0 => \A c \in rest : c[2] = 0)
      BY <1>4, <1>5
    <3>2. writer' = [writer EXCEPT ![p].got = rest]
      BY <2>5
    <3> HIDE DEF rest
    <3> QED
      BY <1>2, <1>6, <2>1, <3>1, <3>2, WriterMoves
  <2> QED
    BY <2>2, <2>3, <2>4, <2>5
<1>8. CASE HS!ReplaceHeader(p)
  <2>1. headers' \subseteq headers /\ writer' = [writer EXCEPT ![p].pc = "insert"]
    BY <1>8 DEF HS!ReplaceHeader, HS!DeleteHeaders
  <2> QED
    BY <1>2, <2>1, PlaceMoves
<1>9. CASE HS!InsertHeader(p)
  <2>1. writer' = [writer EXCEPT ![p].pc = "next", ![p].got = got \ {b}]
    BY <1>9 DEF HS!InsertHeader
  <2>2. HS!InternalInsertHeader(b[1], b[2])
    BY <1>9 DEF HS!InsertHeader
  <2> HIDE DEF b
  <2>3. /\ \A g, h \in headers' : g.num = h.num /\ g.fork = h.fork => g = h
        /\ reorgs = 0 => \A h \in headers' : h.fork = 0
    <3> DEFINE new == [id |-> nextId, num |-> b[1], fork |-> b[2], checks |-> 0]
    <3>1. CASE UNCHANGED headers
      BY <1>6, <3>1
    <3>2. CASE headers' = headers \cup {new} /\ ~\E h \in HS!RowsAt(b[1]) : h.fork = b[2]
      <4>1. new.num = b[1] /\ new.fork = b[2]
        OBVIOUS
      <4>2. \A h \in headers : ~(h.num = new.num /\ h.fork = new.fork)
        BY <3>2, <4>1 DEF HS!RowsAt
      <4> HIDE DEF new
      <4> QED
        BY <1>5, <1>6, <3>2, <4>1, <4>2
    <3> QED
      BY <2>2, <3>1, <3>2 DEF HS!InternalInsertHeader
  <2> DEFINE rest == got \ {b}
  <2>4. rest \in SUBSET (Nat \X Nat) /\ (reorgs = 0 => \A c \in rest : c[2] = 0)
    BY <1>4, <1>5
  <2>5. writer' = [writer EXCEPT ![p].pc = "next", ![p].got = rest]
    BY <2>1
  <2> HIDE DEF rest
  <2> QED
    BY <1>2, <2>3, <2>4, <2>5, WriterMoves
<1> QED
  BY <1>7, <1>8, <1>9

LEMMA DropStep ==
  ASSUME SyncInv, NEW p \in HS!Writers, HS!Finish(p) \/ HS!Fail(p) PROVE SyncInv'
<1>1. writer' = [writer EXCEPT ![p] = HS!Idle] /\ UNCHANGED <<headers, chain, reorgs>>
  BY DEF HS!Finish, HS!Fail
<1>2. {} \in SUBSET (Nat \X Nat)
  OBVIOUS
<1> QED
  BY <1>1, <1>2, WriterMoves DEF SyncInv

\* The two goroutines of headerSync insert no header twice, and two rows at one
\* height mean that the chain has reorganised: for any window, batch size and
\* starting block, and any number of reorganisations and failures.
THEOREM NoDuplicateHeadersAlways == HS!Spec => []NoDuplicateHeaders
<1>1. SyncInv /\ [HS!Next]_HS!vars => SyncInv'
  <2>1. SyncInv /\ HS!Next => SyncInv'
    BY ChainStep, StartStep, FetchStep, StatementStep, DropStep
       DEF HS!Next, HS!RetrieveAndUpdateHeaders
  <2>2. SyncInv /\ UNCHANGED HS!vars => SyncInv'
    BY DEF SyncInv, HS!vars
  <2> QED
    BY <2>1, <2>2
<1>2. SyncInv => NoDuplicateHeaders
  BY DEF SyncInv, NoDuplicateHeaders
<1> QED
  BY <1>1, <1>2, SyncInit, PTL DEF HS!Spec
=============================================================================
