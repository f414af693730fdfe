------------------------- MODULE RealtimeCoordinator -------------------------
(***************************************************************************)
(* One Durable Object that owns one collaborative document:                *)
(* shareout-app/src/realtime/coordinator.ts.                               *)
(*                                                                         *)
(* A Yjs document is the set of edits applied to it (applying an update is *)
(* idempotent and commutative), an update is a non-empty set of edits, and *)
(* encodeStateAsUpdate is the whole set.  The object's own SQLite holds a  *)
(* meta row with a snapshot and a log of updates keyed by seq; the legacy  *)
(* central D1 tables hold the same for documents written before the object *)
(* had storage of its own, and serve as a fallback.                        *)
(*                                                                         *)
(* The object is single-threaded and its own storage closes the input     *)
(* gate, so a handler is one step except where it awaits D1.  Each D1      *)
(* request is therefore sent in one step and answered in a later one.      *)
(***************************************************************************)
EXTENDS Integers, Sequences, FiniteSets

CONSTANTS
    Clients,             \* websocket ends
    Reader,              \* a plain GET: it opens the document, no socket stays
    Edits,               \* the edits a Yjs document is made of
    Updates,             \* the updates that are sent: non-empty sets of edits
    LegacyDocs,          \* what central D1 may hold for the document at first
    CompactionThreshold, \* COMPACTION_THRESHOLD
    ColdLoadBatch,       \* COLD_LOAD_BATCH
    MaxPending,          \* MAX_PENDING_UPDATES (and the branch of MAX_PENDING_BYTES)
    Events               \* the environment's events that may happen, see EventKinds

\* What the platform may do to the object.
\*   crash        the instance is evicted, its sockets close
\*   hibernate    the idle instance is dropped from memory, its sockets stay open
\*   flush        a transaction of a flush or a compaction in local storage throws
\*   d1Read       D1 rejects a read of the import
\*   importWrite  the transaction that stores the imported rows throws
\*   afterImport  storage.put('migrated') or the compaction after an import throws
\*   d1Batch      D1 rejects a batch (executed or not)
\*   overlap      a fetch or a message arrives while an import awaits D1
EventKinds == {"crash", "hibernate", "flush", "d1Read", "importWrite",
               "afterImport", "d1Batch", "overlap"}

Rows == [seq : Nat \ {0}, upd : (SUBSET Edits) \ {{}}]

\* The edits of a set of log rows.
EditsOf(rows) == UNION {r.upd : r \in rows}

\* seq is a PRIMARY KEY of the local log.
UniqueSeq(rows) == \A r, q \in rows : r.seq = q.seq => r = q

ASSUME ConstantsAssumption ==
    /\ Reader \notin Clients
    /\ Updates \subseteq (SUBSET Edits) \ {{}}
    /\ CompactionThreshold \in Nat \ {0}
    /\ ColdLoadBatch \in Nat \ {0}
    /\ MaxPending \in Nat \ {0}
    /\ Events \subseteq EventKinds

\* A document in central D1: its artifact_docs row, and its update log, written
\* by one writer that numbered the updates one by one.
ASSUME LegacyAssumption ==
    \A l \in LegacyDocs :
        /\ l \in [row : BOOLEAN, snap : SUBSET Edits, log : SUBSET Rows]
        /\ IsFiniteSet(l.log)
        /\ UniqueSeq(l.log)
        /\ ~l.row => l.snap = {} /\ l.log = {}

VARIABLES
    \* in the object's durable storage
    meta,           \* the doc_meta row: [made, snap, count]
    log,            \* doc_updates
    migrated,       \* the 'migrated' key
    alarm,          \* an alarm is set
    \* in central D1
    d1,             \* [row, snap, log]
    \* in the instance's memory
    open,           \* this.doc is not null
    doc,            \* the edits of this.doc
    pending,        \* pendingUpdates
    nextSeq,
    updateCount,
    fallback,       \* useD1Fallback, with d1DocId
    saveScheduled,
    import,         \* where importFromD1 awaits, for whom, what it has read
    flights,        \* D1 batches sent and not answered
    \* the sockets
    sockets,        \* accepted and open
    synced,         \* those whose SYNC_STEP1 has been answered
    exchanged,      \* the edits that crossed a socket, either way
    \* history
    saved           \* the edits some committed write has made durable

durable  == <<meta, log, migrated>>
memory   == <<open, fallback, import>>
counters == <<nextSeq, updateCount>>
conns    == <<sockets, synced, exchanged>>
vars == <<meta, log, migrated, alarm, d1, open, doc, pending, nextSeq,
          updateCount, fallback, saveScheduled, import, flights, sockets,
          synced, exchanged, saved>>

NoImport == [at |-> "idle", by |-> Reader, snap |-> {}, rows |-> {}, last |-> 0]

Flights == [op : {"flush", "compact"}, by : {"alarm", "forced", "gone"},
            rows : SUBSET Rows, snap : SUBSET Edits]

TypeOK ==
    /\ meta \in [made : BOOLEAN, snap : SUBSET Edits, count : Nat]
    /\ log \subseteq Rows
    /\ migrated \in BOOLEAN
    /\ alarm \in BOOLEAN
    /\ d1 \in [row : BOOLEAN, snap : SUBSET Edits, log : SUBSET Rows]
    /\ IsFiniteSet(d1.log)
    /\ open \in BOOLEAN
    /\ doc \subseteq Edits
    /\ pending \in Seq(Updates)
    /\ nextSeq \in Nat \ {0}
    /\ updateCount \in Nat
    /\ fallback \in BOOLEAN
    /\ saveScheduled \in BOOLEAN
    /\ import \in [at : {"idle", "row", "page"}, by : Clients \cup {Reader},
                   snap : SUBSET Edits, rows : SUBSET Rows, last : Nat]
    /\ IsFiniteSet(import.rows)
    /\ flights \subseteq Flights
    /\ \A f \in flights : IsFiniteSet(f.rows)
    /\ sockets \subseteq Clients
    /\ synced \subseteq sockets
    /\ exchanged \in [Clients -> SUBSET Edits]
    /\ saved \subseteq Edits

Init ==
    /\ meta = [made |-> FALSE, snap |-> {}, count |-> 0]
    /\ log = {}
    /\ migrated = FALSE
    /\ alarm = FALSE
    /\ d1 \in LegacyDocs
    /\ open = FALSE
    /\ doc = {}
    /\ pending = <<>>
    /\ nextSeq = 1
    /\ updateCount = 0
    /\ fallback = FALSE
    /\ saveScheduled = FALSE
    /\ import = NoImport
    /\ flights = {}
    /\ sockets = {}
    /\ synced = {}
    /\ exchanged = [c \in Clients |-> {}]
    /\ saved = d1.snap \cup EditsOf(d1.log)

-----------------------------------------------------------------------------
(* Opening the document: fetch, initializeDoc, importFromD1.               *)

\* fetch accepts the socket; a GET leaves nothing behind.
Accept(c) ==
    /\ sockets' = IF c \in Clients THEN sockets \cup {c} ELSE sockets
    /\ UNCHANGED <<synced, exchanged>>

\* l is the seq of the last of the rows (0 when there is none).
IsLast(l, rows) ==
    /\ rows = {} => l = 0
    /\ rows # {} => \E r \in rows : r.seq = l
    /\ \A r \in rows : r.seq <= l

\* initializeDoc returns early: the document is this instance's already.
FetchServed(c) ==
    /\ c \notin sockets
    /\ open
    /\ import.at # "idle" => "overlap" \in Events
    /\ Accept(c)
    /\ UNCHANGED <<durable, alarm, d1, memory, doc, pending, counters,
                   saveScheduled, flights, saved>>

\* What loadLocal reads back: the snapshot, the log on top of it, the stored count.
LoadsSnapshotOnly == IF meta.snap = {} THEN EditsOf(log) ELSE meta.snap
LoadedDoc == meta.snap \cup EditsOf(log)

ForgetsCount == 0
LoadedCount == meta.count

\* The seq to go on from, after the last one in the log.
GoesByLast(last) == last
RepeatsLast(last) == IF last = 0 THEN 1 ELSE last
SeqAfter(last) == last + 1

\* A fresh instance finds its meta row: loadLocal.
FetchLoads(c) ==
    /\ c \notin sockets
    /\ ~open
    /\ meta.made
    /\ open' = TRUE
    /\ doc' = LoadedDoc
    /\ \E last \in {0} \cup {r.seq : r \in log} :
          IsLast(last, log) /\ nextSeq' = SeqAfter(last)
    /\ updateCount' = LoadedCount
    /\ Accept(c)
    /\ UNCHANGED <<durable, alarm, d1, pending, fallback, saveScheduled, import,
                   flights, saved>>

\* No meta row.  Imported before: an empty document; otherwise the import asks
\* D1 for the artifact_docs row, and the fetch awaits it.
FetchFirst(c) ==
    /\ c \notin sockets
    /\ ~open
    /\ ~meta.made
    /\ open' = TRUE
    /\ doc' = {}
    /\ nextSeq' = 1
    /\ updateCount' = 0
    /\ IF migrated
       THEN /\ meta' = [made |-> TRUE, snap |-> {}, count |-> 0]
            /\ Accept(c)
            /\ UNCHANGED import
       ELSE /\ import' = [NoImport EXCEPT !.at = "row", !.by = c]
            /\ UNCHANGED <<meta, conns>>
    /\ UNCHANGED <<log, migrated, alarm, d1, pending, fallback, saveScheduled,
                   flights, saved>>

\* D1 has no row: the document is new.  If the put of 'migrated' throws, so does
\* the fetch.
RowMissing ==
    /\ import.at = "row"
    /\ ~d1.row
    /\ meta' = [meta EXCEPT !.made = TRUE]
    /\ import' = NoImport
    /\ \/ /\ migrated' = TRUE
          /\ Accept(import.by)
       \/ /\ "afterImport" \in Events
          /\ UNCHANGED <<migrated, conns>>
    /\ UNCHANGED <<log, alarm, d1, open, doc, pending, counters, fallback,
                   saveScheduled, flights, saved>>

\* D1 answers with the row: its snapshot is applied, the first page asked for.
RowFound ==
    /\ import.at = "row"
    /\ d1.row
    /\ doc' = doc \cup d1.snap
    /\ import' = [import EXCEPT !.at = "page", !.snap = d1.snap]
    /\ UNCHANGED <<durable, alarm, d1, open, pending, counters, fallback,
                   saveScheduled, flights, conns, saved>>

\* page is an answer to SELECT ... seq > last ORDER BY seq LIMIT ColdLoadBatch.
SkipsOne(last) == {r \in d1.log : r.seq > last + 1}
Beyond(last) == {r \in d1.log : r.seq > last}
IsPage(page, last) ==
    /\ page \subseteq Beyond(last)
    /\ Cardinality(page) <= ColdLoadBatch
    /\ Cardinality(page) < ColdLoadBatch => page = Beyond(last)
    /\ \A r \in page, q \in Beyond(last) \ page : r.seq <= q.seq

Pages(last) == {page \in SUBSET Beyond(last) : IsPage(page, last)}

\* A full page: there may be more.
FullPage ==
    /\ import.at = "page"
    /\ \E page \in Pages(import.last) :
          /\ Cardinality(page) = ColdLoadBatch
          /\ doc' = doc \cup EditsOf(page)
          /\ \E l \in {r.seq : r \in page} :
                /\ IsLast(l, page)
                /\ import' = [import EXCEPT !.rows = @ \cup page, !.last = l]
    /\ UNCHANGED <<durable, alarm, d1, open, pending, counters, fallback,
                   saveScheduled, flights, conns, saved>>

\* The import's transaction inserts every row under its own seq.
Collide(rows) ==
    \/ ~UniqueSeq(rows)
    \/ \E r \in rows, q \in log : r.seq = q.seq

\* A log of so many updates is compacted.
IsLonger(count) == count > CompactionThreshold
IsLong(count) == count >= CompactionThreshold

\* The rows are stored, the document is marked, a large backlog is compacted.
ImportCommits(rows, last) ==
    /\ ~Collide(rows)
    /\ migrated' = TRUE
    /\ IF IsLong(Cardinality(rows))
       THEN /\ meta' = [made |-> TRUE, snap |-> doc', count |-> 0]
            /\ log' = {}
            /\ updateCount' = 0
            /\ nextSeq' = 1
            /\ saved' = saved \cup doc'
       ELSE /\ meta' = [made |-> TRUE, snap |-> import.snap,
                        count |-> Cardinality(rows)]
            /\ log' = log \cup rows
            /\ updateCount' = Cardinality(rows)
            /\ nextSeq' = SeqAfter(last)
            /\ UNCHANGED saved
    /\ UNCHANGED fallback

\* The rows are stored, then the put or the compaction throws: fall back to D1.
ImportHalfFails(rows, last) ==
    /\ "afterImport" \in Events
    /\ ~Collide(rows)
    /\ meta' = [made |-> TRUE, snap |-> import.snap, count |-> Cardinality(rows)]
    /\ log' = log \cup rows
    /\ \/ UNCHANGED migrated
       \/ IsLong(Cardinality(rows)) /\ migrated' = TRUE
    /\ updateCount' = Cardinality(rows)
    /\ nextSeq' = SeqAfter(last)
    /\ fallback' = TRUE
    /\ UNCHANGED saved

\* The transaction throws, by itself or on a seq that is taken: fall back to D1.
ImportAborts(rows, last) ==
    /\ Collide(rows) \/ "importWrite" \in Events
    /\ updateCount' = Cardinality(rows)
    /\ nextSeq' = SeqAfter(last)
    /\ fallback' = TRUE
    /\ UNCHANGED <<durable, saved>>

\* A short page ends the import, and the fetch accepts its socket.
LastPage ==
    /\ import.at = "page"
    /\ \E page \in Pages(import.last) :
          /\ Cardinality(page) < ColdLoadBatch
          /\ doc' = doc \cup EditsOf(page)
          /\ \E l \in {import.last} \cup {r.seq : r \in page} :
                /\ IF page = {} THEN l = import.last ELSE IsLast(l, page)
                /\ \/ ImportCommits(import.rows \cup page, l)
                   \/ ImportHalfFails(import.rows \cup page, l)
                   \/ ImportAborts(import.rows \cup page, l)
    /\ import' = NoImport
    /\ Accept(import.by)
    /\ UNCHANGED <<alarm, d1, open, pending, saveScheduled, flights>>

\* D1 rejects a read: the fetch answers 500, and this.doc is left as it is.
ReadFails ==
    /\ "d1Read" \in Events
    /\ import.at # "idle"
    /\ import' = NoImport
    /\ UNCHANGED <<durable, alarm, d1, open, doc, pending, counters, fallback,
                   saveScheduled, flights, conns, saved>>

-----------------------------------------------------------------------------
(* Persistence: persistUpdates, maybeCompactSnapshot and their D1 twins.   *)

PendingEdits == UNION {pending[i] : i \in 1..Len(pending)}

\* The rows a flush writes: the pending updates, numbered from nextSeq on.
NewRows == {[seq |-> nextSeq + i - 1, upd |-> pending[i]] : i \in 1..Len(pending)}

\* The meta row after a compaction: a snapshot of the live document, the count reset.
SnapshotsStored == [meta EXCEPT !.snap = doc' \ PendingEdits, !.count = 0]
KeepsCount == [meta EXCEPT !.snap = doc']
Compacted == [meta EXCEPT !.snap = doc', !.count = 0]

\* The local transaction commits, and a log that has grown long is compacted.
\* An UPDATE of a meta row that does not exist changes nothing.
FlushCommits ==
    /\ \A r \in NewRows, q \in log : r.seq # q.seq
    /\ LET count == updateCount + Len(pending) IN
       \/ /\ IsLong(count)
          /\ meta' = IF meta.made THEN Compacted ELSE meta
          /\ log' = {}
          /\ updateCount' = 0
          /\ nextSeq' = 1
          /\ saved' = saved \cup doc'
       \/ /\ ~IsLong(count) \/ "flush" \in Events
          /\ meta' = IF meta.made
                     THEN [meta EXCEPT !.count = @ + Len(pending)] ELSE meta
          /\ log' = log \cup NewRows
          /\ updateCount' = count
          /\ nextSeq' = nextSeq + Len(pending)
          /\ saved' = saved \cup PendingEdits

\* The local transaction throws: the updates are no longer pending, nor stored.
FlushThrows ==
    /\ \/ "flush" \in Events
       \/ \E r \in NewRows, q \in log : r.seq = q.seq
    /\ UNCHANGED <<meta, log, counters, saved>>

\* The D1 batch is sent; its seq range is claimed now.
FlushSends(by) ==
    /\ flights' = flights \cup
          {[op |-> "flush", by |-> by, rows |-> NewRows, snap |-> {}]}
    /\ nextSeq' = nextSeq + Len(pending)
    /\ UNCHANGED <<meta, log, updateCount, saved>>

\* persistUpdates; pending is the caller's to set.
PersistUpdates(by) ==
    IF fallback
    THEN FlushSends(by)
    ELSE /\ FlushCommits \/ FlushThrows
         /\ UNCHANGED flights

\* scheduleSave, and the alarm that it sets.
SchedulesNothing == UNCHANGED <<alarm, saveScheduled>>
ScheduleSave ==
    /\ alarm' = (alarm \/ ~saveScheduled)
    /\ saveScheduled' = TRUE

StaysScheduled == alarm' = FALSE /\ UNCHANGED saveScheduled
AlarmFires == alarm' = FALSE /\ saveScheduled' = FALSE

\* The alarm; it does not run again while it awaits D1.
Alarm ==
    /\ alarm
    /\ \A f \in flights : f.by # "alarm"
    /\ AlarmFires
    /\ pending' = <<>>
    /\ IF open /\ pending # <<>>
       THEN UNCHANGED doc /\ PersistUpdates("alarm")
       ELSE UNCHANGED <<doc, meta, log, counters, flights, saved>>
    /\ UNCHANGED <<migrated, d1, memory, conns>>

\* What D1 holds once it has executed a batch.
CompactsUnsaved(f) ==
    IF f.op = "flush" THEN [d1 EXCEPT !.log = @ \cup f.rows]
                      ELSE [d1 EXCEPT !.log = {}]
Executed(f) ==
    IF f.op = "flush" THEN [d1 EXCEPT !.log = @ \cup f.rows]
                      ELSE [d1 EXCEPT !.snap = f.snap, !.log = {}]

\* The edits that are durable then, whether or not the answer arrives.
Stores(f) == IF f.op = "flush" THEN EditsOf(f.rows) ELSE f.snap

\* A flush is answered; its handler goes on to compact when the count is due.
FlushAnswered(f) ==
    /\ f.op = "flush"
    /\ f.by # "gone"
    /\ d1' = Executed(f)
    /\ saved' = saved \cup Stores(f)
    /\ updateCount' = updateCount + Cardinality(f.rows)
    /\ flights' = (flights \ {f}) \cup
          IF IsLong(updateCount')
          THEN {[f EXCEPT !.op = "compact", !.snap = doc]} ELSE {}
    /\ UNCHANGED nextSeq

CompactAnswered(f) ==
    /\ f.op = "compact"
    /\ f.by # "gone"
    /\ d1' = Executed(f)
    /\ saved' = saved \cup Stores(f)
    /\ updateCount' = 0
    /\ nextSeq' = 1
    /\ flights' = flights \ {f}

\* D1 rejects a batch, or the instance that awaited it is gone; either way D1 may
\* have executed it, and nobody goes on from it.
BatchUnanswered(f) ==
    /\ f.by = "gone" \/ "d1Batch" \in Events
    /\ \/ UNCHANGED <<d1, saved>>
       \/ d1' = Executed(f) /\ saved' = saved \cup Stores(f)
    /\ flights' = flights \ {f}
    /\ UNCHANGED counters

Batch ==
    /\ \E f \in flights :
          FlushAnswered(f) \/ CompactAnswered(f) \/ BatchUnanswered(f)
    /\ UNCHANGED <<durable, alarm, memory, doc, pending, saveScheduled, conns>>

-----------------------------------------------------------------------------
(* The sockets: webSocketMessage, webSocketClose.                          *)

\* An update goes out to every open socket (its sender has it).
TellsOne(u) ==
    \E c \in sockets : exchanged' = [exchanged EXCEPT ![c] = @ \cup u]
FanOut(u) ==
    exchanged' = [d \in Clients |-> IF d \in sockets THEN exchanged[d] \cup u
                                                    ELSE exchanged[d]]

\* An UPDATE, or a SYNC_STEP2 with edits, applied, queued and fanned out.  A client
\* sends what the document lacks: its new edits, and after the handshake the
\* difference to the state vector it was sent (which may repeat edits).  An update of
\* which the document has everything is left out: the code queues and sends it again.
HandleUpdate(c, u) ==
    /\ c \in sockets
    /\ open
    /\ import.at # "idle" => "overlap" \in Events
    /\ ~(u \subseteq doc)
    /\ doc' = doc \cup u
    /\ FanOut(u)
    /\ IF Len(pending) < MaxPending
       THEN /\ pending' = Append(pending, u)
            /\ UNCHANGED <<meta, log, counters, flights, saved>>
       ELSE /\ PersistUpdates("forced")
            /\ pending' = <<u>>
    /\ ScheduleSave
    /\ UNCHANGED <<migrated, d1, memory, sockets, synced>>

\* The same message at an instance that woke without a document: applyUpdate
\* throws on null, and the socket stays open.
HandleUpdateAsleep(c, u) ==
    /\ c \in sockets
    /\ ~open
    /\ ~(u \subseteq exchanged[c])
    /\ exchanged' = [exchanged EXCEPT ![c] = @ \cup u]
    /\ UNCHANGED <<durable, alarm, d1, memory, doc, pending, counters,
                   saveScheduled, flights, sockets, synced, saved>>

\* A client asks for what it lacks, once per connection.
HandleSyncStep1(c) ==
    /\ c \in sockets \ synced
    /\ open
    /\ import.at # "idle" => "overlap" \in Events
    /\ synced' = synced \cup {c}
    /\ exchanged' = [exchanged EXCEPT ![c] = @ \cup doc]
    /\ UNCHANGED <<durable, alarm, d1, memory, doc, pending, counters,
                   saveScheduled, flights, sockets, saved>>

Leave(c) == sockets' = sockets \ {c} /\ synced' = synced \ {c}

Close(c) ==
    /\ c \in sockets
    /\ Leave(c)
    /\ exchanged' = [exchanged EXCEPT ![c] = {}]
    /\ UNCHANGED <<durable, alarm, d1, memory, doc, pending, counters,
                   saveScheduled, flights, saved>>

-----------------------------------------------------------------------------
(* The platform.                                                           *)

\* Memory is dropped; a fresh instance starts from the fields' initial values.
Forget ==
    /\ open' = FALSE
    /\ doc' = {}
    /\ pending' = <<>>
    /\ nextSeq' = 1
    /\ updateCount' = 0
    /\ fallback' = FALSE
    /\ saveScheduled' = FALSE
    /\ import' = NoImport
    /\ UNCHANGED <<durable, alarm, d1, saved>>

\* Batches in flight go on without their instance.
Crash ==
    /\ "crash" \in Events
    /\ open
    /\ Forget
    /\ flights' = {[f EXCEPT !.by = "gone"] : f \in flights}
    /\ sockets' = {}
    /\ synced' = {}
    /\ exchanged' = [c \in Clients |-> {}]

\* Only an instance with nothing to do hibernates, and the sockets outlive it.
Hibernate ==
    /\ "hibernate" \in Events
    /\ open
    /\ import.at = "idle"
    /\ pending = <<>>
    /\ ~alarm
    /\ \A f \in flights : f.by = "gone"
    /\ Forget
    /\ UNCHANGED <<flights, conns>>

Next ==
    \/ \E c \in Clients \cup {Reader} :
          FetchServed(c) \/ FetchLoads(c) \/ FetchFirst(c)
    \/ RowMissing \/ RowFound \/ FullPage \/ LastPage \/ ReadFails
    \/ Alarm
    \/ Batch
    \/ \E c \in Clients, u \in Updates : HandleUpdate(c, u) \/ HandleUpdateAsleep(c, u)
    \/ \E c \in Clients : HandleSyncStep1(c) \/ Close(c)
    \/ Crash
    \/ Hibernate

\* The platform delivers a due alarm, and D1 answers, if only with an error.
Fairness ==
    /\ WF_vars(Alarm)
    /\ WF_vars(Batch)
    /\ WF_vars(RowMissing \/ RowFound \/ FullPage \/ LastPage)

Spec == Init /\ [][Next]_vars /\ Fairness

-----------------------------------------------------------------------------
(* What the document promises.                                             *)

\* The document a fresh instance would read back from storage.
Recoverable ==
    IF meta.made THEN meta.snap \cup EditsOf(log)
    ELSE IF migrated THEN {}
    ELSE d1.snap \cup EditsOf(d1.log)

\* History is never lost: what a committed write made durable, in the local log,
\* in a snapshot or in D1, a fresh instance reads back.
SavedIsKept == saved \subseteq Recoverable

\* The same between imports: a write that landed while an import awaited D1 is not
\* lost once the import is over.
SavedSurvivesImport == import.at = "idle" => SavedIsKept

\* Whoever is served a document once the open is over is served all that is saved:
\* initializeDoc's early return never hands out a document that was not loaded.
ServedIsComplete == open /\ import.at = "idle" => saved \subseteq doc

\* The next flush finds its seq range free: nextSeq, kept in memory across flushes,
\* compactions and reloads, is beyond every seq in the log.
NextSeqIsFree ==
    open /\ import.at = "idle" /\ ~fallback => \A r \in log : r.seq < nextSeq

\* A synced socket has been sent everything the document holds: neither a load,
\* an import nor a flush adds to the document without telling the sockets.
SyncedIsCurrent == \A c \in synced : doc \subseteq exchanged[c]

\* An edit received on an open socket is in the document, or in the storage the
\* next instance loads: it is persisted and fanned out (webSocketMessage).
ReceivedIsHeld ==
    import.at = "idle" =>
        \A c \in sockets : exchanged[c] \subseteq IF open THEN doc ELSE Recoverable

\* Pending updates always have an alarm to flush them, across forced flushes,
\* alarms that overlap a D1 batch, and imports.
PendingHasAlarm == pending # <<>> => open /\ saveScheduled /\ alarm

\* Cold reads stay a snapshot and a small tail: maybeCompactSnapshot runs whenever
\* the log has grown to the threshold.
TailIsBounded == meta.made => Cardinality(log) < CompactionThreshold

\* The in-memory and the stored update counts and the log agree.
CountsAgree ==
    open /\ import.at = "idle" /\ ~fallback =>
        updateCount = meta.count /\ updateCount = Cardinality(log)

\* A pending edit becomes durable unless its instance is lost: forced flushes,
\* compactions and overlapping batches included.
EditsReachStorage ==
    \A e \in Edits : e \in PendingEdits ~> (e \in saved \/ ~open)

\* The coordinator implements the promise of DurableDocument: a reader is served
\* doc, or while nothing is loaded what a fresh instance would load.
Durable == INSTANCE DurableDocument WITH
    content <- IF open /\ import.at = "idle" THEN doc ELSE Recoverable,
    stored <- saved

ImplementsDurableDocument == Durable!Spec

\* What the D1 fallback rests on: while an instance reads from D1 or serves from it, one
\* batch is under way at a time, and none that an earlier instance sent.  Nothing in
\* the code sees to it: a forced flush is not awaited, and an eviction cancels nothing.
OneBatchAtATime ==
    fallback \/ import.at # "idle" =>
        /\ \A f, g \in flights : f = g
        /\ \A f \in flights : f.by # "gone"

=============================================================================
