---------------------- MODULE RealtimeCoordinatorProofs ----------------------
(***************************************************************************)
(* Proofs about RealtimeCoordinator, for every number of clients and edits *)
(* and every threshold.                                                    *)
(***************************************************************************)
EXTENDS RealtimeCoordinator, FiniteSetTheorems, TLAPS

-----------------------------------------------------------------------------
(* The operators the actions are built from.                               *)

\* A union of updates is a set of edits.
LEMMA EditsOfType ==
    ASSUME NEW rows \in SUBSET Rows
    PROVE  EditsOf(rows) \subseteq Edits
BY DEF EditsOf, Rows

LEMMA EditsOfUnion ==
    ASSUME NEW R, NEW S
    PROVE  EditsOf(R \cup S) = EditsOf(R) \cup EditsOf(S)
BY DEF EditsOf

\* The rows of a flush are as many as the pending updates, numbered from nextSeq on,
\* and hold the pending edits.
LEMMA NewRowsFacts ==
    ASSUME ConstantsAssumption, pending \in Seq(Updates), nextSeq \in Nat \ {0}
    PROVE  /\ NewRows \subseteq Rows
           /\ IsFiniteSet(NewRows)
           /\ EditsOf(NewRows) = PendingEdits
           /\ PendingEdits \subseteq Edits
           /\ \A r \in NewRows : nextSeq <= r.seq /\ r.seq < nextSeq + Len(pending)
           /\ UniqueSeq(NewRows)
<1> DEFINE n == Len(pending)
           row == [i \in 1..n |-> [seq |-> nextSeq + i - 1, upd |-> pending[i]]]
<1>0. n \in Nat
  OBVIOUS
<1>1. \A i \in 1..n : pending[i] \in (SUBSET Edits) \ {{}}
  BY DEF ConstantsAssumption
<1>2. NewRows \subseteq Rows
  BY <1>0, <1>1 DEF NewRows, Rows
<1>3. IsFiniteSet(NewRows)
  <2>1. row \in Surjection(1..n, NewRows)
    BY DEF Surjection, NewRows
  <2>2. IsFiniteSet(1..n)
    <3> HIDE DEF n
    <3> QED BY <1>0, FS_Interval
  <2> QED
    BY <2>1, <2>2, FS_Surjection
<1>4. EditsOf(NewRows) = PendingEdits
  <2>1. ASSUME NEW e \in EditsOf(NewRows)
        PROVE  e \in PendingEdits
    <3>1. PICK r \in NewRows : e \in r.upd
      BY <2>1 DEF EditsOf
    <3>2. PICK i \in 1..n : r = [seq |-> nextSeq + i - 1, upd |-> pending[i]]
      BY DEF NewRows
    <3> QED
      BY <3>1, <3>2 DEF PendingEdits
  <2>2. ASSUME NEW e \in PendingEdits
        PROVE  e \in EditsOf(NewRows)
    <3>1. PICK i \in 1..n : e \in pending[i]
      BY <2>2 DEF PendingEdits
    <3> DEFINE r == [seq |-> nextSeq + i - 1, upd |-> pending[i]]
    <3>2. r \in NewRows /\ r.upd = pending[i]
      BY DEF NewRows
    <3> QED
      BY <3>1, <3>2 DEF EditsOf
  <2> QED
    BY <2>1, <2>2
<1>5. PendingEdits \subseteq Edits
  BY <1>1 DEF PendingEdits
<1>6. \A r \in NewRows : nextSeq <= r.seq /\ r.seq < nextSeq + Len(pending)
  BY <1>0 DEF NewRows
<1>7. UniqueSeq(NewRows)
  BY <1>0 DEF NewRows, UniqueSeq
<1> QED
  BY <1>2, <1>3, <1>4, <1>5, <1>6, <1>7

-----------------------------------------------------------------------------
(* Type correctness.                                                       *)

Metas == [made : BOOLEAN, snap : SUBSET Edits, count : Nat]

Imports == [at : {"idle", "row", "page"}, by : Clients \cup {Reader},
            snap : SUBSET Edits, rows : SUBSET Rows, last : Nat]

\* An import starts with nothing read.
LEMMA NoImportType ==
    /\ NoImport \in Imports
    /\ IsFiniteSet(NoImport.rows)
    /\ \A c \in Clients \cup {Reader} :
          LET started == [NoImport EXCEPT !.at = "row", !.by = c]
          IN  started \in Imports /\ IsFiniteSet(started.rows)
BY FS_EmptySet DEF NoImport, Imports

\* The updates of the doc_meta row keep its shape.
LEMMA MetaStep ==
    ASSUME NEW m \in Metas, NEW s \in SUBSET Edits, NEW k \in Nat
    PROVE  /\ [m EXCEPT !.snap = s, !.count = 0] \in Metas
           /\ [m EXCEPT !.count = @ + k] \in Metas
           /\ [m EXCEPT !.made = TRUE] \in Metas
<1>1. [m EXCEPT !.snap = s, !.count = 0] \in Metas
  BY DEF Metas
<1>2. m.count + k \in Nat
  BY DEF Metas
<1>3. [m EXCEPT !.count = m.count + k] \in Metas
  BY <1>2 DEF Metas
<1>4. [m EXCEPT !.made = TRUE] \in Metas
  BY DEF Metas
<1> QED
  BY <1>1, <1>3, <1>4

\* What a flush leaves in the store, the counters and the batches in flight is well
\* typed, whichever way it goes.
LEMMA PersistType ==
    ASSUME ConstantsAssumption, TypeOK, doc' \subseteq Edits,
           NEW by \in {"alarm", "forced"}, PersistUpdates(by)
    PROVE  /\ meta' \in Metas
           /\ log' \subseteq Rows
           /\ nextSeq' \in Nat \ {0}
           /\ updateCount' \in Nat
           /\ flights' \subseteq Flights
           /\ \A f \in flights' : IsFiniteSet(f.rows)
           /\ saved' \subseteq Edits
<1> DEFINE n == Len(pending)
<1>1. n \in Nat
  BY DEF TypeOK
<1>2. /\ NewRows \subseteq Rows
      /\ IsFiniteSet(NewRows)
      /\ PendingEdits \subseteq Edits
  BY NewRowsFacts DEF TypeOK
<1>3. CASE fallback
  BY <1>1, <1>2, <1>3 DEF PersistUpdates, FlushSends, TypeOK, Flights, Metas
<1>4. CASE ~fallback /\ FlushCommits
  <2> HIDE DEF n
  <2> USE <1>1, <1>2, <1>4
  <2>0. /\ meta \in Metas
        /\ \/ meta' = meta
           \/ meta' = [meta EXCEPT !.snap = doc', !.count = 0]
           \/ meta' = [meta EXCEPT !.count = @ + n]
    BY DEF FlushCommits, Compacted, TypeOK, Metas, n
  <2>1. meta' \in Metas
    BY ONLY <2>0, <1>1, doc' \in SUBSET Edits, MetaStep
  <2>2. log' \subseteq Rows
    BY DEF FlushCommits, Compacted, TypeOK, n
  <2>3. nextSeq' \in Nat \ {0} /\ updateCount' \in Nat
    BY DEF FlushCommits, Compacted, TypeOK, n
  <2>4. saved' \subseteq Edits
    BY DEF FlushCommits, Compacted, TypeOK, n
  <2>5. UNCHANGED flights
    BY DEF PersistUpdates
  <2> QED
    BY <2>1, <2>2, <2>3, <2>4, <2>5 DEF TypeOK
<1>5. CASE ~fallback /\ FlushThrows
  BY <1>5 DEF PersistUpdates, FlushThrows, TypeOK, counters, Metas
<1> QED
  BY <1>3, <1>4, <1>5 DEF PersistUpdates

LEMMA InitType == Init => TypeOK
<1> SUFFICES ASSUME Init PROVE TypeOK
  OBVIOUS
<1>1. /\ d1 \in [row : BOOLEAN, snap : SUBSET Edits, log : SUBSET Rows]
      /\ IsFiniteSet(d1.log)
  BY LegacyAssumption DEF Init
<1>2. saved \subseteq Edits
  BY <1>1, EditsOfType DEF Init
<1>3. pending \in Seq(Updates)
  BY DEF Init
<1>4. IsFiniteSet(import.rows) /\ import \in Imports
  BY NoImportType DEF Init
<1>5. /\ meta \in Metas
      /\ exchanged \in [Clients -> SUBSET Edits]
      /\ nextSeq \in Nat \ {0} /\ updateCount \in Nat
  BY DEF Init, Metas
<1>6. /\ flights \subseteq Flights /\ \A f \in flights : IsFiniteSet(f.rows)
      /\ sockets \subseteq Clients /\ synced \subseteq sockets
      /\ log \subseteq Rows /\ doc \subseteq Edits
  BY DEF Init
<1>7. /\ migrated \in BOOLEAN /\ alarm \in BOOLEAN /\ open \in BOOLEAN
      /\ fallback \in BOOLEAN /\ saveScheduled \in BOOLEAN
  BY DEF Init
<1> QED
  BY <1>1, <1>2, <1>3, <1>4, <1>5, <1>6, <1>7 DEF TypeOK, Metas, Imports

\* An answer of D1 holds rows of its log, beyond the last one read.
LEMMA PageFacts ==
    ASSUME TypeOK, NEW page \in Pages(import.last)
    PROVE  /\ page \subseteq Rows
           /\ IsFiniteSet(page)
           /\ IsFiniteSet(import.rows \cup page)
           /\ Cardinality(page) \in Nat
           /\ Cardinality(import.rows \cup page) \in Nat
           /\ EditsOf(page) \subseteq Edits
<1>1. page \in SUBSET d1.log
  BY DEF Pages, Beyond
<1>2. page \subseteq Rows
  BY <1>1 DEF TypeOK
<1>3. IsFiniteSet(page) /\ IsFiniteSet(d1.log) /\ IsFiniteSet(import.rows)
  BY <1>1, FS_Subset DEF TypeOK
<1>4. IsFiniteSet(import.rows \cup page)
  BY <1>3, FS_Union
<1> QED
  BY <1>2, <1>3, <1>4, FS_CardinalityType, EditsOfType

\* Every action keeps the types.
LEMMA NextType == ConstantsAssumption /\ TypeOK /\ [Next]_vars => TypeOK'
<1> SUFFICES ASSUME ConstantsAssumption, TypeOK, [Next]_vars
             PROVE  TypeOK'
  OBVIOUS
<1> USE DEF durable, memory, counters, conns
<1>1. ASSUME NEW c \in Clients \cup {Reader}, FetchServed(c)
      PROVE  TypeOK'
  BY <1>1 DEF FetchServed, Accept, TypeOK
<1>2. ASSUME NEW c \in Clients \cup {Reader}, FetchLoads(c)
      PROVE  TypeOK'
  <2>1. doc' \subseteq Edits
    BY <1>2, EditsOfType DEF FetchLoads, LoadedDoc, LoadedCount, SeqAfter, TypeOK
  <2>2. nextSeq' \in Nat \ {0} /\ updateCount' \in Nat
    BY <1>2 DEF FetchLoads, LoadedDoc, LoadedCount, SeqAfter, TypeOK, Rows
  <2> QED
    BY <1>2, <2>1, <2>2 DEF FetchLoads, LoadedDoc, LoadedCount, SeqAfter, Accept, TypeOK
<1>3. ASSUME NEW c \in Clients \cup {Reader}, FetchFirst(c)
      PROVE  TypeOK'
  <2>0. [made |-> TRUE, snap |-> {}, count |-> 0] \in Metas
    BY DEF Metas
  <2>1. meta' \in Metas
    BY <1>3, <2>0 DEF FetchFirst, TypeOK, Metas
  <2>2. IsFiniteSet(import'.rows) /\ import' \in Imports
    <3> DEFINE started == [NoImport EXCEPT !.at = "row", !.by = c]
    <3>1. started \in Imports /\ IsFiniteSet(started.rows)
      BY NoImportType
    <3>2. import' = import \/ import' = started
      BY <1>3 DEF FetchFirst
    <3> HIDE DEF started
    <3> QED
      BY <3>1, <3>2 DEF TypeOK, Imports
  <2> QED
    BY <1>3, <2>1, <2>2 DEF FetchFirst, Accept, TypeOK, Metas, Imports
<1>4. CASE RowMissing
  <2>1. meta' \in Metas
    BY <1>4, MetaStep DEF RowMissing, TypeOK, Metas
  <2>2. IsFiniteSet(import'.rows) /\ import' \in Imports
    BY <1>4, NoImportType DEF RowMissing
  <2> QED
    BY <1>4, <2>1, <2>2 DEF RowMissing, Accept, TypeOK, Metas, Imports
<1>5. CASE RowFound
  BY <1>5 DEF RowFound, TypeOK
<1>6. CASE FullPage
  <2>0. PICK page \in Pages(import.last) :
           /\ doc' = doc \cup EditsOf(page)
           /\ \E l \in {r.seq : r \in page} :
                 import' = [import EXCEPT !.rows = @ \cup page, !.last = l]
    BY <1>6 DEF FullPage
  <2>1. PICK l \in {r.seq : r \in page} :
           import' = [import EXCEPT !.rows = @ \cup page, !.last = l]
    BY <2>0
  <2>2. l \in Nat
    BY <2>1, PageFacts DEF Rows
  <2>3. IsFiniteSet(import'.rows) /\ import' \in Imports
    BY <2>1, <2>2, PageFacts DEF TypeOK, Imports
  <2>4. doc' \subseteq Edits
    BY <2>0, PageFacts DEF TypeOK
  <2> QED
    BY <1>6, <2>3, <2>4 DEF FullPage, TypeOK, Imports
<1>7. CASE LastPage
  <2>0. PICK page \in Pages(import.last) :
           /\ doc' = doc \cup EditsOf(page)
           /\ \E l \in {import.last} \cup {r.seq : r \in page} :
                 \/ ImportCommits(import.rows \cup page, l)
                 \/ ImportHalfFails(import.rows \cup page, l)
                 \/ ImportAborts(import.rows \cup page, l)
    BY <1>7 DEF LastPage
  <2>1. PICK l \in {import.last} \cup {r.seq : r \in page} :
           \/ ImportCommits(import.rows \cup page, l)
           \/ ImportHalfFails(import.rows \cup page, l)
           \/ ImportAborts(import.rows \cup page, l)
    BY <2>0
  <2> DEFINE rows == import.rows \cup page
  <2>2. /\ l \in Nat
        /\ rows \subseteq Rows
        /\ Cardinality(rows) \in Nat
        /\ doc' \subseteq Edits
        /\ import.snap \subseteq Edits
    <3>1. l \in Nat
      <4>1. import.last \in Nat
        BY DEF TypeOK
      <4>2. \A r \in page : r.seq \in Nat
        BY PageFacts DEF Rows
      <4> QED
        BY <2>1, <4>1, <4>2
    <3>2. rows \subseteq Rows /\ Cardinality(rows) \in Nat
      BY PageFacts DEF TypeOK
    <3>3. doc' \subseteq Edits /\ import.snap \subseteq Edits
      BY <2>0, PageFacts DEF TypeOK
    <3> QED
      BY <3>1, <3>2, <3>3
  <2> DEFINE stored == [made |-> TRUE, snap |-> import.snap, count |-> Cardinality(rows)]
             compact == [made |-> TRUE, snap |-> doc', count |-> 0]
  <2>5. stored \in Metas /\ compact \in Metas
    BY <2>2 DEF Metas
  <2> HIDE DEF rows
  <2>3. /\ meta' \in Metas
        /\ log' \subseteq Rows
        /\ migrated' \in BOOLEAN
        /\ fallback' \in BOOLEAN
        /\ nextSeq' \in Nat \ {0}
        /\ updateCount' \in Nat
        /\ saved' \subseteq Edits
    <3> HIDE DEF stored, compact
    <3>1. CASE ImportCommits(rows, l)
      <4>1. /\ meta' \in {stored, compact}
            /\ log' \in {{}, log \cup rows}
            /\ migrated' = TRUE
            /\ fallback' = fallback
            /\ nextSeq' \in {1, l + 1}
            /\ updateCount' \in {0, Cardinality(rows)}
            /\ saved' \in {saved, saved \cup doc'}
        BY <3>1 DEF ImportCommits, SeqAfter, stored, compact
      <4> QED
        BY <4>1, <2>2, <2>5 DEF TypeOK
    <3>2. CASE ImportHalfFails(rows, l)
      <4>1. /\ meta' = stored
            /\ log' = log \cup rows
            /\ migrated' = migrated \/ migrated' = TRUE
            /\ fallback' = TRUE
            /\ nextSeq' = l + 1
            /\ updateCount' = Cardinality(rows)
            /\ saved' = saved
        BY <3>2 DEF ImportHalfFails, SeqAfter, stored
      <4>2. migrated' \in BOOLEAN
        <5>1. migrated \in BOOLEAN
          BY DEF TypeOK
        <5>2. migrated' = migrated \/ migrated' = TRUE
          BY <4>1
        <5> QED
          BY <5>1, <5>2
      <4> QED
        BY <4>1, <4>2, <2>2, <2>5 DEF TypeOK
    <3>3. CASE ImportAborts(rows, l)
      BY <3>3, <2>2 DEF ImportAborts, SeqAfter, TypeOK, Metas
    <3> QED
      BY <2>1, <3>1, <3>2, <3>3 DEF rows
  <2>4. IsFiniteSet(import'.rows) /\ import' \in Imports
    BY <1>7, NoImportType DEF LastPage
  <2> QED
    BY <1>7, <2>2, <2>3, <2>4 DEF LastPage, Accept, TypeOK, Metas, Imports
<1>8. CASE ReadFails
  <2>1. IsFiniteSet(import'.rows) /\ import' \in Imports
    BY <1>8, NoImportType DEF ReadFails
  <2> QED
    BY <1>8, <2>1 DEF ReadFails, TypeOK, Imports
<1>9. CASE Alarm
  <2>1. /\ pending' \in Seq(Updates)
        /\ doc' \subseteq Edits
    BY <1>9 DEF Alarm, AlarmFires, TypeOK
  <2>2. /\ meta' \in Metas
        /\ log' \subseteq Rows
        /\ nextSeq' \in Nat \ {0}
        /\ updateCount' \in Nat
        /\ flights' \subseteq Flights
        /\ \A f \in flights' : IsFiniteSet(f.rows)
        /\ saved' \subseteq Edits
    <3>1. CASE open /\ pending # <<>>
      BY <1>9, <2>1, <3>1, PersistType DEF Alarm, AlarmFires
    <3>2. CASE ~(open /\ pending # <<>>)
      BY <1>9, <3>2 DEF Alarm, AlarmFires, TypeOK, Metas
    <3> QED
      BY <3>1, <3>2
  <2> QED
    BY <1>9, <2>1, <2>2 DEF Alarm, AlarmFires, TypeOK, Metas
<1>10. CASE Batch
  <2>1. PICK f \in flights : FlushAnswered(f) \/ CompactAnswered(f) \/ BatchUnanswered(f)
    BY <1>10 DEF Batch
  <2>2. f \in Flights /\ IsFiniteSet(f.rows) /\ Cardinality(f.rows) \in Nat
    BY FS_CardinalityType DEF TypeOK
  <2>3. Stores(f) \subseteq Edits
    BY <2>2, EditsOfType DEF Flights, Stores
  <2>4. IsFiniteSet(Executed(f).log) /\ Executed(f) \in
           [row : BOOLEAN, snap : SUBSET Edits, log : SUBSET Rows]
    <3>1. IsFiniteSet(d1.log \cup f.rows)
      BY <2>2, FS_Union DEF TypeOK
    <3>2. IsFiniteSet({})
      BY FS_EmptySet
    <3> QED
      BY <2>2, <3>1, <3>2 DEF Executed, Flights, TypeOK
  <2>5. /\ d1' \in {d1, Executed(f)}
        /\ saved' \subseteq Edits
        /\ nextSeq' \in Nat \ {0}
        /\ updateCount' \in Nat
    BY <2>1, <2>2, <2>3 DEF FlushAnswered, CompactAnswered, BatchUnanswered, TypeOK
  <2>6. flights' \subseteq Flights /\ \A g \in flights' : IsFiniteSet(g.rows)
    <3> DEFINE g == [f EXCEPT !.op = "compact", !.snap = doc]
    <3>1. g \in Flights /\ g.rows = f.rows
      BY <2>2 DEF Flights, TypeOK
    <3>2. flights' \subseteq flights \cup {g}
      BY <2>1 DEF FlushAnswered, CompactAnswered, BatchUnanswered
    <3> HIDE DEF g
    <3> QED
      BY <2>2, <3>1, <3>2 DEF TypeOK
  <2> QED
    BY <1>10, <2>4, <2>5, <2>6 DEF Batch, TypeOK
<1>11. ASSUME NEW c \in Clients, NEW u \in Updates, HandleUpdate(c, u)
       PROVE  TypeOK'
  <2>1. u \subseteq Edits /\ doc' \subseteq Edits
    BY <1>11 DEF HandleUpdate, ScheduleSave, FanOut, ConstantsAssumption, TypeOK
  <2>2. exchanged' \in [Clients -> SUBSET Edits]
    BY <1>11, <2>1 DEF HandleUpdate, ScheduleSave, FanOut, TypeOK
  <2>3. pending' \in Seq(Updates)
    <3>1. Append(pending, u) \in Seq(Updates) /\ <<u>> \in Seq(Updates)
      BY DEF TypeOK
    <3> QED
      BY <1>11, <3>1 DEF HandleUpdate
  <2>4. /\ meta' \in Metas
        /\ log' \subseteq Rows
        /\ nextSeq' \in Nat \ {0}
        /\ updateCount' \in Nat
        /\ flights' \subseteq Flights
        /\ \A f \in flights' : IsFiniteSet(f.rows)
        /\ saved' \subseteq Edits
    <3>1. CASE Len(pending) < MaxPending
      BY <1>11, <3>1 DEF HandleUpdate, ScheduleSave, FanOut, TypeOK, Metas
    <3>2. CASE ~(Len(pending) < MaxPending)
      BY <1>11, <2>1, <3>2, PersistType DEF HandleUpdate
    <3> QED
      BY <3>1, <3>2
  <2> QED
    BY <1>11, <2>1, <2>2, <2>3, <2>4 DEF HandleUpdate, ScheduleSave, FanOut, TypeOK, Metas
<1>12. ASSUME NEW c \in Clients, NEW u \in Updates, HandleUpdateAsleep(c, u)
       PROVE  TypeOK'
  <2>1. exchanged' \in [Clients -> SUBSET Edits]
    BY <1>12 DEF HandleUpdateAsleep, TypeOK, ConstantsAssumption
  <2> QED
    BY <1>12, <2>1 DEF HandleUpdateAsleep, TypeOK
<1>13. ASSUME NEW c \in Clients, HandleSyncStep1(c)
       PROVE  TypeOK'
  BY <1>13 DEF HandleSyncStep1, TypeOK
<1>14. ASSUME NEW c \in Clients, Close(c)
       PROVE  TypeOK'
  BY <1>14 DEF Close, Leave, TypeOK
<1>15. ASSUME Forget
       PROVE  /\ pending' \in Seq(Updates)
              /\ IsFiniteSet(import'.rows) /\ import' \in Imports
  <2>1. <<>> \in Seq(Updates)
    OBVIOUS
  <2>2. pending' = <<>> /\ import' = NoImport
    BY <1>15 DEF Forget
  <2> QED
    BY <2>1, <2>2, NoImportType
<1>16. CASE Crash
  <2>1. flights' \subseteq Flights /\ \A g \in flights' : IsFiniteSet(g.rows)
    <3> DEFINE gone(f) == [f EXCEPT !.by = "gone"]
    <3>1. ASSUME NEW f \in flights
          PROVE  f \in Flights /\ IsFiniteSet(f.rows)
      BY DEF TypeOK
    <3>2. ASSUME NEW f \in Flights
          PROVE  gone(f) \in Flights /\ gone(f).rows = f.rows
      BY DEF Flights
    <3>3. flights' = {gone(f) : f \in flights}
      BY <1>16 DEF Crash
    <3> HIDE DEF gone
    <3> QED
      BY <3>1, <3>2, <3>3
  <2>2. Forget /\ sockets' = {} /\ synced' = {}
        /\ exchanged' \in [Clients -> SUBSET Edits]
    BY <1>16 DEF Crash
  <2>3. pending' \in Seq(Updates) /\ IsFiniteSet(import'.rows) /\ import' \in Imports
    BY <1>15, <2>2
  <2>4. /\ open' \in BOOLEAN /\ fallback' \in BOOLEAN /\ saveScheduled' \in BOOLEAN
        /\ doc' \subseteq Edits
        /\ nextSeq' \in Nat \ {0} /\ updateCount' \in Nat
    <3>1. open' \in BOOLEAN /\ fallback' \in BOOLEAN /\ saveScheduled' \in BOOLEAN
      BY <2>2 DEF Forget
    <3>2. doc' = {} /\ nextSeq' = 1 /\ updateCount' = 0
      BY <2>2 DEF Forget
    <3> QED
      BY <3>1, <3>2
  <2>5. UNCHANGED <<durable, alarm, d1, saved>>
    BY <2>2 DEF Forget
  <2> QED
    BY <2>1, <2>2, <2>3, <2>4, <2>5 DEF TypeOK, Imports
<1>17. CASE Hibernate
  <2>1. Forget /\ UNCHANGED <<flights, conns>>
    BY <1>17 DEF Hibernate
  <2>2. pending' \in Seq(Updates) /\ IsFiniteSet(import'.rows) /\ import' \in Imports
    BY <1>15, <2>1
  <2>3. /\ open' \in BOOLEAN /\ fallback' \in BOOLEAN /\ saveScheduled' \in BOOLEAN
        /\ doc' \subseteq Edits
        /\ nextSeq' \in Nat \ {0} /\ updateCount' \in Nat
    <3>1. open' \in BOOLEAN /\ fallback' \in BOOLEAN /\ saveScheduled' \in BOOLEAN
      BY <2>1 DEF Forget
    <3>2. doc' = {} /\ nextSeq' = 1 /\ updateCount' = 0
      BY <2>1 DEF Forget
    <3> QED
      BY <3>1, <3>2
  <2>4. UNCHANGED <<durable, alarm, d1, saved, flights, conns>>
    BY <2>1 DEF Forget
  <2> QED
    BY <2>2, <2>3, <2>4 DEF TypeOK, Imports
<1>18. CASE UNCHANGED vars
  BY <1>18 DEF vars, TypeOK
<1> QED
  BY <1>1, <1>2, <1>3, <1>4, <1>5, <1>6, <1>7, <1>8, <1>9, <1>10, <1>11, <1>12,
     <1>13, <1>14, <1>16, <1>17, <1>18 DEF Next

\* Every behaviour is well typed, under every event of the environment.
THEOREM TypeCorrect == Spec => []TypeOK
<1>1. Init => TypeOK
  BY InitType
<1>2. TypeOK /\ [Next]_vars => TypeOK'
  BY NextType, ConstantsAssumption
<1> QED
  BY <1>1, <1>2, PTL DEF Spec

-----------------------------------------------------------------------------
(* The alarm, under every event of the environment.                        *)

\* An instance schedules only what an alarm is set for, and only a loaded one queues.
Scheduled ==
    /\ pending # <<>> => open /\ saveScheduled
    /\ saveScheduled => alarm

LEMMA NextScheduled == Scheduled /\ [Next]_vars => Scheduled'
<1> SUFFICES ASSUME Scheduled, [Next]_vars PROVE Scheduled'
  OBVIOUS
<1> USE DEF Scheduled
<1>1. ASSUME NEW c \in Clients \cup {Reader}, FetchServed(c) \/ FetchLoads(c) \/ FetchFirst(c)
      PROVE  Scheduled'
  BY <1>1 DEF FetchServed, FetchLoads, FetchFirst, memory
<1>2. CASE RowMissing \/ RowFound \/ FullPage \/ ReadFails
  <2>1. UNCHANGED <<alarm, open, pending, saveScheduled>>
    BY <1>2 DEF RowMissing, RowFound, FullPage, ReadFails
  <2> QED
    BY <2>1
<1>3. CASE LastPage
  <2>1. UNCHANGED <<alarm, open, pending, saveScheduled>>
    BY <1>3 DEF LastPage
  <2> QED
    BY <2>1
<1>4. CASE Alarm
  BY <1>4 DEF Alarm, AlarmFires
<1>5. CASE Batch
  BY <1>5 DEF Batch, memory
<1>6. ASSUME NEW c \in Clients, NEW u \in Updates, HandleUpdate(c, u)
      PROVE  Scheduled'
  BY <1>6 DEF HandleUpdate, ScheduleSave, memory
<1>7. ASSUME NEW c \in Clients, NEW u \in Updates, HandleUpdateAsleep(c, u)
      PROVE  Scheduled'
  BY <1>7 DEF HandleUpdateAsleep, memory
<1>8. ASSUME NEW c \in Clients, HandleSyncStep1(c) \/ Close(c)
      PROVE  Scheduled'
  BY <1>8 DEF HandleSyncStep1, Close, memory
<1>9. CASE Crash \/ Hibernate
  BY <1>9 DEF Crash, Hibernate, Forget
<1>10. CASE UNCHANGED vars
  BY <1>10 DEF vars
<1> QED
  BY <1>1, <1>2, <1>3, <1>4, <1>5, <1>6, <1>7, <1>8, <1>9, <1>10 DEF Next

\* Pending updates always have an alarm (scheduleSave, alarm), whatever D1, the import,
\* a local transaction or an eviction does to the object.
THEOREM PendingIsScheduled == Spec => []PendingHasAlarm
<1>1. Init => Scheduled
  BY DEF Init, Scheduled
<1>2. Scheduled => PendingHasAlarm
  BY DEF Scheduled, PendingHasAlarm
<1> QED
  BY <1>1, <1>2, NextScheduled, PTL DEF Spec

-----------------------------------------------------------------------------
(* The phases of an instance's life, when it may crash and hibernate, the  *)
(* local transactions and the import's write may throw, and D1 may reject  *)
(* a batch; D1's reads and what follows the import's write do not fail,    *)
(* and nothing arrives during an import.                                   *)

OrdinaryEvents == {"crash", "hibernate", "flush"}
FallbackEvents == OrdinaryEvents \cup {"importWrite", "d1Batch"}

\* Until the import is over storage is empty, and an instance that serves over empty
\* storage serves from D1.
Phases ==
    /\ fallback => open /\ import.at = "idle" /\ ~meta.made
    /\ ~meta.made =>
          /\ meta.snap = {} /\ meta.count = 0 /\ log = {} /\ ~migrated
          /\ open => fallback \/ import.at # "idle"
    /\ import.at # "idle" => open /\ ~meta.made /\ ~fallback /\ pending = <<>>
    /\ ~open => pending = <<>>
    /\ \A f \in flights : f.by # "gone" => fallback

\* A flush in the local store finds its meta row, and one over D1 leaves it alone.
LEMMA PersistPhases ==
    ASSUME TypeOK, Phases, open, import.at = "idle",
           NEW by \in {"alarm", "forced"}, PersistUpdates(by)
    PROVE  /\ meta'.made = meta.made
           /\ ~meta.made => meta' = meta /\ log' = log
           /\ \A f \in flights' : f.by # "gone" => fallback
<1>1. meta \in Metas
  BY DEF TypeOK, Metas
<1>2. CASE fallback
  BY <1>2 DEF PersistUpdates, FlushSends, Phases
<1>3. CASE ~fallback
  <2>1. meta.made /\ (FlushCommits \/ FlushThrows) /\ flights' = flights
    BY <1>3 DEF PersistUpdates, Phases
  <2>2. meta'.made
    BY <1>1, <2>1 DEF FlushCommits, FlushThrows, Compacted, Metas
  <2> QED
    BY <2>1, <2>2 DEF Phases
<1> QED
  BY <1>2, <1>3

\* The last page of an import is one of the pages D1 may answer, l the seq of its last
\* row.
ImportEnds(page, l) ==
    /\ Cardinality(page) < ColdLoadBatch
    /\ doc' = doc \cup EditsOf(page)
    /\ IF page = {} THEN l = import.last ELSE IsLast(l, page)
    /\ \/ ImportCommits(import.rows \cup page, l)
       \/ "importWrite" \in Events /\ ImportAborts(import.rows \cup page, l)
       \/ Collide(import.rows \cup page) /\ ImportAborts(import.rows \cup page, l)

LEMMA LastPageEnds ==
    ASSUME "afterImport" \notin Events, LastPage
    PROVE  \E page \in Pages(import.last) :
           \E l \in {import.last} \cup {r.seq : r \in page} : ImportEnds(page, l)
BY DEF LastPage, ImportEnds, ImportHalfFails, ImportAborts

LEMMA NextPhases ==
    ASSUME ConstantsAssumption, Events \subseteq FallbackEvents, TypeOK, Phases, [Next]_vars
    PROVE  Phases'
<1>0. /\ "overlap" \notin Events /\ "d1Read" \notin Events /\ "afterImport" \notin Events
  BY DEF OrdinaryEvents, FallbackEvents
<1> USE DEF durable, memory, counters, conns
<1>a. ASSUME UNCHANGED <<meta, log, migrated, open, pending, fallback, import, flights>>
      PROVE  Phases'
  BY <1>a DEF Phases
<1>1. ASSUME NEW c \in Clients \cup {Reader}, FetchServed(c) PROVE Phases'
  BY <1>1, <1>a DEF FetchServed
<1>2. ASSUME NEW c \in Clients \cup {Reader}, FetchLoads(c) PROVE Phases'
  BY <1>2 DEF FetchLoads, Phases
<1>3. ASSUME NEW c \in Clients \cup {Reader}, FetchFirst(c) PROVE Phases'
  <2>1. /\ ~migrated /\ ~meta.made /\ ~open /\ open'
        /\ import' = [NoImport EXCEPT !.at = "row", !.by = c]
        /\ UNCHANGED <<meta, log, migrated, pending, fallback, flights>>
    BY <1>3 DEF FetchFirst, Phases
  <2>2. import'.at = "row"
    BY <2>1 DEF NoImport
  <2> QED
    BY <2>1, <2>2 DEF Phases
<1>4. CASE RowMissing
  <2>1. import'.at = "idle" /\ meta'.made /\ UNCHANGED <<open, pending, fallback, flights>>
    BY <1>4 DEF RowMissing, NoImport, TypeOK
  <2> QED
    BY <1>4, <2>1 DEF RowMissing, Phases
<1>5. CASE RowFound \/ FullPage
  <2>1. import.at # "idle" /\ import'.at = "page"
        /\ UNCHANGED <<meta, log, migrated, open, pending, fallback, flights>>
    BY <1>5 DEF RowFound, FullPage, TypeOK
  <2> QED
    BY <2>1 DEF Phases
<1>6. CASE LastPage
  <2>1. PICK page \in Pages(import.last) :
           \E l \in {import.last} \cup {r.seq : r \in page} : ImportEnds(page, l)
    BY <1>0, <1>6, LastPageEnds
  <2>2. PICK l \in {import.last} \cup {r.seq : r \in page} : ImportEnds(page, l)
    BY <2>1
  <2>3. /\ import.at # "idle" /\ import'.at = "idle"
        /\ UNCHANGED <<open, pending, flights>>
    BY <1>6 DEF LastPage, NoImport
  <2>4. CASE ImportCommits(import.rows \cup page, l)
    <3>1. meta'.made /\ fallback' = fallback
      BY <2>4 DEF ImportCommits
    <3> QED
      BY <2>3, <3>1 DEF Phases
  <2>5. CASE ImportAborts(import.rows \cup page, l)
    BY <2>3, <2>5 DEF ImportAborts, Phases
  <2> QED
    BY <2>2, <2>4, <2>5 DEF ImportEnds
<1>7. CASE ReadFails
  BY <1>0, <1>7 DEF ReadFails
<1>8. CASE Alarm
  <2>1. UNCHANGED <<migrated, open, fallback, import>> /\ pending' = <<>>
    BY <1>8 DEF Alarm
  <2>2. CASE open /\ pending # <<>>
    <3>1. import.at = "idle" /\ PersistUpdates("alarm")
      BY <1>8, <2>2 DEF Alarm, Phases
    <3> QED
      BY <2>1, <2>2, <3>1, PersistPhases DEF Phases
  <2>3. CASE ~(open /\ pending # <<>>)
    BY <1>8, <2>1, <2>3 DEF Alarm, Phases
  <2> QED
    BY <2>2, <2>3
<1>9. CASE Batch
  <2>1. PICK f \in flights : FlushAnswered(f) \/ CompactAnswered(f) \/ BatchUnanswered(f)
    BY <1>9 DEF Batch
  <2>2. UNCHANGED <<meta, log, migrated, open, pending, fallback, import>>
    BY <1>9 DEF Batch
  <2>3. ASSUME NEW g \in flights', g.by # "gone" PROVE fallback
    <3>1. CASE g \in flights
      BY <2>3, <3>1 DEF Phases
    <3>2. CASE g \notin flights
      BY <2>1, <3>2 DEF FlushAnswered, CompactAnswered, BatchUnanswered, Phases
    <3> QED
      BY <3>1, <3>2
  <2> QED
    BY <2>2, <2>3 DEF Phases
<1>10. ASSUME NEW c \in Clients, NEW u \in Updates, HandleUpdate(c, u) PROVE Phases'
  <2>1. open /\ import.at = "idle" /\ UNCHANGED <<migrated, open, fallback, import>>
    BY <1>0, <1>10 DEF HandleUpdate
  <2>2. CASE Len(pending) < MaxPending
    BY <1>10, <2>1, <2>2 DEF HandleUpdate, Phases
  <2>3. CASE ~(Len(pending) < MaxPending)
    <3>1. PersistUpdates("forced")
      BY <1>10, <2>3 DEF HandleUpdate
    <3> QED
      BY <2>1, <3>1, PersistPhases DEF Phases
  <2> QED
    BY <2>2, <2>3
<1>11. ASSUME NEW c \in Clients,
              \/ \E u \in Updates : HandleUpdateAsleep(c, u)
              \/ HandleSyncStep1(c)
              \/ Close(c)
       PROVE  Phases'
  <2>1. UNCHANGED <<meta, log, migrated, open, pending, fallback, import, flights>>
    BY <1>11 DEF HandleUpdateAsleep, HandleSyncStep1, Close
  <2> QED
    BY <2>1, <1>a
<1>12. CASE Crash \/ Hibernate
  <2>1. Forget
    BY <1>12 DEF Crash, Hibernate
  <2>2. /\ ~open' /\ pending' = <<>> /\ import'.at = "idle" /\ ~fallback'
        /\ UNCHANGED <<meta, log, migrated>>
    BY <2>1 DEF Forget, NoImport
  <2>3. \A f \in flights' : f.by = "gone"
    BY <1>12 DEF Crash, Hibernate, TypeOK, Flights
  <2> QED
    BY <2>2, <2>3 DEF Phases
<1>13. CASE UNCHANGED vars
  BY <1>13, <1>a DEF vars
<1> QED
  BY <1>1, <1>2, <1>3, <1>4, <1>5, <1>6, <1>7, <1>8, <1>9, <1>10, <1>11, <1>12,
     <1>13 DEF Next

-----------------------------------------------------------------------------
(* The object's own log, in those phases.                                  *)

\* The stored count is the length of the log; an instance that has loaded it knows the
\* count, and goes on from a seq beyond the log; an import has seen no seq beyond its last.
LogInv ==
    /\ IsFiniteSet(log)
    /\ meta.count = Cardinality(log)
    /\ open /\ ~fallback =>
          /\ updateCount = meta.count
          /\ \A r \in log : r.seq < nextSeq
    /\ \A r \in import.rows : r.seq <= import.last

\* A flush writes as many rows as there are updates pending.
LEMMA NewRowsCount ==
    ASSUME pending \in Seq(Updates), nextSeq \in Nat \ {0}
    PROVE  IsFiniteSet(NewRows) /\ Cardinality(NewRows) = Len(pending)
<1> DEFINE n == Len(pending)
           row == [i \in 1..n |-> [seq |-> nextSeq + i - 1, upd |-> pending[i]]]
<1>1. n \in Nat
  OBVIOUS
<1>2. row \in Surjection(1..n, NewRows)
  BY DEF Surjection, NewRows
<1>3. row \in Injection(1..n, NewRows)
  BY <1>1, <1>2 DEF Surjection, Injection, IsInjective
<1>4. ExistsBijection(1..n, NewRows)
  BY <1>2, <1>3 DEF Bijection, ExistsBijection
<1> HIDE DEF n, row
<1>5. IsFiniteSet(1..n) /\ Cardinality(1..n) = n
  BY <1>1, FS_Interval
<1>6. IsFiniteSet(NewRows) /\ Cardinality(NewRows) = n
  BY <1>4, <1>5, FS_Bijection
<1> QED
  BY <1>6 DEF n

\* A flush in the local store keeps the count and the seqs right, and the import's
\* buffer plays no part in it.
LEMMA FlushCounts ==
    ASSUME ConstantsAssumption, TypeOK, Phases, LogInv, open, import.at = "idle", ~fallback,
           NEW by, PersistUpdates(by)
    PROVE  /\ IsFiniteSet(log') /\ meta'.count = Cardinality(log')
           /\ updateCount' = meta'.count
           /\ \A r \in log' : r.seq < nextSeq'
<1>1. /\ meta.made
      /\ updateCount = meta.count
      /\ \A r \in log : r.seq < nextSeq
  BY DEF Phases, LogInv
<1>2. FlushCommits \/ FlushThrows
  BY DEF PersistUpdates
<1>3. Len(pending) \in Nat /\ meta \in Metas /\ updateCount \in Nat /\ nextSeq \in Nat
  BY DEF TypeOK, Metas
<1>4. /\ IsFiniteSet(NewRows) /\ Cardinality(NewRows) = Len(pending)
      /\ \A r \in NewRows : r.seq < nextSeq + Len(pending)
  BY NewRowsCount, NewRowsFacts DEF TypeOK
<1>5. CASE FlushThrows
  BY <1>1, <1>5 DEF FlushThrows, counters, LogInv
<1>6. CASE log' = {} /\ updateCount' = 0 /\ meta' = Compacted
  <2>1. meta'.count = 0
    BY <1>3, <1>6 DEF Compacted, Metas
  <2> QED
    BY <1>6, <2>1, FS_EmptySet
<1>7. CASE /\ \A r \in NewRows, q \in log : r.seq # q.seq
           /\ log' = log \cup NewRows
           /\ updateCount' = updateCount + Len(pending)
           /\ nextSeq' = nextSeq + Len(pending)
           /\ meta' = [meta EXCEPT !.count = @ + Len(pending)]
  <2>1. meta'.count = meta.count + Len(pending)
    BY <1>3, <1>7 DEF Metas
  <2>2. IsFiniteSet(log) /\ Cardinality(log) = meta.count /\ log \cap NewRows = {}
    BY <1>7 DEF LogInv
  <2>3. /\ IsFiniteSet(log \cup NewRows)
        /\ Cardinality(log \cup NewRows)
             = Cardinality(log) + Cardinality(NewRows) - Cardinality(log \cap NewRows)
    BY <1>4, <2>2, FS_Union
  <2>4. Cardinality(log') = Cardinality(log) + Len(pending)
    <3>1. Cardinality(log \cap NewRows) = 0 /\ Cardinality(log) \in Nat
      BY <1>3, <2>2, FS_EmptySet DEF Metas
    <3> QED
      BY <1>3, <1>4, <1>7, <2>3, <3>1
  <2>5. \A r \in log' : r.seq < nextSeq'
    <3>1. \A r \in log : r.seq \in Nat
      BY DEF TypeOK, Rows
    <3> QED
      BY <1>1, <1>3, <1>4, <1>7, <3>1
  <2> QED
    BY <1>1, <1>7, <2>1, <2>2, <2>3, <2>4, <2>5
<1> QED
  BY <1>1, <1>2, <1>5, <1>6, <1>7 DEF FlushCommits

\* What an import has read when its last page comes in.
LEMMA ImportedRows ==
    ASSUME TypeOK, LogInv, NEW page \in Pages(import.last),
           NEW l \in {import.last} \cup {r.seq : r \in page},
           IF page = {} THEN l = import.last ELSE IsLast(l, page)
    PROVE  /\ IsFiniteSet(import.rows \cup page)
           /\ import.rows \cup page \subseteq Rows
           /\ \A r \in import.rows \cup page : r.seq < l + 1
<1>1. page \subseteq d1.log /\ \A r \in page : r.seq > import.last
  BY DEF Pages, IsPage, Beyond
<1>2. IsFiniteSet(import.rows \cup page) /\ import.rows \cup page \subseteq Rows
  BY <1>1, FS_Subset, FS_Union DEF TypeOK
<1>3. /\ import.last \in Nat /\ \A r \in import.rows \cup page : r.seq \in Nat
      /\ \A r \in import.rows : r.seq <= import.last
  BY <1>2 DEF TypeOK, Rows, LogInv
<1>4. CASE page = {}
  BY <1>2, <1>3, <1>4
<1>5. CASE page # {}
  <2>1. /\ \A r \in page : r.seq <= l
        /\ \E r \in page : r.seq = l
    BY <1>5 DEF IsLast
  <2> QED
    BY <1>1, <1>2, <1>3, <2>1
<1> QED
  BY <1>4, <1>5

LEMMA NextLog ==
    ASSUME ConstantsAssumption, Events \subseteq FallbackEvents, TypeOK, Phases, LogInv,
           Phases', [Next]_vars
    PROVE  LogInv'
<1>0. /\ "overlap" \notin Events /\ "d1Read" \notin Events /\ "afterImport" \notin Events
  BY DEF OrdinaryEvents, FallbackEvents
<1> USE DEF durable, memory, counters, conns
<1>a. ASSUME UNCHANGED <<meta, log, open, nextSeq, updateCount, fallback, import>>
      PROVE  LogInv'
  BY <1>a DEF LogInv
<1>b. \A r \in NoImport.rows : r.seq <= NoImport.last
  BY DEF NoImport
<1>1. ASSUME NEW c \in Clients \cup {Reader}, FetchServed(c) PROVE LogInv'
  BY <1>1, <1>a DEF FetchServed
<1>2. ASSUME NEW c \in Clients \cup {Reader}, FetchLoads(c) PROVE LogInv'
  <2>1. PICK last \in {0} \cup {r.seq : r \in log} :
           IsLast(last, log) /\ nextSeq' = last + 1
    BY <1>2 DEF FetchLoads, SeqAfter
  <2>2. \A r \in log : r.seq \in Nat
    BY DEF TypeOK, Rows
  <2>3. \A r \in log : r.seq < nextSeq'
    BY <2>1, <2>2 DEF IsLast
  <2> QED
    BY <1>2, <2>3 DEF FetchLoads, LoadedCount, LogInv
<1>3. ASSUME NEW c \in Clients \cup {Reader}, FetchFirst(c) PROVE LogInv'
  <2>1. /\ ~meta.made /\ ~migrated
        /\ import' = [NoImport EXCEPT !.at = "row", !.by = c]
        /\ meta.count = 0 /\ log = {} /\ updateCount' = 0
        /\ UNCHANGED <<meta, log>>
    BY <1>3 DEF FetchFirst, Phases
  <2>2. import'.at = "row" /\ import'.rows = {}
    BY <2>1 DEF NoImport
  <2> QED
    BY <2>1, <2>2 DEF LogInv
<1>4. CASE RowMissing
  <2>1. /\ meta'.count = 0 /\ log' = {}
        /\ import' = NoImport
    BY <1>4 DEF RowMissing, Phases, TypeOK
  <2>2. updateCount' = updateCount
    BY <1>4 DEF RowMissing
  <2> QED
    BY <1>4, <1>b, <2>1, FS_EmptySet DEF RowMissing, LogInv, Phases, TypeOK
<1>5. CASE RowFound
  <2>1. import'.at = "page" /\ import'.rows = import.rows /\ import'.last = import.last
    BY <1>5 DEF RowFound, TypeOK
  <2> QED
    BY <1>5, <2>1 DEF RowFound, LogInv
<1>6. CASE FullPage
  <2>1. PICK page \in Pages(import.last) :
           \E l \in {r.seq : r \in page} :
                 /\ IsLast(l, page)
                 /\ import' = [import EXCEPT !.rows = @ \cup page, !.last = l]
    BY <1>6 DEF FullPage
  <2>2. PICK l \in {r.seq : r \in page} :
           /\ IsLast(l, page)
           /\ import' = [import EXCEPT !.rows = @ \cup page, !.last = l]
    BY <2>1
  <2>3. /\ import'.at = "page" /\ import'.rows = import.rows \cup page /\ import'.last = l
    BY <1>6, <2>2 DEF FullPage, TypeOK
  <2>4. /\ import.rows \cup page \subseteq Rows
        /\ \A r \in import.rows \cup page : r.seq < l + 1
    BY <2>2, ImportedRows
  <2>5. \A r \in import.rows \cup page : r.seq <= l
    BY <2>4, l \in {r.seq : r \in page} DEF Rows
  <2> QED
    BY <1>6, <2>3, <2>5 DEF FullPage, LogInv
<1>7. CASE LastPage
  <2>1. PICK page \in Pages(import.last) :
           \E l \in {import.last} \cup {r.seq : r \in page} : ImportEnds(page, l)
    BY <1>0, <1>7, LastPageEnds
  <2>2. PICK l \in {import.last} \cup {r.seq : r \in page} : ImportEnds(page, l)
    BY <2>1
  <2> DEFINE rows == import.rows \cup page
  <2>3. import' = NoImport /\ import.at = "page" /\ log = {}
    BY <1>7 DEF LastPage, Phases
  <2>4. IsFiniteSet(rows) /\ \A r \in rows : r.seq < l + 1
    BY <2>2, ImportedRows DEF ImportEnds
  <2>5. CASE ImportCommits(rows, l)
    <3>1. \/ meta'.count = 0 /\ log' = {} /\ updateCount' = 0
          \/ /\ meta'.count = Cardinality(rows) /\ log' = rows
             /\ updateCount' = Cardinality(rows) /\ nextSeq' = l + 1
      BY <2>3, <2>5 DEF ImportCommits, SeqAfter
    <3> HIDE DEF rows
    <3> QED
      BY <1>b, <2>3, <2>4, <3>1, FS_EmptySet DEF LogInv
  <2>6. CASE ImportAborts(rows, l)
    BY <1>b, <2>3, <2>6 DEF ImportAborts, LogInv
  <2> QED
    BY <2>2, <2>5, <2>6 DEF ImportEnds
<1>8. CASE ReadFails
  BY <1>0, <1>8 DEF ReadFails
<1>9. CASE Alarm
  <2>1. UNCHANGED <<open, fallback, import>>
    BY <1>9 DEF Alarm
  <2>2. CASE open /\ pending # <<>> /\ ~fallback
    <3>1. import.at = "idle" /\ PersistUpdates("alarm")
      BY <1>9, <2>2 DEF Alarm, Phases
    <3> QED
      BY <2>1, <2>2, <3>1, FlushCounts DEF LogInv
  <2>3. CASE open /\ pending # <<>> /\ fallback
    BY <1>9, <2>1, <2>3 DEF Alarm, PersistUpdates, FlushSends, LogInv
  <2>4. CASE ~(open /\ pending # <<>>)
    BY <1>9, <1>a, <2>1, <2>4 DEF Alarm
  <2> QED
    BY <2>2, <2>3, <2>4
<1>10. CASE Batch
  <2>1. PICK f \in flights : FlushAnswered(f) \/ CompactAnswered(f) \/ BatchUnanswered(f)
    BY <1>10 DEF Batch
  <2>2. UNCHANGED <<meta, log, open, fallback, import>>
    BY <1>10 DEF Batch
  <2>3. fallback \/ UNCHANGED <<nextSeq, updateCount>>
    BY <2>1 DEF FlushAnswered, CompactAnswered, BatchUnanswered, Phases
  <2> QED
    BY <2>2, <2>3 DEF LogInv
<1>11. ASSUME NEW c \in Clients, NEW u \in Updates, HandleUpdate(c, u) PROVE LogInv'
  <2>1. open /\ import.at = "idle" /\ UNCHANGED <<open, fallback, import>>
    BY <1>0, <1>11 DEF HandleUpdate
  <2>2. CASE Len(pending) < MaxPending
    BY <1>11, <1>a, <2>1, <2>2 DEF HandleUpdate
  <2>3. CASE ~(Len(pending) < MaxPending)
    <3>1. PersistUpdates("forced")
      BY <1>11, <2>3 DEF HandleUpdate
    <3>2. CASE fallback
      BY <2>1, <3>1, <3>2 DEF PersistUpdates, FlushSends, LogInv
    <3>3. CASE ~fallback
      BY <2>1, <3>1, <3>3, FlushCounts DEF LogInv
    <3> QED
      BY <3>2, <3>3
  <2> QED
    BY <2>2, <2>3
<1>12. ASSUME NEW c \in Clients,
              \/ \E u \in Updates : HandleUpdateAsleep(c, u)
              \/ HandleSyncStep1(c)
              \/ Close(c)
       PROVE  LogInv'
  <2>1. UNCHANGED <<meta, log, open, nextSeq, updateCount, fallback, import>>
    BY <1>12 DEF HandleUpdateAsleep, HandleSyncStep1, Close
  <2> QED
    BY <2>1, <1>a
<1>13. CASE Crash \/ Hibernate
  <2>1. ~open' /\ import' = NoImport /\ UNCHANGED <<meta, log>>
    BY <1>13 DEF Crash, Hibernate, Forget
  <2> QED
    BY <1>b, <2>1 DEF LogInv
<1>14. CASE UNCHANGED vars
  BY <1>14, <1>a DEF vars
<1> QED
  BY <1>1, <1>2, <1>3, <1>4, <1>5, <1>6, <1>7, <1>8, <1>9, <1>10, <1>11, <1>12,
     <1>13, <1>14 DEF Next

\* Types, phases and the log hold together.
Store == TypeOK /\ Phases /\ LogInv

LEMMA InitStore == Init => Store
<1> SUFFICES ASSUME Init PROVE Store
  OBVIOUS
<1>1. TypeOK
  BY InitType
<1>2. Phases
  BY DEF Init, Phases, NoImport
<1>3. LogInv
  BY FS_EmptySet DEF Init, LogInv, NoImport
<1> QED
  BY <1>1, <1>2, <1>3 DEF Store

LEMMA NextStore ==
    ASSUME ConstantsAssumption, Events \subseteq FallbackEvents, Store, [Next]_vars
    PROVE  Store'
<1>1. TypeOK' /\ Phases'
  BY NextType, NextPhases DEF Store
<1> QED
  BY <1>1, NextLog DEF Store

\* The object's store and what its memory knows of it stay in step (the phases of an
\* instance's life, and the counters beside the log), also in the fallback over D1.
THEOREM StoreInvariant ==
    ASSUME Events \subseteq FallbackEvents
    PROVE  Spec => []Store
<1>1. Init => Store
  BY InitStore
<1>2. Store /\ [Next]_vars => Store'
  BY NextStore, ConstantsAssumption
<1> QED
  BY <1>1, <1>2, PTL DEF Spec

\* The seq a flush claims is never taken (loadLocal, importFromD1, persistUpdates).
THEOREM SeqIsFree ==
    ASSUME Events \subseteq FallbackEvents
    PROVE  Spec => []NextSeqIsFree
<1>1. Store => NextSeqIsFree
  BY DEF Store, LogInv, NextSeqIsFree
<1> QED
  BY <1>1, StoreInvariant, PTL

\* The counts and the log agree (persistUpdates, maybeCompactSnapshot, loadLocal), also
\* after transactions that threw, instances that were lost and a stay in the fallback.
THEOREM CountsStayRight ==
    ASSUME Events \subseteq FallbackEvents
    PROVE  Spec => []CountsAgree
<1>1. Store => CountsAgree
  BY DEF Store, LogInv, CountsAgree
<1> QED
  BY <1>1, StoreInvariant, PTL

\* The log stays below the threshold as long as no compaction throws.
TailInv == Cardinality(log) < CompactionThreshold

LEMMA FlushIsBounded ==
    ASSUME ConstantsAssumption, "flush" \notin Events, Store, TailInv,
           open, import.at = "idle", NEW by, PersistUpdates(by)
    PROVE  TailInv'
<1> USE DEF Store
<1>1. CASE fallback
  BY <1>1 DEF PersistUpdates, FlushSends, TailInv
<1>2. CASE ~fallback /\ FlushThrows
  BY <1>2 DEF FlushThrows, TailInv
<1>3. CASE ~fallback /\ FlushCommits
  <2>1. CompactionThreshold \in Nat \ {0} /\ Len(pending) \in Nat /\ updateCount \in Nat
    BY DEF ConstantsAssumption, TypeOK
  <2>2. Cardinality(log') = updateCount'
    BY <1>3, FlushCounts
  <2>3. updateCount' < CompactionThreshold
    BY <1>3, <2>1 DEF FlushCommits, IsLong
  <2> QED
    BY <2>2, <2>3 DEF TailInv
<1> QED
  BY <1>1, <1>2, <1>3 DEF PersistUpdates

LEMMA NextIsBounded ==
    ASSUME ConstantsAssumption, Events \subseteq FallbackEvents \ {"flush"},
           Store, TailInv, [Next]_vars
    PROVE  TailInv'
<1>0. /\ "overlap" \notin Events /\ "afterImport" \notin Events /\ "flush" \notin Events
  BY DEF OrdinaryEvents, FallbackEvents
<1> USE DEF durable, memory, counters, conns
<1>a. ASSUME log' = log PROVE TailInv'
  BY <1>a DEF TailInv
<1>1. ASSUME NEW c \in Clients \cup {Reader}, FetchServed(c) \/ FetchLoads(c) \/ FetchFirst(c)
      PROVE  TailInv'
  BY <1>1, <1>a DEF FetchServed, FetchLoads, FetchFirst
<1>2. CASE RowMissing \/ RowFound \/ FullPage \/ ReadFails
  <2>1. log' = log
    BY <1>2 DEF RowMissing, RowFound, FullPage, ReadFails
  <2> QED
    BY <2>1, <1>a
<1>3. CASE LastPage
  <2>1. PICK page \in Pages(import.last) :
           \E l \in {import.last} \cup {r.seq : r \in page} : ImportEnds(page, l)
    BY <1>0, <1>3, LastPageEnds
  <2>2. PICK l \in {import.last} \cup {r.seq : r \in page} : ImportEnds(page, l)
    BY <2>1
  <2> DEFINE rows == import.rows \cup page
  <2>3. CompactionThreshold \in Nat \ {0} /\ log = {}
    BY <1>3 DEF ConstantsAssumption, LastPage, Store, Phases
  <2>4. Cardinality(rows) \in Nat
    BY <2>2, ImportedRows, FS_CardinalityType DEF ImportEnds, Store
  <2>5. CASE ImportCommits(rows, l)
    <3>1. log' = {} \/ (log' = rows /\ ~IsLong(Cardinality(rows)))
      BY <2>3, <2>5 DEF ImportCommits
    <3> HIDE DEF rows
    <3>2. CASE log' = {}
      <4>1. Cardinality(log') = 0
        BY <3>2, FS_EmptySet
      <4> QED
        BY <2>3, <4>1 DEF TailInv
    <3>3. CASE log' = rows /\ ~IsLong(Cardinality(rows))
      BY <2>3, <2>4, <3>3 DEF TailInv, IsLong
    <3> QED
      BY <3>1, <3>2, <3>3
  <2>6. CASE ImportAborts(rows, l)
    BY <2>6, <1>a DEF ImportAborts
  <2> QED
    BY <2>2, <2>5, <2>6 DEF ImportEnds
<1>4. CASE Alarm
  <2>1. CASE open /\ pending # <<>>
    <3>1. import.at = "idle" /\ PersistUpdates("alarm")
      BY <1>4, <2>1 DEF Alarm, Store, Phases
    <3> QED
      BY <1>0, <2>1, <3>1, FlushIsBounded
  <2>2. CASE ~(open /\ pending # <<>>)
    BY <1>4, <2>2, <1>a DEF Alarm
  <2> QED
    BY <2>1, <2>2
<1>5. CASE Batch
  BY <1>5, <1>a DEF Batch
<1>6. ASSUME NEW c \in Clients, NEW u \in Updates, HandleUpdate(c, u) PROVE TailInv'
  <2>1. open /\ import.at = "idle"
    BY <1>0, <1>6 DEF HandleUpdate
  <2>2. log' = log \/ PersistUpdates("forced")
    BY <1>6 DEF HandleUpdate
  <2> QED
    BY <1>0, <1>a, <2>1, <2>2, FlushIsBounded
<1>7. ASSUME NEW c \in Clients,
             \/ \E u \in Updates : HandleUpdateAsleep(c, u)
             \/ HandleSyncStep1(c)
             \/ Close(c)
      PROVE  TailInv'
  BY <1>7, <1>a DEF HandleUpdateAsleep, HandleSyncStep1, Close
<1>8. CASE Crash \/ Hibernate
  BY <1>8, <1>a DEF Crash, Hibernate, Forget
<1>9. CASE UNCHANGED vars
  BY <1>9, <1>a DEF vars
<1> QED
  BY <1>1, <1>2, <1>3, <1>4, <1>5, <1>6, <1>7, <1>8, <1>9 DEF Next

\* Cold reads stay a snapshot and a small tail (maybeCompactSnapshot), however often the
\* instance is lost between a flush and the next and whenever the object falls back to
\* D1, as long as no transaction of a flush or a compaction throws.
THEOREM TailStaysBounded ==
    ASSUME Events \subseteq FallbackEvents \ {"flush"}
    PROVE  Spec => []TailIsBounded
<1>0. Events \subseteq FallbackEvents
  OBVIOUS
<1>1. Init => TailInv
  BY ConstantsAssumption, FS_EmptySet DEF ConstantsAssumption, Init, TailInv
<1>2. Store /\ TailInv /\ [Next]_vars => TailInv'
  BY NextIsBounded, ConstantsAssumption
<1>3. TailInv => TailIsBounded
  BY DEF TailInv, TailIsBounded
<1>4. Spec => []Store
  BY <1>0, StoreInvariant
<1> QED
  BY <1>1, <1>2, <1>3, <1>4, PTL DEF Spec

-----------------------------------------------------------------------------
(* Durability, in the object's own store and over D1.                      *)

\* SavedIsKept says nothing of memory, so it is not inductive: what a flush or a
\* compaction writes must be known to be right.  The invariant adds what memory and
\* the batches under way owe to storage in each phase of an instance's life.

InD1 == d1.snap \cup EditsOf(d1.log)

\* A document D1 does not know has nothing there, and no two of its rows share a seq.
Legacy ==
    /\ UniqueSeq(d1.log)
    /\ ~d1.row => InD1 = {} /\ flights = {} /\ ~fallback /\ import.at # "page"

\* Until an import commits all that is saved is in D1, and from then on in the object.
Exact ==
    /\ ~meta.made => saved = InD1
    /\ meta.made => saved = meta.snap \cup EditsOf(log) /\ flights = {}

\* An import has read every row up to the last seq it saw, and nothing moves meanwhile.
Importing ==
    /\ import.at # "idle" => flights = {}
    /\ import.at = "row" => doc = {} /\ import.rows = {} /\ import.last = 0
    /\ import.at = "page" =>
          /\ import.snap = d1.snap
          /\ import.rows = {r \in d1.log : r.seq <= import.last}
          /\ doc = import.snap \cup EditsOf(import.rows)

\* A loaded document holds what is saved and what is pending, and in the fallback
\* nextSeq is free in D1's log.
Loaded ==
    open /\ import.at = "idle" =>
        /\ saved \cup PendingEdits \subseteq doc
        /\ fallback => \A r \in d1.log : r.seq < nextSeq

\* A batch under way: the rows of a flush are new to D1, a compaction's snapshot holds
\* all that it makes D1 forget, and the document holds both.
Sound(f) ==
    /\ f.op = "flush" => /\ UniqueSeq(f.rows)
                         /\ \A r \in f.rows, q \in d1.log : r.seq # q.seq
    /\ f.op = "compact" => saved \subseteq f.snap
    /\ open => /\ Stores(f) \subseteq doc
               /\ \A r \in f.rows : r.seq < nextSeq

Sent == (\A f, g \in flights : f = g) /\ (\A f \in flights : Sound(f))

Kept == Legacy /\ Exact /\ Importing /\ Loaded /\ Sent
DurabilityInv == Store /\ Kept

LEMMA InitDurability == Init => DurabilityInv
<1> SUFFICES ASSUME Init PROVE Kept
  BY InitStore DEF DurabilityInv
<1> QED
  BY LegacyAssumption
     DEF Init, Kept, Legacy, Exact, Importing, Loaded, Sent, InD1, NoImport, EditsOf

\* Who serves from D1, or while its document is not stored, serves over one batch at most.
LEMMA OneOverD1 ==
    ASSUME Store, Kept, OneBatchAtATime, open
    PROVE  /\ flights # {} => fallback /\ import.at = "idle" /\ ~meta.made
           /\ \A f \in flights : f.by # "gone"
BY DEF Store, Phases, Kept, Exact, Importing, OneBatchAtATime

\* A flush in the local store keeps it exact and the document ahead of it: what it compacts
\* is the whole document, what it appends is what was pending.
LEMMA FlushKeeps ==
    ASSUME ConstantsAssumption, DurabilityInv, open, import.at = "idle", ~fallback,
           doc \subseteq doc', NEW by, PersistUpdates(by)
    PROVE  /\ meta'.made
           /\ saved' = meta'.snap \cup EditsOf(log')
           /\ saved' \subseteq doc'
           /\ saved \subseteq saved'
           /\ flights' = {}
<1> USE DEF DurabilityInv, Kept, Store
<1>1. meta.made
  BY DEF Phases
<1>2. /\ saved = meta.snap \cup EditsOf(log)
      /\ saved \subseteq doc
      /\ PendingEdits \subseteq doc
  BY <1>1 DEF Exact, Loaded
<1>3. flights' = {} /\ (FlushCommits \/ FlushThrows)
  BY <1>1 DEF PersistUpdates, Exact
<1>4. EditsOf(NewRows) = PendingEdits
  BY NewRowsFacts DEF TypeOK
<1>5. EditsOf({}) = {}
  BY DEF EditsOf
<1>6. meta \in Metas
  BY DEF TypeOK, Metas
<1>7. CASE FlushThrows
  BY <1>1, <1>2, <1>3, <1>7 DEF FlushThrows, counters
<1>8. CASE FlushCommits /\ log' = {} /\ meta' = [meta EXCEPT !.snap = doc', !.count = 0]
           /\ saved' = saved \cup doc'
  <2>1. meta'.made /\ meta'.snap = doc'
    BY <1>1, <1>6, <1>8 DEF Metas
  <2> QED
    BY <1>2, <1>3, <1>5, <1>8, <2>1
<1>9. CASE /\ FlushCommits /\ log' = log \cup NewRows
           /\ meta' = [meta EXCEPT !.count = @ + Len(pending)]
           /\ saved' = saved \cup PendingEdits
  <2>1. meta'.made /\ meta'.snap = meta.snap
    BY <1>1, <1>6, <1>9 DEF Metas
  <2>2. EditsOf(log') = EditsOf(log) \cup PendingEdits
    BY <1>4, <1>9, EditsOfUnion
  <2> QED
    BY <1>2, <1>3, <1>9, <2>1, <2>2
<1> QED
  BY <1>1, <1>3, <1>7, <1>8, <1>9 DEF FlushCommits, Compacted

\* A flush over D1 sends the rows of what is pending, under seqs that are free there,
\* when no other batch is under way.
LEMMA SendKeeps ==
    ASSUME ConstantsAssumption, DurabilityInv, open, import.at = "idle", fallback,
           doc \subseteq doc', NEW by, PersistUpdates(by),
           UNCHANGED <<d1, open, fallback, import>>, OneBatchAtATime'
    PROVE  Sent' /\ (\A r \in d1.log : r.seq < nextSeq') /\ UNCHANGED <<meta, log, saved>>
<1> USE DEF DurabilityInv, Kept, Store
<1>0. PICK sent : sent = [op |-> "flush", by |-> by, rows |-> NewRows, snap |-> {}]
  OBVIOUS
<1>1. /\ flights' = flights \cup {sent}
      /\ nextSeq' = nextSeq + Len(pending)
      /\ UNCHANGED <<meta, log, saved>>
  BY <1>0 DEF PersistUpdates, FlushSends
<1>2. Len(pending) \in Nat /\ nextSeq \in Nat \ {0}
  BY DEF TypeOK
<1>3. /\ EditsOf(NewRows) = PendingEdits
      /\ UniqueSeq(NewRows)
      /\ NewRows \subseteq Rows
      /\ \A r \in NewRows : nextSeq <= r.seq /\ r.seq < nextSeq + Len(pending)
  BY NewRowsFacts DEF TypeOK
<1>4. \A r \in d1.log : r.seq \in Nat /\ r.seq < nextSeq
  BY DEF Loaded, TypeOK, Rows
<1>5. \A r \in d1.log : r.seq < nextSeq'
  BY <1>1, <1>2, <1>4
<1>6. \A r \in NewRows, q \in d1.log : r.seq # q.seq
  BY <1>2, <1>3, <1>4 DEF Rows
<1>7. sent.op = "flush" /\ sent.rows = NewRows
  BY <1>0
<1>8. Stores(sent) \subseteq doc'
  BY <1>3, <1>7 DEF Stores, Loaded
<1>9. flights' = {sent}
  BY <1>1 DEF OneBatchAtATime
<1>10. Sound(sent)'
  BY <1>1, <1>3, <1>6, <1>7, <1>8 DEF Sound, Stores
<1> QED
  BY <1>1, <1>5, <1>9, <1>10 DEF Sent

\* What D1 holds once it has executed the one batch under way: what is saved then.
LEMMA ExecutedIsSaved ==
    ASSUME DurabilityInv, NEW f \in flights, d1' = Executed(f), saved' = saved \cup Stores(f)
    PROVE  /\ d1'.row /\ UniqueSeq(d1'.log) /\ saved' = InD1'
           /\ d1'.log \subseteq d1.log \cup f.rows
<1> USE DEF DurabilityInv, Kept, Store
<1>1. /\ d1 \in [row : BOOLEAN, snap : SUBSET Edits, log : SUBSET Rows]
      /\ f \in Flights
  BY DEF TypeOK
<1>2. d1.row /\ saved = InD1 /\ Sound(f) /\ UniqueSeq(d1.log)
  BY DEF Legacy, Exact, Sent
<1>3. CASE f.op = "flush"
  <2>1. d1'.row = d1.row /\ d1'.snap = d1.snap /\ d1'.log = d1.log \cup f.rows
    BY <1>1, <1>3 DEF Executed
  <2>2. UniqueSeq(d1.log \cup f.rows)
    BY <1>2, <1>3 DEF Sound, UniqueSeq
  <2>3. EditsOf(d1.log \cup f.rows) = EditsOf(d1.log) \cup EditsOf(f.rows)
    BY EditsOfUnion
  <2> QED
    BY <1>2, <1>3, <2>1, <2>2, <2>3 DEF InD1, Stores
<1>4. CASE f.op = "compact"
  <2>1. d1'.row = d1.row /\ d1'.snap = f.snap /\ d1'.log = {}
    BY <1>1, <1>4 DEF Executed
  <2>2. saved' = f.snap
    BY <1>2, <1>4 DEF Sound, Stores
  <2> QED
    BY <1>2, <2>1, <2>2 DEF InD1, EditsOf, UniqueSeq
<1> QED
  BY <1>1, <1>3, <1>4 DEF Flights

\* A batch that D1 answers, rejects, or executes for an instance that is gone.
LEMMA BatchKeeps ==
    ASSUME DurabilityInv, OneBatchAtATime, Batch
    PROVE  Kept'
<1> USE DEF DurabilityInv, Kept, Store
<1>1. PICK f \in flights : FlushAnswered(f) \/ CompactAnswered(f) \/ BatchUnanswered(f)
  BY DEF Batch
<1>2. UNCHANGED <<meta, log, migrated, open, doc, pending, fallback, import>>
  BY DEF Batch, durable, memory
<1>3. /\ f \in Flights /\ Sound(f) /\ flights \ {f} = {}
      /\ ~meta.made /\ d1.row /\ import.at = "idle"
      /\ open => fallback /\ saved \subseteq doc /\ PendingEdits \subseteq doc
      /\ open => \A r \in d1.log : r.seq < nextSeq
  BY OneOverD1 DEF TypeOK, Sent, Exact, Legacy, Importing, Loaded
<1>4. PendingEdits' = PendingEdits
  BY <1>2 DEF PendingEdits
<1>5. CASE BatchUnanswered(f) /\ UNCHANGED <<d1, saved>>
  <2>1. flights' = {} /\ nextSeq' = nextSeq
    BY <1>3, <1>5 DEF BatchUnanswered, counters
  <2> QED
    BY <1>2, <1>4, <1>5, <2>1 DEF Legacy, Exact, Importing, Loaded, Sent, InD1
<1>6. CASE d1' = Executed(f) /\ saved' = saved \cup Stores(f)
  <2>1. /\ d1'.row /\ UniqueSeq(d1'.log) /\ saved' = InD1'
        /\ d1'.log \subseteq d1.log \cup f.rows
    BY <1>6, ExecutedIsSaved
  <2>2. open => saved' \subseteq doc
    BY <1>3, <1>6 DEF Sound
  <2>3. \A r \in d1.log \cup f.rows : open => r.seq < nextSeq
    BY <1>3 DEF Sound
  <2>4. Legacy' /\ Exact' /\ Importing'
    <3>1. flights' = {} \/ ~meta.made
      BY <1>3
    <3> QED
      BY <1>2, <1>3, <2>1 DEF Legacy, Exact, Importing
  <2>5. CASE flights' = {} /\ nextSeq' = nextSeq
    BY <1>2, <1>3, <1>4, <2>1, <2>2, <2>3, <2>4, <2>5 DEF Loaded, Sent
  <2>6. CASE CompactAnswered(f)
    <3>1. flights' = {} /\ d1'.log = {}
      BY <1>3, <2>6 DEF CompactAnswered, Executed, TypeOK
    <3> QED
      BY <1>2, <1>3, <1>4, <2>2, <2>4, <3>1 DEF Loaded, Sent
  <2>7. CASE FlushAnswered(f) /\ flights' # {}
    <3>0. PICK g : g = [f EXCEPT !.op = "compact", !.snap = doc]
      OBVIOUS
    <3>1. flights' = {g} /\ nextSeq' = nextSeq /\ open
      BY <1>3, <2>7, <3>0 DEF FlushAnswered, Phases
    <3>2. g.op = "compact" /\ g.snap = doc /\ g.rows = f.rows
      BY <1>3, <3>0 DEF Flights
    <3>3. Sound(g)'
      BY <1>2, <2>2, <2>3, <3>1, <3>2 DEF Sound, Stores
    <3>4. Sent'
      BY <3>1, <3>3 DEF Sent
    <3> QED
      BY <1>2, <1>3, <1>4, <2>1, <2>2, <2>3, <2>4, <3>1, <3>4 DEF Loaded
  <2> QED
    BY <1>1, <1>3, <2>5, <2>6, <2>7 DEF FlushAnswered, BatchUnanswered, counters
<1> QED
  BY <1>1, <1>5, <1>6 DEF FlushAnswered, CompactAnswered, BatchUnanswered


\* A full page takes the import to the seq of its last row, and skips no row: rows
\* come in seq order and no two share a seq.
LEMMA FullPageReads ==
    ASSUME DurabilityInv, import.at = "page", NEW page \in Pages(import.last),
           NEW l \in {r.seq : r \in page}, IsLast(l, page)
    PROVE  import.rows \cup page = {r \in d1.log : r.seq <= l}
<1> USE DEF DurabilityInv, Kept, Store
<1>1. /\ d1.log \subseteq Rows
      /\ UniqueSeq(d1.log)
      /\ import.rows = {r \in d1.log : r.seq <= import.last}
      /\ import.last \in Nat
  BY DEF TypeOK, Legacy, Importing
<1>2. /\ page \subseteq Beyond(import.last)
      /\ \A r \in page, q \in Beyond(import.last) \ page : r.seq <= q.seq
  BY DEF Pages, IsPage
<1>3. \A r \in d1.log : r.seq \in Nat
  BY <1>1 DEF Rows
<1>4. PICK top \in page : top.seq = l
  OBVIOUS
<1>5. top \in d1.log /\ import.last < l
  BY <1>2, <1>4 DEF Beyond
<1>6. ASSUME NEW r \in import.rows \cup page
      PROVE  r \in d1.log /\ r.seq <= l
  BY <1>1, <1>2, <1>3, <1>5, <1>6 DEF Beyond, IsLast
<1>7. ASSUME NEW r \in d1.log, r.seq <= l, r \notin import.rows
      PROVE  r \in page
  <2>1. r \in Beyond(import.last)
    BY <1>1, <1>3, <1>7 DEF Beyond
  <2>2. SUFFICES ASSUME r \notin page PROVE FALSE
    OBVIOUS
  <2>3. l <= r.seq
    BY <1>2, <1>4, <2>1, <2>2
  <2>4. r.seq = top.seq
    BY <1>3, <1>4, <1>5, <1>7, <2>3
  <2> QED
    BY <1>1, <1>4, <1>5, <2>2, <2>4 DEF UniqueSeq
<1> QED
  BY <1>6, <1>7

\* A short page ends the import with every row read, the last of them at l.
LEMMA LastPageReads ==
    ASSUME DurabilityInv, import.at = "page", NEW page \in Pages(import.last),
           ColdLoadBatch \in Nat, Cardinality(page) < ColdLoadBatch,
           NEW l \in {import.last} \cup {r.seq : r \in page},
           IF page = {} THEN l = import.last ELSE IsLast(l, page)
    PROVE  /\ import.rows \cup page = d1.log
           /\ \A r \in d1.log : r.seq < l + 1
           /\ ~Collide(d1.log)
<1> USE DEF DurabilityInv, Kept, Store
<1>1. /\ d1.log \subseteq Rows
      /\ UniqueSeq(d1.log)
      /\ import.rows = {r \in d1.log : r.seq <= import.last}
      /\ import.last \in Nat
  BY DEF TypeOK, Legacy, Importing
<1>2. page = Beyond(import.last)
  BY DEF Pages, IsPage
<1>3. \A r \in d1.log : r.seq \in Nat
  BY <1>1 DEF Rows
<1>4. import.rows \cup page = d1.log
  BY <1>1, <1>2, <1>3 DEF Beyond
<1>5. log = {}
  BY DEF Phases
<1>6. ~Collide(d1.log)
  BY <1>1, <1>5 DEF Collide
<1>7. CASE page = {}
  BY <1>1, <1>3, <1>4, <1>6, <1>7
<1>8. CASE page # {}
  <2>1. /\ \A r \in page : r.seq <= l
        /\ \E r \in page : r.seq = l
    BY <1>8 DEF IsLast
  <2>2. l \in Nat /\ import.last < l
    BY <1>2, <1>3, <2>1 DEF Beyond
  <2> QED
    BY <1>1, <1>3, <1>4, <1>6, <2>1, <2>2
<1> QED
  BY <1>7, <1>8

\* Queueing an update adds its edits to those pending, whether the queue had room or
\* was flushed.
LEMMA QueueEdits ==
    ASSUME pending \in Seq(Updates), NEW u \in Updates,
           pending' \in {Append(pending, u), <<u>>}
    PROVE  PendingEdits' \subseteq PendingEdits \cup u
<1> SUFFICES ASSUME NEW i \in 1..Len(pending'), NEW e \in pending'[i]
             PROVE  e \in PendingEdits \cup u
  BY DEF PendingEdits
<1>1. CASE pending' = <<u>>
  BY <1>1
<1>2. CASE pending' = Append(pending, u)
  <2>1. CASE i \in 1..Len(pending)
    BY <1>2, <2>1 DEF PendingEdits
  <2>2. CASE i = Len(pending) + 1
    BY <1>2, <2>2
  <2> QED
    BY <1>2, <2>1, <2>2
<1> QED
  BY <1>1, <1>2

\* With nothing pending there are no pending edits.
LEMMA NothingPending == pending' = <<>> => PendingEdits' = {}
BY DEF PendingEdits
\* An import ends with the document that is saved, its rows stored or, if that fails, left
\* in D1; no seq of them is beyond l.
ImportDone(l) ==
    /\ doc' = saved
    /\ \A r \in d1.log : r.seq < l + 1
    /\ \/ ImportCommits(d1.log, l)
       \/ "importWrite" \in Events /\ ImportAborts(d1.log, l)

LEMMA ImportServes ==
    ASSUME ConstantsAssumption, "afterImport" \notin Events, DurabilityInv, LastPage
    PROVE  \E l : ImportDone(l)
<1>1. /\ import.at = "page" /\ ~meta.made
      /\ doc = d1.snap \cup EditsOf(import.rows)
      /\ saved = d1.snap \cup EditsOf(d1.log)
  BY DEF LastPage, DurabilityInv, Store, Phases, Kept, Importing, Exact, InD1
<1>2. PICK page \in Pages(import.last) :
         \E l \in {import.last} \cup {r.seq : r \in page} : ImportEnds(page, l)
  BY LastPageEnds
<1>3. PICK l \in {import.last} \cup {r.seq : r \in page} : ImportEnds(page, l)
  BY <1>2
<1>4. /\ import.rows \cup page = d1.log
      /\ \A r \in d1.log : r.seq < l + 1
      /\ ~Collide(d1.log)
  BY <1>1, <1>3, LastPageReads DEF ImportEnds, ConstantsAssumption
<1>5. EditsOf(import.rows \cup page) = EditsOf(import.rows) \cup EditsOf(page)
  BY EditsOfUnion
<1>6. doc' = saved
  BY <1>1, <1>3, <1>4, <1>5 DEF ImportEnds
<1> QED
  BY <1>3, <1>4, <1>6 DEF ImportEnds, ImportDone

\* Every step keeps the durability invariant, over D1 as long as batches do not overlap.
LEMMA NextDurability ==
    ASSUME ConstantsAssumption, Events \subseteq FallbackEvents, DurabilityInv,
           OneBatchAtATime, OneBatchAtATime', [Next]_vars
    PROVE  DurabilityInv'
<1>0. /\ Store /\ TypeOK /\ Phases /\ Legacy /\ Exact /\ Importing /\ Loaded /\ Sent
      /\ Store' /\ Phases'
  <2>1. Store'
    BY NextStore DEF DurabilityInv
  <2> QED
    BY <2>1 DEF DurabilityInv, Kept, Store
<1>00. /\ "overlap" \notin Events /\ "d1Read" \notin Events /\ "afterImport" \notin Events
  BY DEF OrdinaryEvents, FallbackEvents
<1> SUFFICES Kept'
  BY <1>0 DEF DurabilityInv
<1> USE DEF durable, memory, counters, conns
<1>a. ASSUME UNCHANGED <<meta, log, d1, open, doc, pending, nextSeq, fallback, import,
                         flights, saved>>
      PROVE  Kept'
  BY <1>0, <1>a
     DEF Kept, Legacy, Exact, Importing, Loaded, Sent, Sound, InD1, PendingEdits
<1>1. ASSUME NEW c \in Clients \cup {Reader}, FetchServed(c) PROVE Kept'
  BY <1>1, <1>a DEF FetchServed
<1>2. ASSUME NEW c \in Clients \cup {Reader}, FetchLoads(c) PROVE Kept'
  <2>1. flights' = {} /\ ~fallback /\ import'.at = "idle" /\ fallback' = fallback
        /\ UNCHANGED <<meta, log, d1, saved>>
    BY <1>0, <1>2 DEF FetchLoads, Exact, Phases
  <2>2. pending' = <<>> /\ doc' = saved'
    BY <1>0, <1>2 DEF FetchLoads, LoadedDoc, Phases, Exact
  <2> QED
    BY <1>0, <1>2, <2>1, <2>2, NothingPending
       DEF FetchLoads, Kept, Legacy, Exact, Importing, Loaded, Sent, InD1
<1>3. ASSUME NEW c \in Clients \cup {Reader}, FetchFirst(c) PROVE Kept'
  <2>1. /\ ~migrated /\ ~meta.made /\ ~open /\ open' /\ doc' = {}
        /\ import' = [NoImport EXCEPT !.at = "row", !.by = c]
        /\ UNCHANGED <<meta, log, migrated, d1, pending, fallback, flights, saved>>
    BY <1>0, <1>3 DEF FetchFirst, Phases
  <2>2. import'.at = "row" /\ import'.rows = {} /\ import'.last = 0
    BY <2>1 DEF NoImport
  <2>3. flights = {}
    <3>1. ~fallback
      BY <1>0, <2>1 DEF Phases
    <3>2. \A f \in flights : f.by = "gone"
      BY <1>0, <3>1 DEF Phases
    <3>3. \A f \in flights : f.by # "gone"
      BY <2>1, <2>2 DEF OneBatchAtATime
    <3> QED
      BY <3>2, <3>3
  <2> QED
    BY <1>0, <2>1, <2>2, <2>3
       DEF Kept, Legacy, Exact, Importing, Loaded, Sent, InD1
<1>4. CASE RowMissing
  <2>1. /\ ~meta.made /\ meta.snap = {} /\ log = {} /\ saved = {} /\ doc = {}
        /\ pending = <<>> /\ flights = {} /\ ~fallback
    BY <1>0, <1>4 DEF RowMissing, Importing, Phases, Exact, Legacy
  <2>2. /\ meta' = [meta EXCEPT !.made = TRUE]
        /\ import' = NoImport
        /\ UNCHANGED <<log, d1, open, doc, pending, nextSeq, fallback, flights, saved>>
    BY <1>4 DEF RowMissing
  <2>3. meta'.made /\ meta'.snap = {}
    BY <1>0, <2>1, <2>2 DEF TypeOK
  <2>4. import'.at = "idle"
    BY <2>2 DEF NoImport
  <2> QED
    BY <1>0, <2>1, <2>2, <2>3, <2>4, NothingPending
       DEF Kept, Legacy, Exact, Importing, Loaded, Sent, InD1, EditsOf
<1>5. CASE RowFound
  <2>1. /\ import.at = "row" /\ d1.row /\ flights = {}
        /\ doc = {} /\ import.rows = {} /\ import.last = 0
    BY <1>0, <1>5 DEF RowFound, Importing
  <2>2. /\ doc' = doc \cup d1.snap
        /\ import' = [import EXCEPT !.at = "page", !.snap = d1.snap]
        /\ UNCHANGED <<meta, log, migrated, d1, open, pending, fallback, flights, saved>>
    BY <1>5 DEF RowFound
  <2>3. /\ import'.at = "page" /\ import'.snap = d1.snap
        /\ import'.rows = {} /\ import'.last = 0
    BY <1>0, <2>1, <2>2 DEF TypeOK
  <2>4. {r \in d1.log : r.seq <= 0} = {}
    BY <1>0 DEF TypeOK, Rows
  <2> QED
    BY <1>0, <2>1, <2>2, <2>3, <2>4
       DEF Kept, Legacy, Exact, Importing, Loaded, Sent, InD1, EditsOf
<1>6. CASE FullPage
  <2>1. /\ import.at = "page" /\ d1.row /\ flights = {}
        /\ import.snap = d1.snap
        /\ doc = import.snap \cup EditsOf(import.rows)
    BY <1>0, <1>6 DEF FullPage, Importing, Legacy
  <2>2. PICK page \in Pages(import.last) :
           /\ doc' = doc \cup EditsOf(page)
           /\ \E l \in {r.seq : r \in page} :
                 /\ IsLast(l, page)
                 /\ import' = [import EXCEPT !.rows = @ \cup page, !.last = l]
    BY <1>6 DEF FullPage
  <2>3. PICK l \in {r.seq : r \in page} :
           /\ IsLast(l, page)
           /\ import' = [import EXCEPT !.rows = @ \cup page, !.last = l]
    BY <2>2
  <2>4. import.rows \cup page = {r \in d1.log : r.seq <= l}
    BY <2>1, <2>3, FullPageReads
  <2>5. /\ import'.at = "page" /\ import'.snap = d1.snap
        /\ import'.rows = import.rows \cup page /\ import'.last = l
    BY <1>0, <2>1, <2>3 DEF TypeOK
  <2>6. doc' = import'.snap \cup EditsOf(import'.rows)
    BY <2>1, <2>2, <2>5, EditsOfUnion
  <2>7. UNCHANGED <<meta, log, migrated, d1, open, pending, fallback, flights, saved>>
    BY <1>6 DEF FullPage
  <2> QED
    BY <1>0, <2>1, <2>4, <2>5, <2>6, <2>7
       DEF Kept, Legacy, Exact, Importing, Loaded, Sent, InD1
<1>7. CASE LastPage
  <2>1. /\ ~meta.made /\ pending = <<>> /\ open /\ log = {}
        /\ flights = {} /\ ~fallback /\ d1.row
        /\ import.snap = d1.snap
        /\ saved = InD1
    BY <1>0, <1>7 DEF LastPage, Importing, Phases, Legacy, Exact
  <2>2. PICK l : ImportDone(l)
    BY <1>00, <1>7, ImportServes
  <2>3. UNCHANGED <<d1, open, pending, flights>> /\ import'.at = "idle"
    BY <1>7 DEF LastPage, NoImport
  <2>4. CASE ImportCommits(d1.log, l)
    <3>1. /\ meta'.made /\ ~fallback'
          /\ saved' = meta'.snap \cup EditsOf(log')
          /\ saved' = doc'
      BY <2>1, <2>2, <2>4 DEF ImportDone, ImportCommits, InD1, EditsOf
    <3> QED
      BY <1>0, <2>1, <2>3, <3>1, NothingPending
         DEF Kept, Legacy, Exact, Importing, Loaded, Sent, InD1
  <2>5. CASE ImportAborts(d1.log, l)
    <3>1. UNCHANGED <<meta, log, saved>> /\ nextSeq' = l + 1
      BY <2>5 DEF ImportAborts, SeqAfter
    <3> QED
      BY <1>0, <2>1, <2>2, <2>3, <3>1, NothingPending
         DEF ImportDone, Kept, Legacy, Exact, Importing, Loaded, Sent, InD1
  <2> QED
    BY <2>2, <2>4, <2>5 DEF ImportDone
<1>8. CASE ReadFails
  BY <1>00, <1>8 DEF ReadFails
\* A flush, by the alarm or forced by a full queue.
<1>b. ASSUME open, import.at = "idle", doc \subseteq doc', PendingEdits' \subseteq doc',
             NEW by \in {"alarm", "forced"}, PersistUpdates(by),
             UNCHANGED <<d1, open, fallback, import>>
      PROVE  Kept'
  <2>1. CASE fallback
    <3>1. Sent' /\ (\A r \in d1.log : r.seq < nextSeq') /\ UNCHANGED <<meta, log, saved>>
      BY <1>b, <2>1, SendKeeps
    <3>2. ~meta.made /\ d1.row
      BY <1>0, <2>1 DEF Phases, Legacy
    <3>3. saved' \subseteq doc'
      BY <1>0, <1>b, <3>1 DEF Loaded
    <3> QED
      BY <1>0, <1>b, <2>1, <3>1, <3>2, <3>3
         DEF Kept, Legacy, Exact, Importing, Loaded, InD1
  <2>2. CASE ~fallback
    <3>1. /\ meta'.made
          /\ saved' = meta'.snap \cup EditsOf(log')
          /\ saved' \subseteq doc'
          /\ flights' = {}
      BY <1>b, <2>2, FlushKeeps
    <3> QED
      BY <1>0, <1>b, <2>2, <3>1 DEF Kept, Legacy, Exact, Importing, Loaded, Sent, InD1
  <2> QED
    BY <2>1, <2>2
<1>9. CASE Alarm
  <2>1. UNCHANGED <<migrated, d1, open, fallback, import>> /\ pending' = <<>>
    BY <1>9 DEF Alarm
  <2>2. CASE open /\ pending # <<>>
    <3>1. import.at = "idle" /\ PersistUpdates("alarm") /\ UNCHANGED doc
      BY <1>0, <1>9, <2>2 DEF Alarm, Phases
    <3> QED
      BY <1>b, <2>1, <2>2, <3>1, NothingPending
  <2>3. CASE ~(open /\ pending # <<>>)
    <3>1. pending = <<>>
      BY <1>0, <2>3 DEF Phases
    <3> QED
      BY <1>9, <1>a, <2>1, <2>3, <3>1 DEF Alarm
  <2> QED
    BY <2>2, <2>3
<1>10. CASE Batch
  BY <1>10, BatchKeeps
<1>11. ASSUME NEW c \in Clients, NEW u \in Updates, HandleUpdate(c, u) PROVE Kept'
  <2>1. open /\ import.at = "idle" /\ doc' = doc \cup u
        /\ UNCHANGED <<migrated, d1, open, fallback, import>>
    BY <1>00, <1>11 DEF HandleUpdate
  <2>2. PendingEdits' \subseteq doc'
    <3>1. pending' \in {Append(pending, u), <<u>>} /\ pending \in Seq(Updates)
      BY <1>0, <1>11 DEF HandleUpdate, TypeOK
    <3> QED
      BY <1>0, <2>1, <3>1, QueueEdits DEF Loaded
  <2>3. CASE Len(pending) < MaxPending
    <3>1. UNCHANGED <<meta, log, nextSeq, flights, saved>>
      BY <1>11, <2>3 DEF HandleUpdate
    <3>2. Sent'
      BY <1>0, <2>1, <3>1 DEF Sent, Sound
    <3> QED
      BY <1>0, <2>1, <2>2, <3>1, <3>2 DEF Kept, Legacy, Exact, Importing, Loaded, InD1
  <2>4. CASE ~(Len(pending) < MaxPending)
    <3>1. PersistUpdates("forced")
      BY <1>11, <2>4 DEF HandleUpdate
    <3> QED
      BY <1>b, <2>1, <2>2, <3>1
  <2> QED
    BY <2>3, <2>4
<1>12. ASSUME NEW c \in Clients,
              \/ \E u \in Updates : HandleUpdateAsleep(c, u)
              \/ HandleSyncStep1(c)
              \/ Close(c)
       PROVE  Kept'
  <2>1. UNCHANGED <<meta, log, d1, open, doc, pending, nextSeq, fallback, import,
                    flights, saved>>
    BY <1>12 DEF HandleUpdateAsleep, HandleSyncStep1, Close
  <2> QED
    BY <2>1, <1>a
<1>13. CASE Crash \/ Hibernate
  <2>1. Forget
    BY <1>13 DEF Crash, Hibernate
  <2>2. /\ ~open' /\ import'.at = "idle" /\ ~fallback'
        /\ UNCHANGED <<meta, log, d1, saved>>
    BY <2>1 DEF Forget, NoImport
  <2>3. Sent' /\ (flights = {} => flights' = {})
    <3>1. CASE UNCHANGED flights
      BY <1>0, <2>2, <3>1 DEF Sent, Sound
    <3>2. CASE flights' = {[f EXCEPT !.by = "gone"] : f \in flights}
      <4>1. \A f, g \in flights' : f = g
        BY <1>0, <3>2 DEF Sent
      <4>2. ASSUME NEW g \in flights' PROVE Sound(g)'
        <5>1. PICK f \in flights : g = [f EXCEPT !.by = "gone"]
          BY <3>2
        <5>2. g.op = f.op /\ g.rows = f.rows /\ g.snap = f.snap
          BY <1>0, <5>1 DEF TypeOK, Flights
        <5>3. Sound(f)
          BY <1>0 DEF Sent
        <5> QED
          BY <2>2, <5>2, <5>3 DEF Sound
      <4> QED
        BY <3>2, <4>1, <4>2 DEF Sent
    <3> QED
      BY <1>13, <3>1, <3>2 DEF Crash, Hibernate
  <2> QED
    BY <1>0, <2>2, <2>3 DEF Kept, Legacy, Exact, Importing, Loaded, InD1
<1>14. CASE UNCHANGED vars
  BY <1>14, <1>a DEF vars
<1> QED
  BY <1>1, <1>2, <1>3, <1>4, <1>5, <1>6, <1>7, <1>8, <1>9, <1>10, <1>11, <1>12,
     <1>13, <1>14 DEF Next

\* Memory owes storage what each phase of an instance's life says (initializeDoc,
\* importFromD1, persistUpdates and the D1 twins), as long as D1 batches do not overlap.
THEOREM Durability ==
    ASSUME Events \subseteq FallbackEvents
    PROVE  Spec /\ []OneBatchAtATime => []DurabilityInv
<1>1. Init => DurabilityInv
  BY InitDurability
<1>2. DurabilityInv /\ OneBatchAtATime /\ OneBatchAtATime' /\ [Next]_vars => DurabilityInv'
  BY NextDurability, ConstantsAssumption
<1> QED
  BY <1>1, <1>2, PTL DEF Spec

\* What the invariant says of a fresh instance: it would read back exactly what is
\* saved.
LEMMA RecoversSaved == DurabilityInv => Recoverable = saved
BY DEF DurabilityInv, Store, Phases, Kept, Exact, InD1, Recoverable

\* History is never lost (coordinator.ts, loadLocal, importFromD1, persistUpdates,
\* maybeCompactSnapshot and their D1 twins together), as long as D1 batches do not overlap.
THEOREM HistoryIsKept ==
    ASSUME Events \subseteq FallbackEvents
    PROVE  Spec /\ []OneBatchAtATime => []SavedIsKept
<1>1. DurabilityInv => SavedIsKept
  BY RecoversSaved DEF SavedIsKept
<1> QED
  BY <1>1, Durability, PTL

\* No one is served a document that misses saved edits (initializeDoc).
THEOREM ServingIsComplete ==
    ASSUME Events \subseteq FallbackEvents
    PROVE  Spec /\ []OneBatchAtATime => []ServedIsComplete
<1>1. DurabilityInv => ServedIsComplete
  BY DEF DurabilityInv, Kept, Loaded, ServedIsComplete
<1> QED
  BY <1>1, Durability, PTL

-----------------------------------------------------------------------------
(* The coordinator implements DurableDocument.  A load, an import and a    *)
(* compaction are stutters of it, or save what is served already; a flush  *)
(* or the answer to one and an edit are a Grow; losing the instance is a   *)
(* Restart.                                                                *)

\* What a reader is served, as the refinement maps it.
Served == IF open /\ import.at = "idle" THEN doc ELSE Recoverable

\* A step that takes the document and the store upwards, the store never beyond the
\* document, is a Grow.
LEMMA UpwardsIsGrow ==
    ASSUME Served \subseteq Served', Served' \subseteq Edits,
           saved \subseteq saved', saved' \subseteq Served'
    PROVE  Durable!Grow
<1>1. Served' = Served \cup (Served' \ Served) /\ saved' = saved \cup saved'
  OBVIOUS
<1>2. Served' \ Served \in SUBSET Edits /\ saved' \in SUBSET Edits
  OBVIOUS
<1> QED
  BY <1>1, <1>2 DEF Durable!Grow, Served

\* A reader is served all that is saved, and while nothing is loaded no more.
ServedRight ==
    /\ saved \subseteq Served
    /\ Served \subseteq Edits
    /\ ~(open /\ import.at = "idle") => Served = saved

LEMMA ServedFacts == DurabilityInv => ServedRight
BY RecoversSaved DEF DurabilityInv, Store, Kept, Served, ServedRight, Loaded, TypeOK

\* A flush, in the local store or over D1, stores no less than there was.
LEMMA FlushIsUpwards ==
    ASSUME ConstantsAssumption, DurabilityInv, open, import.at = "idle",
           doc \subseteq doc', NEW by, PersistUpdates(by)
    PROVE  saved \subseteq saved'
<1>1. CASE fallback
  BY <1>1 DEF PersistUpdates, FlushSends
<1>2. CASE ~fallback
  BY <1>2, FlushKeeps
<1> QED
  BY <1>1, <1>2

\* Every step is a step of the promise or leaves it unchanged: only losing the
\* instance takes a loaded document back.
LEMMA StepImplements ==
    ASSUME ConstantsAssumption, Events \subseteq FallbackEvents,
           DurabilityInv, DurabilityInv', [Next]_vars
    PROVE  [Durable!Next]_<<Served, saved>>
<1>0. Phases
  BY DEF DurabilityInv, Store
<1>00. /\ "overlap" \notin Events /\ "d1Read" \notin Events /\ "afterImport" \notin Events
  BY DEF OrdinaryEvents, FallbackEvents
<1>01. /\ saved \subseteq Served
       /\ Served \subseteq Edits
       /\ ~(open /\ import.at = "idle") => Served = saved
  BY ServedFacts DEF ServedRight
<1>02. /\ saved' \subseteq Served'
       /\ Served' \subseteq Edits
       /\ ~(open' /\ import'.at = "idle") => Served' = saved'
  <2>1. ServedRight'
    BY ServedFacts, PTL
  <2> QED
    BY <2>1 DEF ServedRight
<1> DEFINE IsLoaded == open /\ import.at = "idle"
           Upwards == /\ saved \subseteq saved'
                      /\ IsLoaded => IsLoaded' /\ doc \subseteq doc'
<1>a. SUFFICES Upwards \/ Durable!Restart
  <2>1. ASSUME Upwards PROVE Durable!Grow
    <3>1. CASE IsLoaded
      <4>1. Served = doc /\ Served' = doc' /\ doc \subseteq doc'
        BY <2>1, <3>1 DEF Served
      <4> QED
        BY <1>02, <2>1, <4>1, UpwardsIsGrow
    <3>2. CASE ~IsLoaded
      <4>1. Served \subseteq Served'
        BY <1>01, <1>02, <2>1, <3>2
      <4> QED
        BY <1>02, <2>1, <4>1, UpwardsIsGrow
    <3> QED
      BY <3>1, <3>2
  <2> QED
    BY <2>1 DEF Durable!Next
<1> USE DEF durable, memory, counters, conns
<1>1. ASSUME NEW c \in Clients \cup {Reader},
             FetchServed(c) \/ FetchLoads(c) \/ FetchFirst(c)
      PROVE  Upwards
  BY <1>1 DEF FetchServed, FetchLoads, FetchFirst
<1>2. CASE RowMissing \/ RowFound \/ FullPage
  BY <1>2 DEF RowMissing, RowFound, FullPage
<1>3. CASE LastPage
  <2>1. import.at = "page"
    BY <1>3 DEF LastPage
  <2>2. saved \subseteq saved'
    BY <1>3 DEF LastPage, ImportCommits, ImportHalfFails, ImportAborts
  <2> QED
    BY <2>1, <2>2
<1>4. CASE ReadFails
  BY <1>00, <1>4 DEF ReadFails
<1>5. CASE Alarm
  <2>1. CASE open /\ pending # <<>>
    <3>1. import.at = "idle" /\ PersistUpdates("alarm") /\ UNCHANGED <<doc, open, import>>
      BY <1>0, <1>5, <2>1 DEF Alarm, Phases
    <3> QED
      BY <2>1, <3>1, FlushIsUpwards
  <2>2. CASE ~(open /\ pending # <<>>)
    BY <1>5, <2>2 DEF Alarm
  <2> QED
    BY <2>1, <2>2
<1>6. CASE Batch
  <2>1. saved \subseteq saved' /\ UNCHANGED <<open, import, doc>>
    BY <1>6 DEF Batch, FlushAnswered, CompactAnswered, BatchUnanswered
  <2> QED
    BY <2>1
<1>7. ASSUME NEW c \in Clients, NEW u \in Updates, HandleUpdate(c, u)
      PROVE  Upwards
  <2>1. open /\ import.at = "idle" /\ doc \subseteq doc' /\ UNCHANGED <<open, import>>
    BY <1>00, <1>7 DEF HandleUpdate
  <2>2. saved' = saved \/ PersistUpdates("forced")
    BY <1>7 DEF HandleUpdate
  <2> QED
    BY <2>1, <2>2, FlushIsUpwards
<1>8. ASSUME NEW c \in Clients,
             \/ \E u \in Updates : HandleUpdateAsleep(c, u)
             \/ HandleSyncStep1(c)
             \/ Close(c)
      PROVE  Upwards
  BY <1>8 DEF HandleUpdateAsleep, HandleSyncStep1, Close
<1>9. CASE Crash \/ Hibernate
  <2>1. ~open' /\ saved' = saved
    BY <1>9 DEF Crash, Hibernate, Forget
  <2>2. Served' = saved
    BY <1>02, <2>1
  <2> QED
    BY <2>1, <2>2 DEF Durable!Restart, Served
<1>10. CASE UNCHANGED vars
  BY <1>10 DEF vars
<1> QED
  BY <1>1, <1>2, <1>3, <1>4, <1>5, <1>6, <1>7, <1>8, <1>9, <1>10 DEF Next

\* The coordinator keeps the promise of DurableDocument: edits only join what readers
\* are served, and an evicted instance comes back with exactly what was saved.
THEOREM Refinement ==
    ASSUME Events \subseteq FallbackEvents
    PROVE  Spec /\ []OneBatchAtATime => ImplementsDurableDocument
<1>1. Init => Durable!Init
  <2> SUFFICES ASSUME Init PROVE Durable!Init
    OBVIOUS
  <2>1. DurabilityInv /\ ~open
    BY InitDurability DEF Init
  <2> QED
    BY <2>1, ServedFacts, RecoversSaved DEF Durable!Init, Served, ServedRight
<1>2. DurabilityInv /\ DurabilityInv' /\ [Next]_vars => [Durable!Next]_<<Served, saved>>
  BY StepImplements, ConstantsAssumption
<1>3. Spec /\ []OneBatchAtATime => []DurabilityInv
  BY Durability
<1> QED
  BY <1>1, <1>2, <1>3, PTL DEF Spec, ImplementsDurableDocument, Durable!Spec, Served

-----------------------------------------------------------------------------
(* The sockets are not left behind.                                        *)

\* A synced socket has been sent all that is served, or while nothing is loaded all that
\* will be; a batch left behind by a lost instance finds no socket of it.
SyncInv ==
    /\ \A c \in synced : Served \subseteq exchanged[c]
    /\ ~open => doc = {} /\ (synced = {} \/ flights = {})

LEMMA NextSynced ==
    ASSUME ConstantsAssumption, Events \subseteq FallbackEvents, DurabilityInv, DurabilityInv',
           OneBatchAtATime, SyncInv, [Next]_vars
    PROVE  SyncInv'
<1>0. /\ TypeOK /\ Phases /\ Legacy /\ Exact /\ Importing /\ Loaded
      /\ ServedRight /\ ServedRight'
  BY ServedFacts, PTL DEF DurabilityInv, Store, Kept
<1>00. /\ "overlap" \notin Events /\ "d1Read" \notin Events /\ "afterImport" \notin Events
  BY DEF OrdinaryEvents, FallbackEvents
<1> USE DEF durable, memory, counters, conns
\* A step that tells the sockets nothing, and serves them nothing more.
<1>a. ASSUME synced' = synced, exchanged' = exchanged, Served' \subseteq Served,
             ~open' => doc' = {} /\ (synced = {} \/ flights' = {})
      PROVE  SyncInv'
  BY <1>a DEF SyncInv
<1>1. ASSUME NEW c \in Clients \cup {Reader}, FetchServed(c) PROVE SyncInv'
  BY <1>1, <1>a DEF FetchServed, Accept, Served, Recoverable
<1>2. ASSUME NEW c \in Clients \cup {Reader}, FetchLoads(c) PROVE SyncInv'
  <2>1. open' /\ doc' = saved /\ Served = saved
    BY <1>0, <1>2 DEF FetchLoads, LoadedDoc, Exact, ServedRight
  <2>2. Served' = doc' \/ Served' = saved'
    BY <1>0 DEF ServedRight, Served
  <2> QED
    BY <1>2, <1>a, <2>1, <2>2 DEF FetchLoads, Accept
<1>3. ASSUME NEW c \in Clients \cup {Reader}, FetchFirst(c) PROVE SyncInv'
  <2>1. /\ ~open /\ open' /\ saved' = saved
        /\ import' = [NoImport EXCEPT !.at = "row", !.by = c]
        /\ UNCHANGED conns
    BY <1>0, <1>3 DEF FetchFirst, Phases
  <2>2. import'.at # "idle"
    BY <2>1 DEF NoImport
  <2> QED
    BY <1>0, <1>a, <2>1, <2>2 DEF ServedRight
<1>4. CASE RowMissing
  <2>1. open /\ open' = open /\ Served = saved /\ doc' = {} /\ saved' = saved
    BY <1>0, <1>4 DEF RowMissing, Phases, Importing, ServedRight
  <2>2. Served' = doc' \/ Served' = saved'
    BY <1>0 DEF ServedRight, Served
  <2> QED
    BY <1>4, <1>a, <2>1, <2>2 DEF RowMissing, Accept
<1>5. CASE RowFound \/ FullPage
  <2>1. /\ import.at # "idle" /\ import'.at # "idle" /\ saved' = saved
        /\ open /\ open' = open /\ UNCHANGED conns
    BY <1>0, <1>5 DEF RowFound, FullPage, Phases, TypeOK
  <2> QED
    BY <1>0, <1>a, <2>1 DEF ServedRight
<1>6. CASE LastPage
  <2>1. open /\ open' = open /\ Served = saved /\ UNCHANGED <<synced, exchanged>>
    BY <1>0, <1>6 DEF LastPage, Accept, Phases, ServedRight
  <2>2. PICK l : ImportDone(l)
    BY <1>00, <1>6, ImportServes
  <2>3. doc' = saved /\ saved' = saved
    BY <2>2 DEF ImportDone, ImportCommits, ImportAborts
  <2>4. Served' = doc' \/ Served' = saved'
    BY <1>0 DEF ServedRight, Served
  <2> QED
    BY <1>a, <2>1, <2>3, <2>4
<1>7. CASE ReadFails
  BY <1>00, <1>7 DEF ReadFails
<1>8. CASE Alarm
  <2>1. UNCHANGED <<open, import, doc, migrated, d1, conns>>
    BY <1>8 DEF Alarm
  <2>2. CASE open /\ pending # <<>>
    <3>1. import.at = "idle"
      BY <1>0, <2>2 DEF Phases
    <3>2. Served' = Served
      BY <2>1, <2>2, <3>1 DEF Served
    <3> QED
      BY <1>a, <2>1, <2>2, <3>2
  <2>3. CASE ~(open /\ pending # <<>>)
    <3>1. UNCHANGED <<meta, log, flights>>
      BY <1>8, <2>3 DEF Alarm
    <3>2. Served' = Served
      BY <2>1, <3>1 DEF Served, Recoverable
    <3> QED
      BY <1>a, <2>1, <3>1, <3>2 DEF SyncInv
  <2> QED
    BY <2>2, <2>3
<1>9. CASE Batch
  <2>1. flights # {} /\ UNCHANGED <<open, import, doc, conns>>
    BY <1>9 DEF Batch
  <2>2. CASE open
    <3>1. import.at = "idle"
      BY <1>0, <2>1 DEF Importing
    <3> QED
      BY <1>a, <2>1, <2>2, <3>1 DEF Served
  <2>3. CASE ~open
    BY <2>1, <2>3 DEF SyncInv
  <2> QED
    BY <2>2, <2>3
<1>10. ASSUME NEW c \in Clients, NEW u \in Updates, HandleUpdate(c, u) PROVE SyncInv'
  <2>1. /\ open /\ open' /\ import.at = "idle" /\ import' = import
        /\ doc' = doc \cup u /\ synced' = synced
    BY <1>00, <1>10 DEF HandleUpdate
  <2>2. \A d \in synced : exchanged'[d] = exchanged[d] \cup u
    BY <1>0, <1>10 DEF HandleUpdate, FanOut, TypeOK
  <2> QED
    BY <2>1, <2>2 DEF SyncInv, Served
<1>11. ASSUME NEW c \in Clients, NEW u \in Updates, HandleUpdateAsleep(c, u) PROVE SyncInv'
  <2>1. \A d \in synced : exchanged[d] \subseteq exchanged'[d]
    BY <1>0, <1>11 DEF HandleUpdateAsleep, TypeOK
  <2>2. Served' = Served
    BY <1>11 DEF HandleUpdateAsleep, Served, Recoverable
  <2> QED
    BY <1>11, <2>1, <2>2 DEF HandleUpdateAsleep, SyncInv
<1>12. ASSUME NEW c \in Clients, HandleSyncStep1(c) PROVE SyncInv'
  <2>1. open /\ import.at = "idle" /\ UNCHANGED <<open, import, doc>>
    BY <1>00, <1>12 DEF HandleSyncStep1
  <2>2. exchanged'[c] = exchanged[c] \cup doc /\ \A d \in Clients \ {c} : exchanged'[d] = exchanged[d]
    BY <1>0, <1>12 DEF HandleSyncStep1, TypeOK
  <2> QED
    BY <1>0, <1>12, <2>1, <2>2 DEF HandleSyncStep1, SyncInv, TypeOK, Served
<1>13. ASSUME NEW c \in Clients, Close(c) PROVE SyncInv'
  <2>1. \A d \in Clients \ {c} : exchanged'[d] = exchanged[d]
    BY <1>0, <1>13 DEF Close, TypeOK
  <2>2. Served' = Served
    BY <1>13 DEF Close, Served, Recoverable
  <2> QED
    BY <1>0, <1>13, <2>1, <2>2 DEF Close, Leave, SyncInv, TypeOK
<1>14. CASE Crash
  BY <1>14 DEF Crash, Forget, SyncInv
<1>15. CASE Hibernate
  <2>1. /\ open /\ ~open' /\ doc' = {} /\ saved' = saved /\ UNCHANGED <<conns, flights>>
        /\ \A f \in flights : f.by = "gone"
    BY <1>15 DEF Hibernate, Forget
  <2>2. flights = {}
    BY <2>1, OneOverD1 DEF DurabilityInv
  <2>3. Served' = saved /\ saved \subseteq Served
    BY <1>0, <2>1 DEF ServedRight
  <2> QED
    BY <1>a, <2>1, <2>2, <2>3
<1>16. CASE UNCHANGED vars
  BY <1>16 DEF vars, SyncInv, Served, Recoverable
<1> QED
  BY <1>1, <1>2, <1>3, <1>4, <1>5, <1>6, <1>7, <1>8, <1>9, <1>10, <1>11, <1>12, <1>13,
     <1>14, <1>15, <1>16 DEF Next

\* A synced socket has been sent all the document holds (handleSyncStep1, handleUpdate,
\* loadLocal, importFromD1), however loads, edits, flushes and hibernation interleave.
THEOREM SocketsAreCurrent ==
    ASSUME Events \subseteq FallbackEvents
    PROVE  Spec /\ []OneBatchAtATime => []SyncedIsCurrent
<1>1. Init => SyncInv
  BY DEF Init, SyncInv
<1>2. DurabilityInv /\ DurabilityInv' /\ OneBatchAtATime /\ SyncInv /\ [Next]_vars => SyncInv'
  BY NextSynced, ConstantsAssumption
<1>3. DurabilityInv /\ SyncInv => SyncedIsCurrent
  <2> SUFFICES ASSUME DurabilityInv, SyncInv, NEW c \in synced PROVE doc \subseteq exchanged[c]
    BY DEF SyncedIsCurrent
  <2>1. CASE open /\ import.at = "idle"
    BY <2>1 DEF SyncInv, Served
  <2>2. CASE import.at # "idle"
    <3>1. doc \subseteq saved
      BY <2>2 DEF DurabilityInv, Store, TypeOK, Phases, Kept, Importing, Exact, InD1, EditsOf
    <3>2. saved \subseteq Served
      BY ServedFacts DEF ServedRight
    <3> QED
      BY <3>1, <3>2 DEF SyncInv
  <2>3. CASE ~open
    BY <2>3 DEF SyncInv
  <2> QED
    BY <2>1, <2>2, <2>3
<1> QED
  BY <1>1, <1>2, <1>3, Durability, PTL DEF Spec

-----------------------------------------------------------------------------
(* When batches do not overlap.                                            *)

\* Without failures of the import or of D1 the object never falls back.
NeverFallsBack == ~fallback /\ flights = {}

LEMMA NextNeverFallsBack ==
    ASSUME ConstantsAssumption, Events \subseteq OrdinaryEvents, DurabilityInv,
           NeverFallsBack, [Next]_vars
    PROVE  NeverFallsBack'
<1>0. "importWrite" \notin Events /\ "afterImport" \notin Events
  BY DEF OrdinaryEvents
<1> USE DEF durable, memory, counters, conns, NeverFallsBack
<1>1. ASSUME NEW c \in Clients \cup {Reader}, FetchServed(c) \/ FetchLoads(c) \/ FetchFirst(c)
      PROVE  NeverFallsBack'
  BY <1>1 DEF FetchServed, FetchLoads, FetchFirst
<1>2. CASE RowMissing \/ RowFound \/ FullPage \/ ReadFails
  <2>1. fallback' = fallback /\ flights' = flights
    BY <1>2 DEF RowMissing, RowFound, FullPage, ReadFails
  <2> QED
    BY <2>1
<1>3. CASE LastPage
  <2>1. PICK l : ImportDone(l)
    BY <1>0, <1>3, ImportServes
  <2> QED
    BY <1>0, <1>3, <2>1 DEF LastPage, ImportDone, ImportCommits
<1>4. CASE Alarm \/ Batch
  BY <1>4 DEF Alarm, Batch, PersistUpdates
<1>5. ASSUME NEW c \in Clients, NEW u \in Updates, HandleUpdate(c, u)
      PROVE  NeverFallsBack'
  BY <1>5 DEF HandleUpdate, PersistUpdates
<1>6. ASSUME NEW c \in Clients,
             \/ \E u \in Updates : HandleUpdateAsleep(c, u)
             \/ HandleSyncStep1(c)
             \/ Close(c)
      PROVE  NeverFallsBack'
  BY <1>6 DEF HandleUpdateAsleep, HandleSyncStep1, Close
<1>7. CASE Crash \/ Hibernate
  BY <1>7 DEF Crash, Hibernate, Forget
<1>8. CASE UNCHANGED vars
  BY <1>8 DEF vars
<1> QED
  BY <1>1, <1>2, <1>3, <1>4, <1>5, <1>6, <1>7, <1>8 DEF Next

\* A queue that could hold every edit there will be never fills up, because a client sends
\* only what the document lacks: no flush is forced, the alarm waits for its batch, and
\* an instance that awaits one does not hibernate.  Only an eviction leaves a batch behind.
NothingForced ==
    /\ Events \subseteq FallbackEvents \ {"crash"}
    /\ IsFiniteSet(Edits)
    /\ Cardinality(Edits) <= MaxPending

OnlyTheAlarms ==
    /\ \A f, g \in flights : f = g
    /\ \A f \in flights : f.by = "alarm"
    /\ Len(pending) <= Cardinality(doc)

LEMMA DocGrows ==
    ASSUME IsFiniteSet(Edits), doc \subseteq Edits, doc \subseteq doc', doc' \subseteq Edits
    PROVE  /\ Cardinality(doc) \in Nat /\ Cardinality(doc') \in Nat
           /\ Cardinality(doc) <= Cardinality(doc') /\ Cardinality(doc') <= Cardinality(Edits)
           /\ Cardinality(Edits) \in Nat
           /\ doc # doc' => Cardinality(doc) < Cardinality(doc')
<1>1. IsFiniteSet(doc) /\ IsFiniteSet(doc')
  BY FS_Subset
<1> QED
  BY <1>1, FS_CardinalityType, FS_Subset

LEMMA NextOnlyTheAlarms ==
    ASSUME ConstantsAssumption, NothingForced, Store, Store', OnlyTheAlarms, [Next]_vars
    PROVE  OnlyTheAlarms'
<1>0. /\ Phases /\ doc \subseteq Edits /\ doc' \subseteq Edits /\ MaxPending \in Nat
      /\ IsFiniteSet(Edits) /\ Cardinality(Edits) <= MaxPending
      /\ pending \in Seq(Updates) /\ \A f \in flights : f \in Flights
  BY DEF Store, TypeOK, ConstantsAssumption, NothingForced
<1>00. /\ "overlap" \notin Events /\ "d1Read" \notin Events
       /\ "crash" \notin Events
  BY DEF NothingForced, FallbackEvents, OrdinaryEvents
<1> USE DEF durable, memory, counters, conns
\* A step that sends nothing, and leaves the queue or empties it.
<1>a. ASSUME flights' = flights,
             (pending' = pending /\ doc \subseteq doc') \/ pending' = <<>>
      PROVE  OnlyTheAlarms'
  <2>1. CASE pending' = <<>>
    <3>1. Cardinality(doc') \in Nat
      BY <1>0, FS_Subset, FS_CardinalityType
    <3> QED
      BY <1>a, <2>1, <3>1 DEF OnlyTheAlarms
  <2>2. CASE pending' = pending /\ doc \subseteq doc'
    BY <1>0, <1>a, <2>2, DocGrows DEF OnlyTheAlarms
  <2> QED
    BY <1>a, <2>1, <2>2
<1>1. ASSUME NEW c \in Clients \cup {Reader}, FetchServed(c) \/ FetchLoads(c) \/ FetchFirst(c)
      PROVE  OnlyTheAlarms'
  <2>1. flights' = flights /\ pending' = pending /\ (open => doc' = doc)
    BY <1>1 DEF FetchServed, FetchLoads, FetchFirst
  <2> QED
    BY <1>0, <1>a, <2>1 DEF Phases
<1>2. CASE RowMissing \/ RowFound \/ FullPage \/ LastPage
  <2>1. flights' = flights /\ pending' = pending /\ doc \subseteq doc'
    BY <1>2 DEF RowMissing, RowFound, FullPage, LastPage
  <2> QED
    BY <1>a, <2>1
<1>3. CASE ReadFails \/ Crash
  BY <1>00, <1>3 DEF ReadFails, Crash
<1>3h. CASE Hibernate
  <2>1. flights' = flights /\ pending' = <<>>
    BY <1>3h DEF Hibernate, Forget
  <2> QED
    BY <1>a, <2>1
<1>4. CASE Alarm
  <2>1. flights = {} /\ pending' = <<>>
    BY <1>4 DEF Alarm, OnlyTheAlarms
  <2>2. PICK f : f = [op |-> "flush", by |-> "alarm", rows |-> NewRows, snap |-> {}]
    OBVIOUS
  <2>3. flights' = {} \/ flights' = {f}
    BY <1>4, <2>1, <2>2 DEF Alarm, PersistUpdates, FlushSends
  <2>4. f.by = "alarm"
    BY <2>2
  <2>5. Cardinality(doc') \in Nat /\ Len(pending') = 0
    BY <1>0, <2>1, FS_Subset, FS_CardinalityType
  <2>6. Len(pending') <= Cardinality(doc')
    BY <2>5
  <2> QED
    BY <2>3, <2>4, <2>6 DEF OnlyTheAlarms
<1>5. CASE Batch
  <2>1. PICK f \in flights : FlushAnswered(f) \/ CompactAnswered(f) \/ BatchUnanswered(f)
    BY <1>5 DEF Batch
  <2>2. doc' = doc /\ pending' = pending
    BY <1>5 DEF Batch
  <2>3. flights \ {f} = {} /\ f \in Flights /\ f.by = "alarm"
    BY <1>0 DEF OnlyTheAlarms
  <2>4. flights' = {} \/ flights' = {[f EXCEPT !.op = "compact", !.snap = doc]}
    BY <2>1, <2>3 DEF FlushAnswered, CompactAnswered, BatchUnanswered
  <2>5. [f EXCEPT !.op = "compact", !.snap = doc].by = "alarm"
    BY <2>3 DEF Flights
  <2> QED
    BY <2>2, <2>4, <2>5 DEF OnlyTheAlarms
<1>6. ASSUME NEW c \in Clients, NEW u \in Updates, HandleUpdate(c, u)
      PROVE  OnlyTheAlarms'
  <2>1. doc' = doc \cup u /\ ~(u \subseteq doc)
    BY <1>6 DEF HandleUpdate
  <2>2. /\ Cardinality(doc) < Cardinality(doc')
        /\ Cardinality(doc') <= Cardinality(Edits)
        /\ Cardinality(doc) \in Nat /\ Cardinality(doc') \in Nat
        /\ Cardinality(Edits) \in Nat
    BY <1>0, <2>1, DocGrows
  <2>3. Len(pending) \in Nat /\ Len(pending) <= Cardinality(doc)
    BY <1>0 DEF OnlyTheAlarms
  <2>4. Len(pending) < MaxPending
    BY <1>0, <2>2, <2>3
  <2>5. pending' = Append(pending, u) /\ flights' = flights
    BY <1>6, <2>4 DEF HandleUpdate
  <2>6. Len(pending') = Len(pending) + 1
    BY <1>0, <2>5
  <2>7. Len(pending') <= Cardinality(doc')
    BY <2>2, <2>3, <2>6
  <2> QED
    BY <2>5, <2>7 DEF OnlyTheAlarms
<1>7. ASSUME NEW c \in Clients,
             \/ \E u \in Updates : HandleUpdateAsleep(c, u)
             \/ HandleSyncStep1(c)
             \/ Close(c)
      PROVE  OnlyTheAlarms'
  <2>1. flights' = flights /\ pending' = pending /\ doc' = doc
    BY <1>7 DEF HandleUpdateAsleep, HandleSyncStep1, Close
  <2> QED
    BY <1>a, <2>1
<1>8. CASE UNCHANGED vars
  BY <1>8, <1>a DEF vars
<1> QED
  BY <1>1, <1>2, <1>3, <1>3h, <1>4, <1>5, <1>6, <1>7, <1>8 DEF Next

\* Batches do not overlap in an object that keeps to its own store, nor in one
\* that is not evicted and whose queue never fills up (persistUpdates, handleUpdate).
THEOREM BatchesAreAlone ==
    ASSUME Events \subseteq OrdinaryEvents \/ NothingForced
    PROVE  Spec => []OneBatchAtATime
<1>1. ASSUME Events \subseteq OrdinaryEvents
      PROVE  Spec => []OneBatchAtATime
  <2>1. Init => DurabilityInv /\ NeverFallsBack
    BY InitDurability DEF Init, NeverFallsBack
  <2>2. DurabilityInv /\ NeverFallsBack /\ [Next]_vars => DurabilityInv' /\ NeverFallsBack'
    <3> SUFFICES ASSUME DurabilityInv, NeverFallsBack, [Next]_vars
                 PROVE  DurabilityInv' /\ NeverFallsBack'
      OBVIOUS
    <3>1. NeverFallsBack'
      BY <1>1, NextNeverFallsBack, ConstantsAssumption
    <3>2. OneBatchAtATime /\ OneBatchAtATime'
      BY <3>1 DEF NeverFallsBack, OneBatchAtATime
    <3>3. Events \subseteq FallbackEvents
      BY <1>1 DEF FallbackEvents
    <3> QED
      BY <3>1, <3>2, <3>3, NextDurability, ConstantsAssumption
  <2>3. NeverFallsBack => OneBatchAtATime
    BY DEF NeverFallsBack, OneBatchAtATime
  <2> QED
    BY <2>1, <2>2, <2>3, PTL DEF Spec
<1>2. ASSUME NothingForced
      PROVE  Spec => []OneBatchAtATime
  <2>0. Events \subseteq FallbackEvents
    BY <1>2 DEF NothingForced, OrdinaryEvents, FallbackEvents
  <2>1. Init => OnlyTheAlarms
    BY FS_EmptySet DEF Init, OnlyTheAlarms
  <2>2. Store /\ Store' /\ OnlyTheAlarms /\ [Next]_vars => OnlyTheAlarms'
    BY <1>2, NextOnlyTheAlarms, ConstantsAssumption
  <2>3. OnlyTheAlarms => OneBatchAtATime
    BY DEF OnlyTheAlarms, OneBatchAtATime
  <2>4. Spec => []Store
    BY <2>0, StoreInvariant
  <2> QED
    BY <2>1, <2>2, <2>3, <2>4, PTL DEF Spec
<1> QED
  BY <1>1, <1>2

\* There the document keeps all its promises, whatever clients do: saved edits survive
\* (persistUpdates, maybeCompactSnapshot and their D1 twins), readers are served all of
\* them (initializeDoc), sockets miss none (handleUpdate), and the object implements
\* DurableDocument.
THEOREM PromisesAreKept ==
    ASSUME Events \subseteq OrdinaryEvents \/ NothingForced
    PROVE  Spec => /\ []SavedIsKept /\ []ServedIsComplete /\ []SyncedIsCurrent
                   /\ ImplementsDurableDocument
<1>1. Events \subseteq FallbackEvents
  BY DEF NothingForced, OrdinaryEvents, FallbackEvents
<1> QED
  BY <1>1, BatchesAreAlone, HistoryIsKept, ServingIsComplete, SocketsAreCurrent, Refinement, PTL
=============================================================================
