---------------------------- MODULE CrewRunsProofs ----------------------------
(***************************************************************************)
(* Proofs about CrewRuns, for every number of wakes, requests, ticks and   *)
(* runs, every cap and every number of killed invocations.                 *)
(***************************************************************************)
EXTENDS CrewRuns, TLAPS

-----------------------------------------------------------------------------
(* The trigger's occurrences, under every event of the environment.        *)

Times == 1..MaxOccurrences + MaxRuns + 1

\* next_run_at only moves on, and what it has not reached nobody has taken.
ClaimsInv ==
    /\ trigger \in [next : Nat, due : BOOLEAN, overdue : BOOLEAN]
    /\ taken \in [Times -> Nat]
    /\ \A n \in Times : taken[n] <= 1 /\ (trigger.next <= n => taken[n] = 0)

\* What every step but Take does to the trigger: nothing, a new next_run_at, or the
\* clock's.
TriggerMoves ==
    /\ UNCHANGED taken
    /\ \/ UNCHANGED trigger
       \/ SetNextRun
       \/ trigger' = [trigger EXCEPT !.due = TRUE]
       \/ trigger' = [trigger EXCEPT !.overdue = TRUE]

LEMMA TriggerMovesKeeps == ClaimsInv /\ TriggerMoves => ClaimsInv'
<1> SUFFICES ASSUME ClaimsInv, TriggerMoves PROVE ClaimsInv'
  OBVIOUS
<1>1. PICK n \in Nat, d \in BOOLEAN, o \in BOOLEAN :
          trigger = [next |-> n, due |-> d, overdue |-> o]
  BY DEF ClaimsInv
<1>2. \E m \in {n, n + 1}, e \in BOOLEAN, w \in BOOLEAN :
          trigger' = [next |-> m, due |-> e, overdue |-> w]
  <2>1. CASE UNCHANGED trigger
    BY <1>1, <2>1
  <2>2. CASE SetNextRun
    BY <1>1, <2>2 DEF SetNextRun
  <2>3. CASE trigger' = [trigger EXCEPT !.due = TRUE]
    <3>1. trigger' = [next |-> n, due |-> TRUE, overdue |-> o]
      BY <1>1, <2>3
    <3> QED
      BY <3>1
  <2>4. CASE trigger' = [trigger EXCEPT !.overdue = TRUE]
    <3>1. trigger' = [next |-> n, due |-> d, overdue |-> TRUE]
      BY <1>1, <2>4
    <3> QED
      BY <3>1
  <2> QED
    BY <2>1, <2>2, <2>3, <2>4 DEF TriggerMoves
<1>3. /\ trigger' \in [next : Nat, due : BOOLEAN, overdue : BOOLEAN]
      /\ trigger.next <= trigger'.next
  BY <1>1, <1>2
<1> QED
  BY <1>3, CrewRunsAssumption DEF ClaimsInv, TriggerMoves, Times

LEMMA NextClaims == ClaimsInv /\ [Next]_vars => ClaimsInv'
<1> SUFFICES ASSUME ClaimsInv, [Next]_vars PROVE ClaimsInv'
  OBVIOUS
<1>1. ASSUME NEW p \in Procs, Take(p) PROVE ClaimsInv'
  <2>1. CASE Unclaimed(p)
    <3>0. PICK n \in Nat : trigger.next = n
      BY DEF ClaimsInv
    <3>1. /\ trigger' = [next |-> n + 1, due |-> FALSE, overdue |-> FALSE]
          /\ taken' = [taken EXCEPT ![n] = @ + 1]
      BY <1>1, <2>1, <3>0 DEF Take, Unclaimed, SetNextRun
    <3>2. \A i \in Times : taken'[i] = IF i = n THEN taken[i] + 1 ELSE taken[i]
      BY <3>1 DEF ClaimsInv
    <3>3. taken' \in [Times -> Nat]
      <4>1. CASE n \in Times
        BY <4>1, <3>1 DEF ClaimsInv
      <4>2. CASE n \notin Times
        BY <4>2, <3>1 DEF ClaimsInv
      <4> QED
        BY <4>1, <4>2
    <3>4. /\ trigger' \in [next : Nat, due : BOOLEAN, overdue : BOOLEAN]
          /\ trigger'.next = n + 1
      BY <3>1
    <3>5. ASSUME NEW i \in Times
          PROVE  taken'[i] <= 1 /\ (n + 1 <= i => taken'[i] = 0)
      <4>1. i \in Nat
        BY CrewRunsAssumption DEF Times
      <4> QED
        BY <3>0, <3>2, <3>5, <4>1 DEF ClaimsInv
    <3> QED
      BY <3>3, <3>4, <3>5, CrewRunsAssumption DEF ClaimsInv, Times
  <2>2. CASE ~Unclaimed(p)
    <3>1. TriggerMoves
      BY <1>1, <2>2 DEF Take, TriggerMoves
    <3> QED
      BY <3>1, TriggerMovesKeeps
  <2> QED
    BY <2>1, <2>2
<1>2. ASSUME NEW p \in Procs, Proceed(p), ~Take(p) PROVE TriggerMoves
  <2>1. CASE Dispatch(p)
    BY <2>1 DEF Dispatch, TriggerMoves, history
  <2>2. CASE Check(p)
    BY <2>2 DEF Check, TriggerMoves, history
  <2>3. CASE Create(p)
    BY <2>3 DEF Create, TriggerMoves
  <2>4. CASE CreateThrows(p)
    BY <2>4 DEF CreateThrows, TriggerMoves, history
  <2>5. CASE Count(p) \/ Insert(p)
    BY <2>5 DEF Count, Insert, TriggerMoves, history
  <2>6. CASE Finish(p)
    BY <2>6 DEF Finish, TriggerMoves, history
  <2>7. CASE After(p)
    BY <2>7 DEF After, TriggerMoves, history
  <2>8. CASE Drain(p) \/ Slot(p) \/ Pick(p)
    BY <2>8 DEF Drain, Slot, Pick, TriggerMoves, history
  <2>9. CASE Claim(p) \/ Begin(p) \/ BeginFails(p)
    BY <2>9 DEF Claim, Begin, BeginFails, TriggerMoves, history
  <2>10. CASE Trigger(p)
    BY <2>10 DEF Trigger, TriggerMoves, history
  <2> QED
    BY <1>2, <2>1, <2>2, <2>3, <2>4, <2>5, <2>6, <2>7, <2>8, <2>9, <2>10 DEF Proceed
<1>3. ASSUME NEW p \in Procs, EmitEvent(p) \/ Request(p) \/ TickStart(p) \/ ToolCall(p) \/ Kill(p)
      PROVE  TriggerMoves
  BY <1>3 DEF EmitEvent, Request, TickStart, ToolCall, Kill, TriggerMoves, history
<1>4. ASSUME NEW r \in Runs, GoesStale(r) \/ WaitsTooLong(r) PROVE TriggerMoves
  BY <1>4 DEF GoesStale, WaitsTooLong, TriggerMoves, history
<1>5. CASE CoolsDown
  BY <1>5, TriggerMovesKeeps DEF CoolsDown, TriggerMoves, history
<1>6. CASE ComesDue
  BY <1>6, TriggerMovesKeeps DEF ComesDue, TriggerMoves, history
<1>7. CASE UNCHANGED vars
  BY <1>7, TriggerMovesKeeps DEF TriggerMoves, vars, history
<1> QED
  BY <1>1, <1>2, <1>3, <1>4, <1>5, <1>6, <1>7, TriggerMovesKeeps DEF Next, Procs

\* An occurrence of the scheduled trigger is dispatched once, however many ticks
\* overlap, are killed or fail (triggers.ts, claimTrigger).
THEOREM OccurrencesOnce == Spec => []OccurrenceOnce
<1>1. Init => ClaimsInv
  BY CrewRunsAssumption DEF Init, ClaimsInv, Times
<1>2. ClaimsInv /\ [Next]_vars => ClaimsInv'
  BY NextClaims
<1>3. ClaimsInv => OccurrenceOnce
  BY DEF ClaimsInv, OccurrenceOnce, Times
<1> QED
  BY <1>1, <1>2, <1>3, PTL DEF Spec
-----------------------------------------------------------------------------
(* Types.  An invocation that is nowhere has drained nothing, one that may *)
(* start a drain has had at most one, and one that is about to change a    *)
(* row knows which.                                                        *)

RowTypes ==
    /\ status \in [Runs -> {"none", "queued", "running", "done", "error"}]
    /\ kind \in [Runs -> {"event", "manual", TriggerKind}]
    /\ requeued \subseteq Runs /\ tooled \subseteq Runs
    /\ IsTotalOrder(ahead, Queued)
    /\ stale \subseteq Running
    /\ expired \subseteq Queued

Busy == {"begin", "exec", "after"}
Places == Busy \cup {"idle", "dispatch", "check", "create", "count", "insert", "drain",
                     "slot", "pick", "claim", "trigger", "take"}
Locals == [run : 0..MaxRuns, acts : BOOLEAN, seen : Nat, overdue : BOOLEAN, drains : 0..2,
           triggered : BOOLEAN, ran : BOOLEAN]

\* What an invocation at a place has in its local state.
Fits(place, l) ==
    /\ place = "idle" => l.drains = 0
    /\ place \in {"drain", "trigger", "take"} => l.drains <= 1
    /\ place \in {"claim", "begin", "exec", "after"} => l.run \in Runs

LocalTypes ==
    /\ pc \in [Procs -> Places]
    /\ local \in [Procs -> Locals]
    /\ \A p \in Procs : Fits(pc[p], local[p])

CountTypes ==
    /\ cooling \in BOOLEAN
    /\ trigger \in [next : Nat, due : BOOLEAN, overdue : BOOLEAN]
    /\ kills \in 0..MaxKills
    /\ begun \in [Runs -> Nat] /\ acted \in [Runs -> Nat]
    /\ taken \in [1..MaxOccurrences + MaxRuns + 1 -> Nat]

Types == RowTypes /\ LocalTypes /\ CountTypes

\* The order of what is left of the queue, and of two queues one behind the other.
LEMMA OrderOfSome ==
    ASSUME NEW o, NEW S, NEW T \in SUBSET S, IsTotalOrder(o, S)
    PROVE  IsTotalOrder(o \cap (T \X T), T)
BY DEF IsTotalOrder

LEMMA OrderOfBoth ==
    ASSUME NEW o, NEW S, IsTotalOrder(o, S), NEW n, NEW T, IsTotalOrder(n, T),
           S \cap T = {}
    PROVE  IsTotalOrder(o \cup S \X T \cup n, S \cup T)
BY DEF IsTotalOrder

LEMMA OrderOfOne ==
    ASSUME NEW r
    PROVE  IsTotalOrder({}, {r})
BY DEF IsTotalOrder

LEMMA ReapTypes ==
    ASSUME RowTypes, NEW old \in SUBSET expired, ReapAndExpire(old)
    PROVE  RowTypes'
<1>1. BackToQueue \subseteq stale /\ BackToQueue \subseteq Runs /\ old \subseteq Queued
  BY DEF BackToQueue, SecondChance, RowTypes
<1>2. Queued' = (Queued \ old) \cup BackToQueue
  BY <1>1 DEF RowTypes, ReapAndExpire, Queued, Running, Abandoned
<1>3. IsTotalOrder(RowsLeft(old), Queued \ old)
  BY OrderOfSome DEF RowTypes, RowsLeft
<1>4. IsTotalOrder(ahead', Queued')
  <2>1. PICK o : /\ IsTotalOrder(o, BackToQueue)
                 /\ ahead' = RowsLeft(old) \cup (Queued \ old) \X BackToQueue \cup o
    BY DEF ReapAndExpire, Orders
  <2>2. (Queued \ old) \cap BackToQueue = {}
    BY <1>1 DEF RowTypes, Queued, Running
  <2> QED
    BY <1>2, <1>3, <2>1, <2>2, OrderOfBoth
<1>5. status' \in [Runs -> {"none", "queued", "running", "done", "error"}]
  BY DEF RowTypes, ReapAndExpire
<1>6. requeued' \subseteq Runs
  BY <1>1 DEF RowTypes, ReapAndExpire
<1>7. expired' \subseteq Queued'
  BY <1>2 DEF RowTypes, ReapAndExpire
<1> QED
  BY <1>4, <1>5, <1>6, <1>7 DEF RowTypes, ReapAndExpire

LEMMA RowAddsTypes ==
    ASSUME RowTypes, NEW r \in Runs, NEW s \in {"running", "queued"},
           NEW k \in {"event", "manual", TriggerKind}, Row(r, s, k)
    PROVE  RowTypes'
<1>1. status[r] = "none"
  BY DEF Row, Fresh
<1>2. Queued' = Queued \cup (IF s = "queued" THEN {r} ELSE {}) /\ Running \subseteq Running'
  BY <1>1 DEF Row, RowTypes, Queued, Running
<1>3. IsTotalOrder(ahead', Queued')
  <2>1. CASE s = "queued"
    <3>1. IsTotalOrder(ahead \cup Queued \X {r} \cup {}, Queued \cup {r})
      <4>1. Queued \cap {r} = {}
        BY <1>1 DEF Queued
      <4> QED
        BY <4>1, OrderOfOne, OrderOfBoth DEF RowTypes
    <3> QED
      BY <1>2, <2>1, <3>1 DEF Row
  <2>2. CASE s # "queued"
    BY <1>2, <2>2 DEF Row, RowTypes
  <2> QED
    BY <2>1, <2>2
<1> QED
  BY <1>2, <1>3 DEF Row, RowTypes

\* A row that leaves the queue, or was not in it.
LEMMA LeavesQueue ==
    ASSUME RowTypes, NEW r \in Runs, NEW s \in {"running", "done", "error"},
           status' = [status EXCEPT ![r] = s],
           ahead' = RowsLeft({r}), stale' = stale \ {r}, expired' = expired \ {r},
           requeued' \subseteq requeued, UNCHANGED <<kind, tooled>>
    PROVE  RowTypes'
<1>1. Queued' = Queued \ {r} /\ Running \ {r} \subseteq Running'
  BY DEF RowTypes, Queued, Running
<1>2. IsTotalOrder(ahead', Queued')
  BY <1>1, OrderOfSome DEF RowTypes, RowsLeft
<1> QED
  BY <1>1, <1>2 DEF RowTypes

LEMMA FinalizeTypes ==
    ASSUME RowTypes, NEW r \in Runs, NEW s \in {"done", "error"}, Finalize(r, s)
    PROVE  RowTypes'
BY LeavesQueue DEF Finalize

LEMMA RowsStay ==
    ASSUME RowTypes, UNCHANGED rows
    PROVE  RowTypes'
BY DEF RowTypes, rows, Queued, Running

\* An invocation goes somewhere, with what it needs there.
LEMMA MoveTypes ==
    ASSUME LocalTypes, NEW p \in Procs, NEW place \in Places, Go(p, place),
           NEW l \in Locals, local' = [local EXCEPT ![p] = l], Fits(place, l)
    PROVE  LocalTypes'
BY DEF LocalTypes, Go

LEMMA GoTypes ==
    ASSUME LocalTypes, NEW p \in Procs, NEW place \in Places, Go(p, place),
           UNCHANGED local, Fits(place, local[p])
    PROVE  LocalTypes'
BY DEF LocalTypes, Go

LEMMA LeaveTypes ==
    ASSUME LocalTypes, NEW p \in Procs, Leave(p)
    PROVE  LocalTypes'
<1>1. CASE p \notin Ticks
  <2>1. NoLocal \in Locals /\ Fits("idle", NoLocal)
    BY CrewRunsAssumption DEF NoLocal, Locals, Fits
  <2> QED
    BY <1>1, <2>1, MoveTypes DEF Leave, Places, Busy
<1>2. CASE p \in Ticks
  <2> DEFINE l == [local[p] EXCEPT !.run = 0, !.acts = FALSE, !.triggered = FALSE]
             place == IF local[p].drains = 1 /\ local[p].triggered THEN "drain" ELSE "slot"
  <2>1. l \in Locals /\ l.drains = local[p].drains
    <3>1. local[p] \in Locals /\ 0 \in 0..MaxRuns
      BY CrewRunsAssumption DEF LocalTypes
    <3> QED
      BY <3>1 DEF Locals
  <2>2. Fits(place, l) /\ place \in Places
    BY <2>1 DEF Fits, Places, Busy
  <2>3. Go(p, place) /\ local' = [local EXCEPT ![p] = l]
    BY <1>2 DEF Leave
  <2> HIDE DEF l, place
  <2> QED
    BY <2>1, <2>2, <2>3, MoveTypes
<1> QED
  BY <1>1, <1>2

LEMMA EndDrainTypes ==
    ASSUME LocalTypes, NEW p \in Procs, NEW n, EndDrain(p, n)
    PROVE  LocalTypes'
<1>1. CASE n = 1
  <2> DEFINE l == [local[p] EXCEPT !.drains = 1]
  <2>1. l \in Locals /\ l.drains = 1
    BY DEF LocalTypes, Locals
  <2>2. Fits("trigger", l)
    BY <2>1 DEF Fits
  <2>3. local' = [local EXCEPT ![p] = l] /\ Go(p, "trigger")
    BY <1>1 DEF EndDrain
  <2> HIDE DEF l
  <2> QED
    BY <2>1, <2>2, <2>3, MoveTypes DEF Places, Busy
<1>2. CASE n # 1
  <2>1. NoLocal \in Locals /\ Fits("idle", NoLocal)
    BY CrewRunsAssumption DEF NoLocal, Locals, Fits
  <2> QED
    BY <1>2, <2>1, MoveTypes DEF EndDrain, Places, Busy
<1> QED
  BY <1>1, <1>2

LEMMA NextDrainTypes ==
    ASSUME LocalTypes, NEW p \in Procs, local[p].drains <= 1, NextDrain(p)
    PROVE  LocalTypes'
<1> DEFINE l == [local[p] EXCEPT !.seen = 0]
<1>1. l \in Locals /\ l.drains = local[p].drains
  BY DEF LocalTypes, Locals
<1>2. Fits("drain", l)
  BY <1>1 DEF Fits
<1>3. local' = [local EXCEPT ![p] = l] /\ Go(p, "drain")
  BY DEF NextDrain
<1> HIDE DEF l
<1> QED
  BY <1>1, <1>2, <1>3, MoveTypes DEF Places, Busy

LEMMA SetNextRunTypes ==
    ASSUME CountTypes, SetNextRun
    PROVE  trigger' \in [next : Nat, due : BOOLEAN, overdue : BOOLEAN]
BY DEF CountTypes, SetNextRun

LEMMA NextTypes == Types /\ [Next]_vars => Types'
<1> SUFFICES ASSUME Types, [Next]_vars PROVE Types'
  OBVIOUS
<1> USE DEF Types
<1>1. ASSUME NEW p \in Procs, Dispatch(p) \/ Check(p) \/ CreateThrows(p) \/ Count(p)
      PROVE  Types'
  <2>1. RowTypes'
    <3>1. CASE Dispatch(p)
      BY <3>1, ReapTypes, RowsStay DEF Dispatch, Reap
    <3>2. CASE ~Dispatch(p)
      BY <1>1, <3>2, RowsStay DEF Check, CreateThrows, Count
    <3> QED
      BY <3>1, <3>2
  <2>2. LocalTypes'
    <3>1. \A place \in {"check", "create", "count", "insert"} :
              place \in Places /\ Fits(place, local[p])
      BY DEF Places, Busy, Fits
    <3>2. \/ Leave(p)
          \/ \E place \in {"check", "create", "count", "insert"} : Go(p, place) /\ UNCHANGED local
      BY <1>1 DEF Dispatch, Check, CreateThrows, Count
    <3> QED
      BY <3>1, <3>2, GoTypes, LeaveTypes
  <2>3. CountTypes'
    BY <1>1, SetNextRunTypes DEF Dispatch, Check, CreateThrows, Count, CountTypes, history
  <2> QED
    BY <2>1, <2>2, <2>3
<1>2. ASSUME NEW p \in Procs, Create(p) PROVE Types'
  <2>1. PICK r \in Runs : /\ Row(r, "running", KindOf(p))
                          /\ local' = [local EXCEPT ![p].run = r, ![p].ran = TRUE]
                          /\ begun' = [begun EXCEPT ![r] = @ + 1]
    BY <1>2 DEF Create
  <2>2. RowTypes'
    BY <2>1, RowAddsTypes DEF KindOf
  <2>3. LocalTypes'
    <3> DEFINE l == [local[p] EXCEPT !.run = r, !.ran = TRUE]
    <3>1. l \in Locals /\ l.run = r
      <4>1. local[p] \in Locals /\ r \in 0..MaxRuns
        BY CrewRunsAssumption DEF LocalTypes, Runs
      <4> QED
        BY <4>1 DEF Locals
    <3>2. Fits("exec", l)
      BY <3>1 DEF Fits
    <3>3. local' = [local EXCEPT ![p] = l] /\ Go(p, "exec")
      BY <1>2, <2>1 DEF Create, LocalTypes
    <3> HIDE DEF l
    <3> QED
      BY <3>1, <3>2, <3>3, MoveTypes DEF Places, Busy
  <2>4. CountTypes'
    BY <1>2, <2>1 DEF Create, CountTypes
  <2> QED
    BY <2>2, <2>3, <2>4
<1>3. ASSUME NEW p \in Procs, Insert(p) PROVE Types'
  BY <1>3, RowAddsTypes, LeaveTypes DEF Insert, CountTypes, history
<1>4. ASSUME NEW p \in Procs, ToolCall(p) PROVE Types'
  <2>1. local[p].run \in Runs
    BY <1>4 DEF ToolCall, LocalTypes, Fits
  <2>2. RowTypes'
    BY <1>4, <2>1 DEF ToolCall, RowTypes, Queued, Running
  <2>3. LocalTypes'
    <3> DEFINE l == [local[p] EXCEPT !.acts = TRUE]
    <3>1. l \in Locals /\ l.run = local[p].run
      BY DEF LocalTypes, Locals
    <3>2. /\ Fits("exec", l) /\ pc[p] = "exec" /\ pc' = pc
          /\ local' = [local EXCEPT ![p] = l]
      BY <1>4, <2>1, <3>1 DEF Fits, ToolCall
    <3> HIDE DEF l
    <3> QED
      BY <3>1, <3>2 DEF LocalTypes
  <2>4. CountTypes'
    BY <1>4, <2>1 DEF ToolCall, CountTypes
  <2> QED
    BY <2>2, <2>3, <2>4
<1>5. ASSUME NEW p \in Procs, Finish(p) \/ After(p) PROVE Types'
  <2>1. local[p].run \in Runs
    BY <1>5 DEF Finish, After, LocalTypes, Fits
  <2>2. RowTypes'
    BY <1>5, <2>1, FinalizeTypes, RowsStay DEF Finish, After
  <2>3. LocalTypes'
    <3>1. CASE Finish(p)
      BY <2>1, <3>1, GoTypes DEF Finish, Fits, Places, Busy
    <3>2. CASE After(p)
      BY <3>2, LeaveTypes DEF After
    <3> QED
      BY <1>5, <3>1, <3>2
  <2>4. CountTypes'
    BY <1>5, SetNextRunTypes DEF Finish, After, CountTypes, history
  <2> QED
    BY <2>2, <2>3, <2>4
<1>6. ASSUME NEW p \in Procs, TickStart(p) PROVE Types'
  <2>1. RowTypes'
    BY <1>6, ReapTypes DEF TickStart, Reap
  <2>2. LocalTypes'
    <3> DEFINE seen == IF trigger.due THEN trigger.next ELSE 0
               l == [local[p] EXCEPT !.seen = seen, !.overdue = trigger.overdue]
    <3>1. seen \in Nat /\ trigger.overdue \in BOOLEAN
      BY DEF CountTypes
    <3>2. l \in Locals /\ l.drains = local[p].drains
      <4>1. local[p] \in Locals
        BY DEF LocalTypes
      <4> HIDE DEF seen
      <4> QED
        BY <3>1, <4>1 DEF Locals
    <3>3. local[p].drains = 0
      BY <1>6 DEF TickStart, LocalTypes, Fits
    <3>4. Fits("drain", l)
      BY <3>2, <3>3 DEF Fits
    <3>5. local' = [local EXCEPT ![p] = l] /\ Go(p, "drain")
      BY <1>6 DEF TickStart, LocalTypes
    <3> HIDE DEF l
    <3> QED
      BY <3>2, <3>4, <3>5, MoveTypes DEF Places, Busy
  <2>3. CountTypes'
    BY <1>6 DEF TickStart, CountTypes, history
  <2> QED
    BY <2>1, <2>2, <2>3
<1>7. ASSUME NEW p \in Procs, Drain(p) PROVE Types'
  <2>1. RowTypes'
    BY <1>7, ReapTypes, RowsStay DEF Drain
  <2>2. LocalTypes'
    <3>1. CASE HasQueued
      <4> DEFINE l == [local[p] EXCEPT !.drains = @ + 1]
      <4>1. local[p] \in Locals /\ local[p].drains <= 1
        BY <1>7 DEF Drain, LocalTypes, Fits
      <4>2. l \in Locals
        BY <4>1 DEF Locals
      <4>3. Fits("slot", l)
        BY DEF Fits
      <4>4. local' = [local EXCEPT ![p] = l] /\ Go(p, "slot")
        BY <1>7, <3>1 DEF Drain
      <4> HIDE DEF l
      <4> QED
        BY <4>2, <4>3, <4>4, MoveTypes DEF Places, Busy
    <3>2. CASE ~HasQueued
      BY <1>7, <3>2, EndDrainTypes DEF Drain
    <3> QED
      BY <3>1, <3>2
  <2>3. CountTypes'
    BY <1>7 DEF Drain, CountTypes, history
  <2> QED
    BY <2>1, <2>2, <2>3
<1>8. ASSUME NEW p \in Procs, Slot(p) \/ Pick(p) PROVE Types'
  <2>1. RowTypes'
    BY <1>8, RowsStay DEF Slot, Pick
  <2>2. LocalTypes'
    <3>1. CASE EndDrain(p, local[p].drains)
      BY <3>1, EndDrainTypes
    <3>2. CASE Go(p, "pick") /\ UNCHANGED local
      BY <3>2, GoTypes DEF Places, Busy, Fits
    <3>3. ASSUME NEW r \in Oldest, Go(p, "claim"), local' = [local EXCEPT ![p].run = r]
          PROVE  LocalTypes'
      <4> DEFINE l == [local[p] EXCEPT !.run = r]
      <4>1. r \in Runs /\ r \in 0..MaxRuns
        BY CrewRunsAssumption DEF Oldest, Queued, Runs
      <4>2. l \in Locals /\ l.run = r
        BY <4>1 DEF LocalTypes, Locals
      <4>3. Fits("claim", l)
        BY <4>1, <4>2 DEF Fits
      <4>4. local' = [local EXCEPT ![p] = l]
        BY <3>3
      <4> HIDE DEF l
      <4> QED
        BY <3>3, <4>2, <4>3, <4>4, MoveTypes DEF Places, Busy
    <3> QED
      BY <1>8, <3>1, <3>2, <3>3 DEF Slot, Pick
  <2>3. CountTypes'
    BY <1>8 DEF Slot, Pick, CountTypes, history
  <2> QED
    BY <2>1, <2>2, <2>3
<1>9. ASSUME NEW p \in Procs, Claim(p) PROVE Types'
  <2> DEFINE r == local[p].run
  <2>1. r \in Runs
    BY <1>9 DEF Claim, LocalTypes, Fits
  <2>2. CountTypes'
    BY <1>9 DEF Claim, CountTypes, history
  <2>3. CASE Claimable(r)
    <3>1. RowTypes'
      BY <1>9, <2>1, <2>3, LeavesQueue DEF Claim
    <3>2. LocalTypes'
      BY <1>9, <2>1, <2>3, GoTypes DEF Claim, Places, Busy, Fits
    <3> QED
      BY <2>2, <3>1, <3>2
  <2>4. CASE ~Claimable(r)
    <3> DEFINE l == [local[p] EXCEPT !.run = 0]
    <3>1. l \in Locals
      BY CrewRunsAssumption DEF LocalTypes, Locals
    <3>2. Fits("slot", l)
      BY DEF Fits
    <3>3. local' = [local EXCEPT ![p] = l] /\ Go(p, "slot") /\ UNCHANGED rows
      BY <1>9, <2>4 DEF Claim
    <3> HIDE DEF l
    <3> QED
      BY <2>2, <3>1, <3>2, <3>3, MoveTypes, RowsStay DEF Places, Busy
  <2> QED
    BY <2>3, <2>4
<1>10. ASSUME NEW p \in Procs, Begin(p) PROVE Types'
  <2>1. local[p].run \in Runs
    BY <1>10 DEF Begin, LocalTypes, Fits
  <2> DEFINE l == [local[p] EXCEPT !.ran = TRUE]
  <2>2. l \in Locals /\ l.run = local[p].run
    BY DEF LocalTypes, Locals
  <2>3. Fits("exec", l)
    BY <2>1, <2>2 DEF Fits
  <2>4. local' = [local EXCEPT ![p] = l] /\ Go(p, "exec") /\ UNCHANGED rows
    BY <1>10 DEF Begin
  <2>5. CountTypes'
    BY <1>10, <2>1 DEF Begin, CountTypes
  <2> HIDE DEF l
  <2> QED
    BY <2>2, <2>3, <2>4, <2>5, MoveTypes, RowsStay DEF Places, Busy
<1>11. ASSUME NEW p \in Procs, BeginFails(p) PROVE Types'
  <2>1. local[p].run \in Runs
    BY <1>11 DEF BeginFails, LocalTypes, Fits
  <2>2. RowTypes'
    BY <1>11, <2>1, FinalizeTypes, RowsStay DEF BeginFails
  <2>3. CountTypes'
    BY <1>11 DEF BeginFails, CountTypes, history
  <2> QED
    BY <1>11, <2>2, <2>3, LeaveTypes DEF BeginFails
<1>12. ASSUME NEW p \in Procs, Trigger(p) PROVE Types'
  <2>1. local[p].drains <= 1
    BY <1>12 DEF Trigger, LocalTypes, Fits
  <2>2. LocalTypes'
    <3>1. CASE NextDrain(p)
      BY <2>1, <3>1, NextDrainTypes
    <3>2. CASE Go(p, "take") /\ UNCHANGED local
      BY <2>1, <3>2, GoTypes DEF Places, Busy, Fits
    <3> QED
      BY <1>12, <3>1, <3>2 DEF Trigger
  <2>3. RowTypes' /\ CountTypes'
    BY <1>12, RowsStay, SetNextRunTypes DEF Trigger, CountTypes, history
  <2> QED
    BY <2>2, <2>3
<1>13. ASSUME NEW p \in Procs, Take(p) PROVE Types'
  <2>1. local[p].drains <= 1
    BY <1>13 DEF Take, LocalTypes, Fits
  <2>2. RowTypes'
    BY <1>13, RowsStay DEF Take
  <2>3. CASE Unclaimed(p)
    <3> DEFINE l == [local[p] EXCEPT !.triggered = TRUE]
    <3>1. l \in Locals
      BY DEF LocalTypes, Locals
    <3>2. Fits("dispatch", l)
      BY DEF Fits
    <3>3. /\ SetNextRun /\ Go(p, "dispatch") /\ local' = [local EXCEPT ![p] = l]
          /\ taken' = [taken EXCEPT ![local[p].seen] = @ + 1]
          /\ UNCHANGED <<cooling, kills, begun, acted>>
      BY <1>13, <2>3 DEF Take
    <3>4. taken' \in [1..MaxOccurrences + MaxRuns + 1 -> Nat]
      <4>1. CASE local[p].seen \in 1..MaxOccurrences + MaxRuns + 1
        BY <3>3, <4>1 DEF CountTypes
      <4>2. CASE local[p].seen \notin 1..MaxOccurrences + MaxRuns + 1
        BY <3>3, <4>2 DEF CountTypes
      <4> QED
        BY <4>1, <4>2
    <3>5. CountTypes'
      BY <3>3, <3>4, SetNextRunTypes DEF CountTypes
    <3> HIDE DEF l
    <3> QED
      BY <2>2, <3>1, <3>2, <3>3, <3>5, MoveTypes DEF Places, Busy
  <2>4. CASE ~Unclaimed(p)
    <3>1. CountTypes'
      BY <1>13, <2>4 DEF Take, CountTypes
    <3>2. NextDrain(p)
      BY <1>13, <2>4 DEF Take
    <3> QED
      BY <2>1, <2>2, <3>1, <3>2, NextDrainTypes
  <2> QED
    BY <2>3, <2>4
<1>14. ASSUME NEW p \in Procs, EmitEvent(p) \/ Request(p) PROVE Types'
  <2>1. \E place \in {"dispatch", "check"} : Go(p, place) /\ UNCHANGED local
    BY <1>14 DEF EmitEvent, Request
  <2>2. LocalTypes'
    BY <2>1, GoTypes DEF Places, Busy, Fits
  <2>3. RowTypes' /\ CountTypes'
    BY <1>14, RowsStay DEF EmitEvent, Request, CountTypes, history
  <2> QED
    BY <2>2, <2>3
<1>15. ASSUME NEW p \in Procs, Kill(p) PROVE Types'
  <2>1. NoLocal \in Locals /\ Fits("idle", NoLocal)
    BY CrewRunsAssumption DEF NoLocal, Locals, Fits
  <2>2. LocalTypes'
    BY <1>15, <2>1, MoveTypes DEF Kill, Places, Busy
  <2>3. CountTypes'
    BY <1>15, CrewRunsAssumption DEF Kill, CountTypes, history
  <2> QED
    BY <1>15, <2>2, <2>3, RowsStay DEF Kill
<1>16. ASSUME NEW r \in Runs, GoesStale(r) \/ WaitsTooLong(r) PROVE Types'
  <2>1. RowTypes'
    BY <1>16 DEF GoesStale, WaitsTooLong, RowTypes, Queued, Running
  <2>2. LocalTypes'
    BY <1>16 DEF GoesStale, WaitsTooLong, LocalTypes
  <2>3. CountTypes'
    BY <1>16 DEF GoesStale, WaitsTooLong, CountTypes, history
  <2> QED
    BY <2>1, <2>2, <2>3
<1>17. CASE CoolsDown \/ ComesDue
  <2>1. trigger' \in [next : Nat, due : BOOLEAN, overdue : BOOLEAN]
    BY <1>17 DEF CoolsDown, ComesDue, CountTypes
  <2>2. CountTypes'
    BY <1>17, <2>1 DEF CoolsDown, ComesDue, CountTypes, history
  <2>3. LocalTypes'
    BY <1>17 DEF CoolsDown, ComesDue, LocalTypes
  <2> QED
    BY <1>17, <2>2, <2>3, RowsStay DEF CoolsDown, ComesDue
<1>18. CASE UNCHANGED vars
  BY <1>18, RowsStay DEF vars, history, LocalTypes, CountTypes
<1>19. ASSUME NEW p \in Procs, Proceed(p) PROVE Types'
  BY <1>1, <1>2, <1>3, <1>5, <1>7, <1>8, <1>9, <1>10, <1>11, <1>12, <1>13, <1>19 DEF Proceed
<1> HIDE DEF Types
<1> QED
  BY <1>4, <1>6, <1>14, <1>15, <1>16, <1>17, <1>18, <1>19 DEF Next, Procs

LEMMA TypesInvariant == Spec => []Types
<1>1. Init => Types
  <2> SUFFICES ASSUME Init PROVE Types
    OBVIOUS
  <2>1. NoLocal \in Locals /\ Fits("idle", NoLocal)
    BY CrewRunsAssumption DEF NoLocal, Locals, Fits
  <2>2. LocalTypes
    BY <2>1 DEF Init, LocalTypes, Places, Busy
  <2>3. RowTypes
    BY DEF Init, RowTypes, IsTotalOrder, Queued
  <2>4. CountTypes
    <3>1. trigger \in [next : Nat, due : BOOLEAN, overdue : BOOLEAN]
      BY DEF Init
    <3>2. kills \in 0..MaxKills /\ taken \in [1..MaxOccurrences + MaxRuns + 1 -> Nat]
      BY CrewRunsAssumption DEF Init
    <3> QED
      BY <3>1, <3>2 DEF Init, CountTypes
  <2> QED
    BY <2>2, <2>3, <2>4 DEF Types
<1> QED
  BY <1>1, NextTypes, PTL DEF Spec

\* Every reachable state has the declared types: the rows of the queue are in one
\* order, only running rows go stale, only queued ones expire, whatever throws, is
\* unavailable, slow or killed (store.ts, queue.ts, triggers.ts).
THEOREM TypeCorrect == Spec => []TypeOK
<1>1. Types => TypeOK
  BY DEF Types, RowTypes, LocalTypes, CountTypes, TypeOK, Places, Busy, Locals
<1> QED
  BY <1>1, TypesInvariant, PTL

-----------------------------------------------------------------------------
(* The executions of a run, under every event of the environment: a run    *)
(* that is slow may even be begun by two invocations at once, but they are *)
(* counted by its row before they begin.                                   *)

Begins(p, r) == pc[p] = "begin" /\ local[p].run = r

\* The executions a run had, and those that are about to begin, are at most k, for k up
\* to two.
AtMost(r, k) ==
    /\ begun[r] <= k
    /\ \A p \in Procs : Begins(p, r) =>
          /\ begun[r] + 1 <= k
          /\ \A q \in Procs \ {p} : Begins(q, r) =>
                /\ begun[r] + 2 <= k
                /\ \A o \in Procs \ {p, q} : ~Begins(o, r)

\* One execution, and one more for a run that was requeued.
Chances(r) == IF r \in requeued THEN 2 ELSE 1
ChancesInv ==
    \A r \in Runs :
        /\ AtMost(r, 2)
        /\ status[r] = "none" => AtMost(r, 0)
        /\ status[r] = "queued" => AtMost(r, Chances(r) - 1)
        /\ status[r] = "running" => AtMost(r, Chances(r))

LEMMA AtMostMore ==
    ASSUME NEW r \in Runs, begun[r] \in Nat, NEW j \in Nat, NEW k \in Nat, j <= k,
           AtMost(r, j)
    PROVE  AtMost(r, k)
BY DEF AtMost

\* Nobody else is about to begin r.
LEMMA AtMostStays ==
    ASSUME NEW r \in Runs, NEW k, AtMost(r, k), begun'[r] = begun[r],
           \A p \in Procs : Begins(p, r)' => Begins(p, r)
    PROVE  AtMost(r, k)'
BY DEF AtMost

LEMMA AtMostClaimed ==
    ASSUME NEW r \in Runs, begun[r] \in Nat, NEW k \in 0..1, AtMost(r, k),
           begun'[r] = begun[r], NEW p \in Procs,
           \A q \in Procs \ {p} : Begins(q, r)' => Begins(q, r)
    PROVE  AtMost(r, k + 1)'
<1>1. \A q \in Procs : Begins(q, r) => begun[r] = 0 /\ k = 1
  BY DEF AtMost
<1>2. \A q, o \in Procs : Begins(q, r) /\ Begins(o, r) => q = o
  BY DEF AtMost
<1>3. begun'[r] <= k
  BY DEF AtMost
<1> HIDE DEF Begins
<1>4. ASSUME NEW q \in Procs, Begins(q, r)'
      PROVE  /\ begun'[r] + 1 <= k + 1
             /\ \A o \in Procs \ {q} : Begins(o, r)' =>
                   /\ begun'[r] + 2 <= k + 1
                   /\ \A s \in Procs \ {q, o} : ~Begins(s, r)'
  <2>1. begun'[r] + 1 <= k + 1
    BY <1>3
  <2>2. ASSUME NEW o \in Procs \ {q}, Begins(o, r)'
        PROVE  /\ begun'[r] + 2 <= k + 1
               /\ \A s \in Procs \ {q, o} : ~Begins(s, r)'
    <3>1. p \in {q, o}
      BY <1>2, <1>4, <2>2
    <3>2. begun[r] = 0 /\ k = 1
      BY <1>1, <1>4, <2>2, <3>1
    <3> QED
      BY <1>2, <1>4, <2>2, <3>1, <3>2
  <2> QED
    BY <2>1, <2>2
<1> QED
  BY <1>3, <1>4 DEF AtMost

LEMMA AtMostBegun ==
    ASSUME NEW r \in Runs, begun[r] \in Nat, NEW k \in 0..2, AtMost(r, k),
           begun'[r] = begun[r] + 1, NEW p \in Procs, Begins(p, r), ~Begins(p, r)',
           \A q \in Procs \ {p} : Begins(q, r)' => Begins(q, r)
    PROVE  AtMost(r, k)'
BY DEF AtMost

\* A step after which nobody but those who were is about to begin a run.
NobodyBegins == \A p \in Procs, r \in Runs : Begins(p, r)' => Begins(p, r)

LEMMA ChancesKeep ==
    ASSUME RowTypes, CountTypes, ChancesInv, NobodyBegins, UNCHANGED begun,
           \A r \in Runs : \/ status'[r] = status[r] /\ (r \in requeued' <=> r \in requeued)
                           \/ status'[r] \in {"done", "error"}
    PROVE  ChancesInv'
<1> SUFFICES ASSUME NEW r \in Runs
             PROVE  /\ AtMost(r, 2)'
                    /\ status'[r] = "none" => AtMost(r, 0)'
                    /\ status'[r] = "queued" => AtMost(r, Chances(r) - 1)'
                    /\ status'[r] = "running" => AtMost(r, Chances(r))'
  BY DEF ChancesInv
<1>1. \A k : AtMost(r, k) => AtMost(r, k)'
  BY AtMostStays DEF NobodyBegins
<1>2. CASE status'[r] \in {"done", "error"}
  BY <1>1, <1>2 DEF ChancesInv
<1>3. CASE status'[r] = status[r] /\ (r \in requeued' <=> r \in requeued)
  <2>1. Chances(r)' = Chances(r)
    BY <1>3 DEF Chances
  <2>2. \A k : AtMost(r, k) => (AtMost(r, k))'
    BY <1>1
  <2> QED
    BY <1>3, <2>1, <2>2 DEF ChancesInv, AtMost
<1> QED
  BY <1>2, <1>3

\* p goes where it begins nothing, and nobody else moves.
LEMMA GoesElsewhere ==
    ASSUME LocalTypes, NEW p \in Procs,
           \/ Leave(p) \/ NextDrain(p) \/ \E n : EndDrain(p, n)
           \/ /\ \E place : place # "begin" /\ Go(p, place)
              /\ \/ UNCHANGED local
                 \/ \E l : local' = [local EXCEPT ![p] = l]
    PROVE  /\ \A r \in Runs : ~Begins(p, r)'
           /\ NobodyBegins
<1>1. pc'[p] # "begin" /\ \A q \in Procs \ {p} : pc'[q] = pc[q]
  BY DEF Leave, NextDrain, EndDrain, Go, LocalTypes
<1>2. \A q \in Procs \ {p} : local'[q] = local[q]
  BY DEF Leave, NextDrain, EndDrain, LocalTypes
<1> QED
  BY <1>1, <1>2 DEF Begins, NobodyBegins

LEMMA ReapCounts ==
    ASSUME RowTypes, CountTypes, ChancesInv, NEW old \in SUBSET expired, ReapAndExpire(old),
           NobodyBegins, UNCHANGED begun
    PROVE  ChancesInv'
<1> SUFFICES ASSUME NEW r \in Runs
             PROVE  /\ AtMost(r, 2)'
                    /\ status'[r] = "none" => AtMost(r, 0)'
                    /\ status'[r] = "queued" => AtMost(r, Chances(r) - 1)'
                    /\ status'[r] = "running" => AtMost(r, Chances(r))'
  BY DEF ChancesInv
<1>1. \A k : AtMost(r, k) => (AtMost(r, k))'
  BY AtMostStays DEF NobodyBegins
<1>2. CASE r \in BackToQueue
  <2>1. status[r] = "running" /\ r \notin requeued /\ r \notin Abandoned(old)
    BY <1>2 DEF BackToQueue, SecondChance, Abandoned, RowTypes, Running, Queued
  <2>2. AtMost(r, 1) /\ AtMost(r, 2)
    BY <2>1 DEF ChancesInv, Chances
  <2>3. status'[r] = "queued" /\ r \in requeued'
    BY <1>2, <2>1 DEF ReapAndExpire
  <2>4. (Chances(r))' = 2
    BY <2>3 DEF Chances
  <2> QED
    BY <1>1, <2>2, <2>3, <2>4 DEF AtMost
<1>3. CASE r \in Abandoned(old) \ BackToQueue
  BY <1>1, <1>3 DEF ReapAndExpire, ChancesInv
<1>4. CASE r \notin Abandoned(old) \cup BackToQueue
  <2>1. status'[r] = status[r] /\ (Chances(r))' = Chances(r)
    BY <1>4 DEF ReapAndExpire, Chances
  <2> QED
    BY <1>1, <2>1 DEF ChancesInv, AtMost
<1> QED
  BY <1>2, <1>3, <1>4

\* A new row: queued, or running and begun.
LEMMA RowCounts ==
    ASSUME RowTypes, CountTypes, ChancesInv, NobodyBegins,
           NEW r \in Runs, NEW s, NEW k, Row(r, s, k),
           \/ s = "queued" /\ UNCHANGED begun
           \/ s = "running" /\ begun' = [begun EXCEPT ![r] = @ + 1]
    PROVE  ChancesInv'
<1>1. status[r] = "none" /\ status' = [status EXCEPT ![r] = s] /\ UNCHANGED requeued
  BY DEF Row, Fresh
<1>2. begun[r] = 0 /\ \A p \in Procs : ~Begins(p, r)'
  BY <1>1 DEF ChancesInv, AtMost, CountTypes, NobodyBegins
<1> SUFFICES ASSUME NEW i \in Runs
             PROVE  /\ AtMost(i, 2)'
                    /\ status'[i] = "none" => AtMost(i, 0)'
                    /\ status'[i] = "queued" => AtMost(i, Chances(i) - 1)'
                    /\ status'[i] = "running" => AtMost(i, Chances(i))'
  BY DEF ChancesInv
<1>3. (Chances(i))' = Chances(i) /\ Chances(i) \in {1, 2}
  BY <1>1 DEF Chances
<1>4. CASE i = r
  <2>1. status'[r] = s /\ begun'[r] = IF s = "running" THEN 1 ELSE 0
    BY <1>1, <1>2 DEF RowTypes, CountTypes
  <2> QED
    BY <1>2, <1>3, <1>4, <2>1 DEF AtMost
<1>5. CASE i # r
  <2>1. begun'[i] = begun[i] /\ status'[i] = status[i]
    BY <1>1, <1>5 DEF RowTypes, CountTypes
  <2>2. \A n : AtMost(i, n) => (AtMost(i, n))'
    BY <2>1, AtMostStays DEF NobodyBegins
  <2> QED
    BY <1>3, <2>1, <2>2 DEF ChancesInv, AtMost
<1> QED
  BY <1>4, <1>5

LEMMA ClaimCounts ==
    ASSUME RowTypes, LocalTypes, CountTypes, ChancesInv, NEW p \in Procs, Claim(p)
    PROVE  ChancesInv'
<1> DEFINE r == local[p].run
<1>0. r \in Runs /\ pc[p] = "claim" /\ UNCHANGED begun
  BY DEF Claim, LocalTypes, Fits, history
<1>1. CASE ~Claimable(r)
  <2>1. NobodyBegins
    BY <1>1, GoesElsewhere DEF Claim
  <2> QED
    BY <1>0, <1>1, <2>1, ChancesKeep DEF Claim, rows
<1>2. CASE Claimable(r)
  <2>1. /\ status[r] = "queued" /\ status' = [status EXCEPT ![r] = "running"]
        /\ UNCHANGED <<requeued, local>>
        /\ pc' = [pc EXCEPT ![p] = "begin"]
    BY <1>2 DEF Claim, Claimable, Go
  <2>2. \A i \in Runs, q \in Procs : (i # r \/ q # p) /\ Begins(q, i)' => Begins(q, i)
    BY <2>1 DEF Begins, LocalTypes
  <2> SUFFICES ASSUME NEW i \in Runs
               PROVE  /\ AtMost(i, 2)'
                      /\ status'[i] = "none" => AtMost(i, 0)'
                      /\ status'[i] = "queued" => AtMost(i, Chances(i) - 1)'
                      /\ status'[i] = "running" => AtMost(i, Chances(i))'
    BY DEF ChancesInv
  <2>3. (Chances(i))' = Chances(i) /\ Chances(i) \in {1, 2}
    BY <2>1 DEF Chances
  <2>4. CASE i = r
    <3>1. status'[i] = "running" /\ begun'[i] = begun[i] /\ begun[i] \in Nat
      BY <1>0, <2>1, <2>4 DEF RowTypes, CountTypes
    <3>2. AtMost(i, Chances(i) - 1) /\ Chances(i) - 1 \in 0..1
      BY <2>1, <2>3, <2>4 DEF ChancesInv
    <3>3. \A q \in Procs \ {p} : Begins(q, i)' => Begins(q, i)
      BY <2>2
    <3>4. ASSUME NEW n \in 0..1, n = Chances(i) - 1 PROVE (AtMost(i, n + 1))'
      BY <3>1, <3>2, <3>3, <3>4, AtMostClaimed
    <3>5. ASSUME NEW n \in {1, 2}, n = Chances(i) PROVE (AtMost(i, n))' /\ (AtMost(i, 2))'
      <4>1. n - 1 \in 0..1 /\ n - 1 = Chances(i) - 1 /\ (n - 1) + 1 = n
        BY <3>5
      <4>2. (AtMost(i, n))'
        BY <3>4, <4>1
      <4> QED
        BY <4>2, <3>1 DEF AtMost
    <3> QED
      BY <2>3, <3>1, <3>5
  <2>5. CASE i # r
    <3>1. begun'[i] = begun[i] /\ status'[i] = status[i]
      BY <1>0, <2>1, <2>5 DEF RowTypes
    <3>2. \A n : AtMost(i, n) => (AtMost(i, n))'
      BY <2>2, <2>5, <3>1, AtMostStays
    <3> QED
      BY <2>3, <3>1, <3>2 DEF ChancesInv, AtMost
  <2> QED
    BY <2>4, <2>5
<1> QED
  BY <1>1, <1>2

LEMMA BeginCounts ==
    ASSUME RowTypes, LocalTypes, CountTypes, ChancesInv, NEW p \in Procs, Begin(p)
    PROVE  ChancesInv'
<1>0. PICK r \in Runs : r = local[p].run
  BY DEF Begin, LocalTypes, Fits
<1>1. /\ pc[p] = "begin" /\ begun' = [begun EXCEPT ![r] = @ + 1]
      /\ UNCHANGED <<status, requeued>>
  BY <1>0 DEF Begin, rows
<1>2. NobodyBegins /\ Begins(p, r) /\ ~Begins(p, r)'
  <2> DEFINE l == [local[p] EXCEPT !.ran = TRUE]
  <2>1. Go(p, "exec") /\ local' = [local EXCEPT ![p] = l]
    BY DEF Begin
  <2> HIDE DEF l
  <2>2. NobodyBegins /\ \A i \in Runs : ~Begins(p, i)'
    BY <2>1, GoesElsewhere
  <2>3. Begins(p, r)
    BY <1>0, <1>1 DEF Begins
  <2> QED
    BY <1>1, <2>2, <2>3
<1> SUFFICES ASSUME NEW i \in Runs
             PROVE  /\ AtMost(i, 2)'
                    /\ status'[i] = "none" => AtMost(i, 0)'
                    /\ status'[i] = "queued" => AtMost(i, Chances(i) - 1)'
                    /\ status'[i] = "running" => AtMost(i, Chances(i))'
  BY DEF ChancesInv
<1>3. status'[i] = status[i] /\ (Chances(i))' = Chances(i) /\ Chances(i) \in {1, 2}
  BY <1>1 DEF Chances
<1>4. ASSUME NEW n \in 0..2, AtMost(i, n) PROVE (AtMost(i, n))'
  <2>1. CASE i = r
    <3>1. begun[r] \in Nat /\ begun'[r] = begun[r] + 1
      BY <1>1 DEF CountTypes
    <3>2. \A q \in Procs \ {p} : Begins(q, r)' => Begins(q, r)
      BY <1>1, <1>2 DEF NobodyBegins
    <3> QED
      BY <1>1, <1>2, <1>4, <2>1, <3>1, <3>2, AtMostBegun
  <2>2. CASE i # r
    BY <1>1, <1>2, <1>4, <2>2, AtMostStays DEF CountTypes, NobodyBegins
  <2> QED
    BY <2>1, <2>2
<1> QED
  BY <1>3, <1>4 DEF ChancesInv, AtMost

LEMMA NextChances == Types /\ ChancesInv /\ [Next]_vars => ChancesInv'
<1> SUFFICES ASSUME Types, ChancesInv, [Next]_vars PROVE ChancesInv'
  OBVIOUS
<1>0. RowTypes /\ LocalTypes /\ CountTypes
  BY DEF Types
<1>1. ASSUME NEW p \in Procs, NEW n, Finalize(local[p].run, n), n \in {"done", "error"},
             NobodyBegins, UNCHANGED begun
      PROVE  ChancesInv'
  <2>1. \A r \in Runs : \/ status'[r] = status[r] /\ (r \in requeued' <=> r \in requeued)
                        \/ status'[r] \in {"done", "error"}
    BY <1>0, <1>1 DEF Finalize, RowTypes
  <2> QED
    BY <1>0, <1>1, <2>1, ChancesKeep
<1>2. ASSUME NobodyBegins, UNCHANGED <<status, requeued, begun>> PROVE ChancesInv'
  BY <1>0, <1>2, ChancesKeep
<1>3. ASSUME NEW p \in Procs, EmitEvent(p) \/ Request(p) \/ Check(p) \/ CreateThrows(p) \/ Count(p)
                              \/ Slot(p) \/ Trigger(p)
      PROVE  ChancesInv'
  <2>1. NobodyBegins
    <3>1. \/ Leave(p) \/ NextDrain(p) \/ \E n : EndDrain(p, n)
          \/ /\ \E place \in {"dispatch", "check", "create", "count", "insert", "pick",
                              "take"} : Go(p, place)
             /\ UNCHANGED local
      BY <1>3 DEF EmitEvent, Request, Check, CreateThrows, Count, Slot, Trigger
    <3> QED
      BY <1>0, <3>1, GoesElsewhere
  <2>2. UNCHANGED <<status, requeued, begun>>
    BY <1>3 DEF EmitEvent, Request, Check, CreateThrows, Count, Slot, Trigger, rows, history
  <2> QED
    BY <1>2, <2>1, <2>2
<1>4. ASSUME NEW p \in Procs, Pick(p) \/ Take(p) \/ Kill(p) PROVE ChancesInv'
  <2>1. CASE Pick(p)
    <3>1. \/ EndDrain(p, local[p].drains)
          \/ Go(p, "claim") /\ \E l : local' = [local EXCEPT ![p] = l]
      BY <2>1 DEF Pick
    <3> QED
      BY <1>0, <1>2, <2>1, <3>1, GoesElsewhere DEF Pick, rows, history
  <2>2. CASE Take(p)
    <3>1. \/ NextDrain(p)
          \/ Go(p, "dispatch") /\ \E l : local' = [local EXCEPT ![p] = l]
      BY <2>2 DEF Take
    <3> QED
      BY <1>0, <1>2, <2>2, <3>1, GoesElsewhere DEF Take, rows
  <2>3. CASE Kill(p)
    BY <1>0, <1>2, <2>3, GoesElsewhere DEF Kill, rows, history
  <2> QED
    BY <1>4, <2>1, <2>2, <2>3
<1>5. ASSUME NEW p \in Procs, Dispatch(p) PROVE ChancesInv'
  <2>1. NobodyBegins
    BY <1>0, <1>5, GoesElsewhere DEF Dispatch
  <2>2. CASE Reap
    BY <1>0, <1>5, <2>1, <2>2, ReapCounts DEF Dispatch, Reap, history
  <2>3. CASE ~Reap
    BY <1>2, <1>5, <2>1, <2>3 DEF Dispatch, rows, history
  <2> QED
    BY <2>2, <2>3
<1>6. ASSUME NEW p \in Procs, TickStart(p) PROVE ChancesInv'
  <2>1. Go(p, "drain") /\ \E l : local' = [local EXCEPT ![p] = l]
    BY <1>6 DEF TickStart
  <2> QED
    BY <1>0, <1>6, <2>1, GoesElsewhere, ReapCounts DEF TickStart, Reap, history
<1>7. ASSUME NEW p \in Procs, Drain(p) PROVE ChancesInv'
  <2>1. CASE HasQueued
    <3>1. Go(p, "slot") /\ \E l : local' = [local EXCEPT ![p] = l]
      BY <1>7, <2>1 DEF Drain
    <3> QED
      BY <1>0, <1>7, <2>1, <3>1, GoesElsewhere, ReapCounts DEF Drain, history
  <2>2. CASE ~HasQueued
    BY <1>0, <1>2, <1>7, <2>2, GoesElsewhere DEF Drain, rows, history
  <2> QED
    BY <2>1, <2>2
<1>8. ASSUME NEW p \in Procs, Create(p) PROVE ChancesInv'
  <2>1. PICK r \in Runs : /\ Row(r, "running", KindOf(p))
                          /\ local' = [local EXCEPT ![p].run = r, ![p].ran = TRUE]
                          /\ begun' = [begun EXCEPT ![r] = @ + 1]
    BY <1>8 DEF Create
  <2>2. \E l : local' = [local EXCEPT ![p] = l]
    <3> DEFINE l == [local[p] EXCEPT !.run = r, !.ran = TRUE]
    <3>1. local' = [local EXCEPT ![p] = l]
      BY <1>0, <2>1 DEF LocalTypes
    <3> QED
      BY <3>1
  <2>3. NobodyBegins
    BY <1>0, <1>8, <2>2, GoesElsewhere DEF Create
  <2> QED
    BY <1>0, <2>1, <2>3, RowCounts
<1>9. ASSUME NEW p \in Procs, Insert(p) PROVE ChancesInv'
  BY <1>0, <1>9, GoesElsewhere, RowCounts DEF Insert, history
<1>10. ASSUME NEW p \in Procs, Finish(p) \/ After(p) PROVE ChancesInv'
  <2>1. NobodyBegins /\ UNCHANGED begun
    BY <1>0, <1>10, GoesElsewhere DEF Finish, After, history
  <2> QED
    BY <1>1, <1>2, <1>10, <2>1 DEF Finish, After, rows
<1>11. ASSUME NEW p \in Procs, BeginFails(p) PROVE ChancesInv'
  <2>1. NobodyBegins /\ UNCHANGED begun
    BY <1>0, <1>11, GoesElsewhere DEF BeginFails, history
  <2> QED
    BY <1>1, <1>2, <1>11, <2>1 DEF BeginFails, rows
<1>12. ASSUME NEW p \in Procs, ToolCall(p) PROVE ChancesInv'
  <2>1. \E l : local' = [local EXCEPT ![p] = l]
    BY <1>12 DEF ToolCall
  <2>2. NobodyBegins
    BY <1>0, <1>12, <2>1 DEF ToolCall, NobodyBegins, Begins, LocalTypes
  <2> QED
    BY <1>2, <1>12, <2>2 DEF ToolCall
<1>13. CASE \/ \E r \in Runs : GoesStale(r) \/ WaitsTooLong(r)
            \/ CoolsDown \/ ComesDue \/ UNCHANGED vars
  <2>1. UNCHANGED <<status, requeued, pc, local, begun>>
    BY <1>13 DEF GoesStale, WaitsTooLong, CoolsDown, ComesDue, vars, rows, history
  <2> QED
    BY <1>2, <2>1 DEF NobodyBegins, Begins
<1>14. ASSUME NEW p \in Procs, Proceed(p) PROVE ChancesInv'
  BY <1>0, <1>3, <1>4, <1>5, <1>7, <1>8, <1>9, <1>10, <1>11, <1>14, ClaimCounts, BeginCounts
     DEF Proceed
<1> QED
  BY <1>3, <1>4, <1>6, <1>12, <1>13, <1>14 DEF Next, Procs

\* A run is executed at most twice, however often its invocation is killed, whatever
\* throws, and even if it outlives STALE_RUN_SECONDS (store.ts, reapStaleRuns).
THEOREM SecondChanceIsLast == Spec => []OneSecondChance
<1>1. Init => ChancesInv
  BY DEF Init, ChancesInv, AtMost, Begins, Chances
<1>2. ChancesInv => OneSecondChance
  BY DEF ChancesInv, AtMost, OneSecondChance
<1> QED
  BY <1>1, <1>2, NextChances, TypesInvariant, PTL DEF Spec

-----------------------------------------------------------------------------
(* The runs, when no run outlives STALE_RUN_SECONDS: a statement may throw,*)
(* a crew may be unavailable, and any invocation may be killed.            *)

\* The fields of local, whatever they hold.
FieldsIn(S) == [run : S, acts : S, seen : S, overdue : S, drains : S, triggered : S, ran : S]
Forms ==
    /\ pc \in [Procs -> Places]
    /\ \E S : local \in [Procs -> FieldsIn(S)]

Rows ==
    /\ status \in [Runs -> {"none", "queued", "running", "done", "error"}]
    /\ stale \subseteq Running
    /\ expired \subseteq {r \in Runs : status[r] = "queued"}
    /\ begun \in [Runs -> Nat]
    /\ acted \in [Runs -> Nat]

\* An execution is the only one of a run that is running and not stale.  A run with a
\* tool call owes it to that execution.
Executors ==
    \A p \in Procs, r \in Runs :
        /\ Executes(p, r) => /\ status[r] = "running" /\ r \notin stale
                             /\ r \in tooled => local[p].acts
        /\ pc[p] = "after" /\ local[p].run = r => r \in Ended

\* What waits to be executed has called no tool.
Tools ==
    \A r \in Runs :
        /\ acted[r] <= 1
        /\ r \notin tooled => acted[r] = 0
        /\ status[r] \in {"none", "queued"} => r \notin tooled

\* What a run may still be executed.
Executions ==
    \A r \in Runs :
        /\ begun[r] <= 2
        /\ status[r] = "none" => begun[r] = 0
        /\ status[r] = "queued" => begun[r] < Chances(r)
        /\ status[r] = "running" => begun[r] <= Chances(r)
        /\ \A p \in Procs : pc[p] = "begin" /\ local[p].run = r => begun[r] < Chances(r)

RunsInv == Forms /\ Rows /\ OneExecutor /\ Executors /\ Tools /\ Executions

\* An invocation that holds a run held it before.
Steady(p) ==
    pc'[p] \in Busy =>
        /\ pc'[p] = pc[p]
        /\ local'[p].run = local[p].run
        /\ local[p].acts => local'[p].acts

\* p lets go of its run, and nobody else moves.
Aside(p) ==
    /\ pc'[p] \notin Busy
    /\ \A q \in Procs \ {p} : pc'[q] = pc[q] /\ local'[q] = local[q]

LEMMA AsideIsSteady ==
    ASSUME NEW p \in Procs, Aside(p)
    PROVE  \A q \in Procs : Steady(q)
BY DEF Aside, Steady

LEMMA GoAside ==
    ASSUME Forms, NEW p \in Procs, NEW place \in Places, place \notin Busy, Go(p, place),
           UNCHANGED local
    PROVE  Forms' /\ Aside(p)
BY DEF Forms, Go, Aside

\* An invocation that goes on with other fields in its local state.
LEMMA FieldsChange ==
    ASSUME NEW S, local \in [Procs -> FieldsIn(S)], NEW p \in Procs,
           NEW T, NEW f \in FieldsIn(T), local' = [local EXCEPT ![p] = f]
    PROVE  /\ \E U : local' \in [Procs -> FieldsIn(U)]
           /\ local'[p] = f
           /\ \A q \in Procs \ {p} : local'[q] = local[q]
<1>1. FieldsIn(S) \subseteq FieldsIn(S \cup T) /\ f \in FieldsIn(S \cup T)
  BY DEF FieldsIn
<1>2. local' \in [Procs -> FieldsIn(S \cup T)]
  BY <1>1
<1> QED
  BY <1>2

\* The control part of a step that puts p somewhere it holds no run.
Elsewhere(p) ==
    /\ pc' \in [Procs -> Places]
    /\ pc'[p] \notin Busy
    /\ \A q \in Procs \ {p} : pc'[q] = pc[q]

LEMMA GoElsewhere ==
    ASSUME pc \in [Procs -> Places], NEW p \in Procs, NEW place \in Places,
           place \notin Busy, Go(p, place)
    PROVE  Elsewhere(p)
BY DEF Go, Elsewhere

LEMMA LeaveAside ==
    ASSUME Forms, NEW p \in Procs, Leave(p)
    PROVE  Forms' /\ Aside(p)
<1>1. PICK S : local \in [Procs -> FieldsIn(S)]
  BY DEF Forms
<1>2. \E place \in {"idle", "drain", "slot"} : Go(p, place)
  BY DEF Leave
<1>3. Elsewhere(p)
  <2>1. PICK place \in {"idle", "drain", "slot"} : Go(p, place)
    BY <1>2
  <2>2. place \in Places /\ place \notin Busy
    BY DEF Places, Busy
  <2>3. pc \in [Procs -> Places]
    BY DEF Forms
  <2> QED
    BY <2>1, <2>2, <2>3, GoElsewhere
<1> DEFINE T == S \cup {0, FALSE}
           f == IF p \notin Ticks THEN NoLocal
                ELSE [local[p] EXCEPT !.run = 0, !.acts = FALSE, !.triggered = FALSE]
<1>4. f \in FieldsIn(T)
  BY <1>1 DEF FieldsIn, NoLocal
<1>5. local' = [local EXCEPT ![p] = f]
  <2>1. CASE p \in Ticks
    BY <2>1 DEF Leave
  <2>2. CASE p \notin Ticks
    BY <2>2 DEF Leave
  <2> QED
    BY <2>1, <2>2
<1> HIDE DEF f, T
<1> QED
  BY <1>1, <1>3, <1>4, <1>5, FieldsChange DEF Forms, Aside, Elsewhere

\* The rows are as they were, but for the clock's marks.
LEMMA ClockKeeps ==
    ASSUME RunsInv, Forms',
           \A p \in Procs : Steady(p),
           UNCHANGED <<status, requeued, tooled, begun, acted>>,
           stale' \subseteq Running,
           \A p \in Procs, r \in Runs : Executes(p, r) => r \notin stale',
           expired' \subseteq {r \in Runs : status[r] = "queued"}
    PROVE  RunsInv'
<1>1. \A p \in Procs, r \in Runs : Executes(p, r)' => Executes(p, r)
  BY DEF Executes, Steady, Busy
<1>2. Rows'
  BY DEF RunsInv, Rows, Running
<1>3. OneExecutor'
  BY <1>1 DEF RunsInv, OneExecutor
<1>4. Executors'
  <2> SUFFICES ASSUME NEW p \in Procs, NEW r \in Runs
               PROVE  /\ Executes(p, r)' => /\ status'[r] = "running" /\ r \notin stale'
                                            /\ r \in tooled' => local'[p].acts
                      /\ pc'[p] = "after" /\ local'[p].run = r => r \in Ended'
    BY DEF Executors
  <2>1. Executes(p, r)' => /\ status'[r] = "running" /\ r \notin stale'
                           /\ r \in tooled' => local'[p].acts
    BY <1>1 DEF RunsInv, Executors, Steady, Executes, Busy
  <2>2. pc'[p] = "after" /\ local'[p].run = r => r \in Ended'
    BY DEF RunsInv, Executors, Steady, Busy, Ended
  <2> QED
    BY <2>1, <2>2
<1>5. Tools'
  BY DEF RunsInv, Tools
<1>6. Executions'
  BY DEF RunsInv, Executions, Chances, Steady, Busy
<1> QED
  BY <1>2, <1>3, <1>4, <1>5, <1>6 DEF RunsInv

LEMMA QuietKeeps ==
    ASSUME RunsInv, Forms', \A p \in Procs : Steady(p), UNCHANGED <<rows, begun, acted>>
    PROVE  RunsInv'
<1>1. /\ stale' \subseteq Running
      /\ \A p \in Procs, r \in Runs : Executes(p, r) => r \notin stale'
      /\ expired' \subseteq {r \in Runs : status[r] = "queued"}
  BY DEF RunsInv, Rows, Executors, rows
<1> QED
  BY <1>1, ClockKeeps DEF rows

\* The reaper ends or requeues only runs that nobody executes.
LEMMA ReapKeeps ==
    ASSUME RunsInv, Forms',
           \A p \in Procs : Steady(p),
           NEW old \in SUBSET expired,
           ReapAndExpire(old),
           UNCHANGED history
    PROVE  RunsInv'
<1>0. \A p \in Procs, r \in Runs : Executes(p, r)' => Executes(p, r)
  BY DEF Executes, Steady, Busy
<1>1. \A r \in Runs :
          \/ r \in BackToQueue \ Abandoned(old) /\ status[r] = "running" /\ status'[r] = "queued"
          \/ r \in Abandoned(old) \ BackToQueue /\ status[r] \in {"running", "queued"}
                /\ status'[r] = "error"
          \/ r \notin BackToQueue \cup Abandoned(old) /\ status'[r] = status[r]
                /\ r \notin stale \cup old
  <2>1. BackToQueue \subseteq stale
    BY DEF BackToQueue, SecondChance
  <2>2. BackToQueue \cap Abandoned(old) = {}
    BY <2>1 DEF RunsInv, Rows, Abandoned, Running
  <2> QED
    BY <2>1, <2>2 DEF RunsInv, Rows, Abandoned, Running, ReapAndExpire
<1>2. \A p \in Procs, r \in Runs : Executes(p, r) => status'[r] = "running"
  BY <1>1 DEF RunsInv, Executors, Rows, BackToQueue, SecondChance, Abandoned
<1>3. Rows'
  <2>1. status' \in [Runs -> {"none", "queued", "running", "done", "error"}]
    BY <1>1 DEF RunsInv, Rows, ReapAndExpire
  <2>2. expired' \subseteq {r \in Runs : status'[r] = "queued"}
    BY <1>1 DEF RunsInv, Rows, ReapAndExpire, Abandoned, Running
  <2> QED
    BY <2>1, <2>2 DEF RunsInv, Rows, ReapAndExpire, history, Running
<1>4. OneExecutor'
  BY <1>0 DEF RunsInv, OneExecutor
<1>5. Executors'
  <2> SUFFICES ASSUME NEW p \in Procs, NEW r \in Runs
               PROVE  /\ Executes(p, r)' => /\ status'[r] = "running" /\ r \notin stale'
                                            /\ r \in tooled' => local'[p].acts
                      /\ pc'[p] = "after" /\ local'[p].run = r => r \in Ended'
    BY DEF Executors
  <2>1. Executes(p, r)' => status'[r] = "running" /\ r \notin stale'
    BY <1>0, <1>2 DEF ReapAndExpire
  <2>2. Executes(p, r)' /\ r \in tooled' => local'[p].acts
    BY <1>0 DEF RunsInv, Executors, Steady, Executes, Busy, ReapAndExpire
  <2>3. pc'[p] = "after" /\ local'[p].run = r => r \in Ended'
    <3>1. pc'[p] = "after" /\ local'[p].run = r => r \in Ended
      BY DEF RunsInv, Executors, Steady, Busy
    <3> QED
      BY <3>1, <1>1 DEF Ended
  <2> QED
    BY <2>1, <2>2, <2>3
<1>6. Tools'
  <2>1. \A r \in BackToQueue : r \notin tooled
    BY DEF BackToQueue, SecondChance
  <2> QED
    BY <1>1, <2>1 DEF RunsInv, Tools, ReapAndExpire, history
<1>7. Executions'
  <2> SUFFICES ASSUME NEW r \in Runs
               PROVE  /\ begun[r] <= 2
                      /\ status'[r] = "none" => begun[r] = 0
                      /\ status'[r] = "queued" => begun[r] < Chances(r)'
                      /\ status'[r] = "running" => begun[r] <= Chances(r)'
                      /\ \A p \in Procs : pc'[p] = "begin" /\ local'[p].run = r
                                              => begun[r] < Chances(r)'
    BY DEF Executions, history, ReapAndExpire
  <2>0. begun[r] \in Nat
    BY DEF RunsInv, Rows
  <2>1. CASE r \in BackToQueue
    <3>1. begun[r] <= 1 /\ Chances(r)' = 2
      <4>1. r \notin requeued
        BY <2>1 DEF BackToQueue, SecondChance
      <4>2. r \in requeued'
        BY <2>1, <1>1 DEF ReapAndExpire
      <4> QED
        BY <4>1, <4>2, <2>1, <1>1 DEF RunsInv, Executions, Chances
    <3> QED
      BY <3>1, <2>0, <2>1, <1>1
  <2>2. CASE r \in Abandoned(old)
    <3>1. \A p \in Procs : ~(pc'[p] = "begin" /\ local'[p].run = r)
      BY <1>0, <1>1, <1>2, <2>2 DEF Executes
    <3> QED
      BY <1>1, <2>2, <3>1 DEF RunsInv, Executions
  <2>3. CASE r \notin BackToQueue \cup Abandoned(old)
    <3>1. status'[r] = status[r] /\ Chances(r)' = Chances(r)
      BY <1>1, <2>3 DEF Chances, ReapAndExpire
    <3>2. \A p \in Procs : pc'[p] = "begin" /\ local'[p].run = r
                               => pc[p] = "begin" /\ local[p].run = r
      BY DEF Steady, Busy
    <3> QED
      BY <3>1, <3>2 DEF RunsInv, Executions
  <2> QED
    BY <2>1, <2>2, <2>3
<1> QED
  BY <1>3, <1>4, <1>5, <1>6, <1>7 DEF RunsInv

\* Finalizing a run that p executes or has executed disturbs no other.
LEMMA FinalizeKeeps ==
    ASSUME RunsInv, Forms', NEW p \in Procs, pc[p] \in Busy,
           NEW outcome \in {"done", "error"},
           Finalize(local[p].run, outcome),
           pc'[p] \notin {"begin", "exec"},
           pc'[p] = "after" => local'[p].run = local[p].run,
           \A q \in Procs \ {p} : Steady(q),
           UNCHANGED history
    PROVE  RunsInv'
<1> DEFINE run == local[p].run
<1>0. \A q \in Procs, r \in Runs : Executes(q, r)' => Executes(q, r) /\ q # p /\ r # run
  <2> SUFFICES ASSUME NEW q \in Procs, NEW r \in Runs, Executes(q, r)'
               PROVE  Executes(q, r) /\ q # p /\ r # run
    OBVIOUS
  <2>1. q # p /\ Executes(q, r)
    BY DEF Executes, Steady, Busy
  <2>2. CASE Executes(p, r)
    BY <2>1, <2>2 DEF RunsInv, OneExecutor
  <2>3. CASE pc[p] = "after" /\ run = r
    BY <2>1, <2>3 DEF RunsInv, Executors, Ended
  <2> QED
    BY <2>1, <2>2, <2>3 DEF Executes, Busy
<1>1. \A r \in Runs : status'[r] = IF r = run THEN outcome ELSE status[r]
  BY DEF Finalize, RunsInv, Rows
<1>2. Rows'
  <2>1. status' \in [Runs -> {"none", "queued", "running", "done", "error"}]
    BY DEF Finalize, RunsInv, Rows
  <2>2. stale' \subseteq Running' /\ expired' \subseteq {r \in Runs : status'[r] = "queued"}
    BY <1>1 DEF Finalize, RunsInv, Rows, Running
  <2> QED
    BY <2>1, <2>2 DEF RunsInv, Rows, history
<1>3. OneExecutor'
  BY <1>0 DEF RunsInv, OneExecutor
<1>4. Executors'
  <2> SUFFICES ASSUME NEW q \in Procs, NEW r \in Runs
               PROVE  /\ Executes(q, r)' => /\ status'[r] = "running" /\ r \notin stale'
                                            /\ r \in tooled' => local'[q].acts
                      /\ pc'[q] = "after" /\ local'[q].run = r => r \in Ended'
    BY DEF Executors
  <2>1. Executes(q, r)' => status'[r] = "running" /\ r \notin stale'
    BY <1>0, <1>1 DEF Finalize, RunsInv, Executors
  <2>2. Executes(q, r)' /\ r \in tooled' => local'[q].acts
    BY <1>0 DEF RunsInv, Executors, Steady, Executes, Busy, Finalize
  <2>3. pc'[q] = "after" /\ local'[q].run = r => r \in Ended'
    <3>1. CASE r = run
      BY <3>1, <1>1 DEF Ended
    <3>2. CASE r # run
      BY <3>2, <1>1 DEF Ended, RunsInv, Executors, Steady, Busy
    <3> QED
      BY <3>1, <3>2
  <2> QED
    BY <2>1, <2>2, <2>3
<1>5. Tools'
  BY <1>1 DEF RunsInv, Tools, Finalize, history
<1>6. Executions'
  <2> SUFFICES ASSUME NEW r \in Runs
               PROVE  /\ begun[r] <= 2
                      /\ status'[r] = "none" => begun[r] = 0
                      /\ status'[r] = "queued" => begun[r] < Chances(r)'
                      /\ status'[r] = "running" => begun[r] <= Chances(r)'
                      /\ \A q \in Procs : pc'[q] = "begin" /\ local'[q].run = r
                                              => begun[r] < Chances(r)'
    BY DEF Executions, history
  <2>1. CASE r = run
    <3>1. \A q \in Procs : ~(pc'[q] = "begin" /\ local'[q].run = r)
      BY <1>0, <2>1 DEF Executes
    <3> QED
      BY <3>1, <2>1, <1>1 DEF RunsInv, Executions
  <2>2. CASE r # run
    <3>1. status'[r] = status[r] /\ Chances(r)' = Chances(r)
      BY <1>1, <2>2 DEF Chances, Finalize
    <3>2. \A q \in Procs : pc'[q] = "begin" /\ local'[q].run = r
                               => pc[q] = "begin" /\ local[q].run = r
      BY DEF Steady, Busy
    <3> QED
      BY <3>1, <3>2 DEF RunsInv, Executions
  <2> QED
    BY <2>1, <2>2
<1> QED
  BY <1>2, <1>3, <1>4, <1>5, <1>6 DEF RunsInv

\* A row that is being executed when it is made is p's alone.
LEMMA CreateKeeps ==
    ASSUME RunsInv, Forms', NEW p \in Procs, NEW r \in Runs,
           Row(r, "running", KindOf(p)),
           local'[p].run = r, pc'[p] = "exec",
           begun' = [begun EXCEPT ![r] = @ + 1],
           \A q \in Procs \ {p} : Steady(q),
           UNCHANGED acted
    PROVE  RunsInv'
<1>1. status[r] = "none" /\ \A i \in Runs : status'[i] = IF i = r THEN "running" ELSE status[i]
  BY DEF Row, Fresh, RunsInv, Rows
<1>2. begun[r] = 0 /\ \A i \in Runs : begun'[i] = IF i = r THEN 1 ELSE begun[i]
  BY <1>1 DEF RunsInv, Rows, Executions
<1>3. \A q \in Procs, i \in Runs : Executes(q, i)' =>
          IF q = p THEN i = r ELSE Executes(q, i) /\ i # r
  <2>1. \A q \in Procs : ~Executes(q, r)
    BY <1>1 DEF RunsInv, Executors
  <2>2. \A q \in Procs \ {p}, i \in Runs : Executes(q, i)' => Executes(q, i)
    BY DEF Executes, Steady, Busy
  <2>3. \A i \in Runs : Executes(p, i)' => i = r
    BY DEF Executes
  <2> QED
    BY <2>1, <2>2, <2>3
<1>4. Rows'
  <2>1. status' \in [Runs -> {"none", "queued", "running", "done", "error"}]
    BY DEF Row, RunsInv, Rows
  <2>2. begun' \in [Runs -> Nat]
    BY DEF RunsInv, Rows
  <2> QED
    BY <1>1, <2>1, <2>2 DEF Row, RunsInv, Rows, Running
<1>5. OneExecutor'
  BY <1>3 DEF RunsInv, OneExecutor
<1>6. Executors'
  <2> SUFFICES ASSUME NEW q \in Procs, NEW i \in Runs
               PROVE  /\ Executes(q, i)' => /\ status'[i] = "running" /\ i \notin stale'
                                            /\ i \in tooled' => local'[q].acts
                      /\ pc'[q] = "after" /\ local'[q].run = i => i \in Ended'
    BY DEF Executors
  <2>1. Executes(q, i)' => status'[i] = "running" /\ i \notin stale'
    BY <1>1, <1>3 DEF Row, RunsInv, Rows, Running, Executors
  <2>2. Executes(q, i)' /\ i \in tooled' => local'[q].acts
    <3>1. CASE q = p
      BY <3>1, <1>1, <1>3 DEF Row, RunsInv, Tools
    <3>2. CASE q # p
      BY <3>2, <1>3 DEF Row, RunsInv, Executors, Steady, Executes, Busy
    <3> QED
      BY <3>1, <3>2
  <2>3. pc'[q] = "after" /\ local'[q].run = i => i \in Ended'
    <3>1. pc'[q] = "after" /\ local'[q].run = i => i \in Ended
      BY DEF RunsInv, Executors, Steady, Busy
    <3> QED
      BY <3>1, <1>1 DEF Ended
  <2> QED
    BY <2>1, <2>2, <2>3
<1>7. Tools'
  BY <1>1 DEF Row, RunsInv, Tools
<1>8. Executions'
  <2> SUFFICES ASSUME NEW i \in Runs
               PROVE  /\ begun'[i] <= 2
                      /\ status'[i] = "none" => begun'[i] = 0
                      /\ status'[i] = "queued" => begun'[i] < Chances(i)'
                      /\ status'[i] = "running" => begun'[i] <= Chances(i)'
                      /\ \A q \in Procs : pc'[q] = "begin" /\ local'[q].run = i
                                              => begun'[i] < Chances(i)'
    BY DEF Executions
  <2>1. Chances(i)' = Chances(i) /\ Chances(i) \in {1, 2}
    BY DEF Chances, Row
  <2>2. \A q \in Procs : pc'[q] = "begin" /\ local'[q].run = i
                             => pc[q] = "begin" /\ local[q].run = i /\ i # r
    BY <1>3 DEF Steady, Busy, Executes
  <2>3. CASE i = r
    BY <2>1, <2>2, <2>3, <1>1, <1>2
  <2>4. CASE i # r
    BY <2>1, <2>2, <2>4, <1>1, <1>2 DEF RunsInv, Executions
  <2> QED
    BY <2>3, <2>4
<1> QED
  BY <1>4, <1>5, <1>6, <1>7, <1>8 DEF RunsInv

\* A queued row is nobody's.
LEMMA InsertKeeps ==
    ASSUME RunsInv, Forms', NEW r \in Runs, Row(r, "queued", "event"),
           \A p \in Procs : Steady(p),
           UNCHANGED history
    PROVE  RunsInv'
<1>1. status[r] = "none" /\ \A i \in Runs : status'[i] = IF i = r THEN "queued" ELSE status[i]
  BY DEF Row, Fresh, RunsInv, Rows
<1>2. \A p \in Procs, i \in Runs : Executes(p, i)' => Executes(p, i) /\ i # r
  BY <1>1 DEF Executes, Steady, Busy, RunsInv, Executors
<1>3. Rows'
  <2>1. status' \in [Runs -> {"none", "queued", "running", "done", "error"}]
    BY DEF Row, RunsInv, Rows
  <2> QED
    BY <1>1, <2>1 DEF Row, RunsInv, Rows, Running, history
<1>4. OneExecutor'
  BY <1>2 DEF RunsInv, OneExecutor
<1>5. Executors'
  <2> SUFFICES ASSUME NEW q \in Procs, NEW i \in Runs
               PROVE  /\ Executes(q, i)' => /\ status'[i] = "running" /\ i \notin stale'
                                            /\ i \in tooled' => local'[q].acts
                      /\ pc'[q] = "after" /\ local'[q].run = i => i \in Ended'
    BY DEF Executors
  <2>1. Executes(q, i)' => status'[i] = "running" /\ i \notin stale'
    BY <1>1, <1>2 DEF Row, RunsInv, Executors
  <2>2. Executes(q, i)' /\ i \in tooled' => local'[q].acts
    BY <1>2 DEF Row, RunsInv, Executors, Steady, Executes, Busy
  <2>3. pc'[q] = "after" /\ local'[q].run = i => i \in Ended'
    <3>1. pc'[q] = "after" /\ local'[q].run = i => i \in Ended
      BY DEF RunsInv, Executors, Steady, Busy
    <3> QED
      BY <3>1, <1>1 DEF Ended
  <2> QED
    BY <2>1, <2>2, <2>3
<1>6. Tools'
  BY <1>1 DEF Row, RunsInv, Tools, history
<1>7. Executions'
  <2>1. \A i \in Runs : Chances(i)' = Chances(i) /\ Chances(i) \in {1, 2}
    BY DEF Chances, Row
  <2>2. \A q \in Procs, i \in Runs : pc'[q] = "begin" /\ local'[q].run = i
                             => pc[q] = "begin" /\ local[q].run = i
    BY DEF Steady, Busy
  <2> QED
    BY <1>1, <2>1, <2>2 DEF RunsInv, Executions, history
<1> QED
  BY <1>3, <1>4, <1>5, <1>6, <1>7 DEF RunsInv

\* A claim takes the run from the queue, where nobody executes it.
LEMMA ClaimKeeps ==
    ASSUME RunsInv, Forms', NEW p \in Procs, Claim(p), Claimable(local[p].run)
    PROVE  RunsInv'
<1> DEFINE run == local[p].run
<1>1. /\ status[run] = "queued" /\ status' = [status EXCEPT ![run] = "running"]
      /\ stale' = stale \ {run} /\ expired' = expired \ {run}
      /\ Go(p, "begin")
      /\ UNCHANGED <<requeued, tooled, local, begun, acted>>
  BY DEF Claim, Claimable, history
<1>2. \A i \in Runs : status'[i] = IF i = run THEN "running" ELSE status[i]
  BY <1>1 DEF RunsInv, Rows
<1>3. \A q \in Procs : pc'[q] = IF q = p THEN "begin" ELSE pc[q]
  BY <1>1 DEF RunsInv, Forms, Go
<1>4. \A q \in Procs, i \in Runs : Executes(q, i)' =>
          IF q = p THEN i = run ELSE Executes(q, i) /\ i # run
  <2>1. run \in Runs => \A q \in Procs : ~Executes(q, run)
    BY <1>1 DEF RunsInv, Executors
  <2> QED
    BY <1>1, <1>3, <2>1 DEF Executes
<1>5. Rows'
  <2>1. status' \in [Runs -> {"none", "queued", "running", "done", "error"}]
    BY <1>1 DEF RunsInv, Rows
  <2> QED
    BY <1>1, <1>2, <2>1 DEF RunsInv, Rows, Running
<1>6. OneExecutor'
  BY <1>4 DEF RunsInv, OneExecutor
<1>7. Executors'
  <2> SUFFICES ASSUME NEW q \in Procs, NEW i \in Runs
               PROVE  /\ Executes(q, i)' => /\ status'[i] = "running" /\ i \notin stale'
                                            /\ i \in tooled' => local'[q].acts
                      /\ pc'[q] = "after" /\ local'[q].run = i => i \in Ended'
    BY DEF Executors
  <2>1. Executes(q, i)' => status'[i] = "running" /\ i \notin stale'
    BY <1>1, <1>2, <1>4 DEF RunsInv, Executors
  <2>2. Executes(q, i)' /\ i \in tooled' => local'[q].acts
    BY <1>1, <1>4 DEF RunsInv, Executors, Tools
  <2>3. pc'[q] = "after" /\ local'[q].run = i => i \in Ended'
    BY <1>1, <1>2, <1>3 DEF RunsInv, Executors, Ended
  <2> QED
    BY <2>1, <2>2, <2>3
<1>8. Tools'
  BY <1>1, <1>2 DEF RunsInv, Tools
<1>9. Executions'
  <2> SUFFICES ASSUME NEW i \in Runs
               PROVE  /\ begun[i] <= 2
                      /\ status'[i] = "none" => begun[i] = 0
                      /\ status'[i] = "queued" => begun[i] < Chances(i)
                      /\ status'[i] = "running" => begun[i] <= Chances(i)
                      /\ \A q \in Procs : pc'[q] = "begin" /\ local[q].run = i
                                              => begun[i] < Chances(i)
    BY <1>1 DEF Executions, Chances
  <2>0. begun[i] \in Nat /\ Chances(i) \in Nat
    BY DEF RunsInv, Rows, Chances
  <2>1. CASE i = run
    BY <2>0, <2>1, <1>1, <1>2 DEF RunsInv, Executions
  <2>2. CASE i # run
    BY <2>0, <2>2, <1>2, <1>3 DEF RunsInv, Executions
  <2> QED
    BY <2>1, <2>2
<1> QED
  BY <1>5, <1>6, <1>7, <1>8, <1>9 DEF RunsInv

\* The claimed run begins.
LEMMA BeginKeeps ==
    ASSUME RunsInv, Forms', NEW p \in Procs, pc[p] = "begin", Go(p, "exec"),
           local'[p].run = local[p].run, local'[p].acts = local[p].acts,
           \A q \in Procs \ {p} : local'[q] = local[q],
           begun' = [begun EXCEPT ![local[p].run] = @ + 1],
           UNCHANGED <<rows, acted>>
    PROVE  RunsInv'
<1> DEFINE run == local[p].run
<1>1. \A q \in Procs : pc'[q] = IF q = p THEN "exec" ELSE pc[q]
  BY DEF RunsInv, Forms, Go
<1>2. \A q \in Procs : local'[q].run = local[q].run /\ local'[q].acts = local[q].acts
  OBVIOUS
<1>3. \A q \in Procs, i \in Runs : Executes(q, i)' => Executes(q, i)
  BY <1>1, <1>2 DEF Executes
<1>4. \A i \in Runs : begun'[i] = IF i = run THEN begun[i] + 1 ELSE begun[i]
  BY DEF RunsInv, Rows
<1>5. Rows'
  <2>1. begun' \in [Runs -> Nat]
    <3>1. CASE run \in Runs
      BY <3>1 DEF RunsInv, Rows
    <3>2. CASE run \notin Runs
      BY <3>2 DEF RunsInv, Rows
    <3> QED
      BY <3>1, <3>2
  <2> QED
    BY <2>1 DEF RunsInv, Rows, Running, rows
<1>6. OneExecutor'
  BY <1>3 DEF RunsInv, OneExecutor
<1>7. Executors'
  BY <1>1, <1>2, <1>3 DEF RunsInv, Executors, Ended, rows
<1>8. Tools'
  BY DEF RunsInv, Tools, rows
<1>9. Executions'
  <2> SUFFICES ASSUME NEW i \in Runs
               PROVE  /\ begun'[i] <= 2
                      /\ status[i] = "none" => begun'[i] = 0
                      /\ status[i] = "queued" => begun'[i] < Chances(i)
                      /\ status[i] = "running" => begun'[i] <= Chances(i)
                      /\ \A q \in Procs : pc'[q] = "begin" /\ local'[q].run = i
                                              => begun'[i] < Chances(i)
    BY DEF Executions, Chances, rows
  <2>0. begun[i] \in Nat /\ Chances(i) \in {1, 2}
    BY DEF RunsInv, Rows, Chances
  <2>1. CASE i = run
    <3>1. Executes(p, i) /\ status[i] = "running" /\ begun[i] < Chances(i)
      BY <2>1 DEF RunsInv, Executors, Executions, Executes
    <3>2. \A q \in Procs : ~(pc'[q] = "begin" /\ local'[q].run = i)
      BY <3>1, <1>1, <1>2 DEF RunsInv, OneExecutor, Executes
    <3> QED
      BY <2>0, <2>1, <1>4, <3>1, <3>2
  <2>2. CASE i # run
    BY <2>0, <2>2, <1>1, <1>2, <1>4 DEF RunsInv, Executions
  <2> QED
    BY <2>1, <2>2
<1> QED
  BY <1>5, <1>6, <1>7, <1>8, <1>9 DEF RunsInv

\* An execution's first tool call is the run's first.
LEMMA ToolCallKeeps ==
    ASSUME RunsInv, Forms', NEW p \in Procs, ToolCall(p),
           local'[p].run = local[p].run, local'[p].acts = TRUE,
           \A q \in Procs \ {p} : local'[q] = local[q]
    PROVE  RunsInv'
<1> DEFINE run == local[p].run
<1>1. /\ pc[p] = "exec" /\ ~local[p].acts
      /\ tooled' = tooled \cup {run} /\ acted' = [acted EXCEPT ![run] = @ + 1]
      /\ UNCHANGED <<status, requeued, stale, expired, pc, begun>>
  BY DEF ToolCall
<1>2. \A q \in Procs : local'[q].run = local[q].run
  OBVIOUS
<1>3. \A q \in Procs, i \in Runs : Executes(q, i)' => Executes(q, i)
  BY <1>1, <1>2 DEF Executes
<1>4. run \in Runs => Executes(p, run) /\ status[run] = "running" /\ run \notin tooled
  BY <1>1 DEF RunsInv, Executors, Executes
<1>5. Rows'
  <2>1. acted' \in [Runs -> Nat]
    <3>1. CASE run \in Runs
      BY <3>1, <1>1 DEF RunsInv, Rows
    <3>2. CASE run \notin Runs
      BY <3>2, <1>1 DEF RunsInv, Rows
    <3> QED
      BY <3>1, <3>2
  <2> QED
    BY <2>1, <1>1 DEF RunsInv, Rows, Running
<1>6. OneExecutor'
  BY <1>3 DEF RunsInv, OneExecutor
<1>7. Executors'
  <2> SUFFICES ASSUME NEW q \in Procs, NEW i \in Runs
               PROVE  /\ Executes(q, i)' => /\ status[i] = "running" /\ i \notin stale
                                            /\ i \in tooled' => local'[q].acts
                      /\ pc[q] = "after" /\ local'[q].run = i => i \in Ended
    BY <1>1 DEF Executors, Ended
  <2>1. CASE q = p
    BY <2>1, <1>1, <1>2, <1>3 DEF RunsInv, Executors
  <2>2. CASE q # p
    <3>1. Executes(q, i)' => i # run
      BY <1>3, <1>4, <2>2 DEF RunsInv, OneExecutor
    <3> QED
      BY <2>2, <3>1, <1>1, <1>3 DEF RunsInv, Executors
  <2> QED
    BY <2>1, <2>2
<1>8. Tools'
  BY <1>1, <1>4 DEF RunsInv, Tools, Rows
<1>9. Executions'
  BY <1>1, <1>2 DEF RunsInv, Executions, Chances
<1> QED
  BY <1>5, <1>6, <1>7, <1>8, <1>9 DEF RunsInv

-----------------------------------------------------------------------------
(* One step of the specification.                                          *)

\* A step that leaves the rows alone and puts p where it holds no run.
LEMMA AsideKeeps ==
    ASSUME RunsInv, NEW p \in Procs, Forms', Aside(p), UNCHANGED <<rows, begun, acted>>
    PROVE  RunsInv'
BY AsideIsSteady, QuietKeeps

LEMMA NextRuns ==
    ASSUME "slow" \notin Events, RunsInv, [Next]_vars
    PROVE  RunsInv'
<1> USE DEF RunsInv
<1>1. ASSUME NEW p \in Procs, EmitEvent(p) \/ Request(p) PROVE RunsInv'
  <2>1. Forms' /\ Aside(p)
    <3>1. \E place \in {"dispatch", "check"} : Go(p, place)
      BY <1>1 DEF EmitEvent, Request
    <3>2. UNCHANGED local
      BY <1>1 DEF EmitEvent, Request
    <3> QED
      BY <3>1, <3>2, GoAside DEF Places, Busy
  <2> QED
    BY <1>1, <2>1, AsideKeeps DEF EmitEvent, Request, history
<1>2. ASSUME NEW p \in Procs, TickStart(p) PROVE RunsInv'
  <2>1. Forms' /\ Aside(p)
    <3>1. PICK S : local \in [Procs -> FieldsIn(S)]
      BY DEF Forms
    <3>2. Elsewhere(p)
      BY <1>2, GoElsewhere DEF TickStart, Forms, Places, Busy
    <3> DEFINE seen == IF trigger.due THEN trigger.next ELSE 0
               T == S \cup {seen, trigger.overdue}
               f == [local[p] EXCEPT !.seen = seen, !.overdue = trigger.overdue]
    <3>3. local' = [local EXCEPT ![p] = f]
      BY <1>2 DEF TickStart
    <3> HIDE DEF seen
    <3>4. f \in FieldsIn(T)
      BY <3>1 DEF FieldsIn
    <3> HIDE DEF f, T
    <3> QED
      BY <3>1, <3>2, <3>3, <3>4, FieldsChange DEF Forms, Aside, Elsewhere
  <2>2. ReapAndExpire({}) /\ UNCHANGED history
    BY <1>2 DEF TickStart, Reap
  <2> QED
    BY <2>1, <2>2, AsideIsSteady, ReapKeeps
<1>3. ASSUME NEW p \in Procs, ToolCall(p) PROVE RunsInv'
  <2>1. PICK S : local \in [Procs -> FieldsIn(S)]
    BY DEF Forms
  <2> DEFINE f == [local[p] EXCEPT !.acts = TRUE]
             T == S \cup {TRUE}
  <2>2. local' = [local EXCEPT ![p] = f]
    BY <1>3 DEF ToolCall
  <2>3. f \in FieldsIn(T) /\ f.run = local[p].run /\ f.acts = TRUE
    BY <2>1 DEF FieldsIn
  <2> HIDE DEF f, T
  <2>4. Forms' /\ local'[p] = f /\ \A q \in Procs \ {p} : local'[q] = local[q]
    BY <1>3, <2>1, <2>2, <2>3, FieldsChange DEF Forms, ToolCall
  <2> QED
    BY <1>3, <2>3, <2>4, ToolCallKeeps
<1>4. ASSUME NEW p \in Procs, Kill(p) PROVE RunsInv'
  <2>1. PICK S : local \in [Procs -> FieldsIn(S)]
    BY DEF Forms
  <2>2. Elsewhere(p)
    BY <1>4, GoElsewhere DEF Kill, Forms, Places, Busy
  <2>3. NoLocal \in FieldsIn({0, FALSE})
    BY DEF NoLocal, FieldsIn
  <2>4. local' = [local EXCEPT ![p] = NoLocal]
    BY <1>4 DEF Kill
  <2>5. Forms' /\ Aside(p)
    BY <2>1, <2>2, <2>3, <2>4, FieldsChange DEF Forms, Aside, Elsewhere
  <2> QED
    BY <1>4, <2>5, AsideKeeps DEF Kill, history
<1>5. ASSUME NEW p \in Procs, Dispatch(p) PROVE RunsInv'
  <2>1. CASE Reap /\ Go(p, "check") /\ UNCHANGED local
    <3>1. Forms' /\ Aside(p)
      BY <2>1, GoAside DEF Places, Busy
    <3> QED
      BY <1>5, <2>1, <3>1, AsideIsSteady, ReapKeeps DEF Reap, Dispatch
  <2>2. CASE Leave(p) /\ UNCHANGED rows
    BY <1>5, <2>2, LeaveAside, AsideKeeps DEF Dispatch, history
  <2> QED
    BY <1>5, <2>1, <2>2 DEF Dispatch
<1>6. ASSUME NEW p \in Procs, Check(p) \/ Count(p) PROVE RunsInv'
  <2>1. \/ \E place \in {"create", "count", "insert"} : Go(p, place) /\ UNCHANGED local
        \/ Leave(p)
    BY <1>6 DEF Check, Count
  <2>2. Forms' /\ Aside(p)
    BY <2>1, LeaveAside, GoAside DEF Places, Busy
  <2> QED
    BY <1>6, <2>2, AsideKeeps DEF Check, Count, history
<1>7. ASSUME NEW p \in Procs, Create(p) PROVE RunsInv'
  <2>1. PICK r \in Runs :
            /\ Row(r, "running", KindOf(p))
            /\ local' = [local EXCEPT ![p].run = r, ![p].ran = TRUE]
            /\ begun' = [begun EXCEPT ![r] = @ + 1]
    BY <1>7 DEF Create
  <2>2. PICK S : local \in [Procs -> FieldsIn(S)]
    BY DEF Forms
  <2> DEFINE f == [local[p] EXCEPT !.run = r, !.ran = TRUE]
             T == S \cup {r, TRUE}
  <2>3. local' = [local EXCEPT ![p] = f]
    BY <2>1
  <2>4. f \in FieldsIn(T) /\ f.run = r
    BY <2>2 DEF FieldsIn
  <2> HIDE DEF f, T
  <2>5. pc' = [pc EXCEPT ![p] = "exec"]
    BY <1>7 DEF Create, Go
  <2>6. /\ Forms' /\ pc'[p] = "exec" /\ local'[p].run = r
        /\ \A q \in Procs \ {p} : Steady(q)
    BY <2>2, <2>3, <2>4, <2>5, FieldsChange DEF Forms, Steady, Places, Busy
  <2> QED
    BY <1>7, <2>1, <2>6, CreateKeeps DEF Create
<1>8. ASSUME NEW p \in Procs, CreateThrows(p) PROVE RunsInv'
  BY <1>8, LeaveAside, AsideKeeps DEF CreateThrows, history
<1>9. ASSUME NEW p \in Procs, Insert(p) PROVE RunsInv'
  BY <1>9, LeaveAside, AsideIsSteady, InsertKeeps DEF Insert
<1>10. ASSUME NEW p \in Procs, Finish(p) PROVE RunsInv'
  <2>1. pc' = [pc EXCEPT ![p] = "after"] /\ UNCHANGED local
    BY <1>10 DEF Finish, Go
  <2>2. /\ Forms' /\ pc'[p] = "after" /\ local'[p].run = local[p].run
        /\ \A q \in Procs \ {p} : Steady(q)
    BY <2>1 DEF Forms, Steady, Places, Busy
  <2>3. pc[p] \in Busy
    BY <1>10 DEF Finish, Busy
  <2>4. PICK outcome \in {"done", "error"} : Finalize(local[p].run, outcome)
    BY <1>10 DEF Finish
  <2> QED
    BY <1>10, <2>2, <2>3, <2>4, FinalizeKeeps DEF Finish
<1>11. ASSUME NEW p \in Procs, After(p) PROVE RunsInv'
  <2>1. Forms' /\ Aside(p)
    BY <1>11, LeaveAside DEF After
  <2>2. CASE UNCHANGED rows
    BY <1>11, <2>1, <2>2, AsideKeeps DEF After, history
  <2>3. CASE Finalize(local[p].run, "error")
    <3>1. /\ pc[p] \in Busy
          /\ pc'[p] \notin {"begin", "exec"}
          /\ pc'[p] = "after" => local'[p].run = local[p].run
      BY <1>11, <2>1 DEF After, Aside, Busy
    <3>2. \A q \in Procs \ {p} : Steady(q)
      BY <2>1, AsideIsSteady
    <3> QED
      BY <1>11, <2>1, <2>3, <3>1, <3>2, FinalizeKeeps DEF After
  <2> QED
    BY <1>11, <2>2, <2>3 DEF After
<1>12. ASSUME NEW p \in Procs, NEW n, EndDrain(p, n) PROVE Forms' /\ Aside(p)
  <2>1. PICK S : local \in [Procs -> FieldsIn(S)]
    BY DEF Forms
  <2>2. CASE n = 1
    <3> DEFINE f == [local[p] EXCEPT !.drains = 1]
               T == S \cup {1}
    <3>1. f \in FieldsIn(T)
      BY <2>1 DEF FieldsIn
    <3>2. local' = [local EXCEPT ![p] = f]
      BY <1>12, <2>2 DEF EndDrain
    <3>3. Elsewhere(p)
      BY <1>12, <2>2, GoElsewhere DEF EndDrain, Forms, Places, Busy
    <3> HIDE DEF f, T
    <3> QED
      BY <2>1, <3>1, <3>2, <3>3, FieldsChange DEF Forms, Aside, Elsewhere
  <2>3. CASE n # 1
    <3>1. NoLocal \in FieldsIn({0, FALSE})
      BY DEF NoLocal, FieldsIn
    <3>2. local' = [local EXCEPT ![p] = NoLocal]
      BY <1>12, <2>3 DEF EndDrain
    <3>3. Elsewhere(p)
      BY <1>12, <2>3, GoElsewhere DEF EndDrain, Forms, Places, Busy
    <3> QED
      BY <2>1, <3>1, <3>2, <3>3, FieldsChange DEF Forms, Aside, Elsewhere
  <2> QED
    BY <2>2, <2>3
<1>13. ASSUME NEW p \in Procs, Drain(p) PROVE RunsInv'
  <2>1. CASE HasQueued
    <3>1. PICK S : local \in [Procs -> FieldsIn(S)]
      BY DEF Forms
    <3> DEFINE f == [local[p] EXCEPT !.drains = @ + 1]
               T == S \cup {local[p].drains + 1}
    <3>2. f \in FieldsIn(T)
      BY <3>1 DEF FieldsIn
    <3>3. local' = [local EXCEPT ![p] = f]
      BY <1>13, <2>1 DEF Drain
    <3>4. Elsewhere(p)
      BY <1>13, <2>1, GoElsewhere DEF Drain, Forms, Places, Busy
    <3> HIDE DEF f, T
    <3>5. Forms' /\ Aside(p)
      BY <3>1, <3>2, <3>3, <3>4, FieldsChange DEF Forms, Aside, Elsewhere
    <3>6. ReapAndExpire(expired) /\ UNCHANGED history
      BY <1>13, <2>1 DEF Drain
    <3> QED
      BY <3>5, <3>6, AsideIsSteady, ReapKeeps
  <2>2. CASE ~HasQueued
    BY <1>12, <1>13, <2>2, AsideKeeps DEF Drain, history
  <2> QED
    BY <2>1, <2>2
<1>14. ASSUME NEW p \in Procs, Slot(p) PROVE RunsInv'
  <2>1. Forms' /\ Aside(p)
    BY <1>12, <1>14, GoAside DEF Slot, Places, Busy
  <2> QED
    BY <1>14, <2>1, AsideKeeps DEF Slot, history
<1>15. ASSUME NEW p \in Procs, Pick(p) PROVE RunsInv'
  <2>1. CASE Queued = {}
    BY <1>12, <1>15, <2>1, AsideKeeps DEF Pick, history
  <2>2. CASE Queued # {}
    <3>1. PICK S : local \in [Procs -> FieldsIn(S)]
      BY DEF Forms
    <3>0. PICK first \in Oldest : local' = [local EXCEPT ![p].run = first]
      BY <1>15, <2>2 DEF Pick
    <3> DEFINE f == [local[p] EXCEPT !.run = first]
               T == S \cup {first}
    <3>2. local' = [local EXCEPT ![p] = f]
      BY <3>0
    <3>3. Elsewhere(p)
      BY <1>15, <2>2, GoElsewhere DEF Pick, Forms, Places, Busy
    <3>4. f \in FieldsIn(T)
      BY <3>1 DEF FieldsIn
    <3> HIDE DEF f, T
    <3>5. Forms' /\ Aside(p)
      BY <3>1, <3>2, <3>3, <3>4, FieldsChange DEF Forms, Aside, Elsewhere
    <3> QED
      BY <1>15, <3>5, AsideKeeps DEF Pick, history
  <2> QED
    BY <2>1, <2>2
<1>16. ASSUME NEW p \in Procs, Claim(p) PROVE RunsInv'
  <2>1. CASE Claimable(local[p].run)
    <3>1. pc' = [pc EXCEPT ![p] = "begin"] /\ UNCHANGED local
      BY <1>16, <2>1 DEF Claim, Go
    <3>2. Forms'
      BY <3>1 DEF Forms, Places, Busy
    <3> QED
      BY <1>16, <2>1, <3>2, ClaimKeeps
  <2>2. CASE ~Claimable(local[p].run)
    <3>1. PICK S : local \in [Procs -> FieldsIn(S)]
      BY DEF Forms
    <3> DEFINE f == [local[p] EXCEPT !.run = 0]
               T == S \cup {0}
    <3>2. local' = [local EXCEPT ![p] = f]
      BY <1>16, <2>2 DEF Claim
    <3>3. Elsewhere(p)
      BY <1>16, <2>2, GoElsewhere DEF Claim, Forms, Places, Busy
    <3>4. f \in FieldsIn(T)
      BY <3>1 DEF FieldsIn
    <3> HIDE DEF f, T
    <3>5. Forms' /\ Aside(p)
      BY <3>1, <3>2, <3>3, <3>4, FieldsChange DEF Forms, Aside, Elsewhere
    <3>6. UNCHANGED <<rows, begun, acted>>
      BY <1>16, <2>2 DEF Claim, history
    <3> QED
      BY <3>5, <3>6, AsideKeeps
  <2> QED
    BY <2>1, <2>2
<1>17. ASSUME NEW p \in Procs, Begin(p) PROVE RunsInv'
  <2>1. PICK S : local \in [Procs -> FieldsIn(S)]
    BY DEF Forms
  <2> DEFINE f == [local[p] EXCEPT !.ran = TRUE]
             T == S \cup {TRUE}
  <2>2. local' = [local EXCEPT ![p] = f]
    BY <1>17 DEF Begin
  <2>3. f \in FieldsIn(T) /\ f.run = local[p].run /\ f.acts = local[p].acts
    BY <2>1 DEF FieldsIn
  <2> HIDE DEF f, T
  <2>4. pc' = [pc EXCEPT ![p] = "exec"]
    BY <1>17 DEF Begin, Go
  <2>5. Forms' /\ local'[p] = f /\ \A q \in Procs \ {p} : local'[q] = local[q]
    BY <2>1, <2>2, <2>3, <2>4, FieldsChange DEF Forms, Places, Busy
  <2> QED
    BY <1>17, <2>3, <2>5, BeginKeeps DEF Begin
<1>18. ASSUME NEW p \in Procs, BeginFails(p) PROVE RunsInv'
  <2>1. Forms' /\ Aside(p) /\ pc[p] = "begin" /\ UNCHANGED history
    BY <1>18, LeaveAside DEF BeginFails
  <2>2. CASE Finalize(local[p].run, "error")
    <3>1. /\ pc[p] \in Busy
          /\ pc'[p] \notin {"begin", "exec"}
          /\ pc'[p] = "after" => local'[p].run = local[p].run
      BY <2>1 DEF Aside, Busy
    <3>2. \A q \in Procs \ {p} : Steady(q)
      BY <2>1, AsideIsSteady
    <3> QED
      BY <2>1, <2>2, <3>1, <3>2, FinalizeKeeps
  <2>3. CASE UNCHANGED rows
    BY <2>1, <2>3, AsideKeeps DEF history
  <2> QED
    BY <1>18, <2>2, <2>3 DEF BeginFails
<1>19. ASSUME NEW p \in Procs, NextDrain(p) PROVE Forms' /\ Aside(p)
  <2>1. PICK S : local \in [Procs -> FieldsIn(S)]
    BY DEF Forms
  <2> DEFINE f == [local[p] EXCEPT !.seen = 0]
             T == S \cup {0}
  <2>2. f \in FieldsIn(T)
    BY <2>1 DEF FieldsIn
  <2>3. local' = [local EXCEPT ![p] = f]
    BY <1>19 DEF NextDrain
  <2>4. Elsewhere(p)
    BY <1>19, GoElsewhere DEF NextDrain, Forms, Places, Busy
  <2> HIDE DEF f, T
  <2> QED
    BY <2>1, <2>2, <2>3, <2>4, FieldsChange DEF Forms, Aside, Elsewhere
<1>20. ASSUME NEW p \in Procs, Trigger(p) PROVE RunsInv'
  <2>1. Forms' /\ Aside(p)
    <3>1. NextDrain(p) \/ (Go(p, "take") /\ UNCHANGED local)
      BY <1>20 DEF Trigger
    <3> QED
      BY <3>1, <1>19, GoAside DEF Places, Busy
  <2> QED
    BY <1>20, <2>1, AsideKeeps DEF Trigger, history
<1>21. ASSUME NEW p \in Procs, Take(p) PROVE RunsInv'
  <2>1. CASE Unclaimed(p)
    <3>1. PICK S : local \in [Procs -> FieldsIn(S)]
      BY DEF Forms
    <3> DEFINE f == [local[p] EXCEPT !.triggered = TRUE]
               T == S \cup {TRUE}
    <3>2. local' = [local EXCEPT ![p] = f]
      BY <1>21, <2>1 DEF Take
    <3>3. Elsewhere(p)
      BY <1>21, <2>1, GoElsewhere DEF Take, Forms, Places, Busy
    <3>4. f \in FieldsIn(T)
      BY <3>1 DEF FieldsIn
    <3> HIDE DEF f, T
    <3>5. Forms' /\ Aside(p)
      BY <3>1, <3>2, <3>3, <3>4, FieldsChange DEF Forms, Aside, Elsewhere
    <3> QED
      BY <1>21, <3>5, AsideKeeps DEF Take
  <2>2. CASE ~Unclaimed(p)
    BY <1>19, <1>21, <2>2, AsideKeeps DEF Take
  <2> QED
    BY <2>1, <2>2
<1>22. ASSUME NEW r \in Runs, GoesStale(r) PROVE RunsInv'
  <2>1. \A p \in Procs : Steady(p)
    BY <1>22 DEF GoesStale, Steady
  <2>2. /\ stale' \subseteq Running
        /\ \A p \in Procs, i \in Runs : Executes(p, i) => i \notin stale'
    BY <1>22 DEF GoesStale, Rows, Executors
  <2>3. Forms' /\ UNCHANGED <<status, requeued, tooled, expired, begun, acted>>
    BY <1>22 DEF GoesStale, Forms, history
  <2> QED
    BY <2>1, <2>2, <2>3, ClockKeeps DEF Rows
<1>23. ASSUME NEW r \in Runs, WaitsTooLong(r) PROVE RunsInv'
  <2>1. \A p \in Procs : Steady(p)
    BY <1>23 DEF WaitsTooLong, Steady
  <2>2. /\ stale' \subseteq Running
        /\ \A p \in Procs, i \in Runs : Executes(p, i) => i \notin stale'
    BY <1>23 DEF WaitsTooLong, Rows, Executors
  <2>3. Forms' /\ UNCHANGED <<status, requeued, tooled, begun, acted>>
    BY <1>23 DEF WaitsTooLong, Forms, history
  <2>4. expired' \subseteq {i \in Runs : status[i] = "queued"}
    BY <1>23 DEF WaitsTooLong, Rows, Queued
  <2> QED
    BY <2>1, <2>2, <2>3, <2>4, ClockKeeps
<1>24. CASE CoolsDown \/ ComesDue \/ UNCHANGED vars
  <2>1. UNCHANGED <<rows, pc, local, begun, acted>>
    BY <1>24 DEF CoolsDown, ComesDue, vars, history
  <2>2. Forms' /\ \A p \in Procs : Steady(p)
    BY <2>1 DEF Forms, Steady
  <2> QED
    BY <2>1, <2>2, QuietKeeps
<1> QED
  BY <1>1, <1>2, <1>3, <1>4, <1>5, <1>6, <1>7, <1>8, <1>9, <1>10, <1>11, <1>13, <1>14,
     <1>15, <1>16, <1>17, <1>18, <1>20, <1>21, <1>22, <1>23, <1>24
     DEF Next, Proceed, Procs

-----------------------------------------------------------------------------
(* The theorems.                                                           *)

LEMMA InitRuns == Init => RunsInv
<1> SUFFICES ASSUME Init PROVE RunsInv
  OBVIOUS
<1>1. NoLocal \in FieldsIn({0, FALSE})
  BY DEF NoLocal, FieldsIn
<1>2. Forms
  BY <1>1 DEF Init, Forms, Places, Busy
<1>3. \A p \in Procs : pc[p] = "idle"
  BY DEF Init
<1>4. Rows /\ Tools
  BY DEF Init, Rows, Tools, Running
<1>5. OneExecutor /\ Executors
  BY <1>3 DEF OneExecutor, Executors, Executes
<1>6. Executions
  BY <1>3 DEF Init, Executions, Chances
<1> QED
  BY <1>2, <1>4, <1>5, <1>6 DEF RunsInv

\* Whatever is killed, thrown or unavailable, runs keep the invariant above.
THEOREM RunsInvariant ==
    ASSUME "slow" \notin Events
    PROVE  Spec => []RunsInv
<1>1. RunsInv /\ [Next]_vars => RunsInv'
  BY NextRuns
<1> QED
  BY <1>1, InitRuns, PTL DEF Spec

\* No run is executed by two invocations at once: claims of overlapping ticks, wakes,
\* requests and the reaper together (queue.ts, drainCrewQueue; store.ts, reapStaleRuns).
THEOREM ExecutorIsAlone ==
    ASSUME "slow" \notin Events
    PROVE  Spec => []OneExecutor
<1>1. RunsInv => OneExecutor
  BY DEF RunsInv
<1> QED
  BY <1>1, RunsInvariant, PTL

\* Nothing a run did is done again (the comment of reapStaleRuns).
THEOREM ToolsAreNotRepeated ==
    ASSUME "slow" \notin Events
    PROVE  Spec => []NothingRepeats
<1>1. RunsInv => NothingRepeats
  BY DEF RunsInv, Tools, NothingRepeats
<1> QED
  BY <1>1, RunsInvariant, PTL

\* A step that changes a status changes that of a run that has not ended.
LEMMA StepKeepsOutcome ==
    ASSUME {"slow", "throws"} \cap Events = {}, RunsInv, [Next]_vars
    PROVE  \A r \in Ended : status'[r] = status[r]
<1> SUFFICES ASSUME NEW r \in Ended
             PROVE  status'[r] = status[r]
  OBVIOUS
<1>0. r \in Runs /\ status[r] \in {"done", "error"}
  BY DEF Ended
<1>1. ASSUME NEW old \in SUBSET expired, ReapAndExpire(old)
      PROVE  status'[r] = status[r]
  BY <1>0, <1>1 DEF RunsInv, Rows, Running, ReapAndExpire, Abandoned, BackToQueue,
                    SecondChance
<1>2. ASSUME NEW p \in Procs, NEW outcome, Finalize(local[p].run, outcome),
             pc[p] \in {"begin", "exec"}
      PROVE  status'[r] = status[r]
  <2>1. local[p].run # r
    BY <1>0, <1>2 DEF RunsInv, Executors, Executes
  <2> QED
    BY <1>2, <2>1, <1>0 DEF Finalize, RunsInv, Rows
<1>3. ASSUME NEW i \in Runs, NEW s, NEW k, Row(i, s, k)
      PROVE  status'[r] = status[r]
  BY <1>0, <1>3 DEF Row, Fresh, RunsInv, Rows
<1>4. ASSUME NEW p \in Procs, Proceed(p)
      PROVE  status'[r] = status[r]
  <2>1. CASE Dispatch(p)
    BY <1>1, <2>1 DEF Dispatch, Reap, rows
  <2>2. CASE Check(p) \/ Count(p) \/ CreateThrows(p)
    BY <2>2 DEF Check, Count, CreateThrows, rows
  <2>3. CASE Create(p) \/ Insert(p)
    BY <1>3, <2>3 DEF Create, Insert
  <2>4. CASE Finish(p)
    BY <1>2, <2>4 DEF Finish
  <2>5. CASE After(p)
    BY <2>5 DEF After, rows
  <2>6. CASE Drain(p)
    BY <1>1, <2>6 DEF Drain, rows
  <2>7. CASE Slot(p) \/ Pick(p) \/ Begin(p) \/ Trigger(p) \/ Take(p)
    BY <2>7 DEF Slot, Pick, Begin, Trigger, Take, rows
  <2>8. CASE Claim(p)
    BY <1>0, <2>8 DEF Claim, Claimable, RunsInv, Rows, rows
  <2>9. CASE BeginFails(p)
    BY <1>2, <2>9 DEF BeginFails, rows
  <2> QED
    BY <1>4, <2>1, <2>2, <2>3, <2>4, <2>5, <2>6, <2>7, <2>8, <2>9 DEF Proceed
<1>5. ASSUME NEW p \in Procs, EmitEvent(p) \/ Request(p) \/ ToolCall(p) \/ Kill(p)
      PROVE  status'[r] = status[r]
  BY <1>5 DEF EmitEvent, Request, ToolCall, Kill, rows
<1>6. ASSUME NEW p \in Procs, TickStart(p)
      PROVE  status'[r] = status[r]
  BY <1>1, <1>6 DEF TickStart, Reap
<1>7. ASSUME NEW i \in Runs, GoesStale(i) \/ WaitsTooLong(i)
      PROVE  status'[r] = status[r]
  BY <1>7 DEF GoesStale, WaitsTooLong
<1>8. CASE CoolsDown \/ ComesDue \/ UNCHANGED vars
  BY <1>8 DEF CoolsDown, ComesDue, vars, rows
<1> QED
  BY <1>4, <1>5, <1>6, <1>7, <1>8 DEF Next, Procs

\* A finished run stays as it ended, as long as no statement throws after its finalize
\* (run-loop.ts, finalize; store.ts, reapStaleRuns; queue.ts, expireOld).
THEOREM OutcomesAreFinal ==
    ASSUME {"slow", "throws"} \cap Events = {}
    PROVE  Spec => OutcomeIsFinal
<1>1. "slow" \notin Events
  OBVIOUS
<1>2. RunsInv /\ [Next]_vars => [\A r \in Ended : status'[r] = status[r]]_vars
  BY StepKeepsOutcome
<1> QED
  BY <1>1, <1>2, RunsInvariant, PTL DEF Spec, OutcomeIsFinal
=============================================================================
