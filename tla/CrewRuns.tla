------------------------------ MODULE CrewRuns ------------------------------
(***************************************************************************)
(* The runs of one owner's crew: shareout-app/src/crew/ triggers.ts,       *)
(* queue.ts, store.ts (createRun, reapStaleRuns), limits.ts, dispatch.ts   *)
(* and the control flow of run-loop.ts.                                    *)
(*                                                                         *)
(* Three kinds of Worker invocation start runs: an event wake              *)
(* (emitCrewEvent, inside waitUntil), a request for one (startCrewRunStream*)
(* and runCrewForArtifact) and the hourly tick (runDueCrewTriggers).  They *)
(* share D1 and nothing else.  A step is one D1 statement with the         *)
(* synchronous code around it; statements that touch unrelated rows, and   *)
(* the two updates of the reaper, which only the clock tells apart, are    *)
(* taken together.                                                         *)
(***************************************************************************)
EXTENDS Integers, FiniteSets

CONSTANTS
    Wakes,          \* invocations of emitCrewEvent
    Requests,       \* invocations of startCrewRunStream and runCrewForArtifact
    Ticks,          \* invocations of runDueCrewTriggers
    Cap,            \* max_concurrent_runs of the owner's plan
    QueueMax,       \* QUEUE_MAX_PER_OWNER
    MaxRuns,        \* a bound on the runs ever started
    MaxOccurrences, \* a bound on the times the trigger comes due
    MaxKills,       \* a bound on killed invocations
    TriggerKind,    \* of the scheduled trigger
    Events          \* the environment's events that may happen, see EventKinds

\* What may go wrong around the runs.
\*   throws       a D1 statement or the owner's data context throws
\*   unavailable  the crew is gone or inactive, or its owner is disabled
\*   slow         a run outlives STALE_RUN_SECONDS
EventKinds == {"throws", "unavailable", "slow"}

ASSUME CrewRunsAssumption ==
    /\ Cap \in Nat \ {0} /\ QueueMax \in Nat
    /\ MaxRuns \in Nat /\ MaxOccurrences \in Nat /\ MaxKills \in Nat
    /\ Wakes \cap Requests = {} /\ Wakes \cap Ticks = {} /\ Requests \cap Ticks = {}
    /\ TriggerKind \in {"cron", "condition"}
    /\ Events \subseteq EventKinds

Runs == 1..MaxRuns
Procs == Wakes \cup Requests \cup Ticks

VARIABLES
    \* crew_runs and crew_run_events
    status,
    kind,      \* trigger_kind
    requeued,  \* the runs whose termination_reason is 'requeued'
    tooled,    \* the runs with a tool_call event
    ahead,     \* <<a, b>>: both are queued, and a's started_at is the earlier
    stale,     \* the running ones that started more than STALE_RUN_SECONDS ago
    expired,   \* the queued ones older than QUEUE_MAX_AGE_HOURS
    \* crew_triggers
    cooling,   \* the event trigger ran less than its cooldown ago
    trigger,   \* the scheduled one: which next_run_at, past it, past it by 6 hours
    \* the invocations
    pc,
    local,
    kills,
    \* history
    begun,     \* times each run was executed
    acted,     \* executions of each run that called a tool
    taken      \* claims of each next_run_at

rows == <<status, kind, requeued, tooled, ahead, stale, expired>>
history == <<begun, acted, taken>>
vars == <<rows, cooling, trigger, pc, local, kills, history>>

Fresh == {r \in Runs : status[r] = "none"}
Queued == {r \in Runs : status[r] = "queued"}
Running == {r \in Runs : status[r] = "running"}
Ended == {r \in Runs : status[r] \in {"done", "error"}}

\* run: the run it is starting or executing; acts: that execution has called a tool.
\* A tick: the next_run_at it selected and whether that is overdue, which of its two
\* drains it is in or past, whether it executes for the trigger, has executed a run.
NoLocal == [run |-> 0, acts |-> FALSE, seen |-> 0, overdue |-> FALSE, drains |-> 0,
            triggered |-> FALSE, ran |-> FALSE]

IsTotalOrder(o, S) ==
    /\ o \subseteq S \X S
    /\ \A a, b \in S : <<a, b>> \in o <=> a # b /\ <<b, a>> \notin o
    /\ \A a, b, c \in S : <<a, b>> \in o /\ <<b, c>> \in o => <<a, c>> \in o

TypeOK ==
    /\ status \in [Runs -> {"none", "queued", "running", "done", "error"}]
    /\ kind \in [Runs -> {"event", "manual", TriggerKind}]
    /\ requeued \subseteq Runs /\ tooled \subseteq Runs
    /\ IsTotalOrder(ahead, Queued)
    /\ stale \subseteq Running
    /\ expired \subseteq Queued
    /\ cooling \in BOOLEAN
    /\ trigger \in [next : Nat, due : BOOLEAN, overdue : BOOLEAN]
    /\ pc \in [Procs -> {"idle", "dispatch", "check", "create", "count", "insert",
                         "exec", "after", "drain", "slot", "pick", "claim", "begin",
                         "trigger", "take"}]
    /\ local \in [Procs -> [run : 0..MaxRuns, acts : BOOLEAN, seen : Nat,
                            overdue : BOOLEAN, drains : 0..2, triggered : BOOLEAN,
                            ran : BOOLEAN]]
    /\ kills \in 0..MaxKills
    /\ begun \in [Runs -> Nat] /\ acted \in [Runs -> Nat]
    /\ taken \in [1..MaxOccurrences + MaxRuns + 1 -> Nat]

Init ==
    /\ status = [r \in Runs |-> "none"]
    /\ kind = [r \in Runs |-> "manual"]
    /\ requeued = {} /\ tooled = {} /\ ahead = {} /\ stale = {} /\ expired = {}
    /\ cooling = FALSE
    /\ trigger = [next |-> 1, due |-> FALSE, overdue |-> FALSE]
    /\ pc = [p \in Procs |-> "idle"]
    /\ local = [p \in Procs |-> NoLocal]
    /\ kills = 0
    /\ begun = [r \in Runs |-> 0]
    /\ acted = [r \in Runs |-> 0]
    /\ taken = [n \in 1..MaxOccurrences + MaxRuns + 1 |-> 0]

-----------------------------------------------------------------------------
(* Limits and the reaper.                                                  *)

AtCapacity == Cardinality(Running) >= Cap

RowsLeft(gone) == ahead \cap ((Queued \ gone) \X (Queued \ gone))

\* A dead event run that never called a tool goes back to the queue, once.
ForgetsRequeue(r) == r \in stale /\ kind[r] = "event" /\ r \notin tooled
ForgetsTools(r) == r \in stale /\ kind[r] = "event" /\ r \notin requeued
SecondChance(r) == r \in stale /\ kind[r] = "event" /\ r \notin requeued /\ r \notin tooled
BackToQueue == {r \in Runs : SecondChance(r)}

\* The requeued get one started_at, and ids are in no order.
Orders(S) == {o \in SUBSET (S \X S) : IsTotalOrder(o, S)}

\* The other dead runs, and for a drain what waited too long, end.
AbandonsNothing(old) == old
Abandoned(old) == (stale \ BackToQueue) \cup old

\* reapStaleRuns; then, for a drain, expireOld.
ReapAndExpire(old) ==
    /\ status' = [r \in Runs |-> IF r \in BackToQueue THEN "queued"
                                 ELSE IF r \in Abandoned(old) THEN "error" ELSE status[r]]
    /\ requeued' = (requeued \cup BackToQueue) \ Abandoned(old)
    /\ \E o \in Orders(BackToQueue) :
          ahead' = RowsLeft(old) \cup (Queued \ old) \X BackToQueue \cup o
    /\ stale' = {}
    /\ expired' = expired \ old
    /\ UNCHANGED <<kind, tooled>>
Reap == ReapAndExpire({})

-----------------------------------------------------------------------------
(* Going on after a dispatch.                                              *)

Go(p, place) == pc' = [pc EXCEPT ![p] = place]

\* A tick goes on to its second drain after the trigger, and to the next slot after
\* a queued run; the others are over.
Leave(p) ==
    IF p \notin Ticks
    THEN Go(p, "idle") /\ local' = [local EXCEPT ![p] = NoLocal]
    ELSE /\ Go(p, IF local[p].drains = 1 /\ local[p].triggered THEN "drain" ELSE "slot")
         /\ local' = [local EXCEPT ![p] = [@ EXCEPT !.run = 0, !.acts = FALSE, !.triggered = FALSE]]

\* Every write of next_run_at is a new time in the future.
SetNextRun == trigger' = [next |-> trigger.next + 1, due |-> FALSE, overdue |-> FALSE]

-----------------------------------------------------------------------------
(* emitCrewEvent, startCrewRunStream, runCrewForArtifact.                  *)

\* Run ids are left for whoever is on its way to a new row.
Starting == {p \in Procs : pc[p] \in {"dispatch", "check", "create", "count", "insert"}
                             \/ local[p].seen # 0}
RunsLeft == Cardinality(Fresh) > Cardinality(Starting) + (IF trigger.due THEN 1 ELSE 0)

\* The event trigger is claimed by its cooldown.
EmitEvent(p) ==
    /\ pc[p] = "idle" /\ RunsLeft
    /\ ~cooling
    /\ cooling' = TRUE
    /\ Go(p, "dispatch")
    /\ UNCHANGED <<rows, trigger, local, kills, history>>

\* runCrewForArtifact does not reap.
Request(p) ==
    /\ pc[p] = "idle" /\ RunsLeft
    /\ \E place \in {"dispatch", "check"} : Go(p, place)
    /\ UNCHANGED <<rows, cooling, trigger, local, kills, history>>

\* dispatchCrewRun: the crew's and the owner's status, then the reaper.
Dispatch(p) ==
    /\ pc[p] = "dispatch"
    /\ \/ Reap /\ Go(p, "check") /\ UNCHANGED local
       \/ "unavailable" \in Events /\ Leave(p) /\ UNCHANGED rows
    /\ UNCHANGED <<cooling, trigger, kills, history>>

\* At capacity an event is queued; a request is refused; an occurrence of the
\* scheduled trigger, claimed by now, is gone.
Check(p) ==
    /\ pc[p] = "check"
    /\ IF ~AtCapacity THEN Go(p, "create") /\ UNCHANGED local
       ELSE IF p \in Wakes THEN Go(p, "count") /\ UNCHANGED local
       ELSE Leave(p)
    /\ UNCHANGED <<rows, cooling, trigger, kills, history>>

KindOf(p) == IF p \in Wakes THEN "event" ELSE IF p \in Requests THEN "manual" ELSE TriggerKind

\* Ids are given out in order.
Row(r, s, k) ==
    /\ r \in Fresh /\ \A q \in Fresh : r <= q
    /\ status' = [status EXCEPT ![r] = s]
    /\ kind' = [kind EXCEPT ![r] = k]
    /\ ahead' = IF s = "queued" THEN ahead \cup Queued \X {r} ELSE ahead
    /\ UNCHANGED <<requeued, tooled, stale, expired>>

\* createRun, and the run begins.
Create(p) ==
    /\ pc[p] = "create"
    /\ \E r \in Runs :
          /\ Row(r, "running", KindOf(p))
          /\ local' = [local EXCEPT ![p].run = r, ![p].ran = TRUE]
          /\ begun' = [begun EXCEPT ![r] = @ + 1]
    /\ Go(p, "exec")
    /\ UNCHANGED <<cooling, trigger, kills, acted, taken>>

\* A throw on the way: an event and a request end; the tick moves the trigger an hour.
CreateThrows(p) ==
    /\ pc[p] = "create" /\ "throws" \in Events
    /\ IF p \in Ticks THEN SetNextRun ELSE UNCHANGED trigger
    /\ Leave(p)
    /\ UNCHANGED <<rows, cooling, kills, history>>

\* enqueueCrewRun: a count, then an insert.
Count(p) ==
    /\ pc[p] = "count"
    /\ IF Cardinality(Queued) >= QueueMax THEN Leave(p) ELSE Go(p, "insert") /\ UNCHANGED local
    /\ UNCHANGED <<rows, cooling, trigger, kills, history>>

Insert(p) ==
    /\ pc[p] = "insert"
    /\ \E r \in Runs : Row(r, "queued", "event")
    /\ Leave(p)
    /\ UNCHANGED <<cooling, trigger, kills, history>>

-----------------------------------------------------------------------------
(* executeCrewRun.                                                         *)

\* The tool_call event is logged before the tool is executed.
ToolCall(p) ==
    /\ pc[p] = "exec" /\ ~local[p].acts
    /\ LET r == local[p].run IN
       /\ tooled' = tooled \cup {r}
       /\ acted' = [acted EXCEPT ![r] = @ + 1]
    /\ local' = [local EXCEPT ![p].acts = TRUE]
    /\ UNCHANGED <<status, kind, requeued, ahead, stale, expired, cooling, trigger, pc,
                   kills, begun, taken>>

\* finalize does not look at the row it overwrites.
Finalize(r, outcome) ==
    /\ status' = [status EXCEPT ![r] = outcome]
    /\ requeued' = requeued \ {r}
    /\ ahead' = RowsLeft({r})
    /\ stale' = stale \ {r}
    /\ expired' = expired \ {r}
    /\ UNCHANGED <<kind, tooled>>

Finish(p) ==
    /\ pc[p] = "exec"
    /\ \E outcome \in {"done", "error"} : Finalize(local[p].run, outcome)
    /\ Go(p, "after")
    /\ UNCHANGED <<cooling, trigger, local, kills, history>>

\* After the row is final: a run started by the trigger may set its next wake; a throw
\* in what follows the update finalizes it again.
After(p) ==
    /\ pc[p] = "after"
    /\ \/ UNCHANGED <<rows, trigger>>
       \/ local[p].triggered /\ SetNextRun /\ UNCHANGED rows
       \/ "throws" \in Events /\ Finalize(local[p].run, "error") /\ UNCHANGED trigger
    /\ Leave(p)
    /\ UNCHANGED <<cooling, kills, history>>

-----------------------------------------------------------------------------
(* runDueCrewTriggers: reap, select, drain, trigger, drain.                *)

TickStart(p) ==
    /\ pc[p] = "idle"
    /\ Reap
    /\ local' = [local EXCEPT ![p].seen = IF trigger.due THEN trigger.next ELSE 0,
                              ![p].overdue = trigger.overdue]
    /\ Go(p, "drain")
    /\ UNCHANGED <<cooling, trigger, kills, history>>

\* The end of a drain: the first is followed by the trigger, the second by nothing.
DrainsOn(p, n) == Go(p, "trigger") /\ local' = [local EXCEPT ![p].drains = n]
EndDrain(p, n) ==
    IF n = 1
    THEN Go(p, "trigger") /\ local' = [local EXCEPT ![p].drains = 1]
    ELSE Go(p, "idle") /\ local' = [local EXCEPT ![p] = NoLocal]

\* ownersWithQueuedRuns.
HasSeveralQueued == Cardinality(Queued) > 1
HasQueued == Queued # {}

\* drainQueued: an owner with queued runs, the reaper, what waited too long.
Drain(p) ==
    /\ pc[p] = "drain"
    /\ IF HasQueued
       THEN /\ ReapAndExpire(expired)
            /\ local' = [local EXCEPT ![p].drains = @ + 1]
            /\ Go(p, "slot")
       ELSE EndDrain(p, local[p].drains + 1) /\ UNCHANGED rows
    /\ UNCHANGED <<cooling, trigger, kills, history>>

\* A run may have used up the tick's budget.
BudgetIsOut(p) == local[p].ran

\* drainCrewQueue: a free slot, the oldest run, its claim.
Slot(p) ==
    /\ pc[p] = "slot"
    /\ \/ ~AtCapacity /\ Go(p, "pick") /\ UNCHANGED local
       \/ AtCapacity /\ EndDrain(p, local[p].drains)
       \/ BudgetIsOut(p) /\ EndDrain(p, local[p].drains)
    /\ UNCHANGED <<rows, cooling, trigger, kills, history>>

Oldest == {r \in Queued : \A q \in Queued : <<q, r>> \notin ahead}

Pick(p) ==
    /\ pc[p] = "pick"
    /\ IF Queued = {} THEN EndDrain(p, local[p].drains)
       ELSE Go(p, "claim") /\ \E r \in Oldest : local' = [local EXCEPT ![p].run = r]
    /\ UNCHANGED <<rows, cooling, trigger, kills, history>>

ClaimsAny(r) == TRUE
Claimable(r) == status[r] = "queued"

Claim(p) ==
    /\ pc[p] = "claim"
    /\ LET r == local[p].run IN
       IF Claimable(r)
       THEN /\ status' = [status EXCEPT ![r] = "running"]
            /\ ahead' = RowsLeft({r})
            /\ stale' = stale \ {r} /\ expired' = expired \ {r}
            /\ Go(p, "begin")
            /\ UNCHANGED <<kind, requeued, tooled, local>>
       ELSE /\ Go(p, "slot")
            /\ local' = [local EXCEPT ![p].run = 0]
            /\ UNCHANGED rows
    /\ UNCHANGED <<cooling, trigger, kills, history>>

Begin(p) ==
    /\ pc[p] = "begin"
    /\ Go(p, "exec")
    /\ local' = [local EXCEPT ![p].ran = TRUE]
    /\ begun' = [begun EXCEPT ![local[p].run] = @ + 1]
    /\ UNCHANGED <<rows, cooling, trigger, kills, acted, taken>>

\* An inactive crew ends the run as it is; a throw ends it while it is running.
BeginFails(p) ==
    /\ pc[p] = "begin"
    /\ \/ "unavailable" \in Events /\ Finalize(local[p].run, "error")
       \/ /\ "throws" \in Events
          /\ IF local[p].run \in Running THEN Finalize(local[p].run, "error")
             ELSE UNCHANGED rows
    /\ Leave(p)
    /\ UNCHANGED <<cooling, trigger, kills, history>>

-----------------------------------------------------------------------------
(* runCronTrigger, runConditionTrigger.                                    *)

\* Nothing is due, the budget is out, or the owner is busy and the trigger stays due
\* (for six hours).
Skip(p) == \/ local[p].seen = 0
           \/ BudgetIsOut(p)
           \/ AtCapacity /\ ~local[p].overdue

NextDrain(p) == Go(p, "drain") /\ local' = [local EXCEPT ![p].seen = 0]

Trigger(p) ==
    /\ pc[p] = "trigger"
    /\ \/ Skip(p) /\ NextDrain(p) /\ UNCHANGED trigger
       \/ /\ local[p].seen # 0
          /\ AtCapacity => local[p].overdue
          /\ Go(p, "take")
          /\ UNCHANGED <<trigger, local>>
       \* the crew is gone, or the predicate does not hold
       \/ /\ local[p].seen # 0
          /\ TriggerKind = "condition"
          /\ SetNextRun /\ NextDrain(p)
    /\ UNCHANGED <<rows, cooling, kills, history>>

\* claimTrigger compares and swaps.
Overwrites(p) == TRUE
Unclaimed(p) == trigger.next = local[p].seen

Take(p) ==
    /\ pc[p] = "take"
    /\ IF Unclaimed(p)
       THEN /\ SetNextRun
            /\ taken' = [taken EXCEPT ![local[p].seen] = @ + 1]
            /\ Go(p, "dispatch")
            /\ local' = [local EXCEPT ![p].triggered = TRUE]
       ELSE NextDrain(p) /\ UNCHANGED <<trigger, taken>>
    /\ UNCHANGED <<rows, cooling, kills, begun, acted>>

-----------------------------------------------------------------------------
(* The clock and the platform.                                             *)

Executes(p, r) == local[p].run = r /\ pc[p] \in {"begin", "exec"}

\* STALE_RUN_SECONDS pass over a run: no run that is still alive lasts that long,
\* unless it is slow.
GoesStale(r) ==
    /\ r \in Running \ stale
    /\ "slow" \in Events \/ \A p \in Procs : ~Executes(p, r)
    /\ stale' = stale \cup {r}
    /\ UNCHANGED <<status, kind, requeued, tooled, ahead, expired, cooling, trigger, pc,
                   local, kills, history>>

WaitsTooLong(r) ==
    /\ r \in Queued \ expired
    /\ expired' = expired \cup {r}
    /\ UNCHANGED <<status, kind, requeued, tooled, ahead, stale, cooling, trigger, pc,
                   local, kills, history>>

CoolsDown ==
    /\ cooling
    /\ cooling' = FALSE
    /\ UNCHANGED <<rows, trigger, pc, local, kills, history>>

ComesDue ==
    /\ \/ /\ ~trigger.due /\ trigger.next <= MaxOccurrences /\ RunsLeft
          /\ trigger' = [trigger EXCEPT !.due = TRUE]
       \/ /\ trigger.due /\ ~trigger.overdue
          /\ trigger' = [trigger EXCEPT !.overdue = TRUE]
    /\ UNCHANGED <<rows, cooling, pc, local, kills, history>>

\* waitUntil is cut, an isolate is evicted, the tick's 15 minutes are over.
Kill(p) ==
    /\ pc[p] # "idle" /\ kills < MaxKills
    /\ kills' = kills + 1
    /\ Go(p, "idle")
    /\ local' = [local EXCEPT ![p] = NoLocal]
    /\ UNCHANGED <<rows, cooling, trigger, history>>

\* An invocation that has started goes on.
Proceed(p) ==
    \/ Dispatch(p) \/ Check(p) \/ Create(p) \/ CreateThrows(p) \/ Count(p) \/ Insert(p)
    \/ Finish(p) \/ After(p)
    \/ p \in Ticks /\ (Drain(p) \/ Slot(p) \/ Pick(p) \/ Claim(p) \/ Begin(p)
                         \/ BeginFails(p) \/ Trigger(p) \/ Take(p))

Next ==
    \/ \E p \in Wakes : EmitEvent(p)
    \/ \E p \in Requests : Request(p)
    \/ \E p \in Ticks : TickStart(p)
    \/ \E p \in Procs : Proceed(p) \/ ToolCall(p) \/ Kill(p)
    \/ \E r \in Runs : GoesStale(r) \/ WaitsTooLong(r)
    \/ CoolsDown \/ ComesDue

\* The platform fires the tick every hour; what it started goes on unless it is
\* killed; a dead run is stale one day.
Fairness ==
    /\ \A p \in Ticks : WF_vars(TickStart(p))
    /\ \A p \in Procs : WF_vars(Proceed(p))
    /\ \A r \in Runs : WF_vars(GoesStale(r)) /\ WF_vars(WaitsTooLong(r))

Spec == Init /\ [][Next]_vars /\ Fairness

-----------------------------------------------------------------------------
(* What the runs promise.                                                  *)

\* Never more than the plan's concurrent runs, whoever starts them.  The check of the
\* cap and the row that uses the slot are two statements.
CapIsKept == Cardinality(Running) <= Cap

\* A run has one executor: drains claim it, and the reaper only takes it from the dead.
OneExecutor == \A p, q \in Procs, r \in Runs : Executes(p, r) /\ Executes(q, r) => p = q

\* A killed event run gets one second chance.
OneSecondChance == \A r \in Runs : begun[r] <= 2

\* ... and only if nothing it did can repeat: at most one execution of a run has
\* called a tool.
NothingRepeats == \A r \in Runs : acted[r] <= 1

\* Overlapping ticks dispatch an occurrence of the trigger once.
OccurrenceOnce == \A n \in DOMAIN taken : taken[n] <= 1

\* How a run ended is not written over: by a late executor, the reaper, the expiry of
\* the queue or a second drain.
OutcomeIsFinal == [][\A r \in Ended : status'[r] = status[r]]_vars

\* The runs keep the promise of RetriedRun, where a run is working while an invocation
\* executes its row, dead when none does, and has the chances that requeued leaves it.
Phase == [r \in Runs |->
    IF status[r] = "none" THEN "none"
    ELSE IF status[r] = "queued" THEN "waiting"
    ELSE IF r \in Ended THEN "over"
    ELSE IF \E p \in Procs : Executes(p, r) THEN "working" ELSE "dead"]
ChancesLeft == [r \in Runs |-> IF r \in Ended THEN 0 ELSE IF r \in requeued THEN 2 ELSE 1]
Retried == INSTANCE RetriedRun WITH phase <- Phase, chances <- ChancesLeft
ImplementsRetriedRun == Retried!Spec

\* No slot is held forever: a run that was killed is reaped.
EveryRunEnds == \A r \in Runs : status[r] = "running" ~> status[r] # "running"

\* A queued wake is started or expires, however busy its owner is.
EveryWakeLeavesTheQueue == \A r \in Runs : status[r] = "queued" ~> status[r] # "queued"

=============================================================================
