-------------------------- MODULE CrewRunsRefinement --------------------------
(***************************************************************************)
(* The runs of CrewRuns keep the promise of RetriedRun, when no run        *)
(* outlives STALE_RUN_SECONDS.  The steps of the invocations and of the    *)
(* reaper are taken one by one: each is a step of RetriedRun or none.      *)
(***************************************************************************)
EXTENDS CrewRunsProofs

Works(r) == \E p \in Procs : Executes(p, r)

\* Nothing that RetriedRun sees of r changes.
Same(r) == Phase'[r] = Phase[r] /\ ChancesLeft'[r] = ChancesLeft[r]

LEMMA SameRow ==
    ASSUME RunsInv, NEW r \in Runs, status'[r] = status[r],
           r \in requeued' <=> r \in requeued,
           status[r] = "running" => (Works(r)' <=> Works(r))
    PROVE  Same(r)
<1>1. r \in Ended' <=> r \in Ended
  BY DEF Ended
<1>2. Phase'[r] = Phase[r]
  BY <1>1 DEF Phase, Works, Ended, RunsInv, Rows
<1>3. ChancesLeft'[r] = ChancesLeft[r]
  BY <1>1 DEF ChancesLeft
<1> QED
  BY <1>2, <1>3 DEF Same

\* A run that has ended has no chances, whatever its row says of them.
LEMMA SameEnd ==
    ASSUME NEW r \in Runs, r \in Ended, r \in Ended'
    PROVE  Same(r)
BY DEF Same, Phase, ChancesLeft, Ended

LEMMA Stutters ==
    ASSUME \A r \in Runs : Same(r), UNCHANGED <<begun, acted>>
    PROVE  UNCHANGED Retried!vars
BY DEF Same, Retried!vars, Phase, ChancesLeft

-----------------------------------------------------------------------------
(* Who executes what.                                                      *)

\* p lets go of what it executes, and nobody else moves.
LetsGo(p) ==
    /\ pc'[p] \notin {"begin", "exec"}
    /\ \A q \in Procs \ {p} : pc'[q] = pc[q] /\ local'[q] = local[q]

LEMMA AsideLetsGo ==
    ASSUME NEW p \in Procs, Aside(p)
    PROVE  LetsGo(p)
BY DEF Aside, LetsGo, Busy

LEMMA OthersWork ==
    ASSUME NEW p \in Procs, LetsGo(p), NEW r \in Runs, ~Executes(p, r)
    PROVE  Works(r)' <=> Works(r)
<1>1. ~Executes(p, r)'
  BY DEF LetsGo, Executes
<1>2. \A q \in Procs \ {p} : Executes(q, r)' <=> Executes(q, r)
  BY DEF LetsGo, Executes
<1> QED
  BY <1>1, <1>2 DEF Works

LEMMA NobodyWorks ==
    ASSUME RunsInv, NEW p \in Procs, LetsGo(p), NEW r \in Runs, Executes(p, r)
    PROVE  ~Works(r)'
<1>1. ~Executes(p, r)'
  BY DEF LetsGo, Executes
<1>2. \A q \in Procs \ {p} : ~Executes(q, r)'
  BY DEF LetsGo, Executes, RunsInv, OneExecutor
<1> QED
  BY <1>1, <1>2 DEF Works

\* A step of an invocation that executes nothing, and leaves the rows alone.
LEMMA IdleStutters ==
    ASSUME RunsInv, NEW p \in Procs, pc[p] \notin {"begin", "exec"}, LetsGo(p),
           UNCHANGED <<status, requeued, begun, acted>>
    PROVE  UNCHANGED Retried!vars
<1>1. \A r \in Runs : ~Executes(p, r)
  BY DEF Executes
<1> QED
  BY <1>1, OthersWork, SameRow, Stutters

-----------------------------------------------------------------------------
(* Steps that change rows.                                                 *)

\* The rows a reaper ends or requeues are dead, or wait.
LEMMA ReapSweeps ==
    ASSUME RunsInv, NEW old \in SUBSET expired, ReapAndExpire(old),
           \A r \in Runs : Works(r)' <=> Works(r),
           UNCHANGED <<begun, acted>>
    PROVE  Retried!Sweep
<1>1. /\ BackToQueue \subseteq stale /\ BackToQueue \cap Abandoned(old) = {}
      /\ stale \subseteq Running /\ old \subseteq Queued
  BY DEF BackToQueue, SecondChance, Abandoned, RunsInv, Rows, Queued, Running
<1>2. \A r \in stale : r \in Runs /\ Phase[r] = "dead"
  BY <1>1 DEF RunsInv, Executors, Phase, Running, Ended
<1>3. \A r \in old : r \in Runs /\ Phase[r] = "waiting"
  BY <1>1 DEF Phase, Queued
<1>4. \A r \in BackToQueue :
          /\ ChancesLeft[r] = 1 /\ acted[r] = 0
          /\ Phase'[r] = "waiting" /\ ChancesLeft'[r] = 2
  <2> SUFFICES ASSUME NEW r \in BackToQueue
               PROVE  /\ ChancesLeft[r] = 1 /\ acted[r] = 0
                      /\ Phase'[r] = "waiting" /\ ChancesLeft'[r] = 2
    OBVIOUS
  <2>1. /\ r \in Runs /\ status[r] = "running" /\ r \notin requeued /\ r \notin tooled
    BY <1>1 DEF BackToQueue, SecondChance, Running
  <2>2. status'[r] = "queued" /\ r \in requeued' /\ r \notin Ended'
    BY <1>1, <2>1 DEF ReapAndExpire, Ended
  <2> QED
    BY <2>1, <2>2 DEF ChancesLeft, Phase, Ended, RunsInv, Tools
<1>5. \A r \in Abandoned(old) : r \in Runs /\ Phase'[r] = "over" /\ ChancesLeft'[r] = 0
  <2> SUFFICES ASSUME NEW r \in Abandoned(old)
               PROVE  r \in Runs /\ Phase'[r] = "over" /\ ChancesLeft'[r] = 0
    OBVIOUS
  <2>1. r \in Runs /\ r \notin BackToQueue
    BY <1>1 DEF Abandoned, Running, Queued
  <2>2. status'[r] = "error" /\ r \in Ended'
    BY <2>1 DEF ReapAndExpire, Ended
  <2> QED
    BY <2>1, <2>2 DEF ChancesLeft, Phase
<1>6. \A r \in Runs : r \notin BackToQueue \cup Abandoned(old) => Same(r)
  BY SameRow DEF ReapAndExpire
<1>7. BackToQueue \in SUBSET {r \in Retried!In({"dead"}) : ChancesLeft[r] = 1 /\ acted[r] = 0}
  BY <1>1, <1>2, <1>4 DEF Retried!In
<1>8. Abandoned(old) \in SUBSET (Retried!In({"dead", "waiting"}) \ BackToQueue)
  BY <1>1, <1>2, <1>3 DEF Retried!In, Abandoned
<1>9. /\ Phase' = [r \in Runs |-> IF r \in BackToQueue THEN "waiting"
                                  ELSE IF r \in Abandoned(old) THEN "over" ELSE Phase[r]]
      /\ ChancesLeft' = [r \in Runs |-> IF r \in BackToQueue THEN 2
                                        ELSE IF r \in Abandoned(old) THEN 0 ELSE ChancesLeft[r]]
  <2>1. Phase' = [r \in Runs |-> Phase'[r]] /\ ChancesLeft' = [r \in Runs |-> ChancesLeft'[r]]
    BY DEF Phase, ChancesLeft
  <2> QED
    BY <1>4, <1>5, <1>6, <2>1 DEF Same
<1> QED
  BY <1>7, <1>8, <1>9 DEF Retried!Sweep

\* One run changes its phase, and perhaps its chances.
LEMMA OneChanges ==
    ASSUME NEW r \in Runs, \A i \in Runs \ {r} : Same(i)
    PROVE  /\ Phase' = [Phase EXCEPT ![r] = Phase'[r]]
           /\ ChancesLeft' = [ChancesLeft EXCEPT ![r] = ChancesLeft'[r]]
<1>1. /\ Phase = [i \in Runs |-> Phase[i]] /\ Phase' = [i \in Runs |-> Phase'[i]]
      /\ ChancesLeft = [i \in Runs |-> ChancesLeft[i]]
      /\ ChancesLeft' = [i \in Runs |-> ChancesLeft'[i]]
  BY DEF Phase, ChancesLeft
<1> QED
  BY <1>1 DEF Same

\* The executor of a run finalizes it.
LEMMA FinalizeFinishes ==
    ASSUME RunsInv, NEW p \in Procs, LetsGo(p),
           NEW r \in Runs, Executes(p, r), NEW outcome \in {"done", "error"},
           Finalize(r, outcome), UNCHANGED <<begun, acted>>
    PROVE  Retried!Finish(r)
<1>1. Phase[r] = "working"
  BY DEF RunsInv, Executors, Phase, Ended
<1>2. status'[r] = outcome /\ r \in Ended'
  BY DEF Finalize, RunsInv, Rows, Ended
<1>3. Phase'[r] = "over" /\ ChancesLeft'[r] = 0
  BY <1>2 DEF Phase, ChancesLeft
<1>4. ASSUME NEW i \in Runs \ {r} PROVE Same(i)
  <2>1. ~Executes(p, i)
    BY DEF Executes
  <2>2. status'[i] = status[i] /\ (i \in requeued' <=> i \in requeued)
    BY DEF Finalize, RunsInv, Rows
  <2> QED
    BY <2>1, <2>2, OthersWork, SameRow
<1>5. /\ Phase' = [Phase EXCEPT ![r] = "over"]
      /\ ChancesLeft' = [ChancesLeft EXCEPT ![r] = 0]
  BY <1>3, <1>4, OneChanges
<1> QED
  BY <1>1, <1>5 DEF Retried!Finish

\* An ended run is finalized again.
LEMMA FinalizeAgainStutters ==
    ASSUME RunsInv, NEW p \in Procs, pc[p] = "after", LetsGo(p), local[p].run \in Runs,
           Finalize(local[p].run, "error"), UNCHANGED <<begun, acted>>
    PROVE  UNCHANGED Retried!vars
<1> DEFINE r == local[p].run
<1>1. r \in Ended /\ r \in Ended'
  BY DEF RunsInv, Executors, Finalize, Rows, Ended
<1>2. ASSUME NEW i \in Runs \ {r} PROVE Same(i)
  <2>1. status'[i] = status[i] /\ (i \in requeued' <=> i \in requeued)
    BY DEF Finalize, RunsInv, Rows
  <2>2. Works(i)' <=> Works(i)
    BY OthersWork DEF Executes
  <2> QED
    BY <2>1, <2>2, SameRow
<1> QED
  BY <1>1, <1>2, SameEnd, Stutters

\* A new row is started, or waits.
LEMMA CreateStarts ==
    ASSUME RunsInv, NEW p \in Procs, Create(p)
    PROVE  \E r \in Runs : Retried!Start(r)
<1>1. PICK r \in Runs : /\ Row(r, "running", KindOf(p))
                        /\ local' = [local EXCEPT ![p].run = r, ![p].ran = TRUE]
                        /\ begun' = [begun EXCEPT ![r] = @ + 1]
  BY DEF Create
<1>2. status[r] = "none" /\ status' = [status EXCEPT ![r] = "running"] /\ UNCHANGED requeued
  BY <1>1 DEF Row, Fresh
<1>3. PICK S : local \in [Procs -> FieldsIn(S)]
  BY DEF RunsInv, Forms
<1>4. /\ pc[p] = "create" /\ pc'[p] = "exec" /\ local'[p].run = r
      /\ \A q \in Procs \ {p} : pc'[q] = pc[q] /\ local'[q] = local[q]
  BY <1>1, <1>3 DEF Create, Go, RunsInv, Forms, FieldsIn
<1>5. Works(r)'
  BY <1>4 DEF Works, Executes
<1>6. ASSUME NEW i \in Runs \ {r} PROVE Same(i)
  <2>1. \A q \in Procs : Executes(q, i)' <=> Executes(q, i)
    BY <1>4 DEF Executes
  <2>2. Works(i)' <=> Works(i)
    BY <2>1 DEF Works
  <2> QED
    BY <1>2, <2>2, SameRow DEF RunsInv, Rows
<1>7. Phase[r] = "none" /\ Phase'[r] = "working"
  BY <1>2, <1>5 DEF Phase, Works, Ended, RunsInv, Rows
<1>8. ChancesLeft[r] \in {1, 2} /\ ChancesLeft'[r] = ChancesLeft[r] /\ begun[r] = 0
  BY <1>2 DEF ChancesLeft, Ended, RunsInv, Rows, Executions
<1>9. /\ Phase' = [Phase EXCEPT ![r] = "working"]
      /\ ChancesLeft' = [ChancesLeft EXCEPT ![r] = ChancesLeft[r]]
  BY <1>6, <1>7, <1>8, OneChanges
<1>10. UNCHANGED ChancesLeft
  BY <1>9 DEF ChancesLeft
<1>11. begun[r] < ChancesLeft[r] /\ UNCHANGED acted
  BY <1>8 DEF Create
<1> QED
  BY <1>1, <1>7, <1>9, <1>10, <1>11 DEF Retried!Start

LEMMA InsertWaits ==
    ASSUME RunsInv, NEW p \in Procs, Insert(p), LetsGo(p)
    PROVE  \E r \in Runs : Retried!Wait(r)
<1>1. PICK r \in Runs : Row(r, "queued", "event")
  BY DEF Insert
<1>2. status[r] = "none" /\ status' = [status EXCEPT ![r] = "queued"] /\ UNCHANGED requeued
  BY <1>1 DEF Row, Fresh
<1>3. \A i \in Runs : Works(i)' <=> Works(i)
  BY OthersWork DEF Insert, Executes
<1>4. ASSUME NEW i \in Runs \ {r} PROVE Same(i)
  BY <1>2, <1>3, SameRow DEF RunsInv, Rows
<1>5. /\ Phase[r] = "none" /\ Phase'[r] = "waiting"
      /\ ChancesLeft'[r] = ChancesLeft[r]
  BY <1>2 DEF Phase, ChancesLeft, Ended, RunsInv, Rows
<1>6. /\ Phase' = [Phase EXCEPT ![r] = "waiting"]
      /\ ChancesLeft' = [ChancesLeft EXCEPT ![r] = ChancesLeft[r]]
  BY <1>4, <1>5, OneChanges
<1>7. UNCHANGED ChancesLeft
  BY <1>6 DEF ChancesLeft
<1> QED
  BY <1>5, <1>6, <1>7 DEF Retried!Wait, Insert, history

\* A claim takes what waits, or nothing.
LEMMA ClaimClaims ==
    ASSUME RunsInv, NEW p \in Procs, Claim(p), local[p].run \in Runs, Claimable(local[p].run)
    PROVE  Retried!Claim(local[p].run)
<1> DEFINE r == local[p].run
<1>1. /\ status[r] = "queued" /\ status' = [status EXCEPT ![r] = "running"]
      /\ UNCHANGED <<requeued, local, begun, acted>>
  BY DEF Claim, Claimable, history
<1>2. /\ pc[p] = "claim" /\ pc'[p] = "begin"
      /\ \A q \in Procs \ {p} : pc'[q] = pc[q]
  BY DEF Claim, Go, RunsInv, Forms
<1>3. Works(r)'
  BY <1>1, <1>2 DEF Works, Executes
<1>4. ASSUME NEW i \in Runs \ {r} PROVE Same(i)
  <2>1. \A q \in Procs : Executes(q, i)' <=> Executes(q, i)
    BY <1>1, <1>2 DEF Executes
  <2>2. Works(i)' <=> Works(i)
    BY <2>1 DEF Works
  <2> QED
    BY <1>1, <2>2, SameRow DEF RunsInv, Rows
<1>5. /\ Phase[r] = "waiting" /\ Phase'[r] = "working"
      /\ ChancesLeft'[r] = ChancesLeft[r]
  BY <1>1, <1>3 DEF Phase, ChancesLeft, Works, Ended, RunsInv, Rows
<1>6. /\ Phase' = [Phase EXCEPT ![r] = "working"]
      /\ ChancesLeft' = [ChancesLeft EXCEPT ![r] = ChancesLeft[r]]
  BY <1>4, <1>5, OneChanges
<1>7. UNCHANGED ChancesLeft
  BY <1>6 DEF ChancesLeft
<1> QED
  BY <1>1, <1>5, <1>6, <1>7 DEF Retried!Claim

\* The first thing an executor does with its run, and its first tool call.
LEMMA BeginBegins ==
    ASSUME RunsInv, NEW p \in Procs, Begin(p), local[p].run \in Runs
    PROVE  Retried!Begin(local[p].run)
<1> DEFINE r == local[p].run
<1>1. /\ begun' = [begun EXCEPT ![r] = @ + 1] /\ UNCHANGED <<status, requeued, acted>>
  BY DEF Begin, rows
<1>2. PICK S : local \in [Procs -> FieldsIn(S)]
  BY DEF RunsInv, Forms
<1>3. /\ pc[p] = "begin" /\ pc'[p] = "exec" /\ local'[p].run = r
      /\ \A q \in Procs \ {p} : pc'[q] = pc[q] /\ local'[q] = local[q]
  BY <1>2 DEF Begin, Go, RunsInv, Forms, FieldsIn
<1>4. \A i \in Runs : \A q \in Procs : Executes(q, i)' <=> Executes(q, i)
  BY <1>3 DEF Executes
<1>5. \A i \in Runs : Same(i)
  BY <1>1, <1>4, SameRow DEF Works
<1>6. UNCHANGED <<Phase, ChancesLeft>>
  BY <1>5 DEF Same, Phase, ChancesLeft
<1>7. /\ status[r] = "running" /\ Executes(p, r) /\ begun[r] < Chances(r)
  BY <1>3 DEF RunsInv, Executors, Executions, Executes
<1>8. Phase[r] = "working" /\ begun[r] < ChancesLeft[r]
  BY <1>7 DEF Phase, ChancesLeft, Chances, Ended
<1> QED
  BY <1>1, <1>6, <1>8 DEF Retried!Begin

LEMMA ToolCallActs ==
    ASSUME RunsInv, NEW p \in Procs, ToolCall(p), local[p].run \in Runs
    PROVE  Retried!Act(local[p].run)
<1> DEFINE r == local[p].run
<1>1. /\ acted' = [acted EXCEPT ![r] = @ + 1]
      /\ UNCHANGED <<status, requeued, pc, begun>>
  BY DEF ToolCall
<1>2. PICK S : local \in [Procs -> FieldsIn(S)]
  BY DEF RunsInv, Forms
<1>3. local'[p].run = r /\ \A q \in Procs \ {p} : local'[q] = local[q]
  BY <1>2 DEF ToolCall, FieldsIn
<1>4. \A i \in Runs : \A q \in Procs : Executes(q, i)' <=> Executes(q, i)
  BY <1>1, <1>3 DEF Executes
<1>5. \A i \in Runs : Same(i)
  BY <1>1, <1>4, SameRow DEF Works
<1>6. UNCHANGED <<Phase, ChancesLeft>>
  BY <1>5 DEF Same, Phase, ChancesLeft
<1>7. status[r] = "running" /\ Executes(p, r) /\ acted[r] = 0
  BY DEF ToolCall, RunsInv, Executors, Tools, Executes
<1>8. Phase[r] = "working" /\ acted' = [acted EXCEPT ![r] = 1]
  BY <1>1, <1>7 DEF Phase, Ended, RunsInv, Rows
<1> QED
  BY <1>1, <1>6, <1>7, <1>8 DEF Retried!Act

\* A run whose executor is killed is dead.
LEMMA KillKills ==
    ASSUME RunsInv, NEW p \in Procs, LetsGo(p), NEW r \in Runs, Executes(p, r),
           UNCHANGED <<status, requeued, begun, acted>>
    PROVE  Retried!Die(r)
<1>1. ASSUME NEW i \in Runs \ {r} PROVE Same(i)
  <2>1. ~Executes(p, i)
    BY DEF Executes
  <2> QED
    BY <2>1, OthersWork, SameRow
<1>2. /\ Phase[r] = "working" /\ Phase'[r] = "dead"
      /\ ChancesLeft'[r] = ChancesLeft[r]
  BY NobodyWorks DEF Works, Phase, ChancesLeft, Ended, RunsInv, Executors
<1>3. /\ Phase' = [Phase EXCEPT ![r] = "dead"]
      /\ ChancesLeft' = [ChancesLeft EXCEPT ![r] = ChancesLeft[r]]
  BY <1>1, <1>2, OneChanges
<1>4. UNCHANGED ChancesLeft
  BY <1>3 DEF ChancesLeft
<1> QED
  BY <1>2, <1>3, <1>4 DEF Retried!Die

-----------------------------------------------------------------------------
(* Every step.                                                             *)

LEMMA GoLetsGo ==
    ASSUME RunsInv, NEW p \in Procs, NEW place, place \notin {"begin", "exec"}, Go(p, place),
           \A q \in Procs \ {p} : local'[q] = local[q]
    PROVE  LetsGo(p)
BY DEF RunsInv, Forms, Go, LetsGo

LEMMA LeaveLetsGo ==
    ASSUME RunsInv, NEW p \in Procs, Leave(p)
    PROVE  LetsGo(p)
BY LeaveAside, AsideLetsGo DEF RunsInv

LEMMA DrainLetsGo ==
    ASSUME RunsInv, NEW p \in Procs, NEW n, EndDrain(p, n) \/ NextDrain(p)
    PROVE  LetsGo(p)
<1>1. PICK S : local \in [Procs -> FieldsIn(S)]
  BY DEF RunsInv, Forms
<1>2. \A q \in Procs \ {p} : local'[q] = local[q]
  BY <1>1 DEF EndDrain, NextDrain
<1>3. \E place \in {"trigger", "idle", "drain"} : Go(p, place)
  BY DEF EndDrain, NextDrain
<1> QED
  BY <1>2, <1>3, GoLetsGo

\* What an invocation does between its runs.
LEMMA BetweenRuns ==
    ASSUME RunsInv, NEW p \in Procs,
           \/ EmitEvent(p) \/ Request(p) \/ Check(p) \/ CreateThrows(p) \/ Count(p)
           \/ Slot(p) \/ Pick(p) \/ Trigger(p) \/ Take(p)
    PROVE  UNCHANGED Retried!vars
<1>1. pc[p] \notin {"begin", "exec"} /\ UNCHANGED <<status, requeued, begun, acted>>
  BY DEF EmitEvent, Request, Check, CreateThrows, Count, Slot, Pick, Trigger, Take,
         rows, history
<1>2. PICK S : local \in [Procs -> FieldsIn(S)]
  BY DEF RunsInv, Forms
<1>3. \/ Leave(p)
      \/ \E n : EndDrain(p, n) \/ NextDrain(p)
      \/ /\ \E place \in {"dispatch", "check", "create", "count", "insert", "pick", "claim",
                          "take"} : Go(p, place)
         /\ \A q \in Procs \ {p} : local'[q] = local[q]
  <2>1. CASE EmitEvent(p) \/ Request(p) \/ Check(p) \/ CreateThrows(p) \/ Count(p)
    BY <2>1 DEF EmitEvent, Request, Check, CreateThrows, Count
  <2>2. CASE Slot(p)
    BY <2>2 DEF Slot
  <2>3. CASE Pick(p)
    BY <1>2, <2>3 DEF Pick
  <2>4. CASE Trigger(p)
    BY <2>4 DEF Trigger
  <2>5. CASE Take(p)
    BY <1>2, <2>5 DEF Take
  <2> QED
    BY <2>1, <2>2, <2>3, <2>4, <2>5
<1>4. LetsGo(p)
  BY <1>3, GoLetsGo, LeaveLetsGo, DrainLetsGo
<1> QED
  BY <1>1, <1>4, IdleStutters

LEMMA NextRetries ==
    ASSUME Types, RunsInv, [Next]_vars
    PROVE  [Retried!Next]_Retried!vars
<1>1. ASSUME NEW p \in Procs, NEW old \in SUBSET expired, ReapAndExpire(old), LetsGo(p),
             pc[p] \notin {"begin", "exec"}, UNCHANGED <<begun, acted>>
      PROVE  Retried!Sweep
  BY <1>1, OthersWork, ReapSweeps DEF Executes
<1>2. ASSUME NEW p \in Procs, Dispatch(p) PROVE [Retried!Next]_Retried!vars
  <2>1. LetsGo(p)
    BY <1>2, GoLetsGo, LeaveLetsGo DEF Dispatch
  <2>2. CASE Reap
    BY <1>1, <1>2, <2>1, <2>2 DEF Dispatch, Reap, history, Retried!Next
  <2>3. CASE ~Reap
    BY <1>2, <2>1, <2>3, IdleStutters DEF Dispatch, rows, history
  <2> QED
    BY <2>2, <2>3
<1>3. ASSUME NEW p \in Procs, TickStart(p) PROVE [Retried!Next]_Retried!vars
  <2>1. \A q \in Procs \ {p} : local'[q] = local[q]
    <3>1. PICK S : local \in [Procs -> FieldsIn(S)]
      BY DEF RunsInv, Forms
    <3> QED
      BY <1>3, <3>1 DEF TickStart
  <2>2. LetsGo(p)
    BY <1>3, <2>1, GoLetsGo DEF TickStart
  <2> QED
    BY <1>1, <1>3, <2>2 DEF TickStart, Reap, history, Retried!Next
<1>4. ASSUME NEW p \in Procs, Drain(p) PROVE [Retried!Next]_Retried!vars
  <2>1. CASE HasQueued
    <3>1. PICK S : local \in [Procs -> FieldsIn(S)]
      BY DEF RunsInv, Forms
    <3>2. LetsGo(p)
      BY <1>4, <2>1, <3>1, GoLetsGo DEF Drain
    <3> QED
      BY <1>1, <1>4, <2>1, <3>2 DEF Drain, history, Retried!Next
  <2>2. CASE ~HasQueued
    BY <1>4, <2>2, DrainLetsGo, IdleStutters DEF Drain, rows, history
  <2> QED
    BY <2>1, <2>2
<1>5. ASSUME NEW p \in Procs, Create(p) PROVE [Retried!Next]_Retried!vars
  BY <1>5, CreateStarts DEF Retried!Next
<1>6. ASSUME NEW p \in Procs, Insert(p) PROVE [Retried!Next]_Retried!vars
  BY <1>6, LeaveLetsGo, InsertWaits DEF Insert, Retried!Next
<1>7. ASSUME NEW p \in Procs, ToolCall(p) PROVE [Retried!Next]_Retried!vars
  BY <1>7, ToolCallActs DEF ToolCall, Types, LocalTypes, Fits, Retried!Next
<1>8. ASSUME NEW p \in Procs, Finish(p) PROVE [Retried!Next]_Retried!vars
  <2>1. local[p].run \in Runs /\ Executes(p, local[p].run)
    BY <1>8 DEF Finish, Types, LocalTypes, Fits, Executes
  <2>2. LetsGo(p)
    BY <1>8, GoLetsGo DEF Finish
  <2> QED
    BY <1>8, <2>1, <2>2, FinalizeFinishes DEF Finish, history, Retried!Next
<1>9. ASSUME NEW p \in Procs, After(p) PROVE [Retried!Next]_Retried!vars
  <2>1. local[p].run \in Runs
    BY <1>9 DEF After, Types, LocalTypes, Fits
  <2>2. LetsGo(p)
    BY <1>9, LeaveLetsGo DEF After
  <2>3. CASE UNCHANGED rows
    BY <1>9, <2>2, <2>3, IdleStutters DEF After, rows, history
  <2>4. CASE Finalize(local[p].run, "error")
    BY <1>9, <2>1, <2>2, <2>4, FinalizeAgainStutters DEF After, history
  <2> QED
    BY <1>9, <2>3, <2>4 DEF After
<1>10. ASSUME NEW p \in Procs, Claim(p) PROVE [Retried!Next]_Retried!vars
  <2>1. local[p].run \in Runs
    BY <1>10 DEF Claim, Types, LocalTypes, Fits
  <2>2. CASE Claimable(local[p].run)
    BY <1>10, <2>1, <2>2, ClaimClaims DEF Retried!Next
  <2>3. CASE ~Claimable(local[p].run)
    <3>1. PICK S : local \in [Procs -> FieldsIn(S)]
      BY DEF RunsInv, Forms
    <3>2. LetsGo(p)
      BY <1>10, <2>3, <3>1, GoLetsGo DEF Claim
    <3> QED
      BY <1>10, <2>3, <3>2, IdleStutters DEF Claim, rows, history
  <2> QED
    BY <2>2, <2>3
<1>11. ASSUME NEW p \in Procs, Begin(p) PROVE [Retried!Next]_Retried!vars
  BY <1>11, BeginBegins DEF Begin, Types, LocalTypes, Fits, Retried!Next
<1>12. ASSUME NEW p \in Procs, BeginFails(p) PROVE [Retried!Next]_Retried!vars
  <2>1. local[p].run \in Runs /\ Executes(p, local[p].run)
    BY <1>12 DEF BeginFails, Types, LocalTypes, Fits, Executes
  <2>2. LetsGo(p)
    BY <1>12, LeaveLetsGo DEF BeginFails
  <2>3. Finalize(local[p].run, "error")
    BY <1>12, <2>1 DEF BeginFails, RunsInv, Executors, Running
  <2> QED
    BY <1>12, <2>1, <2>2, <2>3, FinalizeFinishes DEF BeginFails, history, Retried!Next
<1>13. ASSUME NEW p \in Procs, Kill(p) PROVE [Retried!Next]_Retried!vars
  <2>1. UNCHANGED <<status, requeued, begun, acted>>
    BY <1>13 DEF Kill, rows, history
  <2>2. LetsGo(p)
    <3>1. PICK S : local \in [Procs -> FieldsIn(S)]
      BY DEF RunsInv, Forms
    <3> QED
      BY <1>13, <3>1, GoLetsGo DEF Kill
  <2>3. CASE pc[p] \in {"begin", "exec"}
    <3>1. local[p].run \in Runs /\ Executes(p, local[p].run)
      BY <2>3 DEF Types, LocalTypes, Fits, Executes
    <3> QED
      BY <2>1, <2>2, <3>1, KillKills DEF Retried!Next
  <2>4. CASE pc[p] \notin {"begin", "exec"}
    BY <2>1, <2>2, <2>4, IdleStutters
  <2> QED
    BY <2>3, <2>4
<1>14. CASE \/ \E r \in Runs : GoesStale(r) \/ WaitsTooLong(r)
            \/ CoolsDown \/ ComesDue \/ UNCHANGED vars
  <2>1. UNCHANGED <<status, requeued, pc, local, begun, acted>>
    BY <1>14 DEF GoesStale, WaitsTooLong, CoolsDown, ComesDue, vars, rows, history
  <2>2. \A r \in Runs : Works(r)' <=> Works(r)
    BY <2>1 DEF Works, Executes
  <2> QED
    BY <2>1, <2>2, SameRow, Stutters
<1>15. ASSUME NEW p \in Procs, Proceed(p) PROVE [Retried!Next]_Retried!vars
  BY <1>2, <1>4, <1>5, <1>6, <1>8, <1>9, <1>10, <1>11, <1>12, <1>15, BetweenRuns DEF Proceed
<1> QED
  BY <1>3, <1>7, <1>13, <1>14, <1>15, BetweenRuns DEF Next, Procs

\* The crew keeps the promise of RetriedRun, whatever throws, is unavailable or killed:
\* every step of wakes, requests, ticks and the reaper is one of the promise's, or none.
THEOREM Refinement ==
    ASSUME "slow" \notin Events
    PROVE  Spec => ImplementsRetriedRun
<1>1. Init => Retried!Init
  BY DEF Init, Retried!Init, Phase, ChancesLeft, Ended
<1>2. Types /\ RunsInv /\ [Next]_vars => [Retried!Next]_Retried!vars
  BY NextRetries
<1>3. Spec => []Types
  BY TypesInvariant
<1> QED
  BY <1>1, <1>2, <1>3, RunsInvariant, PTL DEF Spec, ImplementsRetriedRun, Retried!Spec
=============================================================================
