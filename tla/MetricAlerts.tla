---------------------------- MODULE MetricAlerts ----------------------------
(***************************************************************************)
(* The alert rules on the metrics of artifacts (metric-alerts/rules.ts),   *)
(* beside the scheduled jobs: the invocation that runs the jobs of an hour *)
(* looks at the rules when it is through with them, so whatever ends it    *)
(* early leaves the rules for the next one (scheduling/handler.ts).        *)
(*                                                                         *)
(* Time is that of ScheduledJobs.  Cooldowns are whole hours, and two      *)
(* instants told in hours that are exactly a cooldown apart are, by the    *)
(* minute, a little more or a little less.                                 *)
(***************************************************************************)
EXTENDS ScheduledJobs

CONSTANTS
    Rules,
    Hand,          \* the request that runs a rule by hand
    Cooldowns,     \* cooldown_seconds, in hours
    AlertScenes    \* what the jobs do, the schedules of the rules (0: no such rule), what users and the platform do

\* What may happen to rules: an evaluation is cut or a statement of it throws; a delivery
\* that reports a failure was made; a user runs a rule, gives it a schedule or a cooldown,
\* switches it on or off, or deletes it; its owner loses or regains access.
AlertEventKinds ==
    {"cut", "throws", "unsure", "byHand", "schedule", "cooldown", "switch", "delete", "access"}

ASSUME MetricAlertsAssumption ==
    /\ Hand \notin Ticks /\ None \notin Rules
    /\ Cooldowns \subseteq 1 .. MaxPast
    /\ AlertScenes \subseteq [scene : Scenes, every : [Rules -> Periods \cup {0}],
                              cooldown : [Rules -> Cooldowns], events : SUBSET AlertEventKinds]

VARIABLES
    setting,       \* which of the AlertScenes this is; never changes
    rule,          \* metric_alert_rules; a rule that never fired did MaxPast ago
    reach,         \* the rules whose owner may see the artifact, all rows of it
    eval,          \* what each invocation of runDueMetricAlerts and the run by hand hold
    mishaps,       \* cuts and throws
    \* history
    newest,        \* the latest start of an evaluation that delivered, per rule
    doubtful       \* rules two evaluations of which overlapped, or a delivery of which was not recorded

alertVars == <<setting, rule, reach, eval, mishaps, newest, doubtful>>
tickVars == <<vars, alertVars>>

Evaluators == Ticks \cup {Hand}
NoRule == [there |-> FALSE, on |-> FALSE, every |-> 0, next |-> 0, cooldown |-> 0, trig |-> 0]
AtRest == [at |-> "idle", stay |-> 0, snap |-> [r \in Rules |-> NoRule], rule |-> None, start |-> 0, off |-> FALSE]

Holds(e, r) == eval[e].snap[r].there
Rivals(e, r) == \E f \in Evaluators \ {e} : Holds(f, r)
LoopOver(stay, snap) == [at |-> "loop", stay |-> stay, snap |-> snap, rule |-> None, start |-> 0, off |-> FALSE]

AlertInit ==
    /\ Init
    /\ setting \in AlertScenes /\ setting.scene = scene
    /\ rule = [r \in Rules |-> IF setting.every[r] = 0 THEN NoRule
                 ELSE [there |-> TRUE, on |-> TRUE, every |-> setting.every[r], next |-> setting.every[r],
                       cooldown |-> setting.cooldown[r], trig |-> -MaxPast]]
    /\ reach = Rules
    /\ eval = [e \in Evaluators |-> AtRest]
    /\ mishaps = 0
    /\ newest = [r \in Rules |-> -MaxPast]
    /\ doubtful = {}

-----------------------------------------------------------------------------
(* runDueMetricAlerts and evaluateAndDeliver.                              *)

DueRule(r) == rule[r].there /\ rule[r].on /\ rule[r].next <= 0

\* WHERE enabled = 1 AND next_run_at <= ? ORDER BY next_run_at ASC LIMIT 50
NewestDue(S) ==
    /\ S \subseteq {r \in Rules : DueRule(r)}
    /\ \A q \in {r \in Rules : DueRule(r)} \ S : Cardinality(S) = MaxDue /\ \A r \in S : rule[q].next <= rule[r].next
OldestDue(S) ==
    /\ S \subseteq {r \in Rules : DueRule(r)}
    /\ \A q \in {r \in Rules : DueRule(r)} \ S : Cardinality(S) = MaxDue /\ \A r \in S : rule[r].next <= rule[q].next

BeginAlerts(t) ==
    /\ End(t)
    /\ \E S \in SUBSET Rules :
        /\ Cardinality(S) <= MaxDue /\ OldestDue(S)
        /\ eval' = IF S = {} THEN eval ELSE
             [eval EXCEPT ![t] = LoopOver(tick[t].age, [r \in Rules |-> IF r \in S THEN rule[r] ELSE NoRule])]
        /\ doubtful' = doubtful \cup {r \in S : Rivals(t, r)}
    /\ UNCHANGED <<setting, rule, reach, mishaps, newest>>

\* How an evaluation goes on that starts now from the row s: access and the definition are
\* read, the metric does not match or cannot be read, or the cooldown of s is over.
AnyTime(s) == TRUE
Cooled(s) == -s.trig >= s.cooldown
Verdicts(r, s) ==
    IF r \notin reach THEN {[at |-> "advance", off |-> TRUE]}
    ELSE {[at |-> "advance", off |-> FALSE]}
         \cup (IF Cooled(s) THEN {[at |-> "deliver", off |-> FALSE]} ELSE {})
Judged(k, r, v) == [at |-> v.at, stay |-> k.stay, snap |-> k.snap, rule |-> r, start |-> 0, off |-> v.off]

\* The row that was selected is evaluated, however old it is.
Take(t) ==
    /\ eval[t].at = "loop"
    /\ \E r \in {r \in Rules : Holds(t, r)} :
        /\ \A q \in Rules : Holds(t, q) => eval[t].snap[r].next <= eval[t].snap[q].next
        /\ \E v \in Verdicts(r, eval[t].snap[r]) : eval' = [eval EXCEPT ![t] = Judged(@, r, v)]
    /\ UNCHANGED <<vars, setting, rule, reach, mishaps, newest, doubtful>>

LaterOf(m, n) == IF m < n THEN n ELSE m

\* destination.deliver succeeds, fails, or fails after all was sent.
Deliver(e) ==
    LET r == eval[e].rule
        sent == newest' = [newest EXCEPT ![r] = LaterOf(@, eval[e].start)]
    IN
    /\ eval[e].at = "deliver"
    /\ \/ sent /\ eval' = [eval EXCEPT ![e].at = "record"] /\ UNCHANGED doubtful
       \/ eval' = [eval EXCEPT ![e].at = "advance"] /\ UNCHANGED <<newest, doubtful>>
       \/ /\ "unsure" \in setting.events
          /\ sent /\ eval' = [eval EXCEPT ![e].at = "advance"] /\ doubtful' = doubtful \cup {r}
    /\ UNCHANGED <<vars, setting, rule, reach, mishaps>>

\* finalize writes when the evaluation started, over whatever is there.
Unmarked(r, start) == rule
Marked(r, start) == IF rule[r].there THEN [rule EXCEPT ![r].trig = start] ELSE rule

Record(e) ==
    LET r == eval[e].rule IN
    /\ eval[e].at = "record"
    /\ rule' = Marked(r, eval[e].start)
    /\ eval' = [eval EXCEPT ![e].at = "advance"]
    /\ doubtful' = IF newest[r] = eval[e].start /\ ~Rivals(e, r) THEN doubtful \ {r} ELSE doubtful
    /\ UNCHANGED <<vars, setting, reach, mishaps, newest>>

\* A throw before the delivery is recorded, or before the caller learns that access is lost.
Throw(e) ==
    /\ "throws" \in setting.events /\ mishaps < MaxCuts
    /\ eval[e].at = "record" \/ (eval[e].at = "advance" /\ eval[e].off)
    /\ eval' = [eval EXCEPT ![e].at = "advance", ![e].off = FALSE]
    /\ doubtful' = IF eval[e].at = "record" THEN doubtful \cup {eval[e].rule} ELSE doubtful
    /\ mishaps' = mishaps + 1
    /\ UNCHANGED <<vars, setting, rule, reach, newest>>

\* What a tick writes after an evaluation: the schedule is that of the selected row.
AlwaysNext(r, k) == [rule[r] EXCEPT !.next = NextRun(k.snap[r].every)]
Advanced(r, k) == IF k.off THEN [rule[r] EXCEPT !.on = FALSE]
                  ELSE [rule[r] EXCEPT !.next = NextRun(k.snap[r].every)]

Advance(t) ==
    LET r == eval[t].rule IN
    /\ eval[t].at = "advance"
    /\ rule' = IF rule[r].there THEN [rule EXCEPT ![r] = Advanced(r, eval[t])] ELSE rule
    /\ eval' = [eval EXCEPT ![t] = LoopOver(@.stay, [@.snap EXCEPT ![r] = NoRule])]
    /\ UNCHANGED <<vars, setting, reach, mishaps, newest, doubtful>>

EndAlerts(t) ==
    /\ eval[t].at = "loop" /\ \A r \in Rules : ~Holds(t, r)
    /\ eval' = [eval EXCEPT ![t] = AtRest]
    /\ UNCHANGED <<vars, setting, rule, reach, mishaps, newest, doubtful>>

\* The invocation or the request is cut, or the tick's own UPDATE throws.
CutAlerts(e) ==
    /\ "cut" \in setting.events /\ eval[e].at # "idle" /\ mishaps < MaxCuts
    /\ mishaps' = mishaps + 1
    /\ doubtful' = IF eval[e].at = "record" THEN doubtful \cup {eval[e].rule} ELSE doubtful
    /\ eval' = [eval EXCEPT ![e] = AtRest]
    /\ UNCHANGED <<vars, setting, rule, reach, newest>>

-----------------------------------------------------------------------------
(* Users.                                                                  *)

\* runRuleManually: any rule, at any time, from its row; it neither moves nor disables it.
PressRule(r) ==
    /\ "byHand" \in setting.events /\ eval[Hand].at = "idle" /\ rule[r].there
    /\ \E v \in Verdicts(r, rule[r]) :
        eval' = [eval EXCEPT ![Hand] = Judged(LoopOver(0, [AtRest.snap EXCEPT ![r] = rule[r]]), r, v)]
    /\ doubtful' = IF Rivals(Hand, r) THEN doubtful \cup {r} ELSE doubtful
    /\ UNCHANGED <<vars, setting, rule, reach, mishaps, newest>>

HandDone ==
    /\ eval[Hand].at = "advance"
    /\ eval' = [eval EXCEPT ![Hand] = AtRest]
    /\ UNCHANGED <<vars, setting, rule, reach, mishaps, newest, doubtful>>

\* updateRule and deleteRule: the owner may call them after access is lost.  (One whose rows
\* are scoped may only pause the rule; the model lets them do all.)
Updated(r, u) ==
    /\ rule[r].there
    /\ rule' = [rule EXCEPT ![r] = u]
    /\ UNCHANGED <<vars, setting, reach, eval, mishaps, newest, doubtful>>
UpdateRule(r) ==
    \/ "schedule" \in setting.events
       /\ \E p \in Periods : Updated(r, [rule[r] EXCEPT !.every = p, !.next = NextRun(p)])
    \/ "cooldown" \in setting.events
       /\ \E c \in Cooldowns : Updated(r, [rule[r] EXCEPT !.cooldown = c])
    \/ "switch" \in setting.events /\ Updated(r, [rule[r] EXCEPT !.on = ~@])
    \/ "delete" \in setting.events /\ Updated(r, NoRule)

\* The owner is removed, made a viewer, scoped by a row policy; or no longer.
ChangeAccess(r) ==
    /\ "access" \in setting.events /\ rule[r].there
    /\ reach' = IF r \in reach THEN reach \ {r} ELSE reach \cup {r}
    /\ UNCHANGED <<vars, setting, rule, eval, mishaps, newest, doubtful>>

-----------------------------------------------------------------------------
(* With the jobs and the clock.                                            *)

OlderRule(r) == IF r.there THEN [r EXCEPT !.next = Ago(@, MaxPast), !.trig = Ago(@, MaxPast)] ELSE r
OlderEval(e) ==
    IF eval[e].at = "idle" THEN eval[e]
    ELSE [eval[e] EXCEPT !.stay = IF e = Hand THEN 0 ELSE @ + 1,
                         !.start = IF eval[e].rule = None THEN 0 ELSE Ago(@, MaxPast),
                         !.snap = [r \in Rules |-> OlderRule(eval[e].snap[r])]]

AlertHour ==
    /\ Hour
    /\ \A t \in Ticks : eval[t].at = "idle" \/ ("long" \in scene.events /\ eval[t].stay < MaxStay)
    /\ rule' = [r \in Rules |-> OlderRule(rule[r])]
    /\ eval' = [e \in Evaluators |-> OlderEval(e)]
    /\ newest' = [r \in Rules |-> Ago(newest[r], MaxPast)]
    /\ UNCHANGED <<setting, reach, mishaps, doubtful>>

AlertStart(t) == Start(t) /\ eval[t].at = "idle" /\ UNCHANGED alertVars
JobStep(t) == (Defer(t) \/ Claim(t) \/ Write(t) \/ Notify(t)) /\ UNCHANGED alertVars
JobEvent ==
    /\ \/ \E t \in Ticks : Cut(t)
       \/ \E j \in Jobs : Press(j) \/ DeleteJob(j) \/ (\E e \in Periods : Reschedule(j, e))
                            \/ (\E on \in BOOLEAN : Enable(j, on))
       \/ ManualDone
    /\ UNCHANGED alertVars

AlertStep(t) == BeginAlerts(t) \/ Take(t) \/ Deliver(t) \/ Record(t) \/ Advance(t) \/ EndAlerts(t)

AlertNext ==
    \/ AlertHour
    \/ \E t \in Ticks : AlertStart(t) \/ JobStep(t) \/ AlertStep(t)
    \/ JobEvent
    \/ \E e \in Evaluators : Throw(e) \/ CutAlerts(e)
    \/ Deliver(Hand) \/ Record(Hand) \/ HandDone
    \/ \E r \in Rules : PressRule(r) \/ UpdateRule(r) \/ ChangeAccess(r)

\* As for the jobs: hours pass, the event of an hour comes, and an invocation goes on.
AlertFairness ==
    /\ WF_tickVars(AlertHour)
    /\ WF_tickVars(~fired /\ \E t \in Ticks : AlertStart(t))
    /\ \A t \in Ticks : WF_tickVars(JobStep(t) \/ AlertStep(t))

AlertSpec == AlertInit /\ [][AlertNext]_tickVars /\ AlertFairness

-----------------------------------------------------------------------------
RuleType == [there : BOOLEAN, on : BOOLEAN, every : Periods \cup {0}, next : Int,
             cooldown : Cooldowns \cup {0}, trig : Int]
EvalType == [at : {"idle", "loop", "deliver", "record", "advance"}, stay : Nat, snap : [Rules -> RuleType],
             rule : Rules \cup {None}, start : Int, off : BOOLEAN]

\* Every variable has its type, those of the jobs included.
AlertTypeOK ==
    /\ TypeOK
    /\ setting \in AlertScenes
    /\ rule \in [Rules -> RuleType]
    /\ reach \subseteq Rules
    /\ eval \in [Evaluators -> EvalType]
    /\ mishaps \in Nat
    /\ newest \in [Rules -> Int]
    /\ doubtful \subseteq Rules

\* An alert is sent again only when the cooldown is over since the last one (docs/
\* metric-alerts.md: it "gates re-delivery"), though no evaluation claims its rule and each
\* decides on a row read earlier.  Two evaluations that overlap, or a delivery that went
\* unrecorded, can break it, until a later delivery by a lone evaluation is recorded.
CooldownIsKept ==
    [][\A e \in Evaluators :
        eval[e].at # "deliver" /\ eval'[e].at = "deliver" =>
            LET r == eval'[e].rule
            IN  -newest[r] >= eval'[e].snap[r].cooldown \/ r \in doubtful']_tickVars

\* A rule that is due is evaluated, rescheduled, switched off or deleted in the end, however
\* many rules and jobs are due, and whatever ends invocations in the middle of their jobs.
DueRulesRun == \A r \in Rules : DueRule(r) ~> ~DueRule(r)

\* A rule whose owner has lost access goes off in the end (rules.ts: "Fail closed"), though
\* an evaluation may throw before it says so, unless the owner keeps postponing it with new
\* schedules.
LostAccessTurnsOff ==
    \A r \in Rules :
        (rule[r].on /\ r \notin reach /\ "schedule" \notin setting.events) ~> (~rule[r].on \/ r \in reach)
=============================================================================
