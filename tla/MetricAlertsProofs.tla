------------------------- MODULE MetricAlertsProofs -------------------------
(***************************************************************************)
(* Proofs about MetricAlerts, for all rules, schedules, cooldowns and      *)
(* whatever the jobs of the same invocations do.                           *)
(***************************************************************************)
EXTENDS MetricAlerts, ScheduledJobsProofs

-----------------------------------------------------------------------------
(* The jobs run as they do alone.                                          *)

\* The cases of JobEvent in which no invocation is cut.
LEMMA EventCases ==
  ASSUME JobEvent
  PROVE  (User \/ \E t \in Ticks : Cut(t)) /\ UNCHANGED alertVars
  BY DEF JobEvent, User

LEMMA JobsGoOn == [AlertNext]_tickVars => [Next]_vars
<1> SUFFICES ASSUME [AlertNext]_tickVars PROVE [Next]_vars
  OBVIOUS
<1>1. CASE UNCHANGED tickVars
  BY <1>1 DEF tickVars
<1>2. CASE AlertHour
  BY <1>2 DEF AlertHour, Next
<1>3. ASSUME NEW t \in Ticks, AlertStart(t) \/ JobStep(t) \/ BeginAlerts(t) PROVE [Next]_vars
  BY <1>3 DEF AlertStart, JobStep, BeginAlerts, Next, Step
<1>4. ASSUME NEW t \in Ticks, Take(t) \/ Advance(t) \/ EndAlerts(t) PROVE [Next]_vars
  BY <1>4 DEF Take, Advance, EndAlerts
<1>5. CASE JobEvent
  BY <1>5 DEF JobEvent, Next
<1>6. ASSUME NEW e \in Evaluators, Deliver(e) \/ Record(e) \/ Throw(e) \/ CutAlerts(e) PROVE [Next]_vars
  BY <1>6 DEF Deliver, Record, Throw, CutAlerts
<1>7. CASE HandDone
  BY <1>7 DEF HandDone
<1>8. ASSUME NEW r \in Rules, PressRule(r) \/ UpdateRule(r) \/ ChangeAccess(r) PROVE [Next]_vars
  <2>1. CASE PressRule(r)
    BY <2>1 DEF PressRule
  <2>2. CASE UpdateRule(r)
    <3>1. \E u : Updated(r, u)
      BY <2>2, Zenon DEF UpdateRule
    <3> QED
      BY <3>1 DEF Updated
  <2>3. CASE ChangeAccess(r)
    BY <2>3 DEF ChangeAccess
  <2> QED
    BY <1>8, <2>1, <2>2, <2>3
<1> QED
  BY <1>1, <1>2, <1>3, <1>4, <1>5, <1>6, <1>7, <1>8 DEF AlertNext, AlertStep, Evaluators

\* The rules take nothing from the jobs: with them every step is a step of ScheduledJobs or
\* changes nothing of it.
THEOREM JobsAreUndisturbed == AlertSpec => Init /\ [][Next]_vars
<1>1. AlertInit => Init
  BY DEF AlertInit
<1> QED
  BY <1>1, JobsGoOn, PTL DEF AlertSpec

\* So what is proved of the jobs alone holds beside the rules: retries stay bounded, a due
\* time is claimed once, and a failing job has told its owner, but for the named exceptions.
THEOREM JobsKeepTheirPromises ==
  AlertSpec => []RetriesAreBounded /\ []FailingIsTold /\ ClaimsGoForward
<1>1. IInv => RetriesAreBounded
  BY DEF IInv, JobInv, Bounded, RetriesAreBounded
<1>2. Init => FailingIsTold
  BY FailingInit
<1>3. IInv /\ [Next]_vars =>
        [\A j \in Jobs : \A t \in Ticks :
          (tick[t].at = "loop" /\ tick'[t].at = "run" /\ tick'[t].job = j)
            => tick[t].snap[j].next > claimed[j] \/ j \in crossed]_vars
  BY ClaimStep
<1> QED
  BY <1>1, <1>2, <1>3, JobsAreUndisturbed, InvInit, InvStep, TypeInit, TypeStep, FailingStep, PTL
     DEF ClaimsGoForward

-----------------------------------------------------------------------------
(* Types.                                                                  *)

\* What the types of rules and evaluations leave out.
RuleOK(r) == r.there => r.every \in Periods
EvalOK(k) ==
    /\ \A r \in Rules : RuleOK(k.snap[r])
    /\ k.at \in {"idle", "loop"} <=> k.rule = None
    /\ k.rule # None => k.snap[k.rule].there
    /\ k.at = "idle" => \A r \in Rules : ~k.snap[r].there
    /\ k.start <= 0

OwnTypes ==
    /\ setting \in AlertScenes
    /\ rule \in [Rules -> RuleType] /\ \A r \in Rules : RuleOK(rule[r])
    /\ reach \subseteq Rules
    /\ eval \in [Evaluators -> EvalType] /\ \A e \in Evaluators : EvalOK(eval[e])
    /\ mishaps \in Nat
    /\ newest \in [Rules -> Int] /\ \A r \in Rules : newest[r] <= 0
    /\ doubtful \subseteq Rules

\* An invocation runs jobs or evaluates rules.
Apart == \A t \in Ticks : tick[t].at # "idle" => eval[t].at = "idle"

LEMMA NoRuleType == NoRule \in RuleType /\ RuleOK(NoRule) /\ ~NoRule.there
  BY DEF NoRule, RuleType, RuleOK

LEMMA AtRestType ==
  /\ AtRest \in EvalType /\ EvalOK(AtRest)
  /\ AtRest.at = "idle" /\ AtRest.rule = None /\ \A r \in Rules : ~AtRest.snap[r].there
<1>1. /\ AtRest.at = "idle" /\ AtRest.rule = None /\ AtRest.start = 0
      /\ AtRest.snap = [r \in Rules |-> NoRule]
  BY DEF AtRest
<1>2. AtRest \in EvalType
  BY NoRuleType DEF AtRest, EvalType
<1>3. \A r \in Rules : RuleOK(AtRest.snap[r]) /\ ~AtRest.snap[r].there
  BY <1>1, NoRuleType
<1> QED
  BY <1>1, <1>2, <1>3 DEF EvalOK

LEMMA LoopOverType ==
  ASSUME NEW n \in Nat, NEW sn \in [Rules -> RuleType], \A r \in Rules : RuleOK(sn[r])
  PROVE  LET k == LoopOver(n, sn) IN
         /\ k \in EvalType /\ EvalOK(k) /\ k.at = "loop" /\ k.rule = None /\ k.snap = sn
<1>1. LoopOver(n, sn) = [at |-> "loop", stay |-> n, snap |-> sn, rule |-> None, start |-> 0, off |-> FALSE]
  BY DEF LoopOver
<1> QED
  BY <1>1 DEF EvalType, EvalOK

\* An evaluation that has its verdict.
LEMMA JudgedType ==
  ASSUME NEW k \in EvalType, \A q \in Rules : RuleOK(k.snap[q]), NEW r \in Rules, k.snap[r].there,
         NEW s, NEW v \in Verdicts(r, s)
  PROVE  LET n == Judged(k, r, v) IN
         /\ n \in EvalType /\ EvalOK(n) /\ n.rule = r /\ n.start = 0 /\ n.snap = k.snap
         /\ n.at \in {"advance", "deliver"}
         /\ n.at = "deliver" => Cooled(s)
<1>1. v.at \in {"advance", "deliver"} /\ v.off \in BOOLEAN /\ (v.at = "deliver" => Cooled(s))
  <2>1. \/ v = [at |-> "advance", off |-> TRUE]
        \/ v = [at |-> "advance", off |-> FALSE]
        \/ Cooled(s) /\ v = [at |-> "deliver", off |-> FALSE]
    BY DEF Verdicts
  <2>2. CASE v = [at |-> "advance", off |-> TRUE]
    BY <2>2
  <2>3. CASE v = [at |-> "advance", off |-> FALSE]
    BY <2>3
  <2>4. CASE Cooled(s) /\ v = [at |-> "deliver", off |-> FALSE]
    BY <2>4
  <2> QED
    BY <2>1, <2>2, <2>3, <2>4
<1>2. k.stay \in Nat /\ k.snap \in [Rules -> RuleType]
  BY DEF EvalType
<1>3. Judged(k, r, v) = [at |-> v.at, stay |-> k.stay, snap |-> k.snap, rule |-> r, start |-> 0, off |-> v.off]
  BY DEF Judged
<1>4. Judged(k, r, v) \in EvalType
  BY <1>1, <1>3 DEF EvalType
<1>5. EvalOK(Judged(k, r, v))
  BY <1>1, <1>2, <1>3, MetricAlertsAssumption DEF EvalOK
<1> QED
  BY <1>1, <1>2, <1>3, <1>4, <1>5

LEMMA EvalFields ==
  ASSUME OwnTypes, NEW e \in Evaluators
  PROVE  /\ eval[e] \in EvalType /\ EvalOK(eval[e])
         /\ eval[e].at \in {"idle", "loop", "deliver", "record", "advance"} /\ eval[e].stay \in Nat
         /\ eval[e].snap \in [Rules -> RuleType] /\ \A r \in Rules : RuleOK(eval[e].snap[r])
         /\ eval[e].rule \in Rules \cup {None} /\ eval[e].start \in Int /\ eval[e].start <= 0
         /\ eval[e].off \in BOOLEAN
         /\ eval[e].at \in {"idle", "loop"} <=> eval[e].rule = None
         /\ eval[e].rule # None => eval[e].snap[eval[e].rule].there
         /\ eval[e].at = "idle" => \A r \in Rules : ~eval[e].snap[r].there
<1>1. eval[e] \in EvalType /\ EvalOK(eval[e])
  BY DEF OwnTypes
<1> QED
  BY <1>1 DEF EvalType, EvalOK

\* One evaluator moves.
LEMMA EvalSet ==
  ASSUME OwnTypes, NEW e \in Evaluators, NEW k \in EvalType, EvalOK(k), eval' = [eval EXCEPT ![e] = k]
  PROVE  /\ eval' \in [Evaluators -> EvalType] /\ \A f \in Evaluators : EvalOK(eval'[f])
         /\ eval'[e] = k /\ \A f \in Evaluators \ {e} : eval'[f] = eval[f]
  BY DEF OwnTypes

\* One rule changes.
LEMMA RuleSet ==
  ASSUME OwnTypes, NEW r \in Rules, NEW u \in RuleType, RuleOK(u), rule' = [rule EXCEPT ![r] = u]
  PROVE  /\ rule' \in [Rules -> RuleType] /\ \A q \in Rules : RuleOK(rule'[q])
         /\ rule'[r] = u /\ \A q \in Rules \ {r} : rule'[q] = rule[q]
  BY DEF OwnTypes

-----------------------------------------------------------------------------
(* What each action does, and that it keeps the types.                     *)

\* What e holds of r is what it held, or less; and it records r if it did.
Keeps(e, r) ==
    /\ Holds(e, r)' => Holds(e, r) /\ eval'[e].snap[r] = eval[e].snap[r] /\ (eval[e].rule = r => eval'[e].rule = r)
    /\ eval'[e].rule = r => eval[e].rule = r /\ eval'[e].start = eval[e].start
    /\ eval'[e].rule = r /\ eval'[e].at \in {"deliver", "record"} => eval[e].at = eval'[e].at
    /\ eval[e].rule = r /\ eval[e].at = "record" => eval'[e].rule = r /\ eval'[e].at = "record"

LEMMA SameKeeps ==
  ASSUME NEW e \in Evaluators, NEW r \in Rules, eval'[e] = eval[e]
  PROVE  Keeps(e, r)
  BY DEF Keeps, Holds

\* The rule stays what it was for the cooldown, or goes.
SameMark(r) == rule'[r].there => rule[r].there /\ rule'[r].trig = rule[r].trig

LEMMA TakeEffect ==
  ASSUME OwnTypes, NEW t \in Ticks, Take(t)
  PROVE  /\ OwnTypes'
         /\ eval[t].at = "loop"
         /\ \A f \in Evaluators \ {t} : eval'[f] = eval[f]
         /\ \E r \in Rules :
              /\ Holds(t, r) /\ eval'[t].rule = r /\ eval'[t].snap = eval[t].snap /\ eval'[t].start = 0
              /\ eval'[t].at \in {"advance", "deliver"}
              /\ eval'[t].at = "deliver" => Cooled(eval[t].snap[r])
         /\ rule' = rule /\ newest' = newest /\ doubtful' = doubtful
<1>0. PICK r \in Rules :
        Holds(t, r) /\ \E v \in Verdicts(r, eval[t].snap[r]) : eval' = [eval EXCEPT ![t] = Judged(@, r, v)]
  BY DEF Take
<1>1. PICK v \in Verdicts(r, eval[t].snap[r]) : eval' = [eval EXCEPT ![t] = Judged(eval[t], r, v)]
  BY <1>0
<1>2. t \in Evaluators
  BY DEF Evaluators
<1> DEFINE k == Judged(eval[t], r, v)
<1>3. /\ k \in EvalType /\ EvalOK(k) /\ k.rule = r /\ k.start = 0 /\ k.snap = eval[t].snap
      /\ k.at \in {"advance", "deliver"} /\ (k.at = "deliver" => Cooled(eval[t].snap[r]))
  <2>1. eval[t] \in EvalType /\ (\A q \in Rules : RuleOK(eval[t].snap[q])) /\ eval[t].snap[r].there
    BY <1>0, <1>2, EvalFields DEF Holds
  <2> QED
    BY <2>1, JudgedType
<1>4. eval' = [eval EXCEPT ![t] = k]
  BY <1>1
<1> HIDE DEF k
<1>5. /\ eval' \in [Evaluators -> EvalType] /\ (\A f \in Evaluators : EvalOK(eval'[f]))
      /\ eval'[t] = k /\ \A f \in Evaluators \ {t} : eval'[f] = eval[f]
  BY <1>2, <1>3, <1>4, EvalSet
<1>6. /\ UNCHANGED <<setting, rule, reach, mishaps, newest, doubtful>> /\ eval[t].at = "loop"
  BY DEF Take
<1>7. OwnTypes'
  BY <1>5, <1>6 DEF OwnTypes
<1> QED
  BY <1>0, <1>3, <1>5, <1>6, <1>7

LEMMA DeliverEffect ==
  ASSUME OwnTypes, NEW e \in Evaluators, Deliver(e)
  PROVE  LET r == eval[e].rule IN
         /\ OwnTypes'
         /\ r \in Rules /\ eval[e].at = "deliver" /\ Holds(e, r)
         /\ \A f \in Evaluators \ {e} : eval'[f] = eval[f]
         /\ eval'[e].snap = eval[e].snap /\ eval'[e].rule = r /\ eval'[e].start = eval[e].start
         /\ rule' = rule
         /\ \/ /\ newest' = [newest EXCEPT ![r] = LaterOf(newest[r], eval[e].start)]
               /\ (eval'[e].at = "record" /\ doubtful' = doubtful)
                  \/ (eval'[e].at = "advance" /\ doubtful' = doubtful \cup {r})
            \/ eval'[e].at = "advance" /\ newest' = newest /\ doubtful' = doubtful
<1> DEFINE r == eval[e].rule
           k(a) == [eval[e] EXCEPT !.at = a]
<1>1. r \in Rules /\ eval[e].at = "deliver" /\ Holds(e, r)
  BY EvalFields DEF Deliver, Holds
<1>2. /\ UNCHANGED <<setting, rule, reach, mishaps>>
      /\ \/ /\ newest' = [newest EXCEPT ![r] = LaterOf(newest[r], eval[e].start)]
            /\ \/ eval' = [eval EXCEPT ![e] = k("record")] /\ doubtful' = doubtful
               \/ eval' = [eval EXCEPT ![e] = k("advance")] /\ doubtful' = doubtful \cup {r}
         \/ eval' = [eval EXCEPT ![e] = k("advance")] /\ newest' = newest /\ doubtful' = doubtful
  BY DEF Deliver
<1>3. ASSUME NEW a \in {"record", "advance"}, eval' = [eval EXCEPT ![e] = k(a)]
      PROVE  /\ eval' \in [Evaluators -> EvalType] /\ \A f \in Evaluators : EvalOK(eval'[f])
             /\ \A f \in Evaluators \ {e} : eval'[f] = eval[f]
             /\ eval'[e].snap = eval[e].snap /\ eval'[e].rule = r /\ eval'[e].start = eval[e].start
             /\ eval'[e].at = a
  <2>1. /\ k(a) \in EvalType /\ k(a).at = a /\ k(a).rule = r /\ k(a).start = eval[e].start
        /\ k(a).snap = eval[e].snap
    BY EvalFields DEF EvalType
  <2> HIDE DEF k
  <2>2. EvalOK(k(a))
    BY <1>1, <2>1, EvalFields DEF EvalOK
  <2> QED
    BY <1>3, <2>1, <2>2, EvalSet
<1>4. /\ newest' \in [Rules -> Int] /\ \A q \in Rules : newest'[q] <= 0
  <2>1. LaterOf(newest[r], eval[e].start) \in Int /\ LaterOf(newest[r], eval[e].start) <= 0
    BY <1>1, EvalFields DEF OwnTypes, LaterOf
  <2> HIDE DEF r, k
  <2>2. newest' = [newest EXCEPT ![r] = LaterOf(newest[r], eval[e].start)] \/ newest' = newest
    BY <1>2
  <2> QED
    BY <2>1, <2>2 DEF OwnTypes
<1> HIDE DEF k
<1>5. OwnTypes'
  BY <1>1, <1>2, <1>3, <1>4 DEF OwnTypes
<1> QED
  BY <1>1, <1>2, <1>3, <1>5

LEMMA RecordEffect ==
  ASSUME OwnTypes, NEW e \in Evaluators, Record(e)
  PROVE  LET r == eval[e].rule IN
         /\ OwnTypes'
         /\ r \in Rules /\ eval[e].at = "record" /\ Holds(e, r)
         /\ \A f \in Evaluators \ {e} : eval'[f] = eval[f]
         /\ eval'[e].at = "advance" /\ eval'[e].snap = eval[e].snap /\ eval'[e].rule = r
         /\ eval'[e].start = eval[e].start
         /\ rule'[r].there => rule'[r].trig = eval[e].start
         /\ \A q \in Rules \ {r} : rule'[q] = rule[q]
         /\ newest' = newest
         /\ \A q \in Rules \ {r} : q \notin doubtful' => q \notin doubtful
         /\ r \notin doubtful' => r \notin doubtful \/ (newest[r] = eval[e].start /\ ~Rivals(e, r))
<1> DEFINE r == eval[e].rule
           k == [eval[e] EXCEPT !.at = "advance"]
           u == [rule[r] EXCEPT !.trig = eval[e].start]
<1>1. r \in Rules /\ eval[e].at = "record" /\ Holds(e, r) /\ eval[e].start \in Int
  BY EvalFields DEF Record, Holds
<1>2. /\ UNCHANGED <<setting, reach, mishaps, newest>>
      /\ eval' = [eval EXCEPT ![e] = k]
      /\ rule' = Marked(r, eval[e].start)
      /\ doubtful' = IF newest[r] = eval[e].start /\ ~Rivals(e, r) THEN doubtful \ {r} ELSE doubtful
  BY DEF Record
<1>3. /\ k \in EvalType /\ k.at = "advance" /\ k.rule = r /\ k.start = eval[e].start /\ k.snap = eval[e].snap
  BY EvalFields DEF EvalType
<1> HIDE DEF k
<1>4. EvalOK(k)
  BY <1>1, <1>3, EvalFields DEF EvalOK
<1>5. /\ eval' \in [Evaluators -> EvalType] /\ (\A f \in Evaluators : EvalOK(eval'[f]))
      /\ eval'[e] = k /\ \A f \in Evaluators \ {e} : eval'[f] = eval[f]
  BY <1>2, <1>3, <1>4, EvalSet
<1>6. /\ u \in RuleType /\ u.trig = eval[e].start /\ (u.there <=> rule[r].there) /\ u.every = rule[r].every
  BY <1>1 DEF OwnTypes, RuleType
<1> HIDE DEF u
<1>7. /\ rule' \in [Rules -> RuleType] /\ (\A q \in Rules : RuleOK(rule'[q]))
      /\ (rule'[r].there => rule'[r].trig = eval[e].start)
      /\ \A q \in Rules \ {r} : rule'[q] = rule[q]
  <2>1. CASE rule[r].there
    <3>1. rule' = [rule EXCEPT ![r] = u]
      BY <1>2, <2>1 DEF Marked, u
    <3>2. RuleOK(u)
      BY <1>1, <1>6 DEF RuleOK, OwnTypes
    <3> HIDE DEF r
    <3> QED
      BY <1>1, <1>6, <3>1, <3>2, RuleSet
  <2>2. CASE ~rule[r].there
    BY <1>2, <2>2 DEF Marked, OwnTypes
  <2> QED
    BY <2>1, <2>2
<1>8. OwnTypes'
  BY <1>2, <1>5, <1>7 DEF OwnTypes
<1> QED
  BY <1>1, <1>2, <1>3, <1>5, <1>7, <1>8

\* A step that begins no evaluation and delivers nothing: a rule that stays out of doubt
\* is as it was for everybody.
Harmless ==
    /\ OwnTypes'
    /\ \A e \in Evaluators : /\ eval'[e].at = "deliver" => eval[e].at = "deliver"
                             /\ eval[e].at = "idle" => eval'[e].at = "idle"
    /\ \A r \in Rules : r \notin doubtful' =>
         /\ r \notin doubtful
         /\ SameMark(r) /\ newest'[r] = newest[r]
         /\ \A e \in Evaluators : Keeps(e, r)

\* An evaluator that drops all it holds, or that of one rule, or only what was recorded.
LEMMA Lessened ==
  ASSUME OwnTypes, NEW e \in Evaluators, NEW k \in EvalType, EvalOK(k), eval' = [eval EXCEPT ![e] = k],
         k.at # "deliver", k.at # "record", eval[e].at = "idle" => k.at = "idle",
         k.rule # None => k.rule = eval[e].rule /\ k.start = eval[e].start,
         \A r \in Rules : k.snap[r].there =>
            eval[e].snap[r].there /\ k.snap[r] = eval[e].snap[r] /\ (eval[e].rule = r => k.rule = r)
  PROVE  /\ eval' \in [Evaluators -> EvalType] /\ \A f \in Evaluators : EvalOK(eval'[f])
         /\ \A f \in Evaluators : /\ eval'[f].at = "deliver" => eval[f].at = "deliver"
                                  /\ eval[f].at = "idle" => eval'[f].at = "idle"
         /\ \A r \in Rules : ~(eval[e].at = "record" /\ eval[e].rule = r) => \A f \in Evaluators : Keeps(f, r)
<1>1. /\ eval' \in [Evaluators -> EvalType] /\ (\A f \in Evaluators : EvalOK(eval'[f]))
      /\ eval'[e] = k /\ \A f \in Evaluators \ {e} : eval'[f] = eval[f]
  BY EvalSet
<1>2. ASSUME NEW r \in Rules, ~(eval[e].at = "record" /\ eval[e].rule = r), NEW f \in Evaluators
      PROVE  Keeps(f, r)
  <2>1. CASE f # e
    BY <1>1, <2>1, SameKeeps
  <2>2. CASE f = e
    BY <1>1, <1>2, <2>2, MetricAlertsAssumption DEF Keeps, Holds
  <2> QED
    BY <2>1, <2>2
<1> QED
  BY <1>1, <1>2

LEMMA DropEffect ==
  ASSUME OwnTypes, NEW e \in Evaluators,
         EndAlerts(e) \/ (HandDone /\ e = Hand) \/ CutAlerts(e)
  PROVE  Harmless
<1>1. eval' = [eval EXCEPT ![e] = AtRest] /\ rule' = rule /\ newest' = newest
      /\ setting' = setting /\ reach' = reach
  BY DEF EndAlerts, HandDone, CutAlerts
<1>2. /\ mishaps' \in Nat /\ doubtful' \subseteq Rules /\ doubtful \subseteq doubtful'
      /\ eval[e].at = "record" => eval[e].rule \in doubtful'
  <2>1. eval[e].at = "record" => eval[e].rule \in Rules
    BY EvalFields
  <2> QED
    BY <2>1 DEF EndAlerts, HandDone, CutAlerts, OwnTypes
<1>3. /\ eval' \in [Evaluators -> EvalType] /\ (\A f \in Evaluators : EvalOK(eval'[f]))
      /\ (\A f \in Evaluators : /\ eval'[f].at = "deliver" => eval[f].at = "deliver"
                                /\ eval[f].at = "idle" => eval'[f].at = "idle")
      /\ \A r \in Rules : ~(eval[e].at = "record" /\ eval[e].rule = r) => \A f \in Evaluators : Keeps(f, r)
  BY <1>1, AtRestType, Lessened
<1>4. OwnTypes'
  BY <1>1, <1>2, <1>3 DEF OwnTypes
<1> QED
  BY <1>1, <1>2, <1>3, <1>4 DEF Harmless, SameMark

LEMMA ThrowEffect ==
  ASSUME OwnTypes, NEW e \in Evaluators, Throw(e)
  PROVE  Harmless
<1> DEFINE k == [eval[e] EXCEPT !.at = "advance", !.off = FALSE]
<1>1. /\ eval' = [eval EXCEPT ![e] = k] /\ rule' = rule /\ newest' = newest
      /\ setting' = setting /\ reach' = reach
      /\ eval[e].at \in {"record", "advance"}
  BY EvalFields DEF Throw
<1>2. /\ mishaps' \in Nat /\ doubtful' \subseteq Rules /\ doubtful \subseteq doubtful'
      /\ eval[e].at = "record" => eval[e].rule \in doubtful'
  BY EvalFields DEF Throw, OwnTypes
<1>3. /\ k \in EvalType /\ k.at = "advance" /\ k.rule = eval[e].rule /\ k.start = eval[e].start
      /\ k.snap = eval[e].snap
  BY EvalFields DEF EvalType
<1> HIDE DEF k
<1>4. EvalOK(k)
  BY <1>1, <1>3, EvalFields DEF EvalOK
<1>5. /\ eval' \in [Evaluators -> EvalType] /\ (\A f \in Evaluators : EvalOK(eval'[f]))
      /\ (\A f \in Evaluators : /\ eval'[f].at = "deliver" => eval[f].at = "deliver"
                                /\ eval[f].at = "idle" => eval'[f].at = "idle")
      /\ \A r \in Rules : ~(eval[e].at = "record" /\ eval[e].rule = r) => \A f \in Evaluators : Keeps(f, r)
  BY <1>1, <1>3, <1>4, Lessened
<1>6. OwnTypes'
  BY <1>1, <1>2, <1>5 DEF OwnTypes
<1> QED
  BY <1>1, <1>2, <1>5, <1>6 DEF Harmless, SameMark

LEMMA AdvanceEffect ==
  ASSUME OwnTypes, TypeInv, NEW t \in Ticks, Advance(t)
  PROVE  Harmless
<1> DEFINE r == eval[t].rule
           sn == [eval[t].snap EXCEPT ![r] = NoRule]
           k == LoopOver(eval[t].stay, sn)
<1>1. t \in Evaluators
  BY DEF Evaluators
<1>2. /\ eval[t].at = "advance" /\ r \in Rules /\ eval[t].stay \in Nat /\ eval[t].snap[r].there
      /\ eval[t].snap \in [Rules -> RuleType] /\ (\A q \in Rules : RuleOK(eval[t].snap[q]))
  BY <1>1, EvalFields DEF Advance
<1>3. /\ eval' = [eval EXCEPT ![t] = k]
      /\ rule' = IF rule[r].there THEN [rule EXCEPT ![r] = Advanced(r, eval[t])] ELSE rule
      /\ UNCHANGED <<setting, reach, mishaps, newest, doubtful>>
  BY DEF Advance
<1>4. sn \in [Rules -> RuleType] /\ (\A q \in Rules : RuleOK(sn[q]) /\ (sn[q].there => q # r /\ sn[q] = eval[t].snap[q]))
  BY <1>2, NoRuleType
<1> HIDE DEF sn
<1>5. k \in EvalType /\ EvalOK(k) /\ k.at = "loop" /\ k.rule = None /\ k.snap = sn
  BY <1>2, <1>4, LoopOverType
<1> HIDE DEF k
<1>6. /\ eval' \in [Evaluators -> EvalType] /\ (\A f \in Evaluators : EvalOK(eval'[f]))
      /\ (\A f \in Evaluators : /\ eval'[f].at = "deliver" => eval[f].at = "deliver"
                                /\ eval[f].at = "idle" => eval'[f].at = "idle")
      /\ \A q \in Rules : \A f \in Evaluators : Keeps(f, q)
  <2>1. /\ eval' \in [Evaluators -> EvalType] /\ (\A f \in Evaluators : EvalOK(eval'[f]))
        /\ (\A f \in Evaluators : /\ eval'[f].at = "deliver" => eval[f].at = "deliver"
                                  /\ eval[f].at = "idle" => eval'[f].at = "idle")
        /\ \A q \in Rules : ~(eval[t].at = "record" /\ eval[t].rule = q) => \A f \in Evaluators : Keeps(f, q)
    BY <1>1, <1>2, <1>3, <1>4, <1>5, Lessened
  <2> QED
    BY <1>2, <2>1
<1>7. /\ rule' \in [Rules -> RuleType] /\ (\A q \in Rules : RuleOK(rule'[q]) /\ SameMark(q))
  <2>1. CASE rule[r].there
    <3> DEFINE u == Advanced(r, eval[t])
    <3>1. NextRun(eval[t].snap[r].every) \in Int
      BY <1>2, NextRunType DEF RuleOK, TypeInv, TypeOK
    <3>2. /\ u \in RuleType /\ u.trig = rule[r].trig /\ (u.there <=> rule[r].there) /\ u.every = rule[r].every
      <4>1. rule[r] \in RuleType
        BY <1>2 DEF OwnTypes
      <4>2. CASE eval[t].off
        BY <4>1, <4>2 DEF Advanced, RuleType
      <4>3. CASE ~eval[t].off
        BY <3>1, <4>1, <4>3 DEF Advanced, RuleType
      <4> QED
        BY <4>2, <4>3
    <3>3. rule' = [rule EXCEPT ![r] = u]
      BY <1>3, <2>1
    <3> HIDE DEF u
    <3>4. RuleOK(u)
      BY <1>2, <3>2 DEF RuleOK, OwnTypes
    <3>5. /\ rule' \in [Rules -> RuleType] /\ (\A q \in Rules : RuleOK(rule'[q]))
          /\ rule'[r] = u /\ \A q \in Rules \ {r} : rule'[q] = rule[q]
      BY <1>2, <3>2, <3>3, <3>4, RuleSet
    <3> QED
      BY <3>2, <3>5 DEF SameMark
  <2>2. CASE ~rule[r].there
    BY <1>3, <2>2 DEF SameMark, OwnTypes
  <2> QED
    BY <2>1, <2>2
<1>8. OwnTypes'
  BY <1>3, <1>6, <1>7 DEF OwnTypes
<1> QED
  BY <1>3, <1>6, <1>7, <1>8 DEF Harmless

LEMMA UpdateEffect ==
  ASSUME OwnTypes, TypeInv, NEW r \in Rules, UpdateRule(r) \/ ChangeAccess(r)
  PROVE  Harmless
<1>1. CASE UpdateRule(r)
  <2>1. \E u \in RuleType : RuleOK(u) /\ (u.there => u.trig = rule[r].trig) /\ Updated(r, u)
    <3>1. rule[r] \in RuleType /\ RuleOK(rule[r])
      BY DEF OwnTypes
    <3>2. ASSUME NEW q \in Periods, Updated(r, [rule[r] EXCEPT !.every = q, !.next = NextRun(q)])
          PROVE  \E u \in RuleType : RuleOK(u) /\ (u.there => u.trig = rule[r].trig) /\ Updated(r, u)
      <4> DEFINE u == [rule[r] EXCEPT !.every = q, !.next = NextRun(q)]
      <4>1. NextRun(q) \in Int
        BY NextRunType DEF TypeInv, TypeOK
      <4>2. u \in RuleType /\ u.every = q /\ u.trig = rule[r].trig
        BY <3>1, <4>1 DEF RuleType
      <4> HIDE DEF u
      <4>3. Updated(r, u)
        BY <3>2 DEF u
      <4> QED
        BY <4>2, <4>3 DEF RuleOK
    <3>3. ASSUME NEW c \in Cooldowns, Updated(r, [rule[r] EXCEPT !.cooldown = c])
          PROVE  \E u \in RuleType : RuleOK(u) /\ (u.there => u.trig = rule[r].trig) /\ Updated(r, u)
      <4> DEFINE u == [rule[r] EXCEPT !.cooldown = c]
      <4>1. u \in RuleType /\ u.every = rule[r].every /\ u.trig = rule[r].trig /\ (u.there <=> rule[r].there)
        BY <3>1 DEF RuleType
      <4> HIDE DEF u
      <4>2. Updated(r, u)
        BY <3>3 DEF u
      <4> QED
        BY <3>1, <4>1, <4>2 DEF RuleOK
    <3>4. ASSUME Updated(r, [rule[r] EXCEPT !.on = ~@])
          PROVE  \E u \in RuleType : RuleOK(u) /\ (u.there => u.trig = rule[r].trig) /\ Updated(r, u)
      <4> DEFINE u == [rule[r] EXCEPT !.on = ~@]
      <4>1. u \in RuleType /\ u.every = rule[r].every /\ u.trig = rule[r].trig /\ (u.there <=> rule[r].there)
        BY <3>1 DEF RuleType
      <4> HIDE DEF u
      <4>2. Updated(r, u)
        BY <3>4 DEF u
      <4> QED
        BY <3>1, <4>1, <4>2 DEF RuleOK
    <3>5. ASSUME Updated(r, NoRule)
          PROVE  \E u \in RuleType : RuleOK(u) /\ (u.there => u.trig = rule[r].trig) /\ Updated(r, u)
      BY <3>5, NoRuleType
    <3> QED
      BY <1>1, <3>2, <3>3, <3>4, <3>5, Zenon DEF UpdateRule
  <2>2. PICK u \in RuleType : RuleOK(u) /\ (u.there => u.trig = rule[r].trig) /\ Updated(r, u)
    BY <2>1
  <2>3. /\ rule' = [rule EXCEPT ![r] = u] /\ rule[r].there
        /\ UNCHANGED <<setting, reach, eval, mishaps, newest, doubtful>>
    BY <2>2 DEF Updated
  <2>4. /\ rule' \in [Rules -> RuleType] /\ (\A q \in Rules : RuleOK(rule'[q]))
        /\ rule'[r] = u /\ \A q \in Rules \ {r} : rule'[q] = rule[q]
    BY <2>2, <2>3, RuleSet
  <2>5. OwnTypes'
    BY <2>3, <2>4 DEF OwnTypes
  <2>6. \A q \in Rules : SameMark(q)
    BY <2>2, <2>3, <2>4 DEF SameMark
  <2> QED
    BY <2>3, <2>5, <2>6, SameKeeps DEF Harmless
<1>2. CASE ChangeAccess(r)
  <2>1. /\ reach' \subseteq Rules /\ UNCHANGED <<setting, rule, eval, mishaps, newest, doubtful>>
    BY <1>2 DEF ChangeAccess, OwnTypes
  <2>2. OwnTypes'
    BY <2>1 DEF OwnTypes
  <2> QED
    BY <2>1, <2>2, SameKeeps DEF Harmless, SameMark
<1> QED
  BY <1>1, <1>2

LEMMA StillEffect ==
  ASSUME OwnTypes, UNCHANGED alertVars
  PROVE  Harmless
<1>1. OwnTypes'
  BY DEF alertVars, OwnTypes
<1> QED
  BY <1>1, SameKeeps DEF alertVars, Harmless, SameMark

LEMMA PressEffect ==
  ASSUME OwnTypes, NEW r \in Rules, PressRule(r)
  PROVE  /\ OwnTypes'
         /\ eval[Hand].at = "idle" /\ Hand \in Evaluators
         /\ \A f \in Evaluators \ {Hand} : eval'[f] = eval[f]
         /\ \A q \in Rules : Holds(Hand, q)' <=> q = r
         /\ eval'[Hand].rule = r /\ eval'[Hand].start = 0 /\ eval'[Hand].at \in {"advance", "deliver"}
         /\ eval'[Hand].snap[r] = rule[r]
         /\ eval'[Hand].at = "deliver" => Cooled(rule[r])
         /\ rule' = rule /\ newest' = newest
         /\ \A q \in Rules : q \notin doubtful' => q \notin doubtful
         /\ r \notin doubtful' => ~Rivals(Hand, r)
<1> DEFINE sn == [AtRest.snap EXCEPT ![r] = rule[r]]
           l == LoopOver(0, sn)
<1>1. PICK v \in Verdicts(r, rule[r]) : eval' = [eval EXCEPT ![Hand] = Judged(l, r, v)]
  BY DEF PressRule
<1>2. /\ eval[Hand].at = "idle" /\ rule[r].there /\ Hand \in Evaluators
      /\ doubtful' = (IF Rivals(Hand, r) THEN doubtful \cup {r} ELSE doubtful)
      /\ UNCHANGED <<setting, rule, reach, mishaps, newest>>
  BY DEF PressRule, Evaluators
<1>3. /\ sn \in [Rules -> RuleType] /\ sn[r] = rule[r] /\ (\A q \in Rules : RuleOK(sn[q]))
      /\ \A q \in Rules : sn[q].there <=> q = r
  <2>1. AtRest.snap = [q \in Rules |-> NoRule]
    BY DEF AtRest
  <2>2. rule[r] \in RuleType /\ RuleOK(rule[r])
    BY DEF OwnTypes
  <2> QED
    BY <1>2, <2>1, <2>2, NoRuleType
<1> HIDE DEF sn
<1>4. l \in EvalType /\ EvalOK(l) /\ l.snap = sn
  BY <1>3, LoopOverType
<1> HIDE DEF l
<1> DEFINE k == Judged(l, r, v)
<1>5. /\ k \in EvalType /\ EvalOK(k) /\ k.rule = r /\ k.start = 0 /\ k.snap = sn
      /\ k.at \in {"advance", "deliver"} /\ (k.at = "deliver" => Cooled(rule[r]))
  <2>1. (\A q \in Rules : RuleOK(l.snap[q])) /\ l.snap[r].there
    BY <1>3, <1>4
  <2> QED
    BY <1>4, <2>1, JudgedType
<1>6. eval' = [eval EXCEPT ![Hand] = k]
  BY <1>1
<1> HIDE DEF k
<1>7. /\ eval' \in [Evaluators -> EvalType] /\ (\A f \in Evaluators : EvalOK(eval'[f]))
      /\ eval'[Hand] = k /\ \A f \in Evaluators \ {Hand} : eval'[f] = eval[f]
  BY <1>2, <1>5, <1>6, EvalSet
<1>8. OwnTypes'
  BY <1>2, <1>7 DEF OwnTypes
<1>9. \A q \in Rules : Holds(Hand, q)' <=> q = r
  BY <1>3, <1>5, <1>7 DEF Holds
<1> QED
  BY <1>2, <1>3, <1>5, <1>7, <1>8, <1>9

\* The rules selected are held by t, and nothing else changes.
LEMMA BeginEffect ==
  ASSUME OwnTypes, TypeInv, Apart, NEW t \in Ticks, BeginAlerts(t)
  PROVE  /\ OwnTypes'
         /\ tick'[t] = Idle /\ \A u \in Ticks \ {t} : tick'[u] = tick[u]
         /\ eval[t].at = "idle"
         /\ \A f \in Evaluators \ {t} : eval'[f] = eval[f]
         /\ eval'[t].at \in {"idle", "loop"}
         /\ \A r \in Rules : Holds(t, r)' => /\ eval'[t].snap[r] = rule[r] /\ rule[r].there
                                             /\ r \notin doubtful' => ~Rivals(t, r)
         /\ rule' = rule /\ newest' = newest /\ doubtful \subseteq doubtful'
<1>0. /\ End(t) /\ UNCHANGED <<setting, rule, reach, mishaps, newest>> /\ t \in Evaluators
  BY DEF BeginAlerts, Evaluators
<1>1. /\ tick'[t] = Idle /\ (\A u \in Ticks \ {t} : tick'[u] = tick[u])
      /\ eval[t].at = "idle" /\ tick[t].age \in Nat
  <2>1. tick[t].at = "loop"
    BY <1>0 DEF End
  <2> QED
    BY <1>0, <2>1, EndEffect, TickFields DEF Apart
<1>2. PICK S \in SUBSET Rules :
        /\ OldestDue(S)
        /\ eval' = (IF S = {} THEN eval ELSE
             [eval EXCEPT ![t] = LoopOver(tick[t].age, [r \in Rules |-> IF r \in S THEN rule[r] ELSE NoRule])])
        /\ doubtful' = doubtful \cup {r \in S : Rivals(t, r)}
  BY DEF BeginAlerts
<1> DEFINE sn == [r \in Rules |-> IF r \in S THEN rule[r] ELSE NoRule]
           k == LoopOver(tick[t].age, sn)
<1>3. /\ sn \in [Rules -> RuleType] /\ (\A r \in Rules : RuleOK(sn[r]))
      /\ \A r \in Rules : sn[r].there => r \in S /\ sn[r] = rule[r] /\ rule[r].there
  BY NoRuleType DEF OwnTypes
<1> HIDE DEF sn
<1>4. k \in EvalType /\ EvalOK(k) /\ k.at = "loop" /\ k.snap = sn
  BY <1>1, <1>3, LoopOverType
<1> HIDE DEF k
<1>5. S # {} => eval' = [eval EXCEPT ![t] = k]
  BY <1>2 DEF k, sn
<1>6. /\ eval' \in [Evaluators -> EvalType] /\ (\A f \in Evaluators : EvalOK(eval'[f]))
      /\ (eval'[t] = k \/ eval'[t] = eval[t]) /\ \A f \in Evaluators \ {t} : eval'[f] = eval[f]
  <2>1. CASE S = {}
    BY <1>2, <2>1 DEF OwnTypes
  <2>2. CASE S # {}
    BY <1>0, <1>4, <1>5, <2>2, EvalSet
  <2> QED
    BY <2>1, <2>2
<1>7. OwnTypes'
  BY <1>0, <1>2, <1>6 DEF OwnTypes
<1>8. \A r \in Rules : ~Holds(t, r)
  BY <1>0, <1>1, EvalFields DEF Holds
<1>9. ASSUME NEW r \in Rules, Holds(t, r)'
      PROVE  /\ eval'[t].snap[r] = rule[r] /\ rule[r].there
             /\ r \notin doubtful' => ~Rivals(t, r)
  <2>1. eval'[t] = k
    BY <1>6, <1>8, <1>9 DEF Holds
  <2> QED
    BY <1>2, <1>3, <1>4, <1>9, <2>1 DEF Holds
<1> QED
  BY <1>0, <1>1, <1>2, <1>4, <1>6, <1>7, <1>9

LEMMA AgoOrder ==
  ASSUME NEW m \in Int, NEW n \in Int, m <= n, NEW b \in Nat
  PROVE  Ago(m, b) \in Int /\ Ago(m, b) <= Ago(n, b) /\ Ago(m, b) <= m
  BY DEF Ago

LEMMA OlderRuleType ==
  ASSUME NEW r \in RuleType, RuleOK(r)
  PROVE  /\ OlderRule(r) \in RuleType /\ RuleOK(OlderRule(r))
         /\ OlderRule(r).there <=> r.there
         /\ r.there => OlderRule(r).trig = Ago(r.trig, MaxPast)
<1>1. CASE ~r.there
  BY <1>1 DEF OlderRule
<1>2. CASE r.there
  <2> DEFINE n == Ago(r.next, MaxPast)
             m == Ago(r.trig, MaxPast)
  <2>1. n \in Int /\ m \in Int
    BY AgoOrder, ScheduledJobsAssumption DEF RuleType
  <2>2. OlderRule(r) = [r EXCEPT !.next = n, !.trig = m]
    BY <1>2 DEF OlderRule
  <2> HIDE DEF n
  <2>3. /\ OlderRule(r) \in RuleType /\ OlderRule(r).there = r.there /\ OlderRule(r).trig = m
        /\ OlderRule(r).every = r.every
    <3> HIDE DEF m
    <3> QED
      BY <2>1, <2>2 DEF RuleType
  <2> QED
    BY <2>3 DEF RuleOK
<1> QED
  BY <1>1, <1>2

\* What an evaluator holds ages with all the rest.
AgesToo(e) ==
    /\ eval'[e].at = eval[e].at /\ eval'[e].rule = eval[e].rule
    /\ eval[e].rule # None => eval'[e].start = Ago(eval[e].start, MaxPast)
    /\ \A r \in Rules : Holds(e, r)' <=> Holds(e, r)
    /\ \A r \in Rules : Holds(e, r) => eval'[e].snap[r].trig = Ago(eval[e].snap[r].trig, MaxPast)

LEMMA AgedEffect ==
  ASSUME OwnTypes, AlertHour
  PROVE  /\ OwnTypes'
         /\ \A e \in Evaluators : AgesToo(e)
         /\ \A r \in Rules :
              /\ rule'[r].there <=> rule[r].there
              /\ rule[r].there => rule'[r].trig = Ago(rule[r].trig, MaxPast)
              /\ newest'[r] = Ago(newest[r], MaxPast)
         /\ doubtful' = doubtful
<1>1. /\ rule' = [r \in Rules |-> OlderRule(rule[r])]
      /\ eval' = [e \in Evaluators |-> OlderEval(e)]
      /\ newest' = [r \in Rules |-> Ago(newest[r], MaxPast)]
      /\ UNCHANGED <<setting, reach, mishaps, doubtful>>
  BY DEF AlertHour
<1>2. MaxPast \in Nat
  BY ScheduledJobsAssumption
<1>3. ASSUME NEW e \in Evaluators
      PROVE  eval'[e] \in EvalType /\ EvalOK(eval'[e]) /\ AgesToo(e)
  <2>1. eval'[e] = OlderEval(e)
    BY <1>1
  <2>2. CASE eval[e].at = "idle"
    <3>1. eval'[e] = eval[e]
      BY <2>1, <2>2 DEF OlderEval
    <3> QED
      BY <2>2, <3>1, EvalFields DEF AgesToo, Holds
  <2>3. CASE eval[e].at # "idle"
    <3> DEFINE st == IF e = Hand THEN 0 ELSE eval[e].stay + 1
               sa == IF eval[e].rule = None THEN 0 ELSE Ago(eval[e].start, MaxPast)
               sn == [r \in Rules |-> OlderRule(eval[e].snap[r])]
    <3>1. eval'[e] = [eval[e] EXCEPT !.stay = st, !.start = sa, !.snap = sn]
      BY <2>1, <2>3 DEF OlderEval
    <3>2. st \in Nat /\ sa \in Int /\ sa <= 0 /\ (eval[e].rule # None => sa = Ago(eval[e].start, MaxPast))
      <4>1. eval[e].start \in Int /\ eval[e].start <= 0 /\ eval[e].stay \in Nat
        BY EvalFields
      <4>2. LET a == Ago(eval[e].start, MaxPast) IN a \in Int /\ a <= eval[e].start
        BY <1>2, <4>1, AgoOrder
      <4> QED
        BY <4>1, <4>2
    <3>3. /\ sn \in [Rules -> RuleType]
          /\ \A r \in Rules :
               /\ RuleOK(sn[r]) /\ (sn[r].there <=> eval[e].snap[r].there)
               /\ eval[e].snap[r].there => sn[r].trig = Ago(eval[e].snap[r].trig, MaxPast)
      <4>1. \A r \in Rules : eval[e].snap[r] \in RuleType /\ RuleOK(eval[e].snap[r])
        BY EvalFields
      <4> QED
        BY <4>1, OlderRuleType
    <3> HIDE DEF st, sa, sn
    <3>4. /\ eval'[e] \in EvalType /\ eval'[e].at = eval[e].at /\ eval'[e].rule = eval[e].rule
          /\ eval'[e].snap = sn /\ eval'[e].start = sa
      BY <3>1, <3>2, <3>3, EvalFields DEF EvalType
    <3>5. EvalOK(eval'[e])
      <4>1. /\ eval[e].at \in {"idle", "loop"} <=> eval[e].rule = None
            /\ eval[e].rule # None => eval[e].rule \in Rules /\ eval[e].snap[eval[e].rule].there
        BY EvalFields
      <4> QED
        BY <2>3, <3>2, <3>3, <3>4, <4>1 DEF EvalOK
    <3>6. AgesToo(e)
      <4>1. \A r \in Rules : eval'[e].snap[r] = sn[r]
        BY <3>4
      <4> QED
        BY <3>2, <3>3, <3>4, <4>1 DEF AgesToo, Holds
    <3> QED
      BY <3>4, <3>5, <3>6
  <2> QED
    BY <2>2, <2>3
<1>4. ASSUME NEW r \in Rules
      PROVE  /\ rule'[r] \in RuleType /\ RuleOK(rule'[r]) /\ (rule'[r].there <=> rule[r].there)
             /\ rule[r].there => rule'[r].trig = Ago(rule[r].trig, MaxPast)
             /\ newest'[r] = Ago(newest[r], MaxPast) /\ newest'[r] \in Int /\ newest'[r] <= 0
  <2>1. rule[r] \in RuleType /\ RuleOK(rule[r]) /\ newest[r] \in Int /\ newest[r] <= 0
    BY DEF OwnTypes
  <2>2. Ago(newest[r], MaxPast) \in Int /\ Ago(newest[r], MaxPast) <= 0
    BY <1>2, <2>1, AgoOrder
  <2> QED
    BY <1>1, <2>1, <2>2, OlderRuleType
<1>5. /\ rule' \in [Rules -> RuleType] /\ eval' \in [Evaluators -> EvalType] /\ newest' \in [Rules -> Int]
  BY <1>1, <1>3, <1>4
<1>6. OwnTypes'
  BY <1>1, <1>3, <1>4, <1>5 DEF OwnTypes
<1> QED
  BY <1>1, <1>3, <1>4, <1>6

-----------------------------------------------------------------------------
(* Every step.                                                             *)

AlertTypeInv == TypeInv /\ OwnTypes /\ Apart

LEMMA AlertCases ==
  ASSUME AlertTypeInv, [AlertNext]_tickVars
  PROVE  \/ Harmless
         \/ AlertHour
         \/ \E t \in Ticks : BeginAlerts(t) \/ Take(t)
         \/ \E e \in Evaluators : Deliver(e) \/ Record(e)
         \/ \E r \in Rules : PressRule(r)
<1> USE DEF AlertTypeInv
<1>1. CASE UNCHANGED alertVars
  BY <1>1, StillEffect
<1>2. CASE UNCHANGED tickVars
  BY <1>1, <1>2 DEF tickVars
<1>3. ASSUME NEW t \in Ticks, AlertStart(t) \/ JobStep(t) PROVE UNCHANGED alertVars
  BY <1>3 DEF AlertStart, JobStep
<1>4. ASSUME NEW t \in Ticks, Advance(t) \/ EndAlerts(t) PROVE Harmless
  BY <1>4, AdvanceEffect, DropEffect DEF Evaluators
<1>5. CASE JobEvent
  BY <1>1, <1>5, EventCases
<1>6. ASSUME NEW e \in Evaluators, Throw(e) \/ CutAlerts(e) PROVE Harmless
  BY <1>6, ThrowEffect, DropEffect
<1>7. CASE HandDone
  BY <1>7, DropEffect DEF Evaluators
<1>8. ASSUME NEW r \in Rules, UpdateRule(r) \/ ChangeAccess(r) PROVE Harmless
  BY <1>8, UpdateEffect
<1> QED
  BY <1>1, <1>2, <1>3, <1>4, <1>5, <1>6, <1>7, <1>8 DEF AlertNext, AlertStep, Evaluators

LEMMA OwnStep ==
  ASSUME AlertTypeInv, [AlertNext]_tickVars
  PROVE  OwnTypes'
<1> USE DEF AlertTypeInv
<1>1. ASSUME NEW t \in Ticks, BeginAlerts(t) \/ Take(t) PROVE OwnTypes'
  BY <1>1, BeginEffect, TakeEffect
<1>2. ASSUME NEW e \in Evaluators, Deliver(e) \/ Record(e) PROVE OwnTypes'
  BY <1>2, DeliverEffect, RecordEffect
<1>3. ASSUME NEW r \in Rules, PressRule(r) PROVE OwnTypes'
  BY <1>3, PressEffect
<1>4. Harmless => OwnTypes'
  BY DEF Harmless
<1> QED
  BY <1>1, <1>2, <1>3, <1>4, AlertCases, AgedEffect

\* A step of the rules alone wakes no evaluation of a tick but the one that began it.
LEMMA OnlyTheAwake ==
  ASSUME AlertTypeInv, tick' = tick,
         \A t \in Ticks : eval[t].at = "idle" => eval'[t].at = "idle"
  PROVE  Apart'
  BY DEF AlertTypeInv, Apart

LEMMA ApartStep ==
  ASSUME AlertTypeInv, [AlertNext]_tickVars
  PROVE  Apart'
<1> USE DEF AlertTypeInv
<1>0. Ticks \subseteq Evaluators /\ Hand \notin Ticks /\ Idle.at = "idle"
  BY MetricAlertsAssumption DEF Evaluators, Idle
<1>1. CASE AlertHour
  BY <1>0, <1>1, HourEffect, AgedEffect DEF AlertHour, Apart, Ages, AgesToo
<1>2. ASSUME NEW t \in Ticks, AlertStart(t) PROVE Apart'
  BY <1>2, StartEffect DEF AlertStart, alertVars, Apart
<1>3. ASSUME NEW t \in Ticks, JobStep(t) PROVE Apart'
  <2>1. tick[t].at # "idle" /\ \A u \in Ticks \ {t} : tick'[u] = tick[u]
    BY <1>3, DeferEffect, ClaimEffect, WriteEffect, NotifyEffect DEF JobStep
  <2> QED
    BY <1>3, <2>1 DEF JobStep, alertVars, Apart
<1>4. ASSUME NEW t \in Ticks, BeginAlerts(t) PROVE Apart'
  BY <1>0, <1>4, BeginEffect DEF Apart
<1>5. CASE JobEvent
  <2>1. CASE User
    BY <1>5, <2>1, UserEffect, EventCases DEF alertVars, Apart
  <2>2. ASSUME NEW t \in Ticks, Cut(t) PROVE Apart'
    BY <1>0, <1>5, <2>2, EndEffect, EventCases DEF alertVars, Apart
  <2> QED
    BY <1>5, <2>1, <2>2, EventCases
<1>6. ASSUME NEW t \in Ticks, Take(t) \/ Advance(t) \/ EndAlerts(t) PROVE Apart'
  <2>1. CASE Take(t)
    <3>1. tick' = tick
      BY <2>1 DEF Take, vars
    <3> QED
      BY <1>0, <2>1, <3>1, TakeEffect, OnlyTheAwake
  <2>2. CASE Advance(t) \/ EndAlerts(t)
    <3>1. tick' = tick
      BY <2>2 DEF Advance, EndAlerts, vars
    <3>2. Harmless
      BY <1>0, <2>2, AdvanceEffect, DropEffect
    <3> QED
      BY <1>0, <3>1, <3>2, OnlyTheAwake DEF Harmless
  <2> QED
    BY <1>6, <2>1, <2>2
<1>7. ASSUME NEW e \in Evaluators, Deliver(e) \/ Record(e) PROVE Apart'
  <2>1. tick' = tick
    BY <1>7 DEF Deliver, Record, vars
  <2> QED
    BY <1>0, <1>7, <2>1, DeliverEffect, RecordEffect, OnlyTheAwake
<1>8. ASSUME NEW e \in Evaluators, Throw(e) \/ CutAlerts(e) \/ (HandDone /\ e = Hand) PROVE Apart'
  <2>1. tick' = tick
    BY <1>8 DEF Throw, CutAlerts, HandDone, vars
  <2>2. Harmless
    BY <1>8, ThrowEffect, DropEffect
  <2> QED
    BY <1>0, <2>1, <2>2, OnlyTheAwake DEF Harmless
<1>9. ASSUME NEW r \in Rules, PressRule(r) PROVE Apart'
  <2>1. tick' = tick
    BY <1>9 DEF PressRule, vars
  <2> QED
    BY <1>0, <1>9, <2>1, PressEffect, OnlyTheAwake
<1>10. ASSUME NEW r \in Rules, UpdateRule(r) \/ ChangeAccess(r) PROVE Apart'
  <2>1. CASE UpdateRule(r)
    <3>1. \E u : Updated(r, u)
      BY <2>1, Zenon DEF UpdateRule
    <3> QED
      BY <3>1 DEF Updated, vars, Apart
  <2>2. CASE ChangeAccess(r)
    BY <2>2 DEF ChangeAccess, vars, Apart
  <2> QED
    BY <1>10, <2>1, <2>2
<1>11. CASE UNCHANGED tickVars
  BY <1>11 DEF tickVars, alertVars, vars, Apart
<1> QED
  BY <1>1, <1>2, <1>3, <1>4, <1>5, <1>6, <1>7, <1>8, <1>9, <1>10, <1>11 DEF AlertNext, AlertStep, Evaluators

LEMMA AlertInitType == AlertInit => AlertTypeInv
<1> SUFFICES ASSUME AlertInit PROVE AlertTypeInv
  OBVIOUS
<1>1. TypeInv
  BY TypeInit DEF AlertInit
<1>2. PICK s \in AlertScenes : setting = s
  BY DEF AlertInit
<1>3. \A r \in Rules : /\ setting.every[r] \in Periods \cup {0}
                      /\ setting.cooldown[r] \in Cooldowns
  BY <1>2, MetricAlertsAssumption
<1>4. MaxPast \in Nat /\ \A p \in Periods : p \in Nat
  BY ScheduledJobsAssumption
<1>5. ASSUME NEW r \in Rules PROVE rule[r] \in RuleType /\ RuleOK(rule[r])
  <2>1. CASE setting.every[r] = 0
    <3>1. rule[r] = NoRule
      BY <2>1 DEF AlertInit
    <3> QED
      BY <3>1, NoRuleType
  <2>2. CASE setting.every[r] # 0
    <3> DEFINE p == setting.every[r]
               c == setting.cooldown[r]
    <3>1. rule[r] = [there |-> TRUE, on |-> TRUE, every |-> p, next |-> p, cooldown |-> c, trig |-> -MaxPast]
      BY <2>2 DEF AlertInit
    <3>2. p \in Periods /\ c \in Cooldowns
      BY <1>3, <2>2
    <3> HIDE DEF p, c
    <3>3. p \in Int /\ -MaxPast \in Int
      BY <1>4, <3>2
    <3> QED
      BY <3>1, <3>2, <3>3 DEF RuleType, RuleOK
  <2> QED
    BY <2>1, <2>2
<1>6. rule \in [Rules -> RuleType]
  <2>1. rule = [r \in Rules |-> rule[r]]
    BY DEF AlertInit
  <2> QED
    BY <1>5, <2>1
<1>7. eval \in [Evaluators -> EvalType] /\ \A e \in Evaluators : EvalOK(eval[e]) /\ eval[e].at = "idle"
  <2>1. eval = [e \in Evaluators |-> AtRest]
    BY DEF AlertInit
  <2> QED
    BY <2>1, AtRestType
<1>8. newest \in [Rules -> Int] /\ \A r \in Rules : newest[r] <= 0
  <2>1. newest = [r \in Rules |-> -MaxPast]
    BY DEF AlertInit
  <2> QED
    BY <1>4, <2>1
<1>9. setting \in AlertScenes /\ reach \subseteq Rules /\ mishaps \in Nat /\ doubtful \subseteq Rules
  BY DEF AlertInit
<1>10. OwnTypes
  BY <1>5, <1>6, <1>7, <1>8, <1>9 DEF OwnTypes
<1>11. Apart
  BY <1>7 DEF Apart, Evaluators
<1> QED
  BY <1>1, <1>10, <1>11 DEF AlertTypeInv

LEMMA AlertTypeStep == AlertTypeInv /\ [AlertNext]_tickVars => AlertTypeInv'
  BY OwnStep, ApartStep, JobsGoOn, TypeStep DEF AlertTypeInv

\* Rules, evaluations and jobs always have their types: what an invocation writes from the
\* row it selected hours ago is still a rule.
THEOREM AlertTypes == AlertSpec => []AlertTypeOK
<1>1. AlertTypeInv => AlertTypeOK
  BY DEF AlertTypeInv, TypeInv, OwnTypes, AlertTypeOK
<1> QED
  BY <1>1, AlertInitType, AlertTypeStep, PTL DEF AlertSpec

-----------------------------------------------------------------------------
(* The cooldown.                                                           *)

\* What is known of a rule that is not in doubt: one evaluator holds it at most; the row
\* tells of the latest delivery unless that is about to be recorded; so does a selected row
\* until its turn comes; a delivery is no older than the one before; and what will be
\* recorded is the latest.
Alone(r) == \A e \in Evaluators : \A f \in Evaluators : Holds(e, r) /\ Holds(f, r) => e = f
Recorder(r) == \E e \in Evaluators : eval[e].at = "record" /\ eval[e].rule = r
Marks(r) == rule[r].there => rule[r].trig = newest[r] \/ Recorder(r)
Fresh(r) == \A e \in Evaluators : Holds(e, r) /\ eval[e].rule # r => eval[e].snap[r].trig = newest[r]
Ahead(r) == \A e \in Evaluators : eval[e].at = "deliver" /\ eval[e].rule = r => newest[r] <= eval[e].start
Exact(r) == \A e \in Evaluators : eval[e].at = "record" /\ eval[e].rule = r => eval[e].start = newest[r]

Known(r) == Alone(r) /\ Marks(r) /\ Fresh(r) /\ Ahead(r) /\ Exact(r)
KnownInv == \A r \in Rules : r \notin doubtful => Known(r)

LEMMA RuleIsHeld ==
  ASSUME OwnTypes, NEW e \in Evaluators, NEW r \in Rules, eval[e].rule = r
  PROVE  Holds(e, r)
  BY EvalFields, MetricAlertsAssumption DEF Holds

\* A rule that nobody touches.
LEMMA Calm ==
  ASSUME NEW r \in Rules, Known(r), SameMark(r), newest'[r] = newest[r],
         \A e \in Evaluators : Keeps(e, r)
  PROVE  Known(r)'
<1>1. Alone(r)'
  BY DEF Keeps, Known, Alone
<1>2. Marks(r)'
  <2>1. Recorder(r) => Recorder(r)'
    BY DEF Keeps, Recorder
  <2> QED
    BY <2>1 DEF Known, Marks, SameMark
<1>3. Fresh(r)'
  BY DEF Keeps, Known, Fresh
<1>4. Ahead(r)'
  BY DEF Keeps, Known, Ahead
<1>5. Exact(r)'
  BY DEF Keeps, Known, Exact
<1> QED
  BY <1>1, <1>2, <1>3, <1>4, <1>5 DEF Known

LEMMA KnownHarmless ==
  ASSUME KnownInv, Harmless
  PROVE  KnownInv'
  BY Calm DEF KnownInv, Harmless

LEMMA KnownAged ==
  ASSUME OwnTypes, KnownInv, AlertHour
  PROVE  KnownInv'
<1> SUFFICES ASSUME NEW r \in Rules, r \notin doubtful' PROVE Known(r)'
  BY DEF KnownInv
<1>1. /\ \A e \in Evaluators : AgesToo(e)
      /\ (rule'[r].there <=> rule[r].there)
      /\ (rule[r].there => rule'[r].trig = Ago(rule[r].trig, MaxPast))
      /\ newest'[r] = Ago(newest[r], MaxPast)
  BY AgedEffect
<1>2. Known(r)
  BY AgedEffect DEF KnownInv
<1>3. Alone(r)'
  BY <1>1, <1>2 DEF AgesToo, Known, Alone
<1>4. Marks(r)'
  BY <1>1, <1>2 DEF AgesToo, Known, Marks, Recorder
<1>5. Fresh(r)'
  BY <1>1, <1>2 DEF AgesToo, Known, Fresh
<1>6. Ahead(r)'
  <2> SUFFICES ASSUME NEW e \in Evaluators, eval'[e].at = "deliver", eval'[e].rule = r
               PROVE  newest'[r] <= eval'[e].start
    BY DEF Ahead
  <2>1. eval[e].at = "deliver" /\ eval[e].rule = r /\ eval[e].rule # None
    BY <1>1, MetricAlertsAssumption DEF AgesToo
  <2>2. newest[r] \in Int /\ eval[e].start \in Int /\ newest[r] <= eval[e].start /\ MaxPast \in Nat
    BY <1>2, <2>1, EvalFields, ScheduledJobsAssumption DEF Known, Ahead, OwnTypes
  <2>3. eval'[e].start = Ago(eval[e].start, MaxPast)
    BY <1>1, <2>1 DEF AgesToo
  <2> QED
    BY <1>1, <2>2, <2>3, AgoOrder
<1>7. Exact(r)'
  BY <1>1, <1>2, MetricAlertsAssumption DEF AgesToo, Known, Exact
<1> QED
  BY <1>3, <1>4, <1>5, <1>6, <1>7 DEF Known

LEMMA KnownBegin ==
  ASSUME AlertTypeInv, KnownInv, NEW t \in Ticks, BeginAlerts(t)
  PROVE  KnownInv'
<1> SUFFICES ASSUME NEW r \in Rules, r \notin doubtful' PROVE Known(r)'
  BY DEF KnownInv
<1>1. /\ eval[t].at = "idle" /\ (\A f \in Evaluators \ {t} : eval'[f] = eval[f])
      /\ eval'[t].at \in {"idle", "loop"}
      /\ (Holds(t, r)' => eval'[t].snap[r] = rule[r] /\ rule[r].there /\ ~Rivals(t, r))
      /\ rule' = rule /\ newest' = newest /\ doubtful \subseteq doubtful' /\ OwnTypes'
  BY BeginEffect DEF AlertTypeInv
<1>2. t \in Evaluators /\ OwnTypes
  BY DEF Evaluators, AlertTypeInv
<1>3. Known(r)
  BY <1>1 DEF KnownInv
<1>4. eval[t].rule = None /\ eval'[t].rule = None
  BY <1>1, <1>2, EvalFields DEF OwnTypes, EvalOK
<1>5. CASE ~Holds(t, r)'
  <2>1. Keeps(t, r)
    BY <1>1, <1>4, <1>5, MetricAlertsAssumption DEF Keeps
  <2>2. \A e \in Evaluators : Keeps(e, r)
    BY <1>1, <2>1, SameKeeps
  <2> QED
    BY <1>1, <1>3, <2>2, Calm DEF SameMark
<1>6. CASE Holds(t, r)'
  <2>1. \A f \in Evaluators \ {t} : ~Holds(f, r) /\ ~Holds(f, r)' /\ eval[f].rule # r /\ eval'[f].rule # r
    <3>1. \A f \in Evaluators \ {t} : ~Holds(f, r)
      BY <1>1, <1>6 DEF Rivals
    <3>2. \A f \in Evaluators \ {t} : eval[f].rule # r
      BY <1>2, <3>1, RuleIsHeld
    <3> QED
      BY <1>1, <3>1, <3>2 DEF Holds
  <2>2. ~Recorder(r)
    BY <1>1, <2>1 DEF Recorder
  <2>3. rule[r].trig = newest[r]
    BY <1>1, <1>3, <1>6, <2>2 DEF Known, Marks
  <2>4. Alone(r)'
    BY <2>1 DEF Alone
  <2>5. Marks(r)'
    BY <1>1, <2>3 DEF Marks
  <2>6. Fresh(r)'
    BY <1>1, <1>6, <2>1, <2>3 DEF Fresh
  <2>7. Ahead(r)' /\ Exact(r)'
    BY <1>1, <2>1 DEF Ahead, Exact
  <2> QED
    BY <2>4, <2>5, <2>6, <2>7 DEF Known
<1> QED
  BY <1>5, <1>6

LEMMA KnownTake ==
  ASSUME OwnTypes, KnownInv, NEW t \in Ticks, Take(t)
  PROVE  KnownInv'
<1> SUFFICES ASSUME NEW r \in Rules, r \notin doubtful' PROVE Known(r)'
  BY DEF KnownInv
<1>1. PICK q \in Rules :
        /\ Holds(t, q) /\ eval'[t].rule = q /\ eval'[t].snap = eval[t].snap /\ eval'[t].start = 0
        /\ eval'[t].at \in {"advance", "deliver"}
  BY TakeEffect
<1>2. /\ eval[t].at = "loop" /\ (\A f \in Evaluators \ {t} : eval'[f] = eval[f])
      /\ rule' = rule /\ newest' = newest /\ doubtful' = doubtful
  BY TakeEffect
<1>3. t \in Evaluators /\ eval[t].rule = None /\ newest[r] <= 0
  BY <1>2, EvalFields DEF Evaluators, OwnTypes
<1>4. Known(r)
  BY <1>2 DEF KnownInv
<1>5. CASE r # q
  <2>1. Keeps(t, r)
    BY <1>1, <1>2, <1>3, <1>5, MetricAlertsAssumption DEF Keeps, Holds
  <2>2. \A e \in Evaluators : Keeps(e, r)
    BY <1>2, <2>1, SameKeeps
  <2> QED
    BY <1>2, <1>4, <2>2, Calm DEF SameMark
<1>6. CASE r = q
  <2>0. \A e \in Evaluators : Holds(e, r)' <=> Holds(e, r)
    BY <1>1, <1>2 DEF Holds
  <2>1. Alone(r)'
    BY <1>4, <2>0 DEF Known, Alone
  <2>2. Marks(r)'
    <3>1. Recorder(r) => Recorder(r)'
      BY <1>2 DEF Recorder
    <3> QED
      BY <1>2, <1>4, <3>1 DEF Known, Marks
  <2>3. Fresh(r)'
    BY <1>1, <1>2, <1>4, <1>6 DEF Known, Fresh, Holds
  <2>4. Ahead(r)'
    BY <1>1, <1>2, <1>3, <1>4 DEF Known, Ahead
  <2>5. Exact(r)'
    BY <1>1, <1>2, <1>4 DEF Known, Exact
  <2> QED
    BY <2>1, <2>2, <2>3, <2>4, <2>5 DEF Known
<1> QED
  BY <1>5, <1>6

\* The evaluator of r leaves all other rules alone.
LEMMA OthersCalm ==
  ASSUME OwnTypes, NEW e \in Evaluators, NEW r \in Rules, eval[e].rule = r, eval'[e].rule = r,
         eval'[e].snap = eval[e].snap, \A f \in Evaluators \ {e} : eval'[f] = eval[f],
         NEW q \in Rules, q # r, Known(q), SameMark(q), newest'[q] = newest[q]
  PROVE  Known(q)'
<1>1. Keeps(e, q)
  BY DEF Keeps, Holds
<1>2. \A f \in Evaluators : Keeps(f, q)
  BY <1>1, SameKeeps
<1> QED
  BY <1>2, Calm

\* It alone holds r.
LEMMA NoOther ==
  ASSUME OwnTypes, NEW e \in Evaluators, NEW r \in Rules, Holds(e, r), Alone(r)
  PROVE  \A f \in Evaluators \ {e} : ~Holds(f, r) /\ eval[f].rule # r
<1>1. \A f \in Evaluators \ {e} : ~Holds(f, r)
  BY DEF Alone
<1> QED
  BY <1>1, RuleIsHeld

LEMMA KnownDeliver ==
  ASSUME OwnTypes, KnownInv, NEW e \in Evaluators, Deliver(e)
  PROVE  KnownInv'
<1> SUFFICES ASSUME NEW q \in Rules, q \notin doubtful' PROVE Known(q)'
  BY DEF KnownInv
<1> DEFINE r == eval[e].rule
<1>1. /\ r \in Rules /\ eval[e].at = "deliver" /\ Holds(e, r)
      /\ \A f \in Evaluators \ {e} : eval'[f] = eval[f]
      /\ eval'[e].snap = eval[e].snap /\ eval'[e].rule = r /\ eval'[e].start = eval[e].start
      /\ rule' = rule
      /\ \/ /\ newest' = [newest EXCEPT ![r] = LaterOf(newest[r], eval[e].start)]
            /\ (eval'[e].at = "record" /\ doubtful' = doubtful)
               \/ (eval'[e].at = "advance" /\ doubtful' = doubtful \cup {r})
         \/ eval'[e].at = "advance" /\ newest' = newest /\ doubtful' = doubtful
  BY DeliverEffect
<1>2. q \notin doubtful /\ Known(q) /\ newest \in [Rules -> Int] /\ eval[e].start \in Int
  BY <1>1, EvalFields DEF KnownInv, OwnTypes
<1>3. eval[e].rule = r
  OBVIOUS
<1> HIDE DEF r
<1>4. CASE q # r
  BY <1>1, <1>2, <1>3, <1>4, OthersCalm DEF SameMark
<1>5. CASE q = r /\ eval'[e].at = "advance"
  <2>1. newest' = newest
    BY <1>1, <1>5
  <2>2. Keeps(e, q)
    BY <1>1, <1>3, <1>5 DEF Keeps, Holds
  <2>3. \A f \in Evaluators : Keeps(f, q)
    BY <1>1, <2>2, SameKeeps
  <2> QED
    BY <1>1, <1>2, <2>1, <2>3, Calm DEF SameMark
<1>6. CASE q = r /\ eval'[e].at = "record"
  <2>1. newest'[q] = eval[e].start
    <3>1. newest[q] <= eval[e].start
      BY <1>1, <1>2, <1>3, <1>6 DEF Known, Ahead
    <3>2. newest'[q] = LaterOf(newest[q], eval[e].start) /\ newest[q] \in Int
      BY <1>1, <1>2, <1>6
    <3> QED
      BY <1>2, <3>1, <3>2 DEF LaterOf
  <2>2. \A f \in Evaluators \ {e} : ~Holds(f, q) /\ eval[f].rule # q
    BY <1>1, <1>2, <1>6, NoOther DEF Known
  <2>3. \A f \in Evaluators \ {e} : ~Holds(f, q)' /\ eval'[f].rule # q
    BY <1>1, <2>2 DEF Holds
  <2>4. Alone(q)'
    BY <2>3 DEF Alone
  <2>5. Marks(q)'
    BY <1>1, <1>6 DEF Marks, Recorder
  <2>6. Fresh(q)'
    BY <1>1, <1>6, <2>3 DEF Fresh
  <2>7. Ahead(q)' /\ Exact(q)'
    BY <1>1, <1>6, <2>1, <2>3 DEF Ahead, Exact
  <2> QED
    BY <2>4, <2>5, <2>6, <2>7 DEF Known
<1> QED
  BY <1>1, <1>4, <1>5, <1>6

LEMMA KnownRecord ==
  ASSUME OwnTypes, KnownInv, NEW e \in Evaluators, Record(e)
  PROVE  KnownInv'
<1> SUFFICES ASSUME NEW q \in Rules, q \notin doubtful' PROVE Known(q)'
  BY DEF KnownInv
<1> DEFINE r == eval[e].rule
<1>1. /\ r \in Rules /\ eval[e].at = "record" /\ Holds(e, r)
      /\ \A f \in Evaluators \ {e} : eval'[f] = eval[f]
      /\ eval'[e].at = "advance" /\ eval'[e].snap = eval[e].snap /\ eval'[e].rule = r
      /\ rule'[r].there => rule'[r].trig = eval[e].start
      /\ \A p \in Rules \ {r} : rule'[p] = rule[p]
      /\ newest' = newest
      /\ \A p \in Rules \ {r} : p \notin doubtful' => p \notin doubtful
      /\ r \notin doubtful' => r \notin doubtful \/ (newest[r] = eval[e].start /\ ~Rivals(e, r))
  BY RecordEffect
<1>2. eval[e].rule = r
  OBVIOUS
<1> HIDE DEF r
<1>3. CASE q # r
  <2>1. Known(q) /\ SameMark(q)
    BY <1>1, <1>3 DEF KnownInv, SameMark
  <2> QED
    BY <1>1, <1>2, <1>3, <2>1, OthersCalm
<1>4. CASE q = r
  <2>1. newest[q] = eval[e].start /\ \A f \in Evaluators \ {e} : ~Holds(f, q) /\ eval[f].rule # q
    <3>1. CASE q \notin doubtful
      <4>1. Known(q)
        BY <3>1 DEF KnownInv
      <4> QED
        BY <1>1, <1>2, <1>4, <4>1, NoOther DEF Known, Exact
    <3>2. CASE newest[r] = eval[e].start /\ ~Rivals(e, r)
      BY <1>4, <3>2, RuleIsHeld DEF Rivals
    <3> QED
      BY <1>1, <1>4, <3>1, <3>2
  <2>2. \A f \in Evaluators \ {e} : ~Holds(f, q)' /\ eval'[f].rule # q
    BY <1>1, <2>1 DEF Holds
  <2>3. Alone(q)'
    BY <2>2 DEF Alone
  <2>4. Marks(q)'
    BY <1>1, <1>4, <2>1 DEF Marks
  <2>5. Fresh(q)'
    BY <1>1, <1>4, <2>2 DEF Fresh
  <2>6. Ahead(q)' /\ Exact(q)'
    BY <1>1, <2>2 DEF Ahead, Exact
  <2> QED
    BY <2>3, <2>4, <2>5, <2>6 DEF Known
<1> QED
  BY <1>3, <1>4

LEMMA KnownPress ==
  ASSUME OwnTypes, KnownInv, NEW r \in Rules, PressRule(r)
  PROVE  KnownInv'
<1> SUFFICES ASSUME NEW q \in Rules, q \notin doubtful' PROVE Known(q)'
  BY DEF KnownInv
<1>1. /\ eval[Hand].at = "idle" /\ Hand \in Evaluators
      /\ (\A f \in Evaluators \ {Hand} : eval'[f] = eval[f])
      /\ (Holds(Hand, q)' <=> q = r)
      /\ eval'[Hand].rule = r /\ eval'[Hand].start = 0 /\ eval'[Hand].at \in {"advance", "deliver"}
      /\ rule' = rule /\ newest' = newest /\ q \notin doubtful
      /\ (q = r => ~Rivals(Hand, r))
  BY PressEffect
<1>2. Known(q) /\ eval[Hand].rule = None /\ newest[q] <= 0
  BY <1>1, EvalFields DEF KnownInv, OwnTypes
<1>3. CASE q # r
  <2>1. Keeps(Hand, q)
    BY <1>1, <1>2, <1>3, MetricAlertsAssumption DEF Keeps
  <2>2. \A f \in Evaluators : Keeps(f, q)
    BY <1>1, <2>1, SameKeeps
  <2> QED
    BY <1>1, <1>2, <2>2, Calm DEF SameMark
<1>4. CASE q = r
  <2>1. \A f \in Evaluators \ {Hand} : ~Holds(f, q) /\ eval[f].rule # q
    BY <1>1, <1>4, RuleIsHeld DEF Rivals
  <2>2. \A f \in Evaluators \ {Hand} : ~Holds(f, q)' /\ eval'[f].rule # q
    BY <1>1, <2>1 DEF Holds
  <2>3. Alone(q)'
    BY <2>2 DEF Alone
  <2>4. Marks(q)'
    <3>1. ~Recorder(q)
      BY <1>1, <2>1 DEF Recorder
    <3> QED
      BY <1>1, <1>2, <3>1 DEF Known, Marks
  <2>5. Fresh(q)'
    BY <1>1, <1>4, <2>2 DEF Fresh
  <2>6. Ahead(q)' /\ Exact(q)'
    BY <1>1, <1>2, <2>2 DEF Ahead, Exact
  <2> QED
    BY <2>3, <2>4, <2>5, <2>6 DEF Known
<1> QED
  BY <1>3, <1>4

LEMMA KnownStep == AlertTypeInv /\ KnownInv /\ [AlertNext]_tickVars => KnownInv'
  BY AlertCases, KnownHarmless, KnownAged, KnownBegin, KnownTake, KnownDeliver, KnownRecord, KnownPress
     DEF AlertTypeInv

LEMMA KnownInit == AlertInit => KnownInv
<1> SUFFICES ASSUME AlertInit, NEW r \in Rules PROVE Known(r)
  BY DEF KnownInv
<1>1. \A e \in Evaluators : eval[e].at = "idle" /\ ~Holds(e, r)
  <2>1. eval = [e \in Evaluators |-> AtRest]
    BY DEF AlertInit
  <2> QED
    BY <2>1, AtRestType DEF Holds
<1>2. rule[r].there => rule[r].trig = newest[r]
  <2>1. newest[r] = -MaxPast
    BY DEF AlertInit
  <2>2. CASE setting.every[r] = 0
    <3>1. rule[r] = NoRule
      BY <2>2 DEF AlertInit
    <3> QED
      BY <3>1, NoRuleType
  <2>3. CASE setting.every[r] # 0
    <3>1. rule[r] = [there |-> TRUE, on |-> TRUE, every |-> setting.every[r], next |-> setting.every[r],
                     cooldown |-> setting.cooldown[r], trig |-> -MaxPast]
      BY <2>3 DEF AlertInit
    <3> QED
      BY <2>1, <3>1
  <2> QED
    BY <2>2, <2>3
<1> QED
  BY <1>1, <1>2 DEF Known, Alone, Marks, Fresh, Ahead, Exact

\* A delivery begins only when the cooldown is over.
LEMMA CooldownStep ==
  ASSUME AlertTypeInv, KnownInv, [AlertNext]_tickVars,
         NEW e \in Evaluators, eval[e].at # "deliver", eval'[e].at = "deliver",
         eval'[e].rule \notin doubtful'
  PROVE  -newest[eval'[e].rule] >= eval'[e].snap[eval'[e].rule].cooldown
<1> USE DEF AlertTypeInv
<1> DEFINE r == eval'[e].rule
<1>1. ~Harmless
  BY DEF Harmless
<1>2. ~AlertHour
  BY AgedEffect DEF AgesToo
<1>3. ASSUME NEW t \in Ticks, BeginAlerts(t) PROVE FALSE
  BY <1>3, BeginEffect
<1>4. ASSUME NEW f \in Evaluators, Deliver(f) \/ Record(f) PROVE FALSE
  BY <1>4, DeliverEffect, RecordEffect
<1>5. ASSUME NEW t \in Ticks, Take(t) PROVE -newest[r] >= eval'[e].snap[r].cooldown
  <2>1. PICK q \in Rules :
          /\ Holds(t, q) /\ eval'[t].rule = q /\ eval'[t].snap = eval[t].snap
          /\ eval'[t].at = "deliver" => Cooled(eval[t].snap[q])
    BY <1>5, TakeEffect
  <2>2. /\ eval[t].at = "loop" /\ (\A f \in Evaluators \ {t} : eval'[f] = eval[f])
        /\ doubtful' = doubtful /\ t \in Evaluators
    BY <1>5, TakeEffect DEF Evaluators
  <2>3. e = t
    BY <2>2
  <2>4. eval[t].rule # q
    BY <2>2, EvalFields, MetricAlertsAssumption
  <2>5. eval[t].snap[q].trig = newest[q]
    BY <2>1, <2>2, <2>3, <2>4 DEF KnownInv, Known, Fresh
  <2> QED
    BY <2>1, <2>3, <2>5 DEF Cooled
<1>6. ASSUME NEW q \in Rules, PressRule(q) PROVE -newest[r] >= eval'[e].snap[r].cooldown
  <2>1. /\ (\A f \in Evaluators \ {Hand} : eval'[f] = eval[f])
        /\ eval'[Hand].rule = q /\ eval'[Hand].snap[q] = rule[q] /\ eval[Hand].at = "idle"
        /\ (eval'[Hand].at = "deliver" => Cooled(rule[q]))
        /\ (q \notin doubtful' => q \notin doubtful /\ ~Rivals(Hand, q))
    BY <1>6, PressEffect
  <2>2. e = Hand
    BY <2>1
  <2>3. ~Recorder(q)
    BY <2>1, <2>2, RuleIsHeld DEF Recorder, Rivals
  <2>4. rule[q].trig = newest[q]
    <3>1. rule[q].there
      BY <1>6 DEF PressRule
    <3> QED
      BY <2>1, <2>2, <2>3, <3>1 DEF KnownInv, Known, Marks
  <2> QED
    BY <2>1, <2>2, <2>4 DEF Cooled
<1> QED
  BY <1>1, <1>2, <1>3, <1>4, <1>5, <1>6, AlertCases

\* Though no evaluation claims its rule, and each decides on a row read earlier, an alert is
\* not sent again within the cooldown, but for overlaps and deliveries that went unrecorded.
THEOREM CooldownHolds == AlertSpec => CooldownIsKept
<1>1. AlertTypeInv /\ KnownInv /\ [AlertNext]_tickVars =>
        [\A e \in Evaluators :
          eval[e].at # "deliver" /\ eval'[e].at = "deliver" =>
              LET r == eval'[e].rule
              IN  -newest[r] >= eval'[e].snap[r].cooldown \/ r \in doubtful']_tickVars
  BY CooldownStep
<1> QED
  BY <1>1, AlertInitType, AlertTypeStep, KnownInit, KnownStep, PTL DEF AlertSpec, CooldownIsKept
=============================================================================
