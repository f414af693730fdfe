---------------------------- MODULE ScheduledJobs ----------------------------
(***************************************************************************)
(* The cron jobs of the artifacts: the hourly tick that claims and runs    *)
(* what is due (scheduling/jobs/execute.ts, retry.ts, notify.ts, cron.ts), *)
(* runs by hand, and what users do to a job meanwhile (jobs/crud.ts).      *)
(*                                                                         *)
(* Time passes in hours and is told from now: a next_run_at of 0 or less   *)
(* is due, and an hour takes one from every instant that anybody holds.    *)
(* Delays are rounded up to hours, and the ticks of one hour are over with *)
(* their SELECT before the shortest delay, a minute, is.                   *)
(***************************************************************************)
EXTENDS Integers, FiniteSets

CONSTANTS
    Jobs,
    Ticks,         \* invocations of the cron trigger that can overlap
    None,
    Periods,       \* schedules: a cron that matches every so many hours
    MaxAttempts,   \* max_attempts of each job
    Backoff,       \* backoff_type of each job
    InitialDelay,  \* initial_delay of each job, in hours
    TestJobs,      \* the jobs whose action is artifact_test
    MaxDue,        \* LIMIT of the select
    MaxTests,      \* MAX_TEST_JOBS_PER_TICK
    Cycle,         \* all schedules repeat after so many hours
    MaxStay,       \* hours after which the platform has ended an invocation
    MaxPast,       \* a bound on how long ago the model remembers an instant was
    MaxCuts,       \* a bound on ticks that are cut
    Scenes         \* the schedules (0: no such job), and what users and the platform do

\* What may happen: an hour's event is delivered again, an invocation goes on when the
\* next hour comes, or is cut; a user runs a job, gives it a schedule, switches it on or
\* off, or deletes it; the creator of a job loses access to the artifact; an email is
\* skipped or fails, which nobody looks at.
EventKinds == {"again", "long", "cut", "byHand", "schedule", "switch", "delete", "revoke", "unsent"}

\* Attempts are between 0 and 10, delays at least a minute (createJob).
ASSUME ScheduledJobsAssumption ==
    /\ None \notin Jobs /\ TestJobs \subseteq Jobs
    /\ Periods \subseteq Nat \ {0}
    /\ MaxAttempts \in [Jobs -> 0 .. 10]
    /\ Backoff \in [Jobs -> {"fixed", "linear", "exponential"}]
    /\ InitialDelay \in [Jobs -> Nat \ {0}]
    /\ MaxDue \in Nat \ {0} /\ MaxTests \in Nat \ {0} /\ MaxCuts \in Nat
    /\ Cycle \in Nat \ {0} /\ \A e \in Periods : Cycle % e = 0
    /\ Scenes \subseteq [every : [Jobs -> Periods \cup {0}], events : SUBSET EventKinds]
    /\ MaxStay \in Nat /\ MaxPast \in Nat /\ MaxPast > MaxStay /\ MaxPast >= 2 * MaxStay

VARIABLES
    scene,         \* which of the Scenes this is; never changes
    hour, fired,   \* the hour, and whether its cron event has come
    row,           \* scheduled_jobs
    tick,          \* what each invocation of runScheduledJobs holds
    manual,        \* the job that executeJobNow runs
    cuts,
    \* history
    claimed,       \* the last next_run_at that a tick claimed, per job
    crossed,       \* jobs that a tick selected while another still ran them
    told,          \* jobs whose owner got an email since they last succeeded
    silent         \* jobs that began to fail in a way named in FailingIsTold

history == <<claimed, crossed, told, silent>>
vars == <<scene, hour, fired, row, tick, manual, cuts, history>>

Gone == [there |-> FALSE, on |-> FALSE, every |-> 0, next |-> 0, last |-> "none", retries |-> 0]
Idle == [at |-> "idle", age |-> 0, snap |-> [j \in Jobs |-> Gone], tests |-> 0, job |-> None, next |-> 0]

\* The selected rows that a tick has still to look at, and what it holds without one of them.
Todo(t) == {j \in Jobs : tick[t].snap[j].there} \ {tick[t].job}
Looping(age, snap, tests) ==
    [at |-> "loop", age |-> age, snap |-> snap, tests |-> tests, job |-> None, next |-> 0]
Without(t, j) == Looping(tick[t].age, [tick[t].snap EXCEPT ![j] = Gone], tick[t].tests)

\* getNextRunTime: the first match after now.
NextRun(e) == e - (hour % e)

Init ==
    /\ scene \in Scenes
    /\ hour = 0 /\ fired = FALSE
    /\ row = [j \in Jobs |-> IF scene.every[j] = 0 THEN Gone
                ELSE [Gone EXCEPT !.there = TRUE, !.on = TRUE, !.every = scene.every[j], !.next = scene.every[j]]]
    /\ tick = [t \in Ticks |-> Idle]
    /\ manual = None
    /\ cuts = 0
    /\ claimed = [j \in Jobs |-> -MaxPast - 1]
    /\ crossed = {} /\ told = {} /\ silent = {}

-----------------------------------------------------------------------------
(* Time.                                                                   *)

Ago(n, bound) == IF n > -bound THEN n - 1 ELSE n
Older(r) == IF r.there THEN [r EXCEPT !.next = Ago(@, MaxPast)] ELSE r

\* The cron event of an hour comes within it, and no invocation outlives MaxStay.
Hour ==
    /\ fired
    /\ \A t \in Ticks : tick[t].at = "idle" \/ ("long" \in scene.events /\ tick[t].age < MaxStay)
    /\ hour' = (hour + 1) % Cycle
    /\ fired' = FALSE
    /\ row' = [j \in Jobs |-> Older(row[j])]
    /\ tick' = [t \in Ticks |->
                  IF tick[t].at = "idle" THEN tick[t]
                  ELSE [tick[t] EXCEPT !.age = @ + 1,
                          !.next = IF tick[t].job = None THEN 0 ELSE Ago(@, MaxPast),
                          !.snap = [j \in Jobs |-> Older(tick[t].snap[j])]]]
    /\ claimed' = [j \in Jobs |-> Ago(claimed[j], MaxPast + 1)]
    /\ UNCHANGED <<scene, manual, cuts, crossed, told, silent>>

-----------------------------------------------------------------------------
(* runScheduledJobs.                                                       *)

Due(j) == row[j].there /\ row[j].on /\ row[j].next <= 0

\* WHERE enabled = 1 AND next_run_at <= now ORDER BY next_run_at LIMIT 50
NewestFirst(S) ==
    /\ S \subseteq {j \in Jobs : Due(j)}
    /\ \A i \in {j \in Jobs : Due(j)} \ S : Cardinality(S) = MaxDue /\ \A j \in S : row[i].next <= row[j].next
OldestFirst(S) ==
    /\ S \subseteq {j \in Jobs : Due(j)}
    /\ \A i \in {j \in Jobs : Due(j)} \ S : Cardinality(S) = MaxDue /\ \A j \in S : row[j].next <= row[i].next

\* The platform may deliver the event of an hour twice.
Start(t) ==
    /\ tick[t].at = "idle" /\ (~fired \/ "again" \in scene.events)
    /\ \E S \in SUBSET Jobs :
        /\ Cardinality(S) <= MaxDue /\ OldestFirst(S)
        /\ tick' = [tick EXCEPT ![t] = Looping(0, [j \in Jobs |-> IF j \in S THEN row[j] ELSE Gone], 0)]
        /\ crossed' = crossed \cup {j \in S : \E s \in Ticks : tick[s].at = "run" /\ tick[s].job = j}
    /\ fired' = TRUE
    /\ UNCHANGED <<scene, hour, row, manual, cuts, claimed, told, silent>>

IsNext(t, j) == /\ tick[t].at = "loop" /\ j \in Todo(t)
                /\ \A i \in Todo(t) : tick[t].snap[j].next <= tick[t].snap[i].next

\* A test job is left for the next tick once enough have run or took a minute.
Defer(t) ==
    /\ \E j \in TestJobs :
        /\ IsNext(t, j) /\ tick[t].tests > 0
        /\ tick' = [tick EXCEPT ![t] = Without(t, j)]
    /\ UNCHANGED <<scene, hour, fired, row, manual, cuts, history>>

\* Claim-and-advance: the UPDATE moves next_run_at if it is still what was selected.
StillThere(t, j) == row[j].there
Unmoved(t, j) == row[j].there /\ row[j].next = tick[t].snap[j].next

\* Test jobs are throttled, the others are not.
Any(t, j) == TRUE
MayRun(t, j) == j \in TestJobs => tick[t].tests < MaxTests

Claim(t) ==
    /\ \E j \in Jobs :
        /\ IsNext(t, j) /\ MayRun(t, j)
        /\ IF Unmoved(t, j)
           THEN LET next == NextRun(tick[t].snap[j].every)
                IN  /\ row' = [row EXCEPT ![j].next = next]
                    /\ tick' = [tick EXCEPT ![t] = [@ EXCEPT !.at = "run", !.job = j, !.next = next]]
                    /\ claimed' = [claimed EXCEPT ![j] = tick[t].snap[j].next]
           ELSE /\ tick' = [tick EXCEPT ![t] = Without(t, j)]
                /\ UNCHANGED <<row, claimed>>
    /\ UNCHANGED <<scene, hour, fired, manual, cuts, crossed, told, silent>>

\* calculateBackoffDelay
Power == <<1, 2, 4, 8, 16, 32, 64, 128, 256, 512>>
Delay(j, retry) == CASE Backoff[j] = "linear" -> InitialDelay[j] * (retry + 1)
                     [] Backoff[j] = "exponential" -> InitialDelay[j] * Power[retry + 1]
                     [] OTHER -> InitialDelay[j]

\* retry_count + 1; more than the ten attempts there are make no difference.
OneMore(n) == IF n < 10 THEN n + 1 ELSE n
UpToMax(t, j) == tick[t].snap[j].retries < MaxAttempts[j]
ShouldRetry(t, j) == tick[t].snap[j].retries < MaxAttempts[j] - 1

\* The status of the run, as the UPDATE of the batch writes it.  The delay of a retry
\* counts from the start of the tick.
Status(t, j, result) ==
    CASE result = "success" -> [row[j] EXCEPT !.last = "success", !.retries = 0, !.next = tick[t].next]
      [] result = "revoked" -> [row[j] EXCEPT !.last = "failed", !.on = FALSE]
      [] result = "failed" /\ ShouldRetry(t, j) ->
           [row[j] EXCEPT !.last = "failed", !.retries = OneMore(@),
                          !.next = Delay(j, tick[t].snap[j].retries) - tick[t].age]
      [] OTHER -> [row[j] EXCEPT !.last = "failed", !.retries = 0, !.next = tick[t].next]

TellsAtLast(t, j) == ~ShouldRetry(t, j)
Tells(t, j) == tick[t].snap[j].last # "failed"

\* executeJobAction
Results == {"success", "failed"} \cup (IF "revoke" \in scene.events THEN {"revoked"} ELSE {})

\* A job_runs row of a deleted job breaks the batch, and the throw ends the tick.
Write(t) ==
    LET j == tick[t].job IN
    /\ tick[t].at = "run"
    /\ IF ~row[j].there
       THEN tick' = [tick EXCEPT ![t] = Idle] /\ UNCHANGED <<row, told, silent>>
       ELSE \E result \in Results :
              /\ row' = [row EXCEPT ![j] = Status(t, j, result)]
              /\ tick' = [tick EXCEPT ![t] =
                   [(IF result # "success" /\ Tells(t, j) THEN [tick[t] EXCEPT !.at = "notify"] ELSE Without(t, j))
                      EXCEPT !.tests = IF j \in TestJobs THEN @ + 1 ELSE @]]
              /\ told' = IF result = "success" THEN told \ {j} ELSE told
              /\ silent' = IF result = "success" THEN silent \ {j}
                           ELSE IF row[j].last # "failed" /\ tick[t].snap[j].last = "failed"
                           THEN silent \cup {j} ELSE silent
    /\ UNCHANGED <<scene, hour, fired, manual, cuts, claimed, crossed>>

\* dispatchLifecycleEmail: the email goes out, or it is skipped, refused or throws.
Sent == {TRUE} \cup (IF "unsent" \in scene.events THEN {FALSE} ELSE {})

\* notifyJobFailed catches what dispatch throws and drops what it returns, so the tick goes
\* on alike.  History counts an email for the failure that the job still has.
Notify(t) ==
    LET failing == {j \in {tick[t].job} : row[j].last = "failed"} IN
    /\ tick[t].at = "notify"
    /\ \E sent \in Sent :
        /\ told' = IF sent THEN told \cup failing ELSE told
        /\ silent' = IF sent THEN silent ELSE silent \cup failing
    /\ tick' = [tick EXCEPT ![t] = Without(t, tick[t].job)]
    /\ UNCHANGED <<scene, hour, fired, row, manual, cuts, claimed, crossed>>

End(t) ==
    /\ tick[t].at = "loop" /\ Todo(t) = {}
    /\ tick' = [tick EXCEPT ![t] = Idle]
    /\ UNCHANGED <<scene, hour, fired, row, manual, cuts, history>>

\* The invocation is cut, or a statement throws.
Cut(t) ==
    /\ "cut" \in scene.events /\ tick[t].at # "idle" /\ cuts < MaxCuts
    /\ cuts' = cuts + 1
    /\ silent' = IF tick[t].at = "notify" THEN silent \cup {tick[t].job} ELSE silent
    /\ tick' = [tick EXCEPT ![t] = Idle]
    /\ UNCHANGED <<scene, hour, fired, row, manual, claimed, crossed, told>>

-----------------------------------------------------------------------------
(* Users: runs by hand, new schedules, switching a job on and off.         *)

Press(j) ==
    /\ "byHand" \in scene.events /\ manual = None /\ row[j].there
    /\ manual' = j
    /\ UNCHANGED <<scene, hour, fired, row, tick, cuts, history>>

\* executeJobNow writes last_* only.
ManualDone ==
    /\ manual # None
    /\ IF row[manual].there
       THEN \/ /\ row' = [row EXCEPT ![manual].last = "success"]
               /\ told' = told \ {manual} /\ silent' = silent \ {manual}
            \/ /\ row' = [row EXCEPT ![manual].last = "failed"]
               /\ silent' = IF row[manual].last # "failed" THEN silent \cup {manual} ELSE silent
               /\ UNCHANGED told
       ELSE UNCHANGED <<row, told, silent>>
    /\ manual' = None
    /\ UNCHANGED <<scene, hour, fired, tick, cuts, claimed, crossed>>

\* updateJob
Reschedule(j, e) ==
    /\ "schedule" \in scene.events /\ row[j].there
    /\ row' = [row EXCEPT ![j] = [@ EXCEPT !.every = e, !.next = NextRun(e)]]
    /\ UNCHANGED <<scene, hour, fired, tick, manual, cuts, history>>

Enable(j, on) ==
    /\ "switch" \in scene.events /\ row[j].there /\ row[j].on # on
    /\ row' = [row EXCEPT ![j].on = on]
    /\ UNCHANGED <<scene, hour, fired, tick, manual, cuts, history>>

DeleteJob(j) ==
    /\ "delete" \in scene.events /\ row[j].there
    /\ row' = [row EXCEPT ![j] = Gone]
    /\ told' = told \ {j} /\ silent' = silent \ {j}
    /\ UNCHANGED <<scene, hour, fired, tick, manual, cuts, claimed, crossed>>

-----------------------------------------------------------------------------
Step(t) == Defer(t) \/ Claim(t) \/ Write(t) \/ Notify(t) \/ End(t)

Next ==
    \/ Hour
    \/ \E t \in Ticks : Start(t) \/ Step(t) \/ Cut(t)
    \/ \E j \in Jobs : Press(j) \/ DeleteJob(j) \/ (\E e \in Periods : Reschedule(j, e))
                         \/ (\E on \in BOOLEAN : Enable(j, on))
    \/ ManualDone

\* Hours pass, the cron event of an hour comes, and an invocation goes on.
Fairness ==
    /\ WF_vars(Hour)
    /\ WF_vars(~fired /\ \E t \in Ticks : Start(t))
    /\ \A t \in Ticks : WF_vars(Step(t))

Spec == Init /\ [][Next]_vars /\ Fairness

-----------------------------------------------------------------------------
RowType == [there : BOOLEAN, on : BOOLEAN, every : Periods \cup {0}, next : Int,
            last : {"none", "success", "failed"}, retries : 0 .. 10]
TickType == [at : {"idle", "loop", "run", "notify"}, age : Nat, snap : [Jobs -> RowType],
             tests : 0 .. MaxTests, job : Jobs \cup {None}, next : Int]

\* Every variable has its type: the rows, and what the invocations hold; a tick runs no
\* more than MaxTests test jobs.
TypeOK ==
    /\ scene \in Scenes
    /\ hour \in Nat /\ fired \in BOOLEAN
    /\ row \in [Jobs -> RowType]
    /\ tick \in [Ticks -> TickType]
    /\ manual \in Jobs \cup {None}
    /\ cuts \in Nat
    /\ claimed \in [Jobs -> Int]
    /\ crossed \subseteq Jobs /\ told \subseteq Jobs /\ silent \subseteq Jobs

\* No due time of a job is run twice, by overlapping ticks (execute.ts: "can't run the job
\* a second time") or by a later one: what a tick claims is later than all that was claimed
\* before, whatever the owner reschedules, retries and cut ticks write.  Only a run that
\* still goes on when its job comes due again and is selected can put an old time back.
ClaimsGoForward ==
    [][\A j \in Jobs : \A t \in Ticks :
        (tick[t].at = "loop" /\ tick'[t].at = "run" /\ tick'[t].job = j)
            => tick[t].snap[j].next > claimed[j] \/ j \in crossed]_vars

\* A job never has more retries counted than its max_attempts leaves after the first
\* attempt, though ticks write from a copy of the row they read before the run.
RetriesAreBounded ==
    \A j \in Jobs : row[j].retries = 0 \/ row[j].retries < MaxAttempts[j] \/ j \in crossed

\* A job that fails has told its owner since it last succeeded, or is about to (notify.ts:
\* a job "doesn't fail silently on every tick after"); unless a run by hand was the first to fail, a run by hand
\* succeeded while the tick that then failed held its old status, the tick was cut before
\* the email, or the one email it sends was skipped or failed.
FailingIsTold ==
    \A j \in Jobs : row[j].last = "failed" =>
        j \in told \/ j \in silent \/ \E t \in Ticks : tick[t].at = "notify" /\ tick[t].job = j

\* A job that is due is claimed, rescheduled, switched off or deleted in the end, however
\* many others are due, fail and are retried.
DueJobsRun == \A j \in Jobs : Due(j) ~> ~Due(j)
=============================================================================
