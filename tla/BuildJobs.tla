------------------------------ MODULE BuildJobs ------------------------------
(***************************************************************************)
(* One user's BuildJobs object: shareout-app/src/build-jobs/do.ts, with    *)
(* what runners.ts does when a job ends.                                   *)
(*                                                                         *)
(* The object runs one alarm and any number of fetch handlers.  They       *)
(* interleave where they await something that is not the object's own      *)
(* storage: the build, the landing of a job's last events, the follow-up   *)
(* that notifies the user.  Everything between two such awaits is one step.*)
(***************************************************************************)
EXTENDS Integers, Sequences, FiniteSets

CONSTANTS
    MaxJobs,     \* a bound on the jobs ever started
    Keys,        \* idempotency keys
    NoKey,       \* a start without one
    Streams,     \* client connections, reused when they end
    Handlers,    \* concurrent fetch handlers
    Alarm,       \* the alarm handler
    KeepJobs,    \* KEEP_JOBS
    KeepEvents,  \* KEEP_EVENTS
    MaxBacklog,  \* MAX_BACKLOG
    MaxCrashes,  \* a bound on evictions
    Events       \* the environment's events that may happen, see EventKinds

\* What may go wrong around the object.
\*   throws     a build throws instead of reporting how it ended
\*   delays     a queued job grows older than JOB_TIMEOUT_MS
\*   alarmLost  the platform gives up retrying an alarm it could not finish
\*   tellFails  the follow-up throws before it notifies
EventKinds == {"throws", "delays", "alarmLost", "tellFails"}

ASSUME BuildJobsAssumption ==
    /\ MaxJobs \in Nat
    /\ KeepJobs \in Nat /\ KeepEvents \in Nat \ {0} /\ MaxBacklog \in Nat
    /\ MaxCrashes \in Nat
    /\ Alarm \notin Handlers /\ NoKey \notin Keys
    /\ Events \subseteq EventKinds

MaxActive == 1  \* MAX_ACTIVE_BUILDS

\* Jobs are numbered in the order of their created_at.
Jobs == 1..MaxJobs
Procs == Handlers \cup {Alarm}

VARIABLES
    \* in the object's SQLite
    status,    \* of each job; "none" before it is started, "pruned" once deleted
    key,       \* idem_key
    log,       \* job_events: the last ones recorded, "step" or "end"
    aged,      \* the queued jobs older than JOB_TIMEOUT_MS
    alarmSet,
    \* in the instance's memory
    running,   \* the Running map
    settled,   \* the jobs whose Running record says settled
    build,     \* "no", "going", or "said": it has emitted how it ended
    at,        \* where each handler is
    rearm,     \* its sweep saw a queued job
    ending,    \* the finish it is in: [job, outcome, watched, then]
    stream,    \* each client connection
    crashes,
    \* history
    told,      \* notifications sent about each job
    seen       \* the jobs whose end some client has read

memory == <<running, settled, build>>
procs == <<at, rearm, ending>>
history == <<told, seen>>
vars == <<status, key, log, aged, alarmSet, memory, procs, stream, crashes, history>>

Active == {j \in Jobs : status[j] \in {"queued", "running"}}
Ended == {j \in Jobs : status[j] \in {"published", "failed", "cancelled"}}
Queued == {j \in Jobs : status[j] = "queued"}

Outcomes == {"ok", "fail", "thrown", "timeout", "cancelled", "interrupted"}
\* The job, not the build, ended it.
Reasons == {"timeout", "cancelled", "interrupted"}

NoStream == [job |-> 0, unread |-> 0, end |-> FALSE, gone |-> FALSE]
NotEnding == [job |-> 0, outcome |-> "ok", watched |-> FALSE, then |-> "reply"]

TypeOK ==
    /\ status \in [Jobs -> {"none", "queued", "running", "published", "failed",
                            "cancelled", "pruned"}]
    /\ key \in [Jobs -> Keys \cup {NoKey}]
    /\ log \in [Jobs -> Seq({"step", "end"})]
    /\ \A j \in Jobs : Len(log[j]) <= KeepEvents
    /\ aged \subseteq Jobs
    /\ alarmSet \in BOOLEAN
    /\ running \subseteq Jobs
    /\ settled \subseteq Jobs
    /\ build \in [Jobs -> {"no", "going", "said"}]
    /\ at \in [Procs -> {"idle", "swept", "op", "race", "landing", "telling", "tail"}]
    /\ rearm \in [Procs -> BOOLEAN]
    /\ ending \in [Procs -> [job : 0..MaxJobs, outcome : Outcomes, watched : BOOLEAN,
                             then : {"reply", "swept", "run"}]]
    /\ stream \in [Streams -> [job : 0..MaxJobs, unread : Nat, end : BOOLEAN,
                               gone : BOOLEAN]]
    /\ crashes \in 0..MaxCrashes
    /\ told \in [Jobs -> Nat]
    /\ seen \subseteq Jobs

Init ==
    /\ status = [j \in Jobs |-> "none"]
    /\ key = [j \in Jobs |-> NoKey]
    /\ log = [j \in Jobs |-> <<>>]
    /\ aged = {}
    /\ alarmSet = FALSE
    /\ running = {} /\ settled = {}
    /\ build = [j \in Jobs |-> "no"]
    /\ at = [p \in Procs |-> "idle"]
    /\ rearm = [p \in Procs |-> FALSE]
    /\ ending = [p \in Procs |-> NotEnding]
    /\ stream = [s \in Streams |-> NoStream]
    /\ crashes = 0
    /\ told = [j \in Jobs |-> 0]
    /\ seen = {}

-----------------------------------------------------------------------------
(* Streams: stream, broadcast, record, closeStreams.                       *)

Listening(j) == {s \in Streams : stream[s].job = j}

\* record keeps the last KeepEvents events.
Recorded(j, ev) ==
    LET all == Append(log[j], ev)
    IN  IF Len(all) > KeepEvents THEN Tail(all) ELSE all

\* One frame for every stream that listens; a client that has stopped reading is
\* dropped (desiredSize is 1 - unread).
Sent(j, ev) ==
    [s \in Streams |->
        IF s \notin Listening(j) THEN stream[s]
        ELSE IF 1 - stream[s].unread < -MaxBacklog THEN NoStream
        ELSE [stream[s] EXCEPT !.unread = @ + 1, !.end = @ \/ ev = "end"]]

\* An event that is kept for replay.
Broadcast(j, ev) ==
    /\ log' = [log EXCEPT ![j] = Recorded(j, ev)]
    /\ stream' = Sent(j, ev)

\* The job frame and the events so far, then live events while the job is active; an
\* ended job's stream is closed behind its replay and leaves nothing.
Replay(j) == [job |-> j, unread |-> 1 + Len(log[j]), gone |-> FALSE,
              end |-> \E i \in 1..Len(log[j]) : log[j][i] = "end"]

AttachesToEnded(s, j) ==
    stream[s].job = 0 /\ stream' = [stream EXCEPT ![s] = Replay(j)]
Attach(s, j) ==
    IF j \in Active'
    THEN stream[s].job = 0 /\ stream' = [stream EXCEPT ![s] = Replay(j)]
    ELSE UNCHANGED stream

\* A client was attached and had read everything.
AnyoneThere(j) == Listening(j) # {}
CaughtUp(j) == \E s \in Listening(j) : 1 - stream[s].unread > 0

Closed(j) == [s \in Streams |-> IF s \in Listening(j) THEN NoStream ELSE stream[s]]

-----------------------------------------------------------------------------
(* finish: once per job, then the landing, then the follow-up.             *)

StatusOf(outcome) ==
    CASE outcome = "ok" -> "published"
      [] outcome = "cancelled" -> "cancelled"
      [] OTHER -> "failed"

\* Where a handler goes on after a finish.
Onwards(then) == CASE then = "reply" -> "idle"
                   [] then = "swept" -> "swept"
                   [] then = "run" -> "tail"

Resume(p, then) ==
    /\ at' = [at EXCEPT ![p] = Onwards(then)]
    /\ ending' = [ending EXCEPT ![p] = NotEnding]

MayFinishTwice(j) == j \in Active \cup Ended
MayFinish(j) == j \in Active

SettlesNothing(j) == UNCHANGED settled
Settle(j) == settled' = IF j \in running THEN settled \cup {j} ELSE settled

\* The part up to the first await; what the caller does next is named by then.
Finish(p, j, outcome, then) ==
    IF ~MayFinish(j)
    THEN /\ Resume(p, then)
         /\ UNCHANGED <<status, log, stream, settled>>
    ELSE /\ Settle(j)
         /\ IF outcome \in Reasons THEN Broadcast(j, "end") ELSE UNCHANGED <<log, stream>>
         /\ status' = [status EXCEPT ![j] = StatusOf(outcome)]
         /\ at' = [at EXCEPT ![p] =
               IF \E s \in Streams : stream'[s].job = j
               THEN "landing" ELSE "telling"]
         /\ ending' = [ending EXCEPT ![p] =
               [job |-> j, outcome |-> outcome, watched |-> FALSE, then |-> then]]

\* LANDING_MS later: who has read everything saw the end.
Land(p) ==
    /\ at[p] = "landing"
    /\ ending' = [ending EXCEPT ![p].watched = CaughtUp(ending[p].job)]
    /\ stream' = Closed(ending[p].job)
    /\ at' = [at EXCEPT ![p] = "telling"]
    /\ UNCHANGED <<status, key, log, aged, alarmSet, memory, rearm, crashes, history>>

\* buildJobEnded: an unwatched job notifies its user, unless it was cancelled.
TellsOnSuccess(e) == ~e.watched /\ e.outcome = "ok"
Tells(e) == ~e.watched /\ e.outcome # "cancelled"

Tell(p) ==
    /\ at[p] = "telling"
    /\ LET e == ending[p] IN
       /\ \/ told' = [told EXCEPT ![e.job] = IF Tells(e) THEN @ + 1 ELSE @]
          \/ "tellFails" \in Events /\ UNCHANGED told
       /\ Resume(p, e.then)
       /\ running' = IF e.then = "run" THEN running \ {e.job} ELSE running
    /\ UNCHANGED <<status, key, log, aged, alarmSet, settled, build, rearm,
                   stream, crashes, seen>>

-----------------------------------------------------------------------------
(* sweep: a job this instance does not run was cut off, and one queued too *)
(* long lost its alarm.                                                    *)

LosesQueued(j) == status[j] = "queued" /\ j \in aged
Lost(j) == IF status[j] = "running" THEN j \notin running ELSE j \in aged

\* Every fetch and every alarm starts with it.  With MaxActive = 1 its loop finds one
\* job at most, and decides before its first await.
Sweep(p) ==
    /\ at[p] = "idle"
    /\ rearm' = [rearm EXCEPT ![p] = Queued # {}]
    /\ \/ \E j \in Active : Lost(j) /\ Finish(p, j, "interrupted", "swept")
       \/ /\ \A j \in Active : ~Lost(j)
          /\ at' = [at EXCEPT ![p] = "swept"]
          /\ UNCHANGED <<status, log, stream, settled, ending>>
    /\ UNCHANGED <<key, aged, running, build, crashes, history>>

BeginFetch(h) ==
    /\ Sweep(h)
    /\ UNCHANGED alarmSet

\* The alarm handler; the platform runs one at a time.
BeginAlarm ==
    /\ alarmSet
    /\ alarmSet' = FALSE
    /\ Sweep(Alarm)

Rearm(p) == alarmSet' = (alarmSet \/ rearm[p])

SweepDone(p) ==
    /\ at[p] = "swept"
    /\ Rearm(p)
    /\ at' = [at EXCEPT ![p] = "op"]
    /\ UNCHANGED <<status, key, log, aged, memory, rearm, ending, stream, crashes,
                   history>>

-----------------------------------------------------------------------------
(* fetch, after its sweep.                                                 *)

Reply(h) ==
    /\ at[h] = "op"
    /\ at' = [at EXCEPT ![h] = "idle"]

OnlyReplies == UNCHANGED <<key, aged, running, settled, build, rearm, ending,
                          crashes, history>>

\* start: the same key while a job is active is the same build.
StartSame(h, k, s) ==
    /\ Reply(h)
    /\ UNCHANGED <<status, log, alarmSet>>
    /\ k # NoKey
    /\ \E j \in Active : key[j] = k /\ Attach(s, j)
    /\ OnlyReplies

\* prune deletes the ended jobs but the newest KeepJobs.
Pruned == {j \in Ended : Cardinality({i \in Ended : i > j}) >= KeepJobs}

HasRoomToRun == Cardinality(running) < MaxActive
HasRoom == Cardinality(Active) < MaxActive

StartNew(h, k, s) ==
    /\ Reply(h)
    /\ k = NoKey \/ \A j \in Active : key[j] # k
    /\ HasRoom
    /\ \E j \in Jobs :
          /\ status[j] = "none"
          /\ \A i \in Jobs : i < j => status[i] # "none"
          /\ status' = [i \in Jobs |-> IF i = j THEN "queued"
                                       ELSE IF i \in Pruned THEN "pruned" ELSE status[i]]
          /\ log' = [i \in Jobs |-> IF i \in Pruned THEN <<>> ELSE log[i]]
          /\ key' = [key EXCEPT ![j] = k]
          /\ Attach(s, j)
    /\ alarmSet' = TRUE
    /\ UNCHANGED <<aged, running, settled, build, rearm, ending, crashes, history>>

\* GET /attach, by id or by the newest job of a key.
OpAttach(h, s) ==
    /\ Reply(h)
    /\ UNCHANGED <<status, log, alarmSet>>
    /\ \E j \in Active \cup Ended : Attach(s, j)
    /\ OnlyReplies

\* GET /job and /jobs, a start that is refused, a job that is not found.
OpOther(h) ==
    /\ Reply(h)
    /\ UNCHANGED <<status, log, alarmSet, stream>>
    /\ OnlyReplies

OpCancel(h) ==
    /\ at[h] = "op"
    /\ \E j \in Active : Finish(h, j, "cancelled", "reply")
    /\ UNCHANGED <<key, aged, alarmSet, running, build, rearm, crashes, history>>

-----------------------------------------------------------------------------
(* alarm, after its sweep: run.                                            *)

\* The oldest queued build starts.
RunOldest ==
    /\ at[Alarm] = "op"
    /\ \E j \in Queued :
          /\ \A i \in Queued : j <= i
          /\ running' = running \cup {j}
          /\ status' = [status EXCEPT ![j] = "running"]
          /\ build' = [build EXCEPT ![j] = "going"]
          /\ ending' = [ending EXCEPT ![Alarm] = [NotEnding EXCEPT !.job = j]]
    /\ at' = [at EXCEPT ![Alarm] = "race"]
    /\ UNCHANGED <<key, log, aged, alarmSet, settled, rearm, stream, crashes, history>>

NothingToRun ==
    /\ at[Alarm] = "op"
    /\ Queued = {}
    /\ at' = [at EXCEPT ![Alarm] = "tail"]
    /\ UNCHANGED <<status, key, log, aged, alarmSet, memory, rearm, ending, stream,
                   crashes, history>>

\* The build's progress; a build whose job has ended dies at its next event.
Emit(j) ==
    /\ build[j] = "going"
    /\ IF j \in settled
       THEN build' = [build EXCEPT ![j] = "no"] /\ UNCHANGED <<log, stream>>
       ELSE \/ Broadcast(j, "step") /\ UNCHANGED build
            \/ Broadcast(j, "end") /\ build' = [build EXCEPT ![j] = "said"]
    /\ UNCHANGED <<status, key, aged, alarmSet, running, settled, procs, crashes, history>>

\* A token delta or a ping: sent and not kept.
Ping(j) ==
    /\ j \in running
    /\ stream' = Sent(j, "ping")
    /\ UNCHANGED <<status, key, log, aged, alarmSet, memory, procs, crashes, history>>

\* The race of the build, the timeout and the stop.
RaceBuild ==
    /\ at[Alarm] = "race"
    /\ LET j == ending[Alarm].job IN
       /\ build' = [build EXCEPT ![j] = "no"]
       /\ \/ /\ build[j] = "said"
             /\ \E outcome \in {"ok", "fail"} : Finish(Alarm, j, outcome, "run")
          \/ /\ build[j] = "going"
             /\ j \notin settled
             /\ "throws" \in Events
             /\ Finish(Alarm, j, "thrown", "run")
       /\ running' = IF at'[Alarm] = "tail" THEN running \ {j} ELSE running
    /\ UNCHANGED <<key, aged, alarmSet, rearm, crashes, history>>

RaceTimeout ==
    /\ at[Alarm] = "race"
    /\ LET j == ending[Alarm].job IN
       /\ Finish(Alarm, j, "timeout", "run")
       /\ running' = IF at'[Alarm] = "tail" THEN running \ {j} ELSE running
    /\ UNCHANGED <<key, aged, alarmSet, build, rearm, crashes, history>>

RaceStopped ==
    /\ at[Alarm] = "race"
    /\ ending[Alarm].job \in settled
    /\ Resume(Alarm, "run")
    /\ running' = running \ {ending[Alarm].job}
    /\ UNCHANGED <<status, key, log, aged, alarmSet, settled, build, rearm, stream,
                   crashes, history>>

\* A build that waits behind the one that ended gets its alarm.
AlarmTail ==
    /\ at[Alarm] = "tail"
    /\ alarmSet' = (alarmSet \/ Queued # {})
    /\ at' = [at EXCEPT ![Alarm] = "idle"]
    /\ UNCHANGED <<status, key, log, aged, memory, rearm, ending, stream, crashes,
                   history>>

-----------------------------------------------------------------------------
(* Clients and the platform.                                               *)

\* A client reads all it was sent.
Read(s) ==
    /\ stream[s].job # 0
    /\ ~stream[s].gone
    /\ stream[s].unread > 0
    /\ seen' = IF stream[s].end THEN seen \cup {stream[s].job} ELSE seen
    /\ stream' = [stream EXCEPT ![s].unread = 0]
    /\ UNCHANGED <<status, key, log, aged, alarmSet, memory, procs, crashes, told>>

\* A closed tab: its stream is cancelled, or it only stops reading.
Hangup(s) ==
    /\ stream[s].job # 0
    /\ \/ stream' = [stream EXCEPT ![s] = NoStream]
       \/ /\ ~stream[s].gone
          /\ stream' = [stream EXCEPT ![s].gone = TRUE]
    /\ UNCHANGED <<status, key, log, aged, alarmSet, memory, procs, crashes, history>>

\* JOB_TIMEOUT_MS passes over a queued job.
Age(j) ==
    /\ "delays" \in Events
    /\ j \in Queued \ aged
    /\ aged' = aged \cup {j}
    /\ UNCHANGED <<status, key, log, alarmSet, memory, procs, stream, crashes, history>>

\* A deploy or an eviction.  An alarm that was cut off is run again, unless the
\* platform has given up on it.
Evict ==
    /\ crashes < MaxCrashes
    /\ crashes' = crashes + 1
    /\ running' = {} /\ settled' = {}
    /\ build' = [j \in Jobs |-> "no"]
    /\ at' = [p \in Procs |-> "idle"]
    /\ rearm' = [p \in Procs |-> FALSE]
    /\ ending' = [p \in Procs |-> NotEnding]
    /\ stream' = [s \in Streams |-> NoStream]
    /\ \/ alarmSet' = (alarmSet \/ at[Alarm] # "idle")
       \/ "alarmLost" \in Events /\ UNCHANGED alarmSet
    /\ UNCHANGED <<status, key, log, aged, history>>

FetchOp(h) ==
    \/ \E k \in Keys \cup {NoKey}, s \in Streams : StartSame(h, k, s) \/ StartNew(h, k, s)
    \/ \E s \in Streams : OpAttach(h, s)
    \/ OpOther(h)
    \/ OpCancel(h)

\* A handler goes on.
Proceed(p) ==
    \/ SweepDone(p)
    \/ Land(p) \/ Tell(p)
    \/ p \in Handlers /\ FetchOp(p)
    \/ p = Alarm /\ (RunOldest \/ NothingToRun \/ RaceBuild \/ RaceTimeout
                       \/ RaceStopped \/ AlarmTail)

Next ==
    \/ \E h \in Handlers : BeginFetch(h)
    \/ BeginAlarm
    \/ \E p \in Procs : Proceed(p)
    \/ \E j \in Jobs : Emit(j) \/ Ping(j) \/ Age(j)
    \/ \E s \in Streams : Read(s) \/ Hangup(s)
    \/ Evict

\* A due alarm is delivered; a handler's timers fire and its awaits end.
Fairness ==
    /\ WF_vars(BeginAlarm)
    /\ \A p \in Procs : WF_vars(Proceed(p))

Spec == Init /\ [][Next]_vars /\ Fairness

-----------------------------------------------------------------------------
(* What the object promises.                                               *)

\* The per-user cap is race-free: starts, sweeps and ends interleave, and never more
\* than MaxActive jobs are queued or running.
CapIsKept == Cardinality(Active) <= MaxActive

\* A job ends once: the build, the timeout, a cancel and a sweep race to end it, and
\* the first decides; nothing is recorded of it afterwards.
EndsOnce ==
    [][\A j \in Ended :
          /\ status'[j] \in {status[j], "pruned"}
          /\ status'[j] # "pruned" => log'[j] = log[j]]_vars

\* Whatever handlers, sweeps, evictions and clients do, the user sees one build at a
\* time, which ends once and is told of at most once, after its end and not when it was
\* cancelled.
Build == INSTANCE OneBuild WITH state <- status, record <- log

ImplementsOneBuild == Build!Spec

\* A handler is in the middle of ending the job.
BeingEnded(j) == \E p \in Procs : at[p] \in {"landing", "telling"} /\ ending[p].job = j

\* A job that ended with nobody attached has told its user, once: whoever ends the job, and
\* whatever its streams do while their last events land.
UnwatchedIsTold ==
    \A j \in Ended : status[j] # "cancelled" /\ ~BeingEnded(j) => told[j] = 1 \/ j \in seen

\* As long as no eviction cuts the end of a job off.
UnwatchedIsToldAlive == crashes = 0 => UnwatchedIsTold

\* A job nobody is told of was seen to end: a client that is counted as watching has
\* read how the build ended, not only an older event.
WatchedSawTheEnd ==
    \A p \in Procs : at[p] = "telling" /\ ending[p].watched => ending[p].job \in seen

\* No client waits on a job that is over: a stream listens while its job is active or
\* its last events are landing, however attaching interleaves with the end.
NobodyWaitsInVain ==
    \A s \in Streams :
        stream[s].job # 0 =>
            \/ stream[s].job \in Active
            \/ \E p \in Procs : at[p] = "landing" /\ ending[p].job = stream[s].job

\* A build that outlives its job (timed out, cancelled) has been told to stop.
OrphansAreSettled == \A j \in Jobs : build[j] = "going" /\ j \notin Active => j \in settled

\* Every job that is started ends, across evictions and alarms that are retried.
EveryJobEnds == \A j \in Jobs : j \in Active ~> j \notin Active

=============================================================================
