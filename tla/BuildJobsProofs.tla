---------------------------- MODULE BuildJobsProofs ----------------------------
(***************************************************************************)
(* Proofs about BuildJobs, for every number of jobs, streams, handlers and *)
(* evictions.                                                              *)
(***************************************************************************)
EXTENDS BuildJobs, FiniteSetTheorems, TLAPS

-----------------------------------------------------------------------------
(* Types.                                                                  *)

Statuses == {"none", "queued", "running", "published", "failed", "cancelled", "pruned"}
Places == {"idle", "swept", "op", "race", "landing", "telling", "tail"}
Logs == Seq({"step", "end"})
Conns == [job : 0..MaxJobs, unread : Nat, end : BOOLEAN, gone : BOOLEAN]
Endings == [job : 0..MaxJobs, outcome : Outcomes, watched : BOOLEAN,
            then : {"reply", "swept", "run"}]

LogsOK(l) == l \in [Jobs -> Logs] /\ \A j \in Jobs : Len(l[j]) <= KeepEvents

LEMMA Constants == NoStream \in Conns /\ NotEnding \in Endings
BY BuildJobsAssumption DEF NoStream, NotEnding, Conns, Endings, Outcomes

LEMMA RecordedType ==
    ASSUME LogsOK(log), NEW j \in Jobs, NEW ev \in {"step", "end"}
    PROVE  Recorded(j, ev) \in Logs /\ Len(Recorded(j, ev)) <= KeepEvents
<1> DEFINE all == Append(log[j], ev)
<1>1. log[j] \in Logs /\ Len(log[j]) <= KeepEvents
  BY DEF LogsOK
<1>2. all \in Logs /\ Len(all) = Len(log[j]) + 1
  BY <1>1 DEF Logs
<1>3. Tail(all) \in Logs /\ Len(Tail(all)) = Len(log[j])
  BY <1>1, <1>2 DEF Logs
<1>4. KeepEvents \in Nat /\ Len(log[j]) \in Nat
  BY <1>1, BuildJobsAssumption DEF Logs
<1> HIDE DEF all
<1>5. Recorded(j, ev) = IF Len(all) > KeepEvents THEN Tail(all) ELSE all
  BY DEF Recorded, all
<1> QED
  BY <1>1, <1>2, <1>3, <1>4, <1>5

LEMMA SentType ==
    ASSUME stream \in [Streams -> Conns], NEW j, NEW ev
    PROVE  Sent(j, ev) \in [Streams -> Conns]
<1> SUFFICES ASSUME NEW s \in Streams
             PROVE  Sent(j, ev)[s] \in Conns
  BY DEF Sent
<1>1. stream[s] \in Conns
  OBVIOUS
<1>2. [stream[s] EXCEPT !.unread = @ + 1, !.end = @ \/ ev = "end"] \in Conns
  <2> DEFINE more == stream[s].unread + 1
             over == stream[s].end \/ ev = "end"
  <2>1. more \in Nat /\ over \in BOOLEAN
    BY <1>1 DEF Conns
  <2> HIDE DEF more, over
  <2>2. [stream[s] EXCEPT !.unread = more, !.end = over] \in Conns
    BY <1>1, <2>1 DEF Conns
  <2> QED
    BY <2>2 DEF more, over
<1> QED
  BY <1>1, <1>2, Constants DEF Sent

LEMMA BroadcastType ==
    ASSUME LogsOK(log), stream \in [Streams -> Conns], NEW j \in Jobs,
           NEW ev \in {"step", "end"}, Broadcast(j, ev)
    PROVE  LogsOK(log') /\ stream' \in [Streams -> Conns]
BY RecordedType, SentType DEF Broadcast, LogsOK

LEMMA ReplayType ==
    ASSUME LogsOK(log), NEW j \in Jobs
    PROVE  Replay(j) \in Conns
<1>1. Len(log[j]) \in Nat /\ j \in 0..MaxJobs
  BY BuildJobsAssumption DEF LogsOK, Logs, Jobs
<1> DEFINE ended == \E i \in 1..Len(log[j]) : log[j][i] = "end"
<1>2. ended \in BOOLEAN
  OBVIOUS
<1> HIDE DEF ended
<1>3. Replay(j) = [job |-> j, unread |-> 1 + Len(log[j]), gone |-> FALSE, end |-> ended]
  BY DEF Replay, ended
<1> QED
  BY <1>1, <1>2, <1>3 DEF Conns

LEMMA AttachType ==
    ASSUME LogsOK(log), stream \in [Streams -> Conns], NEW j \in Jobs, NEW s \in Streams,
           Attach(s, j)
    PROVE  stream' \in [Streams -> Conns]
BY ReplayType DEF Attach

LEMMA ResumeType ==
    ASSUME TypeOK, NEW p \in Procs, NEW then \in {"reply", "swept", "run"}, Resume(p, then)
    PROVE  /\ at' \in [Procs -> Places]
           /\ ending' \in [Procs -> Endings]
BY Constants DEF Resume, Onwards, TypeOK, Endings, Places

LEMMA FinishType ==
    ASSUME TypeOK, NEW p \in Procs, NEW j \in Jobs, NEW outcome \in Outcomes,
           NEW then \in {"reply", "swept", "run"}, Finish(p, j, outcome, then)
    PROVE  /\ status' \in [Jobs -> Statuses]
           /\ LogsOK(log')
           /\ stream' \in [Streams -> Conns]
           /\ settled' \subseteq Jobs
           /\ at' \in [Procs -> Places]
           /\ ending' \in [Procs -> Endings]
<1>0. LogsOK(log) /\ stream \in [Streams -> Conns]
  BY DEF TypeOK, LogsOK, Logs, Conns
<1>1. CASE ~MayFinish(j)
  BY <1>0, <1>1, ResumeType DEF Finish, TypeOK, Statuses
<1>2. CASE MayFinish(j)
  <2>1. status' \in [Jobs -> Statuses]
    BY <1>2 DEF Finish, TypeOK, StatusOf, Statuses
  <2>2. LogsOK(log') /\ stream' \in [Streams -> Conns]
    BY <1>0, <1>2, BroadcastType DEF Finish
  <2>3. settled' \subseteq Jobs
    BY <1>2 DEF Finish, Settle, TypeOK
  <2>4. at' \in [Procs -> Places]
    BY <1>2 DEF Finish, TypeOK, Places
  <2>5. ending' \in [Procs -> Endings]
    <3>1. j \in 0..MaxJobs
      BY BuildJobsAssumption DEF Jobs
    <3>2. [job |-> j, outcome |-> outcome, watched |-> FALSE, then |-> then] \in Endings
      BY <3>1 DEF Endings
    <3> QED
      BY <1>2, <3>2 DEF Finish, TypeOK, Endings, Places
  <2> QED
    BY <2>1, <2>2, <2>3, <2>4, <2>5
<1> QED
  BY <1>1, <1>2

\* Handlers that end or run a job have one; only the alarm runs it.
Named == \A p \in Procs :
    /\ at[p] \in {"race", "landing", "telling"} => ending[p].job \in Jobs
    /\ at[p] = "race" => p = Alarm

LEMMA TypesAre ==
    TypeOK =>
        /\ status \in [Jobs -> Statuses]
        /\ key \in [Jobs -> Keys \cup {NoKey}]
        /\ LogsOK(log)
        /\ aged \subseteq Jobs
        /\ alarmSet \in BOOLEAN
        /\ running \subseteq Jobs
        /\ settled \subseteq Jobs
        /\ build \in [Jobs -> {"no", "going", "said"}]
        /\ at \in [Procs -> Places]
        /\ rearm \in [Procs -> BOOLEAN]
        /\ ending \in [Procs -> Endings]
        /\ stream \in [Streams -> Conns]
        /\ crashes \in 0..MaxCrashes
        /\ told \in [Jobs -> Nat]
        /\ seen \subseteq Jobs
BY DEF TypeOK, Statuses, LogsOK, Logs, Places, Endings, Conns

LEMMA TypesBecome ==
    ASSUME
        status' \in [Jobs -> Statuses],
        key' \in [Jobs -> Keys \cup {NoKey}],
        LogsOK(log'),
        aged' \subseteq Jobs,
        alarmSet' \in BOOLEAN,
        running' \subseteq Jobs,
        settled' \subseteq Jobs,
        build' \in [Jobs -> {"no", "going", "said"}],
        at' \in [Procs -> Places],
        rearm' \in [Procs -> BOOLEAN],
        ending' \in [Procs -> Endings],
        stream' \in [Streams -> Conns],
        crashes' \in 0..MaxCrashes,
        told' \in [Jobs -> Nat],
        seen' \subseteq Jobs
    PROVE TypeOK'
BY DEF TypeOK, Statuses, LogsOK, Logs, Places, Endings, Conns

LEMMA SweepType ==
    ASSUME TypeOK, NEW p \in Procs, Sweep(p), alarmSet' \in BOOLEAN
    PROVE  TypeOK'
<1>1. rearm' \in [Procs -> BOOLEAN]
  BY DEF Sweep, TypeOK
<1>2. UNCHANGED <<key, aged, running, build, crashes, history>>
  BY DEF Sweep
<1>3. CASE \E j \in Active : Lost(j) /\ Finish(p, j, "interrupted", "swept")
  <2>1. PICK j \in Jobs : Finish(p, j, "interrupted", "swept")
    BY <1>3 DEF Active
  <2> QED
    BY <1>1, <1>2, <2>1, FinishType, TypesAre, TypesBecome DEF Outcomes, history
<1>4. CASE at' = [at EXCEPT ![p] = "swept"] /\ UNCHANGED <<status, log, stream, settled, ending>>
  BY <1>1, <1>2, <1>4 DEF TypeOK, history
<1> QED
  BY <1>3, <1>4 DEF Sweep

LEMMA NextTypes == TypeOK /\ Named /\ [Next]_vars => TypeOK'
<1> SUFFICES ASSUME TypeOK, Named, [Next]_vars PROVE TypeOK'
  OBVIOUS
<1>0. Alarm \in Procs /\ Handlers \subseteq Procs
  BY DEF Procs
<1>a. /\ LogsOK(log) /\ stream \in [Streams -> Conns]
      /\ at \in [Procs -> Places] /\ ending \in [Procs -> Endings]
  BY TypesAre
<1>1. ASSUME NEW h \in Handlers, BeginFetch(h) PROVE TypeOK'
  BY <1>0, <1>1, SweepType DEF BeginFetch, TypeOK
<1>2. CASE BeginAlarm
  BY <1>0, <1>2, SweepType DEF BeginAlarm
<1>3. ASSUME NEW p \in Procs, SweepDone(p) PROVE TypeOK'
  BY <1>3 DEF SweepDone, Rearm, TypeOK, memory, history
<1>4. ASSUME NEW p \in Procs, Land(p) PROVE TypeOK'
  <2>1. stream' \in [Streams -> Conns]
    BY <1>4, <1>a, Constants DEF Land, Closed
  <2>2. ending' \in [Procs -> Endings]
    <3> DEFINE saw == CaughtUp(ending[p].job)
    <3>1. saw \in BOOLEAN
      BY DEF CaughtUp
    <3> HIDE DEF saw
    <3>2. [ending[p] EXCEPT !.watched = saw] \in Endings
      BY <1>a, <3>1 DEF Endings
    <3> QED
      BY <1>4, <1>a, <3>2 DEF Land, saw
  <2>3. at' \in [Procs -> Places]
    BY <1>4, <1>a DEF Land, Places
  <2>4. UNCHANGED <<status, key, log, aged, alarmSet, running, settled, build, rearm, crashes,
                    told, seen>>
    BY <1>4 DEF Land, memory, history
  <2>5. LogsOK(log')
    BY <1>a, <2>4
  <2> QED
    BY <2>1, <2>2, <2>3, <2>4, <2>5, TypesAre, TypesBecome
<1>5. ASSUME NEW p \in Procs, Tell(p) PROVE TypeOK'
  <2>1. told' \in [Jobs -> Nat]
    <3>1. ending[p].job \in Jobs /\ told \in [Jobs -> Nat]
      BY <1>5, TypesAre DEF Named, Tell
    <3>2. CASE Tells(ending[p])
      BY <1>5, <3>1, <3>2 DEF Tell
    <3>3. CASE ~Tells(ending[p])
      BY <1>5, <3>1, <3>3 DEF Tell
    <3> QED
      BY <3>2, <3>3
  <2>2. ending[p].then \in {"reply", "swept", "run"}
    BY <1>a DEF Endings
  <2>3. at' \in [Procs -> Places] /\ ending' \in [Procs -> Endings]
    BY <1>5, <2>2, ResumeType DEF Tell
  <2>4. running' \subseteq Jobs
    BY <1>5 DEF Tell, TypeOK
  <2> QED
    BY <1>5, <2>1, <2>3, <2>4, TypesAre, TypesBecome DEF Tell
<1>6. ASSUME NEW h \in Handlers, NEW k \in Keys \cup {NoKey}, NEW s \in Streams,
             StartSame(h, k, s)
      PROVE  TypeOK'
  <2>1. stream' \in [Streams -> Conns]
    BY <1>6, <1>a, AttachType DEF StartSame, Active
  <2>2. at' \in [Procs -> Places]
    BY <1>6, <1>a DEF StartSame, Reply, Places
  <2> QED
    BY <1>6, <2>1, <2>2, TypesAre, TypesBecome DEF StartSame, OnlyReplies, history
<1>7. ASSUME NEW h \in Handlers, NEW k \in Keys \cup {NoKey}, NEW s \in Streams,
             StartNew(h, k, s)
      PROVE  TypeOK'
  <2>1. PICK j \in Jobs :
          /\ status' = [i \in Jobs |-> IF i = j THEN "queued"
                                       ELSE IF i \in Pruned THEN "pruned" ELSE status[i]]
          /\ log' = [i \in Jobs |-> IF i \in Pruned THEN <<>> ELSE log[i]]
          /\ key' = [key EXCEPT ![j] = k]
          /\ Attach(s, j)
    BY <1>7 DEF StartNew
  <2>2. status' \in [Jobs -> Statuses] /\ key' \in [Jobs -> Keys \cup {NoKey}]
    BY <2>1, TypesAre DEF Statuses
  <2>3. LogsOK(log')
    BY <2>1, <1>a, BuildJobsAssumption DEF LogsOK, Logs
  <2>4. stream' \in [Streams -> Conns]
    BY <2>1, <1>a, AttachType
  <2>5. at' \in [Procs -> Places]
    BY <1>7, <1>a DEF StartNew, Reply, Places
  <2> QED
    BY <1>7, <2>2, <2>3, <2>4, <2>5, TypesAre, TypesBecome DEF StartNew, history
<1>8. ASSUME NEW h \in Handlers, NEW s \in Streams, OpAttach(h, s) PROVE TypeOK'
  <2>1. stream' \in [Streams -> Conns]
    BY <1>8, <1>a, AttachType DEF OpAttach, Active, Ended
  <2>2. at' \in [Procs -> Places]
    BY <1>8, <1>a DEF OpAttach, Reply, Places
  <2> QED
    BY <1>8, <2>1, <2>2, TypesAre, TypesBecome DEF OpAttach, OnlyReplies, history
<1>9. ASSUME NEW h \in Handlers, OpOther(h) PROVE TypeOK'
  BY <1>9 DEF OpOther, Reply, OnlyReplies, history, TypeOK
<1>10. ASSUME NEW h \in Handlers, OpCancel(h) PROVE TypeOK'
  <2>1. PICK j \in Jobs : Finish(h, j, "cancelled", "reply")
    BY <1>10 DEF OpCancel, Active
  <2> QED
    BY <1>0, <1>10, <2>1, FinishType, TypesAre, TypesBecome DEF OpCancel, Outcomes, history
<1>11. CASE RunOldest
  <2>1. PICK j \in Jobs :
          /\ running' = running \cup {j}
          /\ status' = [status EXCEPT ![j] = "running"]
          /\ build' = [build EXCEPT ![j] = "going"]
          /\ ending' = [ending EXCEPT ![Alarm] = [NotEnding EXCEPT !.job = j]]
    BY <1>11 DEF RunOldest, Queued
  <2>2. [NotEnding EXCEPT !.job = j] \in Endings
    BY Constants, BuildJobsAssumption DEF Endings, Jobs
  <2>3. ending' \in [Procs -> Endings]
    BY <2>1, <2>2, <1>a
  <2>4. at' \in [Procs -> Places]
    BY <1>11, <1>a DEF RunOldest, Places
  <2>5. /\ status' \in [Jobs -> Statuses]
        /\ build' \in [Jobs -> {"no", "going", "said"}]
        /\ running' \subseteq Jobs
    BY <2>1, TypesAre DEF Statuses
  <2> QED
    BY <1>11, <2>3, <2>4, <2>5, TypesAre, TypesBecome DEF RunOldest, history
<1>12. CASE NothingToRun
  BY <1>12 DEF NothingToRun, TypeOK, memory, history
<1>13. ASSUME NEW j \in Jobs, Emit(j) PROVE TypeOK'
  <2>1. /\ build' \in [Jobs -> {"no", "going", "said"}]
        /\ LogsOK(log') /\ stream' \in [Streams -> Conns]
    <3>1. CASE j \in settled
      BY <1>13, <3>1, <1>a DEF Emit, TypeOK
    <3>2. CASE j \notin settled
      BY <1>13, <3>2, <1>a, BroadcastType DEF Emit, TypeOK
    <3> QED
      BY <3>1, <3>2
  <2> QED
    BY <1>13, <2>1, TypesAre, TypesBecome DEF Emit, procs, history
<1>14. ASSUME NEW j \in Jobs, Ping(j) PROVE TypeOK'
  BY <1>14, <1>a, SentType, TypesAre, TypesBecome DEF Ping, memory, procs, history
<1>15. CASE RaceBuild \/ RaceTimeout
  <2>1. PICK j \in Jobs, outcome \in Outcomes : Finish(Alarm, j, outcome, "run")
    <3>1. ending[Alarm].job \in Jobs
      BY <1>0, <1>15 DEF Named, RaceBuild, RaceTimeout
    <3>2. PICK outcome \in Outcomes : Finish(Alarm, ending[Alarm].job, outcome, "run")
      BY <1>15 DEF RaceBuild, RaceTimeout, Outcomes
    <3> QED
      BY <3>1, <3>2
  <2>2. running' \subseteq Jobs
    <3>1. running' = IF at'[Alarm] = "tail" THEN running \ {ending[Alarm].job} ELSE running
      <4>1. CASE RaceBuild
        BY <4>1 DEF RaceBuild
      <4>2. CASE RaceTimeout
        BY <4>2 DEF RaceTimeout
      <4> QED
        BY <1>15, <4>1, <4>2
    <3> QED
      BY <3>1 DEF TypeOK
  <2>3. build' \in [Jobs -> {"no", "going", "said"}]
    <3>1. CASE RaceBuild
      BY <3>1 DEF RaceBuild, TypeOK
    <3>2. CASE RaceTimeout
      BY <3>2 DEF RaceTimeout, TypeOK
    <3> QED
      BY <1>15, <3>1, <3>2
  <2>4. UNCHANGED <<key, aged, alarmSet, rearm, crashes, history>>
    BY <1>15 DEF RaceBuild, RaceTimeout
  <2> QED
    BY <1>0, <2>1, <2>2, <2>3, <2>4, FinishType, TypesAre, TypesBecome DEF history
<1>17. CASE RaceStopped
  <2>1. at' \in [Procs -> Places] /\ ending' \in [Procs -> Endings]
    BY <1>0, <1>17, ResumeType DEF RaceStopped
  <2> QED
    BY <1>17, <2>1, TypesAre, TypesBecome DEF RaceStopped, history
<1>18. CASE AlarmTail
  BY <1>18 DEF AlarmTail, TypeOK, memory, history
<1>19. ASSUME NEW s \in Streams, Read(s) PROVE TypeOK'
  <2>1. stream[s] \in Conns
    BY <1>a
  <2>2. [stream[s] EXCEPT !.unread = 0] \in Conns
    BY <2>1 DEF Conns
  <2>3. stream' \in [Streams -> Conns]
    BY <1>19, <1>a, <2>2 DEF Read
  <2>4. stream[s].job \in Jobs
    BY <1>19, <2>1, BuildJobsAssumption DEF Read, Conns, Jobs
  <2>5. seen' \subseteq Jobs
    BY <1>19, <2>4 DEF Read, TypeOK
  <2> QED
    BY <1>19, <2>3, <2>5, TypesAre, TypesBecome DEF Read, memory, procs
<1>20. ASSUME NEW s \in Streams, Hangup(s) PROVE TypeOK'
  <2>1. [stream[s] EXCEPT !.gone = TRUE] \in Conns
    BY <1>a DEF Conns
  <2>2. stream' \in [Streams -> Conns]
    BY <1>20, <1>a, <2>1, Constants DEF Hangup
  <2> QED
    BY <1>20, <2>2, TypesAre, TypesBecome DEF Hangup, memory, procs, history
<1>21. ASSUME NEW j \in Jobs, Age(j) PROVE TypeOK'
  BY <1>21 DEF Age, TypeOK, memory, procs, history
<1>22. CASE Evict
  <2>1. ending' \in [Procs -> Endings] /\ stream' \in [Streams -> Conns]
    BY <1>22, Constants DEF Evict
  <2>2. /\ at' \in [Procs -> Places] /\ rearm' \in [Procs -> BOOLEAN]
        /\ build' \in [Jobs -> {"no", "going", "said"}]
    BY <1>22 DEF Evict, Places
  <2>3. crashes' \in 0..MaxCrashes
    BY <1>22, BuildJobsAssumption DEF Evict, TypeOK
  <2>4. alarmSet' \in BOOLEAN
    BY <1>22 DEF Evict, TypeOK
  <2> QED
    BY <1>22, <2>1, <2>2, <2>3, <2>4, TypesAre, TypesBecome DEF Evict, history
<1>23. CASE UNCHANGED vars
  BY <1>23 DEF TypeOK, vars, memory, procs, history
<1> QED
  BY <1>0, <1>1, <1>2, <1>3, <1>4, <1>5, <1>6, <1>7, <1>8, <1>9, <1>10, <1>11, <1>12,
     <1>13, <1>14, <1>15, <1>17, <1>18, <1>19, <1>20, <1>21, <1>22, <1>23
     DEF Next, Proceed, FetchOp

\* Where a finish leaves the handlers.
LEMMA FinishPlaces ==
    ASSUME TypeOK, NEW p \in Procs, NEW j \in Jobs, NEW outcome \in Outcomes,
           NEW then \in {"reply", "swept", "run"}, Finish(p, j, outcome, then)
    PROVE  /\ \A q \in Procs \ {p} : at'[q] = at[q] /\ ending'[q] = ending[q]
           /\ \/ ~MayFinish(j) /\ at'[p] = Onwards(then) /\ ending'[p] = NotEnding
              \/ /\ MayFinish(j)
                 /\ at'[p] \in {"landing", "telling"}
                 /\ ending'[p] = [job |-> j, outcome |-> outcome, watched |-> FALSE,
                                  then |-> then]
<1>1. at \in [Procs -> Places] /\ ending \in [Procs -> Endings]
  BY TypesAre
<1>2. CASE ~MayFinish(j)
  BY <1>1, <1>2 DEF Finish, Resume
<1>3. CASE MayFinish(j)
  BY <1>1, <1>3 DEF Finish
<1> QED
  BY <1>2, <1>3

LEMMA OnwardsPlaces ==
    ASSUME NEW then \in {"reply", "swept", "run"}
    PROVE  Onwards(then) \in {"idle", "swept", "tail"}
BY DEF Onwards

LEMMA FinishNames ==
    ASSUME TypeOK, Named, NEW p \in Procs, NEW j \in Jobs, NEW outcome \in Outcomes,
           NEW then \in {"reply", "swept", "run"}, Finish(p, j, outcome, then)
    PROVE  Named'
<1>1. \A q \in Procs \ {p} : at'[q] = at[q] /\ ending'[q] = ending[q]
  BY FinishPlaces
<1>2. \/ at'[p] = Onwards(then)
      \/ at'[p] \in {"landing", "telling"} /\ ending'[p].job = j
  <2>1. [job |-> j, outcome |-> outcome, watched |-> FALSE, then |-> then].job = j
    OBVIOUS
  <2> QED
    BY <2>1, FinishPlaces
<1>3. Onwards(then) \in {"idle", "swept", "tail"}
  BY OnwardsPlaces
<1> QED
  BY <1>1, <1>2, <1>3 DEF Named

\* The jobs a step may finish, and by whom.
Finishing(p) == \E j \in Jobs, outcome \in Outcomes, then \in {"reply", "swept", "run"} :
                    Finish(p, j, outcome, then)

LEMMA WhoFinishes ==
    ASSUME Named
    PROVE  /\ \A p \in Procs : Sweep(p) => \/ Finishing(p)
                                           \/ /\ at' = [at EXCEPT ![p] = "swept"]
                                              /\ UNCHANGED <<status, log, stream, settled, ending>>
           /\ \A h \in Handlers : OpCancel(h) => Finishing(h)
           /\ RaceBuild \/ RaceTimeout => Finishing(Alarm)
<1>1. ASSUME NEW p \in Procs, Sweep(p)
      PROVE  \/ Finishing(p)
             \/ /\ at' = [at EXCEPT ![p] = "swept"]
                /\ UNCHANGED <<status, log, stream, settled, ending>>
  <2>1. ASSUME NEW j \in Active, Finish(p, j, "interrupted", "swept")
        PROVE  Finishing(p)
    BY <2>1 DEF Finishing, Active, Outcomes
  <2> QED
    BY <1>1, <2>1 DEF Sweep
<1>2. ASSUME NEW h \in Handlers, OpCancel(h) PROVE Finishing(h)
  <2>1. PICK j \in Active : Finish(h, j, "cancelled", "reply")
    BY <1>2 DEF OpCancel
  <2> QED
    BY <2>1 DEF Finishing, Active, Outcomes
<1>3. ASSUME RaceBuild \/ RaceTimeout PROVE Finishing(Alarm)
  <2>1. ending[Alarm].job \in Jobs
    BY <1>3 DEF Named, RaceBuild, RaceTimeout, Procs
  <2>2. PICK outcome \in Outcomes : Finish(Alarm, ending[Alarm].job, outcome, "run")
    BY <1>3 DEF RaceBuild, RaceTimeout, Outcomes
  <2> QED
    BY <2>1, <2>2 DEF Finishing
<1> QED
  BY <1>1, <1>2, <1>3

LEMMA NextNames == TypeOK /\ Named /\ [Next]_vars => Named'
<1> SUFFICES ASSUME TypeOK, Named, [Next]_vars PROVE Named'
  OBVIOUS
<1>0. Alarm \in Procs /\ Handlers \subseteq Procs
  BY DEF Procs
<1>a. at \in [Procs -> Places] /\ ending \in [Procs -> Endings]
  BY TypesAre
<1>1. ASSUME NEW p \in Procs, Finishing(p) PROVE Named'
  BY <1>1, FinishNames DEF Finishing
<1>2. ASSUME NEW p \in Procs, NEW place \in {"idle", "swept", "op", "tail"},
             at' = [at EXCEPT ![p] = place], UNCHANGED ending
      PROVE  Named'
  BY <1>2, <1>a DEF Named
<1>3. ASSUME NEW p \in Procs, Sweep(p) PROVE Named'
  BY <1>1, <1>2, <1>3, WhoFinishes
<1>4. ASSUME NEW h \in Handlers, FetchOp(h) PROVE Named'
  <2>1. CASE OpCancel(h)
    BY <1>0, <1>1, <2>1, WhoFinishes
  <2>2. CASE at' = [at EXCEPT ![h] = "idle"] /\ UNCHANGED ending
    BY <1>0, <1>2, <2>2
  <2> QED
    BY <1>4, <2>1, <2>2 DEF FetchOp, StartSame, StartNew, OpAttach, OpOther, Reply, OnlyReplies
<1>5. ASSUME NEW p \in Procs, SweepDone(p) PROVE Named'
  BY <1>2, <1>5 DEF SweepDone
<1>6. ASSUME NEW p \in Procs, Land(p) PROVE Named'
  <2>1. /\ ending'[p].job = ending[p].job
        /\ \A q \in Procs \ {p} : ending'[q] = ending[q]
    BY <1>6, <1>a DEF Land, Endings
  <2>2. at[p] = "landing" /\ at' = [at EXCEPT ![p] = "telling"]
    BY <1>6 DEF Land
  <2> QED
    BY <1>a, <2>1, <2>2 DEF Named
<1>7. ASSUME NEW p \in Procs, Tell(p) PROVE Named'
  <2>1. ending[p].then \in {"reply", "swept", "run"}
    BY <1>a DEF Endings
  <2>2. Onwards(ending[p].then) \in {"idle", "swept", "tail"}
    BY <2>1, OnwardsPlaces
  <2>3. Resume(p, ending[p].then)
    BY <1>7 DEF Tell
  <2> QED
    BY <1>a, <2>2, <2>3 DEF Named, Resume
<1>8. CASE RunOldest
  <2>1. PICK j \in Jobs : ending' = [ending EXCEPT ![Alarm] = [NotEnding EXCEPT !.job = j]]
    BY <1>8 DEF RunOldest, Queued
  <2>2. ending'[Alarm].job = j /\ \A q \in Procs \ {Alarm} : ending'[q] = ending[q]
    BY <1>0, <1>a, <2>1 DEF NotEnding
  <2>3. at' = [at EXCEPT ![Alarm] = "race"]
    BY <1>8 DEF RunOldest
  <2> QED
    BY <1>0, <1>a, <2>2, <2>3 DEF Named
<1>9. CASE RaceStopped
  <2>1. Resume(Alarm, "run")
    BY <1>9 DEF RaceStopped
  <2> QED
    BY <1>0, <1>a, <2>1 DEF Named, Resume, Onwards
<1>10. CASE NothingToRun \/ AlarmTail
  BY <1>0, <1>2, <1>10 DEF NothingToRun, AlarmTail
<1>11. CASE RaceBuild \/ RaceTimeout
  BY <1>0, <1>1, <1>11, WhoFinishes
<1>12. ASSUME UNCHANGED procs PROVE Named'
  BY <1>12 DEF Named, procs
<1>13. ASSUME NEW j \in Jobs, Emit(j) \/ Ping(j) \/ Age(j) PROVE Named'
  BY <1>12, <1>13 DEF Emit, Ping, Age
<1>14. ASSUME NEW s \in Streams, Read(s) \/ Hangup(s) PROVE Named'
  BY <1>12, <1>14 DEF Read, Hangup
<1>15. CASE Evict
  BY <1>15 DEF Evict, Named
<1>16. CASE UNCHANGED vars
  BY <1>12, <1>16 DEF vars
<1>17. CASE (\E h \in Handlers : BeginFetch(h)) \/ BeginAlarm
  BY <1>0, <1>3, <1>17 DEF BeginFetch, BeginAlarm
<1>18. ASSUME NEW p \in Procs, Proceed(p) PROVE Named'
  BY <1>4, <1>5, <1>6, <1>7, <1>8, <1>9, <1>10, <1>11, <1>18 DEF Proceed
<1> QED
  BY <1>13, <1>14, <1>15, <1>16, <1>17, <1>18 DEF Next

Types == TypeOK /\ Named

LEMMA InitTypes == Init => Types
<1> SUFFICES ASSUME Init PROVE Types
  OBVIOUS
<1>1. TypeOK
  <2>1. log \in [Jobs -> Seq({"step", "end"})] /\ \A j \in Jobs : Len(log[j]) <= KeepEvents
    BY BuildJobsAssumption DEF Init
  <2>2. stream \in [Streams -> Conns] /\ ending \in [Procs -> Endings]
    BY Constants DEF Init
  <2>3. crashes \in 0..MaxCrashes
    BY BuildJobsAssumption DEF Init
  <2> QED
    BY <2>1, <2>2, <2>3 DEF Init, TypeOK, Conns, Endings
<1>2. Named
  BY DEF Init, Named
<1> QED
  BY <1>1, <1>2 DEF Types

\* Every behaviour is well typed, and every handler that ends or runs a job has one.
THEOREM TypeCorrect == Spec => []TypeOK
<1>1. Types /\ [Next]_vars => Types'
  BY NextTypes, NextNames DEF Types
<1>2. Types => TypeOK
  BY DEF Types
<1> QED
  BY <1>1, <1>2, InitTypes, PTL DEF Spec

-----------------------------------------------------------------------------
(* The cap, and that a job ends once, under every event of the environment.*)

Past == {"published", "failed", "cancelled", "pruned"}

\* What a finish does to the jobs.
LEMMA FinishEnds ==
    ASSUME Types, NEW p \in Procs, NEW j \in Jobs, NEW outcome \in Outcomes,
           NEW then \in {"reply", "swept", "run"}, Finish(p, j, outcome, then)
    PROVE  /\ \A i \in Jobs \ {j} : status'[i] = status[i] /\ log'[i] = log[i]
           /\ ~MayFinish(j) => status'[j] = status[j] /\ log'[j] = log[j]
           /\ MayFinish(j) => status'[j] \in Past \ {"pruned"}
           /\ settled \subseteq settled'
           /\ MayFinish(j) /\ j \in running => j \in settled'
<1>0. status \in [Jobs -> Statuses] /\ log \in [Jobs -> Logs]
  BY TypesAre DEF Types, LogsOK
<1>1. CASE ~MayFinish(j)
  BY <1>1 DEF Finish
<1>2. CASE MayFinish(j)
  <2>1. status' = [status EXCEPT ![j] = StatusOf(outcome)] /\ Settle(j)
    BY <1>2 DEF Finish
  <2>2. StatusOf(outcome) \in Past \ {"pruned"}
    BY DEF StatusOf, Past
  <2>3. \A i \in Jobs \ {j} : log'[i] = log[i]
    <3>1. log' = log \/ \E l : log' = [log EXCEPT ![j] = l]
      BY <1>2 DEF Finish, Broadcast
    <3> QED
      BY <1>0, <3>1
  <2> QED
    BY <1>0, <1>2, <2>1, <2>2, <2>3 DEF Settle
<1> QED
  BY <1>1, <1>2

\* The ways a job's status moves.
Moves(i) ==
    \/ status'[i] = status[i]
    \/ i \in Active /\ status'[i] \in Past \ {"pruned"}
    \/ i \in Ended /\ status'[i] = "pruned"
    \/ status[i] = "none" /\ status'[i] = "queued"
    \/ status[i] = "queued" /\ status'[i] = "running"

\* A start finds no job active, and starts one.
StartsOne == Active = {} /\ \E j \in Jobs : Active' \subseteq {j}

LEMMA FinishMoves ==
    ASSUME Types, NEW p \in Procs, Finishing(p)
    PROVE  Active' \subseteq Active /\ \A i \in Jobs : Moves(i)
<1>1. PICK j \in Jobs, outcome \in Outcomes, then \in {"reply", "swept", "run"} :
          Finish(p, j, outcome, then)
  BY DEF Finishing
<1>2. \A i \in Jobs : Moves(i)
  BY <1>1, FinishEnds DEF Moves, MayFinish
<1>3. Active' \subseteq Active
  BY <1>1, FinishEnds DEF Active, Past
<1> QED
  BY <1>2, <1>3

LEMMA StartMoves ==
    ASSUME Types, NEW h \in Handlers, NEW k, NEW s, StartNew(h, k, s)
    PROVE  StartsOne /\ \A i \in Jobs : Moves(i)
<1>0. status \in [Jobs -> Statuses]
  BY TypesAre DEF Types
<1>1. Active = {}
  <2>1. IsFiniteSet(Active)
    <3>1. IsFiniteSet(Jobs)
      BY BuildJobsAssumption, FS_Interval DEF Jobs
    <3> QED
      BY <3>1, FS_Subset DEF Active
  <2>2. Cardinality(Active) \in Nat /\ Cardinality(Active) < 1
    BY <2>1, FS_CardinalityType DEF StartNew, HasRoom, MaxActive
  <2> QED
    BY <2>1, <2>2, FS_EmptySet
<1>2. PICK j \in Jobs :
          /\ status[j] = "none"
          /\ status' = [i \in Jobs |-> IF i = j THEN "queued"
                                       ELSE IF i \in Pruned THEN "pruned" ELSE status[i]]
  BY DEF StartNew
<1>3. Pruned \subseteq Ended
  BY DEF Pruned
<1>4. Active' \subseteq {j}
  BY <1>1, <1>2 DEF Active
<1>5. \A i \in Jobs : Moves(i)
  BY <1>2, <1>3 DEF Moves
<1> QED
  BY <1>1, <1>4, <1>5 DEF StartsOne

LEMMA NextMoves ==
    ASSUME Types, [Next]_vars
    PROVE  /\ Active' \subseteq Active \/ StartsOne
           /\ \A i \in Jobs : Moves(i)
<1> DEFINE Fine == (Active' \subseteq Active \/ StartsOne) /\ \A i \in Jobs : Moves(i)
<1> SUFFICES Fine
  OBVIOUS
<1>0. Alarm \in Procs /\ Handlers \subseteq Procs
  BY DEF Procs
<1>1. ASSUME NEW p \in Procs, Finishing(p) PROVE Fine
  BY <1>1, FinishMoves
<1>2. ASSUME UNCHANGED status PROVE Fine
  BY <1>2 DEF Active, Moves
<1>3. ASSUME NEW p \in Procs, Sweep(p) PROVE Fine
  BY <1>1, <1>2, <1>3, WhoFinishes DEF Types
<1>4. ASSUME NEW h \in Handlers, FetchOp(h) PROVE Fine
  <2>1. CASE OpCancel(h)
    BY <1>0, <1>1, <2>1, WhoFinishes DEF Types
  <2>2. ASSUME NEW k, NEW s, StartNew(h, k, s) PROVE Fine
    BY <2>2, StartMoves
  <2>3. CASE UNCHANGED status
    BY <1>2, <2>3
  <2> QED
    BY <1>4, <2>1, <2>2, <2>3 DEF FetchOp, StartSame, OpAttach, OpOther
<1>5. CASE RunOldest
  <2>1. PICK j \in Jobs : status[j] = "queued" /\ status' = [status EXCEPT ![j] = "running"]
    BY <1>5 DEF RunOldest, Queued
  <2>2. status \in [Jobs -> Statuses]
    BY TypesAre DEF Types
  <2> QED
    BY <2>1, <2>2 DEF Active, Moves
<1>6. CASE RaceBuild \/ RaceTimeout
  BY <1>0, <1>1, <1>6, WhoFinishes DEF Types
<1>7. ASSUME NEW p \in Procs, SweepDone(p) \/ Land(p) \/ Tell(p) PROVE Fine
  BY <1>2, <1>7 DEF SweepDone, Land, Tell
<1>8. CASE NothingToRun \/ RaceStopped \/ AlarmTail \/ Evict \/ UNCHANGED vars
  BY <1>2, <1>8 DEF NothingToRun, RaceStopped, AlarmTail, Evict, vars
<1>9. ASSUME NEW j \in Jobs, Emit(j) \/ Ping(j) \/ Age(j) PROVE Fine
  BY <1>2, <1>9 DEF Emit, Ping, Age
<1>10. ASSUME NEW s \in Streams, Read(s) \/ Hangup(s) PROVE Fine
  BY <1>2, <1>10 DEF Read, Hangup
<1>11. CASE (\E h \in Handlers : BeginFetch(h)) \/ BeginAlarm
  BY <1>0, <1>3, <1>11 DEF BeginFetch, BeginAlarm
<1>12. ASSUME NEW p \in Procs, Proceed(p) PROVE Fine
  BY <1>4, <1>5, <1>6, <1>7, <1>8, <1>12 DEF Proceed
<1> HIDE DEF Fine
<1> QED
  BY <1>8, <1>9, <1>10, <1>11, <1>12 DEF Next

\* With MaxActive = 1.
OneActive == \A i, j \in Active : i = j

LEMMA OneActiveIsCapped == OneActive => CapIsKept
<1> SUFFICES ASSUME OneActive PROVE Cardinality(Active) <= 1
  BY DEF CapIsKept, MaxActive
<1>1. CASE Active = {}
  BY <1>1, FS_EmptySet
<1>2. CASE Active # {}
  <2>1. PICK j \in Active : TRUE
    BY <1>2
  <2>2. Active = {j}
    BY <2>1 DEF OneActive
  <2>3. Cardinality({j}) = 1
    BY FS_Singleton
  <2> QED
    BY <2>2, <2>3
<1> QED
  BY <1>1, <1>2

\* A user never has two builds queued or running (do.ts, start: the cap is race-free).
THEOREM CapHolds == Spec => []CapIsKept
<1> DEFINE Inv == Types /\ OneActive
<1>1. Init => Inv
  <2>1. Init => OneActive
    BY DEF Init, OneActive, Active
  <2> QED
    BY <2>1, InitTypes
<1>2. Inv /\ [Next]_vars => Inv'
  <2>1. Types /\ [Next]_vars => Types'
    BY NextTypes, NextNames DEF Types
  <2>2. ASSUME Inv, [Next]_vars PROVE OneActive'
    <3>1. Active' \subseteq Active \/ StartsOne
      BY <2>2, NextMoves
    <3> QED
      BY <2>2, <3>1 DEF OneActive, StartsOne
  <2> QED
    BY <2>1, <2>2
<1>3. Inv => CapIsKept
  BY OneActiveIsCapped
<1> QED
  BY <1>1, <1>2, <1>3, PTL DEF Spec

\* A build that has not been told to stop runs a job of this instance that is active;
\* no build runs before its job.
Builds ==
    \A j \in Jobs :
        /\ build[j] = "going" /\ j \notin settled => j \in Active /\ j \in running
        /\ build[j] # "no" => status[j] \notin {"none", "queued"}

\* The job a handler has ended is past.
Overs ==
    \A p \in Procs : at[p] \in {"landing", "telling"} => status[ending[p].job] \in Past

EndsInv == Types /\ Builds /\ Overs

\* Nothing but a finish takes a job out of the active ones.
LEMMA PastStays ==
    ASSUME Types, [Next]_vars, NEW i \in Jobs, status[i] \in Past
    PROVE  status'[i] \in Past
<1>1. Moves(i)
  BY NextMoves
<1> QED
  BY <1>1 DEF Moves, Past, Active

LEMMA OversStay ==
    ASSUME Types, Overs, [Next]_vars,
           \A p \in Procs : at'[p] \in {"landing", "telling"} =>
               \/ at[p] \in {"landing", "telling"} /\ ending'[p].job = ending[p].job
               \/ ending'[p].job \in Jobs /\ status'[ending'[p].job] \in Past
    PROVE  Overs'
BY PastStays DEF Overs, Types, Named

LEMMA FinishBuilds ==
    ASSUME Types, Builds, NEW p \in Procs, Finishing(p),
           \/ UNCHANGED <<running, build>>
           \/ /\ \A i \in Jobs : build'[i] = build[i] \/ build'[i] = "no"
              /\ running' = IF at'[p] = "tail" THEN running \ {ending[p].job} ELSE running
              /\ \E outcome \in Outcomes : Finish(p, ending[p].job, outcome, "run")
    PROVE  Builds'
<1>0. status \in [Jobs -> Statuses]
  BY TypesAre DEF Types
<1>1. PICK j \in Jobs, outcome \in Outcomes, then \in {"reply", "swept", "run"} :
          Finish(p, j, outcome, then)
  BY DEF Finishing
<1>2. \A i \in Jobs : build'[i] = build[i] \/ build'[i] = "no"
  OBVIOUS
<1>3. settled \subseteq settled' /\ \A i \in Jobs : i \in Active /\ i \in running /\ i \notin Active'
                                         => i \in settled'
  BY <1>1, FinishEnds DEF Active, MayFinish, Past
<1>4. \A i \in Jobs : i \in running /\ i \notin running' => i \notin Active'
  <2>1. CASE UNCHANGED running
    BY <2>1
  <2>2. CASE running' # running
    <3>1. PICK o \in Outcomes : Finish(p, ending[p].job, o, "run")
      BY <2>2
    <3>2. running' = running \ {ending[p].job} /\ at'[p] = "tail"
      BY <2>2
    <3>3. ~MayFinish(ending[p].job) \/ ending[p].job \notin Jobs
      BY <3>1, <3>2, FinishPlaces DEF Types
    <3>4. \A i \in Jobs : i \in Active' => i \in Active
      BY <1>1, FinishEnds DEF Active, MayFinish, Past
    <3> QED
      BY <3>2, <3>3, <3>4 DEF MayFinish
  <2> QED
    BY <2>1, <2>2
<1>5. \A i \in Jobs : build'[i] = "going" /\ i \notin settled' => i \in Active' /\ i \in running'
  BY <1>2, <1>3, <1>4 DEF Builds
<1>6. \A i \in Jobs : build'[i] # "no" => status'[i] \notin {"none", "queued"}
  BY <1>1, <1>2, FinishEnds DEF Builds, Past
<1> QED
  BY <1>5, <1>6 DEF Builds

LEMMA NextEnds == EndsInv /\ [Next]_vars => EndsInv'
<1> SUFFICES ASSUME EndsInv, [Next]_vars PROVE EndsInv'
  OBVIOUS
<1> USE DEF EndsInv
<1>0. Alarm \in Procs /\ Handlers \subseteq Procs
  BY DEF Procs
<1>a. /\ status \in [Jobs -> Statuses] /\ build \in [Jobs -> {"no", "going", "said"}]
      /\ at \in [Procs -> Places] /\ ending \in [Procs -> Endings]
  BY TypesAre DEF Types
<1>b. Types'
  BY NextTypes, NextNames DEF Types
<1> SUFFICES Builds' /\ Overs'
  BY <1>b
\* Steps that leave the builds and the places alone.
<1>c. ASSUME UNCHANGED <<status, running, settled, build>> PROVE Builds'
  BY <1>c DEF Builds, Active
<1>d. ASSUME UNCHANGED procs PROVE Overs'
  BY <1>d, OversStay DEF procs
<1>e. ASSUME NEW p \in Procs, NEW place \in {"idle", "swept", "op", "race", "tail"},
             at' = [at EXCEPT ![p] = place],
             \A q \in Procs \ {p} : ending'[q] = ending[q]
      PROVE  Overs'
  BY <1>a, <1>e, OversStay
<1>f. ASSUME NEW p \in Procs, Finishing(p) PROVE Overs'
  <2>1. PICK j \in Jobs, outcome \in Outcomes, then \in {"reply", "swept", "run"} :
            Finish(p, j, outcome, then)
    BY <1>f DEF Finishing
  <2>2. \A q \in Procs \ {p} : at'[q] = at[q] /\ ending'[q] = ending[q]
    BY <2>1, FinishPlaces DEF Types
  <2>3. \/ at'[p] \in {"idle", "swept", "tail"}
        \/ ending'[p].job = j /\ status'[j] \in Past
    <3>1. CASE MayFinish(j)
      <4>1. [job |-> j, outcome |-> outcome, watched |-> FALSE, then |-> then].job = j
        OBVIOUS
      <4>2. ending'[p] = [job |-> j, outcome |-> outcome, watched |-> FALSE, then |-> then]
        BY <2>1, <3>1, FinishPlaces DEF Types
      <4>3. status'[j] \in Past
        BY <2>1, <3>1, FinishEnds
      <4> QED
        BY <4>1, <4>2, <4>3
    <3>2. CASE ~MayFinish(j)
      <4>1. at'[p] = Onwards(then)
        BY <2>1, <3>2, FinishPlaces DEF Types
      <4> QED
        BY <4>1, OnwardsPlaces
    <3> QED
      BY <3>1, <3>2
  <2> QED
    BY <2>2, <2>3, OversStay
<1>1. ASSUME NEW p \in Procs, Sweep(p) PROVE Builds' /\ Overs'
  <2>1. CASE Finishing(p)
    <3>1. UNCHANGED <<running, build>>
      BY <1>1 DEF Sweep
    <3> QED
      BY <1>f, <2>1, <3>1, FinishBuilds
  <2>2. CASE at' = [at EXCEPT ![p] = "swept"] /\ UNCHANGED <<status, log, stream, settled, ending>>
    BY <1>1, <1>c, <1>e, <2>2 DEF Sweep
  <2> QED
    BY <1>1, <2>1, <2>2, WhoFinishes DEF Types
<1>2. ASSUME NEW p \in Procs, SweepDone(p) PROVE Builds' /\ Overs'
  BY <1>2, <1>c, <1>e DEF SweepDone, memory
<1>3. ASSUME NEW p \in Procs, Land(p) PROVE Builds' /\ Overs'
  <2>1. ending'[p].job = ending[p].job /\ \A q \in Procs \ {p} : ending'[q] = ending[q]
    BY <1>3, <1>a DEF Land, Endings
  <2>2. at[p] = "landing" /\ at' = [at EXCEPT ![p] = "telling"]
    BY <1>3 DEF Land
  <2> QED
    BY <1>3, <1>a, <1>c, <2>1, <2>2, OversStay DEF Land, memory
<1>4. ASSUME NEW p \in Procs, Tell(p) PROVE Builds' /\ Overs'
  <2>1. Overs'
    <3>1. ending[p].then \in {"reply", "swept", "run"}
      BY <1>a DEF Endings
    <3>2. Onwards(ending[p].then) \in {"idle", "swept", "tail"}
      BY <3>1, OnwardsPlaces
    <3>3. Resume(p, ending[p].then)
      BY <1>4 DEF Tell
    <3> QED
      BY <1>a, <1>e, <3>2, <3>3 DEF Resume
  <2>2. Builds'
    <3>1. status[ending[p].job] \in Past
      BY <1>4 DEF Tell, Overs
    <3>2. running' = IF ending[p].then = "run" THEN running \ {ending[p].job} ELSE running
      BY <1>4 DEF Tell
    <3>3. UNCHANGED <<status, settled, build>>
      BY <1>4 DEF Tell
    <3> QED
      BY <3>1, <3>2, <3>3 DEF Builds, Active, Past
  <2> QED
    BY <2>1, <2>2
<1>5. ASSUME NEW h \in Handlers, FetchOp(h) PROVE Builds' /\ Overs'
  <2>1. CASE OpCancel(h)
    <3>1. Finishing(h) /\ UNCHANGED <<running, build>>
      BY <2>1, WhoFinishes DEF Types, OpCancel
    <3> QED
      BY <1>0, <1>f, <3>1, FinishBuilds
  <2>2. ASSUME NEW k, NEW s, StartNew(h, k, s) PROVE Builds' /\ Overs'
    <3>1. UNCHANGED <<running, settled, build, ending>>
      BY <2>2 DEF StartNew
    <3>2. at' = [at EXCEPT ![h] = "idle"]
      BY <2>2 DEF StartNew, Reply
    <3>3. \A i \in Jobs : i \in Active => i \in Active'
      <4>1. Active = {}
        BY <2>2, StartMoves DEF StartsOne
      <4> QED
        BY <4>1
    <3>4. \A i \in Jobs : status[i] \notin {"none", "queued"} => status'[i] \notin {"none", "queued"}
      BY <2>2, StartMoves DEF Moves, Past
    <3> QED
      BY <1>0, <1>e, <3>1, <3>2, <3>3, <3>4 DEF Builds
  <2>3. CASE Reply(h) /\ UNCHANGED status /\ OnlyReplies
    BY <1>0, <1>c, <1>e, <2>3 DEF Reply, OnlyReplies
  <2> QED
    BY <1>5, <2>1, <2>2, <2>3 DEF FetchOp, StartSame, OpAttach, OpOther
<1>6. CASE RunOldest
  <2>1. PICK j \in Jobs :
          /\ running' = running \cup {j}
          /\ status' = [status EXCEPT ![j] = "running"]
          /\ build' = [build EXCEPT ![j] = "going"]
          /\ ending' = [ending EXCEPT ![Alarm] = [NotEnding EXCEPT !.job = j]]
    BY <1>6 DEF RunOldest, Queued
  <2>2. Builds'
    BY <1>6, <1>a, <2>1 DEF RunOldest, Builds, Active
  <2>3. Overs'
    BY <1>0, <1>6, <1>a, <1>e, <2>1 DEF RunOldest
  <2> QED
    BY <2>2, <2>3
<1>7. CASE RaceBuild \/ RaceTimeout
  <2>1. Finishing(Alarm)
    BY <1>7, WhoFinishes DEF Types
  <2>2. \A i \in Jobs : build'[i] = build[i] \/ build'[i] = "no"
    <3>1. UNCHANGED build \/ build' = [build EXCEPT ![ending[Alarm].job] = "no"]
      BY <1>7 DEF RaceBuild, RaceTimeout
    <3> QED
      BY <1>a, <3>1
  <2>3. running' = IF at'[Alarm] = "tail" THEN running \ {ending[Alarm].job} ELSE running
    <3>1. CASE RaceBuild
      BY <3>1 DEF RaceBuild
    <3>2. CASE RaceTimeout
      BY <3>2 DEF RaceTimeout
    <3> QED
      BY <1>7, <3>1, <3>2
  <2>4. \E outcome \in Outcomes : Finish(Alarm, ending[Alarm].job, outcome, "run")
    BY <1>7 DEF RaceBuild, RaceTimeout, Outcomes
  <2> QED
    BY <1>0, <1>f, <2>1, <2>2, <2>3, <2>4, FinishBuilds
<1>8. CASE RaceStopped
  <2>1. Overs'
    BY <1>0, <1>a, <1>8, <1>e DEF RaceStopped, Resume, Onwards
  <2>2. Builds'
    BY <1>8 DEF RaceStopped, Builds, Active
  <2> QED
    BY <2>1, <2>2
<1>9. CASE NothingToRun \/ AlarmTail
  BY <1>0, <1>9, <1>c, <1>e DEF NothingToRun, AlarmTail, memory
<1>10. ASSUME NEW j \in Jobs, Emit(j) PROVE Builds' /\ Overs'
  <2>1. UNCHANGED build \/ \E b \in {"no", "said"} : build' = [build EXCEPT ![j] = b]
    BY <1>10 DEF Emit
  <2>2. build[j] = "going" /\ UNCHANGED <<status, running, settled, procs>>
    BY <1>10 DEF Emit
  <2>3. Builds'
    BY <1>a, <2>1, <2>2 DEF Builds, Active
  <2> QED
    BY <1>d, <2>2, <2>3
<1>11. ASSUME NEW j \in Jobs, Ping(j) \/ Age(j) PROVE Builds' /\ Overs'
  BY <1>11, <1>c, <1>d DEF Ping, Age, memory
<1>12. ASSUME NEW s \in Streams, Read(s) \/ Hangup(s) PROVE Builds' /\ Overs'
  BY <1>12, <1>c, <1>d DEF Read, Hangup, memory
<1>13. CASE Evict
  BY <1>13 DEF Evict, Builds, Overs
<1>14. CASE UNCHANGED vars
  BY <1>14, <1>c, <1>d DEF vars, memory
<1>15. CASE (\E h \in Handlers : BeginFetch(h)) \/ BeginAlarm
  BY <1>0, <1>1, <1>15 DEF BeginFetch, BeginAlarm
<1>16. ASSUME NEW p \in Procs, Proceed(p) PROVE Builds' /\ Overs'
  BY <1>2, <1>3, <1>4, <1>5, <1>6, <1>7, <1>8, <1>9, <1>16 DEF Proceed
<1> QED
  BY <1>10, <1>11, <1>12, <1>13, <1>14, <1>15, <1>16 DEF Next

LEMMA InitEnds == Init => EndsInv
<1>1. Init => Builds /\ Overs
  BY DEF Init, Builds, Overs
<1> QED
  BY <1>1, InitTypes DEF EndsInv

\* What the jobs, their builds and the handlers that end them owe each other.
THEOREM EndsInvariant == Spec => []EndsInv
BY InitEnds, NextEnds, PTL DEF Spec

\* A build whose job ended, by its timeout, a cancel or a sweep, has been told to stop
\* (do.ts, finish: settled before it aborts).
THEOREM OrphansStop == Spec => []OrphansAreSettled
<1>1. EndsInv => OrphansAreSettled
  BY DEF EndsInv, Builds, OrphansAreSettled
<1> QED
  BY <1>1, EndsInvariant, PTL

\* An ended job is not ended again, and nothing is recorded of it.
LEMMA EndedStays ==
    ASSUME EndsInv, [Next]_vars, NEW j \in Ended
    PROVE  /\ status'[j] \in {status[j], "pruned"}
           /\ status'[j] # "pruned" => log'[j] = log[j]
<1> USE DEF EndsInv
<1>0. Alarm \in Procs /\ Handlers \subseteq Procs /\ j \in Jobs
  BY DEF Procs, Ended
<1>a. /\ status \in [Jobs -> Statuses]
      /\ log \in [Jobs -> Logs]
  BY TypesAre DEF Types, LogsOK
<1>1. status'[j] \in {status[j], "pruned"}
  <2>1. Moves(j)
    BY <1>0, NextMoves
  <2> QED
    BY <2>1 DEF Moves, Ended, Active
<1> SUFFICES status'[j] = "pruned" \/ log'[j] = log[j]
  BY <1>1
<1>2. ASSUME NEW p \in Procs, Finishing(p) PROVE log'[j] = log[j]
  <2>1. PICK i \in Jobs, outcome \in Outcomes, then \in {"reply", "swept", "run"} :
            Finish(p, i, outcome, then)
    BY <1>2 DEF Finishing
  <2>2. MayFinish(i) => i # j
    BY DEF MayFinish, Active, Ended
  <2> QED
    BY <1>0, <2>1, <2>2, FinishEnds
<1>3. ASSUME NEW p \in Procs, Sweep(p) PROVE log'[j] = log[j]
  BY <1>2, <1>3, WhoFinishes DEF Types
<1>4. ASSUME NEW h \in Handlers, FetchOp(h) PROVE status'[j] = "pruned" \/ log'[j] = log[j]
  <2>1. CASE OpCancel(h)
    BY <1>0, <1>2, <2>1, WhoFinishes DEF Types
  <2>2. ASSUME NEW k, NEW s, StartNew(h, k, s) PROVE status'[j] = "pruned" \/ log'[j] = log[j]
    <3>1. PICK i \in Jobs :
          /\ status[i] = "none"
          /\ status' = [n \in Jobs |-> IF n = i THEN "queued"
                                       ELSE IF n \in Pruned THEN "pruned" ELSE status[n]]
          /\ log' = [n \in Jobs |-> IF n \in Pruned THEN <<>> ELSE log[n]]
      BY <2>2 DEF StartNew
    <3>2. j # i
      BY <3>1 DEF Ended
    <3> QED
      BY <1>0, <3>1, <3>2
  <2>3. CASE UNCHANGED log
    BY <2>3
  <2> QED
    BY <1>4, <2>1, <2>2, <2>3 DEF FetchOp, StartSame, OpAttach, OpOther
<1>5. ASSUME NEW i \in Jobs, Emit(i) PROVE log'[j] = log[j]
  <2>1. CASE i \in settled
    BY <1>5, <2>1 DEF Emit
  <2>2. CASE i \notin settled
    <3>1. i # j
      BY <1>5, <2>2 DEF Emit, Builds, Active, Ended
    <3>2. \E l : log' = [log EXCEPT ![i] = l]
      BY <1>5, <2>2 DEF Emit, Broadcast
    <3> QED
      BY <1>a, <1>0, <3>1, <3>2
  <2> QED
    BY <2>1, <2>2
<1>6. CASE RaceBuild \/ RaceTimeout
  BY <1>0, <1>2, <1>6, WhoFinishes DEF Types
<1>7. ASSUME NEW p \in Procs, SweepDone(p) \/ Land(p) \/ Tell(p) PROVE UNCHANGED log
  BY <1>7 DEF SweepDone, Land, Tell
<1>8. CASE RunOldest \/ NothingToRun \/ RaceStopped \/ AlarmTail \/ Evict \/ UNCHANGED vars
  BY <1>8 DEF RunOldest, NothingToRun, RaceStopped, AlarmTail, Evict, vars
<1>9. ASSUME NEW i \in Jobs, Ping(i) \/ Age(i) PROVE UNCHANGED log
  BY <1>9 DEF Ping, Age
<1>10. ASSUME NEW s \in Streams, Read(s) \/ Hangup(s) PROVE UNCHANGED log
  BY <1>10 DEF Read, Hangup
<1>11. CASE (\E h \in Handlers : BeginFetch(h)) \/ BeginAlarm
  BY <1>0, <1>3, <1>11 DEF BeginFetch, BeginAlarm
<1>12. ASSUME NEW p \in Procs, Proceed(p) PROVE status'[j] = "pruned" \/ log'[j] = log[j]
  BY <1>4, <1>6, <1>7, <1>8, <1>12 DEF Proceed
<1> QED
  BY <1>5, <1>8, <1>9, <1>10, <1>11, <1>12 DEF Next

\* The build, its timeout, a cancel and the sweeps race to end a job: one of them does,
\* and the job's record is closed (do.ts, finish).
THEOREM JobsEndOnce == Spec => EndsOnce
<1>1. EndsInv /\ [Next]_vars
        => [\A j \in Ended :
              /\ status'[j] \in {status[j], "pruned"}
              /\ status'[j] # "pruned" => log'[j] = log[j]]_vars
  BY EndedStays
<1> QED
  BY <1>1, EndsInvariant, PTL DEF Spec, EndsOnce

-----------------------------------------------------------------------------
(* Who watches a job, and who is told of its end.                          *)

Ends == {"landing", "telling"}

\* The step of a handler that ends a job.  Only a build that throws says nothing first.
FinishStep(p, j, outcome) ==
    /\ at[p] \notin Ends /\ MayFinish(j)
    /\ \E then \in {"reply", "swept", "run"} : Finish(p, j, outcome, then)
    /\ outcome \in Reasons \/ build[j] = "said" \/ "throws" \in Events
    /\ \A i \in Jobs : build'[i] \in {build[i], "no"}
    /\ UNCHANGED <<told, seen, crashes>>

\* A step that ends nothing, sends nothing and records nothing; one stream may attach.
CalmProcs == \A p \in Procs : \/ at'[p] = at[p] /\ ending'[p] = ending[p]
                              \/ at[p] \notin Ends /\ at'[p] \notin Ends
CalmJobs == \A i \in Jobs :
    /\ i \in Active => i \in Active'
    /\ i \in Active' => log'[i] = log[i]
    /\ build'[i] = "said" => build[i] = "said"
AttachStep == \E s \in Streams, j \in Jobs : j \in Active' /\ stream' = [stream EXCEPT ![s] = Replay(j)]
CalmStep == CalmProcs /\ CalmJobs /\ UNCHANGED <<told, seen, crashes>> /\ (UNCHANGED stream \/ AttachStep)

LEMMA FinishKinds ==
    ASSUME Types, NEW p \in Procs, NEW j \in Jobs, NEW outcome \in Outcomes,
           NEW then \in {"reply", "swept", "run"}, Finish(p, j, outcome, then), at[p] \notin Ends,
           outcome \in Reasons \/ build[j] = "said" \/ "throws" \in Events,
           \A i \in Jobs : build'[i] \in {build[i], "no"}, UNCHANGED <<told, seen, crashes>>
    PROVE  FinishStep(p, j, outcome) \/ CalmStep
<1>1. CASE MayFinish(j)
  BY <1>1 DEF FinishStep
<1>2. CASE ~MayFinish(j)
  <2>1. UNCHANGED <<status, log, stream>>
    BY <1>2 DEF Finish
  <2>2. /\ \A q \in Procs \ {p} : at'[q] = at[q] /\ ending'[q] = ending[q]
        /\ at'[p] = Onwards(then)
    <3>1. at \in [Procs -> Places]
      BY TypesAre DEF Types
    <3>2. Resume(p, then)
      BY <1>2 DEF Finish
    <3> QED
      BY <3>1, <3>2, TypesAre DEF Resume, Types
  <2>3. CalmProcs
    BY <2>2, OnwardsPlaces DEF CalmProcs, Ends
  <2>4. CalmJobs
    BY <2>1 DEF CalmJobs, Active
  <2> QED
    BY <2>1, <2>3, <2>4 DEF CalmStep
<1> QED
  BY <1>1, <1>2

LEMMA StepKinds ==
    ASSUME Types, [Next]_vars
    PROVE  \/ CalmStep
           \/ \E p \in Procs, j \in Jobs, outcome \in Outcomes : FinishStep(p, j, outcome)
           \/ \E p \in Procs : Land(p) \/ Tell(p)
           \/ \E j \in Jobs : Emit(j) \/ Ping(j)
           \/ \E s \in Streams : Read(s) \/ Hangup(s)
           \/ Evict
<1> DEFINE Kinds == \/ CalmStep
                    \/ \E p \in Procs, j \in Jobs, outcome \in Outcomes : FinishStep(p, j, outcome)
                    \/ \E p \in Procs : Land(p) \/ Tell(p)
                    \/ \E j \in Jobs : Emit(j) \/ Ping(j)
                    \/ \E s \in Streams : Read(s) \/ Hangup(s)
                    \/ Evict
<1> SUFFICES Kinds
  OBVIOUS
<1>0. Alarm \in Procs /\ Handlers \subseteq Procs
  BY DEF Procs
<1>a. /\ status \in [Jobs -> Statuses] /\ build \in [Jobs -> {"no", "going", "said"}]
      /\ at \in [Procs -> Places] /\ ending \in [Procs -> Endings]
  BY TypesAre DEF Types
\* Steps of one handler that is not ending a job.
<1>b. ASSUME NEW p \in Procs, NEW place \in Places \ Ends, at[p] \notin Ends, at' = [at EXCEPT ![p] = place],
             \A q \in Procs \ {p} : ending'[q] = ending[q]
      PROVE  CalmProcs
  BY <1>a, <1>b DEF CalmProcs
<1>c. ASSUME UNCHANGED <<status, log, build>> PROVE CalmJobs
  BY <1>c DEF CalmJobs, Active
<1>1. ASSUME NEW p \in Procs, Sweep(p) PROVE Kinds
  <2>1. at[p] \notin Ends /\ UNCHANGED <<build, told, seen, crashes>>
    BY <1>1 DEF Sweep, Ends, history
  <2>2. ASSUME NEW j \in Active, Finish(p, j, "interrupted", "swept") PROVE Kinds
    <3>1. j \in Jobs /\ "interrupted" \in Reasons /\ "interrupted" \in Outcomes
      BY DEF Active, Reasons, Outcomes
    <3>2. FinishStep(p, j, "interrupted") \/ CalmStep
      BY <2>1, <2>2, <3>1, FinishKinds
    <3> QED
      BY <3>1, <3>2
  <2>3. CASE at' = [at EXCEPT ![p] = "swept"] /\ UNCHANGED <<status, log, stream, settled, ending>>
    <3>1. "swept" \in Places \ Ends
      BY DEF Places, Ends
    <3> QED
      BY <1>b, <1>c, <2>1, <2>3, <3>1 DEF CalmStep
  <2> QED
    BY <1>1, <2>2, <2>3 DEF Sweep
<1>2. ASSUME NEW p \in Procs, SweepDone(p) PROVE Kinds
  <2>1. "op" \in Places \ Ends /\ at[p] \notin Ends
    BY <1>2 DEF Places, Ends, SweepDone
  <2> QED
    BY <1>2, <1>b, <1>c, <2>1 DEF SweepDone, memory, history, CalmStep
<1>3. ASSUME NEW h \in Handlers, FetchOp(h) PROVE Kinds
  <2>0. "idle" \in Places \ Ends /\ h \in Procs
    BY <1>0 DEF Places, Ends
  <2>1. CASE OpCancel(h)
    <3>1. PICK j \in Active : Finish(h, j, "cancelled", "reply")
      BY <2>1 DEF OpCancel
    <3>2. j \in Jobs /\ "cancelled" \in Reasons /\ "cancelled" \in Outcomes
      BY DEF Active, Reasons, Outcomes
    <3>3. at[h] \notin Ends /\ UNCHANGED <<build, told, seen, crashes>>
      BY <2>1 DEF OpCancel, Ends, history
    <3>4. FinishStep(h, j, "cancelled") \/ CalmStep
      BY <2>0, <3>1, <3>2, <3>3, FinishKinds
    <3> QED
      BY <2>0, <3>2, <3>4
  <2>2. ASSUME Reply(h), UNCHANGED ending PROVE CalmProcs
    <3>1. at[h] \notin Ends /\ at' = [at EXCEPT ![h] = "idle"]
      BY <2>2 DEF Reply, Ends
    <3> QED
      BY <1>b, <2>0, <2>2, <3>1
  <2>3. ASSUME NEW j \in Jobs, NEW s \in Streams, Attach(s, j) PROVE UNCHANGED stream \/ AttachStep
    BY <2>3 DEF Attach, AttachStep
  <2>4. ASSUME NEW k, NEW s \in Streams, StartNew(h, k, s) PROVE Kinds
    <3>1. PICK j \in Jobs :
            /\ status[j] = "none"
            /\ status' = [i \in Jobs |-> IF i = j THEN "queued"
                                         ELSE IF i \in Pruned THEN "pruned" ELSE status[i]]
            /\ log' = [i \in Jobs |-> IF i \in Pruned THEN <<>> ELSE log[i]]
            /\ Attach(s, j)
      BY <2>4 DEF StartNew
    <3>2. UNCHANGED <<build, ending, told, seen, crashes>> /\ Reply(h)
      BY <2>4 DEF StartNew, history
    <3>3. log \in [Jobs -> Logs]
      BY TypesAre DEF Types, LogsOK
    <3>4. ASSUME NEW i \in Jobs, i \in Pruned PROVE i \notin Active /\ i \notin Active'
      BY <3>1, <3>4 DEF Pruned, Ended, Active
    <3>5. CalmJobs
      BY <3>1, <3>2, <3>3, <3>4 DEF CalmJobs, Active
    <3> QED
      BY <2>2, <2>3, <3>1, <3>2, <3>5 DEF CalmStep
  <2>5. ASSUME NEW s \in Streams,
               OpAttach(h, s) \/ OpOther(h) \/ \E k \in Keys \cup {NoKey} : StartSame(h, k, s)
        PROVE  Kinds
    <3>1. Reply(h) /\ UNCHANGED <<status, log>> /\ UNCHANGED <<build, ending, told, seen, crashes>>
      BY <2>5 DEF OpAttach, OpOther, StartSame, OnlyReplies, history
    <3>2. UNCHANGED stream \/ AttachStep
      BY <2>3, <2>5 DEF OpAttach, OpOther, StartSame, Active, Ended
    <3> QED
      BY <1>c, <2>2, <3>1, <3>2 DEF CalmStep
  <2>6. CASE OpOther(h)
    BY <1>c, <2>2, <2>6 DEF OpOther, OnlyReplies, history, CalmStep
  <2> QED
    BY <1>3, <2>1, <2>4, <2>5, <2>6 DEF FetchOp
<1>4. CASE RunOldest
  <2>1. PICK j \in Jobs :
          /\ status' = [status EXCEPT ![j] = "running"]
          /\ build' = [build EXCEPT ![j] = "going"]
          /\ ending' = [ending EXCEPT ![Alarm] = [NotEnding EXCEPT !.job = j]]
    BY <1>4 DEF RunOldest, Queued
  <2>2. /\ at[Alarm] \notin Ends /\ at' = [at EXCEPT ![Alarm] = "race"] /\ "race" \in Places \ Ends
        /\ UNCHANGED <<log, stream, crashes, told, seen>>
    BY <1>4 DEF RunOldest, Places, Ends, history
  <2>3. CalmProcs
    BY <1>0, <1>a, <1>b, <2>1, <2>2
  <2>4. CalmJobs
    BY <1>a, <2>1, <2>2 DEF CalmJobs, Active
  <2> QED
    BY <2>2, <2>3, <2>4 DEF CalmStep
<1>5. CASE RaceBuild \/ RaceTimeout
  <2> DEFINE j == ending[Alarm].job
  <2>1. at[Alarm] \notin Ends /\ j \in Jobs
    BY <1>0, <1>5 DEF RaceBuild, RaceTimeout, Ends, Types, Named
  <2>2. \A i \in Jobs : build'[i] \in {build[i], "no"}
    <3>1. UNCHANGED build \/ build' = [build EXCEPT ![j] = "no"]
      BY <1>5 DEF RaceBuild, RaceTimeout
    <3> QED
      BY <1>a, <3>1
  <2>3. UNCHANGED <<told, seen, crashes>>
    BY <1>5 DEF RaceBuild, RaceTimeout, history
  <2>4. PICK outcome \in Outcomes : /\ Finish(Alarm, j, outcome, "run")
                                    /\ outcome \in Reasons \/ build[j] = "said" \/ "throws" \in Events
    BY <1>5 DEF RaceBuild, RaceTimeout, Outcomes, Reasons
  <2> HIDE DEF j
  <2>5. FinishStep(Alarm, j, outcome) \/ CalmStep
    BY <1>0, <2>1, <2>2, <2>3, <2>4, FinishKinds
  <2> QED
    BY <1>0, <2>1, <2>5
<1>6. CASE NothingToRun \/ AlarmTail \/ RaceStopped
  <2>1. at[Alarm] \notin Ends
    BY <1>6 DEF NothingToRun, AlarmTail, RaceStopped, Ends
  <2>2. at' = [at EXCEPT ![Alarm] = "tail"] \/ at' = [at EXCEPT ![Alarm] = "idle"]
    BY <1>6 DEF NothingToRun, AlarmTail, RaceStopped, Resume, Onwards
  <2>3. "tail" \in Places \ Ends /\ "idle" \in Places \ Ends
    BY DEF Places, Ends
  <2>4. \A q \in Procs \ {Alarm} : ending'[q] = ending[q]
    BY <1>6, <1>a DEF NothingToRun, AlarmTail, RaceStopped, Resume
  <2>5. CalmProcs
    BY <1>0, <1>b, <2>1, <2>2, <2>3, <2>4
  <2>6. UNCHANGED <<status, log, build, stream, told, seen, crashes>>
    BY <1>6 DEF NothingToRun, AlarmTail, RaceStopped, memory, history
  <2> QED
    BY <1>c, <2>5, <2>6 DEF CalmStep
<1>7. ASSUME NEW j \in Jobs, Age(j) PROVE Kinds
  BY <1>7, <1>c DEF Age, memory, procs, history, CalmStep, CalmProcs
<1>8. CASE UNCHANGED vars
  BY <1>8, <1>c DEF vars, memory, procs, history, CalmStep, CalmProcs
<1>9. CASE (\E h \in Handlers : BeginFetch(h)) \/ BeginAlarm
  BY <1>0, <1>1, <1>9 DEF BeginFetch, BeginAlarm
<1> HIDE DEF Kinds
<1>10. ASSUME NEW p \in Procs, Proceed(p) PROVE Kinds
  <2>1. Land(p) \/ Tell(p) => Kinds
    BY DEF Kinds
  <2> QED
    BY <1>2, <1>3, <1>4, <1>5, <1>6, <1>10, <2>1 DEF Proceed
<1>11. (\E j \in Jobs : Emit(j) \/ Ping(j)) \/ (\E s \in Streams : Read(s) \/ Hangup(s)) \/ Evict => Kinds
  BY DEF Kinds
<1> QED
  BY <1>7, <1>8, <1>9, <1>10, <1>11 DEF Next

LEMMA FinishEffect ==
    ASSUME Types, NEW p \in Procs, NEW j \in Jobs, NEW outcome \in Outcomes, FinishStep(p, j, outcome)
    PROVE  /\ at'[p] \in Ends /\ ending'[p].job = j /\ ending'[p].outcome = outcome /\ ~ending'[p].watched
           /\ \A q \in Procs \ {p} : at'[q] = at[q] /\ ending'[q] = ending[q]
           /\ status' = [status EXCEPT ![j] = StatusOf(outcome)]
           /\ \A s \in Streams : stream'[s].job = j => at'[p] = "landing"
           /\ IF outcome \in Reasons THEN stream' = Sent(j, "end") ELSE UNCHANGED stream
<1>1. PICK then \in {"reply", "swept", "run"} : Finish(p, j, outcome, then)
  BY DEF FinishStep
<1>2. MayFinish(j)
  BY DEF FinishStep
<1>3. at \in [Procs -> Places] /\ ending \in [Procs -> Endings]
  BY TypesAre DEF Types
<1> DEFINE e == [job |-> j, outcome |-> outcome, watched |-> FALSE, then |-> then]
<1>4. ending' = [ending EXCEPT ![p] = e]
  BY <1>1, <1>2 DEF Finish
<1>5. e.job = j /\ e.outcome = outcome /\ ~e.watched
  OBVIOUS
<1> HIDE DEF e
<1>6. at' = [at EXCEPT ![p] = IF \E s \in Streams : stream'[s].job = j THEN "landing" ELSE "telling"]
  BY <1>1, <1>2 DEF Finish
<1>7. status' = [status EXCEPT ![j] = StatusOf(outcome)]
  BY <1>1, <1>2 DEF Finish
<1>8. IF outcome \in Reasons THEN stream' = Sent(j, "end") ELSE UNCHANGED stream
  BY <1>1, <1>2 DEF Finish, Broadcast
<1>9. at'[p] \in Ends /\ ((\E s \in Streams : stream'[s].job = j) => at'[p] = "landing")
  BY <1>3, <1>6 DEF Ends
<1>10. ending'[p] = e /\ \A q \in Procs \ {p} : at'[q] = at[q] /\ ending'[q] = ending[q]
  BY <1>3, <1>4, <1>6
<1> QED
  BY <1>5, <1>7, <1>8, <1>9, <1>10

\* How a handler that ends a job moves on.
LEMMA ProcStep ==
    ASSUME Types, [Next]_vars, NEW p \in Procs
    PROVE  \/ Evict
           \/ at'[p] = at[p] /\ ending'[p] = ending[p]
           \/ at[p] \notin Ends /\ at'[p] \notin Ends
           \/ Land(p) \/ Tell(p)
           \/ \E j \in Jobs, outcome \in Outcomes : FinishStep(p, j, outcome)
<1>a. at \in [Procs -> Places] /\ ending \in [Procs -> Endings]
  BY TypesAre DEF Types
<1>1. CASE CalmStep
  BY <1>1 DEF CalmStep, CalmProcs
<1>2. ASSUME NEW q \in Procs, NEW j \in Jobs, NEW outcome \in Outcomes, FinishStep(q, j, outcome), p # q
      PROVE  at'[p] = at[p] /\ ending'[p] = ending[p]
  BY <1>2, FinishEffect
<1>3. ASSUME NEW q \in Procs, Land(q) \/ Tell(q), p # q
      PROVE  at'[p] = at[p] /\ ending'[p] = ending[p]
  BY <1>a, <1>3 DEF Land, Tell, Resume
<1>4. ASSUME NEW j \in Jobs, Emit(j) \/ Ping(j) PROVE at'[p] = at[p] /\ ending'[p] = ending[p]
  BY <1>4 DEF Emit, Ping, procs
<1>5. ASSUME NEW s \in Streams, Read(s) \/ Hangup(s) PROVE at'[p] = at[p] /\ ending'[p] = ending[p]
  BY <1>5 DEF Read, Hangup, procs
<1> QED
  BY <1>1, <1>2, <1>3, <1>4, <1>5, StepKinds

\* An active job stays active until a handler ends it.
LEMMA ActiveStep ==
    ASSUME Types, [Next]_vars, NEW j \in Active
    PROVE  j \in Active' \/ \E p \in Procs, outcome \in Outcomes : FinishStep(p, j, outcome)
<1>0. j \in Jobs /\ status \in [Jobs -> Statuses]
  BY TypesAre DEF Types, Active
<1>1. CASE CalmStep
  BY <1>0, <1>1 DEF CalmStep, CalmJobs
<1>2. ASSUME NEW p \in Procs, NEW i \in Jobs, NEW outcome \in Outcomes, FinishStep(p, i, outcome), i # j
      PROVE  j \in Active'
  BY <1>0, <1>2, FinishEffect DEF Active
<1>3. CASE UNCHANGED status
  BY <1>3 DEF Active
<1> QED
  BY <1>1, <1>2, <1>3, StepKinds DEF Land, Tell, Emit, Ping, Read, Hangup, Evict

\* A stream that has read to the end of its job has seen it.
SeenEnds == \A s \in Streams :
    stream[s].job # 0 /\ stream[s].end /\ stream[s].unread = 0 => stream[s].job \in seen

\* What a frame does to a stream.
LEMMA SentFollows ==
    ASSUME stream \in [Streams -> Conns], NEW j, NEW ev, NEW s \in Streams, stream' = Sent(j, ev),
           stream'[s].job # 0
    PROVE  \/ stream[s].job # j /\ stream'[s] = stream[s]
           \/ /\ stream[s].job = j /\ stream'[s].job = j /\ stream'[s].unread # 0
              /\ stream[s].end \/ ev = "end" => stream'[s].end
<1>1. stream[s] \in Conns
  OBVIOUS
<1> DEFINE more == stream[s].unread + 1
           over == stream[s].end \/ ev = "end"
           t == [stream[s] EXCEPT !.unread = more, !.end = over]
<1>2. stream'[s] = IF s \notin Listening(j) THEN stream[s]
                   ELSE IF 1 - stream[s].unread < -MaxBacklog THEN NoStream ELSE t
  BY DEF Sent
<1>3. more \in Nat /\ more # 0
  BY <1>1 DEF Conns
<1> HIDE DEF more
<1>4. t.job = stream[s].job /\ t.unread = more /\ t.end = over
  BY <1>1 DEF Conns
<1> HIDE DEF t
<1>5. NoStream.job = 0
  BY DEF NoStream
<1> QED
  BY <1>2, <1>3, <1>4, <1>5 DEF Listening

\* A stream goes on with its job, or it is closed.
Follows(s) ==
    \/ stream'[s].job = 0
    \/ /\ stream'[s].job = stream[s].job
       /\ stream[s].end => stream'[s].end
       /\ stream'[s].end /\ stream'[s].unread = 0 => stream'[s].job \in seen'

LEMMA StreamStep ==
    ASSUME Types, SeenEnds, [Next]_vars
    PROVE  /\ seen \subseteq seen'
           /\ \A s \in Streams :
                \/ Follows(s)
                \/ CalmStep /\ \E j \in Jobs : j \in Active' /\ stream'[s] = Replay(j)
<1>0. stream \in [Streams -> Conns] /\ NoStream.job = 0
  BY TypesAre DEF Types, NoStream
<1>1. CASE CalmStep
  <2>1. seen' = seen
    BY <1>1 DEF CalmStep
  <2>2. CASE UNCHANGED stream
    BY <2>1, <2>2 DEF SeenEnds, Follows
  <2>3. CASE AttachStep
    <3>1. PICK s \in Streams, j \in Jobs : j \in Active' /\ stream' = [stream EXCEPT ![s] = Replay(j)]
      BY <2>3 DEF AttachStep
    <3> QED
      BY <1>0, <1>1, <2>1, <3>1 DEF SeenEnds, Follows
  <2> QED
    BY <1>1, <2>1, <2>2, <2>3 DEF CalmStep
<1>2. ASSUME seen' = seen, \/ UNCHANGED stream
                           \/ \E j \in Jobs, ev \in {"step", "end", "ping"} : stream' = Sent(j, ev)
      PROVE  seen \subseteq seen' /\ \A s \in Streams : Follows(s)
  <2>1. CASE UNCHANGED stream
    BY <1>2, <2>1 DEF SeenEnds, Follows
  <2>2. ASSUME NEW j \in Jobs, NEW ev \in {"step", "end", "ping"}, stream' = Sent(j, ev), NEW s \in Streams
        PROVE  Follows(s)
    <3>1. CASE stream'[s].job = 0
      BY <3>1 DEF Follows
    <3>2. CASE stream'[s].job # 0
      <4>1. \/ stream'[s] = stream[s]
            \/ /\ stream'[s].job = stream[s].job /\ stream'[s].unread # 0
               /\ stream[s].end => stream'[s].end
        BY <1>0, <2>2, <3>2, SentFollows
      <4> QED
        BY <1>2, <3>2, <4>1 DEF SeenEnds, Follows
    <3> QED
      BY <3>1, <3>2
  <2> QED
    BY <1>2, <2>1, <2>2
<1>3. ASSUME NEW p \in Procs, NEW j \in Jobs, NEW outcome \in Outcomes, FinishStep(p, j, outcome)
      PROVE  seen \subseteq seen' /\ \A s \in Streams : Follows(s)
  BY <1>2, <1>3, FinishEffect DEF FinishStep
<1>4. ASSUME NEW p \in Procs, Land(p) PROVE seen \subseteq seen' /\ \A s \in Streams : Follows(s)
  <2>1. seen' = seen /\ \A s \in Streams : stream'[s] \in {stream[s], NoStream}
    BY <1>4 DEF Land, Closed, history
  <2> QED
    BY <1>0, <2>1 DEF SeenEnds, Follows
<1>5. ASSUME NEW p \in Procs, Tell(p) PROVE seen \subseteq seen' /\ \A s \in Streams : Follows(s)
  BY <1>2, <1>5 DEF Tell
<1>6. ASSUME NEW j \in Jobs, Emit(j) \/ Ping(j) PROVE seen \subseteq seen' /\ \A s \in Streams : Follows(s)
  BY <1>2, <1>6 DEF Emit, Ping, Broadcast, history
<1>7. ASSUME NEW s \in Streams, Read(s) PROVE seen \subseteq seen' /\ \A t \in Streams : Follows(t)
  <2>1. stream' = [stream EXCEPT ![s].unread = 0] /\ stream[s] \in Conns
    BY <1>0, <1>7 DEF Read
  <2>2. stream'[s].job = stream[s].job /\ stream'[s].end = stream[s].end
    BY <1>0, <2>1 DEF Conns
  <2>3. seen' = IF stream[s].end THEN seen \cup {stream[s].job} ELSE seen
    BY <1>7 DEF Read
  <2>4. \A t \in Streams \ {s} : stream'[t] = stream[t]
    BY <1>0, <2>1
  <2> QED
    BY <2>2, <2>3, <2>4 DEF SeenEnds, Follows
<1>8. ASSUME NEW s \in Streams, Hangup(s) PROVE seen \subseteq seen' /\ \A t \in Streams : Follows(t)
  <2>1. seen' = seen /\ \A t \in Streams \ {s} : stream'[t] = stream[t]
    BY <1>0, <1>8 DEF Hangup, history
  <2>2. CASE stream' = [stream EXCEPT ![s] = NoStream]
    BY <1>0, <2>1, <2>2 DEF SeenEnds, Follows
  <2>3. CASE stream' = [stream EXCEPT ![s].gone = TRUE]
    <3>1. stream[s] \in Conns
      BY <1>0
    <3>2. /\ stream'[s].job = stream[s].job /\ stream'[s].end = stream[s].end
          /\ stream'[s].unread = stream[s].unread
      BY <1>0, <2>3, <3>1 DEF Conns
    <3> QED
      BY <2>1, <3>2 DEF SeenEnds, Follows
  <2> QED
    BY <1>8, <2>2, <2>3 DEF Hangup
<1>9. CASE Evict
  BY <1>0, <1>9 DEF Evict, Follows, history
<1> QED
  BY <1>1, <1>3, <1>4, <1>5, <1>6, <1>7, <1>8, <1>9, StepKinds

LEMMA SeenStep == Types /\ SeenEnds /\ [Next]_vars => SeenEnds'
<1> SUFFICES ASSUME Types, SeenEnds, [Next]_vars, NEW s \in Streams,
                    stream'[s].job # 0, stream'[s].end, stream'[s].unread = 0
             PROVE  stream'[s].job \in seen'
  BY DEF SeenEnds
<1>1. ASSUME NEW j \in Jobs, stream'[s] = Replay(j) PROVE FALSE
  <2>1. Len(log[j]) \in Nat
    BY TypesAre DEF Types, LogsOK, Logs
  <2> QED
    BY <1>1, <2>1 DEF Replay
<1> QED
  BY <1>1, StreamStep DEF Follows

LEMMA WaitStep == Types /\ SeenEnds /\ NobodyWaitsInVain /\ [Next]_vars => NobodyWaitsInVain'
<1> SUFFICES ASSUME Types, SeenEnds, NobodyWaitsInVain, [Next]_vars, NEW s \in Streams, stream'[s].job # 0
             PROVE  \/ stream'[s].job \in Active'
                    \/ \E p \in Procs : at'[p] = "landing" /\ ending'[p].job = stream'[s].job
  BY DEF NobodyWaitsInVain
<1>1. ASSUME NEW j \in Jobs, j \in Active', stream'[s] = Replay(j) PROVE stream'[s].job \in Active'
  BY <1>1 DEF Replay
<1>2. CASE stream'[s].job = stream[s].job
  <2>1. CASE stream[s].job \in Active
    <3>1. ASSUME NEW p \in Procs, NEW outcome \in Outcomes, FinishStep(p, stream[s].job, outcome)
          PROVE  at'[p] = "landing" /\ ending'[p].job = stream'[s].job
      <4>1. stream[s].job \in Jobs
        BY <2>1 DEF Active
      <4> QED
        BY <1>2, <3>1, <4>1, FinishEffect
    <3> QED
      BY <1>2, <2>1, <3>1, ActiveStep
  <2>2. ASSUME NEW p \in Procs, at[p] = "landing", ending[p].job = stream[s].job
        PROVE  at'[p] = "landing" /\ ending'[p].job = stream'[s].job
    <3>1. ~Evict
      BY DEF Evict, NoStream
    <3>2. ~Land(p)
      <4>1. s \in Listening(ending[p].job)
        BY <2>2 DEF Listening
      <4> QED
        BY <4>1 DEF Land, Closed, NoStream
    <3>3. ~Tell(p) /\ at[p] \in Ends
      BY <2>2 DEF Tell, Ends
    <3> QED
      BY <1>2, <2>2, <3>1, <3>2, <3>3, ProcStep DEF FinishStep
  <2> QED
    BY <1>2, <2>1, <2>2 DEF NobodyWaitsInVain
<1> QED
  BY <1>1, <1>2, StreamStep DEF Follows

\* No client waits on a job that is over: a stream listens while its job is active or its
\* last events are landing (do.ts, attach and finish: closeStreams after LANDING_MS).
THEOREM NobodyWaits == Spec => []NobodyWaitsInVain
<1> DEFINE Inv == Types /\ SeenEnds /\ NobodyWaitsInVain
<1>1. Init => Inv
  <2>1. Init => SeenEnds /\ NobodyWaitsInVain
    BY DEF Init, NoStream, SeenEnds, NobodyWaitsInVain
  <2> QED
    BY <2>1, InitTypes
<1>2. Inv /\ [Next]_vars => Inv'
  <2>1. Types /\ [Next]_vars => Types'
    BY NextTypes, NextNames DEF Types
  <2> QED
    BY <2>1, SeenStep, WaitStep
<1>3. Inv => NobodyWaitsInVain
  OBVIOUS
<1> QED
  BY <1>1, <1>2, <1>3, PTL DEF Spec

-----------------------------------------------------------------------------
(* What a client that counts as watching has read.                         *)

LogEnds(l) == \E i \in 1..Len(l) : l[i] = "end"
SaidEnd(j) == LogEnds(log[j]) /\ \A s \in Streams : stream[s].job = j => stream[s].end

\* Who attaches to a job, or is attached while it lands, is sent its end.
WatchInv ==
    /\ SeenEnds
    /\ \A j \in Active : build[j] = "said" => SaidEnd(j)
    /\ \A p \in Procs : at[p] = "landing" => \A s \in Streams : stream[s].job = ending[p].job => stream[s].end
    /\ WatchedSawTheEnd

\* What is recorded last is kept.
LEMMA RecordedEnd ==
    ASSUME LogsOK(log), NEW j \in Jobs
    PROVE  LogEnds(Recorded(j, "end"))
<1> DEFINE all == Append(log[j], "end")
           n == Len(log[j])
<1>1. log[j] \in Logs /\ n \in Nat /\ n <= KeepEvents /\ KeepEvents \in Nat \ {0}
  BY BuildJobsAssumption DEF LogsOK, Logs
<1>2. all \in Logs /\ Len(all) = n + 1 /\ all[n + 1] = "end"
  BY <1>1 DEF Logs
<1>3. CASE Len(all) > KeepEvents
  <2>1. n > 0
    BY <1>1, <1>2, <1>3
  <2>2. Len(Tail(all)) = n /\ Tail(all)[n] = all[n + 1]
    BY <1>1, <1>2, <2>1 DEF Logs
  <2>3. Recorded(j, "end") = Tail(all)
    BY <1>3 DEF Recorded
  <2>4. n \in 1..Len(Tail(all))
    BY <1>1, <2>1, <2>2
  <2> QED
    BY <1>2, <2>2, <2>3, <2>4 DEF LogEnds
<1>4. CASE ~(Len(all) > KeepEvents)
  <2>1. Recorded(j, "end") = all
    BY <1>4 DEF Recorded
  <2>2. n + 1 \in 1..Len(all)
    BY <1>1, <1>2
  <2> QED
    BY <1>2, <2>1, <2>2 DEF LogEnds
<1> QED
  BY <1>3, <1>4

\* A build that has said how it ended has just done so, or nothing was recorded since.
LEMMA SaidStep ==
    ASSUME EndsInv, [Next]_vars, NEW j \in Active', build'[j] = "said"
    PROVE  \/ build[j] = "said" /\ j \in Active /\ log'[j] = log[j]
           \/ Broadcast(j, "end")
<1>0. j \in Jobs /\ Types
  BY DEF Active, EndsInv
<1>a. /\ status \in [Jobs -> Statuses] /\ build \in [Jobs -> {"no", "going", "said"}]
      /\ log \in [Jobs -> Logs]
  BY <1>0, TypesAre DEF Types, LogsOK
<1>b. ASSUME build[j] = "said" PROVE j \in Active
  <2>1. status[j] \notin {"none", "queued"} /\ Moves(j)
    BY <1>0, <1>b, NextMoves DEF EndsInv, Builds
  <2> QED
    BY <1>0, <2>1 DEF Moves, Active, Past
<1>1. CASE CalmStep
  BY <1>0, <1>b, <1>1 DEF CalmStep, CalmJobs
<1>2. ASSUME NEW p \in Procs, NEW i \in Jobs, NEW outcome \in Outcomes, FinishStep(p, i, outcome)
      PROVE  build[j] = "said" /\ j \in Active /\ log'[j] = log[j]
  <2>1. build[j] = "said"
    BY <1>0, <1>2 DEF FinishStep
  <2>2. i # j
    BY <1>0, <1>2, FinishEffect, <1>a DEF StatusOf, Active
  <2>3. log'[j] = log[j]
    BY <1>0, <1>2, <2>2, FinishEnds DEF FinishStep
  <2> QED
    BY <1>b, <2>1, <2>3
<1>3. ASSUME UNCHANGED <<log, build>> PROVE build[j] = "said" /\ j \in Active /\ log'[j] = log[j]
  BY <1>b, <1>3
<1>4. ASSUME NEW p \in Procs, Land(p) \/ Tell(p) PROVE build[j] = "said" /\ j \in Active /\ log'[j] = log[j]
  BY <1>3, <1>4 DEF Land, Tell, memory
<1>5. ASSUME NEW i \in Jobs, Emit(i)
      PROVE  (build[j] = "said" /\ j \in Active /\ log'[j] = log[j]) \/ Broadcast(j, "end")
  <2>1. CASE i = j
    BY <1>0, <1>a, <1>5, <2>1 DEF Emit
  <2>2. CASE i # j
    <3>1. build'[j] = build[j] /\ log'[j] = log[j]
      BY <1>0, <1>a, <1>5, <2>2 DEF Emit, Broadcast
    <3> QED
      BY <1>b, <3>1
  <2> QED
    BY <2>1, <2>2
<1>6. ASSUME NEW i \in Jobs, Ping(i) PROVE build[j] = "said" /\ j \in Active /\ log'[j] = log[j]
  BY <1>3, <1>6 DEF Ping, memory
<1>7. ASSUME NEW s \in Streams, Read(s) \/ Hangup(s) PROVE build[j] = "said" /\ j \in Active /\ log'[j] = log[j]
  BY <1>3, <1>7 DEF Read, Hangup, memory
<1>8. CASE Evict
  BY <1>0, <1>8 DEF Evict
<1> QED
  BY <1>0, <1>1, <1>2, <1>4, <1>5, <1>6, <1>7, <1>8, StepKinds

LEMMA WatchStep ==
    ASSUME "throws" \notin Events
    PROVE  EndsInv /\ WatchInv /\ [Next]_vars => WatchInv'
<1> SUFFICES ASSUME EndsInv, WatchInv, [Next]_vars PROVE WatchInv'
  OBVIOUS
<1>0. Types /\ SeenEnds
  BY DEF EndsInv, WatchInv
<1>a. /\ LogsOK(log) /\ stream \in [Streams -> Conns] /\ status \in [Jobs -> Statuses]
      /\ at \in [Procs -> Places] /\ ending \in [Procs -> Endings]
  BY <1>0, TypesAre DEF Types
<1>1. SeenEnds'
  BY <1>0, SeenStep
<1>2. ASSUME NEW j \in Active', build'[j] = "said" PROVE SaidEnd(j)'
  <2>0. j \in Jobs
    BY DEF Active
  <2>1. CASE build[j] = "said" /\ j \in Active /\ log'[j] = log[j]
    <3>1. SaidEnd(j)
      BY <2>1 DEF WatchInv
    <3>2. ASSUME NEW s \in Streams, stream'[s].job = j PROVE stream'[s].end
      <4>1. CASE Follows(s)
        BY <2>0, <3>1, <3>2, <4>1 DEF Follows, SaidEnd, Jobs
      <4>2. ASSUME NEW i \in Jobs, stream'[s] = Replay(i) PROVE stream'[s].end
        BY <3>1, <3>2, <4>2 DEF Replay, SaidEnd, LogEnds
      <4> QED
        BY <1>0, <4>1, <4>2, StreamStep
    <3> QED
      BY <2>1, <3>1, <3>2 DEF SaidEnd
  <2>2. CASE Broadcast(j, "end")
    <3>1. log'[j] = Recorded(j, "end") /\ stream' = Sent(j, "end")
      BY <1>a, <2>0, <2>2 DEF Broadcast, LogsOK
    <3>2. LogEnds(log'[j])
      BY <1>a, <2>0, <3>1, RecordedEnd
    <3>3. ASSUME NEW s \in Streams, stream'[s].job = j PROVE stream'[s].end
      <4>1. j # 0
        BY <2>0 DEF Jobs
      <4> QED
        BY <1>a, <3>1, <3>3, <4>1, SentFollows
    <3> QED
      BY <3>2, <3>3 DEF SaidEnd
  <2> QED
    BY <1>2, <2>1, <2>2, SaidStep
<1>3. ASSUME NEW p \in Procs, at'[p] = "landing", NEW s \in Streams, stream'[s].job = ending'[p].job
      PROVE  stream'[s].end
  <2>1. CASE at[p] = "landing" /\ ending'[p] = ending[p]
    <3>1. ending[p].job \in Jobs /\ status'[ending[p].job] \in Past
      BY <1>0, <2>1, PastStays DEF EndsInv, Overs, Types, Named
    <3>2. ASSUME NEW j \in Jobs, j \in Active', stream'[s] = Replay(j) PROVE FALSE
      BY <1>3, <2>1, <3>1, <3>2 DEF Replay, Active, Past
    <3>3. Follows(s)
      BY <1>0, <3>2, StreamStep
    <3> QED
      BY <1>3, <2>1, <3>1, <3>3 DEF Follows, WatchInv, Jobs
  <2>2. ASSUME NEW j \in Jobs, NEW outcome \in Outcomes, FinishStep(p, j, outcome)
        PROVE  stream'[s].end
    <3>0. stream'[s].job = j /\ j # 0
      BY <1>0, <1>3, <2>2, FinishEffect DEF Jobs
    <3>1. CASE outcome \in Reasons
      BY <1>0, <1>a, <2>2, <3>0, <3>1, FinishEffect, SentFollows
    <3>2. CASE outcome \notin Reasons
      <4>1. build[j] = "said" /\ j \in Active /\ stream' = stream
        BY <1>0, <2>2, <3>2, FinishEffect DEF FinishStep, MayFinish
      <4> QED
        BY <3>0, <4>1 DEF WatchInv, SaidEnd
    <3> QED
      BY <3>1, <3>2
  <2>3. ~Evict
    BY <1>3 DEF Evict
  <2>4. ~Land(p)
    BY <1>3, <1>a DEF Land
  <2>5. ~Tell(p)
    <3>1. ending[p].then \in {"reply", "swept", "run"}
      BY <1>a DEF Endings
    <3> QED
      BY <1>3, <1>a, <3>1, OnwardsPlaces DEF Tell, Resume
  <2> QED
    BY <1>0, <1>3, <2>1, <2>2, <2>3, <2>4, <2>5, ProcStep DEF Ends
<1>4. ASSUME NEW p \in Procs, at'[p] = "telling", ending'[p].watched PROVE ending'[p].job \in seen'
  <2>0. seen \subseteq seen'
    BY <1>0, StreamStep
  <2>1. CASE at'[p] = at[p] /\ ending'[p] = ending[p]
    BY <1>4, <2>0, <2>1 DEF WatchInv, WatchedSawTheEnd
  <2>2. CASE Land(p)
    <3>1. /\ ending'[p].job = ending[p].job /\ ending'[p].watched = CaughtUp(ending[p].job)
          /\ at[p] = "landing" /\ ending[p].job \in Jobs
      BY <1>0, <1>a, <2>2 DEF Land, Endings, Types, Named
    <3>2. PICK s \in Streams : stream[s].job = ending[p].job /\ 1 - stream[s].unread > 0
      BY <1>4, <3>1 DEF CaughtUp, Listening
    <3>3. stream[s].unread = 0
      BY <1>a, <3>2 DEF Conns
    <3>4. stream[s].end /\ stream[s].job # 0
      BY <3>1, <3>2 DEF WatchInv, Jobs
    <3> QED
      BY <1>0, <2>0, <3>1, <3>2, <3>3, <3>4 DEF SeenEnds
  <2>3. ~\E j \in Jobs, outcome \in Outcomes : FinishStep(p, j, outcome)
    BY <1>0, <1>4, FinishEffect
  <2>4. ~Evict
    BY <1>4 DEF Evict
  <2>5. ~Tell(p)
    <3>1. ending[p].then \in {"reply", "swept", "run"}
      BY <1>a DEF Endings
    <3> QED
      BY <1>4, <1>a, <3>1, OnwardsPlaces DEF Tell, Resume
  <2> QED
    BY <1>0, <1>4, <2>1, <2>2, <2>3, <2>4, <2>5, ProcStep DEF Ends
<1> QED
  BY <1>1, <1>2, <1>3, <1>4 DEF WatchInv, WatchedSawTheEnd

LEMMA InitWatch == Init => WatchInv
  BY DEF Init, WatchInv, SeenEnds, Active, WatchedSawTheEnd, NoStream

\* Where builds do not throw, a client that counts as watching has read how the build
\* ended: nobody is left untold because of a client that saw only an older event.
THEOREM WatchersSawTheEnd ==
    ASSUME "throws" \notin Events
    PROVE  Spec => []WatchedSawTheEnd
<1>1. EndsInv /\ WatchInv /\ [Next]_vars => EndsInv' /\ WatchInv'
  BY WatchStep, NextEnds
<1>2. WatchInv => WatchedSawTheEnd
  BY DEF WatchInv
<1> QED
  BY <1>1, <1>2, InitEnds, InitWatch, PTL DEF Spec

-----------------------------------------------------------------------------
(* Who is told of the end of a job.                                        *)

\* Nobody is told of a job before its end is over, and one handler ends it, as the job's
\* row says.
OnceInv ==
    /\ \A j \in Jobs : status[j] \in {"none", "queued", "running"} => told[j] = 0
    /\ \A p \in Procs : at[p] \in Ends =>
          /\ told[ending[p].job] = 0
          /\ status[ending[p].job] \in {StatusOf(ending[p].outcome), "pruned"}
    /\ \A p, q \in Procs : p # q /\ at[p] \in Ends /\ at[q] \in Ends => ending[p].job # ending[q].job

\* Only Tell tells, and only an eviction is counted.
LEMMA ToldStep ==
    ASSUME Types, [Next]_vars
    PROVE  /\ told' = told \/ \E p \in Procs : Tell(p)
           /\ crashes' = crashes \/ crashes' # 0
           /\ crashes' = 0 => ~Evict
<1>0. crashes \in Nat
  BY BuildJobsAssumption, TypesAre DEF Types
<1>1. CASE CalmStep
  BY <1>0, <1>1 DEF CalmStep, Evict
<1>2. ASSUME NEW p \in Procs, NEW j \in Jobs, NEW outcome \in Outcomes, FinishStep(p, j, outcome)
      PROVE  told' = told /\ crashes' = crashes
  BY <1>2 DEF FinishStep
<1>3. ASSUME NEW p \in Procs, Land(p) PROVE told' = told /\ crashes' = crashes
  BY <1>3 DEF Land, history
<1>4. ASSUME NEW p \in Procs, Tell(p) PROVE crashes' = crashes
  BY <1>4 DEF Tell
<1>5. ASSUME NEW j \in Jobs, Emit(j) \/ Ping(j) PROVE told' = told /\ crashes' = crashes
  BY <1>5 DEF Emit, Ping, history
<1>6. ASSUME NEW s \in Streams, Read(s) \/ Hangup(s) PROVE told' = told /\ crashes' = crashes
  BY <1>6 DEF Read, Hangup, history
<1>7. Evict => told' = told /\ crashes' = crashes + 1
  BY DEF Evict, history
<1> QED
  BY <1>0, <1>1, <1>2, <1>3, <1>4, <1>5, <1>6, <1>7, StepKinds

\* After a handler has told, the job is not being ended any more, or was not its own.
LEMMA TellEffect ==
    ASSUME Types, NEW p \in Procs, Tell(p)
    PROVE  /\ at[p] = "telling" /\ at'[p] \notin Ends /\ ending[p].job \in Jobs
           /\ \A q \in Procs \ {p} : at'[q] = at[q] /\ ending'[q] = ending[q]
           /\ \A j \in Jobs \ {ending[p].job} : told'[j] = told[j]
           /\ Tells(ending[p]) /\ "tellFails" \notin Events => told'[ending[p].job] = told[ending[p].job] + 1
           /\ UNCHANGED <<status, seen>>
<1>a. /\ at \in [Procs -> Places] /\ ending \in [Procs -> Endings] /\ told \in [Jobs -> Nat]
  BY TypesAre DEF Types
<1>1. at[p] = "telling" /\ ending[p].job \in Jobs
  BY DEF Tell, Types, Named
<1>2. ending[p].then \in {"reply", "swept", "run"}
  BY <1>a DEF Endings
<1>3. at'[p] \notin Ends /\ \A q \in Procs \ {p} : at'[q] = at[q] /\ ending'[q] = ending[q]
  BY <1>a, <1>2, OnwardsPlaces DEF Tell, Resume, Ends
<1>4. CASE told' = told /\ "tellFails" \in Events
  BY <1>1, <1>3, <1>4 DEF Tell
<1>5. CASE told' = [told EXCEPT ![ending[p].job] = IF Tells(ending[p]) THEN @ + 1 ELSE @]
  BY <1>a, <1>1, <1>3, <1>5 DEF Tell
<1> QED
  BY <1>4, <1>5 DEF Tell

LEMMA OnceStep == EndsInv /\ OnceInv /\ [Next]_vars => OnceInv'
<1> SUFFICES ASSUME EndsInv, OnceInv, [Next]_vars PROVE OnceInv'
  OBVIOUS
<1>0. Types /\ Types'
  BY NextTypes, NextNames DEF EndsInv, Types
<1>a. /\ status \in [Jobs -> Statuses] /\ at \in [Procs -> Places] /\ ending \in [Procs -> Endings]
      /\ told \in [Jobs -> Nat]
  BY <1>0, TypesAre DEF Types
\* Of which jobs the user may be told in this step.
<1>b. ASSUME NEW j \in Jobs, told'[j] # told[j]
      PROVE  \E p \in Procs : Tell(p) /\ ending[p].job = j
  BY <1>0, <1>b, ToldStep, TellEffect
<1>c. \A p \in Procs : at[p] \in Ends => ending[p].job \in Jobs /\ status[ending[p].job] \in Past
  BY <1>0 DEF EndsInv, Overs, Types, Named, Ends
<1>1. ASSUME NEW j \in Jobs, status'[j] \in {"none", "queued", "running"} PROVE told'[j] = 0
  <2>1. status[j] \in {"none", "queued", "running"}
    BY <1>0, <1>1, PastStays, <1>a DEF Past, Statuses
  <2>2. told'[j] = told[j]
    BY <1>b, <1>c, <2>1, <1>0, TellEffect DEF Ends, Past
  <2> QED
    BY <2>1, <2>2 DEF OnceInv
\* Which handlers are ending a job after this step.
<1>2. ASSUME NEW p \in Procs, at'[p] \in Ends
      PROVE  \/ /\ at[p] \in Ends /\ ending'[p].job = ending[p].job /\ ending'[p].outcome = ending[p].outcome
             \/ /\ \E j \in Active, outcome \in Outcomes : FinishStep(p, j, outcome) /\ ending'[p].job = j
  <2>1. ~Evict
    BY <1>2 DEF Evict, Ends
  <2>2. ~Tell(p)
    BY <1>0, <1>2, TellEffect
  <2>3. CASE Land(p)
    BY <1>a, <2>3 DEF Land, Ends, Endings
  <2>4. ASSUME NEW j \in Jobs, NEW outcome \in Outcomes, FinishStep(p, j, outcome)
        PROVE  j \in Active /\ ending'[p].job = j
    BY <1>0, <2>4, FinishEffect DEF FinishStep, MayFinish
  <2> QED
    BY <1>0, <1>2, <2>1, <2>2, <2>3, <2>4, ProcStep
<1>3. ASSUME NEW p \in Procs, at'[p] \in Ends
      PROVE  /\ told'[ending'[p].job] = 0
             /\ status'[ending'[p].job] \in {StatusOf(ending'[p].outcome), "pruned"}
  <2>1. CASE at[p] \in Ends /\ ending'[p].job = ending[p].job /\ ending'[p].outcome = ending[p].outcome
    <3>1. told[ending[p].job] = 0 /\ ending[p].job \in Jobs
      BY <1>c, <2>1 DEF OnceInv
    <3>2. ASSUME NEW q \in Procs, Tell(q), ending[q].job = ending[p].job PROVE FALSE
      <4>1. q # p /\ at[q] \in Ends
        BY <1>0, <1>3, <3>2, TellEffect DEF Ends
      <4> QED
        BY <2>1, <3>2, <4>1 DEF OnceInv
    <3>3. told'[ending'[p].job] = 0
      BY <1>b, <2>1, <3>1, <3>2
    <3>4. Moves(ending[p].job)
      BY <1>0, <3>1, NextMoves
    <3>5. status'[ending[p].job] \in {status[ending[p].job], "pruned"}
      BY <1>c, <2>1, <3>4 DEF Moves, Active, Past
    <3>6. status[ending[p].job] \in {StatusOf(ending[p].outcome), "pruned"}
      BY <2>1 DEF OnceInv
    <3> QED
      BY <2>1, <3>3, <3>5, <3>6
  <2>2. ASSUME NEW j \in Active, NEW outcome \in Outcomes, FinishStep(p, j, outcome)
        PROVE  /\ told'[ending'[p].job] = 0
               /\ status'[ending'[p].job] \in {StatusOf(ending'[p].outcome), "pruned"}
    <3>1. j \in Jobs /\ told' = told /\ told[j] = 0
      BY <2>2 DEF FinishStep, Active, OnceInv
    <3>2. ending'[p].job = j /\ ending'[p].outcome = outcome /\ status'[j] = StatusOf(outcome)
      BY <1>0, <1>a, <2>2, <3>1, FinishEffect
    <3> QED
      BY <3>1, <3>2
  <2> QED
    BY <1>2, <1>3, <2>1, <2>2
<1>4. ASSUME NEW p \in Procs, NEW q \in Procs, p # q, at'[p] \in Ends, at'[q] \in Ends
      PROVE  ending'[p].job # ending'[q].job
  <2>1. ASSUME NEW r \in Procs, NEW t \in Procs, r # t, at'[t] \in Ends,
               NEW j \in Active, NEW outcome \in Outcomes, FinishStep(r, j, outcome), ending'[r].job = j
        PROVE  ending'[t].job # j
    <3>1. j \in Jobs
      BY DEF Active
    <3>2. at[t] \in Ends /\ ending'[t].job = ending[t].job
      BY <1>0, <2>1, <3>1, FinishEffect
    <3> QED
      BY <1>c, <3>2 DEF Past, Active
  <2> QED
    BY <1>2, <1>4, <2>1 DEF OnceInv
<1> QED
  BY <1>1, <1>3, <1>4 DEF OnceInv

LEMMA TellStep ==
    ASSUME "throws" \notin Events, "tellFails" \notin Events
    PROVE  EndsInv /\ WatchInv /\ OnceInv /\ UnwatchedIsToldAlive /\ [Next]_vars
             => UnwatchedIsToldAlive'
<1> SUFFICES ASSUME EndsInv, WatchInv, OnceInv, UnwatchedIsToldAlive, [Next]_vars
             PROVE  UnwatchedIsToldAlive'
  OBVIOUS
<1>0. Types /\ Types'
  BY NextTypes, NextNames DEF EndsInv, Types
<1>a. /\ status \in [Jobs -> Statuses] /\ at \in [Procs -> Places] /\ ending \in [Procs -> Endings]
      /\ told \in [Jobs -> Nat]
  BY <1>0, TypesAre DEF Types
<1>b. ASSUME NEW j \in Jobs, told'[j] # told[j]
      PROVE  \E p \in Procs : Tell(p) /\ ending[p].job = j
  BY <1>0, <1>b, ToldStep, TellEffect
<1>5. ASSUME crashes' = 0, NEW j \in Ended', status'[j] # "cancelled", ~BeingEnded(j)'
      PROVE  told'[j] = 1 \/ j \in seen'
  <2>0. j \in Jobs /\ crashes = 0 /\ ~Evict /\ seen \subseteq seen'
    BY <1>0, <1>5, ToldStep, StreamStep DEF Ended, WatchInv
  <2>1. \A p \in Procs : at'[p] \in Ends => ending'[p].job # j
    BY <1>5 DEF BeingEnded, Ends
  <2>2. j \notin Active
    <3>1. SUFFICES ASSUME j \in Active PROVE FALSE
      OBVIOUS
    <3>2. j \notin Active'
      BY <1>5 DEF Ended, Active
    <3>3. PICK p \in Procs, outcome \in Outcomes : FinishStep(p, j, outcome)
      BY <1>0, <3>1, <3>2, ActiveStep
    <3> QED
      BY <1>0, <2>0, <2>1, <3>3, FinishEffect
  <2>3. j \in Ended /\ status[j] # "cancelled"
    <3>1. Moves(j)
      BY <1>0, <2>0, NextMoves
    <3> QED
      BY <1>5, <2>0, <2>2, <3>1 DEF Moves, Ended
  <2>4. CASE ~BeingEnded(j)
    <3>1. told[j] = 1 \/ j \in seen
      BY <2>0, <2>3, <2>4 DEF UnwatchedIsToldAlive, UnwatchedIsTold
    <3>2. told'[j] = told[j]
      BY <1>0, <1>b, <2>0, <2>4, TellEffect DEF BeingEnded
    <3> QED
      BY <2>0, <3>1, <3>2
  <2>5. CASE BeingEnded(j)
    <3>1. PICK p \in Procs : at[p] \in Ends /\ ending[p].job = j
      BY <2>5 DEF BeingEnded, Ends
    <3>2. Tell(p)
      <4>1. ~Land(p)
        BY <1>a, <2>1, <3>1 DEF Land, Ends, Endings
      <4> QED
        BY <1>0, <2>0, <2>1, <3>1, <4>1, ProcStep DEF FinishStep
    <3>3. ending[p].outcome # "cancelled"
      BY <2>3, <3>1 DEF OnceInv, Ended, StatusOf
    <3>4. CASE ending[p].watched
      BY <1>0, <2>0, <3>1, <3>2, <3>4, TellEffect DEF WatchInv, WatchedSawTheEnd
    <3>5. CASE ~ending[p].watched
      BY <1>0, <3>1, <3>2, <3>3, <3>5, TellEffect DEF Tells, OnceInv
    <3> QED
      BY <3>4, <3>5
  <2> QED
    BY <2>4, <2>5
<1> QED
  BY <1>5 DEF UnwatchedIsToldAlive, UnwatchedIsTold

LEMMA InitTold == Init => OnceInv /\ UnwatchedIsToldAlive
  BY DEF Init, OnceInv, Ends, UnwatchedIsToldAlive, UnwatchedIsTold, Ended

\* Where builds do not throw and the follow-up does not fail, a job that ended with
\* nobody attached has told its user, once, unless an eviction cut its end off.
THEOREM UnwatchedAreTold ==
    ASSUME "throws" \notin Events, "tellFails" \notin Events
    PROVE  Spec => []UnwatchedIsToldAlive
<1> DEFINE Inv == EndsInv /\ WatchInv /\ OnceInv /\ UnwatchedIsToldAlive
<1>1. Inv /\ [Next]_vars => Inv'
  BY TellStep, OnceStep, WatchStep, NextEnds
<1>2. Init => Inv
  BY InitEnds, InitWatch, InitTold
<1> QED
  BY <1>1, <1>2, PTL DEF Spec

-----------------------------------------------------------------------------
(* The object implements OneBuild.                                         *)

SameBuild == UNCHANGED <<status, log, told>>
BuildStep == SameBuild \/ Build!Next

\* A finish ends the build, or finds it ended.
LEMMA FinishIsAnEnd ==
    ASSUME Types, NEW p \in Procs, NEW j \in Jobs, NEW outcome \in Outcomes,
           NEW then \in {"reply", "swept", "run"}, Finish(p, j, outcome, then),
           outcome = "ok" /\ MayFinish(j) => status[j] = "running", UNCHANGED told
    PROVE  BuildStep
<1>a. log \in [Jobs -> Logs] /\ status \in [Jobs -> Statuses]
  BY TypesAre DEF Types, LogsOK
<1>1. CASE ~MayFinish(j)
  BY <1>1 DEF Finish, BuildStep, SameBuild
<1>2. CASE MayFinish(j)
  <2>1. status' = [status EXCEPT ![j] = StatusOf(outcome)]
    BY <1>2 DEF Finish
  <2>2. log' = log \/ \E l : log' = [log EXCEPT ![j] = l]
    BY <1>2 DEF Finish, Broadcast
  <2>3. Build!RecordsOnly(j)
    BY <1>a, <2>2 DEF Build!RecordsOnly
  <2>4. j \in Build!Underway
    BY <1>2 DEF MayFinish, Active, Build!Underway
  <2>5. Build!End(j)
    BY <1>2, <2>1, <2>3, <2>4 DEF Build!End, StatusOf
  <2> QED
    BY <2>5 DEF BuildStep, Build!Next
<1> QED
  BY <1>1, <1>2

\* A sweep, a timeout and a cancel never publish.
LEMMA SweepIsAnEnd ==
    ASSUME Types, NEW p \in Procs, Sweep(p)
    PROVE  BuildStep
<1>1. CASE \E j \in Active : Finish(p, j, "interrupted", "swept")
  <2>1. PICK j \in Active : Finish(p, j, "interrupted", "swept")
    BY <1>1
  <2>2. j \in Jobs /\ "interrupted" \in Outcomes /\ UNCHANGED told
    BY DEF Active, Outcomes, Sweep, history
  <2> QED
    BY <2>1, <2>2, FinishIsAnEnd
<1>2. CASE UNCHANGED <<status, log>>
  BY <1>2 DEF Sweep, history, BuildStep, SameBuild
<1> QED
  BY <1>1, <1>2 DEF Sweep

LEMMA CancelIsAnEnd ==
    ASSUME Types, NEW h \in Handlers, OpCancel(h)
    PROVE  BuildStep
<1>1. PICK j \in Active : Finish(h, j, "cancelled", "reply")
  BY DEF OpCancel
<1>2. j \in Jobs /\ h \in Procs /\ "cancelled" \in Outcomes /\ UNCHANGED told
  BY DEF Active, Outcomes, OpCancel, history, Procs
<1> QED
  BY <1>1, <1>2, FinishIsAnEnd

\* A build that says how it ended has begun.
LEMMA RaceIsAnEnd ==
    ASSUME EndsInv, RaceBuild \/ RaceTimeout
    PROVE  BuildStep
<1> DEFINE j == ending[Alarm].job
<1>0. Types /\ Alarm \in Procs /\ j \in Jobs /\ UNCHANGED told
  BY DEF EndsInv, Types, Named, Procs, RaceBuild, RaceTimeout, history
<1>1. PICK outcome \in Outcomes : /\ Finish(Alarm, j, outcome, "run")
                                  /\ outcome = "ok" => build[j] = "said"
  BY DEF RaceBuild, RaceTimeout, Outcomes
<1>2. outcome = "ok" /\ MayFinish(j) => status[j] = "running"
  BY <1>0, <1>1 DEF EndsInv, Builds, MayFinish, Active
<1> HIDE DEF j
<1> QED
  BY <1>0, <1>1, <1>2, FinishIsAnEnd

LEMMA StartIsAStart ==
    ASSUME Types, NEW h \in Handlers, NEW k, NEW s, StartNew(h, k, s)
    PROVE  BuildStep
<1>1. PICK j \in Jobs :
          /\ status[j] = "none"
          /\ status' = [i \in Jobs |-> IF i = j THEN "queued"
                                       ELSE IF i \in Pruned THEN "pruned" ELSE status[i]]
          /\ log' = [i \in Jobs |-> IF i \in Pruned THEN <<>> ELSE log[i]]
  BY DEF StartNew
<1>2. Active = {}
  BY StartMoves DEF StartsOne
<1>3. Build!Underway = {} /\ Pruned \in SUBSET Build!Over /\ UNCHANGED told
  BY <1>2 DEF Build!Underway, Build!Over, Active, Ended, Pruned, StartNew, history
<1>4. Build!Start(j)
  BY <1>1, <1>3 DEF Build!Start
<1> QED
  BY <1>4 DEF BuildStep, Build!Next

LEMMA EmitIsARecord ==
    ASSUME EndsInv, NEW j \in Jobs, Emit(j)
    PROVE  BuildStep
<1>0. UNCHANGED <<status, told>>
  BY DEF Emit, history
<1>1. CASE j \in settled
  BY <1>0, <1>1 DEF Emit, BuildStep, SameBuild
<1>2. CASE j \notin settled
  <2>1. j \in Build!Underway
    BY <1>2 DEF Emit, EndsInv, Builds, Active, Build!Underway
  <2>2. log \in [Jobs -> Logs] /\ \E l : log' = [log EXCEPT ![j] = l]
    BY <1>2, TypesAre DEF Emit, Broadcast, EndsInv, Types, LogsOK
  <2>3. Build!RecordsOnly(j)
    BY <2>2 DEF Build!RecordsOnly
  <2>4. Build!Record(j)
    BY <1>0, <2>1, <2>3 DEF Build!Record
  <2> QED
    BY <2>4 DEF BuildStep, Build!Next
<1> QED
  BY <1>1, <1>2

LEMMA TellIsATell ==
    ASSUME EndsInv, OnceInv, NEW p \in Procs, Tell(p)
    PROVE  BuildStep
<1> DEFINE e == ending[p]
<1>0. /\ at[p] = "telling" /\ e.job \in Jobs /\ e.outcome \in Outcomes
      /\ UNCHANGED <<status, log>> /\ told \in [Jobs -> Nat]
  BY TypesAre DEF Tell, EndsInv, Types, Named, Endings
<1>1. CASE told' = told
  BY <1>0, <1>1 DEF BuildStep, SameBuild
<1>2. CASE told' # told
  <2>1. Tells(e) /\ told' = [told EXCEPT ![e.job] = @ + 1]
    BY <1>0, <1>2 DEF Tell
  <2>2. e.outcome # "cancelled"
    BY <2>1 DEF Tells
  <2>3. told[e.job] = 0 /\ status[e.job] \in {StatusOf(e.outcome), "pruned"}
    BY <1>0 DEF OnceInv, Ends
  <2>4. StatusOf(e.outcome) \in {"published", "failed"}
    BY <2>2 DEF StatusOf
  <2>5. told' = [told EXCEPT ![e.job] = 1]
    BY <1>0, <2>1, <2>3
  <2>6. Build!Tell(e.job)
    BY <1>0, <2>3, <2>4, <2>5 DEF Build!Tell
  <2> QED
    BY <1>0, <2>6 DEF BuildStep, Build!Next
<1> QED
  BY <1>1, <1>2

LEMMA RunIsABegin ==
    ASSUME RunOldest
    PROVE  BuildStep
<1>1. PICK j \in Queued : status' = [status EXCEPT ![j] = "running"]
  BY DEF RunOldest
<1>2. j \in Jobs /\ Build!Begin(j)
  BY <1>1 DEF RunOldest, Queued, Build!Begin, history
<1> QED
  BY <1>2 DEF BuildStep, Build!Next

LEMMA NextBuilds ==
    ASSUME EndsInv, OnceInv, [Next]_vars
    PROVE  BuildStep
<1>0. Types /\ Alarm \in Procs /\ Handlers \subseteq Procs
  BY DEF EndsInv, Procs
<1>1. CASE (\E h \in Handlers : BeginFetch(h)) \/ BeginAlarm
  BY <1>0, <1>1, SweepIsAnEnd DEF BeginFetch, BeginAlarm
<1>2. ASSUME NEW h \in Handlers, FetchOp(h) PROVE BuildStep
  <2>1. CASE OpCancel(h)
    BY <1>0, <2>1, CancelIsAnEnd
  <2>2. ASSUME NEW k, NEW s, StartNew(h, k, s) PROVE BuildStep
    BY <1>0, <2>2, StartIsAStart
  <2>3. ASSUME NEW k, NEW s, StartSame(h, k, s) \/ OpAttach(h, s) PROVE BuildStep
    BY <2>3 DEF StartSame, OpAttach, OnlyReplies, history, BuildStep, SameBuild
  <2>4. CASE OpOther(h)
    BY <2>4 DEF OpOther, OnlyReplies, history, BuildStep, SameBuild
  <2> QED
    BY <1>2, <2>1, <2>2, <2>3, <2>4 DEF FetchOp
<1>3. ASSUME NEW p \in Procs, SweepDone(p) \/ Land(p) PROVE BuildStep
  BY <1>3 DEF SweepDone, Land, history, BuildStep, SameBuild
<1>4. CASE NothingToRun \/ RaceStopped \/ AlarmTail
  BY <1>4 DEF NothingToRun, RaceStopped, AlarmTail, history, BuildStep, SameBuild
<1>5. ASSUME NEW p \in Procs, Proceed(p) PROVE BuildStep
  BY <1>2, <1>3, <1>4, <1>5, RunIsABegin, RaceIsAnEnd, TellIsATell DEF Proceed
<1>6. ASSUME NEW j \in Jobs, Emit(j) \/ Ping(j) \/ Age(j) PROVE BuildStep
  <2>1. CASE Emit(j)
    BY <2>1, EmitIsARecord
  <2>2. CASE Ping(j) \/ Age(j)
    BY <2>2 DEF Ping, Age, history, BuildStep, SameBuild
  <2> QED
    BY <1>6, <2>1, <2>2
<1>7. ASSUME NEW s \in Streams, Read(s) \/ Hangup(s) PROVE BuildStep
  BY <1>7 DEF Read, Hangup, history, BuildStep, SameBuild
<1>8. CASE Evict
  BY <1>8 DEF Evict, history, BuildStep, SameBuild
<1>9. CASE UNCHANGED vars
  BY <1>9 DEF vars, history, BuildStep, SameBuild
<1> QED
  BY <1>1, <1>5, <1>6, <1>7, <1>8, <1>9 DEF Next

\* However starts, cancels, sweeps, timeouts, ends and evictions interleave (do.ts, fetch,
\* alarm, finish; runners.ts, buildJobEnded), the user has one build at a time, it ends
\* once, and is told of at most once, under every event of the environment.
THEOREM Refinement == Spec => ImplementsOneBuild
<1>1. Init => Build!Init
  BY DEF Init, Build!Init
<1>2. EndsInv /\ OnceInv /\ [Next]_vars => [Build!Next]_<<status, log, told>>
  BY NextBuilds DEF BuildStep, SameBuild
<1>3. Init => EndsInv /\ OnceInv
  BY InitEnds, InitTold
<1>4. EndsInv /\ OnceInv /\ [Next]_vars => EndsInv' /\ OnceInv'
  BY NextEnds, OnceStep
<1> QED
  BY <1>1, <1>2, <1>3, <1>4, PTL DEF Spec, ImplementsOneBuild, Build!Spec
=============================================================================
