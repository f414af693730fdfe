------------------------- MODULE ScheduledJobsProofs -------------------------
(***************************************************************************)
(* Proofs about ScheduledJobs, for all jobs, ticks, schedules, retry       *)
(* settings and limits.                                                    *)
(***************************************************************************)
EXTENDS ScheduledJobs, TLAPS

-----------------------------------------------------------------------------
(* Types.                                                                  *)

\* What the types of rows and invocations leave out.
RowOK(r) == (r.there => r.every \in Periods) /\ r.next >= -MaxPast
TickOK(k) ==
    /\ k.at \in {"run", "notify"} <=> k.job # None
    /\ k.at = "run" => (k.job \in TestJobs => k.tests < MaxTests)
    /\ k.age <= MaxStay /\ k.next >= -MaxPast /\ (k.at = "idle" => k = Idle)
    /\ \A j \in Jobs : RowOK(k.snap[j])

TypeInv ==
    /\ TypeOK
    /\ \A j \in Jobs : RowOK(row[j]) /\ claimed[j] >= -MaxPast - 1
    /\ \A t \in Ticks : TickOK(tick[t])

LEMMA GoneType == Gone \in RowType /\ RowOK(Gone)
  BY ScheduledJobsAssumption DEF Gone, RowType, RowOK

LEMMA IdleType == Idle \in TickType /\ TickOK(Idle)
<1>1. /\ Idle.at = "idle" /\ Idle.age = 0 /\ Idle.tests = 0 /\ Idle.job = None /\ Idle.next = 0
      /\ Idle.snap = [j \in Jobs |-> Gone]
  BY DEF Idle
<1>2. Idle \in TickType
  BY GoneType, ScheduledJobsAssumption DEF Idle, TickType
<1>3. \A j \in Jobs : RowOK(Idle.snap[j])
  BY <1>1, GoneType
<1> QED
  <2>1. Idle.age <= MaxStay /\ Idle.next >= -MaxPast
    BY <1>1, ScheduledJobsAssumption
  <2>2. Idle.at \notin {"run", "notify"}
    BY <1>1
  <2> QED
    BY <1>1, <1>2, <1>3, <2>1, <2>2 DEF TickOK

\* What a tick holds once it is done with a job.
LEMMA WithoutType ==
  ASSUME NEW t \in Ticks, NEW j \in Jobs, TypeInv
  PROVE  LET k == Without(t, j) IN
         /\ k \in TickType /\ TickOK(k)
         /\ k.at = "loop" /\ k.job = None /\ k.age = tick[t].age /\ k.tests = tick[t].tests /\ k.next = 0
         /\ k.snap = [tick[t].snap EXCEPT ![j] = Gone]
<1> DEFINE s == [tick[t].snap EXCEPT ![j] = Gone]
<1>1. /\ tick[t].age \in Nat /\ tick[t].tests \in 0 .. MaxTests /\ tick[t].snap \in [Jobs -> RowType]
      /\ tick[t].age <= MaxStay /\ \A i \in Jobs : RowOK(tick[t].snap[i])
  <2>1. tick[t] \in TickType /\ TickOK(tick[t])
    BY DEF TypeInv, TypeOK
  <2> QED
    BY <2>1 DEF TickType, TickOK
<1>2. s \in [Jobs -> RowType] /\ \A i \in Jobs : RowOK(s[i])
  BY <1>1, GoneType
<1>3. Without(t, j) = [at |-> "loop", age |-> tick[t].age, snap |-> s,
                       tests |-> tick[t].tests, job |-> None, next |-> 0]
  BY DEF Without, Looping
<1> HIDE DEF s
<1>4. Without(t, j) \in TickType
  BY <1>1, <1>2, <1>3 DEF TickType
<1>5. TickOK(Without(t, j))
  BY <1>1, <1>2, <1>3, ScheduledJobsAssumption DEF TickOK
<1> QED
  BY <1>3, <1>4, <1>5 DEF s

LEMMA AgoType ==
  ASSUME NEW n \in Int, NEW b \in Nat, n >= -b
  PROVE  Ago(n, b) \in Int /\ Ago(n, b) >= -b /\ Ago(n, b) <= n
  BY DEF Ago

LEMMA OlderType ==
  ASSUME NEW r \in RowType, RowOK(r)
  PROVE  /\ Older(r) \in RowType /\ RowOK(Older(r))
         /\ r.there => Older(r).next = Ago(r.next, MaxPast)
         /\ (Older(r).there <=> r.there) /\ Older(r).last = r.last /\ Older(r).retries = r.retries
<1>1. CASE ~r.there
  BY <1>1 DEF Older
<1>2. CASE r.there
  <2>1. PICK o \in BOOLEAN, e \in Periods \cup {0}, n \in Int,
             l \in {"none", "success", "failed"}, c \in 0 .. 10 :
          r = [there |-> TRUE, on |-> o, every |-> e, next |-> n, last |-> l, retries |-> c]
    BY <1>2 DEF RowType
  <2>2. Older(r) = [there |-> TRUE, on |-> o, every |-> e, next |-> Ago(n, MaxPast), last |-> l, retries |-> c]
    BY <2>1 DEF Older
  <2>3. n >= -MaxPast /\ e \in Periods
    BY <2>1 DEF RowOK
  <2>4. Ago(n, MaxPast) \in Int /\ Ago(n, MaxPast) >= -MaxPast
    BY <2>3, AgoType, ScheduledJobsAssumption
  <2>5. Older(r) \in RowType
    BY <2>2, <2>4 DEF RowType
  <2>6. RowOK(Older(r))
    BY <2>2, <2>3, <2>4 DEF RowOK
  <2>7. Older(r).next = Ago(r.next, MaxPast)
    BY <2>1, <2>2
  <2>8. Older(r).last = r.last /\ Older(r).retries = r.retries
    BY <2>1, <2>2
  <2>9. Older(r).there <=> r.there
    BY <1>2, <2>2
  <2> QED
    BY <2>5, <2>6, <2>7, <2>8, <2>9
<1> QED
  BY <1>1, <1>2

LEMMA NextRunType ==
  ASSUME hour \in Nat, NEW e \in Periods
  PROVE  NextRun(e) \in Int /\ NextRun(e) >= 1
<1>1. e \in Nat /\ e > 0
  BY ScheduledJobsAssumption
<1>2. hour % e \in 0 .. e - 1
  BY <1>1
<1> QED
  BY <1>1, <1>2 DEF NextRun

LEMMA DelayType ==
  ASSUME NEW j \in Jobs, NEW r \in 0 .. 10, r < MaxAttempts[j] - 1
  PROVE  Delay(j, r) \in Int /\ Delay(j, r) >= 1
<1>1. InitialDelay[j] \in Nat /\ InitialDelay[j] >= 1 /\ r \in 0 .. 8
  BY ScheduledJobsAssumption
<1>2. Power[r + 1] \in Nat /\ Power[r + 1] >= 1
  BY <1>1 DEF Power
<1>3. ASSUME NEW a \in Nat, NEW b \in Nat, a >= 1, b >= 1 PROVE a * b \in Nat /\ a * b >= 1
  BY <1>3
<1>4. InitialDelay[j] * (r + 1) \in Nat /\ InitialDelay[j] * (r + 1) >= 1
  BY <1>1, <1>3
<1>5. InitialDelay[j] * Power[r + 1] \in Nat /\ InitialDelay[j] * Power[r + 1] >= 1
  BY <1>1, <1>2, <1>3
<1> QED
  BY <1>1, <1>4, <1>5 DEF Delay


-----------------------------------------------------------------------------
(* What each action does, field by field, and that it keeps the types.     *)

LEMMA TickSet ==
  ASSUME TypeInv, NEW t \in Ticks, NEW k \in TickType, TickOK(k), tick' = [tick EXCEPT ![t] = k]
  PROVE  /\ tick' \in [Ticks -> TickType] /\ \A s \in Ticks : TickOK(tick'[s])
         /\ tick'[t] = k /\ \A s \in Ticks \ {t} : tick'[s] = tick[s]
  BY DEF TypeInv, TypeOK

LEMMA RowSet ==
  ASSUME TypeInv, NEW j \in Jobs, NEW r \in RowType, RowOK(r), row' = [row EXCEPT ![j] = r]
  PROVE  /\ row' \in [Jobs -> RowType] /\ \A i \in Jobs : RowOK(row'[i])
         /\ row'[j] = r /\ \A i \in Jobs \ {j} : row'[i] = row[i]
  BY DEF TypeInv, TypeOK

LEMMA TickFields ==
  ASSUME TypeInv, NEW t \in Ticks
  PROVE  /\ tick[t] \in TickType
         /\ tick[t].at \in {"idle", "loop", "run", "notify"} /\ tick[t].age \in Nat /\ tick[t].age <= MaxStay
         /\ tick[t].snap \in [Jobs -> RowType] /\ \A i \in Jobs : RowOK(tick[t].snap[i])
         /\ tick[t].tests \in 0 .. MaxTests /\ tick[t].job \in Jobs \cup {None} /\ tick[t].next \in Int /\ tick[t].next >= -MaxPast
         /\ tick[t].at \in {"run", "notify"} <=> tick[t].job # None
         /\ tick[t].at = "run" => (tick[t].job \in TestJobs => tick[t].tests < MaxTests)
         /\ tick[t].at = "idle" => tick[t] = Idle
<1>1. tick[t] \in TickType /\ TickOK(tick[t])
  BY DEF TypeInv, TypeOK
<1> QED
  BY <1>1 DEF TickType, TickOK

LEMMA RowFields ==
  ASSUME NEW r \in RowType, RowOK(r)
  PROVE  /\ r.there \in BOOLEAN /\ r.on \in BOOLEAN /\ r.every \in Periods \cup {0} /\ r.next \in Int
         /\ r.next >= -MaxPast /\ r.last \in {"none", "success", "failed"} /\ r.retries \in 0 .. 10
         /\ r.there => r.every \in Periods
  BY DEF RowType, RowOK

LEMMA Rows ==
  ASSUME TypeInv, NEW j \in Jobs
  PROVE  row[j] \in RowType /\ RowOK(row[j]) /\ claimed[j] \in Int /\ claimed[j] >= -MaxPast - 1
  BY DEF TypeInv, TypeOK

LEMMA StartEffect ==
  ASSUME TypeInv, NEW t \in Ticks, Start(t)
  PROVE  /\ TypeInv'
         /\ tick'[t].age = 0 /\ tick'[t].job = None /\ tick'[t].at = "loop"
         /\ \A j \in Jobs : tick'[t].snap[j].there =>
              /\ tick'[t].snap[j] = row[j] /\ row[j].next <= 0
              /\ \A s \in Ticks : tick[s].at = "run" /\ tick[s].job = j => j \in crossed'
         /\ \A s \in Ticks \ {t} : tick'[s] = tick[s]
         /\ tick[t].at = "idle" /\ row' = row /\ claimed' = claimed /\ crossed \subseteq crossed'
         /\ told' = told /\ silent' = silent
<1>1. PICK S \in SUBSET Jobs :
        /\ OldestFirst(S)
        /\ tick' = [tick EXCEPT ![t] = Looping(0, [j \in Jobs |-> IF j \in S THEN row[j] ELSE Gone], 0)]
        /\ crossed' = crossed \cup {j \in S : \E s \in Ticks : tick[s].at = "run" /\ tick[s].job = j}
  BY DEF Start
<1> DEFINE sn == [j \in Jobs |-> IF j \in S THEN row[j] ELSE Gone]
<1>2. sn \in [Jobs -> RowType] /\ \A j \in Jobs : RowOK(sn[j])
  BY GoneType DEF TypeInv, TypeOK
<1>3. \A j \in Jobs : sn[j].there => j \in S /\ sn[j] = row[j] /\ row[j].next <= 0
  BY <1>1 DEF OldestFirst, Due, Gone
<1> DEFINE k == Looping(0, sn, 0)
<1>4. tick' = [tick EXCEPT ![t] = k]
  BY <1>1
<1> HIDE DEF sn
<1>5. k.at = "loop" /\ k.age = 0 /\ k.snap = sn /\ k.job = None
  BY DEF Looping
<1>6. k \in TickType /\ TickOK(k)
  BY <1>2, ScheduledJobsAssumption DEF Looping, TickType, TickOK
<1> HIDE DEF k
<1>7. /\ tick' \in [Ticks -> TickType] /\ \A s \in Ticks : TickOK(tick'[s])
      /\ tick'[t] = k /\ \A s \in Ticks \ {t} : tick'[s] = tick[s]
  BY <1>4, <1>6, TickSet
<1>8. TypeInv'
  BY <1>1, <1>7 DEF Start, TypeInv, TypeOK
<1>9. \A j \in S : \A s \in Ticks : tick[s].at = "run" /\ tick[s].job = j => j \in crossed'
  BY <1>1
<1> QED
  BY <1>1, <1>3, <1>5, <1>7, <1>8, <1>9 DEF Start

\* The two actions that leave a job and touch nothing else, and the ends of a tick.
LEMMA DeferEffect ==
  ASSUME TypeInv, NEW t \in Ticks, Defer(t)
  PROVE  /\ TypeInv'
         /\ \E j \in Jobs : tick'[t].snap = [tick[t].snap EXCEPT ![j] = Gone]
         /\ tick'[t].age = tick[t].age /\ tick'[t].job = None /\ tick'[t].at = "loop"
         /\ tick[t].at = "loop" /\ tick[t].job = None
         /\ \A s \in Ticks \ {t} : tick'[s] = tick[s]
         /\ row' = row /\ claimed' = claimed /\ crossed' = crossed /\ told' = told /\ silent' = silent
<1>1. PICK j \in Jobs : IsNext(t, j) /\ tick' = [tick EXCEPT ![t] = Without(t, j)]
  BY ScheduledJobsAssumption DEF Defer
<1>2. /\ tick' \in [Ticks -> TickType] /\ \A s \in Ticks : TickOK(tick'[s])
      /\ tick'[t] = Without(t, j) /\ \A s \in Ticks \ {t} : tick'[s] = tick[s]
  BY <1>1, WithoutType, TickSet
<1>3. TypeInv'
  BY <1>2 DEF Defer, history, TypeInv, TypeOK
<1>4. tick[t].at = "loop" /\ tick[t].job = None
  BY <1>1, TickFields DEF IsNext
<1> QED
  BY <1>1, <1>2, <1>3, <1>4, WithoutType DEF Defer, history

LEMMA NotifyEffect ==
  ASSUME TypeInv, NEW t \in Ticks, Notify(t)
  PROVE  /\ TypeInv'
         /\ tick'[t].snap = [tick[t].snap EXCEPT ![tick[t].job] = Gone]
         /\ tick'[t].age = tick[t].age /\ tick'[t].job = None /\ tick'[t].at = "loop"
         /\ tick[t].at = "notify" /\ tick[t].job \in Jobs
         /\ \A s \in Ticks \ {t} : tick'[s] = tick[s]
         /\ row' = row /\ claimed' = claimed /\ crossed' = crossed
         /\ told \subseteq told' /\ silent \subseteq silent'
         /\ row[tick[t].job].last = "failed" => tick[t].job \in told' \cup silent'
<1>1. tick[t].at = "notify" /\ tick[t].job \in Jobs
  BY TickFields DEF Notify
<1>2. /\ tick' \in [Ticks -> TickType] /\ \A s \in Ticks : TickOK(tick'[s])
      /\ tick'[t] = Without(t, tick[t].job) /\ \A s \in Ticks \ {t} : tick'[s] = tick[s]
  BY <1>1, WithoutType, TickSet DEF Notify
<1> DEFINE failing == {j \in {tick[t].job} : row[j].last = "failed"}
<1>3. PICK sent \in Sent : /\ told' = IF sent THEN told \cup failing ELSE told
                         /\ silent' = IF sent THEN silent ELSE silent \cup failing
  BY DEF Notify
<1>3a. told' \subseteq Jobs /\ silent' \subseteq Jobs
  BY <1>1, <1>3 DEF TypeInv, TypeOK
<1>3b. /\ told \subseteq told' /\ silent \subseteq silent'
       /\ row[tick[t].job].last = "failed" => tick[t].job \in told' \cup silent'
  BY <1>3
<1>4. TypeInv'
  BY <1>2, <1>3a DEF Notify, TypeInv, TypeOK
<1> QED
  BY <1>1, <1>2, <1>3b, <1>4, WithoutType DEF Notify

LEMMA EndEffect ==
  ASSUME TypeInv, NEW t \in Ticks, End(t) \/ Cut(t)
  PROVE  /\ TypeInv'
         /\ tick'[t] = Idle
         /\ \A s \in Ticks \ {t} : tick'[s] = tick[s]
         /\ row' = row /\ claimed' = claimed /\ crossed' = crossed /\ told' = told
         /\ silent \subseteq silent'
         /\ tick[t].at = "notify" => tick[t].job \in silent'
<1>1. tick' = [tick EXCEPT ![t] = Idle]
  BY DEF End, Cut
<1>2. /\ tick' \in [Ticks -> TickType] /\ \A s \in Ticks : TickOK(tick'[s])
      /\ tick'[t] = Idle /\ \A s \in Ticks \ {t} : tick'[s] = tick[s]
  BY <1>1, IdleType, TickSet
<1>3. CASE End(t)
  <2>1. TypeInv'
    BY <1>2, <1>3 DEF End, history, TypeInv, TypeOK
  <2> QED
    BY <1>2, <1>3, <2>1 DEF End, history
<1>4. CASE Cut(t)
  <2>1. tick[t].at = "notify" => tick[t].job \in Jobs
    BY TickFields
  <2>2. silent' \subseteq Jobs
    BY <1>4, <2>1 DEF Cut, TypeInv, TypeOK
  <2>3. cuts' \in Nat
    BY <1>4 DEF Cut, TypeInv, TypeOK
  <2>4. TypeInv'
    BY <1>2, <1>4, <2>2, <2>3 DEF Cut, TypeInv, TypeOK
  <2> QED
    BY <1>2, <1>4, <2>4 DEF Cut
<1> QED
  BY <1>3, <1>4

\* A claim that finds the row where it was selected, and one that does not.
Claims(t, j) ==
    /\ tick'[t].at = "run" /\ tick'[t].job = j /\ tick'[t].snap = tick[t].snap
    /\ row[j].there /\ row[j].next = tick[t].snap[j].next
    /\ row'[j].next >= 1 /\ row'[j].retries = row[j].retries /\ row'[j].last = row[j].last
    /\ tick'[t].next >= 1
    /\ \A i \in Jobs \ {j} : row'[i] = row[i] /\ claimed'[i] = claimed[i]
    /\ claimed'[j] = tick[t].snap[j].next
Misses(t, j) ==
    /\ tick'[t].at = "loop" /\ tick'[t].job = None
    /\ tick'[t].snap = [tick[t].snap EXCEPT ![j] = Gone] /\ row' = row /\ claimed' = claimed

LEMMA ClaimEffect ==
  ASSUME TypeInv, NEW t \in Ticks, Claim(t)
  PROVE  /\ TypeInv'
         /\ \E j \in Jobs : tick[t].snap[j].there /\ (Claims(t, j) \/ Misses(t, j))
         /\ tick'[t].age = tick[t].age /\ tick[t].at = "loop" /\ tick[t].job = None
         /\ \A s \in Ticks \ {t} : tick'[s] = tick[s]
         /\ crossed' = crossed /\ told' = told /\ silent' = silent
<1>1. PICK j \in Jobs :
        /\ IsNext(t, j) /\ MayRun(t, j)
        /\ IF Unmoved(t, j)
           THEN LET next == NextRun(tick[t].snap[j].every)
                IN  /\ row' = [row EXCEPT ![j].next = next]
                    /\ tick' = [tick EXCEPT ![t] = [@ EXCEPT !.at = "run", !.job = j, !.next = next]]
                    /\ claimed' = [claimed EXCEPT ![j] = tick[t].snap[j].next]
           ELSE /\ tick' = [tick EXCEPT ![t] = Without(t, j)]
                /\ UNCHANGED <<row, claimed>>
  BY DEF Claim
<1>2. tick[t].at = "loop" /\ tick[t].job = None /\ tick[t].snap[j].there /\ tick[t].tests \in 0 .. MaxTests
  BY <1>1, TickFields DEF IsNext, Todo
<1>3. j \in TestJobs => tick[t].tests < MaxTests
  BY <1>1 DEF MayRun
<1>4. /\ scene' = scene /\ hour' = hour /\ fired' = fired /\ manual' = manual /\ cuts' = cuts
      /\ crossed' = crossed /\ told' = told /\ silent' = silent
  BY DEF Claim
<1>5. CASE ~Unmoved(t, j)
  <2>1. tick' = [tick EXCEPT ![t] = Without(t, j)] /\ row' = row /\ claimed' = claimed
    BY <1>1, <1>5
  <2>2. /\ tick' \in [Ticks -> TickType] /\ \A s \in Ticks : TickOK(tick'[s])
        /\ tick'[t] = Without(t, j) /\ \A s \in Ticks \ {t} : tick'[s] = tick[s]
    BY <2>1, WithoutType, TickSet
  <2>3. TypeInv'
    BY <1>4, <2>1, <2>2 DEF TypeInv, TypeOK
  <2>4. Misses(t, j)
    BY <2>1, <2>2, WithoutType DEF Misses
  <2>5. tick'[t].age = tick[t].age
    BY <2>2, WithoutType
  <2> QED
    BY <1>2, <1>4, <2>2, <2>3, <2>4, <2>5
<1>6. CASE Unmoved(t, j)
  <2> DEFINE next == NextRun(tick[t].snap[j].every)
  <2>1. /\ row' = [row EXCEPT ![j].next = next]
        /\ tick' = [tick EXCEPT ![t] = [@ EXCEPT !.at = "run", !.job = j, !.next = next]]
        /\ claimed' = [claimed EXCEPT ![j] = tick[t].snap[j].next]
    BY <1>1, <1>6
  <2>2. row[j].there /\ row[j].next = tick[t].snap[j].next
    BY <1>6 DEF Unmoved
  <2>3. tick[t].snap \in [Jobs -> RowType] /\ (\A i \in Jobs : RowOK(tick[t].snap[i]))
    BY TickFields
  <2>4. /\ tick[t].snap[j].every \in Periods
        /\ tick[t].snap[j].next \in Int /\ tick[t].snap[j].next >= -MaxPast - 1
    <3>1. tick[t].snap[j] \in RowType /\ RowOK(tick[t].snap[j])
      BY <2>3
    <3>2. MaxPast \in Nat
      BY ScheduledJobsAssumption
    <3> QED
      BY <1>2, <3>1, <3>2, RowFields
  <2>5. next \in Int /\ next >= 1
    BY <2>4, NextRunType DEF TypeInv, TypeOK
  <2> HIDE DEF next
  <2> DEFINE k == [tick[t] EXCEPT !.at = "run", !.job = j, !.next = next]
             r == [row[j] EXCEPT !.next = next]
  <2>6. /\ k \in TickType /\ k.at = "run" /\ k.job = j /\ k.next = next /\ k.snap = tick[t].snap
        /\ k.age = tick[t].age /\ k.tests = tick[t].tests
    BY <2>5, TickFields DEF TickType
  <2>7. TickOK(k)
    <3>1. tick[t].age <= MaxStay /\ None \notin Jobs /\ next >= -MaxPast
      BY <2>5, TickFields, ScheduledJobsAssumption
    <3> HIDE DEF k
    <3> QED
      BY <1>3, <2>3, <2>6, <3>1 DEF TickOK
  <2>8. /\ r \in RowType /\ r.next = next /\ r.retries = row[j].retries /\ r.last = row[j].last
        /\ (r.there <=> row[j].there) /\ r.every = row[j].every
    BY <2>5, Rows DEF RowType
  <2>9. RowOK(r)
    <3>1. MaxPast \in Nat /\ RowOK(row[j])
      BY ScheduledJobsAssumption, Rows
    <3> HIDE DEF r
    <3> QED
      BY <2>5, <2>8, <3>1 DEF RowOK
  <2>10. tick' = [tick EXCEPT ![t] = k] /\ row' = [row EXCEPT ![j] = r]
    BY <2>1
  <2> HIDE DEF k, r
  <2>11. /\ tick' \in [Ticks -> TickType] /\ \A s \in Ticks : TickOK(tick'[s])
         /\ tick'[t] = k /\ \A s \in Ticks \ {t} : tick'[s] = tick[s]
    BY <2>6, <2>7, <2>10, TickSet
  <2>12. /\ row' \in [Jobs -> RowType] /\ \A i \in Jobs : RowOK(row'[i])
         /\ row'[j] = r /\ \A i \in Jobs \ {j} : row'[i] = row[i]
    BY <2>8, <2>9, <2>10, RowSet
  <2>13. /\ claimed' \in [Jobs -> Int] /\ claimed'[j] = tick[t].snap[j].next
         /\ (\A i \in Jobs \ {j} : claimed'[i] = claimed[i]) /\ (\A i \in Jobs : claimed'[i] >= -MaxPast - 1)
    BY <2>1, <2>4 DEF TypeInv, TypeOK
  <2>14. TypeInv'
    BY <1>4, <2>11, <2>12, <2>13 DEF TypeInv, TypeOK
  <2>15. Claims(t, j)
    BY <2>2, <2>5, <2>6, <2>8, <2>11, <2>12, <2>13 DEF Claims
  <2> QED
    BY <1>2, <1>4, <2>6, <2>11, <2>14, <2>15
<1> QED
  BY <1>5, <1>6

\* What the batch writes for the job that a tick has run.
LEMMA StatusType ==
  ASSUME TypeInv, NEW t \in Ticks, tick[t].at = "run", NEW result \in Results,
         LET j == tick[t].job IN row[j].there
  PROVE  LET j == tick[t].job
             r == Status(t, j, result)
         IN  /\ j \in Jobs /\ r \in RowType /\ RowOK(r) /\ r.there
             /\ r.last = (IF result = "success" THEN "success" ELSE "failed")
             /\ r.next \in {row[j].next, tick[t].next} \/ r.next >= 1 - tick[t].age
             /\ \/ r.retries = 0
                \/ r.retries = row[j].retries
                \/ ShouldRetry(t, j) /\ r.retries = OneMore(row[j].retries)
<1> DEFINE j == tick[t].job
           q == row[j]
           x == tick[t].next
<1>1. j \in Jobs /\ tick[t].next \in Int /\ tick[t].age \in Nat /\ tick[t].age <= MaxStay
  BY TickFields
<1>2. PICK o \in BOOLEAN, e \in Periods \cup {0}, n \in Int,
           l \in {"none", "success", "failed"}, c \in 0 .. 10 :
        q = [there |-> TRUE, on |-> o, every |-> e, next |-> n, last |-> l, retries |-> c]
  <2>1. q \in RowType /\ q.there
    BY <1>1, Rows
  <2> HIDE DEF q
  <2> QED
    BY <2>1 DEF RowType
<1>3. e \in Periods /\ n >= -MaxPast
  <2>1. RowOK(q)
    BY <1>1, Rows
  <2> HIDE DEF q
  <2> QED
    BY <1>2, <2>1 DEF RowOK
<1> DEFINE r == Status(t, j, result)
           d == Delay(j, tick[t].snap[j].retries) - tick[t].age
<1>4. MaxPast \in Nat /\ MaxPast > MaxStay /\ tick[t].next >= -MaxPast
  BY TickFields, ScheduledJobsAssumption
<1>5. CASE result = "success"
  <2>0. r = [q EXCEPT !.last = "success", !.retries = 0, !.next = x]
    BY <1>5 DEF Status
  <2> HIDE DEF q, x, r
  <2>1. r = [there |-> TRUE, on |-> o, every |-> e, next |-> x, last |-> "success", retries |-> 0]
    BY <1>2, <2>0
  <2>2. r \in RowType
    BY <1>1, <2>1 DEF RowType, x
  <2>3. RowOK(r)
    BY <1>3, <1>4, <2>1 DEF RowOK, x
  <2> QED
    BY <1>1, <1>5, <2>1, <2>2, <2>3 DEF x, r
<1>6. CASE result = "revoked"
  <2>0. r = [q EXCEPT !.last = "failed", !.on = FALSE]
    BY <1>6 DEF Status
  <2> HIDE DEF q, x, r
  <2>1. r = [there |-> TRUE, on |-> FALSE, every |-> e, next |-> n, last |-> "failed", retries |-> c]
    BY <1>2, <2>0
  <2>2. r \in RowType
    BY <2>1 DEF RowType
  <2>3. RowOK(r)
    BY <1>3, <2>1 DEF RowOK
  <2>4. q.next = n /\ q.retries = c
    BY <1>2
  <2> QED
    BY <1>1, <1>6, <2>1, <2>2, <2>3, <2>4 DEF q, r
<1>7. CASE result = "failed" /\ ShouldRetry(t, j)
  <2>0. r = [q EXCEPT !.last = "failed", !.retries = OneMore(@), !.next = d]
    BY <1>7 DEF Status
  <2> HIDE DEF q, x, r
  <2>1. r = [there |-> TRUE, on |-> o, every |-> e, next |-> d, last |-> "failed", retries |-> OneMore(c)]
    BY <1>2, <2>0
  <2>2. d \in Int /\ d >= 1 - tick[t].age
    <3>1. tick[t].snap[j].retries \in 0 .. 10
      <4>1. tick[t].snap[j] \in RowType
        BY <1>1, TickFields
      <4> QED
        BY <4>1 DEF RowType
    <3>2. tick[t].snap[j].retries < MaxAttempts[j] - 1
      BY <1>7 DEF ShouldRetry
    <3>3. Delay(j, tick[t].snap[j].retries) \in Int /\ Delay(j, tick[t].snap[j].retries) >= 1
      BY <1>1, <3>1, <3>2, DelayType
    <3> QED
      BY <1>1, <3>3
  <2> HIDE DEF d
  <2>3. OneMore(c) \in 0 .. 10
    BY DEF OneMore
  <2>4. r \in RowType
    BY <2>1, <2>2, <2>3 DEF RowType
  <2>5. RowOK(r)
    <3>1. d >= -MaxPast
      BY <1>1, <1>4, <2>2, ScheduledJobsAssumption
    <3> QED
      BY <1>3, <2>1, <3>1 DEF RowOK
  <2>6. q.retries = c
    BY <1>2
  <2> QED
    BY <1>1, <1>7, <2>1, <2>2, <2>4, <2>5, <2>6 DEF q, r
<1>8. CASE result = "failed" /\ ~ShouldRetry(t, j)
  <2>0. r = [q EXCEPT !.last = "failed", !.retries = 0, !.next = x]
    BY <1>8 DEF Status
  <2> HIDE DEF q, x, r
  <2>1. r = [there |-> TRUE, on |-> o, every |-> e, next |-> x, last |-> "failed", retries |-> 0]
    BY <1>2, <2>0
  <2>2. r \in RowType
    BY <1>1, <2>1 DEF RowType, x
  <2>3. RowOK(r)
    BY <1>3, <1>4, <2>1 DEF RowOK, x
  <2> QED
    BY <1>1, <1>8, <2>1, <2>2, <2>3 DEF x, r
<1>9. result \in {"success", "failed", "revoked"}
  BY DEF Results
<1> QED
  BY <1>5, <1>6, <1>7, <1>8, <1>9

\* A write to a deleted job, and one that lands.
Breaks(t) ==
    /\ ~row[tick[t].job].there /\ tick'[t] = Idle
    /\ row' = row /\ told' = told /\ silent' = silent
Lands(t) ==
    LET j == tick[t].job IN
    /\ row[j].there /\ row'[j].there /\ \A i \in Jobs \ {j} : row'[i] = row[i]
    /\ row'[j].next \in {row[j].next, tick[t].next} \/ row'[j].next >= 1 - tick[t].age
    /\ \/ row'[j].retries = 0
       \/ row'[j].retries = row[j].retries
       \/ ShouldRetry(t, j) /\ row'[j].retries = OneMore(row[j].retries)
    /\ tick'[t].age = tick[t].age
    /\ \/ tick'[t].at = "notify" /\ tick'[t].job = j /\ tick'[t].snap = tick[t].snap
       \/ /\ tick'[t].at = "loop" /\ tick'[t].job = None
          /\ tick'[t].snap = [tick[t].snap EXCEPT ![j] = Gone]
    /\ \/ row'[j].last = "success" /\ told' = told \ {j} /\ silent' = silent \ {j}
       \/ /\ row'[j].last = "failed" /\ told' = told /\ silent \subseteq silent'
          /\ Tells(t, j) => tick'[t].at = "notify"
          /\ row[j].last # "failed" /\ ~Tells(t, j) => j \in silent'

LEMMA WriteEffect ==
  ASSUME TypeInv, NEW t \in Ticks, Write(t)
  PROVE  /\ TypeInv'
         /\ tick[t].at = "run" /\ tick[t].job \in Jobs
         /\ Breaks(t) \/ Lands(t)
         /\ \A s \in Ticks \ {t} : tick'[s] = tick[s]
         /\ claimed' = claimed /\ crossed' = crossed
<1> DEFINE j == tick[t].job
<1>1. tick[t].at = "run" /\ j \in Jobs
  BY TickFields DEF Write
<1>2. /\ scene' = scene /\ hour' = hour /\ fired' = fired /\ manual' = manual /\ cuts' = cuts
      /\ claimed' = claimed /\ crossed' = crossed
  BY DEF Write
<1>3. CASE ~row[j].there
  <2>1. tick' = [tick EXCEPT ![t] = Idle] /\ row' = row /\ told' = told /\ silent' = silent
    BY <1>3 DEF Write
  <2>2. /\ tick' \in [Ticks -> TickType] /\ \A s \in Ticks : TickOK(tick'[s])
        /\ tick'[t] = Idle /\ \A s \in Ticks \ {t} : tick'[s] = tick[s]
    BY <2>1, IdleType, TickSet
  <2>3. TypeInv'
    BY <1>2, <2>1, <2>2 DEF TypeInv, TypeOK
  <2>4. Breaks(t)
    BY <1>3, <2>1, <2>2 DEF Breaks
  <2> QED
    BY <1>1, <1>2, <2>2, <2>3, <2>4
<1>4. CASE row[j].there
  <2>1. PICK result \in Results :
          /\ row' = [row EXCEPT ![j] = Status(t, j, result)]
          /\ tick' = [tick EXCEPT ![t] =
               [(IF result # "success" /\ Tells(t, j) THEN [tick[t] EXCEPT !.at = "notify"] ELSE Without(t, j))
                  EXCEPT !.tests = IF j \in TestJobs THEN @ + 1 ELSE @]]
          /\ told' = IF result = "success" THEN told \ {j} ELSE told
          /\ silent' = IF result = "success" THEN silent \ {j}
                       ELSE IF row[j].last # "failed" /\ tick[t].snap[j].last = "failed"
                       THEN silent \cup {j} ELSE silent
    BY <1>4 DEF Write
  <2> DEFINE r == Status(t, j, result)
             b == IF result # "success" /\ Tells(t, j) THEN [tick[t] EXCEPT !.at = "notify"] ELSE Without(t, j)
             n == IF j \in TestJobs THEN b.tests + 1 ELSE b.tests
             k == [b EXCEPT !.tests = n]
  <2>2. /\ r \in RowType /\ RowOK(r) /\ r.there
        /\ r.last = (IF result = "success" THEN "success" ELSE "failed")
        /\ r.next \in {row[j].next, tick[t].next} \/ r.next >= 1 - tick[t].age
        /\ \/ r.retries = 0
           \/ r.retries = row[j].retries
           \/ ShouldRetry(t, j) /\ r.retries = OneMore(row[j].retries)
    BY <1>1, <1>4, StatusType
  <2>3. /\ b \in TickType /\ TickOK(b) /\ b.age = tick[t].age /\ b.tests = tick[t].tests
        /\ \/ b.at = "notify" /\ b.job = j /\ b.snap = tick[t].snap
           \/ /\ b.at = "loop" /\ b.job = None /\ b.snap = [tick[t].snap EXCEPT ![j] = Gone]
              /\ ~(result # "success" /\ Tells(t, j))
    <3>1. CASE ~(result # "success" /\ Tells(t, j))
      <4>1. b = Without(t, j)
        BY <3>1
      <4> HIDE DEF b
      <4> QED
        BY <1>1, <3>1, <4>1, WithoutType
    <3>2. CASE result # "success" /\ Tells(t, j)
      <4> DEFINE c == [tick[t] EXCEPT !.at = "notify"]
      <4>1. b = c
        BY <3>2
      <4> HIDE DEF b
      <4>2. /\ c \in TickType /\ c.at = "notify" /\ c.job = j /\ c.snap = tick[t].snap
            /\ c.age = tick[t].age /\ c.tests = tick[t].tests /\ c.next = tick[t].next
        BY TickFields DEF TickType
      <4>3. TickOK(tick[t])
        BY DEF TypeInv
      <4> HIDE DEF c
      <4>4. TickOK(c)
        BY <1>1, <4>2, <4>3 DEF TickOK
      <4> QED
        BY <4>1, <4>2, <4>4
    <3> QED
      BY <3>1, <3>2
  <2>4. tick' = [tick EXCEPT ![t] = k] /\ row' = [row EXCEPT ![j] = r]
    BY <2>1
  <2> HIDE DEF b
  <2>5. n \in 0 .. MaxTests
    <3>1. /\ tick[t].tests \in 0 .. MaxTests /\ (j \in TestJobs => tick[t].tests < MaxTests)
          /\ MaxTests \in Nat
      BY <1>1, TickFields, ScheduledJobsAssumption
    <3> QED
      BY <2>3, <3>1
  <2> HIDE DEF n
  <2>6. /\ k \in TickType /\ k.at = b.at /\ k.age = b.age /\ k.snap = b.snap /\ k.job = b.job
        /\ k.next = b.next /\ k.tests = n
    BY <2>3, <2>5 DEF TickType
  <2>7. TickOK(k)
    <3>1. b.at # "run" /\ b.at # "idle"
      BY <2>3
    <3> HIDE DEF k
    <3> QED
      BY <2>3, <2>6, <3>1 DEF TickOK
  <2> HIDE DEF k, r
  <2>8. /\ tick' \in [Ticks -> TickType] /\ \A s \in Ticks : TickOK(tick'[s])
        /\ tick'[t] = k /\ \A s \in Ticks \ {t} : tick'[s] = tick[s]
    BY <2>4, <2>6, <2>7, TickSet
  <2>9. /\ row' \in [Jobs -> RowType] /\ \A i \in Jobs : RowOK(row'[i])
        /\ row'[j] = r /\ \A i \in Jobs \ {j} : row'[i] = row[i]
    BY <1>1, <2>2, <2>4, RowSet
  <2>10. told' \subseteq Jobs /\ silent' \subseteq Jobs
    BY <1>1, <2>1 DEF TypeInv, TypeOK
  <2>11. TypeInv'
    BY <1>2, <2>8, <2>9, <2>10 DEF TypeInv, TypeOK
  <2>12. \/ row'[j].last = "success" /\ told' = told \ {j} /\ silent' = silent \ {j}
         \/ /\ row'[j].last = "failed" /\ told' = told /\ silent \subseteq silent'
            /\ Tells(t, j) => tick'[t].at = "notify"
            /\ row[j].last # "failed" /\ ~Tells(t, j) => j \in silent'
    <3>1. CASE result = "success"
      BY <2>1, <2>2, <2>9, <3>1
    <3>2. CASE result # "success"
      <4>1. Tells(t, j) => tick'[t].at = "notify"
        BY <2>3, <2>6, <2>8, <3>2
      <4>2. Tells(t, j) <=> tick[t].snap[j].last # "failed"
        BY DEF Tells
      <4> QED
        BY <2>1, <2>2, <2>9, <3>2, <4>1, <4>2
    <3> QED
      BY <3>1, <3>2
  <2>13. Lands(t)
    BY <1>4, <2>2, <2>3, <2>6, <2>8, <2>9, <2>12 DEF Lands
  <2> QED
    BY <1>1, <1>2, <2>8, <2>11, <2>13
<1> QED
  BY <1>3, <1>4

\* An hour passes for the rows and for what the ticks hold.
Ages(t) ==
    /\ tick'[t].at = tick[t].at /\ tick'[t].job = tick[t].job
    /\ tick[t].at = "idle" => tick'[t] = tick[t]
    /\ tick[t].at # "idle" =>
         /\ tick[t].age < MaxStay /\ tick'[t].age = tick[t].age + 1
         /\ tick[t].job # None => tick'[t].next = Ago(tick[t].next, MaxPast)
         /\ \A j \in Jobs : tick'[t].snap[j] = Older(tick[t].snap[j])

LEMMA HourEffect ==
  ASSUME TypeInv, Hour
  PROVE  /\ TypeInv'
         /\ \A t \in Ticks : Ages(t)
         /\ \A j \in Jobs : row'[j] = Older(row[j]) /\ claimed'[j] = Ago(claimed[j], MaxPast + 1)
         /\ crossed' = crossed /\ told' = told /\ silent' = silent
<1>1. row' \in [Jobs -> RowType] /\ \A j \in Jobs : RowOK(row'[j]) /\ row'[j] = Older(row[j])
  <2>1. \A j \in Jobs : Older(row[j]) \in RowType /\ RowOK(Older(row[j]))
    BY Rows, OlderType
  <2>2. row' = [j \in Jobs |-> Older(row[j])]
    BY DEF Hour
  <2> QED
    BY <2>1, <2>2
<1>2. claimed' \in [Jobs -> Int] /\ \A j \in Jobs : claimed'[j] = Ago(claimed[j], MaxPast + 1) /\ claimed'[j] >= -MaxPast - 1
  <2>1. MaxPast + 1 \in Nat
    BY ScheduledJobsAssumption
  <2>2. ASSUME NEW j \in Jobs
        PROVE  Ago(claimed[j], MaxPast + 1) \in Int /\ Ago(claimed[j], MaxPast + 1) >= -MaxPast - 1
    <3>1. claimed[j] \in Int /\ claimed[j] >= -(MaxPast + 1)
      BY <2>1, Rows, ScheduledJobsAssumption
    <3>2. Ago(claimed[j], MaxPast + 1) \in Int /\ Ago(claimed[j], MaxPast + 1) >= -(MaxPast + 1)
      BY <2>1, <3>1, AgoType
    <3> QED
      BY <3>2, ScheduledJobsAssumption
  <2>3. claimed' = [j \in Jobs |-> Ago(claimed[j], MaxPast + 1)]
    BY DEF Hour
  <2> QED
    BY <2>2, <2>3
<1>3. ASSUME NEW t \in Ticks
      PROVE  tick'[t] \in TickType /\ TickOK(tick'[t]) /\ Ages(t)
  <2>1. tick'[t] = IF tick[t].at = "idle" THEN tick[t]
                   ELSE [tick[t] EXCEPT !.age = @ + 1,
                           !.next = IF tick[t].job = None THEN 0 ELSE Ago(@, MaxPast),
                           !.snap = [j \in Jobs |-> Older(tick[t].snap[j])]]
    BY DEF Hour
  <2>2. CASE tick[t].at = "idle"
    <3>1. tick'[t] = tick[t]
      BY <2>1, <2>2
    <3>2. TickOK(tick[t])
      BY DEF TypeInv
    <3> QED
      BY <2>2, <3>1, <3>2, TickFields DEF Ages
  <2>3. CASE tick[t].at # "idle"
    <3> DEFINE g == tick[t].age + 1
               x == IF tick[t].job = None THEN 0 ELSE Ago(tick[t].next, MaxPast)
               sn == [j \in Jobs |-> Older(tick[t].snap[j])]
               k == [tick[t] EXCEPT !.age = g, !.next = x, !.snap = sn]
    <3>1. tick[t].age < MaxStay /\ g \in Nat /\ g <= MaxStay
      <4>1. tick[t].age < MaxStay
        BY <2>3 DEF Hour
      <4>2. tick[t].age \in Nat /\ MaxStay \in Nat
        BY TickFields, ScheduledJobsAssumption
      <4> QED
        BY <4>1, <4>2
    <3>2. x \in Int /\ x >= -MaxPast
      BY TickFields, AgoType, ScheduledJobsAssumption
    <3>3. sn \in [Jobs -> RowType] /\ \A j \in Jobs : RowOK(sn[j]) /\ sn[j] = Older(tick[t].snap[j])
      BY TickFields, OlderType
    <3>4. tick'[t] = k
      BY <2>1, <2>3
    <3>5. g = tick[t].age + 1 /\ (tick[t].job # None => x = Ago(tick[t].next, MaxPast))
      OBVIOUS
    <3> HIDE DEF g, x, sn
    <3>6. /\ k \in TickType /\ k.at = tick[t].at /\ k.job = tick[t].job /\ k.tests = tick[t].tests
          /\ k.age = g /\ k.next = x /\ k.snap = sn
      BY <3>1, <3>2, <3>3, TickFields DEF TickType
    <3> HIDE DEF k
    <3>7. TickOK(tick[t])
      BY DEF TypeInv
    <3>8. TickOK(k)
      BY <2>3, <3>1, <3>2, <3>3, <3>6, <3>7 DEF TickOK
    <3>9. Ages(t)
      BY <2>3, <3>1, <3>3, <3>4, <3>5, <3>6 DEF Ages
    <3> QED
      BY <3>4, <3>6, <3>8, <3>9
  <2> QED
    BY <2>2, <2>3
<1>4. tick' \in [Ticks -> TickType]
  <2>1. tick' = [t \in Ticks |-> tick'[t]]
    BY DEF Hour
  <2> QED
    BY <1>3, <2>1
<1>5. hour' \in Nat /\ fired' \in BOOLEAN
  <2>1. hour + 1 \in Nat /\ Cycle \in Nat \ {0}
    BY ScheduledJobsAssumption DEF TypeInv, TypeOK
  <2>2. (hour + 1) % Cycle \in Nat
    BY <2>1
  <2> QED
    BY <2>2 DEF Hour
<1>6. TypeInv'
  BY <1>1, <1>2, <1>3, <1>4, <1>5 DEF Hour, TypeInv, TypeOK
<1> QED
  BY <1>1, <1>2, <1>3, <1>6 DEF Hour

\* What a user or a run by hand leaves of a row.
Touched(i) ==
    /\ row'[i].there => row[i].there /\ (row'[i].next = row[i].next \/ row'[i].next >= 1)
    /\ row'[i].retries = row[i].retries \/ (~row'[i].there /\ row'[i].retries = 0)
    /\ row'[i].last = "failed" =>
         \/ i \in silent'
         \/ row[i].last = "failed" /\ (i \in told => i \in told') /\ (i \in silent => i \in silent')
User ==
    \/ \E j \in Jobs : Press(j) \/ DeleteJob(j) \/ (\E e \in Periods : Reschedule(j, e))
                         \/ (\E on \in BOOLEAN : Enable(j, on))
    \/ ManualDone

LEMMA UserEffect ==
  ASSUME TypeInv, User
  PROVE  /\ TypeInv'
         /\ \A i \in Jobs : Touched(i)
         /\ tick' = tick /\ claimed' = claimed /\ crossed' = crossed
<1>0. row \in [Jobs -> RowType] /\ told \subseteq Jobs /\ silent \subseteq Jobs
  BY DEF TypeInv, TypeOK
<1>1. ASSUME NEW j \in Jobs, Press(j)
      PROVE  TypeInv' /\ (\A i \in Jobs : Touched(i)) /\ tick' = tick /\ claimed' = claimed /\ crossed' = crossed
  BY <1>1 DEF Press, history, TypeInv, TypeOK, Touched
<1>2. ASSUME NEW j \in Jobs, NEW r \in RowType, RowOK(r), row' = [row EXCEPT ![j] = r],
             \/ r = Gone
             \/ row[j].there /\ r.retries = row[j].retries /\ (r.next = row[j].next \/ r.next >= 1),
             \/ r.last # "failed"
             \/ r.last = row[j].last /\ told' = told /\ silent' = silent
             \/ j \in silent'
             \/ row[j].last = "failed" /\ (j \in told => j \in told') /\ (j \in silent => j \in silent'),
             told' \subseteq Jobs, silent' \subseteq Jobs,
             \A i \in Jobs \ {j} : (i \in told => i \in told') /\ (i \in silent => i \in silent'),
             manual' \in Jobs \cup {None},
             UNCHANGED <<scene, hour, fired, tick, cuts, claimed, crossed>>
      PROVE  TypeInv' /\ (\A i \in Jobs : Touched(i)) /\ tick' = tick /\ claimed' = claimed /\ crossed' = crossed
  <2>1. /\ row' \in [Jobs -> RowType] /\ \A i \in Jobs : RowOK(row'[i])
        /\ row'[j] = r /\ \A i \in Jobs \ {j} : row'[i] = row[i]
    BY <1>2, RowSet
  <2>2. TypeInv'
    BY <1>2, <2>1 DEF TypeInv, TypeOK
  <2>3. \A i \in Jobs \ {j} : Touched(i)
    BY <1>2, <2>1 DEF Touched
  <2>4. Gone.there = FALSE /\ Gone.retries = 0
    BY DEF Gone
  <2>5. Touched(j)
    BY <1>2, <2>1, <2>4 DEF Touched
  <2> QED
    BY <1>2, <2>2, <2>3, <2>5
<1>3. ASSUME NEW j \in Jobs, DeleteJob(j)
      PROVE  TypeInv' /\ (\A i \in Jobs : Touched(i)) /\ tick' = tick /\ claimed' = claimed /\ crossed' = crossed
  <2>1. Gone.last # "failed"
    BY DEF Gone
  <2>2. manual' \in Jobs \cup {None}
    BY <1>3 DEF DeleteJob, TypeInv, TypeOK
  <2> QED
    BY <1>0, <1>2, <1>3, <2>1, <2>2, GoneType DEF DeleteJob
<1>4. ASSUME NEW j \in Jobs, NEW e \in Periods, Reschedule(j, e)
      PROVE  TypeInv' /\ (\A i \in Jobs : Touched(i)) /\ tick' = tick /\ claimed' = claimed /\ crossed' = crossed
  <2> DEFINE n == NextRun(e)
             r == [row[j] EXCEPT !.every = e, !.next = n]
  <2>1. n \in Int /\ n >= 1 /\ MaxPast \in Nat
    BY NextRunType, ScheduledJobsAssumption DEF TypeInv, TypeOK
  <2>2. row' = [row EXCEPT ![j] = r] /\ row[j].there /\ told' = told /\ silent' = silent /\ manual' = manual
    BY <1>4 DEF Reschedule, history
  <2> HIDE DEF n
  <2>3. r \in RowType /\ r.every = e /\ r.next = n /\ r.retries = row[j].retries /\ r.last = row[j].last
    BY <1>0, <2>1 DEF RowType
  <2> HIDE DEF r
  <2>4. RowOK(r)
    BY <2>1, <2>3 DEF RowOK
  <2>5. manual' \in Jobs \cup {None}
    BY <2>2 DEF TypeInv, TypeOK
  <2>6. UNCHANGED <<scene, hour, fired, tick, cuts, claimed, crossed>>
    BY <1>4 DEF Reschedule, history
  <2> QED
    BY <1>0, <1>2, <2>1, <2>2, <2>3, <2>4, <2>5, <2>6
<1>5. ASSUME NEW j \in Jobs, NEW on \in BOOLEAN, Enable(j, on)
      PROVE  TypeInv' /\ (\A i \in Jobs : Touched(i)) /\ tick' = tick /\ claimed' = claimed /\ crossed' = crossed
  <2> DEFINE r == [row[j] EXCEPT !.on = on]
  <2>1. row' = [row EXCEPT ![j] = r] /\ row[j].there /\ told' = told /\ silent' = silent /\ manual' = manual
    BY <1>5 DEF Enable, history
  <2>2. /\ r \in RowType /\ r.every = row[j].every /\ r.next = row[j].next
        /\ r.retries = row[j].retries /\ r.last = row[j].last
    BY <1>0 DEF RowType
  <2>3. RowOK(row[j])
    BY Rows
  <2> HIDE DEF r
  <2>4. RowOK(r)
    BY <2>1, <2>2, <2>3 DEF RowOK
  <2>5. manual' \in Jobs \cup {None}
    BY <2>1 DEF TypeInv, TypeOK
  <2>6. UNCHANGED <<scene, hour, fired, tick, cuts, claimed, crossed>>
    BY <1>5 DEF Enable, history
  <2> QED
    BY <1>0, <1>2, <2>1, <2>2, <2>4, <2>5, <2>6
<1>6. ASSUME ManualDone
      PROVE  TypeInv' /\ (\A i \in Jobs : Touched(i)) /\ tick' = tick /\ claimed' = claimed /\ crossed' = crossed
  <2>1. manual \in Jobs /\ manual' = None /\ UNCHANGED <<scene, hour, fired, tick, cuts, claimed, crossed>>
    BY <1>6 DEF ManualDone, TypeInv, TypeOK
  <2>2. CASE ~row[manual].there
    BY <1>6, <2>1, <2>2 DEF ManualDone, TypeInv, TypeOK, Touched
  <2>3. CASE row[manual].there
    <3>1. ASSUME NEW l \in {"success", "failed"}, row' = [row EXCEPT ![manual].last = l],
                 \/ l = "success" /\ told' = told \ {manual} /\ silent' = silent \ {manual}
                 \/ /\ told' = told
                    /\ silent' = IF row[manual].last # "failed" THEN silent \cup {manual} ELSE silent
          PROVE  TypeInv' /\ (\A i \in Jobs : Touched(i)) /\ tick' = tick /\ claimed' = claimed /\ crossed' = crossed
      <4> DEFINE r == [row[manual] EXCEPT !.last = l]
      <4>1. row' = [row EXCEPT ![manual] = r]
        BY <3>1
      <4>2. /\ r \in RowType /\ r.every = row[manual].every /\ r.next = row[manual].next
            /\ r.retries = row[manual].retries /\ r.last = l
        BY <1>0, <2>1 DEF RowType
      <4>3. RowOK(row[manual])
        BY <2>1, Rows
      <4> HIDE DEF r
      <4>4. RowOK(r)
        BY <2>3, <4>2, <4>3 DEF RowOK
      <4>5. told' \subseteq Jobs /\ silent' \subseteq Jobs
        BY <1>0, <2>1, <3>1
      <4>6. /\ r.last # "failed" \/ manual \in silent'
                 \/ (row[manual].last = "failed" /\ told' = told /\ silent' = silent)
            /\ \A i \in Jobs \ {manual} : (i \in told => i \in told') /\ (i \in silent => i \in silent')
        BY <3>1, <4>2
      <4> QED
        BY <1>2, <2>1, <2>3, <4>1, <4>2, <4>4, <4>5, <4>6
    <3> QED
      BY <1>6, <2>3, <3>1 DEF ManualDone
  <2> QED
    BY <2>2, <2>3
<1> QED
  BY <1>1, <1>3, <1>4, <1>5, <1>6 DEF User

LEMMA TypeInit == Init => TypeInv
<1> SUFFICES ASSUME Init PROVE TypeInv
  OBVIOUS
<1>1. PICK sc \in Scenes : scene = sc
  BY DEF Init
<1>2. \A j \in Jobs : scene.every[j] \in Periods \cup {0} /\ (scene.every[j] # 0 => scene.every[j] \in Nat)
  BY <1>1, ScheduledJobsAssumption
<1>3. ASSUME NEW j \in Jobs PROVE row[j] \in RowType /\ RowOK(row[j])
  <2>1. CASE scene.every[j] = 0
    BY <2>1, GoneType DEF Init
  <2>2. CASE scene.every[j] # 0
    <3> DEFINE e == scene.every[j]
    <3>1. row[j] = [Gone EXCEPT !.there = TRUE, !.on = TRUE, !.every = e, !.next = e]
      BY <2>2 DEF Init
    <3>2. e \in Periods /\ e \in Nat /\ MaxPast \in Nat
      BY <1>2, <2>2, ScheduledJobsAssumption
    <3> HIDE DEF e
    <3>3. row[j] = [there |-> TRUE, on |-> TRUE, every |-> e, next |-> e, last |-> "none", retries |-> 0]
      BY <3>1 DEF Gone
    <3>4. row[j] \in RowType
      BY <3>2, <3>3 DEF RowType
    <3>5. RowOK(row[j])
      BY <3>2, <3>3 DEF RowOK
    <3> QED
      BY <3>4, <3>5
  <2> QED
    BY <2>1, <2>2
<1>4. row = [j \in Jobs |-> row[j]]
  BY DEF Init
<1>5. tick \in [Ticks -> TickType] /\ \A t \in Ticks : TickOK(tick[t])
  BY IdleType DEF Init
<1>6. row \in [Jobs -> RowType]
  BY <1>3, <1>4
<1>7. claimed \in [Jobs -> Int] /\ \A j \in Jobs : claimed[j] >= -MaxPast - 1
  <2>1. MaxPast \in Nat
    BY ScheduledJobsAssumption
  <2>2. claimed = [j \in Jobs |-> -MaxPast - 1]
    BY DEF Init
  <2> QED
    BY <2>1, <2>2
<1> QED
  BY <1>3, <1>5, <1>6, <1>7 DEF Init, TypeInv, TypeOK

LEMMA NextCases ==
  ASSUME Next
  PROVE  \/ Hour \/ User
         \/ \E t \in Ticks : \/ Start(t) \/ Defer(t) \/ Claim(t) \/ Write(t) \/ Notify(t)
                             \/ End(t) \/ Cut(t)
  BY DEF Next, Step, User

LEMMA TypeStep == TypeInv /\ [Next]_vars => TypeInv'
<1> SUFFICES ASSUME TypeInv, [Next]_vars PROVE TypeInv'
  OBVIOUS
<1>1. CASE UNCHANGED vars
  BY <1>1 DEF vars, history, TypeInv, TypeOK
<1>2. CASE Next
  BY <1>2, NextCases, HourEffect, UserEffect, StartEffect, DeferEffect, ClaimEffect, WriteEffect,
     NotifyEffect, EndEffect
<1> QED
  BY <1>1, <1>2

\* Every variable has its type: the rows, and what the invocations hold; a tick runs no
\* more than MaxTests test jobs.
THEOREM TypeCorrect == Spec => []TypeOK
<1>1. TypeInv => TypeOK
  BY DEF TypeInv
<1> QED
  BY <1>1, TypeInit, TypeStep, PTL DEF Spec

-----------------------------------------------------------------------------
(* The owner of a job that fails.                                          *)

LEMMA FailingStep == TypeInv /\ FailingIsTold /\ [Next]_vars => FailingIsTold'
<1> SUFFICES ASSUME TypeInv, FailingIsTold, [Next]_vars, NEW j \in Jobs, row'[j].last = "failed"
             PROVE  j \in told' \/ j \in silent' \/ \E t \in Ticks : tick'[t].at = "notify" /\ tick'[t].job = j
  BY DEF FailingIsTold
<1>0. row[j].last = "failed" => j \in told \/ j \in silent \/ \E t \in Ticks : tick[t].at = "notify" /\ tick[t].job = j
  BY DEF FailingIsTold
<1>1. CASE UNCHANGED vars
  BY <1>0, <1>1 DEF vars, history
<1>2. CASE Hour
  <2>1. row[j].last = "failed"
    BY <1>2, HourEffect, OlderType, Rows
  <2> QED
    BY <1>0, <1>2, <2>1, HourEffect DEF Ages
<1>3. CASE User
  BY <1>0, <1>3, UserEffect DEF Touched
<1>4. ASSUME NEW t \in Ticks, Start(t) PROVE j \in told' \/ j \in silent' \/ \E s \in Ticks : tick'[s].at = "notify" /\ tick'[s].job = j
  BY <1>0, <1>4, StartEffect
<1>5. ASSUME NEW t \in Ticks, Defer(t) PROVE j \in told' \/ j \in silent' \/ \E s \in Ticks : tick'[s].at = "notify" /\ tick'[s].job = j
  BY <1>0, <1>5, DeferEffect
<1>6. ASSUME NEW t \in Ticks, Claim(t) PROVE j \in told' \/ j \in silent' \/ \E s \in Ticks : tick'[s].at = "notify" /\ tick'[s].job = j
  <2>1. row[j].last = "failed"
    BY <1>6, ClaimEffect DEF Claims, Misses
  <2> QED
    BY <1>0, <1>6, <2>1, ClaimEffect
<1>7. ASSUME NEW t \in Ticks, Write(t) PROVE j \in told' \/ j \in silent' \/ \E s \in Ticks : tick'[s].at = "notify" /\ tick'[s].job = j
  <2>1. CASE Breaks(t)
    BY <1>0, <1>7, <2>1, WriteEffect DEF Breaks
  <2>2. CASE Lands(t) /\ j # tick[t].job
    <3> DEFINE i == tick[t].job
    <3>1. row'[j] = row[j] /\ told \ {i} \subseteq told' /\ silent \ {i} \subseteq silent'
      BY <2>2 DEF Lands
    <3>2. \A s \in Ticks : tick[s].at = "notify" => tick'[s] = tick[s]
      BY <1>7, WriteEffect
    <3> QED
      BY <1>0, <2>2, <3>1, <3>2
  <2>3. CASE Lands(t) /\ j = tick[t].job
    <3>1. CASE row'[j].last = "failed" /\ Tells(t, j)
      BY <2>3, <3>1 DEF Lands
    <3>2. CASE ~Tells(t, j) /\ row[j].last # "failed"
      BY <2>3, <3>2 DEF Lands
    <3>3. CASE ~Tells(t, j) /\ row[j].last = "failed"
      <4>1. told' = told /\ silent \subseteq silent'
        BY <2>3 DEF Lands
      <4>2. \A s \in Ticks : tick[s].at = "notify" => tick'[s] = tick[s]
        BY <1>7, WriteEffect
      <4> QED
        BY <1>0, <3>3, <4>1, <4>2
    <3> QED
      BY <3>1, <3>2, <3>3
  <2> QED
    BY <1>7, <2>1, <2>2, <2>3, WriteEffect
<1>8. ASSUME NEW t \in Ticks, Notify(t) PROVE j \in told' \/ j \in silent' \/ \E s \in Ticks : tick'[s].at = "notify" /\ tick'[s].job = j
  <2>1. /\ row' = row /\ told \subseteq told' /\ silent \subseteq silent'
        /\ row[tick[t].job].last = "failed" => tick[t].job \in told' \cup silent'
        /\ \A s \in Ticks \ {t} : tick'[s] = tick[s]
    BY <1>8, NotifyEffect
  <2>2. \A s \in Ticks : tick[s].at = "notify" /\ tick[s].job = j =>
           j \in told' \cup silent' \/ (tick'[s].at = "notify" /\ tick'[s].job = j)
    BY <1>0, <2>1
  <2> QED
    BY <1>0, <2>1, <2>2
<1>9. ASSUME NEW t \in Ticks, End(t) \/ Cut(t) PROVE j \in told' \/ j \in silent' \/ \E s \in Ticks : tick'[s].at = "notify" /\ tick'[s].job = j
  <2>1. /\ row' = row /\ told' = told /\ silent \subseteq silent'
        /\ tick[t].at = "notify" => tick[t].job \in silent'
        /\ \A s \in Ticks \ {t} : tick'[s] = tick[s]
    BY <1>9, EndEffect
  <2>2. \A s \in Ticks : tick[s].at = "notify" /\ tick[s].job = j =>
           j \in silent' \/ (tick'[s].at = "notify" /\ tick'[s].job = j)
    BY <2>1
  <2> QED
    BY <1>0, <2>1, <2>2
<1> QED
  BY <1>1, <1>2, <1>3, <1>4, <1>5, <1>6, <1>7, <1>8, <1>9, NextCases

LEMMA FailingInit == Init => FailingIsTold
<1> SUFFICES ASSUME Init PROVE FailingIsTold
  OBVIOUS
<1>1. ASSUME NEW j \in Jobs PROVE row[j].last # "failed"
  <2>1. CASE scene.every[j] = 0
    <3>1. row[j] = Gone
      BY <2>1 DEF Init
    <3> QED
      BY <3>1 DEF Gone
  <2>2. CASE scene.every[j] # 0
    <3> DEFINE e == scene.every[j]
    <3>1. row[j] = [Gone EXCEPT !.there = TRUE, !.on = TRUE, !.every = e, !.next = e]
      BY <2>2 DEF Init
    <3> HIDE DEF e
    <3>2. row[j] = [there |-> TRUE, on |-> TRUE, every |-> e, next |-> e, last |-> "none", retries |-> 0]
      BY <3>1 DEF Gone
    <3> QED
      BY <3>2
  <2> QED
    BY <2>1, <2>2
<1> QED
  BY <1>1 DEF FailingIsTold

\* A job that fails has told its owner or is about to, but for the ways FailingIsTold names.
THEOREM FailuresAreTold == Spec => []FailingIsTold
  BY FailingInit, TypeInit, TypeStep, FailingStep, PTL DEF Spec

-----------------------------------------------------------------------------
(* Retries and claims.  A tick that still holds a row of a job that         *)
(* another runs finds it moved, so the row of a job that runs is the one    *)
(* that was selected; and what is written is due after all that was         *)
(* claimed.                                                                 *)

Held(t, j) == tick[t].snap[j].there /\ tick[t].job # j
Runs(t, j) == tick[t].at = "run" /\ tick[t].job = j
Moved(t, j) == ~row[j].there \/ ( /\ row[j].next > tick[t].snap[j].next
                                  /\ row[j].next >= 1 - MaxStay - tick[t].age )
AsSelected(t, j) == row[j].next = tick[t].snap[j].next /\ row[j].retries = tick[t].snap[j].retries

\* What a tick holds was due when it started, what it will write was not.
WasDue ==
    \A t \in Ticks :
        /\ \A j \in Jobs : tick[t].snap[j].there => tick[t].snap[j].next <= -tick[t].age
        /\ tick[t].at = "run" => tick[t].next >= 1 - tick[t].age

OneRuns(j) == \A s, t \in Ticks : Runs(s, j) /\ Runs(t, j) => s = t
RunsIt(j) == \A t \in Ticks : Runs(t, j) =>
    /\ row[j].there => row[j].retries = tick[t].snap[j].retries
    /\ claimed[j] <= -tick[t].age
OthersSee(j) == \A s, t \in Ticks : Runs(s, j) /\ Held(t, j) =>
    tick[t].snap[j].next <= -tick[s].age /\ Moved(t, j)
HoldersSee(j) == \A t \in Ticks : Held(t, j) /\ row[j].there =>
    row[j].next >= tick[t].snap[j].next /\ (Moved(t, j) \/ AsSelected(t, j))
Bounded(j) ==
    /\ row[j].retries = 0 \/ row[j].retries < MaxAttempts[j]
    /\ claimed[j] <= 0 /\ (row[j].there => row[j].next > claimed[j])
JobInv(j) == OneRuns(j) /\ RunsIt(j) /\ OthersSee(j) /\ HoldersSee(j) /\ Bounded(j)

IInv == TypeInv /\ WasDue /\ \A j \in Jobs : j \notin crossed => JobInv(j)

\* The numbers the invariant is about.
Numbers ==
    /\ \A t \in Ticks : /\ tick[t].age \in Nat /\ tick[t].age <= MaxStay
                        /\ tick[t].next \in Int /\ tick[t].next >= -MaxPast
                        /\ tick[t].at # "run" \/ tick[t].job # None
    /\ \A t \in Ticks, j \in Jobs :
         /\ tick[t].snap[j] \in RowType /\ RowOK(tick[t].snap[j])
         /\ tick[t].snap[j].next \in Int /\ tick[t].snap[j].next >= -MaxPast
         /\ tick[t].snap[j].retries \in 0 .. 10
    /\ \A j \in Jobs : /\ row[j].next \in Int /\ row[j].next >= -MaxPast /\ row[j].retries \in 0 .. 10
                       /\ claimed[j] \in Int /\ claimed[j] >= -MaxPast - 1

LEMMA NumbersHold == TypeInv => Numbers
<1> SUFFICES ASSUME TypeInv PROVE Numbers
  OBVIOUS
<1>1. ASSUME NEW t \in Ticks, NEW j \in Jobs
      PROVE  /\ tick[t].snap[j] \in RowType /\ RowOK(tick[t].snap[j])
             /\ tick[t].snap[j].next \in Int /\ tick[t].snap[j].next >= -MaxPast
             /\ tick[t].snap[j].retries \in 0 .. 10
  <2>1. tick[t].snap[j] \in RowType /\ RowOK(tick[t].snap[j])
    BY TickFields
  <2> QED
    BY <2>1, RowFields
<1>2. ASSUME NEW j \in Jobs
      PROVE  row[j].next \in Int /\ row[j].next >= -MaxPast /\ row[j].retries \in 0 .. 10
  BY Rows, RowFields
<1> QED
  BY <1>1, <1>2, TickFields, Rows, ScheduledJobsAssumption DEF Numbers

\* A tick starts, drops a row, or ends.
LEMMA StartKeeps ==
  ASSUME IInv, Numbers', NEW t \in Ticks, Start(t)
  PROVE  WasDue' /\ \A j \in Jobs : j \notin crossed' => JobInv(j)'
<1>0. /\ tick'[t].age = 0 /\ tick'[t].job = None /\ tick'[t].at = "loop"
      /\ \A j \in Jobs : tick'[t].snap[j].there =>
           /\ tick'[t].snap[j] = row[j] /\ row[j].next <= 0
           /\ \A s \in Ticks : tick[s].at = "run" /\ tick[s].job = j => j \in crossed'
      /\ \A s \in Ticks \ {t} : tick'[s] = tick[s]
      /\ row' = row /\ claimed' = claimed /\ crossed \subseteq crossed' /\ None \notin Jobs
  BY StartEffect, ScheduledJobsAssumption DEF IInv
<1>1. WasDue'
  BY <1>0 DEF IInv, WasDue
<1>2. ASSUME NEW j \in Jobs, j \notin crossed' PROVE JobInv(j)'
  <2>1. JobInv(j)
    BY <1>0, <1>2 DEF IInv
  <2>2. OneRuns(j)' /\ RunsIt(j)'
    BY <1>0, <2>1 DEF JobInv, OneRuns, RunsIt, Runs
  <2>3. OthersSee(j)'
    BY <1>0, <1>2, <2>1 DEF JobInv, OthersSee, Runs, Held, Moved
  <2>4. HoldersSee(j)'
    BY <1>0, <2>1 DEF JobInv, HoldersSee, Held, Moved, AsSelected, Numbers
  <2>5. Bounded(j)'
    BY <1>0, <2>1 DEF JobInv, Bounded
  <2> QED
    BY <2>2, <2>3, <2>4, <2>5 DEF JobInv
<1> QED
  BY <1>1, <1>2

LEMMA DropKeeps ==
  ASSUME IInv, NEW t \in Ticks, tick'[t].at # "run",
         \A j \in Jobs : tick'[t].snap[j].there =>
            Held(t, j) /\ tick'[t].snap[j] = tick[t].snap[j] /\ tick'[t].age = tick[t].age,
         \A s \in Ticks \ {t} : tick'[s] = tick[s],
         row' = row, claimed' = claimed, crossed' = crossed
  PROVE  WasDue' /\ \A j \in Jobs : j \notin crossed' => JobInv(j)'
<1>1. WasDue'
  BY DEF IInv, WasDue
<1>2. ASSUME NEW j \in Jobs, j \notin crossed' PROVE JobInv(j)'
  <2>1. JobInv(j)
    BY <1>2 DEF IInv
  <2>2. OneRuns(j)' /\ RunsIt(j)'
    BY <2>1 DEF JobInv, OneRuns, RunsIt, Runs
  <2>3. OthersSee(j)'
    BY <2>1 DEF JobInv, OthersSee, Runs, Held, Moved
  <2>4. HoldersSee(j)'
    BY <2>1 DEF JobInv, HoldersSee, Held, Moved, AsSelected
  <2>5. Bounded(j)'
    BY <2>1 DEF JobInv, Bounded
  <2> QED
    BY <2>2, <2>3, <2>4, <2>5 DEF JobInv
<1> QED
  BY <1>1, <1>2

LEMMA ClaimKeeps ==
  ASSUME IInv, Numbers, Numbers', NEW t \in Ticks, NEW i \in Jobs,
         tick[t].snap[i].there, Claims(t, i), tick'[t].age = tick[t].age, tick[t].job = None,
         tick[t].at = "loop", \A s \in Ticks \ {t} : tick'[s] = tick[s], crossed' = crossed
  PROVE  WasDue' /\ \A j \in Jobs : j \notin crossed' => JobInv(j)'
<1>0. /\ tick'[t].at = "run" /\ tick'[t].job = i /\ tick'[t].snap = tick[t].snap /\ tick'[t].next >= 1
      /\ row[i].there /\ row[i].next = tick[t].snap[i].next
      /\ row'[i].next >= 1 /\ row'[i].retries = row[i].retries
      /\ claimed'[i] = tick[t].snap[i].next
      /\ \A j \in Jobs \ {i} : row'[j] = row[j] /\ claimed'[j] = claimed[j]
  BY DEF Claims
<1>1. WasDue'
  BY <1>0 DEF IInv, WasDue, Numbers
<1>2. ASSUME NEW j \in Jobs, j \notin crossed', j # i PROVE JobInv(j)'
  <2>1. JobInv(j) /\ tick[t].job # j
    BY <1>2, ScheduledJobsAssumption DEF IInv
  <2>2. OneRuns(j)' /\ RunsIt(j)'
    BY <1>0, <1>2, <2>1 DEF JobInv, OneRuns, RunsIt, Runs
  <2>3. OthersSee(j)'
    BY <1>0, <1>2, <2>1 DEF JobInv, OthersSee, Runs, Held, Moved
  <2>4. HoldersSee(j)'
    BY <1>0, <1>2, <2>1 DEF JobInv, HoldersSee, Held, Moved, AsSelected
  <2>5. Bounded(j)'
    BY <1>0, <1>2, <2>1 DEF JobInv, Bounded
  <2> QED
    BY <2>2, <2>3, <2>4, <2>5 DEF JobInv
<1>3. ASSUME i \notin crossed' PROVE JobInv(i)'
  <2>1. JobInv(i) /\ Held(t, i) /\ ~Runs(t, i) /\ tick[t].snap[i].next <= -tick[t].age
    BY <1>3, ScheduledJobsAssumption DEF IInv, Held, Runs, WasDue
  <2>2. ~Moved(t, i)
    BY <1>0 DEF Moved, Numbers
  <2>3. \A s \in Ticks : ~Runs(s, i)
    BY <2>1, <2>2 DEF JobInv, OthersSee
  <2>4. AsSelected(t, i)
    BY <1>0, <2>1, <2>2 DEF JobInv, HoldersSee
  <2>5. \A s \in Ticks : Runs(s, i)' => s = t
    BY <2>3 DEF Runs
  <2>6. OneRuns(i)'
    BY <2>5 DEF OneRuns
  <2>7. RunsIt(i)'
    BY <1>0, <2>1, <2>4, <2>5 DEF RunsIt, AsSelected
  <2>8. ASSUME NEW s \in Ticks, Held(s, i)'
        PROVE  /\ s # t /\ Held(s, i) /\ tick'[s] = tick[s]
               /\ tick[s].snap[i].next <= row[i].next /\ tick[s].snap[i].next <= -tick[t].age
    <3>1. s # t
      BY <1>0, <2>8 DEF Held
    <3>2. Held(s, i) /\ tick'[s] = tick[s]
      BY <2>8, <3>1 DEF Held
    <3>3. tick[s].snap[i].next <= row[i].next
      BY <1>0, <2>1, <3>2 DEF JobInv, HoldersSee, Numbers
    <3> QED
      BY <1>0, <2>1, <3>1, <3>2, <3>3 DEF Numbers
  <2>9. ASSUME NEW s \in Ticks, Held(s, i)' PROVE Moved(s, i)'
    <3>1. /\ row'[i].next >= 1 /\ tick'[s].snap[i].next = tick[s].snap[i].next
          /\ tick'[s].age = tick[s].age /\ tick[s].snap[i].next <= -tick[t].age
      BY <1>0, <2>8, <2>9
    <3> QED
      BY <3>1, ScheduledJobsAssumption DEF Moved, Numbers
  <2>10. OthersSee(i)'
    BY <2>5, <2>8, <2>9 DEF OthersSee
  <2>11. HoldersSee(i)'
    <3> SUFFICES ASSUME NEW s \in Ticks, Held(s, i)' PROVE row'[i].next >= tick'[s].snap[i].next
      BY <2>9 DEF HoldersSee
    <3> QED
      BY <1>0, <2>8 DEF Numbers
  <2>12. Bounded(i)'
    <3>1. row'[i].retries = row[i].retries /\ Bounded(i)
      BY <1>0, <2>1 DEF JobInv
    <3>2. claimed'[i] <= 0 /\ row'[i].next > claimed'[i]
      BY <1>0, <2>1 DEF Numbers
    <3> QED
      BY <3>1, <3>2 DEF Bounded
  <2> QED
    BY <2>6, <2>7, <2>10, <2>11, <2>12 DEF JobInv
<1> QED
  BY <1>1, <1>2, <1>3

LEMMA WriteKeeps ==
  ASSUME IInv, Numbers, Numbers', NEW t \in Ticks, NEW i \in Jobs, tick[t].at = "run", tick[t].job = i,
         Lands(t), \A s \in Ticks \ {t} : tick'[s] = tick[s], claimed' = claimed, crossed' = crossed
  PROVE  WasDue' /\ \A j \in Jobs : j \notin crossed' => JobInv(j)'
<1>0. /\ row[i].there /\ row'[i].there
      /\ \A j \in Jobs \ {i} : row'[j] = row[j]
      /\ row'[i].next = row[i].next \/ row'[i].next = tick[t].next \/ row'[i].next >= 1 - tick[t].age
      /\ \/ row'[i].retries = 0
         \/ row'[i].retries = row[i].retries
         \/ ShouldRetry(t, i) /\ row'[i].retries = OneMore(row[i].retries)
      /\ tick'[t].age = tick[t].age /\ tick'[t].at # "run"
      /\ tick'[t].job = i \/ ~tick'[t].snap[i].there
      /\ \A j \in Jobs \ {i} : tick'[t].snap[j] = tick[t].snap[j]
      /\ tick[t].snap \in [Jobs -> RowType]
  <2>1. tick[t].snap \in [Jobs -> RowType]
    BY TickFields DEF IInv
  <2>2. tick'[t].at # "run" /\ (\A j \in Jobs \ {i} : tick'[t].snap[j] = tick[t].snap[j])
    BY <2>1 DEF Lands
  <2>3. tick'[t].job = i \/ ~tick'[t].snap[i].there
    BY <2>1 DEF Lands, Gone
  <2> QED
    BY <2>1, <2>2, <2>3 DEF Lands
<1>1. WasDue'
  <2>1. ASSUME NEW s \in Ticks, NEW j \in Jobs, tick'[s].snap[j].there
        PROVE  tick'[s].snap[j].next <= -tick'[s].age
    <3>1. CASE s # t
      BY <2>1, <3>1 DEF IInv, WasDue
    <3>2. CASE s = t /\ j # i
      BY <1>0, <2>1, <3>2 DEF IInv, WasDue
    <3>3. CASE s = t /\ j = i
      <4>1. tick'[t].snap = tick[t].snap
        BY <2>1, <3>3, <1>0 DEF Lands, Gone
      <4> QED
        BY <1>0, <2>1, <3>3, <4>1 DEF IInv, WasDue
    <3> QED
      BY <3>1, <3>2, <3>3
  <2>2. \A s \in Ticks : tick'[s].at = "run" => tick'[s].next >= 1 - tick'[s].age
    BY <1>0 DEF IInv, WasDue
  <2> QED
    BY <2>1, <2>2 DEF WasDue
<1>2. ASSUME NEW j \in Jobs, j \notin crossed', j # i PROVE JobInv(j)'
  <2>1. JobInv(j) /\ tick[t].job # j /\ row'[j] = row[j] /\ claimed'[j] = claimed[j]
    BY <1>0, <1>2 DEF IInv
  <2>2. \A s \in Ticks : Runs(s, j)' => Runs(s, j) /\ tick'[s] = tick[s]
    BY <1>0 DEF Runs
  <2>3. \A s \in Ticks : Held(s, j)' => Held(s, j) /\ tick'[s].snap[j] = tick[s].snap[j] /\ tick'[s].age = tick[s].age
    BY <1>0, <1>2, <2>1 DEF Held
  <2>4. OneRuns(j)' /\ RunsIt(j)'
    BY <2>1, <2>2 DEF JobInv, OneRuns, RunsIt
  <2>5. OthersSee(j)'
    BY <2>1, <2>2, <2>3 DEF JobInv, OthersSee, Moved
  <2>6. HoldersSee(j)'
    BY <2>1, <2>3 DEF JobInv, HoldersSee, Moved, AsSelected
  <2>7. Bounded(j)'
    BY <2>1 DEF JobInv, Bounded
  <2> QED
    BY <2>4, <2>5, <2>6, <2>7 DEF JobInv
<1>3. ASSUME i \notin crossed' PROVE JobInv(i)'
  <2>1. JobInv(i) /\ Runs(t, i)
    BY <1>3 DEF IInv, Runs
  <2>2. \A s \in Ticks : ~Runs(s, i)'
    BY <1>0, <2>1 DEF JobInv, OneRuns, Runs
  <2>3. OneRuns(i)' /\ RunsIt(i)' /\ OthersSee(i)'
    BY <2>2 DEF OneRuns, RunsIt, OthersSee
  <2>4. ASSUME NEW s \in Ticks, Held(s, i)'
        PROVE  Held(s, i) /\ tick'[s] = tick[s] /\ tick[s].snap[i].next <= -tick[t].age /\ Moved(s, i)
    <3>1. s # t
      BY <1>0, <2>4 DEF Held
    <3>2. Held(s, i) /\ tick'[s] = tick[s]
      BY <2>4, <3>1 DEF Held
    <3> QED
      BY <2>1, <3>2 DEF JobInv, OthersSee
  <2>5. row'[i].next = row[i].next \/ row'[i].next >= 1 - tick[t].age
    BY <1>0 DEF IInv, WasDue
  <2>6. ASSUME NEW s \in Ticks, Held(s, i)' PROVE row'[i].next >= tick'[s].snap[i].next /\ Moved(s, i)'
    <3>1. CASE row'[i].next = row[i].next
      BY <1>0, <2>4, <2>6, <3>1 DEF Moved, Numbers
    <3>2. CASE row'[i].next >= 1 - tick[t].age
      <4>1. row'[i].next > tick'[s].snap[i].next
        BY <2>4, <2>6, <3>2 DEF Numbers
      <4>2. row'[i].next >= 1 - MaxStay - tick'[s].age
        BY <2>4, <2>6, <3>2, ScheduledJobsAssumption DEF Numbers
      <4> QED
        BY <4>1, <4>2 DEF Moved, Numbers
    <3> QED
      BY <2>5, <3>1, <3>2
  <2>7. HoldersSee(i)'
    BY <2>6 DEF HoldersSee
  <2>8. row'[i].retries = 0 \/ row'[i].retries < MaxAttempts[i]
    <3>1. row[i].retries = tick[t].snap[i].retries
      BY <1>0, <2>1 DEF JobInv, RunsIt
    <3>2. CASE ShouldRetry(t, i) /\ row'[i].retries = OneMore(row[i].retries)
      <4>1. row[i].retries < MaxAttempts[i] - 1 /\ row[i].retries \in 0 .. 10 /\ MaxAttempts[i] \in 0 .. 10
        BY <3>1, <3>2, ScheduledJobsAssumption DEF ShouldRetry, Numbers
      <4> QED
        BY <3>2, <4>1 DEF OneMore
    <3>3. row[i].retries = 0 \/ row[i].retries < MaxAttempts[i]
      BY <2>1 DEF JobInv, Bounded
    <3> QED
      BY <1>0, <3>2, <3>3
  <2>9. claimed'[i] <= 0 /\ row'[i].next > claimed'[i]
    <3>1. claimed[i] <= 0 /\ row[i].next > claimed[i] /\ claimed[i] <= -tick[t].age
      BY <1>0, <2>1 DEF JobInv, Bounded, RunsIt
    <3> QED
      BY <2>5, <3>1 DEF Numbers
  <2>10. Bounded(i)'
    BY <2>8, <2>9 DEF Bounded
  <2> QED
    BY <2>3, <2>7, <2>10 DEF JobInv
<1> QED
  BY <1>1, <1>2, <1>3

LEMMA UserKeeps ==
  ASSUME IInv, Numbers, Numbers', \A j \in Jobs : Touched(j),
         tick' = tick, claimed' = claimed, crossed' = crossed
  PROVE  WasDue' /\ \A j \in Jobs : j \notin crossed' => JobInv(j)'
<1>1. WasDue'
  BY DEF IInv, WasDue
<1>2. ASSUME NEW j \in Jobs, j \notin crossed' PROVE JobInv(j)'
  <2>1. JobInv(j)
    BY <1>2 DEF IInv
  <2>2. /\ row'[j].there => row[j].there /\ (row'[j].next = row[j].next \/ row'[j].next >= 1)
        /\ row'[j].retries = row[j].retries \/ (~row'[j].there /\ row'[j].retries = 0)
    BY DEF Touched
  <2>3. \A t \in Ticks : (Runs(t, j)' <=> Runs(t, j)) /\ (Held(t, j)' <=> Held(t, j))
    BY DEF Runs, Held
  <2>4. OneRuns(j)' /\ RunsIt(j)'
    BY <2>1, <2>2, <2>3 DEF JobInv, OneRuns, RunsIt
  <2>5. ASSUME NEW t \in Ticks, Held(t, j), row'[j].there, row'[j].next >= 1
        PROVE  Moved(t, j)' /\ row'[j].next >= tick[t].snap[j].next
    <3>1. tick[t].snap[j].next <= -tick[t].age
      BY <2>5 DEF IInv, WasDue, Held
    <3> QED
      BY <2>5, <3>1, ScheduledJobsAssumption DEF Moved, Numbers
  <2>6. ASSUME NEW t \in Ticks, Held(t, j), Moved(t, j) PROVE Moved(t, j)'
    <3>1. CASE row'[j].there /\ row'[j].next >= 1
      BY <2>5, <2>6, <3>1
    <3>2. CASE row'[j].there => row[j].there /\ row'[j].next = row[j].next
      BY <2>6, <3>2 DEF Moved
    <3> QED
      BY <2>2, <3>1, <3>2
  <2>7. OthersSee(j)'
    BY <2>1, <2>3, <2>6 DEF JobInv, OthersSee
  <2>8. ASSUME NEW t \in Ticks, Held(t, j), row'[j].there
        PROVE  row'[j].next >= tick[t].snap[j].next /\ (Moved(t, j)' \/ AsSelected(t, j)')
    <3>1. row[j].there /\ row[j].next >= tick[t].snap[j].next /\ (Moved(t, j) \/ AsSelected(t, j))
      BY <2>1, <2>2, <2>8 DEF JobInv, HoldersSee
    <3>2. CASE row'[j].next >= 1
      BY <2>5, <2>8, <3>2
    <3>3. CASE row'[j].next = row[j].next
      BY <2>2, <2>6, <2>8, <3>1, <3>3 DEF AsSelected
    <3> QED
      BY <2>2, <2>8, <3>2, <3>3
  <2>9. HoldersSee(j)'
    BY <2>3, <2>8 DEF HoldersSee
  <2>10. Bounded(j)'
    BY <2>1, <2>2 DEF JobInv, Bounded, Numbers
  <2> QED
    BY <2>4, <2>7, <2>9, <2>10 DEF JobInv
<1> QED
  BY <1>1, <1>2

LEMMA HourKeeps ==
  ASSUME IInv, Numbers, Numbers', \A t \in Ticks : Ages(t),
         \A j \in Jobs : row'[j] = Older(row[j]) /\ claimed'[j] = Ago(claimed[j], MaxPast + 1),
         crossed' = crossed
  PROVE  WasDue' /\ \A j \in Jobs : j \notin crossed' => JobInv(j)'
<1>0. MaxPast \in Nat /\ MaxStay \in Nat /\ MaxPast > MaxStay /\ MaxPast >= 2 * MaxStay
  BY ScheduledJobsAssumption
<1>1. \A j \in Jobs : /\ row'[j].there <=> row[j].there
                      /\ row'[j].retries = row[j].retries
                      /\ row[j].there => row'[j].next = Ago(row[j].next, MaxPast)
  BY Rows, OlderType DEF IInv
<1>2. \A t \in Ticks, j \in Jobs : tick[t].at # "idle" =>
        /\ tick'[t].snap[j].there <=> tick[t].snap[j].there
        /\ tick'[t].snap[j].retries = tick[t].snap[j].retries
        /\ tick[t].snap[j].there => tick'[t].snap[j].next = Ago(tick[t].snap[j].next, MaxPast)
  BY OlderType DEF Ages, Numbers
<1>3. \A t \in Ticks, j \in Jobs : tick[t].at = "idle" => ~tick'[t].snap[j].there /\ ~tick[t].snap[j].there
  <2>1. \A t \in Ticks : tick[t].at = "idle" => tick[t] = Idle
    BY TickFields DEF IInv
  <2>2. \A j \in Jobs : ~Idle.snap[j].there
    BY DEF Idle, Gone
  <2> QED
    BY <2>1, <2>2 DEF Ages
<1>4. ASSUME NEW t \in Ticks, NEW j \in Jobs, tick'[t].snap[j].there
      PROVE  /\ tick[t].at # "idle" /\ tick[t].snap[j].there
             /\ tick'[t].age = tick[t].age + 1 /\ tick[t].age < MaxStay
             /\ tick'[t].snap[j].next = Ago(tick[t].snap[j].next, MaxPast)
             /\ tick'[t].snap[j].retries = tick[t].snap[j].retries
             /\ tick[t].snap[j].next <= -tick[t].age
  BY <1>2, <1>3, <1>4 DEF Ages, IInv, WasDue
<1>5. WasDue'
  <2>1. ASSUME NEW t \in Ticks, NEW j \in Jobs, tick'[t].snap[j].there
        PROVE  tick'[t].snap[j].next <= -tick'[t].age
    BY <1>0, <1>4, <2>1 DEF Ago, Numbers
  <2>2. ASSUME NEW t \in Ticks, tick'[t].at = "run" PROVE tick'[t].next >= 1 - tick'[t].age
    <3>1. /\ tick'[t].age = tick[t].age + 1 /\ tick'[t].next = Ago(tick[t].next, MaxPast)
          /\ tick[t].next >= 1 - tick[t].age
      BY <2>2 DEF Ages, IInv, WasDue, Numbers
    <3> QED
      BY <3>1, <1>0 DEF Ago, Numbers
  <2> QED
    BY <2>1, <2>2 DEF WasDue
<1>6. ASSUME NEW j \in Jobs, j \notin crossed' PROVE JobInv(j)'
  <2>1. JobInv(j)
    BY <1>6 DEF IInv
  <2>2. \A t \in Ticks : Runs(t, j)' => Runs(t, j) /\ tick'[t].age = tick[t].age + 1 /\ tick[t].age < MaxStay
    BY DEF Runs, Ages
  <2>3. \A t \in Ticks : Held(t, j)' => Held(t, j)
    BY <1>4 DEF Held, Ages
  <2>4. OneRuns(j)'
    BY <2>1, <2>2 DEF JobInv, OneRuns
  <2>5. ASSUME NEW t \in Ticks, Runs(t, j)'
        PROVE  /\ row'[j].there => row'[j].retries = tick'[t].snap[j].retries
               /\ claimed'[j] <= -tick'[t].age
    <3>1. /\ row[j].there => row[j].retries = tick[t].snap[j].retries
          /\ claimed[j] <= -tick[t].age
      BY <2>1, <2>2, <2>5 DEF JobInv, RunsIt
    <3>2. row'[j].there => row'[j].retries = tick'[t].snap[j].retries
      BY <1>1, <1>2, <2>2, <2>5, <3>1 DEF Runs
    <3>3. claimed'[j] <= -tick'[t].age
      BY <1>0, <2>2, <2>5, <3>1 DEF Ago, Numbers
    <3> QED
      BY <3>2, <3>3
  <2>6. RunsIt(j)'
    BY <2>5 DEF RunsIt
  <2>7. ASSUME NEW t \in Ticks, Held(t, j)', Moved(t, j) PROVE Moved(t, j)'
    <3>1. CASE ~row[j].there
      BY <1>1, <3>1 DEF Moved
    <3>2. CASE row[j].there
      <4>1. /\ row[j].next > tick[t].snap[j].next /\ row[j].next >= 1 - MaxStay - tick[t].age
            /\ row'[j].next = Ago(row[j].next, MaxPast)
        BY <1>1, <2>7, <3>2 DEF Moved
      <4>2. /\ tick'[t].age = tick[t].age + 1 /\ tick[t].age < MaxStay
            /\ tick'[t].snap[j].next = Ago(tick[t].snap[j].next, MaxPast)
        BY <1>4, <2>7 DEF Held
      <4>3. row[j].next > -MaxPast + 1 \/ row[j].next = -MaxPast + 1
        BY <1>0, <4>1, <4>2 DEF Numbers
      <4>4. row'[j].next = row[j].next - 1
        BY <1>0, <4>1, <4>3 DEF Ago, Numbers
      <4>5. row'[j].next > tick'[t].snap[j].next
        BY <1>0, <4>1, <4>2, <4>3, <4>4 DEF Ago, Numbers
      <4>6. row'[j].next >= 1 - MaxStay - tick'[t].age
        BY <1>0, <4>1, <4>2, <4>4 DEF Numbers
      <4> QED
        BY <4>5, <4>6 DEF Moved
    <3> QED
      BY <3>1, <3>2
  <2>8. ASSUME NEW s \in Ticks, NEW t \in Ticks, Runs(s, j)', Held(t, j)'
        PROVE  tick'[t].snap[j].next <= -tick'[s].age /\ Moved(t, j)'
    <3>1. tick[t].snap[j].next <= -tick[s].age /\ Moved(t, j)
      BY <2>1, <2>2, <2>3, <2>8 DEF JobInv, OthersSee
    <3>2. tick'[t].snap[j].next = Ago(tick[t].snap[j].next, MaxPast)
      BY <1>4, <2>8 DEF Held
    <3>3. tick'[t].snap[j].next <= -tick'[s].age
      BY <1>0, <2>2, <2>8, <3>1, <3>2 DEF Ago, Numbers
    <3> QED
      BY <2>7, <2>8, <3>1, <3>3
  <2>9. OthersSee(j)'
    BY <2>8 DEF OthersSee
  <2>10. ASSUME NEW t \in Ticks, Held(t, j)', row'[j].there
         PROVE  row'[j].next >= tick'[t].snap[j].next /\ (Moved(t, j)' \/ AsSelected(t, j)')
    <3>1. /\ row[j].there /\ row[j].next >= tick[t].snap[j].next /\ (Moved(t, j) \/ AsSelected(t, j))
      BY <1>1, <2>1, <2>3, <2>10 DEF JobInv, HoldersSee
    <3>2. /\ tick'[t].snap[j].next = Ago(tick[t].snap[j].next, MaxPast)
          /\ tick'[t].snap[j].retries = tick[t].snap[j].retries
          /\ row'[j].next = Ago(row[j].next, MaxPast) /\ row'[j].retries = row[j].retries
      BY <1>1, <1>4, <2>10, <3>1 DEF Held
    <3>3. row'[j].next >= tick'[t].snap[j].next
      BY <1>0, <3>1, <3>2 DEF Ago, Numbers
    <3>4. AsSelected(t, j) => AsSelected(t, j)'
      BY <3>2 DEF AsSelected
    <3> QED
      BY <2>7, <2>10, <3>1, <3>3, <3>4
  <2>11. HoldersSee(j)'
    BY <2>10 DEF HoldersSee
  <2>12. Bounded(j)'
    <3>1. /\ row[j].retries = 0 \/ row[j].retries < MaxAttempts[j]
          /\ claimed[j] <= 0 /\ (row[j].there => row[j].next > claimed[j])
      BY <2>1 DEF JobInv, Bounded
    <3>2. claimed'[j] <= 0
      BY <1>0, <3>1 DEF Ago, Numbers
    <3>3. row'[j].there => row'[j].next > claimed'[j]
      <4>1. row'[j].there => row[j].there /\ row'[j].next = Ago(row[j].next, MaxPast)
        BY <1>1
      <4>2. claimed'[j] = Ago(claimed[j], MaxPast + 1)
        OBVIOUS
      <4> QED
        BY <1>0, <3>1, <4>1, <4>2 DEF Ago, Numbers
    <3> QED
      BY <1>1, <3>1, <3>2, <3>3 DEF Bounded
  <2> QED
    BY <2>4, <2>6, <2>9, <2>11, <2>12 DEF JobInv
<1> QED
  BY <1>5, <1>6

LEMMA InvInit == Init => IInv
<1> SUFFICES ASSUME Init PROVE IInv
  OBVIOUS
<1>1. TypeInv /\ Numbers
  BY TypeInit, NumbersHold
<1>2. \A t \in Ticks : tick[t].at = "idle" /\ \A j \in Jobs : ~tick[t].snap[j].there
  BY DEF Init, Idle, Gone
<1>3. WasDue
  BY <1>2 DEF WasDue
<1>4. ASSUME NEW j \in Jobs PROVE JobInv(j)
  <2>1. claimed[j] = -MaxPast - 1 /\ MaxPast \in Nat
    BY ScheduledJobsAssumption DEF Init
  <2>2. row[j].retries = 0 /\ row[j].next >= -MaxPast
    <3> DEFINE e == scene.every[j]
    <3>1. row[j] = Gone \/ row[j] = [Gone EXCEPT !.there = TRUE, !.on = TRUE, !.every = e, !.next = e]
      BY DEF Init
    <3> HIDE DEF e
    <3>2. ASSUME row[j] = [Gone EXCEPT !.there = TRUE, !.on = TRUE, !.every = e, !.next = e]
          PROVE  row[j] = [there |-> TRUE, on |-> TRUE, every |-> e, next |-> e, last |-> "none", retries |-> 0]
      BY <3>2 DEF Gone
    <3>3. Gone.retries = 0
      BY DEF Gone
    <3>4. row[j].retries = 0
      BY <3>1, <3>2, <3>3
    <3> QED
      BY <1>1, <3>4 DEF Numbers
  <2>3. Bounded(j)
    BY <1>1, <2>1, <2>2 DEF Bounded, Numbers
  <2> QED
    BY <1>2, <2>3 DEF JobInv, OneRuns, RunsIt, OthersSee, HoldersSee, Runs, Held
<1> QED
  BY <1>1, <1>3, <1>4 DEF IInv

LEMMA InvStep == IInv /\ [Next]_vars => IInv'
<1> SUFFICES ASSUME IInv, [Next]_vars PROVE IInv'
  OBVIOUS
<1>1. TypeInv'
  BY TypeStep DEF IInv
<1>2. Numbers /\ Numbers'
  BY <1>1, NumbersHold, PTL DEF IInv
<1> SUFFICES WasDue' /\ \A j \in Jobs : j \notin crossed' => JobInv(j)'
  BY <1>1 DEF IInv
<1>3. CASE UNCHANGED vars
  BY <1>3 DEF vars, history, IInv, WasDue, JobInv, OneRuns, RunsIt, OthersSee, HoldersSee, Bounded,
     Runs, Held, Moved, AsSelected
<1>4. CASE Hour
  BY <1>2, <1>4, HourEffect, HourKeeps DEF IInv
<1>5. CASE User
  BY <1>2, <1>5, UserEffect, UserKeeps DEF IInv
<1>6. ASSUME NEW t \in Ticks, Start(t) PROVE WasDue' /\ \A j \in Jobs : j \notin crossed' => JobInv(j)'
  BY <1>2, <1>6, StartKeeps
<1>7. ASSUME NEW t \in Ticks, Defer(t) \/ Notify(t) \/ End(t) \/ Cut(t)
      PROVE  WasDue' /\ \A j \in Jobs : j \notin crossed' => JobInv(j)'
  <2>0. tick[t].snap \in [Jobs -> RowType] /\ TypeInv /\ ~Gone.there /\ None \notin Jobs
    BY TickFields, ScheduledJobsAssumption DEF IInv, Gone
  <2>1. /\ tick'[t].at # "run"
        /\ \A s \in Ticks \ {t} : tick'[s] = tick[s]
        /\ row' = row /\ claimed' = claimed /\ crossed' = crossed
    <3>1. Idle.at = "idle"
      BY DEF Idle
    <3>2. CASE Defer(t)
      BY <2>0, <3>2, DeferEffect
    <3>3. CASE Notify(t)
      BY <2>0, <3>3, NotifyEffect
    <3>4. CASE End(t) \/ Cut(t)
      BY <2>0, <3>1, <3>4, EndEffect
    <3> QED
      BY <1>7, <3>2, <3>3, <3>4
  <2>2. ASSUME NEW j \in Jobs, tick'[t].snap[j].there
        PROVE  Held(t, j) /\ tick'[t].snap[j] = tick[t].snap[j] /\ tick'[t].age = tick[t].age
    <3>1. CASE End(t) \/ Cut(t)
      <4>1. tick'[t] = Idle
        BY <2>0, <3>1, EndEffect
      <4> QED
        BY <2>2, <4>1 DEF Idle, Gone
    <3>2. CASE Defer(t)
      <4>1. /\ tick'[t].age = tick[t].age /\ tick[t].job = None
            /\ \E i \in Jobs : tick'[t].snap = [tick[t].snap EXCEPT ![i] = Gone]
        BY <2>0, <3>2, DeferEffect
      <4> QED
        BY <2>0, <2>2, <4>1 DEF Held
    <3>3. CASE Notify(t)
      <4>1. /\ tick'[t].age = tick[t].age /\ tick[t].job \in Jobs
            /\ tick'[t].snap = [tick[t].snap EXCEPT ![tick[t].job] = Gone]
        BY <2>0, <3>3, NotifyEffect
      <4> QED
        BY <2>0, <2>2, <4>1 DEF Held
    <3> QED
      BY <1>7, <3>1, <3>2, <3>3
  <2> QED
    BY <2>1, <2>2, DropKeeps
<1>8. ASSUME NEW t \in Ticks, Claim(t) PROVE WasDue' /\ \A j \in Jobs : j \notin crossed' => JobInv(j)'
  <2>1. /\ \E j \in Jobs : tick[t].snap[j].there /\ (Claims(t, j) \/ Misses(t, j))
        /\ tick'[t].age = tick[t].age /\ tick[t].at = "loop" /\ tick[t].job = None
        /\ \A s \in Ticks \ {t} : tick'[s] = tick[s]
        /\ crossed' = crossed
    BY <1>8, ClaimEffect DEF IInv
  <2>2. PICK j \in Jobs : tick[t].snap[j].there /\ (Claims(t, j) \/ Misses(t, j))
    BY <2>1
  <2>3. CASE Claims(t, j)
    BY <1>2, <2>1, <2>2, <2>3, ClaimKeeps
  <2>4. CASE Misses(t, j)
    <3>0. tick[t].snap \in [Jobs -> RowType] /\ ~Gone.there /\ None \notin Jobs
      BY TickFields, ScheduledJobsAssumption DEF IInv, Gone
    <3>1. /\ tick'[t].at # "run" /\ row' = row /\ claimed' = claimed
          /\ tick'[t].snap = [tick[t].snap EXCEPT ![j] = Gone]
      BY <2>4 DEF Misses
    <3>2. \A i \in Jobs : tick'[t].snap[i].there =>
            Held(t, i) /\ tick'[t].snap[i] = tick[t].snap[i] /\ tick'[t].age = tick[t].age
      BY <2>1, <3>0, <3>1 DEF Held
    <3> QED
      BY <2>1, <3>1, <3>2, DropKeeps
  <2> QED
    BY <2>2, <2>3, <2>4
<1>9. ASSUME NEW t \in Ticks, Write(t) PROVE WasDue' /\ \A j \in Jobs : j \notin crossed' => JobInv(j)'
  <2>1. /\ tick[t].at = "run" /\ tick[t].job \in Jobs
        /\ Breaks(t) \/ Lands(t)
        /\ \A s \in Ticks \ {t} : tick'[s] = tick[s]
        /\ claimed' = claimed /\ crossed' = crossed
    BY <1>9, WriteEffect DEF IInv
  <2>2. CASE Lands(t)
    BY <1>2, <2>1, <2>2, WriteKeeps
  <2>3. CASE Breaks(t)
    <3>1. tick'[t] = Idle /\ row' = row
      BY <2>3 DEF Breaks
    <3>2. tick'[t].at # "run" /\ \A j \in Jobs : ~tick'[t].snap[j].there
      BY <3>1 DEF Idle, Gone
    <3> QED
      BY <2>1, <3>1, <3>2, DropKeeps
  <2> QED
    BY <2>1, <2>2, <2>3
<1> QED
  BY <1>3, <1>4, <1>5, <1>6, <1>7, <1>8, <1>9, NextCases

\* The retries of a job stay below its max_attempts: a tick that runs a job counts from
\* the row as it is, though it read it before.
THEOREM RetriesStayBounded == Spec => []RetriesAreBounded
<1>1. IInv => RetriesAreBounded
  BY DEF IInv, JobInv, Bounded, RetriesAreBounded
<1> QED
  BY <1>1, InvInit, InvStep, PTL DEF Spec

LEMMA ClaimStep ==
  ASSUME IInv, [Next]_vars, NEW j \in Jobs, NEW t \in Ticks,
         tick[t].at = "loop", tick'[t].at = "run", tick'[t].job = j
  PROVE  tick[t].snap[j].next > claimed[j] \/ j \in crossed
<1>0. TypeInv /\ Numbers
  BY NumbersHold DEF IInv
<1>1. CASE UNCHANGED vars
  BY <1>1 DEF vars
<1>2. CASE Hour
  BY <1>0, <1>2, HourEffect DEF Ages
<1>3. CASE User
  BY <1>0, <1>3, UserEffect
<1>4. ASSUME NEW s \in Ticks, \/ Start(s) \/ Defer(s) \/ Write(s) \/ Notify(s) \/ End(s) \/ Cut(s)
      PROVE  FALSE
  <2>1. tick'[s].at # "run" \/ tick[s].at # "loop"
    <3>1. Idle.at = "idle"
      BY DEF Idle
    <3>2. CASE Write(s)
      BY <1>0, <3>2, WriteEffect
    <3>3. CASE End(s) \/ Cut(s)
      BY <1>0, <3>1, <3>3, EndEffect
    <3> QED
      BY <1>0, <1>4, <3>2, <3>3, StartEffect, DeferEffect, NotifyEffect
  <2>2. \A r \in Ticks \ {s} : tick'[r] = tick[r]
    BY <1>0, <1>4, StartEffect, DeferEffect, WriteEffect, NotifyEffect, EndEffect
  <2> QED
    BY <2>1, <2>2
<1>5. ASSUME NEW s \in Ticks, Claim(s) PROVE tick[t].snap[j].next > claimed[j] \/ j \in crossed
  <2>1. /\ \E i \in Jobs : Claims(s, i) \/ Misses(s, i)
        /\ \A r \in Ticks \ {s} : tick'[r] = tick[r]
    BY <1>0, <1>5, ClaimEffect
  <2>2. s = t
    BY <2>1
  <2>3. row[j].there /\ row[j].next = tick[t].snap[j].next
    BY <2>1, <2>2 DEF Claims, Misses
  <2> QED
    BY <2>3 DEF IInv, JobInv, Bounded
<1> QED
  BY <1>1, <1>2, <1>3, <1>4, <1>5, NextCases

\* What a tick claims of a job is due after all that was claimed before, unless a run of
\* it still went on when it was selected.
THEOREM ClaimsGoOn == Spec => ClaimsGoForward
<1>1. IInv /\ [Next]_vars =>
        [\A j \in Jobs : \A t \in Ticks :
          (tick[t].at = "loop" /\ tick'[t].at = "run" /\ tick'[t].job = j)
            => tick[t].snap[j].next > claimed[j] \/ j \in crossed]_vars
  BY ClaimStep
<1> QED
  BY <1>1, InvInit, InvStep, PTL DEF Spec, ClaimsGoForward
=============================================================================
