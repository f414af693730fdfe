------------------------------- MODULE OneBuild -------------------------------
(***************************************************************************)
(* What a user is promised of builds, with nothing said of handlers,       *)
(* alarms, streams or evictions: one build at a time; whoever ends it, it  *)
(* ends once, and its record is closed then; the user is told of it at     *)
(* most once, after its end, and never of one that the user cancelled.     *)
(***************************************************************************)
EXTENDS Naturals

CONSTANT Jobs

VARIABLES
    state,   \* of each build; "pruned" when it is forgotten
    record,  \* the events of each build
    told     \* how often its user was told of its end

Underway == {j \in Jobs : state[j] \in {"queued", "running"}}
Over == {j \in Jobs : state[j] \in {"published", "failed", "cancelled"}}

Init ==
    /\ state = [j \in Jobs |-> "none"]
    /\ record = [j \in Jobs |-> <<>>]
    /\ told = [j \in Jobs |-> 0]

\* A new build, when none is under way.  Old ones may be forgotten.
Start(j) ==
    /\ Underway = {}
    /\ state[j] = "none"
    /\ \E old \in SUBSET Over :
          /\ state' = [i \in Jobs |-> IF i = j THEN "queued"
                                      ELSE IF i \in old THEN "pruned" ELSE state[i]]
          /\ record' = [i \in Jobs |-> IF i \in old THEN <<>> ELSE record[i]]
    /\ UNCHANGED told

Begin(j) ==
    /\ state[j] = "queued"
    /\ state' = [state EXCEPT ![j] = "running"]
    /\ UNCHANGED <<record, told>>

\* No other build's record changes.
RecordsOnly(j) == record' = [record EXCEPT ![j] = record'[j]]

Record(j) ==
    /\ j \in Underway
    /\ RecordsOnly(j)
    /\ UNCHANGED <<state, told>>

\* What has not begun is not published.
End(j) ==
    /\ j \in Underway
    /\ \/ state' = [state EXCEPT ![j] = "published"] /\ state[j] = "running"
       \/ state' = [state EXCEPT ![j] = "failed"]
       \/ state' = [state EXCEPT ![j] = "cancelled"]
    /\ RecordsOnly(j)
    /\ UNCHANGED told

Tell(j) ==
    /\ state[j] \in {"published", "failed", "pruned"}
    /\ told[j] = 0
    /\ told' = [told EXCEPT ![j] = 1]
    /\ UNCHANGED <<state, record>>

Next == \E j \in Jobs : Start(j) \/ Begin(j) \/ Record(j) \/ End(j) \/ Tell(j)

Spec == Init /\ [][Next]_<<state, record, told>>
=============================================================================
