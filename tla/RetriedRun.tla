------------------------------ MODULE RetriedRun ------------------------------
(***************************************************************************)
(* What the crew promises of its runs, with nothing said of who executes   *)
(* them, of the queue or of the clock: a run that dies may be begun once   *)
(* more, but only while it has called no tool, and a run that is over is   *)
(* never taken up again.                                                   *)
(***************************************************************************)
EXTENDS Naturals

CONSTANT Runs

VARIABLES
    phase,    \* none, waiting, working, dead, over
    chances,  \* the executions it may have: one, two after it died, none when it is over
    begun,    \* the executions it had
    acted     \* those that called a tool

vars == <<phase, chances, begun, acted>>

In(places) == {r \in Runs : phase[r] \in places}

Init ==
    /\ phase = [r \in Runs |-> "none"]
    /\ chances = [r \in Runs |-> 1]
    /\ begun = [r \in Runs |-> 0]
    /\ acted = [r \in Runs |-> 0]

Wait(r) ==
    /\ phase[r] = "none"
    /\ phase' = [phase EXCEPT ![r] = "waiting"]
    /\ UNCHANGED <<chances, begun, acted>>

Start(r) ==
    /\ phase[r] = "none" /\ begun[r] < chances[r]
    /\ phase' = [phase EXCEPT ![r] = "working"]
    /\ begun' = [begun EXCEPT ![r] = @ + 1]
    /\ UNCHANGED <<chances, acted>>

Claim(r) ==
    /\ phase[r] = "waiting"
    /\ phase' = [phase EXCEPT ![r] = "working"]
    /\ UNCHANGED <<chances, begun, acted>>

Begin(r) ==
    /\ phase[r] = "working" /\ begun[r] < chances[r]
    /\ begun' = [begun EXCEPT ![r] = @ + 1]
    /\ UNCHANGED <<phase, chances, acted>>

Act(r) ==
    /\ phase[r] = "working" /\ acted[r] = 0
    /\ acted' = [acted EXCEPT ![r] = 1]
    /\ UNCHANGED <<phase, chances, begun>>

Die(r) ==
    /\ phase[r] = "working"
    /\ phase' = [phase EXCEPT ![r] = "dead"]
    /\ UNCHANGED <<chances, begun, acted>>

Finish(r) ==
    /\ phase[r] = "working"
    /\ phase' = [phase EXCEPT ![r] = "over"]
    /\ chances' = [chances EXCEPT ![r] = 0]
    /\ UNCHANGED <<begun, acted>>

\* Of the dead and those that wait, some get their second chance and some are given up.
Sweep ==
    \E again \in SUBSET {r \in In({"dead"}) : chances[r] = 1 /\ acted[r] = 0} :
    \E gone \in SUBSET (In({"dead", "waiting"}) \ again) :
        /\ phase' = [r \in Runs |-> IF r \in again THEN "waiting"
                                    ELSE IF r \in gone THEN "over" ELSE phase[r]]
        /\ chances' = [r \in Runs |-> IF r \in again THEN 2
                                      ELSE IF r \in gone THEN 0 ELSE chances[r]]
        /\ UNCHANGED <<begun, acted>>

Next ==
    \/ \E r \in Runs : \/ Wait(r) \/ Start(r) \/ Claim(r) \/ Begin(r) \/ Act(r)
                       \/ Die(r) \/ Finish(r)
    \/ Sweep

Spec == Init /\ [][Next]_vars
=============================================================================
