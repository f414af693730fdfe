----------------------------- MODULE MCCrewRuns -----------------------------
(* Small instances of CrewRuns for TLC.                                    *)
EXTENDS CrewRuns, TLC

CONSTANTS w1, m1, t1, t2

MCWakes == {w1}
MCRequests == {m1}
MCTicks == {t1, t2}
MCOneTick == {t1}
MCNone == {}
MCSymmetry == Permutations(MCTicks)
=============================================================================
