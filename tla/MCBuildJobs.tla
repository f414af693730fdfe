---------------------------- MODULE MCBuildJobs ----------------------------
(* A small instance of BuildJobs for TLC.                                  *)
EXTENDS BuildJobs

CONSTANTS k1, s1, s2, h1

MCKeys == {k1}
MCStreams == {s1, s2}
MCHandlers == {h1}
=============================================================================
