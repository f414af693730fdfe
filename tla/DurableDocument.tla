--------------------------- MODULE DurableDocument ---------------------------
(***************************************************************************)
(* What a realtime document promises to those who use it, with nothing     *)
(* said of how: edits only ever join it, a save only ever adds to what is  *)
(* stored, and whoever opens the document after its instance is gone finds *)
(* what was stored, all of it and nothing else.                            *)
(***************************************************************************)
CONSTANT Edits

VARIABLES
    content,  \* what a reader is served
    stored    \* what a restart brings back

Init == content \subseteq Edits /\ stored = content

\* Edits join the document, and some of what it holds may be saved with them.
Grow ==
    \E new, kept \in SUBSET Edits :
        /\ content' = content \cup new
        /\ kept \subseteq content'
        /\ stored' = stored \cup kept

\* The instance is gone.
Restart == content' = stored /\ UNCHANGED stored

Next == Grow \/ Restart

Spec == Init /\ [][Next]_<<content, stored>>
=============================================================================
