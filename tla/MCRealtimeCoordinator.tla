------------------------ MODULE MCRealtimeCoordinator ------------------------
(* Small instances of RealtimeCoordinator for TLC.                         *)
EXTENDS RealtimeCoordinator, TLC

CONSTANTS c1, c2, e1, e2, e3, e4

MCClients == {c1, c2}
MCEdits == {e1, e2, e3, e4}

\* Edits typed one by one, and the merged update that a reconnect flushes.
MCUpdates == {{e2}, {e3}, {e4}, {e2, e3}}

NewDoc == [row |-> FALSE, snap |-> {}, log |-> {}]
LegacyRow(s, u) == [seq |-> s, upd |-> u]

\* A new document; one with a snapshot and a row after it; one with a log of two
\* rows, longer than a page of one.
MCLegacyDocs ==
    {NewDoc,
     [row |-> TRUE, snap |-> {e1}, log |-> {}],
     [row |-> TRUE, snap |-> {}, log |-> {LegacyRow(1, {e1}), LegacyRow(2, {e2})}]}

MCOneLegacyDoc == {[row |-> TRUE, snap |-> {}, log |-> {LegacyRow(1, {e1})}]}

MCSymmetry == Permutations(MCClients)
=============================================================================
