---------------------------- MODULE MCPublishing ----------------------------
(* Small instances of Publishing for TLC.                                  *)
EXTENDS Publishing

CONSTANTS a, b, c, r1, s1, s2

MCAuthors == {a, b, c}
MCPair == {a, b}
MCReaders == {r1}
\* A restored page gets its first slug back or a second one.
MCSlugs == {s1, s2}

Cast(ka, kb) == [p \in MCPair |-> IF p = a THEN ka ELSE kb]
Scene(ka, kb, mode, events) == [kind |-> Cast(ka, kb), mode |-> mode, events |-> events]

MCScenes ==
    {Scene("tab", k, "block", {}) : k \in {"tab", "edit", "restore", "rollback", "chat"}}
    \cup {Scene("edit", k, "block", {}) : k \in {"edit", "restore", "chat"}}
    \cup {Scene(k, "push", "block", {"cut"}) : k \in {"tab", "edit"}}
    \cup {Scene("tab", "push", "off", {"settings"}),
          Scene("edit", "push", "block", {"settings"}),
          Scene("restore", "push", "off", {"delete"}),
          Scene("chat", "rollback", "off", {"delete", "cut"}),
          Scene("push", "rollback", "block", {"delete"}),
          Scene("push", "rollback", "block", {"losesDelete"})}

\* Two publishes of a gated artifact overlap.
MCGateScenes == {Scene("push", "push", "block", {})}

\* Two tabs of one user, and someone else publishes.
MCTabScenes == {[kind |-> [p \in MCAuthors |-> IF p = c THEN "push" ELSE "tab"],
                 mode |-> "off", events |-> {}]}
=============================================================================
