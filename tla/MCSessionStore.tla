--------------------------- MODULE MCSessionStore ---------------------------
(* Small instances of SessionStore for TLC.                                *)
EXTENDS SessionStore, TLC

CONSTANTS p1, p2, s1, s2, m1, m2

MCProcess == {p1, p2}
MCSid == {s1, s2}
MCMsg == {m1, m2}

\* Processes, sessions and messages are interchangeable in every action.
Symmetry ==
    Permutations(MCProcess) \cup Permutations(MCSid) \cup Permutations(MCMsg)
=============================================================================
