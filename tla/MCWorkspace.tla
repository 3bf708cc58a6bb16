---------------------------- MODULE MCWorkspace -----------------------------
(***************************************************************************)
(* Workspace for TLC: every text of up to MaxWritten symbols, and texts    *)
(* whose lines differ at both ends or are more than are compared.          *)
(***************************************************************************)
EXTENDS Workspace

CONSTANTS Letter, MaxWritten, MaxPart

Short(n) == {t : t \in UNION {[1..k -> {Letter, Newline}] : k \in 0..n}}

Lines(n) == [k \in 1..n |-> Newline]

MCContents ==
    Short(MaxWritten) \cup
    {<<Letter>> \o Lines(4) \o <<Letter>>, Lines(3), Lines(5) \o <<Letter>>, Lines(6)}

MCForeign == {<<>>, <<Letter>>, <<Newline, Letter>>}
MCParts == Short(MaxPart)
=============================================================================
