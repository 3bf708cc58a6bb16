------------------------------- MODULE Journal -------------------------------
(***************************************************************************)
(* What a file of records promises to those who read it, whoever writes to *)
(* it and however: it grows one record at a time and nothing that can be   *)
(* read is ever changed, until a write is cut short.  From then on it      *)
(* stays as it is, but for a record whose newline is missing, which the    *)
(* next write spoils.                                                      *)
(***************************************************************************)
EXTENDS Naturals, Sequences

VARIABLES entries,   \* what a reader gets
          condition  \* "sound", "loose" (no newline at the end) or "frozen"

vars == <<entries, condition>>

Init == entries = <<>> /\ condition = "sound"

Grows ==
    /\ Len(entries') = Len(entries) + 1
    /\ SubSeq(entries', 1, Len(entries)) = entries

Write == condition = "sound" /\ Grows /\ condition' = "sound"

WriteWithoutNewline == condition = "sound" /\ Grows /\ condition' = "loose"

CutShort == condition = "sound" /\ condition' = "frozen" /\ UNCHANGED entries

Spoil ==
    /\ condition = "loose"
    /\ condition' = "frozen"
    /\ entries' = SubSeq(entries, 1, Len(entries) - 1)

Next == Write \/ WriteWithoutNewline \/ CutShort \/ Spoil

Spec == Init /\ [][Next]_vars
=============================================================================
