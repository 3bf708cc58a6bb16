------------------------------ MODULE LineFile ------------------------------
(***************************************************************************)
(* A JSON-lines file that several processes open for append: the audit log *)
(* and the session transcripts.  A writer hands one whole record and its   *)
(* newline to the operating system in a single write (bufio with an empty  *)
(* buffer, then Flush), and O_APPEND puts it at the end of the file.  What *)
(* a write that is cut short leaves behind is the last thing in the file,  *)
(* with no newline, and the next record is glued to it.                    *)
(*                                                                         *)
(* A file is a record: its lines, each well formed JSON or not, and        *)
(* whether the last line lacks its newline.                                *)
(***************************************************************************)
EXTENDS Naturals, Sequences

EmptyFile == [lines |-> <<>>, open |-> FALSE]

LineOf(Value) == [ok : BOOLEAN, val : Value]
FileOf(Value) == [lines : Seq(LineOf(Value)), open : BOOLEAN]

\* How much of "record + newline" a failed write leaves: nothing, a fragment
\* that does not parse, or the whole record without its newline.
Cuts == {"none", "part", "whole"}

Malformed(line) == [ok |-> FALSE, val |-> line.val]

\* The file after a write of v.  how is "line" for a complete write, or one of
\* Cuts.  On an open last line the new text makes one malformed line with it.
WriteLine(f, v, how) ==
    IF how = "none" THEN f
    ELSE [lines |-> IF f.open
                      THEN [f.lines EXCEPT ![Len(f.lines)] = Malformed(@)]
                      ELSE Append(f.lines, [ok |-> how # "part", val |-> v]),
          open  |-> how # "line"]

\* Every line parses.
WellFormed(f) == \A i \in 1..Len(f.lines) : f.lines[i].ok

\* The lines before the first one that does not parse, all of which do.
GoodPrefix(f) ==
    LET bad == {i \in 1..Len(f.lines) : ~f.lines[i].ok}
        end == IF bad = {} THEN Len(f.lines)
               ELSE (CHOOSE i \in bad : \A j \in bad : i <= j) - 1
    IN [i \in 1..end |-> f.lines[i].val]

\* What becomes of the next write to it.
Condition(f) ==
    CASE ~WellFormed(f) -> "frozen"
      [] WellFormed(f) /\ f.open -> "loose"
      [] WellFormed(f) /\ ~f.open -> "sound"
=============================================================================
