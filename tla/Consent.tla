------------------------------- MODULE Consent -------------------------------
(***************************************************************************)
(* What the permission gate promises, without the conversation, the        *)
(* server, or how a session comes to run anything: nothing runs but what   *)
(* has been let through, each thing let through runs once at most, what    *)
(* is asked about is let through by the operator alone, and what an        *)
(* approval or a mode allows ends with that mode.                          *)
(***************************************************************************)
EXTENDS Permission, Integers, Sequences

CONSTANTS Task, ReadOnlyTask,  \* the requests that delegate
          InitMode,
          Nothing              \* no request

VARIABLES mode,
          standing,  \* approvals that are to be remembered
          asked,     \* what the operator is being asked about
          due,       \* what has been let through and has not begun
          running    \* what runs: a delegation, and what runs inside it

vars == <<mode, standing, asked, due, running>>

Idle == asked = Nothing /\ due = Nothing

Init ==
    /\ mode = InitMode
    /\ standing = {}
    /\ Idle
    /\ running = <<>>

\* What may be thought of at all: inside a delegation no other one, and
\* nothing that changes anything if it was to be read-only.
Within == IF running = <<>> THEN Request
          ELSE (Request \ Task) \ (IF running[1] \in ReadOnlyTask THEN Mutating ELSE {})

Free == Idle /\ (running = <<>> \/ (Len(running) = 1 /\ running[1] \in Task))

\* By the rules, by the mode, or by an approval that still stands.
LetThrough(r) ==
    /\ Free
    /\ r \in Within
    /\ ~RuleDenied(r)
    /\ \/ r \notin Mutating
       \/ r \in AutoTool
       \/ mode = "auto"
       \/ mode = "approve" /\ rememberKey[r] \in standing
    /\ due' = r
    /\ UNCHANGED <<mode, standing, asked, running>>

\* The operator is asked, in approve mode, about what no rule refuses.
Ask(r) ==
    /\ Free
    /\ r \in Within \cap Mutating
    /\ mode = "approve"
    /\ ~RuleDenied(r)
    /\ asked' = r
    /\ UNCHANGED <<mode, standing, due, running>>

Consents ==
    /\ asked # Nothing
    /\ due' = asked
    /\ asked' = Nothing
    /\ standing' \in {standing, standing \cup {rememberKey[asked]}}
    /\ UNCHANGED <<mode, running>>

Declines ==
    /\ asked # Nothing
    /\ asked' = Nothing
    /\ UNCHANGED <<mode, standing, due, running>>

Begins ==
    /\ due # Nothing
    /\ running' = Append(running, due)
    /\ due' = Nothing
    /\ UNCHANGED <<mode, standing, asked>>

\* A delegation may end with what is asked inside it.
Ends ==
    /\ running # <<>>
    /\ due = Nothing
    /\ running' = SubSeq(running, 1, Len(running) - 1)
    /\ asked' = Nothing
    /\ UNCHANGED <<mode, standing, due>>

\* Between two requests of the operator.
ChangeMode ==
    /\ Idle
    /\ running = <<>>
    /\ mode' \in Mode
    /\ standing' = {}
    /\ UNCHANGED <<asked, due, running>>

\* The session is over, or begins again.
Stops ==
    /\ mode' = InitMode
    /\ standing' = {}
    /\ asked' = Nothing
    /\ due' = Nothing
    /\ running' = <<>>

Next ==
    \/ \E r \in Request : LetThrough(r) \/ Ask(r)
    \/ Consents
    \/ Declines
    \/ Begins
    \/ Ends
    \/ ChangeMode
    \/ Stops

Spec == Init /\ [][Next]_vars
=============================================================================
