------------------------------- MODULE MCAgent -------------------------------
(* Small instances of Agent for TLC: one for the gate, where every kind of *)
(* request occurs and the history is kept, and one for the conversation,   *)
(* where the window is small and every tool may run.                       *)
EXTENDS Agent

CONSTANTS read,       \* a read-only tool
          edit, edit2, \* two actions of a mutating tool that read the same
          banned,     \* a command that a default deny rule matches
          format,     \* a mutating tool that the rules file allows
          task, look, \* delegations, the second one read-only
          nothing     \* no usable call

GateRequest == {read, edit, edit2, banned, format, task, look}
GateMutating == GateRequest \ {read}
GateKey == [r \in GateRequest |-> IF r = edit2 THEN edit ELSE r]
GateReplies == {<<edit>>, <<banned, edit2>>, <<read, task>>, <<look, format>>}

\* Bound: the events of the history.
ShortHistory == Len(trace) <= 11

Ruling(deny, allow, auto) ==
    [denyCommands |-> deny, allowCommands |-> allow, denyPaths |-> {}, autoAllowTools |-> auto]
GateDefaults == Ruling({{banned}}, {}, {{read}})
GateFile == Ruling({}, {{banned}}, {{format}})
ContextDefaults == Ruling({}, {}, {{task}})

ContextRequest == {read, task}
ContextKey == [r \in ContextRequest |-> r]
ContextReplies == {<<>>, <<read>>, <<task, nothing>>}

OnlyBanned == {banned}
Tasks == {task, look}
OnlyLook == {look}
OnlyTask == {task}
None == {}
One == {1}
Four == {4}

\* Where every tool that may change something is on the auto-allow list,
\* neither the mode, nor the approvals, nor ever the history influences a step;
\* what a sub-agent of one turn has learned of the rate it never uses; and
\* after the last start nothing follows.
Conversation ==
    IF phase = "off" /\ starts = MaxStarts THEN <<phase>>
    ELSE <<phase, msgs, turn, pending, rate[0], file, nextId, runVars, inputs, starts>>
=============================================================================
