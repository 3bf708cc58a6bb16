-------------------------------- MODULE Agent --------------------------------
(***************************************************************************)
(* One interactive session: the operator at the prompt (cmd/mkr/chat.go),  *)
(* the agent's turn loop (internal/agent/agent.go), the permission gate in *)
(* front of every tool, delegation to a sub-agent (task.go), compaction    *)
(* before each request (context.go), and what the session leaves in its    *)
(* transcript and says in its audit log.  The model server, the tools and  *)
(* the operator answer as they please.                                     *)
(*                                                                         *)
(* Depth 0 is the session's own agent, depth 1 the sub-agent it waits for; *)
(* both run on one goroutine, so only the deeper one ever takes a step.    *)
(***************************************************************************)
EXTENDS Permission, Transcript

CONSTANTS Task,          \* requests that delegate
          ReadOnlyTask,  \* ... with read_only set
          NoTool,        \* a call nothing can be made of: no such tool, bad JSON
          Replies,       \* the tool calls a reply may make, in order
          ReplySizes,    \* sizes of replies
          ResultSizes,   \* sizes of tool results; that of an error is 1
          Rates,         \* tokens per unit of text the estimator may settle on
          InitRate,      \* defaultCharsPerToken
          InitMode,      \* the configured mode
          MaxTurns,      \* cfg.MaxTurns
          SubTurns,      \* subagentMaxTurns
          MaxInputs,     \* bound: lines the operator enters at the prompt
          MaxStarts      \* bound: times the session is started or resumed

ASSUME AgentAssumption ==
    /\ Task \subseteq Mutating /\ ReadOnlyTask \subseteq Task
    /\ NoTool \notin Request
    /\ Replies \subseteq Seq(Request \cup {NoTool})
    /\ ReplySizes \subseteq Nat /\ ResultSizes \subseteq Nat
    /\ Rates \subseteq Nat /\ InitRate \in Rates
    /\ InitMode \in Mode
    /\ MaxTurns \in Nat /\ SubTurns \in Nat /\ MaxInputs \in Nat /\ MaxStarts \in Nat

VARIABLES phase,        \* where the running agent is; "off": no process
          depth,        \* which agent runs
          msgs,         \* Agent.messages, by depth
          turn,         \* the turn counter of Run, by depth
          pending,      \* calls runTools has yet to finish, by depth
          rate,         \* budget.charsPerToken, by depth
          readOnly,     \* the sub-agent has read-only tools
          mode,         \* Engine.mode
          remembered,   \* Engine.remembered
          interrupted,  \* a signal has cancelled the root context
          file,         \* the session transcript
          nextId,       \* ids given out so far, plus one
          inputs,       \* lines entered at the prompt
          starts,       \* times the session was started
          trace         \* history: audit records and what happened, in order

convVars == <<msgs, turn, pending, rate, file, nextId>>
gateVars == <<mode, remembered>>
runVars == <<depth, readOnly, interrupted>>
vars == <<phase, convVars, gateVars, runVars, inputs, starts, trace>>

Depth == 0..1
Phase == {"off", "prompt", "stream", "waiting", "dispatch", "confirm",
          "approved", "tool"}
Call == [id : Nat, req : Request \cup {NoTool}]

\* The audit records "permission" (with its decision), "tool_call", "subagent"
\* and "mode"; and, not in the log, the operator's "answer" and the "run" of a
\* tool.
Event(ev, d, r, what) == [ev |-> ev, by |-> d, req |-> r, what |-> what]

\* Mutation of subRegistry: read_only is not looked at.
subRegistryUnfiltered(ro) == Request \ Task

\* The tools an agent is built with: a sub-agent cannot delegate, nor change
\* anything if it is read-only.
subRegistry(ro) == (Request \ Task) \ (IF ro THEN Mutating ELSE {})
Registry(d) == IF d = 0 THEN Request ELSE subRegistry(readOnly)

Limit(d) == IF d = 0 THEN MaxTurns ELSE SubTurns

\* The call runTools is at.
Current == Head(pending[depth])

-----------------------------------------------------------------------------
NoMsgs == [d \in Depth |-> IF d = 0 THEN <<System(0)>> ELSE <<>>]
NoTurns == [d \in Depth |-> 0]
NoCalls == [d \in Depth |-> <<>>]
InitRates == [d \in Depth |-> InitRate]

Init ==
    /\ msgs = NoMsgs
    /\ turn = NoTurns
    /\ pending = NoCalls
    /\ rate = InitRates
    /\ depth = 0
    /\ readOnly = FALSE
    /\ mode = InitMode
    /\ remembered = {}
    /\ interrupted = FALSE
    /\ phase = "prompt"
    /\ file = <<>>
    /\ nextId = 1
    /\ inputs = 0
    /\ starts = 1
    /\ trace = <<Event("mode", 0, NoTool, InitMode)>>

\* The process is gone: what is left is the transcript and the audit log.
Off ==
    /\ phase' = "off"
    /\ msgs' = NoMsgs
    /\ turn' = NoTurns
    /\ pending' = NoCalls
    /\ rate' = InitRates
    /\ depth' = 0
    /\ readOnly' = FALSE
    /\ mode' = InitMode
    /\ remembered' = {}
    /\ interrupted' = FALSE
    /\ UNCHANGED <<file, nextId, inputs, starts, trace>>

\* Mutation of appendToolResult: the transcript does not get it.
appendToolResultUnsaved(d, n) ==
    LET m == ToolResult(Head(pending[d]).id, n, d) IN
    /\ msgs' = [msgs EXCEPT ![d] = Append(@, m)]
    /\ pending' = [pending EXCEPT ![d] = Tail(@)]
    /\ phase' = "dispatch"
    /\ UNCHANGED <<turn, rate, file, nextId, inputs, starts>>

\* A tool result goes to the agent at depth d and to the transcript, and
\* runTools goes on to the next call.
appendToolResult(d, n) ==
    LET m == ToolResult(Head(pending[d]).id, n, d) IN
    /\ msgs' = [msgs EXCEPT ![d] = Append(@, m)]
    /\ file' = Append(file, m)
    /\ pending' = [pending EXCEPT ![d] = Tail(@)]
    /\ phase' = "dispatch"
    /\ UNCHANGED <<turn, rate, nextId, inputs, starts>>

\* Run returns without having been cancelled, after saying said and logging
\* evs.  The session's agent goes back to the prompt, at rate r, whatever
\* calls are left; a sub-agent's conversation is gone, and the delegating call has its
\* result, whether the sub-agent finished, failed or was stopped.
FinishRun(said, evs, r) ==
    \/ /\ depth = 0
       /\ phase' = "prompt"
       /\ msgs' = [msgs EXCEPT ![0] = @ \o said]
       /\ file' = file \o said
       /\ pending' = [pending EXCEPT ![0] = <<>>]
       /\ turn' = [turn EXCEPT ![0] = 0]
       /\ rate' = [rate EXCEPT ![0] = r]
       /\ trace' = trace \o evs
       /\ UNCHANGED <<nextId, depth, readOnly, interrupted, inputs, starts>>
    \/ /\ depth = 1
       /\ \E n \in ResultSizes :
            LET c == Head(pending[0])
                m == ToolResult(c.id, n, 0)
            IN /\ msgs' = [msgs EXCEPT ![0] = Append(@, m), ![1] = <<>>]
               /\ file' = Append(file \o said, m)
               /\ pending' = [pending EXCEPT ![0] = Tail(@), ![1] = <<>>]
               /\ trace' = Append(trace \o evs, Event("tool_call", 0, c.req, "done"))
       /\ phase' = "dispatch"
       /\ depth' = 0
       /\ turn' = [turn EXCEPT ![1] = 0]
       /\ rate' = [rate EXCEPT ![1] = InitRate]
       /\ readOnly' = FALSE
       /\ UNCHANGED <<nextId, interrupted, inputs, starts>>

-----------------------------------------------------------------------------
(* At the prompt (repl, command).                                          *)

AtPrompt == phase = "prompt" /\ inputs < MaxInputs /\ inputs' = inputs + 1

\* Run begins: the message is in memory and in the transcript.
UserPrompt ==
    LET m == User(nextId, 0) IN
    /\ AtPrompt
    /\ msgs' = [msgs EXCEPT ![0] = Append(@, m)]
    /\ file' = Append(file, m)
    /\ nextId' = nextId + 1
    /\ phase' = "stream"
    /\ UNCHANGED <<turn, pending, rate, gateVars, runVars, starts, trace>>

\* Mutation of SetMode: the approvals of the old mode stay.
SetModeKeepingApprovals(m) ==
    /\ AtPrompt
    /\ mode' = m
    /\ trace' = Append(trace, Event("mode", 0, NoTool, m))
    /\ UNCHANGED <<phase, convVars, remembered, runVars, starts>>

\* /mode: the approvals given so far are forgotten.
SetMode(m) ==
    /\ AtPrompt
    /\ mode' = m
    /\ remembered' = {}
    /\ trace' = Append(trace, Event("mode", 0, NoTool, m))
    /\ UNCHANGED <<phase, convVars, runVars, starts>>

\* /compact
Compact ==
    /\ AtPrompt
    /\ msgs' = [msgs EXCEPT ![0] = compact(rate[0], @)]
    /\ UNCHANGED <<phase, turn, pending, rate, file, nextId, gateVars, runVars,
                   starts, trace>>

\* /clear: the conversation goes, the transcript keeps it.
Reset ==
    /\ AtPrompt
    /\ msgs' = [msgs EXCEPT ![0] = <<System(0)>>]
    /\ UNCHANGED <<phase, turn, pending, rate, file, nextId, gateVars, runVars,
                   starts, trace>>

\* /exit, or the end of input.
Exit == phase = "prompt" /\ Off

\* mkr -resume: everything in the transcript, after a new system prompt.
Resume ==
    /\ phase = "off"
    /\ starts < MaxStarts
    /\ starts' = starts + 1
    /\ phase' = "prompt"
    /\ msgs' = [msgs EXCEPT ![0] = <<System(0)>> \o file]
    /\ trace' = Append(trace, Event("mode", 0, NoTool, InitMode))
    /\ UNCHANGED <<turn, pending, rate, file, nextId, gateVars, runVars, inputs>>

-----------------------------------------------------------------------------
(* The turn loop (Run, stream).                                            *)

\* Mutation of SendRequest: the transcript is never compacted.
SendRequestUncompacted ==
    /\ phase = "stream"
    /\ turn[depth] < Limit(depth)
    /\ ~interrupted
    /\ phase' = "waiting"
    /\ UNCHANGED <<convVars, gateVars, runVars, inputs, starts, trace>>

SendRequest ==
    /\ phase = "stream"
    /\ turn[depth] < Limit(depth)
    /\ ~interrupted
    /\ msgs' = IF needsCompaction(rate[depth], msgs[depth])
                 THEN [msgs EXCEPT ![depth] = compact(rate[depth], @)] ELSE msgs
    /\ phase' = "waiting"
    /\ UNCHANGED <<turn, pending, rate, file, nextId, gateVars, runVars, inputs,
                   starts, trace>>

\* The loop's condition fails.
TurnBudgetSpent ==
    /\ phase = "stream"
    /\ turn[depth] = Limit(depth)
    /\ FinishRun(<<>>, <<>>, rate[0])
    /\ UNCHANGED gateVars

\* A complete reply that makes calls.
Reply(reqs, n, r) ==
    LET ids == [k \in 1..Len(reqs) |-> nextId + k - 1]
        m == Assistant(ids, n, depth)
    IN /\ phase = "waiting"
       /\ reqs # <<>>
       /\ msgs' = [msgs EXCEPT ![depth] = Append(@, m)]
       /\ file' = Append(file, m)
       /\ pending' = [pending EXCEPT ![depth] =
                        [k \in 1..Len(reqs) |-> [id |-> ids[k], req |-> reqs[k]]]]
       /\ nextId' = nextId + Len(reqs)
       /\ rate' = [rate EXCEPT ![depth] = r]
       /\ phase' = "dispatch"
       /\ UNCHANGED <<turn, gateVars, runVars, inputs, starts, trace>>

\* A complete reply that makes none ends the run.
FinalReply(n, r) ==
    /\ phase = "waiting"
    /\ <<>> \in Replies
    /\ FinishRun(<<Assistant(<<>>, n, depth)>>, <<>>, r)
    /\ UNCHANGED gateVars

\* Mutation of StreamFails: no deadline on the request.
StreamFailsNever ==
    /\ phase = "waiting" /\ interrupted /\ ~interrupted
    /\ FinishRun(<<>>, <<>>, rate[0])
    /\ UNCHANGED gateVars

\* The stream breaks or RequestTimeout passes: what was received is dropped.
StreamFails ==
    /\ phase = "waiting" /\ ~interrupted
    /\ FinishRun(<<>>, <<>>, rate[0])
    /\ UNCHANGED gateVars

\* Wherever the cancelled context is noticed, Run returns context.Canceled,
\* through the sub-agent and the agent, and repl, whose own context is the
\* cancelled one, ends the session.
Cancelled ==
    /\ interrupted
    /\ \/ phase = "stream" /\ turn[depth] < Limit(depth)
       \/ phase = "waiting"
       \/ phase = "dispatch" /\ pending[depth] # <<>>
       \/ phase = "tool" /\ Current.req \notin Task
    /\ Off

-----------------------------------------------------------------------------
(* One call after the other (runTools).                                    *)

AtCall == phase = "dispatch" /\ pending[depth] # <<>> /\ ~interrupted

\* Mutation of NextTurn: the budget is counted down from nothing.
NextTurnDown ==
    /\ phase = "dispatch"
    /\ pending[depth] = <<>>
    /\ turn' = [turn EXCEPT ![depth] = @ - 1]
    /\ phase' = "stream"
    /\ UNCHANGED <<msgs, pending, rate, file, nextId, gateVars, runVars, inputs,
                   starts, trace>>

NextTurn ==
    /\ phase = "dispatch"
    /\ pending[depth] = <<>>
    /\ turn' = [turn EXCEPT ![depth] = @ + 1]
    /\ phase' = "stream"
    /\ UNCHANGED <<msgs, pending, rate, file, nextId, gateVars, runVars, inputs,
                   starts, trace>>

\* An unknown tool or malformed arguments: no permission record is written.
BadCall ==
    /\ AtCall
    /\ Current.req \notin Registry(depth)
    /\ appendToolResult(depth, 1)
    /\ UNCHANGED <<gateVars, runVars, trace>>

\* Mutation of Check: a call that is allowed is logged only once it has run.
CheckUnlogged ==
    LET r == Current.req
        d == Evaluate(mode, remembered, r)
    IN /\ AtCall
       /\ r \in Registry(depth)
       /\ d # "ask"
       /\ IF d = "deny" THEN appendToolResult(depth, 1)
          ELSE phase' = "approved" /\ UNCHANGED <<convVars, inputs, starts>>
       /\ UNCHANGED <<gateVars, runVars, trace>>

\* Check decides by itself, and the decision is logged.
Check ==
    LET r == Current.req
        d == Evaluate(mode, remembered, r)
    IN /\ AtCall
       /\ r \in Registry(depth)
       /\ d # "ask"
       /\ trace' = Append(trace, Event("permission", depth, r, d))
       /\ IF d = "deny" THEN appendToolResult(depth, 1)
          ELSE phase' = "approved" /\ UNCHANGED <<convVars, inputs, starts>>
       /\ UNCHANGED <<gateVars, runVars>>

\* Check asks the operator.
Ask ==
    /\ AtCall
    /\ Current.req \in Registry(depth)
    /\ Evaluate(mode, remembered, Current.req) = "ask"
    /\ phase' = "confirm"
    /\ UNCHANGED <<convVars, gateVars, runVars, inputs, starts, trace>>

\* What is logged of an answer: the answer itself is not, the decision is.
Answered(a, d) ==
    <<Event("answer", depth, Current.req, a), Event("permission", depth, Current.req, d)>>

\* Yes, or always: the same action is not asked about again.
AnswerYes(a) ==
    /\ phase = "confirm"
    /\ remembered' = IF a = "always" THEN remembered \cup {rememberKey[Current.req]}
                     ELSE remembered
    /\ trace' = trace \o Answered(a, "allow")
    /\ phase' = "approved"
    /\ UNCHANGED <<convVars, mode, runVars, inputs, starts>>

\* No, anything unrecognised, or the input closed.
AnswerNo ==
    /\ phase = "confirm"
    /\ trace' = trace \o Answered("no", "deny")
    /\ appendToolResult(depth, 1)
    /\ UNCHANGED <<gateVars, runVars>>

\* Quit: runTools says stop, and Run returns nil.
AnswerQuit ==
    /\ phase = "confirm"
    /\ FinishRun(<<>>, Answered("quit", "deny"), rate[0])
    /\ UNCHANGED gateVars

\* tool.Run begins.  A delegation whose arguments are no use is one too.
RunTool ==
    /\ phase = "approved"
    /\ trace' = Append(trace, Event("run", depth, Current.req, "start"))
    /\ phase' = "tool"
    /\ UNCHANGED <<convVars, gateVars, runVars, inputs, starts>>

\* taskTool.Run, newSubagent and the start of the sub-agent's Run: it shares
\* the permission engine, the audit log and the transcript.
Delegate ==
    LET m == User(nextId, 1)
        r == Current.req
    IN /\ phase = "approved" /\ depth = 0 /\ r \in Task
       /\ depth' = 1
       /\ readOnly' = (r \in ReadOnlyTask)
       /\ msgs' = [msgs EXCEPT ![1] = <<System(1), m>>]
       /\ file' = Append(file, m)
       /\ nextId' = nextId + 1
       /\ trace' = trace \o <<Event("run", 0, r, "start"), Event("subagent", 1, r, "start")>>
       /\ phase' = "stream"
       /\ UNCHANGED <<turn, pending, rate, gateVars, interrupted, inputs, starts>>

\* tool.Run returns a result.  It may do so after an interrupt too.
ToolDone(n) ==
    /\ phase = "tool"
    /\ trace' = Append(trace, Event("tool_call", depth, Current.req, "done"))
    /\ appendToolResult(depth, n)
    /\ UNCHANGED <<gateVars, runVars>>

\* tool.Run returns an error: the model is told, the audit log is not.
ToolFails ==
    /\ phase = "tool" /\ ~interrupted /\ Current.req \notin Task
    /\ appendToolResult(depth, 1)
    /\ UNCHANGED <<gateVars, runVars, trace>>

-----------------------------------------------------------------------------
\* Ctrl+C.  Nothing that waits for the operator notices it.
Interrupt ==
    /\ phase # "off" /\ ~interrupted
    /\ interrupted' = TRUE
    /\ UNCHANGED <<phase, convVars, gateVars, depth, readOnly, inputs, starts, trace>>

\* The process is killed, between two writes.
Kill == phase # "off" /\ Off

AnyReply == \E reqs \in Replies, n \in ReplySizes, r \in Rates : Reply(reqs, n, r)

Next ==
    \/ UserPrompt
    \/ \E m \in Mode : SetMode(m)
    \/ Compact
    \/ Reset
    \/ Exit
    \/ Resume
    \/ SendRequest
    \/ TurnBudgetSpent
    \/ AnyReply
    \/ \E n \in ReplySizes, r \in Rates : FinalReply(n, r)
    \/ StreamFails
    \/ Cancelled
    \/ NextTurn
    \/ BadCall
    \/ Check
    \/ Ask
    \/ \E a \in {"yes", "always"} : AnswerYes(a)
    \/ AnswerNo
    \/ AnswerQuit
    \/ RunTool
    \/ Delegate
    \/ \E n \in ResultSizes : ToolDone(n)
    \/ ToolFails
    \/ Interrupt
    \/ Kill

Spec == Init /\ [][Next]_vars

\* The program's own steps.  One goroutine takes them; a request ends at its
\* deadline at the latest; a tool returns.  That the server replies, or the
\* operator answers or types anything, is not assumed.
Progress ==
    \/ SendRequest
    \/ TurnBudgetSpent
    \/ StreamFails
    \/ Cancelled
    \/ NextTurn
    \/ BadCall
    \/ Check
    \/ \E n \in ResultSizes : ToolDone(n)
    \/ Ask
    \/ RunTool

FairSpec == Spec /\ WF_vars(Progress)
-----------------------------------------------------------------------------
(* Properties of the gate, over the history.                               *)

\* The types of the session's state.
TypeOK ==
    /\ phase \in Phase
    /\ depth \in Depth
    /\ msgs \in [Depth -> Seq(Message)]
    /\ turn \in [Depth -> Nat]
    /\ pending \in [Depth -> Seq(Call)]
    /\ rate \in [Depth -> Rates]
    /\ readOnly \in BOOLEAN
    /\ mode \in Mode
    /\ remembered \subseteq Key
    /\ interrupted \in BOOLEAN
    /\ file \in Seq(Message)
    /\ nextId \in Nat /\ inputs \in Nat /\ starts \in Nat

\* The mode in force at i was set at j.
ModeSet(j, i) ==
    /\ j \in 1..i - 1 /\ trace[j].ev = "mode"
    /\ \A k \in j + 1..i - 1 : trace[k].ev # "mode"

\* What the agent at depth d did last before i, starting or finishing a tool,
\* is at j.
LastOwn(j, i, d) ==
    LET Own(k) == trace[k].by = d /\ trace[k].ev \in {"run", "tool_call"}
    IN j \in 1..i - 1 /\ Own(j) /\ \A k \in j + 1..i - 1 : ~Own(k)

\* Between j and i the operator was shown exactly what runs at i and consented:
\* always, or yes, to this call, with nothing run since.
Consented(j, i) ==
    \E a \in j + 1..i - 1 :
        /\ trace[a].ev = "answer" /\ trace[a].req = trace[i].req
        /\ \/ trace[a].what = "always"
           \/ trace[a].what = "yes" /\ \A k \in a..i - 1 : trace[k].ev # "run"

\* Between j and i the operator said always to an action that was shown, and is
\* kept under the key of what runs at i, which may be another.
KeyApproved(j, i) ==
    \E a \in j + 1..i - 1 :
        /\ trace[a].ev = "answer" /\ trace[a].what = "always"
        /\ trace[a].req \in Request
        /\ rememberKey[trace[a].req] = rememberKey[trace[i].req]

\* The gate as such: who is asked about what, what has been let through, and
\* what runs, under a delegation or by itself.
Gate == INSTANCE Consent WITH
    Nothing <- NoTool,
    standing <- remembered,
    asked <- IF phase = "confirm" THEN Current.req ELSE NoTool,
    due <- IF phase = "approved" THEN Current.req ELSE NoTool,
    running <- (IF depth = 1 THEN <<Head(pending[0]).req>> ELSE <<>>)
               \o (IF phase = "tool" THEN <<Current.req>> ELSE <<>>)

\* Whatever becomes of the turns around it, a call passes the gate before it
\* runs, once for each time, the operator's answer is about the call that was
\* shown, and quits, failures, interrupts and kills leave nothing behind that
\* could run later (runTools, Check, SetMode, newSubagent).
GateKeepsConsent == Gate!Spec

\* Nothing runs, in the session's agent or in a sub-agent, that a deny rule of
\* the defaults or of the rules file matches; and nothing that changes anything,
\* unless its tool is on the auto-allow list, runs in plan mode, nor in approve
\* mode but on the operator's answer since that mode was set: yes or always to
\* that very request, or always to one kept under the same key.  A key is a tool
\* and a summary, so the last may be an action the operator never saw: that much
\* and no more is what an approval reaches; OnlyWhatWasShownRuns is the promise.
NothingForbiddenRuns ==
    \A i, j \in 1..Len(trace) : trace[i].ev = "run" /\ ModeSet(j, i) =>
        /\ \A rules \in {DefaultRules, RulesFile} \ {NoRulesFile} :
             /\ ~Matches(rules.denyCommands \cup rules.denyPaths, trace[i].req)
             /\ trace[i].req \in Command /\ rules.allowCommands # {} =>
                  Matches(LoadRules.allowCommands, trace[i].req)
        /\ trace[i].req \in Mutating \ AutoTool =>
             \/ trace[j].what = "auto"
             \/ trace[j].what = "approve" /\ (Consented(j, i) \/ KeyApproved(j, i))

\* In approve mode whatever changes something, and is not of a tool on the
\* auto-allow list, is exactly what the operator was shown and consented to in
\* that mode, by yes for this once or by always for the rest of the session
\* (Check, rememberKey, Describe).
OnlyWhatWasShownRuns ==
    \A i, j \in 1..Len(trace) :
        /\ trace[i].ev = "run" /\ trace[i].req \in Mutating \ AutoTool
        /\ ModeSet(j, i) /\ trace[j].what = "approve"
        => Consented(j, i)

\* Each run has its permission record, saying allow, in the audit log before
\* it starts and with nothing logged in between; each tool_call record is
\* about the last thing its agent started, and is the only one about it.
AuditTellsOfEveryRun ==
    \A i \in 1..Len(trace) :
        LET e == trace[i] IN
        /\ e.ev = "run" =>
             i > 1 /\ trace[i - 1] = Event("permission", e.by, e.req, "allow")
        /\ e.ev = "tool_call" =>
             \E j \in 1..Len(trace) :
                LastOwn(j, i, e.by) /\ trace[j].ev = "run" /\ trace[j].req = e.req

\* What a sub-agent runs, it runs while the delegation that the session's
\* agent is waiting for is under way; it delegates nothing further, and
\* changes nothing when it was asked to be read-only.
SubagentStaysInBounds ==
    \A i \in 1..Len(trace) : trace[i].ev = "run" /\ trace[i].by = 1 =>
        \E j \in 1..Len(trace) :
            /\ LastOwn(j, i, 0)
            /\ trace[j].ev = "run" /\ trace[j].req \in Task
            /\ trace[i].req \notin Task
            /\ trace[j].req \in ReadOnlyTask => trace[i].req \notin Mutating

\* A run always comes to an end, whatever the model asks for and even if the
\* server never answers: back at the prompt, with the process, or waiting for
\* the operator to answer.
EveryRunEnds == []<>(phase \in {"prompt", "off", "confirm"})

-----------------------------------------------------------------------------
(* Properties of the conversation.                                         *)

Sent == phase = "waiting"

\* The operator has quit the session's own agent in the middle of its calls.
CallsAbandoned ==
    \E i \in 1..Len(trace) :
        trace[i].ev = "answer" /\ trace[i].what = "quit" /\ trace[i].by = 0

\* Every request the server gets is one it accepts: each call answered, in
\* turn and at once, and no result without its call, however the
\* conversation was compacted.  After a resume, which may begin in the middle
\* of a turn, still no result without its call, unless a sub-agent wrote to
\* the transcript.
RequestsWellFormed ==
    Sent =>
        /\ starts = 1 /\ ~CallsAbandoned => Paired(msgs[depth])
        /\ (\A i \in 1..Len(file) : file[i].by = 0) =>
             orphanedToolResults(msgs[depth]) = {}

\* A request over the compaction threshold is sent only when nothing more
\* may be dropped.
OverThresholdOnlyAtFloor ==
    Sent /\ needsCompaction(rate[depth], msgs[depth]) =>
        AtFloor(msgs[depth], BodyStart(msgs[depth]))

\* Compacting what has just been compacted changes nothing more.
CompactionSettles ==
    Sent => LET m == compact(rate[depth], msgs[depth])
            IN compact(rate[depth], m) = m

Same(a, b) == [a EXCEPT !.size = 0] = [b EXCEPT !.size = 0]

\* new is old with the front of its body gone and old results shortened.
KeepsRecent(old, new) ==
    LET gone == Len(old) - Len(new)
        b == BodyStart(old)
    IN /\ gone >= 0
       /\ SubSeq(new, 1, b - 1) = SubSeq(old, 1, b - 1)
       /\ gone > 0 => Len(new) - (b - 1) >= MinKept
       /\ \A i \in b..Len(new) :
            /\ Same(new[i], old[i + gone])
            /\ new[i].size # old[i + gone].size =>
                 new[i].role = "tool" /\ LaterResults(new, i) >= KeepRecent

\* Compaction takes away from the front only: the system prompt, the last
\* MinKept messages and the last KeepRecent tool results stay whole, and
\* what else stays is there in its order.
CompactionKeepsRecent ==
    [][SendRequest \/ Compact => \A d \in Depth : KeepsRecent(msgs[d], msgs'[d])]_vars

\* Whatever an agent remembers is in the transcript, in the same order, for a
\* resume to find.
TranscriptCoversMemory ==
    Sent =>
        LET body == SubSeq(msgs[depth], 2, Len(msgs[depth]))
            at[i \in 0..Len(body)] ==  \* the end of body[1..i] in the file
                IF i = 0 THEN 0
                ELSE LET before == at[i - 1]
                         hit == {j \in before + 1..Len(file) : Same(file[j], body[i])}
                     IN IF hit = {} THEN Len(file) + 1
                        ELSE CHOOSE j \in hit : \A k \in hit : j <= k
        IN at[Len(body)] <= Len(file)

\* No request carries a tool result whose call is gone.
NoOrphanedResults == Sent => orphanedToolResults(msgs[depth]) = {}
=============================================================================
