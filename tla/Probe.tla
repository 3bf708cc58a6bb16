-------------------------------- MODULE Probe --------------------------------
(***************************************************************************)
(* How a session settles on an adapter (internal/provider/probe.go,        *)
(* cmd/mkr/chat.go): unless the configuration says which, the server is    *)
(* asked for one native tool call, and whatever comes of that request      *)
(* decides.  Then come the session's replies.                              *)
(***************************************************************************)
EXTENDS Stream

CONSTANTS Served,     \* the models the endpoint lists, or none
          Model,      \* the configured model, or ""
          ProbeTool,  \* probeToolName
          Json        \* the arguments that are JSON

ASSUME ProbeAssumption ==
    /\ {"native", "xml"} = Adapters
    /\ Served \in Seq([id : STRING \ {""}, maxModelLen : Nat])

VARIABLES stage,  \* "start", "test", "session" or "failed"
          caps    \* Capabilities

probeVars == <<stage, caps>>
allVars == <<vars, probeVars>>

NoCaps == [model |-> Model, maxModelLen |-> 0, nativeTools |-> FALSE, adapter |-> ""]

ProbeInit ==
    /\ Init
    /\ adapter = "native"
    /\ stage = "start"
    /\ caps = NoCaps

\* The window listed for a model, the last one if there are several.
Window(model) ==
    LET windows == SelectSeq(Served, LAMBDA m : m.id = model /\ m.maxModelLen > 0) IN
    IF windows = <<>> THEN 0 ELSE Last(windows).maxModelLen

\* The first model, unless one is configured.
Listed ==
    LET model == IF Model = "" THEN Served[1].id ELSE Model IN
    [NoCaps EXCEPT !.model = model, !.maxModelLen = Window(model)]

\* No list of models, or an empty one: there is no session.
ModelsFail ==
    /\ stage = "start"
    /\ stage' = "failed"
    /\ UNCHANGED <<vars, caps>>

\* The session's replies come by adapter a.
SettleOn(a, base) ==
    /\ caps' = [base EXCEPT !.adapter = a, !.nativeTools = (a = "native")]
    /\ stage' = "session"
    /\ Begin(a)

Forced(want) ==
    /\ stage = "start"
    /\ Served # <<>>
    /\ SettleOn(want, Listed)

\* testNativeTools sends its request; no adapter is between it and the reply.
Test ==
    /\ stage = "start"
    /\ Served # <<>>
    /\ stage' = "test"
    /\ caps' = Listed
    /\ Begin("native")

\* Mutation of Usable: whether the call has come in whole is not looked at.
UsableUnchecked == calls # <<>> /\ Head(Last(calls).what) = ProbeTool

\* The last call that came is the one that was asked for.
Usable ==
    /\ calls # <<>>
    /\ Head(Last(calls).what) = ProbeTool
    /\ Tail(Last(calls).what) \in Json

\* An error of any kind, time that runs out and an interrupt included, is an
\* answer as well.
TestEnds ==
    /\ stage = "test"
    /\ status # "open"
    /\ SettleOn(IF status = "done" /\ Usable THEN "native" ELSE "xml", caps)

Replies ==
    \/ stage \in {"test", "session"} /\ Receive
    \/ stage = "session" /\ NextReply

ProbeNext ==
    \/ ModelsFail
    \/ \E want \in Adapters : Forced(want)
    \/ Test
    \/ TestEnds
    \/ Replies /\ UNCHANGED probeVars

ProbeSpec == ProbeInit /\ [][ProbeNext]_allVars

-----------------------------------------------------------------------------
(* Properties.                                                             *)

\* A server is believed to make native calls only if a complete reply of its
\* had, on the wire and in whole, the call that was asked for as its last
\* one, in however many fragments and in whatever order they came; and then
\* it is.  Every other outcome of the test leaves a session by the adapter
\* that needs nothing of the server (probe.go:47-57).
ProbeBelievesOnlyWholeCalls ==
    [][stage = "test" /\ stage' # "test" =>
          LET named == {i \in DOMAIN Plan : sent[i] > 0 /\ Said(i, sent[i]).name # ""}
              last == Said(Max(named), sent[Max(named)])
              proven == /\ status = "done" /\ named # {}
                        /\ last.name = ProbeTool /\ last.args \in Json
          IN /\ stage' = "session"
             /\ caps'.adapter = IF proven THEN "native" ELSE "xml"
             /\ caps'.adapter = adapter']_allVars
=============================================================================
