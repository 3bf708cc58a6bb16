------------------------------- MODULE Stream -------------------------------
(***************************************************************************)
(* Streamed replies, from the lines of the event stream to what the        *)
(* agent's stream() collects (internal/provider/sse.go, client.go,         *)
(* adapter.go, xmladapter.go, internal/agent/agent.go): events are put     *)
(* together from data lines, native tool calls from fragments, in-band     *)
(* tool calls from text that is cut up anyhow.                             *)
(*                                                                         *)
(* Comments, heartbeats and other fields leave no trace in the reader and  *)
(* are no action.  Reasoning text, usage and finish reason pass through    *)
(* and are left out.                                                       *)
(***************************************************************************)
EXTENDS Tags

CONSTANTS Adapters,  \* the adapters probed for: a subset of {"native", "xml"}
          Texts,     \* by adapter: what the model may say, and each beginning
          Pieces,    \* the pieces in which it may arrive
          Plan       \* by index: the fragments of a native tool call, in order

\* An id: the server's own, or made up by the accumulator or the filter.
Id(from, n) == [from |-> from, n |-> n]
IdType == [from : {"none", "server", "call", "xmlcall"}, n : Nat]
NoId == Id("none", 0)

\* A native call comes in fragments: not all have an id or a name.
Fragment(id, name, args) == [id |-> id, name |-> name, args |-> args]
Fragments == [id : {x \in IdType : x = NoId \/ x.from = "server"}, name : STRING, args : Text]

\* A server that gives ids gives no two calls the same.
ASSUME StreamAssumption ==
    /\ Adapters \subseteq {"native", "xml"}
    /\ \A a \in Adapters : Texts[a] \subseteq Text /\ <<>> \in Texts[a]
    /\ Pieces \subseteq Text
    /\ DOMAIN Plan \subseteq Nat /\ IsFiniteSet(DOMAIN Plan)
    /\ \A i \in DOMAIN Plan : Plan[i] \in Seq(Fragments)
    /\ \A i, j \in DOMAIN Plan : \A m \in 1..Len(Plan[i]), n \in 1..Len(Plan[j]) :
          Plan[i][m].id = Plan[j][n].id => i = j \/ Plan[i][m].id = NoId

VARIABLES adapter,
          said,    \* the server's: text of the events it has put on the wire
          sent,    \* the server's: fragments it has put on the wire, by index
          data,    \* sseReader.data: the data lines of the current event
          body,    \* "open", or "ended" once the reader has seen its end
          status,  \* of consumeStream: "open", "done" or "failed"
          acc,     \* toolCallAccumulator.byIndex
          filter,  \* xmlFilter, with all the text it has emitted
          calls    \* the calls stream() returns

vars == <<adapter, said, sent, data, body, status, acc, filter, calls>>

-----------------------------------------------------------------------------
(* A chunk and the data lines that carry it.  JSON may be broken over two. *)

Chunk(text, deltas) == [text |-> text, deltas |-> deltas]
NoChunk == Chunk(<<>>, <<>>)
Line(part, chunk) == [part |-> part, chunk |-> chunk]

\* Lines that carry none: the end marker, something that is not JSON, a
\* value of nothing but spaces.
OtherLines == {Line(p, NoChunk) : p \in {"marker", "junk", "spaces"}}

\* json.Unmarshal of the joined lines succeeds.
Decodes(lines) ==
    \/ Len(lines) = 1 /\ lines[1].part = "whole"
    \/ Len(lines) = 2 /\ lines[1].part = "first" /\ lines[2].part = "second"

-----------------------------------------------------------------------------
(* The accumulator of native tool calls.                                   *)

EmptyCall == Fragment(NoId, "", <<>>)

Latest(new, old, none) == IF new = none THEN old ELSE new

\* Mutation of Merge: an absent id erases the one that was there.
MergeForgetful(tc, d) ==
    Fragment(d.id, Latest(d.name, tc.name, ""), tc.args \o d.args)

Merge(tc, d) ==
    Fragment(Latest(d.id, tc.id, NoId), Latest(d.name, tc.name, ""), tc.args \o d.args)

\* Mutation of add: indices are taken to begin at one.
addFromOne(byIndex, deltas) ==
    [i \in DOMAIN byIndex \cup {j + 1 : j \in DOMAIN deltas} |->
        LET tc == IF i \in DOMAIN byIndex THEN byIndex[i] ELSE EmptyCall IN
        IF i - 1 \in DOMAIN deltas THEN Merge(tc, deltas[i - 1]) ELSE tc]

\* A chunk holds at most one fragment of each call.
add(byIndex, deltas) ==
    [i \in DOMAIN byIndex \cup DOMAIN deltas |->
        LET tc == IF i \in DOMAIN byIndex THEN byIndex[i] ELSE EmptyCall IN
        IF i \in DOMAIN deltas THEN Merge(tc, deltas[i]) ELSE tc]

ToolCall(id, what) == [id |-> id, what |-> what]

\* Calls in index order.  An index that never named a function is not a call.
assembled(byIndex) ==
    LET named == {i \in DOMAIN byIndex : byIndex[i].name # ""} IN
    [k \in 1..Cardinality(named) |->
        LET i == Ascending(named)[k] IN
        ToolCall(Latest(byIndex[i].id, Id("call", i), NoId),
                 <<byIndex[i].name>> \o byIndex[i].args)]

-----------------------------------------------------------------------------
(* The filter of the XML adapter.                                          *)

NewFilter == [buf |-> <<>>, inCall |-> FALSE, calls |-> <<>>, counter |-> 0,
              shown |-> <<>>]
FilterState == [buf : Text, inCall : BOOLEAN,
                calls : Seq([id : IdType, what : Text]),
                counter : Nat, shown : Text]

\* Mutation of newCall: the counter stands still.
newCallUncounted(f, what) ==
    [f EXCEPT !.calls = Append(@, ToolCall(Id("xmlcall", f.counter + 1), what))]

newCall(f, what) ==
    [f EXCEPT !.counter = @ + 1,
              !.calls = Append(@, ToolCall(Id("xmlcall", f.counter + 1), what))]

\* Mutation of partialTagSuffix: nothing is held back.
partialTagSuffixNone(s) == 0

\* The longest suffix of s that is a proper prefix of the open tag.
partialTagSuffix(s) ==
    Max({n \in 0..Min({Len(s), Len(tagOpen) - 1}) :
            SubSeq(s, Len(s) - n + 1, Len(s)) = SubSeq(tagOpen, 1, n)})

\* A body is a call, in either of the accepted shapes, or it is not.
parseCall(what) == what \in Callable

\* The close tag is there: a call, or markup that is shown.
CloseCall(f) ==
    LET what == Before(f.buf, tagClose)
        g == [f EXCEPT !.buf = After(@, tagClose), !.inCall = FALSE] IN
    IF parseCall(what) THEN newCall(g, what)
    ELSE [g EXCEPT !.shown = @ \o tagOpen \o what \o tagClose]

\* The open tag is there: the text before it is shown.
OpenCall(f) ==
    [f EXCEPT !.buf = After(@, tagOpen), !.inCall = TRUE,
              !.shown = @ \o Before(f.buf, tagOpen)]

EmitProse(f) ==
    LET n == Len(f.buf) - partialTagSuffix(f.buf) IN
    [f EXCEPT !.buf = SubSeq(@, n + 1, Len(@)), !.shown = @ \o SubSeq(f.buf, 1, n)]

drain[f \in FilterState] ==
    CASE f.inCall /\ Has(f.buf, tagClose) -> drain[CloseCall(f)]
      [] f.inCall /\ ~Has(f.buf, tagClose) -> f
      [] ~f.inCall /\ Has(f.buf, tagOpen) -> drain[OpenCall(f)]
      [] OTHER -> EmitProse(f)

\* EventText, by either adapter.
FilterText(f, text) ==
    IF adapter = "xml" THEN drain[[f EXCEPT !.buf = @ \o text]]
    ELSE [f EXCEPT !.shown = @ \o text]

\* EventDone: what is left is text.
FilterDone(f) == [f EXCEPT !.shown = @ \o f.buf, !.buf = <<>>]

-----------------------------------------------------------------------------
NothingSent == [i \in DOMAIN Plan |-> 0]

Init ==
    /\ adapter \in Adapters
    /\ said = <<>>
    /\ sent = NothingSent
    /\ data = <<>>
    /\ body = "open"
    /\ status = "open"
    /\ acc = <<>>
    /\ filter = NewFilter
    /\ calls = <<>>

Receiving == status = "open" /\ body = "open"

\* What the server may say next: some text, and the next fragment of some of
\* its calls.  It makes native calls only if the request had tools in it,
\* which the XML adapter takes out (PrepareRequest).
NextChunks ==
    LET left == IF adapter = "xml" THEN {}
                ELSE {i \in DOMAIN Plan : sent[i] < Len(Plan[i])}
        words == {w \in Pieces \cup {<<>>} : said \o w \in Texts[adapter]} IN
    {Chunk(w, [i \in I |-> Plan[i][sent[i] + 1]]) : w \in words, I \in SUBSET left}

\* An event is on the wire with its last data line.
Sent(c) ==
    /\ said' = said \o c.text
    /\ sent' = [i \in DOMAIN Plan |-> sent[i] + IF i \in DOMAIN c.deltas THEN 1 ELSE 0]

WholeLine ==
    /\ Receiving /\ data = <<>>
    /\ \E c \in NextChunks : data' = <<Line("whole", c)>> /\ Sent(c)
    /\ UNCHANGED <<adapter, body, status, acc, filter, calls>>

FirstLine ==
    /\ Receiving /\ data = <<>>
    /\ \E c \in NextChunks : data' = <<Line("first", c)>>
    /\ UNCHANGED <<adapter, said, sent, body, status, acc, filter, calls>>

SecondLine ==
    /\ Receiving /\ Len(data) = 1 /\ data[1].part = "first"
    /\ data' = Append(data, Line("second", data[1].chunk))
    /\ Sent(data[1].chunk)
    /\ UNCHANGED <<adapter, body, status, acc, filter, calls>>

OtherLine(l) ==
    /\ Receiving /\ data = <<>>
    /\ data' = <<l>>
    /\ UNCHANGED <<adapter, said, sent, body, status, acc, filter, calls>>

\* Next returns the lines as one payload: a chunk's text goes to the filter
\* and its fragments to the accumulator; anything else ends the stream with
\* an error.
Payload(lines) ==
    /\ data' = <<>>
    /\ \/ /\ Decodes(lines)
          /\ filter' = FilterText(filter, lines[1].chunk.text)
          /\ acc' = add(acc, lines[1].chunk.deltas)
          /\ UNCHANGED status
       \/ /\ ~Decodes(lines)
          /\ status' = "failed"
          /\ UNCHANGED <<filter, acc>>
    /\ UNCHANGED <<adapter, said, sent, body, calls>>

\* Next returns io.EOF: native calls, the rest of the text, in-band calls.
EndOfStream ==
    /\ status' = "done"
    /\ filter' = FilterDone(filter)
    /\ calls' = assembled(acc) \o filter.calls
    /\ data' = <<>>
    /\ UNCHANGED <<adapter, said, sent, body, acc>>

\* A blank line ends an event.
Blank ==
    /\ Receiving /\ data # <<>>
    /\ IF data[1].part = "marker" THEN EndOfStream ELSE Payload(data)

\* The body ends, with or without the end marker or a last blank line.
BodyEnds ==
    /\ Receiving
    /\ body' = "ended"
    /\ UNCHANGED <<adapter, said, sent, data, status, acc, filter, calls>>

\* Mutation of Leftover: an event without its blank line is forgotten.
LeftoverNone == FALSE

\* There is an event whose blank line never came.
Leftover == data # <<>> /\ data[1].part \notin {"marker", "spaces"}

Flush ==
    /\ status = "open" /\ body = "ended"
    /\ IF Leftover THEN Payload(data) ELSE EndOfStream

\* The connection breaks, a line is too long, the request is cancelled or
\* runs out of time: stream() returns an error and nothing it has collected.
ReadFails ==
    /\ status = "open"
    /\ status' = "failed"
    /\ UNCHANGED <<adapter, said, sent, data, body, acc, filter, calls>>

\* A request by adapter a: a new reader, a new accumulator, a new filter.
Begin(a) ==
    /\ adapter' = a
    /\ said' = <<>>
    /\ sent' = NothingSent
    /\ data' = <<>>
    /\ body' = "open"
    /\ status' = "open"
    /\ acc' = <<>>
    /\ filter' = NewFilter
    /\ calls' = <<>>

NextReply == status # "open" /\ Begin(adapter)

Receive ==
    \/ WholeLine
    \/ FirstLine
    \/ SecondLine
    \/ \E l \in OtherLines : OtherLine(l)
    \/ Blank
    \/ BodyEnds
    \/ Flush
    \/ ReadFails

Next == Receive \/ NextReply

Spec == Init /\ [][Next]_vars

-----------------------------------------------------------------------------
(* Properties.                                                             *)

TypeOK ==
    /\ adapter \in Adapters
    /\ said \in Texts[adapter]
    /\ sent \in [DOMAIN Plan -> Nat]
    /\ Len(data) <= 2
    /\ body \in {"open", "ended"}
    /\ status \in {"open", "done", "failed"}
    /\ DOMAIN acc \subseteq DOMAIN Plan
    /\ filter \in FilterState
    /\ calls \in Seq([id : IdType, what : Seq(Symbol \cup STRING)])

\* What has reached the filter and the accumulator: all but the event that
\* waits for its blank line.
Waiting == IF Decodes(data) THEN data[1].chunk ELSE NoChunk
Delivered == SubSeq(said, 1, Len(said) - Len(Waiting.text))
DeliveredOf(i) == sent[i] - IF i \in DOMAIN Waiting.deltas THEN 1 ELSE 0

Whole == INSTANCE Reply WITH
    inBand <- adapter = "xml",
    text <- Delivered,
    shown <- filter.shown,
    calls <- IF status = "done" /\ adapter = "xml"
             THEN [k \in 1..Len(calls) |-> calls[k].what] ELSE <<>>

\* However text and tags are cut up, over chunks and over data lines, the
\* operator sees and the agent gets what a reading of the whole text gives,
\* and of what has come nothing is held back but the beginning of a tag and
\* the body of a call (drain, partialTagSuffix).
ReadsAsAWhole == Whole!Spec

\* What the first k fragments of a call say.
Said(i, k) ==
    LET last(vals, none) ==
            LET some == {j \in 1..k : vals[j] # none} IN
            IF some = {} THEN none ELSE vals[Max(some)] IN
    Fragment(last([j \in 1..k |-> Plan[i][j].id], NoId),
             last([j \in 1..k |-> Plan[i][j].name], ""),
             FlattenSeq([j \in 1..k |-> Plan[i][j].args]))

\* Whatever order the fragments of several calls come in, each call is put
\* together from its own, in their order (toolCallAccumulator).
AssembledFromOwnFragments ==
    \A i \in DOMAIN Plan :
        IF DeliveredOf(i) = 0 THEN i \notin DOMAIN acc
        ELSE i \in DOMAIN acc /\ acc[i] = Said(i, DeliveredOf(i))

\* A reply that is taken as complete has everything the server put on the
\* wire: all text, and all calls by index, the event without its blank line
\* included (sse.go's flush, calls()).
CompleteReplyHasAllThatWasSent ==
    status = "done" =>
        /\ filter.shown = Whole!Final(said)
        /\ [k \in 1..Len(calls) |-> calls[k].what] =
               IF adapter = "xml" THEN Whole!Read(said).calls
               ELSE LET named == {i \in DOMAIN Plan :
                                     sent[i] > 0 /\ Said(i, sent[i]).name # ""} IN
                    [k \in 1..Cardinality(named) |->
                        LET i == Ascending(named)[k] IN
                        <<Said(i, sent[i]).name>> \o Said(i, sent[i]).args]

\* No two calls of one reply have the same id, wherever the ids come from: a
\* result is matched to its call by it (newCall, calls()).
IdsDistinct ==
    \A j, k \in 1..Len(calls) : calls[j].id = calls[k].id => j = k
=============================================================================
