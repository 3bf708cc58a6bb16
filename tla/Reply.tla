-------------------------------- MODULE Reply --------------------------------
(***************************************************************************)
(* What the streaming client and the adapter promise about each reply of   *)
(* the model server: the operator sees, and the agent gets, what someone   *)
(* would who has the whole text before him, however the text was cut up on *)
(* its way and whatever came in the replies before.                        *)
(***************************************************************************)
EXTENDS Tags

VARIABLES inBand,  \* calls are written into the text
          text,    \* the reply's text so far
          shown,   \* what the operator has seen of it
          calls,   \* the calls made in the text, as the agent gets them
          status   \* "open", "done" or "failed"

vars == <<inBand, text, shown, calls, status>>

\* A text read as a whole: the prose in it, with markup that is no call; its
\* calls, in order; and, if the last tag was never closed, what stands after.
Reading[t \in Text] ==
    IF ~Has(t, tagOpen) THEN [prose |-> t, calls |-> <<>>, cut |-> FALSE, rest |-> <<>>]
    ELSE LET before == Before(t, tagOpen)
             after == After(t, tagOpen) IN
         IF ~Has(after, tagClose)
         THEN [prose |-> before, calls |-> <<>>, cut |-> TRUE, rest |-> after]
         ELSE LET body == Before(after, tagClose)
                  later == Reading[After(after, tagClose)] IN
              IF body \in Callable
              THEN [later EXCEPT !.prose = before \o @, !.calls = <<body>> \o @]
              ELSE [later EXCEPT !.prose = before \o tagOpen \o body \o tagClose \o @]

Read(t) == IF inBand THEN Reading[t]
           ELSE [prose |-> t, calls |-> <<>>, cut |-> FALSE, rest |-> <<>>]

\* All of t that is to be seen once there is no more to come.
Final(t) == Read(t).prose \o Read(t).rest

\* While there may be more, at most the beginning of a tag is held back.
HeldBack(t, s) == SubSeq(Read(t).prose, Len(s) + 1, Len(Read(t).prose))
UpToDate(t, s) ==
    /\ IsPrefix(s, Read(t).prose)
    /\ IsStrictPrefix(HeldBack(t, s), tagOpen)
    /\ ~inBand \/ Read(t).cut => HeldBack(t, s) = <<>>

Init ==
    /\ inBand \in BOOLEAN
    /\ text = <<>>
    /\ shown = <<>>
    /\ calls = <<>>
    /\ status = "open"

Grow ==
    /\ status = "open"
    /\ IsPrefix(text, text')
    /\ IsPrefix(shown, shown')
    /\ UpToDate(text', shown')
    /\ UNCHANGED <<inBand, calls, status>>

Complete ==
    /\ status = "open"
    /\ status' = "done"
    /\ shown' = Final(text)
    /\ calls' = Read(text).calls
    /\ UNCHANGED <<inBand, text>>

\* A reply that fails leaves no calls.
Fail ==
    /\ status = "open"
    /\ status' = "failed"
    /\ UNCHANGED <<inBand, text, shown, calls>>

\* The next reply, or the first one by the adapter that was settled on.
Begin ==
    /\ status # "open" \/ text \o shown = <<>>
    /\ status' = "open"
    /\ text' = <<>>
    /\ shown' = <<>>
    /\ calls' = <<>>
    /\ inBand' \in BOOLEAN

Next == Grow \/ Complete \/ Fail \/ Begin

Spec == Init /\ [][Next]_vars
=============================================================================
