-------------------------------- MODULE Tags --------------------------------
(***************************************************************************)
(* Text with tool-call tags in it (internal/provider/xmladapter.go).  A    *)
(* text is a sequence of symbols; the tags are two short ones.             *)
(***************************************************************************)
EXTENDS Strings

CONSTANTS Symbol,
          tagOpen,   \* "<tool_call>"
          tagClose,  \* "</tool_call>"
          Callable   \* the bodies parseCall makes a call of

Text == Seq(Symbol)

ASSUME TagsAssumption ==
    /\ tagOpen \in Text \ {<<>>}
    /\ tagClose \in Text \ {<<>>}
    /\ Callable \subseteq Text
=============================================================================
