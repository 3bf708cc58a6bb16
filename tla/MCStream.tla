------------------------------ MODULE MCStream ------------------------------
(* A small instance of Stream and Probe for TLC: tags of three symbols that begin    *)
(* alike, and every text of up to MaxText symbols besides some longer ones *)
(* with several tags in them.                                              *)
EXTENDS Probe

CONSTANT MaxText

MCSymbol == {"<", "/", "t", "c"}
Open == <<"<", "t", "t">>
Close == <<"<", "/", "t">>
ACall == Open \o <<"c">> \o Close
NoCall == Open \o <<"t">> \o Close

MCCallable == {<<"c">>}

LongTexts ==
    {ACall \o <<"c">> \o ACall,
     <<"<">> \o ACall \o <<"<", "t">>,
     NoCall \o <<"/">> \o ACall,
     ACall \o NoCall \o Open,
     Open \o <<"c">> \o ACall \o Close,
     Open \o <<"<", "/", "c">> \o Close \o <<"<", "<", "t", "c">>}

ShortTexts == {t : t \in BoundedSeq(MCSymbol, MaxText)}
MCTexts == [xml |-> ShortTexts \cup UNION {Prefixes(t) : t \in LongTexts},
            native |-> {<<>>, <<"c">>, Open}]

MCPieces ==
    BoundedSeq(MCSymbol, 2) \cup {ACall, ACall \o <<"c">>, <<"t", "c", "<", "/">>}

\* A call whose id comes with every fragment, one that is never given any, an
\* index that names no function, and one named late.
MCPlan == [i \in 0..3 |->
    CASE i = 0 -> <<Fragment(Id("server", 1), "f", <<"c">>), Fragment(Id("server", 1), "", <<"t">>)>>
      [] i = 1 -> <<Fragment(NoId, "f", <<>>), Fragment(NoId, "", <<"t">>), Fragment(NoId, "", <<"c">>)>>
      [] i = 2 -> <<Fragment(Id("server", 2), "", <<"c">>)>>
      [] i = 3 -> <<Fragment(Id("server", 3), "", <<"c">>), Fragment(NoId, "g", <<"c">>)>>]

\* What may stand as arguments: of the calls above, only in whole.
MCJson == {<<"c", "t">>, <<"t", "c">>}

MCServed == <<[id |-> "m", maxModelLen |-> 0], [id |-> "n", maxModelLen |-> 8]>>

BothAdapters == {"native", "xml"}
=============================================================================
