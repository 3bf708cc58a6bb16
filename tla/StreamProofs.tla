---------------------------- MODULE StreamProofs ----------------------------
(***************************************************************************)
(* Theorems about the replies of a session (Stream, Probe): their types,   *)
(* that native calls are put together from their own fragments, that text  *)
(* cut up anyhow is read as a whole (Reply), and what the probe believes;  *)
(* for any tags, texts, pieces and plans of calls.                         *)
(***************************************************************************)
EXTENDS Probe, Lemmas

-----------------------------------------------------------------------------
(* A text read as a whole.                                                 *)

Reads(prose, found, cut, rest) ==
    [prose |-> prose, calls |-> found, cut |-> cut, rest |-> rest]
ReadingType == [prose : Text, calls : Seq(Text), cut : BOOLEAN, rest : Text]

\* A reading with some prose and some calls before it.
PutBefore(prose, found, r) ==
    Reads(prose \o r.prose, found \o r.calls, r.cut, r.rest)

\* The first call of a text, and what comes after it.
Called(t) == Has(t, tagOpen) /\ Has(After(t, tagOpen), tagClose)
FirstBody(t) == Before(After(t, tagOpen), tagClose)
Later(t) == After(After(t, tagOpen), tagClose)

\* A record of four fields is what its fields are.
LEMMA ReadingIsRecord ==
    ASSUME NEW r \in ReadingType
    PROVE  /\ r = Reads(r.prose, r.calls, r.cut, r.rest)
           /\ r.prose \in Text /\ r.calls \in Seq(Text) /\ r.cut \in BOOLEAN /\ r.rest \in Text
  BY DEF ReadingType, Reads

\* And with text before it it still is a reading.
LEMMA PutBeforeType ==
    ASSUME NEW w \in Text, NEW c \in Seq(Text), NEW r \in ReadingType
    PROVE  PutBefore(w, c, r) \in ReadingType
  <1>1. w \o r.prose \in Text
    BY ReadingIsRecord, ConcatProperties DEF Text
  <1>2. c \o r.calls \in Seq(Text)
    BY ReadingIsRecord, ConcatProperties
  <1> QED
    BY <1>1, <1>2, ReadingIsRecord DEF PutBefore, Reads, ReadingType

\* The same with other prose, and with other calls.
LEMMA Amended ==
    ASSUME NEW r \in ReadingType, NEW w \in Text, NEW c \in Seq(Text)
    PROVE  /\ [r EXCEPT !.prose = w, !.calls = c] = Reads(w, c, r.cut, r.rest)
           /\ [r EXCEPT !.prose = w] = Reads(w, r.calls, r.cut, r.rest)
  <1> DEFINE p == [r EXCEPT !.prose = w, !.calls = c]
             q == [r EXCEPT !.prose = w]
  <1>1. p \in ReadingType /\ p.prose = w /\ p.calls = c /\ p.cut = r.cut /\ p.rest = r.rest
    BY DEF ReadingType
  <1>2. /\ q \in ReadingType /\ q.prose = w /\ q.calls = r.calls
        /\ q.cut = r.cut /\ q.rest = r.rest
    BY DEF ReadingType
  <1> HIDE DEF p, q
  <1>3. p = Reads(w, c, r.cut, r.rest) /\ q = Reads(w, r.calls, r.cut, r.rest)
    BY <1>1, <1>2, ReadingIsRecord
  <1> QED
    BY <1>3 DEF p, q

\* What stands around the tags of a text is text, and less of it.
LEMMA AroundTags ==
    ASSUME NEW t \in Text
    PROVE  /\ Has(t, tagOpen) =>
                 /\ Before(t, tagOpen) \in Text /\ After(t, tagOpen) \in Text
                 /\ Len(After(t, tagOpen)) < Len(t)
           /\ Has(t, tagClose) =>
                 /\ Before(t, tagClose) \in Text /\ After(t, tagClose) \in Text
                 /\ Len(After(t, tagClose)) < Len(t)
  <1>1. ASSUME NEW tag \in Text, tag # <<>>, Has(t, tag)
        PROVE  /\ Before(t, tag) \in Text /\ After(t, tag) \in Text
               /\ Len(After(t, tag)) < Len(t)
    <2>1. /\ Before(t, tag) \in Text /\ After(t, tag) \in Text
          /\ Len(After(t, tag)) = Len(t) - Min(Places(t, tag)) - Len(tag)
          /\ Min(Places(t, tag)) \in Nat
      BY <1>1, CutAt, FirstPlace DEF Text
    <2>2. Len(tag) \in Nat /\ Len(tag) > 0 /\ Len(t) \in Nat
      BY <1>1 DEF Text
    <2> QED
      BY <2>1, <2>2
  <1>2. tagOpen \in Text /\ tagOpen # <<>> /\ tagClose \in Text /\ tagClose # <<>>
    BY TagsAssumption
  <1> QED
    BY <1>1, <1>2

\* Reading, as its definition says, and that there is such a function.
LEMMA ReadingIs ==
    /\ Whole!Reading \in [Text -> ReadingType]
    /\ \A t \in Text :
          /\ ~Has(t, tagOpen) => Whole!Reading[t] = Reads(t, <<>>, FALSE, <<>>)
          /\ Has(t, tagOpen) /\ ~Called(t) =>
                Whole!Reading[t] = Reads(Before(t, tagOpen), <<>>, TRUE, After(t, tagOpen))
          /\ Called(t) /\ FirstBody(t) \in Callable =>
                Whole!Reading[t] =
                   PutBefore(Before(t, tagOpen), <<FirstBody(t)>>, Whole!Reading[Later(t)])
          /\ Called(t) /\ FirstBody(t) \notin Callable =>
                Whole!Reading[t] =
                   PutBefore(Before(t, tagOpen) \o tagOpen \o FirstBody(t) \o tagClose,
                             <<>>, Whole!Reading[Later(t)])
    /\ \A t \in Text : Called(t) => FirstBody(t) \in Text /\ Later(t) \in Text
                                    /\ Len(Later(t)) < Len(t)
  <1> DEFINE V == ReadingType
             more == {t \in Text : Called(t)}
             next == [t \in Text |-> IF Called(t) THEN Later(t) ELSE t]
             mu == [t \in Text |-> Len(t)]
             base == [t \in Text |-> IF ~Has(t, tagOpen) THEN Reads(t, <<>>, FALSE, <<>>)
                        ELSE Reads(Before(t, tagOpen), <<>>, TRUE, After(t, tagOpen))]
             markup(t) == Before(t, tagOpen) \o tagOpen \o FirstBody(t) \o tagClose
             joined(t, r) == IF FirstBody(t) \in Callable
                             THEN PutBefore(Before(t, tagOpen), <<FirstBody(t)>>, r)
                             ELSE PutBefore(markup(t), <<>>, r)
             comb == [t \in Text |-> IF Called(t) THEN [r \in V |-> joined(t, r)]
                                     ELSE [r \in V |-> r]]
             Eq(f) == f = [t \in Text |->
                 IF ~Has(t, tagOpen) THEN [prose |-> t, calls |-> <<>>, cut |-> FALSE, rest |-> <<>>]
                 ELSE IF ~Has(After(t, tagOpen), tagClose)
                 THEN [prose |-> Before(t, tagOpen), calls |-> <<>>, cut |-> TRUE,
                       rest |-> After(t, tagOpen)]
                 ELSE IF Before(After(t, tagOpen), tagClose) \in Callable
                 THEN [f[After(After(t, tagOpen), tagClose)] EXCEPT
                         !.prose = Before(t, tagOpen) \o @,
                         !.calls = <<Before(After(t, tagOpen), tagClose)>> \o @]
                 ELSE [f[After(After(t, tagOpen), tagClose)] EXCEPT
                         !.prose = Before(t, tagOpen) \o tagOpen
                                   \o Before(After(t, tagOpen), tagClose) \o tagClose \o @]]
  <1>0. tagOpen \in Text /\ tagClose \in Text /\ <<>> \in Text
    BY TagsAssumption DEF Text
  <1>1. ASSUME NEW t \in Text, Called(t)
        PROVE  /\ FirstBody(t) \in Text /\ Later(t) \in Text /\ Len(Later(t)) < Len(t)
               /\ Before(t, tagOpen) \in Text /\ markup(t) \in Text
    <2>1. /\ Before(t, tagOpen) \in Text /\ After(t, tagOpen) \in Text
          /\ Len(After(t, tagOpen)) < Len(t)
      BY <1>1, AroundTags DEF Called
    <2>2. /\ FirstBody(t) \in Text /\ Later(t) \in Text
          /\ Len(Later(t)) < Len(After(t, tagOpen))
      BY <1>1, <2>1, AroundTags DEF Called, FirstBody, Later
    <2>3. Len(Later(t)) \in Nat /\ Len(After(t, tagOpen)) \in Nat /\ Len(t) \in Nat
      BY <2>1, <2>2 DEF Text
    <2>4. \A x, y \in Text : x \o y \in Text
      BY ConcatProperties DEF Text
    <2>5. markup(t) \in Text
      BY <1>0, <2>1, <2>2, <2>4
    <2> QED
      BY <2>1, <2>2, <2>3, <2>5
  <1>2. next \in [Text -> Text] /\ mu \in [Text -> Nat]
    <2>1. \A t \in Text : Len(t) \in Nat
      BY DEF Text
    <2> QED
      BY <1>1, <2>1
  <1>3. \A t \in Text : t \in more => mu[next[t]] < mu[t]
    BY <1>1
  <1>4. base \in [Text -> V]
    <2>1. ASSUME NEW t \in Text PROVE base[t] \in V
      BY <1>0, AroundTags DEF Reads, ReadingType
    <2> QED
      BY <2>1
  <1>5. comb \in [Text -> [V -> V]]
    <2>1. ASSUME NEW t \in Text, NEW r \in V, Called(t) PROVE joined(t, r) \in V
      <3>1. <<FirstBody(t)>> \in Seq(Text) /\ <<>> \in Seq(Text)
        BY <1>1, <2>1
      <3> HIDE DEF markup
      <3> QED
        BY <1>1, <2>1, <3>1, PutBeforeType
    <2>2. ASSUME NEW t \in Text PROVE comb[t] \in [V -> V]
      <3> HIDE DEF joined
      <3> QED
        BY <2>1
    <2> HIDE DEF V
    <2> QED
      BY <2>2
  <1>6. PICK F \in [Text -> V] : Recursive(Text, more, next, comb, base, F)
    <2> HIDE DEF V, more, next, comb, base, mu
    <2> QED
      BY <1>2, <1>3, <1>4, <1>5, RecursionExists
  <1>7. ASSUME NEW t \in Text
        PROVE  F[t] = IF Called(t) THEN joined(t, F[Later(t)]) ELSE base[t]
    <2>1. F[t] = IF t \in more THEN comb[t][F[next[t]]] ELSE base[t]
      <3> HIDE DEF V, more, next, comb, base
      <3> QED
        BY <1>6 DEF Recursive
    <2>2. Called(t) => next[t] = Later(t) /\ F[Later(t)] \in V
      BY <1>1
    <2> HIDE DEF joined, base, V
    <2>3. Called(t) => comb[t][F[Later(t)]] = joined(t, F[Later(t)])
      BY <2>2
    <2> HIDE DEF next, comb
    <2> QED
      BY <2>1, <2>2, <2>3
  <1> DEFINE rhs(f, t) ==
                 IF ~Has(t, tagOpen) THEN [prose |-> t, calls |-> <<>>, cut |-> FALSE, rest |-> <<>>]
                 ELSE IF ~Has(After(t, tagOpen), tagClose)
                 THEN [prose |-> Before(t, tagOpen), calls |-> <<>>, cut |-> TRUE,
                       rest |-> After(t, tagOpen)]
                 ELSE IF Before(After(t, tagOpen), tagClose) \in Callable
                 THEN [f[After(After(t, tagOpen), tagClose)] EXCEPT
                         !.prose = Before(t, tagOpen) \o @,
                         !.calls = <<Before(After(t, tagOpen), tagClose)>> \o @]
                 ELSE [f[After(After(t, tagOpen), tagClose)] EXCEPT
                         !.prose = Before(t, tagOpen) \o tagOpen
                                   \o Before(After(t, tagOpen), tagClose) \o tagClose \o @]
  <1>8. ASSUME NEW f, NEW t \in Text, Called(t) => f[Later(t)] \in V
        PROVE  rhs(f, t) = IF Called(t) THEN joined(t, f[Later(t)]) ELSE base[t]
    <2>1. CASE ~Called(t)
      BY <2>1 DEF Called, Reads
    <2>2. CASE Called(t)
      <3> DEFINE r == f[Later(t)]
      <3>1. /\ r = Reads(r.prose, r.calls, r.cut, r.rest) /\ <<>> \o r.calls = r.calls
            /\ r \in ReadingType
        <4>1. r \in ReadingType
          BY <1>8, <2>2
        <4> HIDE DEF r
        <4> QED
          BY <4>1, ReadingIsRecord, ConcatEmptySeq
      <3>2. /\ [r EXCEPT !.prose = Before(t, tagOpen) \o @, !.calls = <<FirstBody(t)>> \o @]
                  = PutBefore(Before(t, tagOpen), <<FirstBody(t)>>, r)
            /\ [r EXCEPT !.prose = Before(t, tagOpen) \o tagOpen \o FirstBody(t) \o tagClose \o @]
                  = PutBefore(markup(t), <<>>, r)
        <4>1. /\ Before(t, tagOpen) \o r.prose \in Text /\ markup(t) \o r.prose \in Text
              /\ <<FirstBody(t)>> \o r.calls \in Seq(Text)
          <5>1. /\ Before(t, tagOpen) \in Text /\ markup(t) \in Text
                /\ <<FirstBody(t)>> \in Seq(Text)
                /\ r.prose \in Text /\ r.calls \in Seq(Text)
            BY <1>1, <2>2, <3>1, ReadingIsRecord
          <5> HIDE DEF r, markup
          <5> QED
            BY <5>1, ConcatProperties DEF Text
        <4> HIDE DEF r
        <4>2. \A w \in Text, c \in Seq(Text) :
                 /\ [r EXCEPT !.prose = w, !.calls = c] = Reads(w, c, r.cut, r.rest)
                 /\ [r EXCEPT !.prose = w] = Reads(w, r.calls, r.cut, r.rest)
          BY <3>1, Amended
        <4> QED
          BY <3>1, <4>1, <4>2 DEF PutBefore
      <3> QED
        BY <2>2, <3>2 DEF Called, FirstBody, Later
    <2> QED
      BY <2>1, <2>2
  <1>9. Eq(F)
    <2>1. ASSUME NEW t \in Text PROVE F[t] = rhs(F, t)
      <3>1. Called(t) => F[Later(t)] \in V
        BY <1>1
      <3> HIDE DEF rhs, joined, base, V
      <3> QED
        BY <1>7, <1>8, <3>1
    <2>2. F = [t \in Text |-> rhs(F, t)]
      <3> HIDE DEF rhs, V
      <3> QED
        BY <2>1
    <2> QED
      BY <2>2
  <1> DEFINE R == CHOOSE f : Eq(f)
  <1>10. Eq(R)
    <2> HIDE DEF Eq
    <2> QED
      BY <1>9
  <1>11. Whole!Reading = R
    BY DEF Whole!Reading, Whole!Text, Whole!Has, Whole!Before, Whole!After, Whole!Places,
           Whole!Min, Text, Has, Before, After, Places, Min
  <1> HIDE DEF R
  <1>12. \A t \in Text : R[t] = rhs(R, t)
    <2>1. R = [t \in Text |-> rhs(R, t)]
      BY <1>10
    <2> HIDE DEF rhs
    <2> QED
      BY <2>1
  <1> HIDE DEF Eq
  <1>13. R = F
    <2> DEFINE B == {t \in Text : R[t] # F[t]}
    <2>1. ASSUME NEW t \in B, \A u \in B : mu[t] <= mu[u] PROVE FALSE
      <3>1. t \in Text /\ R[t] # F[t]
        OBVIOUS
      <3>2. Called(t) => R[Later(t)] = F[Later(t)] /\ F[Later(t)] \in V
        <4>1. ASSUME Called(t) PROVE Later(t) \in Text /\ ~ (mu[t] <= mu[Later(t)])
          <5>1. Later(t) \in Text /\ Len(Later(t)) < Len(t)
            BY <1>1, <3>1, <4>1
          <5>2. Len(Later(t)) \in Nat /\ Len(t) \in Nat
            BY <3>1, <5>1 DEF Text
          <5> QED
            BY <3>1, <5>1, <5>2
        <4> HIDE DEF mu
        <4>2. Called(t) => Later(t) \notin B
          <5> HIDE DEF B
          <5> QED
            BY <2>1, <4>1
        <4> QED
          BY <1>6, <4>1, <4>2
      <3> HIDE DEF rhs, joined, base, V, B
      <3>3. R[t] = IF Called(t) THEN joined(t, R[Later(t)]) ELSE base[t]
        BY <1>8, <1>12, <3>1, <3>2
      <3> QED
        BY <1>7, <3>1, <3>2, <3>3
    <2>2. B = {}
      <3>1. B \subseteq Text /\ mu \in [Text -> Nat]
        BY <1>2
      <3> HIDE DEF B, mu
      <3> QED
        BY <2>1, <3>1, LeastExists
    <2>3. \A t \in Text : R[t] = F[t]
      BY <2>2
    <2>4. R = [t \in Text |-> R[t]]
      <3>1. R = [t \in Text |-> rhs(R, t)]
        BY <1>10 DEF Eq
      <3> HIDE DEF rhs
      <3> QED
        BY <3>1
    <2> QED
      BY <1>6, <2>3, <2>4
  <1>14. ASSUME NEW t \in Text
         PROVE  /\ ~Has(t, tagOpen) => F[t] = Reads(t, <<>>, FALSE, <<>>)
                /\ Has(t, tagOpen) /\ ~Called(t) =>
                      F[t] = Reads(Before(t, tagOpen), <<>>, TRUE, After(t, tagOpen))
                /\ Called(t) => F[t] = joined(t, F[Later(t)])
    <2>1. base[t] = IF ~Has(t, tagOpen) THEN Reads(t, <<>>, FALSE, <<>>)
                    ELSE Reads(Before(t, tagOpen), <<>>, TRUE, After(t, tagOpen))
      OBVIOUS
    <2>2. ~Has(t, tagOpen) => ~Called(t)
      BY DEF Called
    <2> HIDE DEF joined, base, V
    <2> QED
      BY <1>7, <2>1, <2>2
  <1> QED
    BY <1>1, <1>6, <1>11, <1>13, <1>14

\* Texts, and lists of calls, one behind the other.
LEMMA TextFacts ==
    /\ <<>> \in Text /\ <<>> \in Seq(Text)
    /\ \A t \in Text : <<>> \o t = t /\ t \o <<>> = t
    /\ \A c \in Seq(Text) : <<>> \o c = c /\ c \o <<>> = c
    /\ \A t, u \in Text : t \o u \in Text /\ Len(t \o u) = Len(t) + Len(u)
    /\ \A c, d \in Seq(Text) : c \o d \in Seq(Text)
    /\ \A t \in Text : Len(t) \in Nat
    /\ tagOpen \in Text /\ tagClose \in Text
  <1>1. \A t \in Text : <<>> \o t = t /\ t \o <<>> = t
    BY ConcatEmptySeq DEF Text
  <1>2. \A c \in Seq(Text) : <<>> \o c = c /\ c \o <<>> = c
    BY ConcatEmptySeq
  <1>3. \A t, u \in Text : t \o u \in Text /\ Len(t \o u) = Len(t) + Len(u)
    BY ConcatProperties DEF Text
  <1>4. \A c, d \in Seq(Text) : c \o d \in Seq(Text)
    BY ConcatProperties
  <1>5. <<>> \in Text /\ <<>> \in Seq(Text) /\ \A t \in Text : Len(t) \in Nat
    BY DEF Text
  <1> QED
    BY <1>1, <1>2, <1>3, <1>4, <1>5, TagsAssumption

\* Texts one behind the other, however they are put together.
LEMMA TextRegrouped ==
    ASSUME NEW x \in Text, NEW y \in Text, NEW z \in Text
    PROVE  (x \o y) \o z = x \o (y \o z)
  BY Regrouped DEF Text

\* And so lists of calls.
LEMMA CallsRegrouped ==
    ASSUME NEW x \in Seq(Text), NEW y \in Seq(Text), NEW z \in Seq(Text)
    PROVE  (x \o y) \o z = x \o (y \o z)
  BY Regrouped

\* Things put before a reading one after the other.
LEMMA PutTwice ==
    ASSUME NEW a \in Text, NEW b \in Text, NEW c \in Seq(Text), NEW d \in Seq(Text),
           NEW r \in ReadingType
    PROVE  PutBefore(a, c, PutBefore(b, d, r)) = PutBefore(a \o b, c \o d, r)
  <1>1. r.prose \in Text /\ r.calls \in Seq(Text)
    BY ReadingIsRecord
  <1>2. (a \o b) \o r.prose = a \o (b \o r.prose)
    BY <1>1, TextRegrouped
  <1>3. (c \o d) \o r.calls = c \o (d \o r.calls)
    BY <1>1, CallsRegrouped
  <1> QED
    BY <1>2, <1>3 DEF PutBefore, Reads

\* A beginning in which no tag opens is read as prose before the rest.
LEMMA ReadingBehind ==
    ASSUME NEW w \in Text, NEW v \in Text,
           \A n \in Places(w \o v, tagOpen) : Len(w) <= n
    PROVE  Whole!Reading[w \o v] = PutBefore(w, <<>>, Whole!Reading[v])
  <1> DEFINE t == w \o v
  <1>1. t \in Text
    BY TextFacts
  <1>2. /\ Has(t, tagOpen) <=> Has(v, tagOpen)
        /\ Has(v, tagOpen) =>
              /\ Before(t, tagOpen) = w \o Before(v, tagOpen)
              /\ After(t, tagOpen) = After(v, tagOpen)
    BY TextFacts, CutBehind DEF Text
  <1> HIDE DEF t
  <1>3. /\ Called(t) <=> Called(v)
        /\ Called(v) => FirstBody(t) = FirstBody(v) /\ Later(t) = Later(v)
    BY <1>2 DEF Called, FirstBody, Later
  <1>4. CASE ~Has(v, tagOpen)
    <2>1. /\ Whole!Reading[v] = Reads(v, <<>>, FALSE, <<>>)
          /\ Whole!Reading[t] = Reads(w \o v, <<>>, FALSE, <<>>)
      BY <1>1, <1>2, <1>4, ReadingIs DEF t
    <2>2. PutBefore(w, <<>>, Reads(v, <<>>, FALSE, <<>>)) = Reads(w \o v, <<>>, FALSE, <<>>)
      BY TextFacts DEF PutBefore, Reads
    <2> QED
      BY <2>1, <2>2 DEF t
  <1>5. CASE Has(v, tagOpen) /\ ~Called(v)
    <2> DEFINE b == Before(v, tagOpen)
               a == After(v, tagOpen)
    <2>1. /\ Whole!Reading[v] = Reads(b, <<>>, TRUE, a)
          /\ Whole!Reading[t] = Reads(w \o b, <<>>, TRUE, a)
      BY <1>1, <1>2, <1>3, <1>5, ReadingIs
    <2> HIDE DEF a, b
    <2>2. PutBefore(w, <<>>, Reads(b, <<>>, TRUE, a)) = Reads(w \o b, <<>>, TRUE, a)
      BY TextFacts DEF PutBefore, Reads
    <2> QED
      BY <2>1, <2>2 DEF t
  <1>6. CASE Called(v)
    <2> DEFINE b == Before(v, tagOpen)
               p == FirstBody(v)
               r == Whole!Reading[Later(v)]
    <2>0. Has(v, tagOpen)
      BY <1>6 DEF Called
    <2>1. /\ b \in Text /\ p \in Text /\ r \in ReadingType
          /\ <<p>> \in Seq(Text)
      <3>1. b \in Text
        BY <2>0, AroundTags
      <3>2. Later(v) \in Text /\ p \in Text
        BY <1>6, ReadingIs
      <3>3. r \in ReadingType
        BY <3>2, ReadingIs
      <3> HIDE DEF b, p, r
      <3> QED
        BY <3>1, <3>2, <3>3
    <2>2. /\ p \in Callable => /\ Whole!Reading[v] = PutBefore(b, <<p>>, r)
                               /\ Whole!Reading[t] = PutBefore(w \o b, <<p>>, r)
          /\ p \notin Callable =>
                /\ Whole!Reading[v] = PutBefore(b \o tagOpen \o p \o tagClose, <<>>, r)
                /\ Whole!Reading[t] = PutBefore((w \o b) \o tagOpen \o p \o tagClose, <<>>, r)
      BY <1>1, <1>2, <1>3, <1>6, <2>0, ReadingIs
    <2> HIDE DEF b, p, r
    <2> DEFINE m == b \o tagOpen \o p \o tagClose
    <2>3. m \in Text /\ (w \o b) \o tagOpen \o p \o tagClose = w \o m
      <3>1. /\ b \o tagOpen \in Text /\ b \o tagOpen \o p \in Text
        BY <2>1, TextFacts
      <3> DEFINE x == b \o tagOpen
                 y == x \o p
      <3>2. x \in Text /\ y \in Text
        BY <3>1
      <3>3. w \o x = (w \o b) \o tagOpen
        <4>1. b \in Text /\ tagOpen \in Text
          BY <2>1, TextFacts
        <4> QED
          BY <4>1, TextRegrouped
      <3> HIDE DEF x
      <3>4. w \o y = (w \o x) \o p
        <4>1. w \in Text /\ x \in Text /\ p \in Text
          BY <2>1, <3>2
        <4> QED
          BY <4>1, TextRegrouped
      <3> HIDE DEF y
      <3>5. w \o (y \o tagClose) = (w \o y) \o tagClose
        <4>1. y \in Text /\ tagClose \in Text
          BY <3>2, TextFacts
        <4> QED
          BY <4>1, TextRegrouped
      <3>6. (w \o b) \o tagOpen \o p \o tagClose = w \o (y \o tagClose)
        BY <3>3, <3>4, <3>5
      <3>7. m = y \o tagClose
        BY DEF x, y
      <3>8. m \in Text
        BY <3>2, <3>7, TextFacts
      <3> HIDE DEF m
      <3> QED
        BY <3>6, <3>7, <3>8
    <2> HIDE DEF m
    <2>4. /\ PutBefore(w, <<>>, PutBefore(b, <<p>>, r)) = PutBefore(w \o b, <<p>>, r)
          /\ PutBefore(w, <<>>, PutBefore(m, <<>>, r)) = PutBefore(w \o m, <<>>, r)
      <3> DEFINE none == <<>>
                 one == <<p>>
      <3>1. /\ none \in Seq(Text) /\ one \in Seq(Text)
            /\ none \o one = one /\ none \o none = none
        BY <2>1, TextFacts
      <3> HIDE DEF none, one
      <3>2. PutBefore(w, none, PutBefore(b, one, r)) = PutBefore(w \o b, none \o one, r)
        <4>1. b \in Text /\ none \in Seq(Text) /\ one \in Seq(Text) /\ r \in ReadingType
          BY <2>1, <3>1
        <4> QED
          BY <4>1, PutTwice
      <3>3. PutBefore(w, none, PutBefore(m, none, r)) = PutBefore(w \o m, none \o none, r)
        <4>1. m \in Text /\ none \in Seq(Text) /\ r \in ReadingType
          BY <2>1, <2>3, <3>1
        <4> QED
          BY <4>1, PutTwice
      <3>4. /\ PutBefore(w, none, PutBefore(b, one, r)) = PutBefore(w \o b, one, r)
            /\ PutBefore(w, none, PutBefore(m, none, r)) = PutBefore(w \o m, none, r)
        BY <3>1, <3>2, <3>3
      <3> QED
        BY <3>4 DEF none, one
    <2>5. CASE p \in Callable
      BY <2>2, <2>4, <2>5 DEF t
    <2>6. CASE p \notin Callable
      BY <2>2, <2>3, <2>4, <2>6 DEF t, m
    <2> QED
      BY <2>5, <2>6
  <1> QED
    BY <1>4, <1>5, <1>6 DEF t

-----------------------------------------------------------------------------
(* The filter's steps.                                                     *)

\* How a filter's steps leave it, whatever they are.
LEMMA FilterFields ==
    ASSUME NEW f \in FilterState
    PROVE  /\ f.buf \in Text /\ f.inCall \in BOOLEAN /\ f.counter \in Nat /\ f.shown \in Text
           /\ f.calls \in Seq([id : IdType, what : Text])
           /\ Len(f.buf) \in Nat /\ Len(f.calls) \in Nat
  BY DEF FilterState, Text

\* OpenCall shows what stands before the tag.
LEMMA OpenCallIs ==
    ASSUME NEW f \in FilterState, Has(f.buf, tagOpen)
    PROVE  LET g == OpenCall(f) IN
           /\ g \in FilterState /\ Len(g.buf) < Len(f.buf)
           /\ g.buf = After(f.buf, tagOpen) /\ g.inCall
           /\ g.shown = f.shown \o Before(f.buf, tagOpen)
           /\ g.calls = f.calls /\ g.counter = f.counter
  <1> DEFINE a == After(f.buf, tagOpen)
             s == f.shown \o Before(f.buf, tagOpen)
             g == [f EXCEPT !.buf = a, !.inCall = TRUE, !.shown = s]
  <1>1. a \in Text /\ Len(a) < Len(f.buf) /\ s \in Text
    <2>1. f.buf \in Text /\ f.shown \in Text
      BY FilterFields
    <2>2. Before(f.buf, tagOpen) \in Text /\ a \in Text /\ Len(a) < Len(f.buf)
      BY <2>1, AroundTags
    <2> QED
      BY <2>1, <2>2, TextFacts
  <1>2. OpenCall(f) = g
    BY DEF OpenCall
  <1> HIDE DEF a, s
  <1>3. /\ g \in FilterState /\ g.buf = a /\ g.inCall /\ g.shown = s
        /\ g.calls = f.calls /\ g.counter = f.counter
    BY <1>1 DEF FilterState
  <1> HIDE DEF g
  <1> QED
    BY <1>1, <1>2, <1>3 DEF a, s

\* CloseCall makes a call of the body, or shows it with its tags.
LEMMA CloseCallIs ==
    ASSUME NEW f \in FilterState, Has(f.buf, tagClose)
    PROVE  LET g == CloseCall(f)
               what == Before(f.buf, tagClose)
           IN
           /\ g \in FilterState /\ Len(g.buf) < Len(f.buf) /\ what \in Text
           /\ g.buf = After(f.buf, tagClose) /\ ~g.inCall
           /\ what \in Callable =>
                 /\ g.shown = f.shown /\ g.counter = f.counter + 1
                 /\ g.calls = Append(f.calls, ToolCall(Id("xmlcall", f.counter + 1), what))
           /\ what \notin Callable =>
                 /\ g.shown = f.shown \o tagOpen \o what \o tagClose
                 /\ g.counter = f.counter /\ g.calls = f.calls
  <1> DEFINE a == After(f.buf, tagClose)
             what == Before(f.buf, tagClose)
             s == f.shown \o tagOpen \o what \o tagClose
             call == ToolCall(Id("xmlcall", f.counter + 1), what)
             more == Append(f.calls, call)
             g == [f EXCEPT !.buf = a, !.inCall = FALSE]
             made == [g EXCEPT !.counter = g.counter + 1, !.calls = more]
             told == [g EXCEPT !.shown = s]
  <1>0. f.buf \in Text /\ f.shown \in Text
    BY FilterFields
  <1>1. a \in Text /\ Len(a) < Len(f.buf) /\ what \in Text
    BY <1>0, AroundTags
  <1>2. s \in Text
    <2> HIDE DEF what
    <2>1. f.shown \o tagOpen \in Text
      BY <1>0, TextFacts
    <2>2. f.shown \o tagOpen \o what \in Text
      BY <1>1, <2>1, TextFacts
    <2> QED
      BY <2>2, TextFacts
  <1>3. more \in Seq([id : IdType, what : Text])
    <2>1. call \in [id : IdType, what : Text]
      <3> HIDE DEF what
      <3>1. f.counter + 1 \in Nat
        BY FilterFields
      <3> QED
        BY <1>1, <3>1 DEF ToolCall, Id, IdType
    <2> DEFINE X == [id : IdType, what : Text]
    <2>2. f.calls \in Seq(X) /\ call \in X
      BY <2>1, FilterFields
    <2> HIDE DEF call, X
    <2>3. more \in Seq(X)
      BY <2>2
    <2> QED
      BY <2>3 DEF X
  <1>4. /\ g.counter = f.counter /\ g.calls = f.calls /\ g.shown = f.shown
        /\ CloseCall(f) = IF what \in Callable THEN made ELSE told
    <2>1. g.counter = f.counter /\ g.calls = f.calls /\ g.shown = f.shown
      BY DEF FilterState
    <2> HIDE DEF g
    <2> QED
      BY <2>1 DEF CloseCall, newCall, parseCall, g
  <1> HIDE DEF a, what, s, call, more
  <1>5. g \in FilterState /\ g.buf = a /\ ~g.inCall
    BY <1>1 DEF FilterState
  <1> HIDE DEF g
  <1>6. /\ made \in FilterState /\ made.buf = a /\ ~made.inCall /\ made.shown = f.shown
        /\ made.counter = f.counter + 1 /\ made.calls = more
    <2>1. g.counter + 1 \in Nat
      BY <1>5, FilterFields
    <2> QED
      BY <1>3, <1>4, <1>5, <2>1 DEF FilterState
  <1>7. /\ told \in FilterState /\ told.buf = a /\ ~told.inCall /\ told.shown = s
        /\ told.counter = f.counter /\ told.calls = f.calls
    BY <1>2, <1>4, <1>5 DEF FilterState
  <1> HIDE DEF made, told
  <1> QED
    BY <1>1, <1>4, <1>6, <1>7 DEF a, what, s, call, more

\* The part held back is the beginning of a tag, and no longer part is one.
LEMMA PartialTagIs ==
    ASSUME NEW s \in Text
    PROVE  LET p == partialTagSuffix(s) IN
           /\ p \in Nat /\ p <= Len(s) /\ p < Len(tagOpen)
           /\ SubSeq(s, Len(s) - p + 1, Len(s)) = SubSeq(tagOpen, 1, p)
           /\ \A n \in Nat : p < n /\ n <= Len(s) /\ n < Len(tagOpen) =>
                 SubSeq(s, Len(s) - n + 1, Len(s)) # SubSeq(tagOpen, 1, n)
  <1> DEFINE top == Min({Len(s), Len(tagOpen) - 1})
             B == {n \in 0..top :
                     SubSeq(s, Len(s) - n + 1, Len(s)) = SubSeq(tagOpen, 1, n)}
  <1>1. Len(s) \in Nat /\ Len(tagOpen) \in Nat /\ Len(tagOpen) > 0
    BY TagsAssumption DEF Text
  <1>2. /\ top \in Nat /\ top <= Len(s) /\ top <= Len(tagOpen) - 1
        /\ top = Len(s) \/ top = Len(tagOpen) - 1
    <2> DEFINE T == {Len(s), Len(tagOpen) - 1}
    <2>1. \E x \in T : \A y \in T : x <= y
      BY <1>1
    <2>2. Min(T) \in T /\ \A y \in T : Min(T) <= y
      <3> HIDE DEF T
      <3> QED
        BY <2>1 DEF Min
    <2> QED
      BY <1>1, <2>2
  <1>3. 0 \in B
    <2>1. SubSeq(s, Len(s) - 0 + 1, Len(s)) = <<>> /\ SubSeq(tagOpen, 1, 0) = <<>>
      BY <1>1 DEF Text
    <2> HIDE DEF top
    <2> QED
      BY <1>2, <2>1
  <1>4. partialTagSuffix(s) = Max(B)
    BY DEF partialTagSuffix
  <1>5. B \subseteq 0..top
    OBVIOUS
  <1>6. Max(B) \in B /\ \A n \in B : n <= Max(B)
    <2> HIDE DEF B, top
    <2>0. IsFiniteSet(0..top) /\ 0..top \subseteq Nat
      BY <1>2, FS_Interval
    <2>1. IsFiniteSet(B) /\ B # {} /\ B \subseteq Nat
      BY <1>3, <1>5, <2>0, FS_Subset
    <2> QED
      BY <2>1, GreatestIs
  <1>7. \A n \in Nat : n <= top /\ n \notin B =>
              SubSeq(s, Len(s) - n + 1, Len(s)) # SubSeq(tagOpen, 1, n)
    <2> HIDE DEF top
    <2> QED
      BY <1>2
  <1>8. \A n \in Nat : n <= Len(s) /\ n < Len(tagOpen) => n <= top
    <2> HIDE DEF top
    <2> QED
      BY <1>1, <1>2
  <1>9. SubSeq(s, Len(s) - Max(B) + 1, Len(s)) = SubSeq(tagOpen, 1, Max(B))
    <2> DEFINE q == Max(B)
    <2>1. q \in B
      BY <1>6
    <2> HIDE DEF q, top
    <2>2. SubSeq(s, Len(s) - q + 1, Len(s)) = SubSeq(tagOpen, 1, q)
      BY <2>1
    <2> QED
      BY <2>2 DEF q
  <1> HIDE DEF B
  <1> DEFINE q == Max(B)
  <1>10. q \in Nat /\ q <= top
    <2> HIDE DEF top
    <2>1. q \in 0..top
      BY <1>5, <1>6
    <2> HIDE DEF q
    <2> QED
      BY <1>2, <2>1
  <1> HIDE DEF q, top
  <1>11. \A n \in Nat : q < n => n \notin B
    BY <1>6, <1>10 DEF q
  <1>12. q <= Len(s) /\ q < Len(tagOpen)
    BY <1>1, <1>2, <1>10
  <1> QED
    BY <1>4, <1>7, <1>8, <1>9, <1>10, <1>11, <1>12 DEF q

\* EmitProse shows all but what may be the beginning of a tag.
LEMMA EmitProseIs ==
    ASSUME NEW f \in FilterState
    PROVE  LET g == EmitProse(f)
               n == Len(f.buf) - partialTagSuffix(f.buf)
           IN
           /\ g \in FilterState
           /\ n \in 0..Len(f.buf)
           /\ SubSeq(f.buf, 1, n) \in Text
           /\ g.shown = f.shown \o SubSeq(f.buf, 1, n)
           /\ g.buf = SubSeq(f.buf, n + 1, Len(f.buf))
           /\ g.inCall = f.inCall /\ g.calls = f.calls /\ g.counter = f.counter
  <1> DEFINE n == Len(f.buf) - partialTagSuffix(f.buf)
             a == SubSeq(f.buf, n + 1, Len(f.buf))
             s == f.shown \o SubSeq(f.buf, 1, n)
             g == [f EXCEPT !.buf = a, !.shown = s]
  <1>0. f.buf \in Text /\ f.shown \in Text /\ Len(f.buf) \in Nat
    BY FilterFields
  <1>1. n \in 0..Len(f.buf)
    <2>1. partialTagSuffix(f.buf) \in Nat /\ partialTagSuffix(f.buf) <= Len(f.buf)
      BY <1>0, PartialTagIs
    <2> QED
      BY <1>0, <2>1
  <1>2. EmitProse(f) = g
    BY DEF EmitProse
  <1> HIDE DEF n
  <1>3. SubSeq(f.buf, 1, n) \in Text /\ a \in Text
    BY <1>0, <1>1, Halves DEF Text
  <1>4. s \in Text
    BY <1>0, <1>3, TextFacts
  <1> HIDE DEF a, s
  <1>5. /\ g \in FilterState /\ g.buf = a /\ g.shown = s
        /\ g.inCall = f.inCall /\ g.calls = f.calls /\ g.counter = f.counter
    BY <1>3, <1>4 DEF FilterState
  <1> HIDE DEF g
  <1> QED
    BY <1>1, <1>2, <1>3, <1>5 DEF a, s, n

\* drain goes on as long as there is a tag to come to.
Draining(f) == IF f.inCall THEN Has(f.buf, tagClose) ELSE Has(f.buf, tagOpen)
Drained(f) == IF f.inCall THEN CloseCall(f) ELSE OpenCall(f)

\* Each turn of drain leaves less in the buffer.
LEMMA DrainedIs ==
    ASSUME NEW f \in FilterState, Draining(f)
    PROVE  Drained(f) \in FilterState /\ Len(Drained(f).buf) < Len(f.buf)
  <1>1. CASE f.inCall
    BY <1>1, CloseCallIs DEF Draining, Drained
  <1>2. CASE ~f.inCall
    BY <1>2, OpenCallIs DEF Draining, Drained
  <1> QED
    BY <1>1, <1>2

\* drain, as its definition says.
LEMMA DrainIs ==
    /\ drain \in [FilterState -> FilterState]
    /\ \A f \in FilterState :
          /\ Draining(f) => drain[f] = drain[Drained(f)]
          /\ ~Draining(f) /\ f.inCall => drain[f] = f
          /\ ~Draining(f) /\ ~f.inCall => drain[f] = EmitProse(f)
  <1> DEFINE S == FilterState
             more == {f \in S : Draining(f)}
             next == [f \in S |-> IF Draining(f) THEN Drained(f) ELSE f]
             mu == [f \in S |-> Len(f.buf)]
             base == [f \in S |-> IF f.inCall THEN f ELSE EmitProse(f)]
             comb == [f \in S |-> [r \in S |-> r]]
             rhs(d, f) ==
                 CASE f.inCall /\ Has(f.buf, tagClose) -> d[CloseCall(f)]
                   [] f.inCall /\ ~Has(f.buf, tagClose) -> f
                   [] ~f.inCall /\ Has(f.buf, tagOpen) -> d[OpenCall(f)]
                   [] OTHER -> EmitProse(f)
             Eq(d) == d = [f \in S |-> rhs(d, f)]
  <1>1. next \in [S -> S] /\ mu \in [S -> Nat] /\ base \in [S -> S] /\ comb \in [S -> [S -> S]]
    BY DrainedIs, EmitProseIs, FilterFields
  <1>2. \A f \in S : f \in more => mu[next[f]] < mu[f]
    BY DrainedIs
  <1>3. ASSUME NEW d, NEW f \in S
        PROVE  rhs(d, f) = IF Draining(f) THEN d[Drained(f)] ELSE base[f]
    <2>1. f.inCall \in BOOLEAN
      BY FilterFields
    <2> QED
      BY <2>1 DEF Draining, Drained
  <1>4. ASSUME NEW d \in [S -> S], NEW f \in S
        PROVE  (IF f \in more THEN comb[f][d[next[f]]] ELSE base[f]) = rhs(d, f)
    <2>1. CASE Draining(f)
      <3>1. f \in more /\ next[f] = Drained(f) /\ d[Drained(f)] \in S
        BY <2>1, DrainedIs
      <3>2. comb[f][d[Drained(f)]] = d[Drained(f)]
        BY <3>1
      <3> HIDE DEF more, next, comb, base, rhs
      <3> QED
        BY <1>3, <2>1, <3>1, <3>2
    <2>2. CASE ~Draining(f)
      <3>1. f \notin more
        BY <2>2
      <3> HIDE DEF more, next, comb, base, rhs
      <3> QED
        BY <1>3, <2>2, <3>1
    <2> QED
      BY <2>1, <2>2
  <1>5. PICK d \in [S -> S] : Recursive(S, more, next, comb, base, d)
    <2> HIDE DEF S, more, next, comb, base, mu
    <2> QED
      BY <1>1, <1>2, RecursionExists
  <1>6. Eq(d)
    <2> HIDE DEF rhs
    <2>1. \A f \in S : d[f] = rhs(d, f)
      <3>1. \A f \in S : d[f] = IF f \in more THEN comb[f][d[next[f]]] ELSE base[f]
        <4> HIDE DEF S, more, next, comb, base
        <4> QED
          BY <1>5 DEF Recursive
      <3> HIDE DEF more, next, comb, base
      <3> QED
        BY <1>4, <3>1
    <2> QED
      BY <2>1
  <1> DEFINE D == CHOOSE e : Eq(e)
  <1>7. Eq(D)
    <2> HIDE DEF Eq
    <2> QED
      BY <1>6
  <1>8. drain = D
    BY DEF drain
  <1> HIDE DEF D
  <1>9. ASSUME NEW f \in S PROVE D[f] = IF Draining(f) THEN D[Drained(f)] ELSE base[f]
    <2>1. D[f] = rhs(D, f)
      <3>1. D = [e \in S |-> rhs(D, e)]
        BY <1>7
      <3> HIDE DEF rhs
      <3> QED
        BY <3>1
    <2> HIDE DEF rhs, base
    <2> QED
      BY <1>3, <2>1
  <1>10. D \in [S -> S]
    <2> DEFINE B == {f \in S : D[f] \notin S}
    <2>1. ASSUME NEW f \in B, \A e \in B : mu[f] <= mu[e] PROVE FALSE
      <3>1. f \in S /\ D[f] \notin S
        OBVIOUS
      <3>2. CASE Draining(f)
        <4>1. Drained(f) \in S /\ ~ (mu[f] <= mu[Drained(f)])
          <5>1. Drained(f) \in S /\ Len(Drained(f).buf) < Len(f.buf)
            BY <3>1, <3>2, DrainedIs
          <5>2. Len(Drained(f).buf) \in Nat /\ Len(f.buf) \in Nat
            BY <3>1, <5>1, FilterFields
          <5> QED
            BY <3>1, <5>1, <5>2
        <4>2. Drained(f) \notin B
          <5> HIDE DEF B, mu
          <5> QED
            BY <2>1, <4>1
        <4>3. D[Drained(f)] \in S
          BY <4>1, <4>2
        <4> HIDE DEF B, base
        <4> QED
          BY <1>9, <3>1, <3>2, <4>3
      <3>3. CASE ~Draining(f)
        <4>1. base[f] \in S
          BY <1>1, <3>1
        <4> HIDE DEF B, base
        <4> QED
          BY <1>9, <3>1, <3>3, <4>1
      <3> QED
        BY <3>2, <3>3
    <2>2. B = {}
      <3>1. B \subseteq S /\ mu \in [S -> Nat]
        BY <1>1
      <3> HIDE DEF B, mu, S
      <3> QED
        BY <2>1, <3>1, LeastExists
    <2>3. \A f \in S : D[f] \in S
      BY <2>2
    <2>4. D = [f \in S |-> D[f]]
      <3>1. D = [f \in S |-> rhs(D, f)]
        BY <1>7
      <3> HIDE DEF rhs
      <3> QED
        BY <3>1
    <2> HIDE DEF S
    <2> QED
      BY <2>3, <2>4
  <1> QED
    BY <1>8, <1>9, <1>10

-----------------------------------------------------------------------------
(* What a filter and a reading of what is still before it amount to.       *)

WhatOf(found) == [k \in 1..Len(found) |-> found[k].what]
Ahead(f) == (IF f.inCall THEN tagOpen ELSE <<>>) \o f.buf
Sees(f, r) == PutBefore(f.shown, WhatOf(f.calls), r)

\* g has gone on from f: whatever comes, it reads the same.
GoesOn(f, g) ==
    \A u \in Text :
        Sees(g, Whole!Reading[Ahead(g) \o u]) = Sees(f, Whole!Reading[Ahead(f) \o u])

\* The bodies of a list of calls, and of one call more.
LEMMA WhatOfIs ==
    ASSUME NEW c \in Seq([id : IdType, what : Text])
    PROVE  /\ WhatOf(c) \in Seq(Text) /\ Len(WhatOf(c)) = Len(c)
           /\ \A id, w : WhatOf(Append(c, ToolCall(id, w))) = WhatOf(c) \o <<w>>
  <1> DEFINE X == [id : IdType, what : Text]
  <1>1. Len(c) \in Nat /\ c = [k \in 1..Len(c) |-> c[k]] /\ \A k \in 1..Len(c) : c[k].what \in Text
    <2>1. \A x \in X : x.what \in Text
      OBVIOUS
    <2>2. c \in Seq(X)
      OBVIOUS
    <2> HIDE DEF X
    <2> QED
      BY <2>1, <2>2
  <1>2. WhatOf(c) \in Seq(Text) /\ Len(WhatOf(c)) = Len(c)
    BY <1>1 DEF WhatOf
  <1>3. ASSUME NEW id, NEW w
        PROVE  WhatOf(Append(c, ToolCall(id, w))) = WhatOf(c) \o <<w>>
    <2> DEFINE x == ToolCall(id, w)
               d == Append(c, x)
               e == WhatOf(c) \o <<w>>
               n == Len(c)
    <2>1. x.what = w
      BY DEF ToolCall
    <2> HIDE DEF x
    <2>2. Len(d) = n + 1 /\ d[n + 1] = x /\ \A k \in 1..n : d[k] = c[k]
      BY <1>1
    <2> HIDE DEF d
    <2>3. /\ e = [k \in 1..n + 1 |-> IF k <= n THEN WhatOf(c)[k] ELSE w]
      <3>1. Len(WhatOf(c)) = n /\ n \in Nat
        BY <1>1, <1>2
      <3> DEFINE v == WhatOf(c)
      <3> HIDE DEF v, n
      <3>2. v \o <<w>> = [k \in 1..Len(v) + 1 |-> IF k <= Len(v) THEN v[k] ELSE <<w>>[k - Len(v)]]
        BY <3>1 DEF v
      <3>3. \A k \in 1..n + 1 : ~(k <= n) => <<w>>[k - n] = w
        <4>1. ASSUME NEW k \in 1..n + 1, ~(k <= n) PROVE <<w>>[k - n] = w
          <5>1. k - n = 1
            BY <3>1, <4>1
          <5> QED
            BY <5>1
        <4> QED
          BY <4>1
      <3>4. v \o <<w>> = [k \in 1..n + 1 |-> IF k <= n THEN v[k] ELSE w]
        BY <3>1, <3>2, <3>3 DEF v
      <3> QED
        BY <3>4 DEF v
    <2>4. \A k \in 1..n : WhatOf(c)[k] = c[k].what
      BY DEF WhatOf
    <2> HIDE DEF e
    <2>5. WhatOf(d) = [k \in 1..n + 1 |-> d[k].what]
      BY <2>2 DEF WhatOf
    <2>6. \A k \in 1..n + 1 : d[k].what = IF k <= n THEN WhatOf(c)[k] ELSE w
      <3>1. n \in Nat
        BY <1>1
      <3> HIDE DEF n
      <3>2. ASSUME NEW k \in 1..n + 1 PROVE d[k].what = IF k <= n THEN WhatOf(c)[k] ELSE w
        <4>1. k \in 1..n \/ (k = n + 1 /\ ~(k <= n))
          BY <3>1
        <4>2. k \in 1..n => k <= n
          BY <3>1
        <4> QED
          BY <2>1, <2>2, <2>4, <4>1, <4>2
      <3> QED
        BY <3>2
    <2> HIDE DEF n
    <2> QED
      BY <2>3, <2>5, <2>6 DEF d, e, x
  <1> QED
    BY <1>2, <1>3

\* What is ahead of a filter is text.
LEMMA AheadIs ==
    ASSUME NEW f \in FilterState
    PROVE  /\ Ahead(f) \in Text
           /\ f.inCall => Ahead(f) = tagOpen \o f.buf
           /\ ~f.inCall => Ahead(f) = f.buf
           /\ WhatOf(f.calls) \in Seq(Text)
  BY FilterFields, TextFacts, WhatOfIs DEF Ahead

\* It goes on from an open tag.
LEMMA OpenCallGoesOn ==
    ASSUME NEW f \in FilterState, ~f.inCall, Has(f.buf, tagOpen)
    PROVE  GoesOn(f, OpenCall(f))
  <1> DEFINE g == OpenCall(f)
             b == f.buf
             w == Before(b, tagOpen)
             a == After(b, tagOpen)
  <1>1. /\ g \in FilterState /\ g.buf = a /\ g.inCall
        /\ g.shown = f.shown \o w /\ g.calls = f.calls
    BY OpenCallIs
  <1> HIDE DEF g
  <1>2. b \in Text /\ w \in Text /\ a \in Text /\ tagOpen \in Text /\ f.shown \in Text
    BY FilterFields, AroundTags, TextFacts
  <1>3. Ahead(f) = b /\ Ahead(g) = tagOpen \o a /\ WhatOf(f.calls) \in Seq(Text)
    BY <1>1, AheadIs
  <1>4. b = w \o tagOpen \o a /\ Len(w) = Min(Places(b, tagOpen))
    BY <1>2, CutAt DEF Text
  <1>5. ASSUME NEW u \in Text
        PROVE  Sees(g, Whole!Reading[Ahead(g) \o u]) = Sees(f, Whole!Reading[Ahead(f) \o u])
    <2> DEFINE v == (tagOpen \o a) \o u
               t == b \o u
               none == <<>>
    <2>1. v \in Text
      BY <1>2, TextFacts
    <2>2. t = w \o v
      <3> HIDE DEF b, w, a
      <3> DEFINE x == tagOpen \o a
      <3>1. b = w \o x /\ x \in Text
        <4>1. x \in Text
          BY <1>2, TextFacts
        <4>2. (w \o tagOpen) \o a = w \o (tagOpen \o a)
          <5>1. w \in Text /\ tagOpen \in Text /\ a \in Text
            BY <1>2, TextFacts
          <5> QED
            BY <5>1, TextRegrouped
        <4> QED
          BY <1>4, <4>1, <4>2
      <3> HIDE DEF x
      <3>2. (w \o x) \o u = w \o (x \o u)
        <4>1. w \in Text /\ x \in Text /\ u \in Text
          BY <1>2, <3>1
        <4> QED
          BY <4>1, TextRegrouped
      <3> QED
        BY <3>1, <3>2 DEF x
    <2>3. \A n \in Places(t, tagOpen) : Len(w) <= n
      <3>1. Has(t, tagOpen) /\ Before(t, tagOpen) = w
        BY <1>2, CutInLonger DEF Text
      <3>2. t \in Text
        BY <1>2, TextFacts
      <3> HIDE DEF t, w
      <3>3. /\ Len(w) = Min(Places(t, tagOpen))
            /\ \A n \in Places(t, tagOpen) : Min(Places(t, tagOpen)) <= n
        BY <1>2, <3>1, <3>2, CutAt, FirstPlace DEF Text
      <3> QED
        BY <3>3
    <2>4. none \in Seq(Text) /\ WhatOf(f.calls) \o none = WhatOf(f.calls)
      BY <1>3, TextFacts
    <2> HIDE DEF w, v, t
    <2>5. Whole!Reading[t] = PutBefore(w, none, Whole!Reading[v]) /\ Whole!Reading[v] \in ReadingType
      <3>1. Whole!Reading[w \o v] = PutBefore(w, <<>>, Whole!Reading[v])
        BY <1>2, <2>1, <2>2, <2>3, ReadingBehind
      <3> QED
        BY <2>1, <2>2, <3>1, ReadingIs
    <2> HIDE DEF none
    <2> DEFINE r == Whole!Reading[v]
               c == WhatOf(f.calls)
    <2>6. PutBefore(f.shown, c, PutBefore(w, none, r)) = PutBefore(f.shown \o w, c \o none, r)
      <3>1. c \in Seq(Text) /\ r \in ReadingType
        BY <1>3, <2>5
      <3> HIDE DEF c, r
      <3> QED
        BY <1>2, <2>4, <3>1, PutTwice
    <2>7. Sees(f, Whole!Reading[t]) = PutBefore(f.shown \o w, c, r)
      BY <2>4, <2>5, <2>6 DEF Sees
    <2>8. Sees(g, r) = PutBefore(f.shown \o w, c, r)
      BY <1>1 DEF Sees
    <2> HIDE DEF r, c
    <2> QED
      BY <1>3, <2>7, <2>8 DEF r, v, t
  <1> QED
    BY <1>5 DEF GoesOn, g

\* It goes on from a close tag, whether or not the body is a call.
LEMMA CloseCallGoesOn ==
    ASSUME NEW f \in FilterState, f.inCall, Has(f.buf, tagClose)
    PROVE  GoesOn(f, CloseCall(f))
  <1> DEFINE g == CloseCall(f)
             b == f.buf
             w == Before(b, tagClose)
             a == After(b, tagClose)
             c == WhatOf(f.calls)
  <1>1. /\ g \in FilterState /\ g.buf = a /\ ~g.inCall
        /\ w \in Callable =>
              /\ g.shown = f.shown
              /\ g.calls = Append(f.calls, ToolCall(Id("xmlcall", f.counter + 1), w))
        /\ w \notin Callable => /\ g.shown = f.shown \o tagOpen \o w \o tagClose
                                /\ g.calls = f.calls
    BY CloseCallIs
  <1> HIDE DEF g
  <1>2. /\ b \in Text /\ w \in Text /\ a \in Text /\ tagOpen \in Text /\ tagClose \in Text
        /\ f.shown \in Text
    BY FilterFields, AroundTags, TextFacts
  <1>3. Ahead(f) = tagOpen \o b /\ Ahead(g) = a /\ c \in Seq(Text)
    BY <1>1, AheadIs
  <1>4. w \in Callable => WhatOf(g.calls) = c \o <<w>>
    <2>1. f.calls \in Seq([id : IdType, what : Text])
      BY FilterFields
    <2> HIDE DEF w
    <2> QED
      BY <1>1, <2>1, WhatOfIs
  <1>5. ASSUME NEW u \in Text
        PROVE  Sees(g, Whole!Reading[Ahead(g) \o u]) = Sees(f, Whole!Reading[Ahead(f) \o u])
    <2> DEFINE t == (tagOpen \o b) \o u
               v == b \o u
               none == <<>>
               one == <<w>>
               later == a \o u
               r == Whole!Reading[later]
    <2>1. /\ v \in Text /\ t \in Text /\ later \in Text /\ r \in ReadingType
          /\ none \in Text /\ none \in Seq(Text) /\ one \in Seq(Text)
          /\ c \o none = c /\ f.shown \o none = f.shown
      <3>1. v \in Text /\ t \in Text /\ later \in Text
        BY <1>2, TextFacts
      <3>2. r \in ReadingType
        BY <3>1, ReadingIs
      <3>3. /\ none \in Text /\ none \in Seq(Text) /\ one \in Seq(Text)
            /\ c \o none = c /\ f.shown \o none = f.shown
        BY <1>2, <1>3, TextFacts
      <3> QED
        BY <3>1, <3>2, <3>3
    <2>2. Has(v, tagClose) /\ Before(v, tagClose) = w /\ After(v, tagClose) = later
      BY <1>2, CutInLonger DEF Text
    <2>3. Has(t, tagOpen) /\ Before(t, tagOpen) = none /\ After(t, tagOpen) = v
      <3> HIDE DEF v
      <3> DEFINE s == (none \o tagOpen) \o v
      <3>1. none \o tagOpen = tagOpen
        BY <1>2, TextFacts
      <3>2. t = s
        <4>1. (tagOpen \o b) \o u = tagOpen \o (b \o u)
          <5>1. tagOpen \in Text /\ b \in Text /\ u \in Text
            BY <1>2
          <5> HIDE DEF b
          <5> QED
            BY <5>1, TextRegrouped
        <4> QED
          BY <3>1, <4>1 DEF v
      <3>3. \A n \in Places(s, tagOpen) : Len(none) <= n
        BY DEF Places
      <3> HIDE DEF none, t
      <3>4. Has(s, tagOpen) /\ Before(s, tagOpen) = none /\ After(s, tagOpen) = v
        <4>1. none \in Seq(Symbol) /\ tagOpen \in Seq(Symbol) /\ v \in Seq(Symbol)
          BY <1>2, <2>1 DEF Text
        <4> QED
          BY <3>3, <4>1, CutIs
      <3> QED
        BY <3>2, <3>4
    <2> HIDE DEF v, t, w, a, b, later
    <2>4. Called(t) /\ FirstBody(t) = w /\ Later(t) = later
      BY <2>2, <2>3 DEF Called, FirstBody, Later
    <2> DEFINE m == none \o tagOpen \o w \o tagClose
    <2>5. /\ w \in Callable => Whole!Reading[t] = PutBefore(none, one, r)
          /\ w \notin Callable => Whole!Reading[t] = PutBefore(m, none, r)
      BY <2>1, <2>3, <2>4, ReadingIs
    <2>6. m \in Text /\ f.shown \o m = f.shown \o tagOpen \o w \o tagClose
      <3> DEFINE s == f.shown
                 x == tagOpen \o w
      <3>1. s \in Text /\ tagOpen \in Text /\ w \in Text /\ tagClose \in Text /\ x \in Text
        BY <1>2, TextFacts
      <3>2. m = x \o tagClose
        BY <3>1, TextFacts
      <3>3. (s \o tagOpen) \o w = s \o x
        <4>1. s \in Text /\ tagOpen \in Text /\ w \in Text
          BY <3>1
        <4> HIDE DEF s
        <4> QED
          BY <4>1, TextRegrouped
      <3> HIDE DEF s, x, m
      <3>4. (s \o x) \o tagClose = s \o (x \o tagClose)
        <4>1. s \in Text /\ x \in Text /\ tagClose \in Text
          BY <3>1
        <4> QED
          BY <4>1, TextRegrouped
      <3>5. m \in Text
        BY <3>1, <3>2, TextFacts
      <3> QED
        BY <3>2, <3>3, <3>4, <3>5 DEF s
    <2> HIDE DEF m, none, one, r, c
    <2>7. CASE w \in Callable
      <3>1. PutBefore(f.shown, c, PutBefore(none, one, r)) = PutBefore(f.shown, c \o one, r)
        <4>1. /\ f.shown \in Text /\ none \in Text /\ c \in Seq(Text) /\ one \in Seq(Text)
              /\ r \in ReadingType
          BY <1>2, <1>3, <2>1
        <4> DEFINE s == f.shown
        <4>2. /\ s \in Text /\ none \in Text /\ c \in Seq(Text) /\ one \in Seq(Text)
              /\ r \in ReadingType
          BY <4>1
        <4>3. s \o none = s
          BY <2>1
        <4> HIDE DEF s
        <4>4. PutBefore(s, c, PutBefore(none, one, r)) = PutBefore(s \o none, c \o one, r)
          BY <4>2, PutTwice
        <4> QED
          BY <4>3, <4>4 DEF s
      <3>2. Sees(f, Whole!Reading[t]) = PutBefore(f.shown, c \o one, r)
        BY <2>5, <2>7, <3>1 DEF Sees, c
      <3>3. Sees(g, r) = PutBefore(f.shown, c \o one, r)
        BY <1>1, <1>4, <2>7 DEF Sees, one, w, b
      <3> QED
        BY <1>3, <3>2, <3>3 DEF t, r, later
    <2>8. CASE w \notin Callable
      <3>1. PutBefore(f.shown, c, PutBefore(m, none, r)) = PutBefore(f.shown \o m, c, r)
        <4>1. /\ f.shown \in Text /\ m \in Text /\ c \in Seq(Text) /\ none \in Seq(Text)
              /\ r \in ReadingType
          BY <1>2, <1>3, <2>1, <2>6
        <4> DEFINE s == f.shown
        <4>2. /\ s \in Text /\ m \in Text /\ c \in Seq(Text) /\ none \in Seq(Text)
              /\ r \in ReadingType
          BY <4>1
        <4> HIDE DEF s
        <4>3. PutBefore(s, c, PutBefore(m, none, r)) = PutBefore(s \o m, c \o none, r)
          BY <4>2, PutTwice
        <4> QED
          BY <2>1, <4>3 DEF s
      <3>2. Sees(f, Whole!Reading[t]) = PutBefore(f.shown \o m, c, r)
        BY <2>5, <2>8, <3>1 DEF Sees, c
      <3>3. Sees(g, r) = PutBefore(f.shown \o m, c, r)
        BY <1>1, <2>6, <2>8 DEF Sees, c, w, b
      <3> QED
        BY <1>3, <3>2, <3>3 DEF t, r, later
    <2> QED
      BY <2>7, <2>8
  <1> QED
    BY <1>5 DEF GoesOn, g

\* It goes on from prose, in what is held back of which a tag may yet begin.
LEMMA EmitProseGoesOn ==
    ASSUME NEW f \in FilterState, ~f.inCall, ~Has(f.buf, tagOpen)
    PROVE  GoesOn(f, EmitProse(f))
  <1> DEFINE g == EmitProse(f)
             b == f.buf
             p == partialTagSuffix(b)
             n == Len(b) - p
             w == SubSeq(b, 1, n)
             a == SubSeq(b, n + 1, Len(b))
             c == WhatOf(f.calls)
  <1>1. /\ g \in FilterState /\ n \in 0..Len(b) /\ w \in Text
        /\ g.shown = f.shown \o w /\ g.buf = a /\ ~g.inCall /\ g.calls = f.calls
    BY EmitProseIs
  <1>2. b \in Text /\ Len(b) \in Nat /\ tagOpen \in Text /\ Len(tagOpen) \in Nat /\ f.shown \in Text
    BY FilterFields, TextFacts
  <1>3. /\ p \in Nat /\ p <= Len(b) /\ p < Len(tagOpen)
        /\ \A m \in Nat : p < m /\ m <= Len(b) /\ m < Len(tagOpen) =>
              SubSeq(b, Len(b) - m + 1, Len(b)) # SubSeq(tagOpen, 1, m)
    BY <1>2, PartialTagIs
  <1> HIDE DEF g, p
  <1>4. a \in Text /\ b = w \o a /\ Len(w) = n
    <2>1. n \in 0..Len(b) /\ b \in Seq(Symbol)
      BY <1>1, <1>2 DEF Text
    <2> HIDE DEF n, b
    <2>2. a \in Seq(Symbol) /\ b = w \o a /\ Len(w) = n
      BY <2>1, Halves
    <2> QED
      BY <2>2 DEF Text
  <1>5. Ahead(f) = b /\ Ahead(g) = a /\ c \in Seq(Text)
    BY <1>1, AheadIs
  <1> HIDE DEF w, a
  <1>6. ASSUME NEW u \in Text
        PROVE  Sees(g, Whole!Reading[Ahead(g) \o u]) = Sees(f, Whole!Reading[Ahead(f) \o u])
    <2> DEFINE t == b \o u
               v == a \o u
               none == <<>>
               r == Whole!Reading[v]
    <2>1. /\ v \in Text /\ t \in Text /\ r \in ReadingType /\ none \in Seq(Text)
          /\ c \o none = c
      <3>1. v \in Text /\ t \in Text
        BY <1>2, <1>4, TextFacts
      <3>2. r \in ReadingType
        BY <3>1, ReadingIs
      <3>3. none \in Seq(Text) /\ c \o none = c
        BY <1>5, TextFacts
      <3> QED
        BY <3>1, <3>2, <3>3
    <2>2. t = w \o v
      <3>1. w \in Text /\ a \in Text /\ u \in Text
        BY <1>1, <1>4
      <3>2. (w \o a) \o u = w \o (a \o u)
        BY <3>1, TextRegrouped
      <3> QED
        BY <1>4, <3>2
    <2>3. ASSUME NEW k \in Places(t, tagOpen), ~(Len(w) <= k) PROVE FALSE
      <3>0. /\ b \in Seq(Symbol) /\ u \in Seq(Symbol) /\ tagOpen \in Seq(Symbol)
            /\ t \in Seq(Symbol)
        BY <1>2, <2>1 DEF Text
      <3>1. k \in Nat
        BY DEF Places
      <3>2. k < n
        BY <1>1, <1>4, <2>3, <3>1
      <3>3. CASE k + Len(tagOpen) <= Len(b)
        <4> HIDE DEF b
        <4>1. k \in Places(b, tagOpen)
          BY <2>3, <3>0, <3>1, <3>3, PlacesInLonger
        <4> QED
          BY <4>1 DEF Has, b
      <3>4. CASE ~(k + Len(tagOpen) <= Len(b))
        <4> DEFINE m == Len(b) - k
        <4>1. m \in Nat /\ p < m /\ m <= Len(b) /\ m < Len(tagOpen)
          BY <1>2, <1>3, <3>1, <3>2, <3>4
        <4>2. \A i \in 1..Len(tagOpen) : t[k + i] = tagOpen[i]
          <5> HIDE DEF t
          <5> QED
            BY <2>3, <3>0, <3>1, PlaceIs
        <4>3. \A i \in 1..Len(b) : t[i] = b[i]
          <5> HIDE DEF b
          <5> QED
            BY <3>0, Joined
        <4> HIDE DEF t, n
        <4>4. \A i \in 1..m : b[k + i] = tagOpen[i]
          <5>1. ASSUME NEW i \in 1..m PROVE b[k + i] = tagOpen[i]
            <6>1. i \in 1..Len(tagOpen) /\ k + i \in 1..Len(b)
              BY <1>2, <3>1, <4>1
            <6> QED
              BY <4>2, <4>3, <6>1
          <5> QED
            BY <5>1
        <4>5. SubSeq(b, k + 1, Len(b)) = [i \in 1..m |-> b[k + i]]
          <5> DEFINE x == SubSeq(b, k + 1, Len(b))
          <5>1. k \in 0..Len(b)
            BY <1>2, <3>1, <4>1
          <5>2. x \in Seq(Symbol) /\ Len(x) = m /\ \A i \in 1..m : x[i] = b[k + i]
            <6> HIDE DEF b
            <6> QED
              BY <3>0, <5>1, Halves
          <5> HIDE DEF x, m, b
          <5>3. x = [i \in 1..m |-> x[i]]
            BY <5>2
          <5> QED
            BY <5>2, <5>3 DEF x
        <4>6. SubSeq(tagOpen, 1, m) = [i \in 1..m |-> tagOpen[i]]
          <5> DEFINE x == SubSeq(tagOpen, 1, m)
          <5>1. m \in 0..Len(tagOpen)
            BY <1>2, <4>1
          <5> HIDE DEF m
          <5>2. x \in Seq(Symbol) /\ Len(x) = m /\ \A i \in 1..m : x[i] = tagOpen[i]
            BY <3>0, <5>1, Halves
          <5> HIDE DEF x
          <5>3. x = [i \in 1..m |-> x[i]]
            BY <5>2
          <5> QED
            BY <5>2, <5>3 DEF x
        <4>7. SubSeq(b, k + 1, Len(b)) = SubSeq(tagOpen, 1, m)
          <5> HIDE DEF m, b
          <5> QED
            BY <4>4, <4>5, <4>6
        <4>8. Len(b) - m + 1 = k + 1
          BY <1>2, <3>1
        <4> HIDE DEF m, b
        <4> QED
          BY <1>3, <4>1, <4>7, <4>8
      <3> QED
        BY <3>3, <3>4
    <2> HIDE DEF t, v, b, n
    <2>4. Whole!Reading[t] = PutBefore(w, none, r)
      <3>1. w \in Text /\ v \in Text /\ \A k \in Places(w \o v, tagOpen) : Len(w) <= k
        BY <1>1, <2>1, <2>2, <2>3
      <3>2. Whole!Reading[w \o v] = PutBefore(w, <<>>, Whole!Reading[v])
        BY <3>1, ReadingBehind
      <3> QED
        BY <2>2, <3>2
    <2> HIDE DEF none, r, c
    <2>5. PutBefore(f.shown, c, PutBefore(w, none, r)) = PutBefore(f.shown \o w, c, r)
      <3> DEFINE s == f.shown
      <3>1. s \in Text /\ w \in Text /\ c \in Seq(Text) /\ none \in Seq(Text) /\ r \in ReadingType
        BY <1>1, <1>2, <1>5, <2>1
      <3> HIDE DEF s
      <3>2. PutBefore(s, c, PutBefore(w, none, r)) = PutBefore(s \o w, c \o none, r)
        BY <3>1, PutTwice
      <3> QED
        BY <2>1, <3>2 DEF s
    <2>6. Sees(f, Whole!Reading[t]) = PutBefore(f.shown \o w, c, r)
      BY <2>4, <2>5 DEF Sees, c
    <2>7. Sees(g, r) = PutBefore(f.shown \o w, c, r)
      BY <1>1 DEF Sees, c
    <2> QED
      BY <1>5, <2>6, <2>7 DEF t, v, r, b
  <1> QED
    BY <1>6 DEF GoesOn, g

\* What is left in a filter at rest: the body of a call, or the beginning of
\* a tag.
Rests(f) ==
    /\ f.inCall => ~Has(f.buf, tagClose)
    /\ ~f.inCall => /\ ~Has(f.buf, tagOpen)
                    /\ Len(f.buf) < Len(tagOpen)
                    /\ f.buf = SubSeq(tagOpen, 1, Len(f.buf))

\* More has been shown, and nothing that was shown is lost.
Grown(f, g) == \E w \in Text : g.shown = f.shown \o w

\* The calls of a filter are numbered from one.
Counted(f) ==
    /\ Len(f.calls) = f.counter
    /\ \A k \in 1..Len(f.calls) : f.calls[k].id = Id("xmlcall", k)

GoesOnFrom(f, g) == GoesOn(f, g) /\ Grown(f, g) /\ (Counted(f) => Counted(g))

\* What goes on from what goes on from f goes on from f.
LEMMA GoesOnTwice ==
    ASSUME NEW f \in FilterState, NEW g \in FilterState, NEW h \in FilterState,
           GoesOnFrom(f, g), GoesOnFrom(g, h)
    PROVE  GoesOnFrom(f, h)
  <1>1. GoesOn(f, h)
    BY DEF GoesOnFrom, GoesOn
  <1>2. Grown(f, h)
    <2>1. PICK v \in Text : g.shown = f.shown \o v
      BY DEF GoesOnFrom, Grown
    <2>2. PICK w \in Text : h.shown = g.shown \o w
      BY DEF GoesOnFrom, Grown
    <2> DEFINE s == f.shown
    <2>3. s \in Text /\ v \in Text /\ w \in Text
      BY FilterFields
    <2> HIDE DEF s
    <2>4. (s \o v) \o w = s \o (v \o w)
      BY <2>3, TextRegrouped
    <2>5. v \o w \in Text
      BY TextFacts
    <2>6. h.shown = f.shown \o (v \o w)
      BY <2>1, <2>2, <2>4 DEF s
    <2> QED
      BY <2>5, <2>6 DEF Grown
  <1> QED
    BY <1>1, <1>2 DEF GoesOnFrom

\* Each step of the filter goes on from where it was.
LEMMA DrainedGoesOn ==
    ASSUME NEW f \in FilterState, Draining(f)
    PROVE  GoesOnFrom(f, Drained(f))
  <1> DEFINE g == Drained(f)
  <1>0. f.inCall \in BOOLEAN /\ f.shown \in Text /\ <<>> \in Text /\ f.shown \o <<>> = f.shown
    BY FilterFields, TextFacts
  <1>1. CASE ~f.inCall
    <2>1. Has(f.buf, tagOpen) /\ g = OpenCall(f)
      BY <1>1 DEF Draining, Drained
    <2> HIDE DEF g
    <2>2. GoesOn(f, g)
      BY <1>1, <2>1, OpenCallGoesOn
    <2>3. /\ g.shown = f.shown \o Before(f.buf, tagOpen)
          /\ g.calls = f.calls /\ g.counter = f.counter
      BY <2>1, OpenCallIs
    <2>4. Before(f.buf, tagOpen) \in Text
      BY <2>1, FilterFields, AroundTags
    <2> QED
      BY <2>2, <2>3, <2>4 DEF GoesOnFrom, Grown, Counted, g
  <1>2. CASE f.inCall
    <2> DEFINE w == Before(f.buf, tagClose)
               call == ToolCall(Id("xmlcall", f.counter + 1), w)
    <2>1. Has(f.buf, tagClose) /\ g = CloseCall(f)
      BY <1>2 DEF Draining, Drained
    <2> HIDE DEF g
    <2>2. GoesOn(f, g)
      BY <1>2, <2>1, CloseCallGoesOn
    <2>3. /\ w \in Text
          /\ w \in Callable => /\ g.shown = f.shown /\ g.counter = f.counter + 1
                               /\ g.calls = Append(f.calls, call)
          /\ w \notin Callable => /\ g.shown = f.shown \o tagOpen \o w \o tagClose
                                  /\ g.counter = f.counter /\ g.calls = f.calls
      BY <2>1, CloseCallIs
    <2>4. call.id = Id("xmlcall", f.counter + 1)
      BY DEF ToolCall
    <2> HIDE DEF w, call
    <2>5. CASE w \in Callable
      <3>1. Grown(f, g)
        BY <1>0, <2>3, <2>5 DEF Grown
      <3>2. ASSUME Counted(f) PROVE Counted(g)
        <4> DEFINE n == Len(f.calls)
        <4>1. n \in Nat /\ f.calls \in Seq([id : IdType, what : Text])
          BY FilterFields
        <4>2. /\ Len(g.calls) = n + 1 /\ g.calls[n + 1] = call
              /\ \A k \in 1..n : g.calls[k] = f.calls[k]
          BY <2>3, <2>5, <4>1
        <4>3. f.counter = n /\ \A k \in 1..n : f.calls[k].id = Id("xmlcall", k)
          BY <3>2 DEF Counted
        <4> HIDE DEF n
        <4>4. \A k \in 1..n + 1 : k \in 1..n \/ k = n + 1
          BY <4>1
        <4>5. \A k \in 1..n + 1 : g.calls[k].id = Id("xmlcall", k)
          BY <2>4, <4>2, <4>3, <4>4
        <4> QED
          BY <2>3, <2>5, <4>2, <4>3, <4>5 DEF Counted
      <3> QED
        BY <2>2, <3>1, <3>2 DEF GoesOnFrom, g
    <2>6. CASE w \notin Callable
      <3>1. Grown(f, g)
        <4> DEFINE s == f.shown
                   x == tagOpen \o w
        <4>1. /\ s \in Text /\ tagOpen \in Text /\ w \in Text /\ tagClose \in Text /\ x \in Text
              /\ x \o tagClose \in Text
          BY <1>0, <2>3, TextFacts
        <4>2. (s \o tagOpen) \o w = s \o x
          <5>1. s \in Text /\ tagOpen \in Text /\ w \in Text
            BY <4>1
          <5> HIDE DEF s
          <5> QED
            BY <5>1, TextRegrouped
        <4> HIDE DEF s, x
        <4>3. (s \o x) \o tagClose = s \o (x \o tagClose)
          <5>1. s \in Text /\ x \in Text /\ tagClose \in Text
            BY <4>1
          <5> QED
            BY <5>1, TextRegrouped
        <4>4. g.shown = s \o (x \o tagClose)
          BY <2>3, <2>6, <4>2, <4>3 DEF s
        <4> QED
          BY <4>1, <4>4 DEF Grown, s
      <3> QED
        BY <2>2, <2>3, <2>6, <3>1 DEF GoesOnFrom, Counted, g
    <2> QED
      BY <2>5, <2>6
  <1> QED
    BY <1>0, <1>1, <1>2

\* And when no tag is left there it is at rest.
LEMMA EmittedRests ==
    ASSUME NEW f \in FilterState, ~f.inCall, ~Has(f.buf, tagOpen)
    PROVE  GoesOnFrom(f, EmitProse(f)) /\ Rests(EmitProse(f))
  <1> DEFINE g == EmitProse(f)
             b == f.buf
             p == partialTagSuffix(b)
             n == Len(b) - p
  <1>1. /\ g \in FilterState /\ n \in 0..Len(b) /\ SubSeq(b, 1, n) \in Text
        /\ g.shown = f.shown \o SubSeq(b, 1, n)
        /\ g.buf = SubSeq(b, n + 1, Len(b))
        /\ ~g.inCall /\ g.calls = f.calls /\ g.counter = f.counter
    BY EmitProseIs
  <1>2. GoesOn(f, g)
    BY EmitProseGoesOn
  <1>3. b \in Text /\ Len(b) \in Nat /\ tagOpen \in Text /\ Len(tagOpen) \in Nat
    BY FilterFields, TextFacts
  <1>4. /\ p \in Nat /\ p <= Len(b) /\ p < Len(tagOpen)
        /\ SubSeq(b, Len(b) - p + 1, Len(b)) = SubSeq(tagOpen, 1, p)
    BY <1>3, PartialTagIs
  <1> HIDE DEF g, p, b
  <1>5. g.buf = SubSeq(tagOpen, 1, p) /\ Len(g.buf) = p
    <2>1. p \in 0..Len(tagOpen) /\ tagOpen \in Seq(Symbol)
      BY <1>3, <1>4 DEF Text
    <2>2. Len(SubSeq(tagOpen, 1, p)) = p
      BY <2>1, Halves
    <2> QED
      BY <1>1, <1>4, <2>2
  <1>6. ~Has(g.buf, tagOpen)
    <2>1. ASSUME NEW k \in Places(g.buf, tagOpen) PROVE FALSE
      <3>1. k \in 0..(p - Len(tagOpen))
        BY <1>5 DEF Places
      <3> QED
        BY <1>3, <1>4, <3>1
    <2> QED
      BY <2>1 DEF Has
  <1> QED
    BY <1>1, <1>2, <1>4, <1>5, <1>6 DEF GoesOnFrom, Grown, Counted, Rests, g, b

\* drain comes to rest having gone on from where it was.
LEMMA DrainGoesOn ==
    ASSUME NEW f \in FilterState
    PROVE  drain[f] \in FilterState /\ GoesOnFrom(f, drain[f]) /\ Rests(drain[f])
  <1> DEFINE Ok(e) == GoesOnFrom(e, drain[e]) /\ Rests(drain[e])
             B == {e \in FilterState : ~Ok(e)}
             mu == [e \in FilterState |-> Len(e.buf)]
  <1>1. ASSUME NEW g \in FilterState PROVE GoesOnFrom(g, g)
    <2>1. g.shown = g.shown \o <<>> /\ <<>> \in Text
      BY FilterFields, TextFacts
    <2> QED
      BY <2>1 DEF GoesOnFrom, GoesOn, Grown
  <1>2. ASSUME NEW g \in B, \A e \in B : mu[g] <= mu[e] PROVE FALSE
    <2>1. g \in FilterState /\ ~Ok(g) /\ g.inCall \in BOOLEAN
      BY FilterFields
    <2>2. CASE Draining(g)
      <3> DEFINE h == Drained(g)
      <3>1. h \in FilterState /\ ~(mu[g] <= mu[h])
        <4>1. h \in FilterState /\ Len(h.buf) < Len(g.buf)
          BY <2>1, <2>2, DrainedIs
        <4>2. Len(h.buf) \in Nat /\ Len(g.buf) \in Nat
          BY <2>1, <4>1, FilterFields
        <4> HIDE DEF h
        <4> QED
          BY <2>1, <4>1, <4>2
      <3>2. GoesOnFrom(g, h) /\ drain[g] = drain[h] /\ drain[h] \in FilterState
        BY <2>1, <2>2, <3>1, DrainedGoesOn, DrainIs
      <3> HIDE DEF h
      <3>3. h \notin B
        <4> HIDE DEF B, mu
        <4> QED
          BY <1>2, <3>1
      <3>4. Ok(h)
        BY <3>1, <3>3
      <3>5. GoesOnFrom(g, drain[h])
        BY <2>1, <3>1, <3>2, <3>4, GoesOnTwice
      <3> QED
        BY <2>1, <3>2, <3>4, <3>5
    <2>3. CASE ~Draining(g) /\ g.inCall
      <3>1. drain[g] = g /\ ~Has(g.buf, tagClose)
        BY <2>1, <2>3, DrainIs DEF Draining
      <3> QED
        BY <1>1, <2>1, <2>3, <3>1 DEF Rests
    <2>4. CASE ~Draining(g) /\ ~g.inCall
      <3>1. drain[g] = EmitProse(g) /\ ~Has(g.buf, tagOpen)
        BY <2>1, <2>4, DrainIs DEF Draining
      <3> QED
        BY <2>1, <2>4, <3>1, EmittedRests
    <2> QED
      BY <2>1, <2>2, <2>3, <2>4
  <1>3. B = {}
    <2>1. B \subseteq FilterState /\ mu \in [FilterState -> Nat]
      BY FilterFields
    <2> HIDE DEF B, mu
    <2> QED
      BY <1>2, <2>1, LeastExists
  <1> QED
    BY <1>3, DrainIs

\* f has read the text t: whatever comes, it reads on as t would be read.
ReadTo(t, f) ==
    \A u \in Text : Whole!Reading[t \o u] = Sees(f, Whole!Reading[Ahead(f) \o u])

\* Nothing has been read at first.
LEMMA NewFilterIs ==
    NewFilter \in FilterState /\ ReadTo(<<>>, NewFilter) /\ Rests(NewFilter) /\ Counted(NewFilter)
  <1> DEFINE none == <<>>
  <1>1. /\ NewFilter.buf = none /\ NewFilter.shown = none /\ NewFilter.calls = none
        /\ ~NewFilter.inCall /\ NewFilter.counter = 0
    BY DEF NewFilter
  <1>2. /\ none \in Text /\ none \in Seq(Text) /\ Len(none) = 0 /\ WhatOf(none) = none
        /\ \A t \in Text : none \o t = t
    BY TextFacts DEF WhatOf
  <1>3. NewFilter \in FilterState
    <2>1. none \in Seq([id : IdType, what : Text]) /\ none \in Text
      BY <1>2
    <2> QED
      BY <2>1 DEF NewFilter, FilterState
  <1>4. ReadTo(none, NewFilter)
    <2>1. ASSUME NEW u \in Text
          PROVE  Whole!Reading[none \o u] = Sees(NewFilter, Whole!Reading[Ahead(NewFilter) \o u])
      <3> DEFINE r == Whole!Reading[u]
      <3>1. none \o u = u /\ Ahead(NewFilter) \o u = u
        BY <1>1, <1>2 DEF Ahead
      <3>2. r \in ReadingType
        BY ReadingIs
      <3> HIDE DEF r
      <3>3. PutBefore(none, none, r) = r
        <4>1. /\ r = Reads(r.prose, r.calls, r.cut, r.rest)
              /\ none \o r.prose = r.prose /\ none \o r.calls = r.calls
          BY <3>2, ReadingIsRecord, TextFacts
        <4> QED
          BY <4>1 DEF PutBefore
      <3> HIDE DEF none
      <3> QED
        BY <1>1, <1>2, <3>1, <3>3 DEF Sees, r
    <2> QED
      BY <2>1 DEF ReadTo
  <1>5. Rests(NewFilter)
    <2>1. ~Has(none, tagOpen) /\ Len(tagOpen) > 0 /\ none = SubSeq(tagOpen, 1, 0)
      <3>1. tagOpen \in Text /\ Len(tagOpen) \in Nat /\ Len(tagOpen) > 0
        BY TagsAssumption DEF Text
      <3>2. Places(none, tagOpen) = {}
        BY <3>1 DEF Places
      <3>3. none = SubSeq(tagOpen, 1, 0)
        BY <3>1 DEF Text
      <3> QED
        BY <3>1, <3>2, <3>3 DEF Has
    <2> HIDE DEF none
    <2> QED
      BY <1>1, <1>2, <2>1 DEF Rests
  <1>6. Counted(NewFilter)
    BY <1>1 DEF Counted
  <1> QED
    BY <1>3, <1>4, <1>5, <1>6

\* FilterText reads on.
LEMMA FilterTextReads ==
    ASSUME NEW t \in Text, NEW f \in FilterState, NEW w \in Text, ReadTo(t, f)
    PROVE  LET g == drain[[f EXCEPT !.buf = @ \o w]] IN
           /\ g \in FilterState /\ ReadTo(t \o w, g) /\ Rests(g) /\ Grown(f, g)
           /\ Counted(f) => Counted(g)
  <1> DEFINE b == f.buf \o w
             h == [f EXCEPT !.buf = b]
             g == drain[h]
  <1>1. b \in Text /\ f.buf \in Text
    BY FilterFields, TextFacts
  <1> HIDE DEF b
  <1>2. /\ h \in FilterState /\ h.buf = b /\ h.inCall = f.inCall /\ h.shown = f.shown
        /\ h.calls = f.calls /\ h.counter = f.counter
    BY <1>1 DEF FilterState
  <1> HIDE DEF h
  <1>3. g \in FilterState /\ GoesOnFrom(h, g) /\ Rests(g)
    BY <1>2, DrainGoesOn
  <1> HIDE DEF g
  <1>4. Ahead(h) = Ahead(f) \o w /\ Ahead(f) \in Text
    <2> DEFINE s == IF f.inCall THEN tagOpen ELSE <<>>
               c == f.buf
    <2>1. s \in Text /\ c \in Text
      BY <1>1, TextFacts
    <2>2. Ahead(h) = s \o (c \o w) /\ Ahead(f) = s \o c
      BY <1>2 DEF Ahead, b
    <2> HIDE DEF s, c
    <2>3. s \in Text /\ c \in Text /\ w \in Text
      BY <2>1
    <2>4. (s \o c) \o w = s \o (c \o w)
      BY <2>3, TextRegrouped
    <2>5. s \o c \in Text
      BY <2>1, TextFacts
    <2> QED
      BY <2>2, <2>4, <2>5
  <1>5. ASSUME NEW u \in Text
        PROVE  Whole!Reading[(t \o w) \o u] = Sees(g, Whole!Reading[Ahead(g) \o u])
    <2> DEFINE a == Ahead(f)
    <2>1. w \o u \in Text /\ (t \o w) \o u = t \o (w \o u)
      <3>1. w \o u \in Text
        BY TextFacts
      <3>2. (t \o w) \o u = t \o (w \o u)
        BY TextRegrouped
      <3> QED
        BY <3>1, <3>2
    <2>2. (a \o w) \o u = a \o (w \o u)
      <3>1. a \in Text
        BY <1>4
      <3> HIDE DEF a
      <3> QED
        BY <3>1, TextRegrouped
    <2>3. Whole!Reading[t \o (w \o u)] = Sees(f, Whole!Reading[a \o (w \o u)])
      BY <2>1 DEF ReadTo
    <2>4. Sees(g, Whole!Reading[Ahead(g) \o u]) = Sees(h, Whole!Reading[Ahead(h) \o u])
      BY <1>3 DEF GoesOnFrom, GoesOn
    <2>5. \A r : Sees(h, r) = Sees(f, r)
      BY <1>2 DEF Sees
    <2> QED
      BY <1>4, <2>1, <2>2, <2>3, <2>4, <2>5
  <1>6. ReadTo(t \o w, g)
    BY <1>5 DEF ReadTo
  <1>7. Grown(f, g) /\ (Counted(f) => Counted(g))
    BY <1>2, <1>3 DEF GoesOnFrom, Grown, Counted
  <1> QED
    BY <1>3, <1>6, <1>7 DEF g, h, b

\* What a filter at rest has shown and what it keeps, as the text it has read
\* is read.
LEMMA SeenSoFar ==
    ASSUME NEW t \in Text, NEW f \in FilterState, ReadTo(t, f), Rests(f)
    PROVE  /\ f.inCall => Whole!Reading[t] = Reads(f.shown, WhatOf(f.calls), TRUE, f.buf)
           /\ ~f.inCall =>
                 Whole!Reading[t] = Reads(f.shown \o f.buf, WhatOf(f.calls), FALSE, <<>>)
  <1> DEFINE none == <<>>
             b == f.buf
             c == WhatOf(f.calls)
  <1>1. /\ b \in Text /\ f.shown \in Text /\ c \in Seq(Text) /\ Ahead(f) \in Text
        /\ none \in Text /\ tagOpen \in Text
        /\ f.shown \o none = f.shown /\ c \o none = c
    BY FilterFields, AheadIs, TextFacts
  <1>2. Whole!Reading[t] = Sees(f, Whole!Reading[Ahead(f)])
    <2>1. t \o none = t /\ Ahead(f) \o none = Ahead(f)
      BY <1>1, TextFacts
    <2> HIDE DEF none
    <2> QED
      BY <1>1, <2>1 DEF ReadTo
  <1>3. CASE ~f.inCall
    <2>1. Ahead(f) = b /\ ~Has(b, tagOpen)
      BY <1>3, AheadIs DEF Rests
    <2>2. Whole!Reading[b] = Reads(b, none, FALSE, none)
      BY <1>1, <2>1, ReadingIs
    <2> HIDE DEF none, c, b
    <2>3. PutBefore(f.shown, c, Reads(b, none, FALSE, none)) = Reads(f.shown \o b, c, FALSE, none)
      BY <1>1 DEF PutBefore, Reads
    <2>4. Whole!Reading[t] = Reads(f.shown \o b, c, FALSE, none)
      BY <1>2, <2>1, <2>2, <2>3 DEF Sees, c
    <2> QED
      BY <1>3, <2>4 DEF none, b, c
  <1>4. CASE f.inCall
    <2> DEFINE s == tagOpen \o b
    <2>1. Ahead(f) = s /\ ~Has(b, tagClose) /\ s \in Text
      BY <1>1, <1>4, AheadIs DEF Rests
    <2>2. Has(s, tagOpen) /\ Before(s, tagOpen) = none /\ After(s, tagOpen) = b
      <3> DEFINE x == (none \o tagOpen) \o b
      <3>1. none \o tagOpen = tagOpen
        BY <1>1, TextFacts
      <3>2. \A n \in Places(x, tagOpen) : Len(none) <= n
        BY DEF Places
      <3>3. none \in Seq(Symbol) /\ tagOpen \in Seq(Symbol) /\ b \in Seq(Symbol)
        BY <1>1 DEF Text
      <3> HIDE DEF none, b
      <3>4. Has(x, tagOpen) /\ Before(x, tagOpen) = none /\ After(x, tagOpen) = b
        BY <3>2, <3>3, CutIs
      <3> QED
        BY <3>1, <3>4
    <2> HIDE DEF s
    <2>3. ~Called(s)
      BY <2>1, <2>2 DEF Called
    <2>4. Whole!Reading[s] = Reads(none, none, TRUE, b)
      BY <2>1, <2>2, <2>3, ReadingIs
    <2> HIDE DEF none, c, b
    <2>5. PutBefore(f.shown, c, Reads(none, none, TRUE, b)) = Reads(f.shown, c, TRUE, b)
      BY <1>1 DEF PutBefore, Reads
    <2>6. Whole!Reading[t] = Reads(f.shown, c, TRUE, b)
      BY <1>2, <2>1, <2>4, <2>5 DEF Sees, c
    <2> QED
      BY <1>4, <2>6 DEF b, c
  <1> QED
    BY <1>3, <1>4

\* So of the prose in a text at most the beginning of a tag is not shown yet,
\* and nothing if a tag is open; and what is kept is what is left to show.
LEMMA SeenIsUpToDate ==
    ASSUME NEW t \in Text, NEW f \in FilterState, ReadTo(t, f), Rests(f)
    PROVE  LET r == Whole!Reading[t]
               held == SubSeq(r.prose, Len(f.shown) + 1, Len(r.prose))
           IN /\ IsPrefix(f.shown, r.prose)
              /\ IsStrictPrefix(held, tagOpen)
              /\ r.cut => held = <<>>
              /\ r.prose \o r.rest = f.shown \o f.buf
              /\ r.calls = WhatOf(f.calls)
  <1> DEFINE none == <<>>
             s == f.shown
             b == f.buf
             c == WhatOf(f.calls)
             r == Whole!Reading[t]
  <1>1. /\ s \in Text /\ b \in Text /\ none \in Text /\ tagOpen \in Text /\ tagOpen # none
        /\ Len(none) = 0 /\ none = SubSeq(tagOpen, 1, 0) /\ Len(tagOpen) \in Nat
        /\ s \o none = s /\ s \o b \in Text /\ f.inCall \in BOOLEAN
    <2>1. s \in Text /\ b \in Text /\ none \in Text /\ f.inCall \in BOOLEAN /\ s \o none = s
          /\ s \o b \in Text /\ Len(none) = 0
      BY FilterFields, TextFacts
    <2>2. tagOpen \in Text /\ tagOpen # none /\ Len(tagOpen) \in Nat /\ none = SubSeq(tagOpen, 1, 0)
      BY TagsAssumption DEF Text
    <2> QED
      BY <2>1, <2>2
  <1>2. ASSUME NEW d \in Text, Len(d) < Len(tagOpen), d = SubSeq(tagOpen, 1, Len(d))
        PROVE  /\ IsPrefix(s, s \o d)
               /\ SubSeq(s \o d, Len(s) + 1, Len(s \o d)) = d
               /\ IsStrictPrefix(d, tagOpen)
    <2> HIDE DEF s
    <2>1. /\ SubSeq(s \o d, 1, Len(s)) = s /\ SubSeq(s \o d, Len(s) + 1, Len(s \o d)) = d
          /\ Len(s \o d) = Len(s) + Len(d) /\ Len(s) \in Nat /\ Len(d) \in Nat
      <3>1. s \in Seq(Symbol) /\ d \in Seq(Symbol)
        BY <1>1 DEF Text
      <3> QED
        BY <3>1, Joined
    <2>2. SubSeq(s, 1, Len(s)) = s /\ SubSeq(d, 1, Len(d)) = d
      BY <1>1 DEF Text
    <2>3. IsPrefix(s, s \o d)
      BY <2>1, <2>2 DEF IsPrefix
    <2>4. IsPrefix(d, tagOpen) /\ d # tagOpen
      BY <1>1, <1>2, <2>1, <2>2 DEF IsPrefix
    <2> QED
      BY <2>1, <2>3, <2>4 DEF IsStrictPrefix
  <1>3. CASE ~f.inCall
    <2>1. r = Reads(s \o b, c, FALSE, none)
      BY <1>3, SeenSoFar
    <2>2. r.prose = s \o b /\ r.calls = c /\ ~r.cut /\ r.rest = none
      <3> HIDE DEF r, s, b, c, none
      <3> QED
        BY <2>1 DEF Reads
    <2>3. Len(b) < Len(tagOpen) /\ b = SubSeq(tagOpen, 1, Len(b))
      BY <1>3 DEF Rests
    <2>4. (s \o b) \o none = s \o b
      BY <1>1, TextFacts
    <2> HIDE DEF r, s, b, c, none
    <2> QED
      BY <1>1, <1>2, <2>2, <2>3, <2>4 DEF r, s, b, c
  <1>4. CASE f.inCall
    <2>1. r = Reads(s, c, TRUE, b)
      BY <1>4, SeenSoFar
    <2>2. r.prose = s /\ r.calls = c /\ r.rest = b
      BY <2>1 DEF Reads
    <2>3. Len(none) < Len(tagOpen)
      <3>1. Len(tagOpen) # 0
        BY <1>1 DEF Text
      <3> QED
        BY <1>1, <3>1
    <2> HIDE DEF none, s, b, c, r
    <2>4. /\ IsPrefix(s, s) /\ SubSeq(s, Len(s) + 1, Len(s)) = none
          /\ IsStrictPrefix(none, tagOpen)
      BY <1>1, <1>2, <2>3
    <2> QED
      BY <2>2, <2>4 DEF r, s, b, c, none
  <1> QED
    BY <1>1, <1>3, <1>4

-----------------------------------------------------------------------------
(* What the fragments of a native call say.                                *)

LastOf(vals, k, none) ==
    LET some == {j \in 1..k : vals[j] # none} IN
    IF some = {} THEN none ELSE vals[Max(some)]

\* What is among the first numbers is finite.
LEMMA AmongFirst ==
    ASSUME NEW k \in Nat, NEW S, S \subseteq 1..k
    PROVE  IsFiniteSet(S) /\ S \subseteq Nat
  <1>1. IsFiniteSet(1..k) /\ 1..k \subseteq Nat
    BY FS_Interval
  <1> QED
    BY <1>1, FS_Subset

\* The last value that is not absent is one of the values.
LEMMA LastOfIs ==
    ASSUME NEW vals, NEW none, NEW k \in Nat
    PROVE  /\ LastOf(vals, k, none) = none \/ \E j \in 1..k : LastOf(vals, k, none) = vals[j]
           /\ k = 0 => LastOf(vals, k, none) = none
  <1> DEFINE some == {j \in 1..k : vals[j] # none}
  <1>1. LastOf(vals, k, none) = IF some = {} THEN none ELSE vals[Max(some)]
    BY DEF LastOf
  <1>2. some \subseteq 1..k
    OBVIOUS
  <1> HIDE DEF some
  <1>3. IsFiniteSet(some) /\ some \subseteq Nat
    BY <1>2, AmongFirst
  <1>4. some # {} => Max(some) \in 1..k
    BY <1>2, <1>3, GreatestIs
  <1> QED
    BY <1>1, <1>2, <1>4

\* With one value more.
LEMMA LastOfMore ==
    ASSUME NEW vals, NEW more, NEW none, NEW k \in Nat, \A j \in 1..k : more[j] = vals[j]
    PROVE  LastOf(more, k + 1, none) = Latest(more[k + 1], LastOf(vals, k, none), none)
  <1> DEFINE some == {j \in 1..k : vals[j] # none}
             all == {j \in 1..k + 1 : more[j] # none}
  <1>1. /\ LastOf(vals, k, none) = IF some = {} THEN none ELSE vals[Max(some)]
        /\ LastOf(more, k + 1, none) = IF all = {} THEN none ELSE more[Max(all)]
    BY DEF LastOf
  <1>2. CASE more[k + 1] # none
    <2>1. k + 1 \in all /\ all \subseteq 1..k + 1
      BY <1>2
    <2> HIDE DEF all
    <2>2. IsFiniteSet(all) /\ all \subseteq Nat /\ all # {}
      <3>1. k + 1 \in Nat
        OBVIOUS
      <3> QED
        BY <2>1, <3>1, AmongFirst
    <2>3. Max(all) \in 1..k + 1 /\ k + 1 <= Max(all)
      BY <2>1, <2>2, GreatestIs
    <2>4. Max(all) = k + 1
      BY <2>3
    <2> QED
      BY <1>1, <1>2, <2>2, <2>4 DEF Latest
  <1>3. CASE more[k + 1] = none
    <2>1. all = some
      <3>1. \A j \in 1..k + 1 : j = k + 1 \/ j \in 1..k
        OBVIOUS
      <3>2. \A j \in 1..k : j \in 1..k + 1
        OBVIOUS
      <3> QED
        BY <1>3, <3>1, <3>2
    <2>2. some \subseteq 1..k
      OBVIOUS
    <2> HIDE DEF some, all
    <2>3. IsFiniteSet(some) /\ some \subseteq Nat
      BY <2>2, AmongFirst
    <2>4. some # {} => Max(some) \in 1..k
      BY <2>2, <2>3, GreatestIs
    <2> QED
      BY <1>1, <1>3, <2>1, <2>4 DEF Latest
  <1> QED
    BY <1>2, <1>3

\* What the first k fragments say is as a fragment is: the id and the name
\* are from one of them.
LEMMA SaidIs ==
    ASSUME NEW i \in DOMAIN Plan, NEW k \in 1..Len(Plan[i])
    PROVE  /\ Said(i, k).name # "" => Said(i, k).name \in STRING
           /\ Said(i, k).args \in Text
           /\ Said(i, k).id \in IdType
           /\ Said(i, k).id # NoId =>
                 /\ Said(i, k).id.from = "server"
                 /\ \E m \in 1..Len(Plan[i]) : Said(i, k).id = Plan[i][m].id
  <1> DEFINE ids == [j \in 1..k |-> Plan[i][j].id]
             names == [j \in 1..k |-> Plan[i][j].name]
             args == [j \in 1..k |-> Plan[i][j].args]
  <1>1. Plan[i] \in Seq(Fragments) /\ k \in Nat /\ k # 0 /\ Len(Plan[i]) \in Nat
    BY StreamAssumption
  <1>2. \A j \in 1..k : j \in 1..Len(Plan[i]) /\ Plan[i][j] \in Fragments
    <2>1. \A j \in 1..k : j \in 1..Len(Plan[i])
      BY <1>1
    <2> QED
      BY <1>1, <2>1
  <1>3. \A x \in Fragments : x.id \in IdType /\ (x.id = NoId \/ x.id.from = "server")
                             /\ x.name \in STRING /\ x.args \in Text
    BY DEF Fragments
  <1>4. /\ Said(i, k).id = LastOf(ids, k, NoId)
        /\ Said(i, k).name = LastOf(names, k, "")
        /\ Said(i, k).args = FlattenSeq(args)
    BY DEF Said, LastOf, Fragment
  <1>5. FlattenSeq(args) \in Text
    <2>1. \A j \in 1..k : args[j] \in Seq(Symbol)
      BY <1>2, <1>3 DEF Text
    <2>2. args \in Seq(Seq(Symbol)) /\ Len(args) = k /\ args # <<>>
      <3>1. args \in [1..k -> Seq(Symbol)]
        BY <2>1
      <3>2. Len(args) = k
        BY <1>1
      <3> HIDE DEF args
      <3>3. args \in Seq(Seq(Symbol))
        BY <1>1, <3>1
      <3> QED
        BY <1>1, <3>2, <3>3
    <2> HIDE DEF args
    <2>3. PICK f \in [1..Len(args) -> Seq(Symbol)] : FlattenSeq(args) = f[Len(args)]
      BY <2>2, FlattenIs
    <2>4. Len(args) \in 1..Len(args)
      BY <1>1, <2>2
    <2> QED
      BY <2>3, <2>4 DEF Text
  <1>6. LastOf(names, k, "") # "" => LastOf(names, k, "") \in STRING
    <2>1. LastOf(names, k, "") = "" \/ \E j \in 1..k : LastOf(names, k, "") = names[j]
      <3> HIDE DEF names
      <3> QED
        BY <1>1, LastOfIs
    <2>2. \A j \in 1..k : names[j] \in STRING
      BY <1>2, <1>3
    <2> HIDE DEF names
    <2> QED
      BY <2>1, <2>2
  <1>7. LastOf(ids, k, NoId) = NoId \/ \E j \in 1..k : LastOf(ids, k, NoId) = Plan[i][j].id
    <2>1. LastOf(ids, k, NoId) = NoId \/ \E j \in 1..k : LastOf(ids, k, NoId) = ids[j]
      <3> HIDE DEF ids
      <3> QED
        BY <1>1, LastOfIs
    <2> QED
      BY <2>1
  <1>8. NoId \in IdType
    BY DEF NoId, Id, IdType
  <1> HIDE DEF ids, names, args
  <1> QED
    BY <1>2, <1>3, <1>4, <1>5, <1>6, <1>7, <1>8

\* With each fragment more it is merged with that one.
LEMMA SaidMore ==
    ASSUME NEW i \in DOMAIN Plan, NEW k \in Nat, k < Len(Plan[i])
    PROVE  Said(i, k + 1) = Merge(IF k = 0 THEN EmptyCall ELSE Said(i, k), Plan[i][k + 1])
  <1> DEFINE n == k + 1
             ids == [j \in 1..k |-> Plan[i][j].id]
             names == [j \in 1..k |-> Plan[i][j].name]
             args == [j \in 1..k |-> Plan[i][j].args]
             ids2 == [j \in 1..n |-> Plan[i][j].id]
             names2 == [j \in 1..n |-> Plan[i][j].name]
             args2 == [j \in 1..n |-> Plan[i][j].args]
             d == Plan[i][n]
  <1>1. Plan[i] \in Seq(Fragments) /\ n \in Nat /\ n \in 1..n /\ Len(Plan[i]) \in Nat
    BY StreamAssumption
  <1>2. \A j \in 1..n : Plan[i][j] \in Fragments
    <2>1. \A j \in 1..n : j \in 1..Len(Plan[i])
      BY <1>1
    <2> QED
      BY <1>1, <2>1
  <1>3. \A x \in Fragments : x.args \in Seq(Symbol)
    BY DEF Fragments, Text
  <1>4. \A j \in 1..k : j \in 1..n
    OBVIOUS
  <1>5. /\ Said(i, k) = Fragment(LastOf(ids, k, NoId), LastOf(names, k, ""), FlattenSeq(args))
        /\ Said(i, n) = Fragment(LastOf(ids2, n, NoId), LastOf(names2, n, ""), FlattenSeq(args2))
    BY DEF Said, LastOf
  <1>6. /\ LastOf(ids2, n, NoId) = Latest(d.id, LastOf(ids, k, NoId), NoId)
        /\ LastOf(names2, n, "") = Latest(d.name, LastOf(names, k, ""), "")
    <2>1. /\ \A j \in 1..k : ids2[j] = ids[j] /\ names2[j] = names[j]
          /\ ids2[n] = d.id /\ names2[n] = d.name
      BY <1>1, <1>4
    <2> HIDE DEF ids, names, ids2, names2, d
    <2>2. LastOf(ids2, k + 1, NoId) = Latest(ids2[k + 1], LastOf(ids, k, NoId), NoId)
      BY <2>1, LastOfMore
    <2>3. LastOf(names2, k + 1, "") = Latest(names2[k + 1], LastOf(names, k, ""), "")
      BY <2>1, LastOfMore
    <2> QED
      BY <2>1, <2>2, <2>3
  <1>7. args2 \in Seq(Seq(Symbol)) /\ Len(args2) = n /\ args2[n] = d.args
    <2>1. \A j \in 1..n : args2[j] \in Seq(Symbol)
      BY <1>2, <1>3
    <2>2. args2 \in [1..n -> Seq(Symbol)] /\ Len(args2) = n
      <3> HIDE DEF n
      <3> QED
        BY <1>1, <2>1
    <2>3. args2[n] = d.args
      <3> HIDE DEF n
      <3> QED
        BY <1>1
    <2> HIDE DEF args2, n, d
    <2> QED
      BY <1>1, <2>2, <2>3
  <1>8. d.args \in Seq(Symbol)
    BY <1>1, <1>2, <1>3
  <1>9. CASE k = 0
    <2>1. FlattenSeq(args2) = d.args
      <3>1. Len(args2) = 1 /\ n = 1
        BY <1>7, <1>9
      <3> HIDE DEF args2, d
      <3> QED
        BY <1>7, <3>1, FlattenOne
    <2>2. LastOf(ids, k, NoId) = NoId /\ LastOf(names, k, "") = ""
      <3> HIDE DEF ids, names
      <3> QED
        BY <1>9, LastOfIs
    <2>3. <<>> \o d.args = d.args
      BY <1>8, ConcatEmptySeq
    <2> HIDE DEF ids, names, ids2, names2, args2, n, d
    <2>4. /\ EmptyCall.id = NoId /\ EmptyCall.name = "" /\ EmptyCall.args = <<>>
      BY DEF EmptyCall, Fragment
    <2>5. Said(i, n) = Merge(EmptyCall, d)
      BY <1>5, <1>6, <2>1, <2>2, <2>3, <2>4 DEF Merge
    <2> QED
      BY <1>9, <2>5 DEF n, d
  <1>10. CASE k # 0
    <2>1. FlattenSeq(args2) = FlattenSeq(args) \o d.args
      <3>1. args \in Seq(Seq(Symbol)) /\ Len(args) = k
        <4>1. \A j \in 1..k : args[j] \in Seq(Symbol)
          BY <1>2, <1>3, <1>4
        <4>2. args \in [1..k -> Seq(Symbol)] /\ Len(args) = k
          BY <4>1
        <4> HIDE DEF args
        <4> QED
          BY <4>2
      <3>2. \A j \in 1..k : args2[j] = args[j]
        BY <1>4
      <3> HIDE DEF args, args2, d
      <3>3. Len(args) > 0 /\ Len(args2) = Len(args) + 1 /\ \A j \in 1..Len(args) : args2[j] = args[j]
        BY <1>7, <1>10, <3>1, <3>2
      <3>4. FlattenSeq(args2) = FlattenSeq(args) \o args2[Len(args2)]
        <4> HIDE DEF n
        <4> QED
          BY <1>7, <3>1, <3>3, FlattenMore
      <3> QED
        BY <1>7, <3>4
    <2> HIDE DEF ids, names, args, ids2, names2, args2, n, d
    <2> DEFINE x == Said(i, k)
    <2>2. /\ x.id = LastOf(ids, k, NoId) /\ x.name = LastOf(names, k, "")
          /\ x.args = FlattenSeq(args)
      <3>1. x = Fragment(LastOf(ids, k, NoId), LastOf(names, k, ""), FlattenSeq(args))
        BY <1>5
      <3> HIDE DEF x
      <3> QED
        BY <3>1 DEF Fragment
    <2>3. Said(i, n) = Merge(Said(i, k), d)
      BY <1>5, <1>6, <2>1, <2>2 DEF Merge
    <2> QED
      BY <1>10, <2>3 DEF n, d
  <1> QED
    BY <1>9, <1>10

\* b has what the first m[i] fragments of each call say.
Heard(b, m) ==
    /\ m \in [DOMAIN Plan -> Nat]
    /\ \A i \in DOMAIN Plan : m[i] <= Len(Plan[i])
    /\ DOMAIN b = {i \in DOMAIN Plan : m[i] > 0}
    /\ \A i \in DOMAIN b : b[i] = Said(i, m[i])

\* add: the fragments of one chunk more, whichever calls they are of.
LEMMA HeardMore ==
    ASSUME NEW b, NEW m, Heard(b, m), NEW I, I \subseteq DOMAIN Plan,
           \A i \in I : m[i] < Len(Plan[i]),
           NEW m2, m2 = [i \in DOMAIN Plan |-> m[i] + IF i \in I THEN 1 ELSE 0]
    PROVE  Heard(add(b, [i \in I |-> Plan[i][m[i] + 1]]), m2)
  <1> DEFINE deltas == [i \in I |-> Plan[i][m[i] + 1]]
             c == add(b, deltas)
             D == DOMAIN b \cup I
  <1>1. DOMAIN deltas = I /\ \A i \in I : deltas[i] = Plan[i][m[i] + 1]
    OBVIOUS
  <1> HIDE DEF deltas
  <1>2. /\ DOMAIN c = D
        /\ \A i \in D : c[i] = IF i \in I
                               THEN Merge(IF i \in DOMAIN b THEN b[i] ELSE EmptyCall, deltas[i])
                               ELSE IF i \in DOMAIN b THEN b[i] ELSE EmptyCall
    BY <1>1 DEF add
  <1> HIDE DEF c
  <1>3. /\ m \in [DOMAIN Plan -> Nat] /\ DOMAIN b = {i \in DOMAIN Plan : m[i] > 0}
        /\ \A i \in DOMAIN b : b[i] = Said(i, m[i])
        /\ \A i \in DOMAIN Plan : m[i] <= Len(Plan[i]) /\ Len(Plan[i]) \in Nat
    BY StreamAssumption DEF Heard
  <1>4. ASSUME NEW i \in DOMAIN Plan
        PROVE  /\ m2[i] = m[i] + (IF i \in I THEN 1 ELSE 0) /\ m[i] \in Nat /\ m2[i] \in Nat
               /\ m2[i] <= Len(Plan[i]) /\ (m2[i] > 0 <=> i \in D)
               /\ i \in D => c[i] = Said(i, m2[i])
    <2>1. m2[i] = m[i] + (IF i \in I THEN 1 ELSE 0) /\ m[i] \in Nat /\ m2[i] \in Nat
      BY <1>3
    <2>2. m2[i] <= Len(Plan[i])
      BY <1>3, <2>1
    <2>3. m2[i] > 0 <=> i \in D
      BY <1>3, <2>1
    <2>4. ASSUME i \in I PROVE c[i] = Said(i, m2[i])
      <3>1. m[i] < Len(Plan[i]) /\ m2[i] = m[i] + 1
        BY <2>1, <2>4
      <3>2. Said(i, m[i] + 1) = Merge(IF m[i] = 0 THEN EmptyCall ELSE Said(i, m[i]), Plan[i][m[i] + 1])
        <4> DEFINE k == m[i]
        <4>1. k \in Nat /\ k < Len(Plan[i])
          BY <2>1, <3>1
        <4> HIDE DEF k
        <4>2. Said(i, k + 1) = Merge(IF k = 0 THEN EmptyCall ELSE Said(i, k), Plan[i][k + 1])
          BY <4>1, SaidMore
        <4> QED
          BY <4>2 DEF k
      <3>3. i \in DOMAIN b <=> m[i] # 0
        BY <1>3, <2>1
      <3>4. c[i] = Merge(IF i \in DOMAIN b THEN b[i] ELSE EmptyCall, Plan[i][m[i] + 1])
        BY <1>1, <1>2, <2>4
      <3>5. i \in DOMAIN b => b[i] = Said(i, m[i])
        BY <1>3
      <3> QED
        BY <3>1, <3>2, <3>3, <3>4, <3>5
    <2>5. ASSUME i \notin I, i \in D PROVE c[i] = Said(i, m2[i])
      <3>1. m2[i] = m[i] /\ i \in DOMAIN b
        BY <2>1, <2>5
      <3> QED
        BY <1>2, <1>3, <2>5, <3>1
    <2> QED
      BY <2>1, <2>2, <2>3, <2>4, <2>5
  <1>5. m2 \in [DOMAIN Plan -> Nat]
    BY <1>4
  <1>6. D \subseteq DOMAIN Plan
    BY <1>3
  <1>7. DOMAIN c = {i \in DOMAIN Plan : m2[i] > 0}
    <2> HIDE DEF D
    <2> QED
      BY <1>2, <1>4, <1>6
  <1>8. \A i \in DOMAIN c : c[i] = Said(i, m2[i])
    BY <1>2, <1>4, <1>6
  <1> QED
    BY <1>4, <1>5, <1>7, <1>8 DEF Heard, c, deltas

Named(m) == {i \in DOMAIN Plan : m[i] > 0 /\ Said(i, m[i]).name # ""}
CallOf(i, k) ==
    ToolCall(Latest(Said(i, k).id, Id("call", i), NoId), <<Said(i, k).name>> \o Said(i, k).args)

\* The calls that were named, in order.
LEMMA NamedIs ==
    ASSUME NEW m
    PROVE  /\ IsFiniteSet(Named(m)) /\ Named(m) \subseteq Nat
           /\ Cardinality(Named(m)) \in Nat
           /\ Ascending(Named(m)) \in [1..Cardinality(Named(m)) -> Named(m)]
           /\ \A j, k \in 1..Cardinality(Named(m)) :
                 j < k => Ascending(Named(m))[j] < Ascending(Named(m))[k]
  <1>1. Named(m) \subseteq DOMAIN Plan
    BY DEF Named
  <1>2. IsFiniteSet(Named(m)) /\ Named(m) \subseteq Nat
    BY <1>1, StreamAssumption, FS_Subset
  <1> DEFINE S == Named(m)
  <1> HIDE DEF S
  <1>3. IsFiniteSet(S) /\ S \subseteq Nat
    BY <1>2 DEF S
  <1>4. /\ Cardinality(S) \in Nat
        /\ Ascending(S) \in [1..Cardinality(S) -> S]
        /\ \A j, k \in 1..Cardinality(S) : j < k => Ascending(S)[j] < Ascending(S)[k]
    BY <1>3, AscendingIs
  <1> QED
    BY <1>3, <1>4 DEF S

\* assembled: a call of each that was named, and no two with one id.
LEMMA AssembledIs ==
    ASSUME NEW b, NEW m, Heard(b, m)
    PROVE  /\ assembled(b) = [k \in 1..Cardinality(Named(m)) |->
                                 CallOf(Ascending(Named(m))[k], m[Ascending(Named(m))[k]])]
           /\ assembled(b) \in Seq([id : IdType, what : Seq(Symbol \cup STRING)])
           /\ Len(assembled(b)) = Cardinality(Named(m))
           /\ \A j, k \in 1..Len(assembled(b)) :
                 assembled(b)[j].id = assembled(b)[k].id => j = k
  <1> DEFINE S == Named(m)
             n == Cardinality(S)
             s == Ascending(S)
             X == [id : IdType, what : Seq(Symbol \cup STRING)]
             calls2 == [k \in 1..n |-> CallOf(s[k], m[s[k]])]
  <1>1. /\ m \in [DOMAIN Plan -> Nat] /\ DOMAIN b = {i \in DOMAIN Plan : m[i] > 0}
        /\ \A i \in DOMAIN b : b[i] = Said(i, m[i])
        /\ \A i \in DOMAIN Plan : m[i] <= Len(Plan[i]) /\ Len(Plan[i]) \in Nat
    BY StreamAssumption DEF Heard
  <1>2. n \in Nat /\ s \in [1..n -> S] /\ \A j, k \in 1..n : j < k => s[j] < s[k]
    BY NamedIs
  <1>3. {i \in DOMAIN b : b[i].name # ""} = S
    BY <1>1 DEF Named
  <1>4. \A i \in S : i \in DOMAIN b /\ b[i] = Said(i, m[i])
    BY <1>1 DEF Named
  <1>5. assembled(b) = [k \in 1..n |-> ToolCall(Latest(b[s[k]].id, Id("call", s[k]), NoId),
                                                <<b[s[k]].name>> \o b[s[k]].args)]
    BY <1>3 DEF assembled
  <1>6. ASSUME NEW i \in S
        PROVE  /\ i \in DOMAIN Plan /\ i \in Nat /\ m[i] \in 1..Len(Plan[i])
               /\ Said(i, m[i]).name \in STRING /\ Said(i, m[i]).args \in Text
               /\ Said(i, m[i]).id \in IdType
               /\ Said(i, m[i]).id # NoId =>
                     /\ Said(i, m[i]).id.from = "server"
                     /\ \E k \in 1..Len(Plan[i]) : Said(i, m[i]).id = Plan[i][k].id
    <2>1. i \in DOMAIN Plan /\ m[i] > 0 /\ Said(i, m[i]).name # ""
      BY DEF Named
    <2>2. m[i] \in 1..Len(Plan[i]) /\ i \in Nat
      <3>1. m[i] \in Nat /\ m[i] <= Len(Plan[i]) /\ Len(Plan[i]) \in Nat
        BY <1>1, <2>1
      <3>2. m[i] \in 1..Len(Plan[i])
        <4> DEFINE k == m[i]
                   l == Len(Plan[i])
        <4>1. k \in Nat /\ k > 0 /\ k <= l /\ l \in Nat
          BY <2>1, <3>1
        <4> HIDE DEF k, l
        <4>2. k \in 1..l
          BY <4>1
        <4> QED
          BY <4>2 DEF k, l
      <3>3. i \in Nat
        BY <2>1, StreamAssumption
      <3> QED
        BY <3>2, <3>3
    <2> HIDE DEF S
    <2> QED
      BY <2>1, <2>2, SaidIs
  <1> HIDE DEF n, s, S
  <1>7. assembled(b) = calls2
    <2>1. ASSUME NEW k \in 1..n
          PROVE  ToolCall(Latest(b[s[k]].id, Id("call", s[k]), NoId),
                          <<b[s[k]].name>> \o b[s[k]].args) = CallOf(s[k], m[s[k]])
      <3>1. s[k] \in S
        BY <1>2
      <3> QED
        BY <1>4, <3>1 DEF CallOf
    <2> QED
      BY <1>5, <2>1
  <1>8. ASSUME NEW k \in 1..n
        PROVE  /\ calls2[k] \in X
               /\ calls2[k].id = Latest(Said(s[k], m[s[k]]).id, Id("call", s[k]), NoId)
    <2> DEFINE i == s[k]
               x == Said(i, m[i])
    <2>1. i \in S
      BY <1>2
    <2>2. calls2[k] = ToolCall(Latest(x.id, Id("call", i), NoId), <<x.name>> \o x.args)
      BY DEF CallOf
    <2>3. i \in Nat /\ x.name \in STRING /\ x.args \in Text /\ x.id \in IdType
      BY <1>6, <2>1
    <2> HIDE DEF i, x, X, calls2
    <2>4. Latest(x.id, Id("call", i), NoId) \in IdType
      BY <2>3 DEF Latest, Id, IdType
    <2>5. <<x.name>> \o x.args \in Seq(Symbol \cup STRING)
      <3>1. <<x.name>> \in Seq(Symbol \cup STRING) /\ x.args \in Seq(Symbol \cup STRING)
        <4>1. x.name \in Symbol \cup STRING
          BY <2>3
        <4>2. x.args \in Seq(Symbol \cup STRING)
          BY <2>3 DEF Text
        <4> QED
          BY <4>1, <4>2
      <3> QED
        BY <3>1, ConcatProperties
    <2>6. calls2[k] \in X
      <3> DEFINE y == Latest(x.id, Id("call", i), NoId)
                 z == <<x.name>> \o x.args
      <3>1. calls2[k] = ToolCall(y, z) /\ y \in IdType /\ z \in Seq(Symbol \cup STRING)
        BY <2>2, <2>4, <2>5
      <3> HIDE DEF y, z
      <3> QED
        BY <3>1 DEF ToolCall, X
    <2>7. calls2[k].id = Latest(x.id, Id("call", i), NoId)
      BY <2>2 DEF ToolCall
    <2> QED
      BY <2>6, <2>7 DEF i, x
  <1>9. calls2 \in Seq(X) /\ Len(calls2) = n
    <2>1. calls2 \in [1..n -> X]
      <3>1. \A k \in 1..n : calls2[k] \in X
        BY <1>8
      <3> HIDE DEF X
      <3> QED
        BY <3>1
    <2> HIDE DEF X, calls2
    <2> QED
      BY <1>2, <2>1
  <1>10. ASSUME NEW j \in 1..n, NEW k \in 1..n, calls2[j].id = calls2[k].id PROVE j = k
    <2> DEFINE i == s[j]
               h == s[k]
               x == Said(i, m[i]).id
               y == Said(h, m[h]).id
    <2>1. i \in S /\ h \in S
      BY <1>2
    <2>2. Latest(x, Id("call", i), NoId) = Latest(y, Id("call", h), NoId)
      BY <1>8, <1>10
    <2>3. /\ i \in DOMAIN Plan /\ h \in DOMAIN Plan
          /\ x # NoId => x.from = "server" /\ \E a \in 1..Len(Plan[i]) : x = Plan[i][a].id
          /\ y # NoId => y.from = "server" /\ \E a \in 1..Len(Plan[h]) : y = Plan[h][a].id
      BY <1>6, <2>1
    <2> HIDE DEF i, h, x, y
    <2>4. i = h
      <3>1. CASE x = NoId /\ y = NoId
        BY <2>2, <3>1 DEF Latest, Id
      <3>2. CASE x # NoId /\ y # NoId
        <4>1. x = y
          BY <2>2, <3>2 DEF Latest
        <4>2. PICK a \in 1..Len(Plan[i]) : x = Plan[i][a].id
          BY <2>3, <3>2
        <4>3. PICK e \in 1..Len(Plan[h]) : y = Plan[h][e].id
          BY <2>3, <3>2
        <4> QED
          BY <2>3, <3>2, <4>1, <4>2, <4>3, StreamAssumption
      <3>3. CASE x = NoId /\ y # NoId
        BY <2>2, <2>3, <3>3 DEF Latest, Id
      <3>4. CASE x # NoId /\ y = NoId
        BY <2>2, <2>3, <3>4 DEF Latest, Id
      <3> QED
        BY <3>1, <3>2, <3>3, <3>4
    <2>5. ~(j < k) /\ ~(k < j)
      <3>1. j < k => s[j] < s[k]
        BY <1>2
      <3>2. k < j => s[k] < s[j]
        BY <1>2
      <3>3. s[j] = s[k] /\ s[j] \in Nat
        BY <1>6, <2>1, <2>4 DEF i, h
      <3> QED
        BY <3>1, <3>2, <3>3
    <2> QED
      BY <1>2, <2>5
  <1> HIDE DEF calls2, X
  <1>11. \A j, k \in 1..n : calls2[j].id = calls2[k].id => j = k
    BY <1>10
  <1> QED
    BY <1>7, <1>9, <1>11 DEF calls2, n, s, S, X

-----------------------------------------------------------------------------
(* What has arrived of what is on the wire.                                *)

WaitingIn(d) == IF Decodes(d) THEN d[1].chunk ELSE NoChunk
TextIn(s, d) == SubSeq(s, 1, Len(s) - Len(WaitingIn(d).text))
Without(m, I) == [i \in DOMAIN Plan |-> m[i] - IF i \in I THEN 1 ELSE 0]
HeardIn(m, d) == Without(m, DOMAIN WaitingIn(d).deltas)

\* The lines of a complete event.
Event(d, c) == d = <<Line("whole", c)>> \/ d = <<Line("first", c), Line("second", c)>>

\* A complete event decodes, and has its chunk in its first line.
LEMMA EventIs ==
    ASSUME NEW d, NEW c, Event(d, c)
    PROVE  Decodes(d) /\ d[1].chunk = c /\ Len(d) > 0 /\ Len(d) <= 2 /\ d # <<>>
           /\ d[1].part \in {"whole", "first"}
  <1>1. CASE d = <<Line("whole", c)>>
    BY <1>1 DEF Decodes, Line
  <1>2. CASE d = <<Line("first", c), Line("second", c)>>
    BY <1>2 DEF Decodes, Line
  <1> QED
    BY <1>1, <1>2 DEF Event

\* Nothing, half an event or a line that is no chunk does not decode.
LEMMA NoEventIs ==
    /\ ~Decodes(<<>>)
    /\ \A c : ~Decodes(<<Line("first", c)>>)
    /\ \A l \in OtherLines : ~Decodes(<<l>>) /\ l.part \in {"marker", "junk", "spaces"}
  <1>1. ~Decodes(<<>>)
    BY DEF Decodes
  <1>2. ASSUME NEW c PROVE ~Decodes(<<Line("first", c)>>)
    BY DEF Decodes, Line
  <1>3. ASSUME NEW l \in OtherLines
        PROVE  ~Decodes(<<l>>) /\ l.part \in {"marker", "junk", "spaces"}
    <2>1. l.part \in {"marker", "junk", "spaces"}
      BY DEF OtherLines, Line
    <2> QED
      BY <2>1 DEF Decodes
  <1> QED
    BY <1>1, <1>2, <1>3

\* All of it, if no complete event waits.
LEMMA AllArrived ==
    ASSUME NEW s \in Text, NEW m \in [DOMAIN Plan -> Nat], NEW d, ~Decodes(d)
    PROVE  TextIn(s, d) = s /\ HeardIn(m, d) = m
  <1>1. WaitingIn(d).text = <<>> /\ WaitingIn(d).deltas = <<>>
    BY DEF WaitingIn, NoChunk, Chunk
  <1>2. Len(s) \in Nat /\ s = SubSeq(s, 1, Len(s))
    BY DEF Text
  <1>3. TextIn(s, d) = s
    BY <1>1, <1>2 DEF TextIn
  <1>4. \A i : i \notin DOMAIN <<>>
    OBVIOUS
  <1>5. \A i \in DOMAIN Plan : m[i] - 0 = m[i]
    OBVIOUS
  <1>6. HeardIn(m, d) = m
    BY <1>1, <1>4, <1>5 DEF HeardIn, Without
  <1> QED
    BY <1>3, <1>6

\* All but the event that waits.
LEMMA AllButTheEvent ==
    ASSUME NEW t \in Text, NEW w \in Text, NEW deltas, NEW m, NEW d,
           Event(d, Chunk(w, deltas))
    PROVE  /\ TextIn(t \o w, d) = t
           /\ HeardIn(m, d) = Without(m, DOMAIN deltas)
  <1>1. WaitingIn(d).text = w /\ WaitingIn(d).deltas = deltas
    BY EventIs DEF WaitingIn, Chunk
  <1>2. Len(t \o w) - Len(w) = Len(t) /\ SubSeq(t \o w, 1, Len(t)) = t
    BY TextFacts, Joined DEF Text
  <1>3. TextIn(t \o w, d) = t
    BY <1>1, <1>2 DEF TextIn
  <1>4. HeardIn(m, d) = Without(m, DOMAIN deltas)
    BY <1>1 DEF HeardIn
  <1> QED
    BY <1>3, <1>4

-----------------------------------------------------------------------------
(* The invariant.                                                          *)

\* What the lines of the current event are.
DataSound ==
    \/ ~Decodes(data) /\ data = <<>>
    \/ \E l \in OtherLines : data = <<l>>
    \/ \E c \in NextChunks : data = <<Line("first", c)>>
    \/ \E w \in Text, t \in Text, I \in SUBSET DOMAIN Plan :
          /\ said = t \o w
          /\ \A i \in I : sent[i] > 0
          /\ Event(data, Chunk(w, [i \in I |-> Plan[i][sent[i]]]))

SentSound ==
    \A i \in DOMAIN Plan : sent[i] <= Len(Plan[i]) /\ (adapter = "xml" => sent[i] = 0)

\* What has arrived is in the accumulator and in the filter.
FilterSound ==
    /\ Heard(acc, HeardIn(sent, data))
    /\ Counted(filter)
    /\ adapter = "xml" /\ status = "open" => ReadTo(TextIn(said, data), filter) /\ Rests(filter)
    /\ adapter = "native" =>
          filter.calls = <<>> /\ filter.buf = <<>> /\ filter.shown = TextIn(said, data)

\* A reply that is done has everything.
DoneSound ==
    /\ status # "done" => calls = <<>>
    /\ status = "done" =>
          /\ data = <<>>
          /\ calls = assembled(acc) \o filter.calls
          /\ adapter = "xml" =>
                /\ filter.shown = Whole!Reading[said].prose \o Whole!Reading[said].rest
                /\ WhatOf(filter.calls) = Whole!Reading[said].calls

Sound == TypeOK /\ DataSound /\ SentSound /\ FilterSound /\ DoneSound

\* Either everything has arrived or all but one event.
LEMMA ArrivedIs ==
    ASSUME Sound
    PROVE  /\ said \in Text /\ sent \in [DOMAIN Plan -> Nat] /\ filter \in FilterState
           /\ \/ /\ ~Decodes(data)
                 /\ TextIn(said, data) = said /\ HeardIn(sent, data) = sent
              \/ \E w \in Text, t \in Text, I \in SUBSET DOMAIN Plan :
                    /\ Event(data, Chunk(w, [i \in I |-> Plan[i][sent[i]]]))
                    /\ said = t \o w /\ TextIn(said, data) = t
                    /\ \A i \in I : sent[i] > 0
                    /\ HeardIn(sent, data) = Without(sent, I)
  <1>1. said \in Text /\ sent \in [DOMAIN Plan -> Nat] /\ filter \in FilterState
    BY StreamAssumption DEF Sound, TypeOK
  <1>2. CASE ~Decodes(data)
    BY <1>1, <1>2, AllArrived
  <1>3. CASE Decodes(data)
    <2>1. PICK w \in Text, t \in Text, I \in SUBSET DOMAIN Plan :
             /\ said = t \o w
             /\ \A i \in I : sent[i] > 0
             /\ Event(data, Chunk(w, [i \in I |-> Plan[i][sent[i]]]))
      BY <1>3, NoEventIs DEF Sound, DataSound
    <2> DEFINE deltas == [i \in I |-> Plan[i][sent[i]]]
    <2>2. DOMAIN deltas = I /\ Event(data, Chunk(w, deltas))
      BY <2>1
    <2> HIDE DEF deltas
    <2>3. t \in Text /\ w \in Text
      BY <2>1
    <2>4. TextIn(t \o w, data) = t /\ HeardIn(sent, data) = Without(sent, DOMAIN deltas)
      BY <2>2, <2>3, AllButTheEvent
    <2> QED
      BY <1>1, <2>1, <2>2, <2>4
  <1> QED
    BY <1>1, <1>2, <1>3

\* Where a reply begins nothing is amiss.
LEMMA FreshIs ==
    /\ <<>> \in Seq([id : IdType, what : Seq(Symbol \cup STRING)])
    /\ NothingSent \in [DOMAIN Plan -> Nat] /\ \A i \in DOMAIN Plan : NothingSent[i] = 0
    /\ DOMAIN <<>> = {} /\ Len(<<>>) = 0 /\ ~Decodes(<<>>)
    /\ TextIn(<<>>, <<>>) = <<>> /\ HeardIn(NothingSent, <<>>) = NothingSent
    /\ Heard(<<>>, NothingSent)
    /\ ReadTo(<<>>, NewFilter) /\ Rests(NewFilter) /\ Counted(NewFilter)
    /\ NewFilter \in FilterState
    /\ NewFilter.calls = <<>> /\ NewFilter.buf = <<>> /\ NewFilter.shown = <<>>
    /\ \A a \in Adapters : <<>> \in Texts[a]
    /\ \A i \in DOMAIN Plan : Len(Plan[i]) \in Nat
  <1> DEFINE none == <<>>
  <1>1. /\ NothingSent \in [DOMAIN Plan -> Nat] /\ \A i \in DOMAIN Plan : NothingSent[i] = 0
        /\ DOMAIN none = {} /\ Len(none) = 0 /\ none \in Text /\ ~Decodes(none)
        /\ \A i \in DOMAIN Plan : Len(Plan[i]) \in Nat
    BY NoEventIs, TextFacts, StreamAssumption DEF NothingSent
  <1>2. none \in Seq([id : IdType, what : Seq(Symbol \cup STRING)])
    OBVIOUS
  <1>3. \A a \in Adapters : none \in Texts[a]
    BY StreamAssumption
  <1>4. NewFilter.calls = none /\ NewFilter.buf = none /\ NewFilter.shown = none
    BY DEF NewFilter
  <1> HIDE DEF none
  <1>5. TextIn(none, none) = none /\ HeardIn(NothingSent, none) = NothingSent
    BY <1>1, AllArrived
  <1>6. Heard(none, NothingSent)
    BY <1>1 DEF Heard
  <1> QED
    BY <1>1, <1>2, <1>3, <1>4, <1>5, <1>6, NewFilterIs DEF none

\* A request finds everything empty.
LEMMA BeginSound ==
    ASSUME NEW a \in Adapters, Begin(a)
    PROVE  Sound'
  <1> DEFINE none == <<>>
  <1>1. /\ adapter' = a /\ said' = none /\ sent' = NothingSent /\ data' = none
        /\ body' = "open" /\ status' = "open" /\ acc' = none /\ filter' = NewFilter /\ calls' = none
    BY DEF Begin
  <1>2. TypeOK'
    BY <1>1, FreshIs DEF TypeOK
  <1>3. DataSound'
    BY <1>1, FreshIs DEF DataSound
  <1>4. SentSound'
    BY <1>1, FreshIs DEF SentSound
  <1>5. FilterSound'
    BY <1>1, FreshIs DEF FilterSound
  <1>6. DoneSound'
    BY <1>1 DEF DoneSound
  <1> QED
    BY <1>2, <1>3, <1>4, <1>5, <1>6 DEF Sound

\* Lines come in: nothing more arrives at the filter.
LEMMA UnheardSound ==
    ASSUME Sound, TypeOK', DataSound', SentSound',
           UNCHANGED <<adapter, acc, filter, calls>>,
           status = "open", status' \in {"open", "failed"},
           TextIn(said, data)' = TextIn(said, data), HeardIn(sent, data)' = HeardIn(sent, data)
    PROVE  Sound'
  <1>1. FilterSound'
    BY DEF Sound, FilterSound
  <1>2. DoneSound'
    BY DEF Sound, DoneSound
  <1> QED
    BY <1>1, <1>2 DEF Sound

\* A chunk the server may send next, once it has sent it.
LEMMA SentSoundly ==
    ASSUME Sound, status = "open", NEW c \in NextChunks, Sent(c), Event(data', c),
           UNCHANGED <<adapter, body, status, acc, filter, calls>>,
           TextIn(said, data) = said, HeardIn(sent, data) = sent
    PROVE  Sound' /\ TextIn(said, data)' = TextIn(said, data)
  <1>1. PICK w \in Pieces \cup {<<>>}, I \in SUBSET DOMAIN Plan :
           /\ said \o w \in Texts[adapter]
           /\ c = Chunk(w, [i \in I |-> Plan[i][sent[i] + 1]])
           /\ \A i \in I : sent[i] < Len(Plan[i]) /\ adapter # "xml"
    BY DEF NextChunks
  <1>2. /\ w \in Text /\ said \in Text /\ sent \in [DOMAIN Plan -> Nat]
        /\ \A i \in DOMAIN Plan : Len(Plan[i]) \in Nat
    BY ArrivedIs, StreamAssumption, TextFacts
  <1> DEFINE deltas == [i \in I |-> Plan[i][sent[i] + 1]]
  <1>3. said' = said \o w /\ DOMAIN c.deltas = I
    BY <1>1 DEF Sent, Chunk
  <1>4. sent' = [i \in DOMAIN Plan |-> sent[i] + IF i \in I THEN 1 ELSE 0]
    BY <1>3 DEF Sent
  <1>5. ASSUME NEW i \in DOMAIN Plan
        PROVE  /\ sent'[i] = sent[i] + (IF i \in I THEN 1 ELSE 0) /\ sent[i] \in Nat
               /\ sent'[i] \in Nat
               /\ sent'[i] - (IF i \in I THEN 1 ELSE 0) = sent[i]
               /\ i \in I => sent'[i] > 0 /\ sent'[i] = sent[i] + 1
               /\ sent'[i] <= Len(Plan[i]) /\ (adapter = "xml" => sent'[i] = 0)
    <2>1. sent'[i] = sent[i] + (IF i \in I THEN 1 ELSE 0) /\ sent[i] \in Nat
      BY <1>2, <1>4
    <2>2. sent[i] <= Len(Plan[i]) /\ (adapter = "xml" => sent[i] = 0)
      BY DEF Sound, SentSound
    <2>3. i \in I => sent[i] < Len(Plan[i]) /\ adapter # "xml"
      BY <1>1
    <2> QED
      BY <1>2, <2>1, <2>2, <2>3
  <1>6. deltas = [i \in I |-> Plan[i][sent'[i]]]
    BY <1>5
  <1>7. Event(data', Chunk(w, deltas)) /\ DOMAIN deltas = I
    BY <1>1
  <1> HIDE DEF deltas
  <1>8. TextIn(said \o w, data') = said /\ HeardIn(sent', data') = Without(sent', I)
    <2> DEFINE m == sent'
               d == data'
    <2>1. said \in Text /\ w \in Text /\ DOMAIN deltas = I /\ Event(d, Chunk(w, deltas))
      BY <1>2, <1>7
    <2> HIDE DEF m, d
    <2>2. TextIn(said \o w, d) = said /\ HeardIn(m, d) = Without(m, DOMAIN deltas)
      BY <2>1, AllButTheEvent
    <2> QED
      BY <2>1, <2>2 DEF m, d
  <1>9. HeardIn(sent', data') = sent
    <2>1. sent = [i \in DOMAIN Plan |-> sent[i]]
      BY <1>2
    <2> QED
      BY <1>5, <1>8, <2>1 DEF Without
  <1>10. TypeOK'
    <2>1. said' \in Texts[adapter']
      BY <1>1, <1>3
    <2>2. sent' \in [DOMAIN Plan -> Nat]
      BY <1>4, <1>5
    <2>3. Len(data') <= 2
      <3> DEFINE d == data'
                 e == Chunk(w, deltas)
      <3>1. Event(d, e)
        BY <1>7
      <3> HIDE DEF d, e
      <3>2. Len(d) <= 2
        BY <3>1, EventIs
      <3> QED
        BY <3>2 DEF d
    <2> QED
      BY <2>1, <2>2, <2>3 DEF Sound, TypeOK
  <1>11. DataSound'
    <2>1. Event(data', Chunk(w, [i \in I |-> Plan[i][sent'[i]]]))
      BY <1>6, <1>7
    <2>2. \A i \in I : sent'[i] > 0
      BY <1>5
    <2> QED
      BY <1>2, <1>3, <2>1, <2>2 DEF DataSound
  <1>12. SentSound'
    BY <1>5 DEF SentSound
  <1>13. TextIn(said, data)' = TextIn(said, data) /\ HeardIn(sent, data)' = HeardIn(sent, data)
    BY <1>3, <1>8, <1>9
  <1> QED
    BY <1>10, <1>11, <1>12, <1>13, UnheardSound

\* A line that completes no event.
LEMMA LineSound ==
    ASSUME Sound, status = "open", ~Decodes(data), ~Decodes(data'), DataSound', Len(data') <= 2,
           UNCHANGED <<adapter, said, sent, body, status, acc, filter, calls>>
    PROVE  Sound' /\ TextIn(said, data)' = TextIn(said, data)
  <1>1. TypeOK' /\ SentSound'
    BY DEF Sound, TypeOK, SentSound
  <1>2. said \in Text /\ sent \in [DOMAIN Plan -> Nat]
    BY ArrivedIs
  <1>3. /\ TextIn(said, data) = said /\ HeardIn(sent, data) = sent
        /\ TextIn(said, data') = said /\ HeardIn(sent, data') = sent
    BY <1>2, AllArrived
  <1> QED
    BY <1>1, <1>3, UnheardSound

\* The lines of an event come in, or something else does.
LEMMA LinesSound ==
    ASSUME Sound, WholeLine \/ FirstLine \/ SecondLine \/ \E l \in OtherLines : OtherLine(l)
    PROVE  /\ Sound' /\ TextIn(said, data)' = TextIn(said, data)
           /\ UNCHANGED <<adapter, status, filter, calls>>
  <1>1. ASSUME data = <<>> PROVE ~Decodes(data) /\ TextIn(said, data) = said /\ HeardIn(sent, data) = sent
    <2>1. ~Decodes(data)
      BY <1>1, NoEventIs
    <2>2. said \in Text /\ sent \in [DOMAIN Plan -> Nat]
      BY ArrivedIs
    <2> QED
      BY <2>1, <2>2, AllArrived
  <1>2. CASE WholeLine
    <2>1. PICK c \in NextChunks : data' = <<Line("whole", c)>> /\ Sent(c)
      BY <1>2 DEF WholeLine
    <2>2. Event(data', c)
      BY <2>1 DEF Event
    <2>3. status = "open" /\ data = <<>> /\ UNCHANGED <<adapter, body, status, acc, filter, calls>>
      BY <1>2 DEF WholeLine, Receiving
    <2> QED
      BY <1>1, <2>1, <2>2, <2>3, SentSoundly
  <1>3. CASE FirstLine
    <2>1. PICK c \in NextChunks : data' = <<Line("first", c)>>
      BY <1>3 DEF FirstLine
    <2>2. /\ status = "open" /\ data = <<>>
          /\ UNCHANGED <<adapter, said, sent, body, status, acc, filter, calls>>
      BY <1>3 DEF FirstLine, Receiving
    <2>3. NextChunks' = NextChunks
      BY <2>2 DEF NextChunks
    <2>4. DataSound'
      BY <2>1, <2>3 DEF DataSound
    <2>5. ~Decodes(data') /\ Len(data') <= 2
      BY <2>1, NoEventIs
    <2> QED
      BY <1>1, <2>2, <2>4, <2>5, LineSound
  <1>4. CASE \E l \in OtherLines : OtherLine(l)
    <2>1. PICK l \in OtherLines : OtherLine(l)
      BY <1>4
    <2>2. /\ status = "open" /\ data = <<>> /\ data' = <<l>>
          /\ UNCHANGED <<adapter, said, sent, body, status, acc, filter, calls>>
      BY <2>1 DEF OtherLine, Receiving
    <2>3. DataSound'
      BY <2>1, <2>2 DEF DataSound
    <2>4. ~Decodes(data') /\ Len(data') <= 2
      BY <2>1, <2>2, NoEventIs
    <2> QED
      BY <1>1, <2>2, <2>3, <2>4, LineSound
  <1>5. CASE SecondLine
    <2>1. /\ status = "open" /\ Len(data) = 1 /\ data[1].part = "first"
          /\ data' = Append(data, Line("second", data[1].chunk)) /\ Sent(data[1].chunk)
          /\ UNCHANGED <<adapter, body, status, acc, filter, calls>>
      BY <1>5 DEF SecondLine, Receiving
    <2>2. PICK c \in NextChunks : data = <<Line("first", c)>>
      <3>1. data # <<>>
        BY <2>1
      <3>2. \A l \in OtherLines : data # <<l>>
        <4>1. ASSUME NEW l \in OtherLines, data = <<l>> PROVE FALSE
          <5>1. data[1] = l
            BY <4>1
          <5> QED
            BY <2>1, <4>1, <5>1, NoEventIs
        <4> QED
          BY <4>1
      <3>3. \A c : ~Event(data, c)
        <4>1. ASSUME NEW c, data = <<Line("whole", c)>> PROVE FALSE
          BY <2>1, <4>1 DEF Line
        <4>2. ASSUME NEW c, data = <<Line("first", c), Line("second", c)>> PROVE FALSE
          BY <2>1, <4>2
        <4> QED
          BY <4>1, <4>2 DEF Event
      <3> QED
        BY <3>1, <3>2, <3>3 DEF Sound, DataSound
    <2>3. data[1].chunk = c
      BY <2>2 DEF Line
    <2>4. data' = <<Line("first", c), Line("second", c)>>
      <3> DEFINE a == Line("first", c)
                 b == Line("second", c)
      <3>1. data = <<a>> /\ data' = Append(data, b)
        BY <2>1, <2>2, <2>3
      <3> HIDE DEF a, b
      <3>2. data' = <<a, b>>
        <4> DEFINE S == {a, b}
        <4>1. a \in S /\ b \in S
          OBVIOUS
        <4> HIDE DEF S
        <4>2. Append(<<a>>, b) = <<a, b>>
          BY <4>1, AppendToOne
        <4> QED
          BY <3>1, <4>2
      <3> QED
        BY <3>2 DEF a, b
    <2>5. Event(data', c)
      BY <2>4 DEF Event
    <2>6. ~Decodes(data)
      BY <2>2, NoEventIs
    <2>7. TextIn(said, data) = said /\ HeardIn(sent, data) = sent
      <3>1. said \in Text /\ sent \in [DOMAIN Plan -> Nat]
        BY ArrivedIs
      <3> QED
        BY <2>6, <3>1, AllArrived
    <2> QED
      BY <2>1, <2>3, <2>5, <2>7, SentSoundly
  <1> QED
    BY <1>2, <1>3, <1>4, <1>5

\* A payload: a chunk, or something else.
LEMMA PayloadSound ==
    ASSUME Sound, status = "open", Payload(data)
    PROVE  /\ Sound'
           /\ status' = IF Decodes(data) THEN "open" ELSE "failed"
  <1> DEFINE none == <<>>
  <1>1. /\ said \in Text /\ sent \in [DOMAIN Plan -> Nat] /\ filter \in FilterState
        /\ adapter \in {"native", "xml"}
    BY ArrivedIs, StreamAssumption DEF Sound, TypeOK
  <1>2. data' = none /\ UNCHANGED <<adapter, said, sent, body, calls>>
    BY DEF Payload
  <1>3. TextIn(said, none) = said /\ HeardIn(sent, none) = sent /\ ~Decodes(none) /\ Len(none) <= 2
    <2>1. ~Decodes(none) /\ Len(none) <= 2
      BY NoEventIs
    <2> HIDE DEF none
    <2> QED
      BY <1>1, <2>1, AllArrived
  <1>4. DataSound'
    BY <1>2, <1>3 DEF DataSound
  <1>5. SentSound'
    BY <1>2 DEF Sound, SentSound
  <1> HIDE DEF none
  <1>6. CASE ~Decodes(data)
    <2>1. status' = "failed" /\ UNCHANGED <<acc, filter>>
      BY <1>6 DEF Payload
    <2>2. TypeOK'
      BY <1>2, <1>3, <2>1 DEF Sound, TypeOK
    <2>3. TextIn(said, data) = said /\ HeardIn(sent, data) = sent
      BY <1>1, <1>6, AllArrived
    <2>4. Sound'
      BY <1>2, <1>3, <1>4, <1>5, <2>1, <2>2, <2>3, UnheardSound
    <2> QED
      BY <1>6, <2>1, <2>4
  <1>7. CASE Decodes(data)
    <2>1. PICK w \in Text, t \in Text, I \in SUBSET DOMAIN Plan :
             /\ Event(data, Chunk(w, [i \in I |-> Plan[i][sent[i]]]))
             /\ said = t \o w /\ TextIn(said, data) = t
             /\ \A i \in I : sent[i] > 0
             /\ HeardIn(sent, data) = Without(sent, I)
      BY <1>7, ArrivedIs
    <2> DEFINE deltas == [i \in I |-> Plan[i][sent[i]]]
               m == HeardIn(sent, data)
    <2>2. data[1].chunk.text = w /\ data[1].chunk.deltas = deltas
      BY <2>1, EventIs DEF Chunk
    <2>3. /\ filter' = FilterText(filter, w) /\ acc' = add(acc, deltas) /\ status' = status
      <3> HIDE DEF deltas
      <3> QED
        BY <1>7, <2>2 DEF Payload
    <2>4. Heard(acc', sent)
      <3>1. ASSUME NEW i \in DOMAIN Plan
            PROVE  /\ m[i] = sent[i] - (IF i \in I THEN 1 ELSE 0) /\ sent[i] \in Nat
                   /\ sent[i] = m[i] + (IF i \in I THEN 1 ELSE 0)
                   /\ i \in I => sent[i] = m[i] + 1 /\ m[i] < Len(Plan[i])
        <4>1. m[i] = sent[i] - (IF i \in I THEN 1 ELSE 0) /\ sent[i] \in Nat
          BY <1>1, <2>1 DEF Without
        <4>2. sent[i] <= Len(Plan[i]) /\ Len(Plan[i]) \in Nat
          BY StreamAssumption DEF Sound, SentSound
        <4> HIDE DEF m
        <4> QED
          BY <4>1, <4>2
      <3> HIDE DEF m
      <3>2. deltas = [i \in I |-> Plan[i][m[i] + 1]]
        BY <3>1
      <3>3. sent = [i \in DOMAIN Plan |-> m[i] + IF i \in I THEN 1 ELSE 0]
        <4>1. sent = [i \in DOMAIN Plan |-> sent[i]]
          BY <1>1
        <4> QED
          BY <3>1, <4>1
      <3>4. Heard(acc, m) /\ I \subseteq DOMAIN Plan /\ \A i \in I : m[i] < Len(Plan[i])
        BY <3>1 DEF Sound, FilterSound, m
      <3>5. Heard(add(acc, [i \in I |-> Plan[i][m[i] + 1]]), sent)
        BY <3>3, <3>4, HeardMore
      <3> QED
        BY <2>3, <3>2, <3>5
    <2>5. CASE adapter = "xml"
      <3> DEFINE g == drain[[filter EXCEPT !.buf = @ \o w]]
      <3>1. filter' = g
        BY <2>3, <2>5 DEF FilterText
      <3>2. ReadTo(t, filter) /\ Counted(filter)
        BY <2>1, <2>5 DEF Sound, FilterSound
      <3>3. g \in FilterState /\ ReadTo(t \o w, g) /\ Rests(g) /\ Counted(g)
        BY <1>1, <3>2, FilterTextReads
      <3> HIDE DEF g
      <3>4. FilterSound'
        BY <1>2, <1>3, <2>1, <2>3, <2>4, <2>5, <3>1, <3>3 DEF FilterSound
      <3>5. TypeOK'
        <4>1. DOMAIN acc' \subseteq DOMAIN Plan
          BY <2>4 DEF Heard
        <4> QED
          BY <1>2, <1>3, <2>3, <3>1, <3>3, <4>1 DEF Sound, TypeOK
      <3>6. DoneSound'
        BY <1>2, <2>3 DEF Sound, DoneSound
      <3> QED
        BY <1>4, <1>5, <1>7, <2>3, <3>4, <3>5, <3>6 DEF Sound
    <2>6. CASE adapter = "native"
      <3> DEFINE s == filter.shown \o w
                 g == [filter EXCEPT !.shown = s]
      <3>1. filter' = g
        BY <2>3, <2>6 DEF FilterText
      <3>2. filter.calls = <<>> /\ filter.buf = <<>> /\ filter.shown = t /\ Counted(filter)
        BY <2>1, <2>6 DEF Sound, FilterSound
      <3>3. s \in Text /\ s = said
        BY <1>1, <2>1, <3>2
      <3> HIDE DEF s
      <3>4. /\ g \in FilterState /\ g.calls = filter.calls /\ g.buf = filter.buf
            /\ g.shown = s /\ g.counter = filter.counter
        BY <1>1, <3>3 DEF FilterState
      <3> HIDE DEF g
      <3>5. Counted(g)
        BY <3>2, <3>4 DEF Counted
      <3>6. FilterSound'
        BY <1>2, <1>3, <2>4, <2>6, <3>1, <3>2, <3>3, <3>4, <3>5 DEF FilterSound
      <3>7. TypeOK'
        <4>1. DOMAIN acc' \subseteq DOMAIN Plan
          BY <2>4 DEF Heard
        <4> QED
          BY <1>2, <1>3, <2>3, <3>1, <3>4, <4>1 DEF Sound, TypeOK
      <3>8. DoneSound'
        BY <1>2, <2>3 DEF Sound, DoneSound
      <3> QED
        BY <1>4, <1>5, <1>7, <2>3, <3>6, <3>7, <3>8 DEF Sound
    <2> QED
      BY <1>1, <2>5, <2>6
  <1> QED
    BY <1>6, <1>7

\* The end of the stream: all that has come is there, with what was kept.
LEMMA EndSound ==
    ASSUME Sound, status = "open", ~Decodes(data), EndOfStream
    PROVE  Sound'
  <1> DEFINE none == <<>>
             b == filter.buf
             s == filter.shown \o b
             g == [filter EXCEPT !.shown = s, !.buf = none]
             all == assembled(acc) \o filter.calls
             X == [id : IdType, what : Text]
             Y == [id : IdType, what : Seq(Symbol \cup STRING)]
  <1>1. /\ said \in Text /\ sent \in [DOMAIN Plan -> Nat] /\ filter \in FilterState
        /\ adapter \in {"native", "xml"}
    BY ArrivedIs, StreamAssumption DEF Sound, TypeOK
  <1>2. /\ status' = "done" /\ data' = none /\ calls' = all
        /\ UNCHANGED <<adapter, said, sent, body, acc>>
    BY DEF EndOfStream
  <1>3. filter' = g
    BY DEF EndOfStream, FilterDone
  <1>4. /\ TextIn(said, data) = said /\ HeardIn(sent, data) = sent
        /\ TextIn(said, none) = said /\ HeardIn(sent, none) = sent
        /\ ~Decodes(none) /\ Len(none) <= 2
    <2>1. ~Decodes(none) /\ Len(none) <= 2
      BY NoEventIs
    <2> HIDE DEF none
    <2> QED
      BY <1>1, <2>1, AllArrived
  <1>5. b \in Text /\ s \in Text /\ none \in Text /\ filter.shown \in Text
        /\ filter.shown \o none = filter.shown
    BY <1>1, FilterFields, TextFacts
  <1>6. /\ g \in FilterState /\ g.shown = s /\ g.buf = none /\ g.calls = filter.calls
        /\ g.counter = filter.counter
    <2> HIDE DEF s, none
    <2> QED
      BY <1>1, <1>5 DEF FilterState
  <1>7. Heard(acc, sent) /\ Counted(filter)
    BY <1>4 DEF Sound, FilterSound
  <1>8. all \in Seq(Y)
    <2>1. assembled(acc) \in Seq(Y)
      BY <1>7, AssembledIs
    <2>2. filter.calls \in Seq(Y)
      <3>1. X \subseteq Y
        BY DEF Text
      <3>2. filter.calls \in Seq(X)
        BY <1>1, FilterFields
      <3> HIDE DEF X, Y
      <3> QED
        BY <3>1, <3>2
    <2> HIDE DEF Y
    <2> QED
      BY <2>1, <2>2, ConcatProperties
  <1>9. DataSound' /\ SentSound'
    BY <1>2, <1>4 DEF Sound, DataSound, SentSound
  <1> HIDE DEF none, g, s, b, all
  <1>10. TypeOK'
    BY <1>2, <1>3, <1>4, <1>6, <1>8 DEF Sound, TypeOK
  <1>11. FilterSound'
    <2>1. Counted(g)
      BY <1>6, <1>7 DEF Counted
    <2>2. adapter = "native" => filter.calls = <<>> /\ filter.shown = said /\ b = <<>>
      BY <1>4 DEF Sound, FilterSound, b
    <2>3. adapter = "native" => s = said
      BY <1>5, <2>2 DEF s, none
    <2> QED
      BY <1>2, <1>3, <1>4, <1>6, <1>7, <2>1, <2>2, <2>3 DEF FilterSound, none
  <1>12. DoneSound'
    <2>1. ASSUME adapter = "xml"
          PROVE  /\ Whole!Reading[said].prose \o Whole!Reading[said].rest = s
                 /\ Whole!Reading[said].calls = WhatOf(filter.calls)
      <3>1. ReadTo(said, filter) /\ Rests(filter)
        BY <1>4, <2>1 DEF Sound, FilterSound
      <3> QED
        BY <1>1, <3>1, SeenIsUpToDate DEF s, b
    <2>2. calls' = assembled(acc') \o g.calls
      BY <1>2, <1>6 DEF all
    <2> QED
      BY <1>2, <1>3, <1>6, <2>1, <2>2 DEF DoneSound, none
  <1> QED
    BY <1>9, <1>10, <1>11, <1>12 DEF Sound

\* An event ends, by its blank line or with the body.
LEMMA EventEnds ==
    ASSUME Sound, Blank \/ Flush
    PROVE  /\ status = "open"
           /\ Payload(data) \/ (~Decodes(data) /\ EndOfStream)
  <1>1. status = "open" /\ (Payload(data) \/ EndOfStream)
    BY DEF Blank, Flush, Receiving
  <1>2. CASE Blank /\ data[1].part = "marker"
    BY <1>2, <1>1 DEF Blank, Decodes
  <1>3. CASE Blank /\ data[1].part # "marker"
    BY <1>3, <1>1 DEF Blank
  <1>4. CASE Flush /\ ~Leftover
    BY <1>4, <1>1 DEF Flush, Leftover, Decodes
  <1>5. CASE Flush /\ Leftover
    BY <1>5, <1>1 DEF Flush
  <1> QED
    BY <1>2, <1>3, <1>4, <1>5

\* Every step of a reply.
LEMMA ReceiveSound ==
    ASSUME Sound, Receive
    PROVE  Sound'
  <1>1. CASE WholeLine \/ FirstLine \/ SecondLine \/ \E l \in OtherLines : OtherLine(l)
    BY <1>1, LinesSound
  <1>2. CASE Blank \/ Flush
    <2>1. CASE Payload(data)
      BY <1>2, <2>1, EventEnds, PayloadSound
    <2>2. CASE ~Decodes(data) /\ EndOfStream
      BY <1>2, <2>2, EventEnds, EndSound
    <2> QED
      BY <1>2, <2>1, <2>2, EventEnds
  <1>3. CASE BodyEnds \/ ReadFails
    <2>1. /\ UNCHANGED <<adapter, said, sent, data, acc, filter, calls>>
          /\ status = "open" /\ status' \in {"open", "failed"}
          /\ body' \in {"open", "ended"}
      BY <1>3 DEF BodyEnds, ReadFails, Receiving, Sound, TypeOK
    <2>2. NextChunks' = NextChunks
      BY <2>1 DEF NextChunks
    <2>3. TypeOK'
      BY <2>1 DEF Sound, TypeOK
    <2>4. DataSound'
      BY <2>1, <2>2 DEF Sound, DataSound
    <2>5. SentSound'
      BY <2>1 DEF Sound, SentSound
    <2>6. TextIn(said, data)' = TextIn(said, data) /\ HeardIn(sent, data)' = HeardIn(sent, data)
      BY <2>1
    <2> QED
      BY <2>1, <2>3, <2>4, <2>5, <2>6, UnheardSound
  <1> QED
    BY <1>1, <1>2, <1>3 DEF Receive

\* A step that changes nothing.
LEMMA UnchangedSound ==
    ASSUME Sound, UNCHANGED vars
    PROVE  Sound'
  <1>1. /\ UNCHANGED <<adapter, said, sent, data, body, status, acc, filter, calls>>
        /\ NextChunks' = NextChunks
    BY DEF vars, NextChunks
  <1>2. TypeOK' /\ SentSound'
    BY <1>1 DEF Sound, TypeOK, SentSound
  <1>3. DataSound'
    BY <1>1 DEF Sound, DataSound
  <1>4. FilterSound' /\ DoneSound'
    BY <1>1 DEF Sound, FilterSound, DoneSound
  <1> QED
    BY <1>2, <1>3, <1>4 DEF Sound

\* Every step of a session is one of a reply, begins one, or is none.
LEMMA ProbeStep ==
    ASSUME Sound, ProbeNext
    PROVE  Receive \/ (\E a \in Adapters : Begin(a) /\ (status # "open" \/ stage = "start"))
           \/ UNCHANGED vars
  <1>1. "native" \in Adapters /\ "xml" \in Adapters
    BY ProbeAssumption
  <1>2. CASE ModelsFail
    BY <1>2 DEF ModelsFail, vars
  <1>3. CASE \E want \in Adapters : Forced(want)
    BY <1>3 DEF Forced, SettleOn
  <1>4. CASE Test
    BY <1>1, <1>4 DEF Test
  <1>5. CASE TestEnds
    BY <1>1, <1>5 DEF TestEnds, SettleOn
  <1>6. CASE Replies
    <2>1. adapter \in Adapters
      BY DEF Sound, TypeOK
    <2> QED
      BY <1>6, <2>1 DEF Replies, NextReply
  <1> QED
    BY <1>2, <1>3, <1>4, <1>5, <1>6 DEF ProbeNext

\* Before the probe there is nothing; the test has no adapter, and knows of
\* the model only what was listed.
StageSound ==
    /\ stage = "start" => said = <<>> /\ data = <<>> /\ filter = NewFilter /\ status = "open"
    /\ stage = "test" => adapter = "native" /\ caps = Listed

\* The invariant holds at first.
LEMMA InitSound ==
    ASSUME ProbeInit
    PROVE  Sound /\ StageSound
  <1> DEFINE none == <<>>
  <1>1. /\ adapter = "native" /\ said = none /\ sent = NothingSent /\ data = none
        /\ body = "open" /\ status = "open" /\ acc = none /\ filter = NewFilter /\ calls = none
        /\ stage = "start" /\ adapter \in Adapters
    BY ProbeAssumption DEF ProbeInit, Init
  <1>2. TypeOK
    BY <1>1, FreshIs DEF TypeOK
  <1>3. DataSound
    BY <1>1, FreshIs DEF DataSound
  <1>4. SentSound
    BY <1>1, FreshIs DEF SentSound
  <1>5. FilterSound
    BY <1>1, FreshIs DEF FilterSound
  <1>6. DoneSound
    BY <1>1 DEF DoneSound
  <1>7. StageSound
    BY <1>1 DEF StageSound
  <1> QED
    BY <1>2, <1>3, <1>4, <1>5, <1>6, <1>7 DEF Sound

\* The invariant is kept.
LEMMA NextSound ==
    ASSUME Sound, StageSound, [ProbeNext]_allVars
    PROVE  Sound' /\ StageSound'
  <1>1. CASE ProbeNext
    <2>1. Sound'
      <3>1. CASE Receive
        BY <3>1, ReceiveSound
      <3>2. CASE \E a \in Adapters : Begin(a)
        BY <3>2, BeginSound
      <3>3. CASE UNCHANGED vars
        BY <3>3, UnchangedSound
      <3> QED
        BY <1>1, <3>1, <3>2, <3>3, ProbeStep
    <2>2. StageSound'
      <3>1. CASE ModelsFail
        BY <3>1 DEF ModelsFail, StageSound
      <3>2. CASE \E want \in Adapters : Forced(want)
        BY <3>2 DEF Forced, SettleOn, StageSound
      <3>3. CASE Test
        BY <3>3 DEF Test, Begin, StageSound
      <3>4. CASE TestEnds
        BY <3>4 DEF TestEnds, SettleOn, StageSound
      <3>5. CASE Replies /\ UNCHANGED probeVars
        <4>1. stage' = stage /\ caps' = caps
          BY <3>5 DEF probeVars
        <4>2. CASE stage \in {"test", "session"} /\ Receive
          <5>1. adapter' = adapter
            BY <4>2 DEF Receive, WholeLine, FirstLine, SecondLine, OtherLine, Blank, BodyEnds,
                        Flush, ReadFails, Payload, EndOfStream
          <5> QED
            BY <4>1, <4>2, <5>1 DEF StageSound
        <4>3. CASE stage = "session" /\ NextReply
          BY <4>1, <4>3 DEF StageSound
        <4> QED
          BY <3>5, <4>2, <4>3 DEF Replies
      <3> QED
        BY <1>1, <3>1, <3>2, <3>3, <3>4, <3>5 DEF ProbeNext
    <2> QED
      BY <2>1, <2>2
  <1>2. CASE UNCHANGED allVars
    <2>1. UNCHANGED vars /\ stage' = stage /\ caps' = caps
      BY <1>2 DEF allVars, probeVars
    <2>2. StageSound'
      BY <2>1 DEF StageSound, vars
    <2> QED
      BY <2>1, <2>2, UnchangedSound
  <1> QED
    BY <1>1, <1>2

\* Throughout a session the invariant holds.
THEOREM StreamInvariant == ProbeSpec => [](Sound /\ StageSound)
  <1>1. ProbeInit => Sound /\ StageSound
    BY InitSound
  <1>2. Sound /\ StageSound /\ [ProbeNext]_allVars => (Sound /\ StageSound)'
    BY NextSound
  <1> QED
    BY <1>1, <1>2, PTL DEF ProbeSpec

-----------------------------------------------------------------------------
(* The invariants of Stream.                                               *)

\* The stream's variables keep to their types in all sessions (TypeOK).
THEOREM StreamTypes == ProbeSpec => []TypeOK
  <1>1. Sound => TypeOK
    BY DEF Sound
  <1> QED
    BY <1>1, StreamInvariant, PTL

\* What has arrived, by the properties' own definitions.
LEMMA DeliveredIs ==
    /\ Delivered = TextIn(said, data)
    /\ \A i \in DOMAIN Plan : DeliveredOf(i) = HeardIn(sent, data)[i]
  <1>1. Waiting = WaitingIn(data)
    BY DEF Waiting, WaitingIn
  <1> QED
    BY <1>1 DEF Delivered, TextIn, DeliveredOf, HeardIn, Without

\* Each native call is put together from its own fragments, whatever order
\* those of several calls come in (AssembledFromOwnFragments).
THEOREM CallsFromOwnFragments == ProbeSpec => []AssembledFromOwnFragments
  <1>1. Sound => AssembledFromOwnFragments
    <2> SUFFICES ASSUME Sound, NEW i \in DOMAIN Plan
                 PROVE  IF DeliveredOf(i) = 0 THEN i \notin DOMAIN acc
                        ELSE i \in DOMAIN acc /\ acc[i] = Said(i, DeliveredOf(i))
      BY DEF AssembledFromOwnFragments
    <2> DEFINE m == HeardIn(sent, data)
    <2>1. DeliveredOf(i) = m[i] /\ Heard(acc, m)
      BY DeliveredIs DEF Sound, FilterSound
    <2> HIDE DEF m
    <2>2. /\ m[i] \in Nat /\ DOMAIN acc = {j \in DOMAIN Plan : m[j] > 0}
          /\ \A j \in DOMAIN acc : acc[j] = Said(j, m[j])
      BY <2>1 DEF Heard
    <2> QED
      BY <2>1, <2>2
  <1> QED
    BY <1>1, StreamInvariant, PTL

\* A reply whose calls are in the text has no others.
LEMMA NoneFromOutside ==
    ASSUME Sound, Heard(acc, sent), adapter = "xml"
    PROVE  assembled(acc) \o filter.calls = filter.calls
  <1> DEFINE none == <<>>
             X == [id : IdType, what : Text]
             Y == [id : IdType, what : Seq(Symbol \cup STRING)]
             some == assembled(acc)
  <1>1. Named(sent) = {}
    <2>1. \A i \in DOMAIN Plan : sent[i] = 0
      BY DEF Sound, SentSound
    <2>2. ASSUME NEW i \in Named(sent) PROVE FALSE
      <3>1. i \in DOMAIN Plan /\ sent[i] > 0
        BY DEF Named
      <3> DEFINE n == sent[i]
      <3>2. n = 0 /\ n > 0
        BY <2>1, <3>1
      <3> HIDE DEF n
      <3> QED
        BY <3>2
    <2> QED
      BY <2>2
  <1>2. some \in Seq(Y) /\ Len(some) = Cardinality(Named(sent))
    <2>1. sent \in [DOMAIN Plan -> Nat]
      BY DEF Sound, TypeOK
    <2> QED
      BY <2>1, AssembledIs
  <1> HIDE DEF some, Y
  <1>3. Len(some) = 0
    BY <1>1, <1>2, FS_EmptySet
  <1>4. some = none
    BY <1>2, <1>3
  <1>5. none \o filter.calls = filter.calls
    <2>1. filter.calls \in Seq(X)
      BY FilterFields DEF Sound, TypeOK
    <2> HIDE DEF X
    <2> QED
      BY <2>1, ConcatEmptySeq
  <1> QED
    BY <1>4, <1>5 DEF some

\* The calls of a reply that is done: those of the accumulator when they are
\* native, those of the filter when they are in the text.
LEMMA DoneIs ==
    ASSUME Sound, status = "done"
    PROVE  /\ Heard(acc, sent) /\ Counted(filter) /\ filter \in FilterState
           /\ said \in Text /\ sent \in [DOMAIN Plan -> Nat]
           /\ adapter = "native" =>
                 /\ calls = assembled(acc) /\ filter.shown = said
           /\ adapter # "native" =>
                 /\ adapter = "xml" /\ calls = filter.calls
                 /\ filter.shown = Whole!Reading[said].prose \o Whole!Reading[said].rest
                 /\ WhatOf(filter.calls) = Whole!Reading[said].calls
  <1> DEFINE none == <<>>
             Y == [id : IdType, what : Seq(Symbol \cup STRING)]
             some == assembled(acc)
  <1>1. /\ said \in Text /\ sent \in [DOMAIN Plan -> Nat] /\ filter \in FilterState
        /\ adapter \in {"native", "xml"} /\ data = none
    BY ArrivedIs, StreamAssumption DEF Sound, TypeOK, DoneSound
  <1>2. TextIn(said, data) = said /\ HeardIn(sent, data) = sent
    BY <1>1, NoEventIs, AllArrived
  <1>3. Heard(acc, sent) /\ Counted(filter)
    BY <1>2 DEF Sound, FilterSound
  <1>4. calls = some \o filter.calls
    BY DEF Sound, DoneSound
  <1>5. some \in Seq(Y) /\ Len(some) = Cardinality(Named(sent))
    BY <1>3, AssembledIs
  <1> HIDE DEF some, Y
  <1>6. CASE adapter = "native"
    <2>1. filter.calls = none /\ filter.shown = said
      BY <1>2, <1>6 DEF Sound, FilterSound
    <2>2. some \o none = some
      BY <1>5, ConcatEmptySeq
    <2> QED
      BY <1>1, <1>3, <1>4, <1>6, <2>1, <2>2 DEF some
  <1>7. CASE adapter = "xml"
    <2>5. calls = filter.calls
      BY <1>3, <1>4, <1>7, NoneFromOutside DEF some
    <2>6. /\ filter.shown = Whole!Reading[said].prose \o Whole!Reading[said].rest
          /\ WhatOf(filter.calls) = Whole!Reading[said].calls
      BY <1>7 DEF Sound, DoneSound
    <2> QED
      BY <1>1, <1>3, <1>7, <2>5, <2>6
  <1> QED
    BY <1>1, <1>6, <1>7

\* A reading, in band or not.
LEMMA ReadIs ==
    /\ adapter = "xml" => \A t : Whole!Read(t) = Whole!Reading[t]
    /\ adapter # "xml" =>
          \A t : Whole!Read(t) = Reads(t, <<>>, FALSE, <<>>)
  BY DEF Whole!Read, Reads

\* A reply taken as complete has all that the server put on the wire
\* (CompleteReplyHasAllThatWasSent).
THEOREM CompleteReplies == ProbeSpec => []CompleteReplyHasAllThatWasSent
  <1>1. Sound => CompleteReplyHasAllThatWasSent
    <2> SUFFICES ASSUME Sound, status = "done"
                 PROVE  CompleteReplyHasAllThatWasSent
      BY DEF CompleteReplyHasAllThatWasSent
    <2>1. CASE adapter = "xml"
      <3>1. filter.shown = Whole!Final(said)
        BY <2>1, DoneIs, ReadIs DEF Whole!Final
      <3>2. [k \in 1..Len(calls) |-> calls[k].what] = Whole!Read(said).calls
        BY <2>1, DoneIs, ReadIs DEF WhatOf
      <3> QED
        BY <2>1, <3>1, <3>2 DEF CompleteReplyHasAllThatWasSent
    <2>2. CASE adapter = "native"
      <3>1. /\ calls = assembled(acc) /\ filter.shown = said /\ Heard(acc, sent) /\ said \in Text
        BY <2>2, DoneIs
      <3>2. filter.shown = Whole!Final(said)
        <4> DEFINE r == Whole!Read(said)
        <4>1. r = Reads(said, <<>>, FALSE, <<>>)
          BY <2>2, ReadIs
        <4> HIDE DEF r
        <4>2. r.prose \o r.rest = said
          BY <3>1, <4>1, TextFacts DEF Reads
        <4> QED
          BY <3>1, <4>2 DEF Whole!Final, r
      <3> DEFINE S == Named(sent)
                 n == Cardinality(S)
                 s == Ascending(S)
                 what(i) == <<Said(i, sent[i]).name>> \o Said(i, sent[i]).args
      <3>3. calls = [k \in 1..n |-> CallOf(s[k], sent[s[k]])] /\ Len(calls) = n
        BY <3>1, AssembledIs
      <3>4. [k \in 1..Len(calls) |-> calls[k].what] = [k \in 1..n |-> what(s[k])]
        <4> HIDE DEF n, s, S
        <4>1. \A k \in 1..n : calls[k].what = what(s[k])
          BY <3>3 DEF CallOf, ToolCall
        <4> HIDE DEF what
        <4> QED
          BY <3>3, <4>1
      <3> QED
        BY <2>2, <3>2, <3>4 DEF CompleteReplyHasAllThatWasSent, Named
    <2> QED
      BY <2>1, <2>2, DoneIs
  <1> QED
    BY <1>1, StreamInvariant, PTL

\* No two calls of a reply have the same id, whichever way it was made
\* (IdsDistinct).
THEOREM DistinctIds == ProbeSpec => []IdsDistinct
  <1>1. Sound => IdsDistinct
    <2> SUFFICES ASSUME Sound, NEW j \in 1..Len(calls), NEW k \in 1..Len(calls),
                        calls[j].id = calls[k].id
                 PROVE  j = k
      BY DEF IdsDistinct
    <2>1. CASE status # "done"
      <3>1. Len(calls) = 0
        BY <2>1 DEF Sound, DoneSound
      <3> QED
        BY <3>1
    <2>2. CASE status = "done" /\ adapter = "native"
      <3>1. calls = assembled(acc) /\ Heard(acc, sent)
        BY <2>2, DoneIs
      <3> QED
        BY <3>1, AssembledIs
    <2>3. CASE status = "done" /\ adapter # "native"
      <3>1. calls[j].id = Id("xmlcall", j) /\ calls[k].id = Id("xmlcall", k)
        BY <2>3, DoneIs DEF Counted
      <3>2. Id("xmlcall", j).n = j /\ Id("xmlcall", k).n = k
        BY DEF Id
      <3> QED
        BY <3>1, <3>2
    <2> QED
      BY <2>1, <2>2, <2>3
  <1> QED
    BY <1>1, StreamInvariant, PTL

-----------------------------------------------------------------------------
(* The refinement of Reply.                                                *)

\* What comes first is a prefix of the whole.
LEMMA PrefixIs ==
    ASSUME NEW s \in Text, NEW w \in Text
    PROVE  IsPrefix(s, s \o w)
  <1>1. s \in Seq(Symbol) /\ w \in Seq(Symbol)
    BY DEF Text
  <1>2. Len(s \o w) = Len(s) + Len(w) /\ SubSeq(s \o w, 1, Len(s)) = s
    BY <1>1, Joined
  <1>3. SubSeq(s, 1, Len(s)) = s /\ Len(s) \in Nat /\ Len(w) \in Nat
    BY <1>1
  <1> QED
    BY <1>2, <1>3 DEF IsPrefix

\* Between events all has arrived.
LEMMA NothingLeft ==
    ASSUME Sound
    PROVE  TextIn(said, <<>>) = said /\ (~Decodes(data) => TextIn(said, data) = said)
  <1> DEFINE none == <<>>
  <1>1. said \in Text /\ sent \in [DOMAIN Plan -> Nat] /\ ~Decodes(none)
    BY ArrivedIs, NoEventIs
  <1> HIDE DEF none
  <1>2. TextIn(said, none) = said /\ (~Decodes(data) => TextIn(said, data) = said)
    BY <1>1, AllArrived
  <1> QED
    BY <1>2 DEF none

\* A chunk that arrives makes the text longer, and what is shown no shorter.
LEMMA PayloadGrows ==
    ASSUME Sound, status = "open", Payload(data), Decodes(data)
    PROVE  /\ IsPrefix(TextIn(said, data), said)
           /\ IsPrefix(filter.shown, filter'.shown)
           /\ TextIn(said', data') = said
           /\ UNCHANGED <<adapter, said, status, calls>>
  <1>1. /\ said \in Text /\ sent \in [DOMAIN Plan -> Nat] /\ filter \in FilterState
        /\ adapter \in {"native", "xml"} /\ filter.shown \in Text
    BY ArrivedIs, FilterFields, StreamAssumption DEF Sound, TypeOK
  <1>2. PICK w \in Text, t \in Text, I \in SUBSET DOMAIN Plan :
           /\ Event(data, Chunk(w, [i \in I |-> Plan[i][sent[i]]]))
           /\ said = t \o w /\ TextIn(said, data) = t
    BY ArrivedIs
  <1>3. data[1].chunk.text = w
    BY <1>2, EventIs DEF Chunk
  <1>4. /\ filter' = FilterText(filter, w) /\ data' = <<>>
        /\ UNCHANGED <<adapter, said, status, calls>>
    BY <1>3 DEF Payload
  <1>5. Grown(filter, filter')
    <2>1. CASE adapter = "xml"
      <3>1. filter' = drain[[filter EXCEPT !.buf = @ \o w]]
        BY <1>4, <2>1 DEF FilterText
      <3>2. ReadTo(t, filter)
        BY <1>2, <2>1 DEF Sound, FilterSound
      <3> QED
        BY <1>1, <1>2, <3>1, <3>2, FilterTextReads
    <2>2. CASE adapter = "native"
      <3> DEFINE s == filter.shown \o w
                 g == [filter EXCEPT !.shown = s]
      <3>1. filter' = g
        BY <1>4, <2>2 DEF FilterText
      <3>2. g.shown = s
        BY <1>1 DEF FilterState
      <3> QED
        BY <1>2, <3>1, <3>2 DEF Grown
    <2> QED
      BY <1>1, <2>1, <2>2
  <1>6. IsPrefix(filter.shown, filter'.shown)
    <2>1. PICK v \in Text : filter'.shown = filter.shown \o v
      BY <1>5 DEF Grown
    <2> DEFINE s == filter.shown
    <2>2. s \in Text /\ v \in Text
      BY <1>1, <2>1
    <2> HIDE DEF s
    <2>3. IsPrefix(s, s \o v)
      BY <2>2, PrefixIs
    <2> QED
      BY <2>1, <2>3 DEF s
  <1>7. IsPrefix(TextIn(said, data), said)
    <2>1. t \in Text /\ w \in Text
      BY <1>2
    <2>2. IsPrefix(t, t \o w)
      BY <2>1, PrefixIs
    <2> QED
      BY <1>2, <2>2
  <1>8. TextIn(said, <<>>) = said
    <2>1. ~Decodes(<<>>)
      BY NoEventIs
    <2> DEFINE none == <<>>
    <2> HIDE DEF none
    <2>2. TextIn(said, none) = said
      BY <1>1, <2>1, AllArrived DEF none
    <2> QED
      BY <2>2 DEF none
  <1> QED
    BY <1>4, <1>6, <1>7, <1>8

\* Once a filter has read a text, the operator is up to date with it.
LEMMA ReaderIsUpToDate ==
    ASSUME NEW t \in Text, NEW f \in FilterState, adapter \in {"native", "xml"},
           adapter = "xml" => ReadTo(t, f) /\ Rests(f),
           adapter = "native" => f.shown = t
    PROVE  Whole!UpToDate(t, f.shown)
  <1> DEFINE s == f.shown
             none == <<>>
  <1>2. CASE adapter = "xml"
    <2>1. ReadTo(t, f) /\ Rests(f)
      BY <1>2
    <2> DEFINE r == Whole!Reading[t]
               held == SubSeq(r.prose, Len(s) + 1, Len(r.prose))
    <2>2. IsPrefix(s, r.prose) /\ IsStrictPrefix(held, tagOpen) /\ (r.cut => held = <<>>)
      BY <2>1, SeenIsUpToDate
    <2>3. Whole!Read(t) = r
      BY <1>2, ReadIs
    <2> HIDE DEF r, s
    <2>4. Whole!UpToDate(t, s)
      BY <1>2, <2>2, <2>3 DEF Whole!UpToDate, Whole!HeldBack, Whole!IsPrefix,
                              Whole!IsStrictPrefix, IsPrefix, IsStrictPrefix
    <2> QED
      BY <2>4 DEF s
  <1>3. CASE adapter = "native"
    <2>1. s = t
      BY <1>3
    <2> DEFINE r == Whole!Read(t)
    <2>2. r = Reads(t, none, FALSE, none)
      BY <1>3, ReadIs
    <2> HIDE DEF s, r
    <2>3. r.prose = t
      BY <2>2 DEF Reads
    <2>4. /\ IsPrefix(t, t) /\ SubSeq(t, Len(t) + 1, Len(t)) = none
          /\ IsStrictPrefix(none, tagOpen)
      <3>1. t = SubSeq(t, 1, Len(t)) /\ Len(t) \in Nat /\ SubSeq(t, Len(t) + 1, Len(t)) = none
        BY DEF Text
      <3>2. /\ none \in Text /\ tagOpen \in Text /\ none \o tagOpen = tagOpen /\ tagOpen # none
        BY TextFacts, TagsAssumption
      <3> HIDE DEF none
      <3>3. IsPrefix(none, tagOpen)
        <4>1. IsPrefix(none, none \o tagOpen)
          BY <3>2, PrefixIs
        <4> QED
          BY <3>2, <4>1
      <3> QED
        BY <3>1, <3>2, <3>3 DEF IsPrefix, IsStrictPrefix
    <2>5. Whole!UpToDate(t, s)
      BY <2>1, <2>3, <2>4 DEF Whole!UpToDate, Whole!HeldBack, Whole!IsPrefix,
                              Whole!IsStrictPrefix, IsPrefix, IsStrictPrefix, r
    <2> QED
      BY <2>5 DEF s
  <1> QED
    BY <1>2, <1>3

\* Every step of a session is, for the reply as a whole, one of its steps or
\* none.
LEMMA NextIsWhole ==
    ASSUME Sound, StageSound, Sound', StageSound', [ProbeNext]_allVars
    PROVE  [Whole!Next]_(Whole!vars)
  <1> DEFINE text == TextIn(said, data)
             got == IF status = "done" /\ adapter = "xml"
                    THEN [k \in 1..Len(calls) |-> calls[k].what] ELSE <<>>
  <1>0. /\ Delivered = text /\ Delivered' = text'
        /\ status \in {"open", "done", "failed"}
    BY DeliveredIs DEF Sound, TypeOK, Delivered, TextIn, Waiting, WaitingIn
  <1>1. ASSUME text' = text, UNCHANGED <<adapter, status, filter, calls>>
        PROVE  UNCHANGED Whole!vars
    BY <1>0, <1>1 DEF Whole!vars
  <1> HIDE DEF text
  <1>2. CASE WholeLine \/ FirstLine \/ SecondLine \/ \E l \in OtherLines : OtherLine(l)
    <2>1. text' = text /\ UNCHANGED <<adapter, status, filter, calls>>
      BY <1>2, LinesSound DEF text
    <2> QED
      BY <1>1, <2>1
  <1>3. CASE BodyEnds \/ UNCHANGED vars
    <2>1. text' = text /\ UNCHANGED <<adapter, status, filter, calls>>
      BY <1>3 DEF BodyEnds, vars, text
    <2> QED
      BY <1>1, <2>1
  <1>4. CASE status = "open" /\ Payload(data) /\ Decodes(data)
    <2>1. /\ IsPrefix(text, text') /\ IsPrefix(filter.shown, filter'.shown)
          /\ UNCHANGED <<adapter, status, calls>>
      BY <1>4, PayloadGrows DEF text
    <2>2. Whole!UpToDate(text', filter'.shown)
      <3> DEFINE t == text'
                 f == filter'
      <3>1. /\ t \in Text /\ f \in FilterState /\ adapter \in {"native", "xml"}
        <4>1. t = said /\ said \in Text /\ adapter \in {"native", "xml"}
          BY <1>4, PayloadGrows, ArrivedIs, StreamAssumption DEF text, Sound, TypeOK
        <4>2. f \in FilterState
          BY DEF Sound, TypeOK
        <4> QED
          BY <4>1, <4>2
      <3>2. /\ adapter = "xml" => ReadTo(t, f) /\ Rests(f)
            /\ adapter = "native" => f.shown = t
        BY <1>4, <2>1 DEF Sound, FilterSound, text
      <3> HIDE DEF t, f
      <3>3. Whole!UpToDate(t, f.shown)
        BY <3>1, <3>2, ReaderIsUpToDate
      <3> QED
        BY <3>3 DEF t, f
    <2> QED
      BY <1>0, <1>4, <2>1, <2>2 DEF Whole!Next, Whole!Grow, Whole!IsPrefix, IsPrefix
  <1>5. CASE status = "open" /\ Payload(data) /\ ~Decodes(data)
    <2>1. status' = "failed" /\ UNCHANGED <<adapter, filter, calls>>
      BY <1>5 DEF Payload
    <2>2. text' = text
      <3>1. text = said
        BY <1>5, ArrivedIs, AllArrived DEF text
      <3>2. text' = said
        BY <1>5, NothingLeft DEF Payload, text
      <3> QED
        BY <3>1, <3>2
    <2>3. calls = <<>> /\ got = <<>> /\ got' = <<>>
      BY <1>5, <2>1 DEF Sound, DoneSound
    <2> QED
      BY <1>0, <1>5, <2>1, <2>2, <2>3 DEF Whole!Next, Whole!Fail
  <1>6. CASE ReadFails
    <2>1. status = "open" /\ status' = "failed" /\ UNCHANGED <<adapter, said, data, filter, calls>>
      BY <1>6 DEF ReadFails
    <2>2. text' = text
      BY <2>1 DEF text
    <2> QED
      BY <1>0, <2>1, <2>2 DEF Whole!Next, Whole!Fail
  <1>7. CASE status = "open" /\ ~Decodes(data) /\ EndOfStream
    <2>1. /\ status' = "done" /\ data' = <<>> /\ UNCHANGED <<adapter, said>>
      BY <1>7 DEF EndOfStream
    <2>2. text = said /\ text' = said
      BY <1>7, <2>1, ArrivedIs, AllArrived, NothingLeft DEF text
    <2>3. filter'.shown = Whole!Final(said) /\ got' = Whole!Read(said).calls
      <3>1. CASE adapter = "xml"
        <4>1. /\ filter'.shown = Whole!Reading[said].prose \o Whole!Reading[said].rest
              /\ WhatOf(filter'.calls) = Whole!Reading[said].calls
          BY <2>1, <3>1 DEF Sound, DoneSound
        <4>2. calls' = filter'.calls
          <5>1. HeardIn(sent, data) = sent
            BY <1>7, ArrivedIs, AllArrived
          <5>2. Heard(acc, sent)
            BY <5>1 DEF Sound, FilterSound
          <5>3. calls' = assembled(acc) \o filter.calls /\ filter'.calls = filter.calls
            BY <1>7 DEF EndOfStream, FilterDone, Sound, TypeOK, FilterState
          <5> QED
            BY <3>1, <5>2, <5>3, NoneFromOutside
        <4>3. got' = WhatOf(calls')
          BY <2>1, <3>1 DEF WhatOf
        <4> QED
          BY <3>1, <4>1, <4>2, <4>3, ReadIs DEF Whole!Final
      <3>2. CASE adapter = "native"
        <4> DEFINE r == Whole!Read(said)
        <4>1. r = Reads(said, <<>>, FALSE, <<>>)
          BY <3>2, ReadIs
        <4> HIDE DEF r
        <4>2. r.prose \o r.rest = said /\ r.calls = <<>>
          BY <4>1, ArrivedIs, TextFacts DEF Reads
        <4>3. filter'.shown = text'
          BY <2>1, <3>2 DEF Sound, FilterSound, text
        <4>4. got' = <<>>
          BY <2>1, <3>2
        <4> QED
          BY <2>2, <4>2, <4>3, <4>4 DEF Whole!Final, r
      <3>3. adapter \in {"native", "xml"}
        BY StreamAssumption DEF Sound, TypeOK
      <3> QED
        BY <3>1, <3>2, <3>3
    <2> QED
      BY <1>0, <1>7, <2>1, <2>2, <2>3 DEF Whole!Next, Whole!Complete
  <1>8. CASE \E a \in Adapters : Begin(a) /\ (status # "open" \/ stage = "start")
    <2>1. /\ status # "open" \/ stage = "start"
          /\ status' = "open" /\ said' = <<>> /\ data' = <<>> /\ filter' = NewFilter
          /\ calls' = <<>>
      BY <1>8 DEF Begin
    <2>2. TextIn(<<>>, <<>>) = <<>> /\ NewFilter.shown = <<>>
      <3> DEFINE none == <<>>
      <3>1. none \in Text /\ ~Decodes(none) /\ sent \in [DOMAIN Plan -> Nat]
        BY TextFacts, NoEventIs DEF Sound, TypeOK
      <3> HIDE DEF none
      <3>2. TextIn(none, none) = none
        BY <3>1, AllArrived
      <3> QED
        BY <3>2 DEF none, NewFilter
    <2>3. text' = <<>> /\ filter'.shown = <<>> /\ got' = <<>>
      BY <2>1, <2>2 DEF text
    <2>4. status # "open" \/ text \o filter.shown = <<>>
      <3>1. CASE stage = "start"
        <4>1. text = <<>> /\ filter.shown = <<>>
          BY <2>2, <3>1 DEF StageSound, text
        <4> QED
          BY <4>1
      <3> QED
        BY <2>1, <3>1
    <2> QED
      BY <1>0, <2>1, <2>3, <2>4 DEF Whole!Next, Whole!Begin
  <1>9. CASE Receive
    <2>1. CASE Blank \/ Flush
      BY <1>3, <1>5, <1>4, <1>7, <2>1, EventEnds
    <2> QED
      BY <1>2, <1>3, <1>6, <1>9, <2>1 DEF Receive
  <1>10. CASE UNCHANGED allVars
    <2>1. UNCHANGED vars
      BY <1>10 DEF allVars
    <2> QED
      BY <1>3, <2>1
  <1> QED
    BY <1>3, <1>8, <1>9, <1>10, ProbeStep

\* Every reply, as it comes in and when it is done, is what a reading of the
\* whole text gives: the streaming client implements Reply (ReadsAsAWhole).
THEOREM RepliesReadAsAWhole == ProbeSpec => ReadsAsAWhole
  <1>1. ProbeInit => Whole!Init
    <2> SUFFICES ASSUME ProbeInit
                 PROVE  Whole!Init
      OBVIOUS
    <2>1. Delivered = <<>> /\ filter.shown = <<>>
      <3> DEFINE none == <<>>
      <3>1. none \in Text /\ ~Decodes(none) /\ sent \in [DOMAIN Plan -> Nat]
        BY InitSound, TextFacts, NoEventIs DEF Sound, TypeOK
      <3> HIDE DEF none
      <3>2. TextIn(none, none) = none
        BY <3>1, AllArrived
      <3> QED
        BY <3>2, DeliveredIs DEF none, NewFilter, ProbeInit, Init
    <2>2. status = "open"
      BY DEF ProbeInit, Init
    <2> QED
      BY <2>1, <2>2 DEF Whole!Init
  <1>2. Sound /\ StageSound /\ (Sound /\ StageSound)' /\ [ProbeNext]_allVars
           => [Whole!Next]_(Whole!vars)
    BY NextIsWhole
  <1> QED
    BY <1>1, <1>2, StreamInvariant, PTL DEF ProbeSpec, ReadsAsAWhole, Whole!Spec

-----------------------------------------------------------------------------
(* The probe.                                                              *)

\* A call's name is the first of what was called, its arguments the rest.
LEMMA NameFirst ==
    ASSUME NEW name, NEW args \in Text
    PROVE  Head(<<name>> \o args) = name /\ Tail(<<name>> \o args) = args
  <1> DEFINE S == Symbol \cup {name}
             one == <<name>>
  <1>1. args \in Seq(S) /\ one \in Seq(S) /\ Len(one) = 1 /\ one[1] = name
    BY DEF Text
  <1> HIDE DEF S, one
  <1>2. /\ one \o args \in Seq(S) /\ Len(one \o args) = 1 + Len(args)
        /\ (one \o args)[1] = name
        /\ \A k \in 1..Len(args) : (one \o args)[1 + k] = args[k]
    <2>1. /\ one \o args \in Seq(S) /\ Len(one \o args) = Len(one) + Len(args)
          /\ \A k \in 1..(Len(one) + Len(args)) :
                (one \o args)[k] = IF k <= Len(one) THEN one[k] ELSE args[k - Len(one)]
      BY <1>1, ConcatProperties
    <2>2. 1 \in 1..(Len(one) + Len(args))
      BY <1>1
    <2>3. ASSUME NEW k \in 1..Len(args) PROVE (one \o args)[1 + k] = args[k]
      <3>1. 1 + k \in 1..(Len(one) + Len(args)) /\ ~(1 + k <= Len(one)) /\ 1 + k - Len(one) = k
        BY <1>1
      <3> QED
        BY <2>1, <3>1
    <2> QED
      BY <1>1, <2>1, <2>2, <2>3
  <1> DEFINE whole == one \o args
  <1> HIDE DEF whole
  <1>3. Tail(whole) \in Seq(S) /\ Len(Tail(whole)) = Len(args)
        /\ \A k \in 1..Len(args) : Tail(whole)[k] = args[k]
    BY <1>1, <1>2 DEF whole
  <1>4. Tail(whole) = args
    BY <1>1, <1>3, SeqEqual
  <1> QED
    BY <1>2, <1>4 DEF whole, one

\* What the test goes by is what came on the wire.
LEMMA UsableIs ==
    ASSUME Sound, status = "done", adapter = "native"
    PROVE  LET i == Max(Named(sent)) IN
           Usable <=> /\ Named(sent) # {}
                      /\ Said(i, sent[i]).name = ProbeTool
                      /\ Said(i, sent[i]).args \in Json
  <1> DEFINE S == Named(sent)
             n == Cardinality(S)
             s == Ascending(S)
             i == Max(S)
  <1>1. calls = assembled(acc) /\ Heard(acc, sent)
    BY DoneIs
  <1>2. calls = [k \in 1..n |-> CallOf(s[k], sent[s[k]])] /\ Len(calls) = n
    BY <1>1, AssembledIs
  <1>3. IsFiniteSet(S) /\ S \subseteq Nat
    BY NamedIs
  <1>4. CASE S = {}
    <2>1. n = 0
      BY <1>4, FS_EmptySet
    <2>2. calls = <<>>
      <3> HIDE DEF n, s
      <3> QED
        BY <1>2, <2>1
    <2> QED
      BY <1>4, <2>2 DEF Usable
  <1>5. CASE S # {}
    <2>1. n \in 1..n /\ i \in S /\ s[n] = i
      <3> HIDE DEF S
      <3> QED
        BY <1>3, <1>5, AscendingLast
    <2> DEFINE said1 == Said(i, sent[i])
    <2>2. said1.args \in Text
      <3>1. i \in DOMAIN Plan /\ sent[i] > 0
        BY <2>1 DEF Named
      <3>2. sent[i] \in 1..Len(Plan[i])
        <4> DEFINE k == sent[i]
                   l == Len(Plan[i])
        <4>1. k \in Nat /\ k > 0 /\ k <= l /\ l \in Nat
          BY <1>1, <3>1, StreamAssumption DEF Heard
        <4> HIDE DEF k, l
        <4>2. k \in 1..l
          BY <4>1
        <4> QED
          BY <4>2 DEF k, l
      <3> HIDE DEF i
      <3> QED
        BY <3>1, <3>2, SaidIs
    <2>3. calls # <<>> /\ Last(calls).what = <<said1.name>> \o said1.args
      <3> HIDE DEF n, s, S, i
      <3>1. calls[n] = CallOf(i, sent[i]) /\ n # 0
        BY <1>2, <2>1
      <3>2. calls # <<>> /\ Last(calls) = calls[n]
        BY <1>2, <3>1 DEF Last
      <3> QED
        BY <3>1, <3>2 DEF CallOf, ToolCall
    <2> DEFINE name == said1.name
               args == said1.args
    <2> HIDE DEF said1
    <2>4. Head(<<name>> \o args) = name /\ Tail(<<name>> \o args) = args
      <3> HIDE DEF name, args
      <3>1. args \in Text
        BY <2>2 DEF args
      <3> QED
        BY <3>1, NameFirst
    <2> QED
      BY <1>5, <2>3, <2>4 DEF Usable, said1
  <1> QED
    BY <1>4, <1>5

\* The session is by the adapter that was settled on.
LEMMA SettledOn ==
    ASSUME NEW a, SettleOn(a, Listed)
    PROVE  stage' = "session" /\ caps'.adapter = a /\ adapter' = a
  BY DEF SettleOn, Begin, Listed, NoCaps

\* A server is believed to make native calls exactly if a complete reply of
\* its had the call that was asked for, in whole, as its last one; and the
\* session's replies come by the adapter that was decided on
\* (ProbeBelievesOnlyWholeCalls).
THEOREM BelievedOnlyWhole == ProbeSpec => ProbeBelievesOnlyWholeCalls
  <1> DEFINE last == Said(Max(Named(sent)), sent[Max(Named(sent))])
             proven == /\ status = "done" /\ Named(sent) # {}
                       /\ last.name = ProbeTool /\ last.args \in Json
             Settled == /\ stage' = "session"
                        /\ caps'.adapter = IF proven THEN "native" ELSE "xml"
                        /\ caps'.adapter = adapter'
  <1>1. Sound /\ StageSound /\ [ProbeNext]_allVars
           => [stage = "test" /\ stage' # "test" => Settled]_allVars
    <2> SUFFICES ASSUME Sound, StageSound, ProbeNext, stage = "test", stage' # "test"
                 PROVE  Settled
      BY DEF allVars, probeVars
    <2>1. TestEnds
      BY DEF ProbeNext, ModelsFail, Forced, Test, Replies, probeVars
    <2>2. adapter = "native" /\ caps = Listed
      BY DEF StageSound
    <2>3. status = "done" => (Usable <=> Named(sent) # {} /\ last.name = ProbeTool /\ last.args \in Json)
      BY <2>2, UsableIs
    <2> DEFINE a == IF status = "done" /\ Usable THEN "native" ELSE "xml"
    <2>4. a = IF proven THEN "native" ELSE "xml"
      BY <2>3
    <2>5. SettleOn(a, Listed)
      BY <2>1, <2>2 DEF TestEnds
    <2> HIDE DEF a, last
    <2>6. stage' = "session" /\ caps'.adapter = a /\ adapter' = a
      BY <2>5, SettledOn
    <2> QED
      BY <2>4, <2>6
  <1> QED
    BY <1>1, StreamInvariant, PTL DEF ProbeSpec, ProbeBelievesOnlyWholeCalls, Named
=============================================================================
