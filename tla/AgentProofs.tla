----------------------------- MODULE AgentProofs -----------------------------
(***************************************************************************)
(* Theorems about a session (Agent): its types, what its requests keep of  *)
(* the conversation and when they stop short of the threshold, that the    *)
(* server accepts each of them, and what the permission gate keeps, for    *)
(* any requests, rules, replies and bounds.                                *)
(***************************************************************************)
EXTENDS Agent, Lemmas

-----------------------------------------------------------------------------
(* What compaction does to a conversation of any length (Transcript).  The *)
(* counts and the search in it are recursive functions, so each fact about *)
(* them is shown for all positions by looking at the least, or the last,   *)
(* position where it would fail.                                           *)

\* f is the running sum of w over an interval.
RunningSum(a, b, w, f) == f = [j \in a..b |-> IF j = a THEN 0 ELSE f[j - 1] + w[j]]

\* A running sum is a natural number everywhere.
LEMMA SumExists ==
    ASSUME NEW a \in Nat, NEW b \in Nat, a <= b, NEW w \in [a..b -> Nat]
    PROVE  \E f \in [a..b -> Nat] : RunningSum(a, b, w, f)
  <1> DEFINE h == [j \in a..b |-> [v \in Nat |-> v + w[j]]]
  <1>1. h \in [a..b -> [Nat -> Nat]] /\ \A j \in a..b, v \in Nat : h[j][v] = v + w[j]
    <2>1. ASSUME NEW j \in a..b PROVE [v \in Nat |-> v + w[j]] \in [Nat -> Nat]
      <3>1. w[j] \in Nat
        OBVIOUS
      <3> QED
        BY <3>1
    <2> QED
      BY <2>1
  <1>2. 0 \in Nat
    OBVIOUS
  <1> HIDE DEF h
  <1>3. PICK f \in [a..b -> Nat] : Iterated(a, b, 0, h, f)
    BY <1>1, <1>2, IterationExists
  <1>4. ASSUME NEW j \in a..b
        PROVE  f[j] = IF j = a THEN 0 ELSE f[j - 1] + w[j]
    <2>1. f[j] = IF j = a THEN 0 ELSE h[j][f[j - 1]]
      BY <1>3 DEF Iterated
    <2>2. j # a => j - 1 \in a..b /\ f[j - 1] \in Nat
      OBVIOUS
    <2> QED
      BY <1>1, <2>1, <2>2
  <1>5. RunningSum(a, b, w, f)
    BY <1>4 DEF RunningSum
  <1> QED
    BY <1>5

\* The room a conversation takes is a number.
LEMMA CountType ==
    ASSUME NEW m \in Seq(Message)
    PROVE  countChars(m) \in Nat
  <1> DEFINE n == Len(m)
             w == [i \in 0..n |-> IF i = 0 THEN 0 ELSE m[i].size + Len(m[i].calls) + 1]
             Eq(f) == f = [i \in 0..n |->
                             IF i = 0 THEN 0
                             ELSE f[i - 1] + m[i].size + Len(m[i].calls) + 1]
             sum == CHOOSE f : Eq(f)
  <1>1. n \in Nat /\ \A i \in 1..n : m[i].size \in Nat /\ Len(m[i].calls) \in Nat
    <2>1. ASSUME NEW i \in 1..n
          PROVE  m[i].size \in Nat /\ m[i].calls \in Seq(Nat)
      <3>1. m[i] \in Message
        BY ElementOfSeq
      <3> QED
        BY <3>1 DEF Message
    <2> QED
      BY <2>1, LenProperties
  <1>2. w \in [0..n -> Nat]
    BY <1>1
  <1>3. PICK f \in [0..n -> Nat] : RunningSum(0, n, w, f)
    <2>1. 0 \in Nat /\ n \in Nat /\ 0 <= n
      BY <1>1
    <2> HIDE DEF w, n
    <2> QED
      BY <1>2, <2>1, SumExists
  <1>4. Eq(f)
    <2>1. ASSUME NEW i \in 0..n
          PROVE  f[i] = IF i = 0 THEN 0
                        ELSE f[i - 1] + m[i].size + Len(m[i].calls) + 1
      <3>1. f[i] = IF i = 0 THEN 0 ELSE f[i - 1] + w[i]
        <4> HIDE DEF w, n
        <4> QED
          BY <1>3 DEF RunningSum
      <3>2. CASE i = 0
        BY <3>1, <3>2
      <3>3. CASE i # 0
        <4>1. i - 1 \in 0..n /\ i \in 1..n
          BY <3>3
        <4>2. f[i - 1] \in Nat
          BY <4>1
        <4> QED
          BY <1>1, <3>1, <3>3, <4>1, <4>2
      <3> QED
        BY <3>2, <3>3
    <2> HIDE DEF n
    <2> QED
      BY <2>1
  <1>5. Eq(sum)
    <2> HIDE DEF Eq
    <2> QED
      BY <1>4
  <1>6. countChars(m) = sum[n]
    BY DEF countChars
  <1>7. sum \in [0..n -> Nat]
    <2> DEFINE U == {i \in 0..n : sum[i] \notin Nat}
    <2> HIDE DEF sum
    <2>1. ASSUME NEW i \in U, \A k \in U : i <= k PROVE FALSE
      <3>1. sum[i] = IF i = 0 THEN 0 ELSE sum[i - 1] + m[i].size + Len(m[i].calls) + 1
        BY <1>5
      <3>2. i # 0
        BY <3>1
      <3>3. i - 1 \in 0..n /\ i - 1 \notin U /\ i \in 1..n
        BY <2>1, <3>2
      <3>4. sum[i - 1] \in Nat /\ m[i].size \in Nat /\ Len(m[i].calls) \in Nat
        BY <1>1, <3>3
      <3>5. sum[i] = sum[i - 1] + m[i].size + Len(m[i].calls) + 1
        BY <3>1, <3>2
      <3>6. sum[i] \in Nat
        BY <3>4, <3>5
      <3> QED
        BY <3>6
    <2>2. U \subseteq Nat
      OBVIOUS
    <2>3. U = {}
      <3> HIDE DEF U
      <3> QED
        BY <2>1, <2>2, SmallestExists
    <2> QED
      BY <1>5, <2>3
  <1>8. n \in 0..n
    BY <1>1
  <1> HIDE DEF sum, n
  <1> QED
    BY <1>6, <1>7, <1>8

\* So is the estimate, and the threshold it is compared with.
LEMMA EstimateType ==
    ASSUME NEW r \in Nat, NEW m \in Seq(Message)
    PROVE  estimate(r, m) \in Nat /\ target \in Nat /\ usable \in Nat
  <1>1. ASSUME NEW x \in Nat, NEW y \in Nat PROVE x * y \in Nat
    OBVIOUS
  <1>2. estimate(r, m) \in Nat
    BY <1>1, CountType DEF estimate
  <1>3. usable \in Nat
    BY TranscriptAssumption DEF usable
  <1>4. target \in Nat
    BY <1>3 DEF target
  <1> QED
    BY <1>2, <1>3, <1>4

\* The body begins at the first message, or after the system prompt.
LEMMA BodyStartIs ==
    ASSUME NEW m \in Seq(Message)
    PROVE  /\ BodyStart(m) \in 1..2
           /\ BodyStart(m) <= Len(m) + 1
           /\ m # <<>> /\ m[1].role = "system" => BodyStart(m) = 2
  BY EmptySeq, LenProperties DEF BodyStart

\* A group holds at least one message and ends where the conversation does at
\* the latest; only tool results follow its first message, and what comes
\* after the results of a call is none.
LEMMA GroupLenIs ==
    ASSUME NEW m \in Seq(Message), NEW i \in 1..Len(m)
    PROVE  /\ groupLen(m, i) \in Nat \ {0}
           /\ i + groupLen(m, i) <= Len(m) + 1
           /\ \A j \in i + 1..i + groupLen(m, i) - 1 : m[j].role = "tool"
           /\ m[i].calls = <<>> => groupLen(m, i) = 1
           /\ m[i].calls # <<>> /\ i + groupLen(m, i) <= Len(m) =>
                m[i + groupLen(m, i)].role # "tool"
  <1> DEFINE L == Len(m)
             stop == {j \in i + 1..L + 1 : j = L + 1 \/ m[j].role # "tool"}
             e == CHOOSE j \in stop : \A k \in stop : j <= k
  <1>1. L \in Nat
    BY LenProperties
  <1>2. CASE m[i].calls = <<>>
    BY <1>1, <1>2 DEF groupLen
  <1>3. CASE m[i].calls # <<>>
    <2>1. groupLen(m, i) = e - i
      BY <1>3 DEF groupLen
    <2>2. L + 1 \in stop /\ stop \subseteq Nat
      BY <1>1
    <2>3. e \in stop /\ \A k \in stop : e <= k
      <3>1. \E j \in stop : \A k \in stop : j <= k
        <4> HIDE DEF stop
        <4> QED
          BY <2>2, SmallestExists
      <3> HIDE DEF stop
      <3> QED
        BY <3>1
    <2> HIDE DEF e
    <2>4. e \in i + 1..L + 1 /\ (e = L + 1 \/ m[e].role # "tool")
      BY <2>3
    <2>5. ASSUME NEW j \in i + 1..e - 1 PROVE m[j].role = "tool"
      <3>1. j \notin stop
        BY <1>1, <2>3, <2>4
      <3> QED
        BY <1>1, <2>4, <3>1
    <2> QED
      BY <1>1, <1>3, <2>1, <2>4, <2>5
  <1> QED
    BY <1>2, <1>3

\* Where nothing is left there is nothing more to drop; elsewhere a group may
\* go, and leaves MinKept messages at least.
LEMMA FloorIs ==
    ASSUME NEW m \in Seq(Message), NEW i \in 1..Len(m) + 1
    PROVE  /\ AtFloor(m, Len(m) + 1)
           /\ ~ AtFloor(m, i) =>
                /\ i \in 1..Len(m)
                /\ i + groupLen(m, i) \in i + 1..Len(m) + 1
                /\ Len(m) + 1 - (i + groupLen(m, i)) >= MinKept
  <1>1. Len(m) \in Nat /\ MinKept \in Nat
    BY LenProperties, TranscriptAssumption
  <1>2. AtFloor(m, Len(m) + 1)
    BY <1>1 DEF AtFloor
  <1>3. ASSUME ~ AtFloor(m, i) PROVE i \in 1..Len(m)
    BY <1>1, <1>3 DEF AtFloor
  <1>4. ASSUME ~ AtFloor(m, i)
        PROVE  /\ i + groupLen(m, i) \in i + 1..Len(m) + 1
               /\ Len(m) + 1 - (i + groupLen(m, i)) >= MinKept
    <2>1. groupLen(m, i) \in Nat \ {0} /\ i + groupLen(m, i) <= Len(m) + 1
      BY <1>3, <1>4, GroupLenIs
    <2>2. ~ ((Len(m) + 1 - i) - groupLen(m, i) < MinKept)
      BY <1>4, Zenon DEF AtFloor
    <2> QED
      BY <1>1, <1>3, <1>4, <2>1, <2>2
  <1> QED
    BY <1>2, <1>3, <1>4

\* Dropping keeps everything from some position on.  The position is reached
\* from the beginning of the body by whole groups (it is in every set C that
\* they do not lead out of); at that position the rest fits or no more may go;
\* and if anything went, MinKept messages are left.
LEMMA DropIs ==
    ASSUME NEW r, NEW m \in Seq(Message), NEW C,
           BodyStart(m) \in C,
           \A i \in C : i \in 1..Len(m) => i + groupLen(m, i) \in C
    PROVE  \E f \in BodyStart(m)..Len(m) + 1 :
             /\ f \in C
             /\ dropOldest(r, m) = KeepFrom(m, f)
             /\ AtFloor(m, f) \/ estimate(r, KeepFrom(m, f)) <= target
             /\ f # BodyStart(m) => Len(m) + 1 - f >= MinKept
             /\ AtFloor(m, BodyStart(m)) => f = BodyStart(m)
  <1> DEFINE b == BodyStart(m)
             L == Len(m)
             nx(i) == i + groupLen(m, i)
             fits(i) == estimate(r, KeepFrom(m, i)) <= target
             stop(i) == AtFloor(m, i)
             From(n, f) == f = [i \in n..L + 1 |->
                                  IF stop(i) THEN i
                                  ELSE IF fits(nx(i)) THEN nx(i) ELSE f[nx(i)]]
             from == CHOOSE f : From(b, f)
  <1>1. L \in Nat /\ b \in 1..L + 1 /\ MinKept \in Nat
    BY BodyStartIs, LenProperties, TranscriptAssumption
  <1>2. stop(L + 1)
    BY <1>1, FloorIs
  <1>3. ASSUME NEW i \in b..L + 1, ~ stop(i)
        PROVE  i \in 1..L /\ nx(i) \in i + 1..L + 1 /\ L + 1 - nx(i) >= MinKept
    BY <1>1, <1>3, FloorIs
  <1>4. dropOldest(r, m) = KeepFrom(m, from[b])
    BY DEF dropOldest
  <1>5. \A i \in C : i \in 1..L => nx(i) \in C
    OBVIOUS
  <1>6. \A i : stop(i) <=> AtFloor(m, i)
    OBVIOUS
  <1>7. \A i : fits(i) <=> estimate(r, KeepFrom(m, i)) <= target
    OBVIOUS
  <1>8. b \in C
    OBVIOUS
  <1> HIDE DEF b, L, nx, fits, stop
  <1>9. \E f : From(b, f)
    <2> DEFINE T == {n \in b..L + 1 : \E f : From(n, f)}
    <2>1. L + 1 \in T
      <3> DEFINE g == [i \in L + 1..L + 1 |-> i]
      <3>1. From(L + 1, g)
        <4>1. \A i \in L + 1..L + 1 : stop(i)
          BY <1>1, <1>2
        <4> QED
          BY <4>1
      <3>2. L + 1 \in b..L + 1
        BY <1>1
      <3> HIDE DEF From, g
      <3> QED
        BY <3>1, <3>2
    <2>2. PICK n \in T : \A k \in T : n <= k
      <3>1. T \subseteq Nat
        BY <1>1
      <3> HIDE DEF T
      <3> QED
        BY <2>1, <3>1, SmallestExists
    <2>3. ASSUME n # b PROVE FALSE
      <3>1. n - 1 \in b..L + 1 /\ n \in b..L + 1
        BY <1>1, <2>3
      <3>2. PICK f : From(n, f)
        OBVIOUS
      <3> DEFINE k == n - 1
                 g == [i \in k..L + 1 |->
                         IF i # k THEN f[i]
                         ELSE IF stop(k) THEN k
                         ELSE IF fits(nx(k)) THEN nx(k) ELSE f[nx(k)]]
      <3>3. ASSUME NEW i \in k..L + 1
            PROVE  g[i] = IF stop(i) THEN i
                          ELSE IF fits(nx(i)) THEN nx(i) ELSE g[nx(i)]
        <4>1. ASSUME ~ stop(i) PROVE nx(i) \in n..L + 1 /\ nx(i) # k /\ g[nx(i)] = f[nx(i)]
          <5>1. i \in b..L + 1
            BY <1>1, <3>1
          <5>2. nx(i) \in i + 1..L + 1
            BY <1>3, <4>1, <5>1
          <5>3. nx(i) \in n..L + 1 /\ nx(i) \in k..L + 1 /\ nx(i) # k
            BY <1>1, <3>1, <5>2
          <5> QED
            BY <5>3
        <4>2. CASE i = k
          BY <4>1, <4>2
        <4>3. CASE i # k
          <5>1. i \in n..L + 1
            BY <1>1, <3>1, <4>3
          <5>2. f[i] = IF stop(i) THEN i
                       ELSE IF fits(nx(i)) THEN nx(i) ELSE f[nx(i)]
            BY <3>2, <5>1
          <5>3. g[i] = f[i]
            BY <4>3
          <5> QED
            BY <4>1, <5>2, <5>3
        <4> QED
          BY <4>2, <4>3
      <3>4. From(k, g)
        <4>1. g = [i \in k..L + 1 |-> g[i]]
          OBVIOUS
        <4> HIDE DEF g, k
        <4> QED
          BY <3>3, <4>1
      <3>5. k \in T
        BY <3>1, <3>4
      <3> QED
        BY <1>1, <2>2, <3>1, <3>5
    <2> QED
      BY <2>2, <2>3
  <1>10. From(b, from)
    <2> HIDE DEF From
    <2> QED
      BY <1>9
  <1> HIDE DEF from
  <1> DEFINE Good(i) == /\ from[i] \in i..L + 1
                        /\ from[i] \in C
                        /\ stop(from[i]) \/ fits(from[i])
                        /\ from[i] # i => L + 1 - from[i] >= MinKept
                        /\ stop(i) => from[i] = i
  <1>11. ASSUME NEW i \in b..L + 1
         PROVE  from[i] = IF stop(i) THEN i
                          ELSE IF fits(nx(i)) THEN nx(i) ELSE from[nx(i)]
    BY <1>10
  <1>12. ASSUME NEW i \in C, i \in b..L + 1,
                \A j \in C : j \in i + 1..L + 1 => Good(j)
         PROVE  Good(i)
    <2>1. CASE stop(i)
      BY <1>1, <1>11, <1>12, <2>1
    <2>2. CASE ~ stop(i)
      <3>1. i \in 1..L /\ nx(i) \in i + 1..L + 1 /\ L + 1 - nx(i) >= MinKept
        BY <1>3, <1>12, <2>2
      <3>2. nx(i) \in C
        BY <1>5, <3>1
      <3>3. CASE fits(nx(i))
        BY <1>1, <1>11, <1>12, <2>2, <3>1, <3>2, <3>3
      <3>4. CASE ~ fits(nx(i))
        <4>1. from[i] = from[nx(i)]
          BY <1>11, <1>12, <2>2, <3>4
        <4>2. Good(nx(i))
          BY <1>12, <3>1, <3>2
        <4> QED
          BY <1>1, <1>12, <2>2, <3>1, <4>1, <4>2
      <3> QED
        BY <3>3, <3>4
    <2> QED
      BY <2>1, <2>2
  <1>13. Good(b)
    <2> DEFINE U == {k \in 0..L + 1 - b : L + 1 - k \in C /\ ~ Good(L + 1 - k)}
    <2> HIDE DEF Good
    <2>1. CASE U = {}
      <3>1. L + 1 - b \in 0..L + 1 - b /\ L + 1 - (L + 1 - b) = b
        BY <1>1
      <3>2. L + 1 - b \notin U
        <4> HIDE DEF U
        <4> QED
          BY <2>1
      <3> QED
        BY <1>8, <3>1, <3>2
    <2>2. CASE U # {}
      <3>1. U \subseteq Nat
        BY <1>1
      <3>2. PICK k \in U : \A l \in U : k <= l
        <4> HIDE DEF U
        <4> QED
          BY <2>2, <3>1, SmallestExists
      <3> DEFINE i == L + 1 - k
      <3>3. i \in C /\ i \in b..L + 1 /\ ~ Good(i)
        BY <1>1
      <3>4. ASSUME NEW j \in C, j \in i + 1..L + 1 PROVE Good(j)
        <4>1. L + 1 - j \in 0..L + 1 - b /\ L + 1 - (L + 1 - j) = j /\ ~ (k <= L + 1 - j)
          BY <1>1, <3>3, <3>4
        <4> QED
          BY <3>2, <4>1
      <3> QED
        BY <1>12, <3>3, <3>4
    <2> QED
      BY <2>1, <2>2
  <1>14. from[b] \in b..L + 1 /\ (from[b] # b => L + 1 - from[b] >= MinKept)
    BY <1>13
  <1>15. /\ stop(from[b]) => AtFloor(m, from[b])
         /\ fits(from[b]) => estimate(r, KeepFrom(m, from[b])) <= target
         /\ AtFloor(m, b) => stop(b)
    BY <1>6, <1>7
  <1>16. /\ from[b] \in C
         /\ AtFloor(m, from[b]) \/ estimate(r, KeepFrom(m, from[b])) <= target
         /\ AtFloor(m, b) => from[b] = b
    BY <1>13, <1>15
  <1> HIDE DEF Good
  <1> QED
    BY <1>4, <1>14, <1>16 DEF b, L

\* The tool results that come later are counted by their roles alone, so where
\* one conversation is the end of another the counts agree.
LEMMA LaterResultsShift ==
    ASSUME NEW m \in Seq(Message), NEW o \in Seq(Message), NEW gone \in Nat,
           Len(o) = Len(m) + gone,
           NEW i \in 1..Len(m),
           \A j \in i..Len(m) : m[j].role = o[j + gone].role
    PROVE  LaterResults(m, i) = LaterResults(o, i + gone)
  <1> DEFINE One(s, j) == IF s[j].role = "tool" THEN 1 ELSE 0
             Eq(s, k, f) == f = [j \in k..Len(s) |->
                                   IF j = k THEN 0 ELSE f[j - 1] + One(s, j)]
             cnt(s, k) == CHOOSE f : Eq(s, k, f)
  <1>1. Len(m) \in Nat /\ Len(o) \in Nat /\ i \in Nat /\ i + gone \in 1..Len(o)
    BY LenProperties
  <1>2. ASSUME NEW s \in Seq(Message), NEW k \in 1..Len(s)
        PROVE  /\ \A j \in k..Len(s) :
                    cnt(s, k)[j] = IF j = k THEN 0 ELSE cnt(s, k)[j - 1] + One(s, j)
               /\ LaterResults(s, k) = cnt(s, k)[Len(s)]
    <2> DEFINE w == [j \in k..Len(s) |-> One(s, j)]
    <2>1. Len(s) \in Nat /\ k \in Nat /\ k <= Len(s)
      BY LenProperties
    <2>2. w \in [k..Len(s) -> Nat]
      OBVIOUS
    <2>3. PICK f \in [k..Len(s) -> Nat] : RunningSum(k, Len(s), w, f)
      <3> HIDE DEF w
      <3> QED
        BY <2>1, <2>2, SumExists
    <2>4. Eq(s, k, f)
      <3>1. \A j \in k..Len(s) : w[j] = One(s, j)
        OBVIOUS
      <3> HIDE DEF w, One
      <3> QED
        BY <2>3, <3>1 DEF RunningSum
    <2>5. Eq(s, k, cnt(s, k))
      <3> HIDE DEF Eq
      <3> QED
        BY <2>4
    <2>6. LaterResults(s, k) = cnt(s, k)[Len(s)]
      BY DEF LaterResults
    <2> HIDE DEF cnt
    <2> QED
      BY <2>5, <2>6
  <1> HIDE DEF cnt
  <1> DEFINE g == cnt(m, i)
             h == cnt(o, i + gone)
             U == {j \in i..Len(m) : g[j] # h[j + gone]}
  <1>a. /\ \A j \in i..Len(m) : g[j] = IF j = i THEN 0 ELSE g[j - 1] + One(m, j)
        /\ LaterResults(m, i) = g[Len(m)]
    <2> HIDE DEF One
    <2> QED
      BY <1>2
  <1>b. /\ \A j \in i + gone..Len(o) :
              h[j] = IF j = i + gone THEN 0 ELSE h[j - 1] + One(o, j)
        /\ LaterResults(o, i + gone) = h[Len(o)]
    <2> HIDE DEF One
    <2> QED
      BY <1>1, <1>2
  <1> HIDE DEF g, h
  <1>3. ASSUME NEW j \in U, \A k \in U : j <= k PROVE FALSE
    <2>1. g[j] = IF j = i THEN 0 ELSE g[j - 1] + One(m, j)
      BY <1>a
    <2>2. j + gone \in i + gone..Len(o)
      BY <1>1
    <2>3. h[j + gone] = IF j + gone = i + gone THEN 0
                        ELSE h[j + gone - 1] + One(o, j + gone)
      <3> HIDE DEF One
      <3> QED
        BY <1>b, <2>2
    <2>4. j # i
      BY <1>1, <2>1, <2>3
    <2>5. j - 1 \in i..Len(m) /\ j - 1 \notin U
      <3>1. j \in i..Len(m)
        OBVIOUS
      <3>2. j - 1 \in i..Len(m) /\ ~ (j <= j - 1)
        BY <1>1, <2>4, <3>1
      <3> HIDE DEF U
      <3> QED
        BY <1>3, <3>2
    <2>6. g[j - 1] = h[(j - 1) + gone]
      BY <2>5
    <2>7. (j - 1) + gone = j + gone - 1 /\ ~ (j + gone = i + gone)
      BY <1>1, <2>4
    <2>8. One(m, j) = One(o, j + gone)
      OBVIOUS
    <2>9. g[j] = h[j + gone]
      <3> HIDE DEF One, g, h
      <3> QED
        BY <2>1, <2>3, <2>4, <2>6, <2>7, <2>8
    <2> QED
      BY <2>9
  <1>4. U \subseteq Nat
    BY <1>1
  <1>5. U = {}
    <2> HIDE DEF U
    <2> QED
      BY <1>3, <1>4, SmallestExists
  <1>6. Len(m) \in i..Len(m)
    BY <1>1
  <1>7. g[Len(m)] = h[Len(m) + gone]
    BY <1>5, <1>6
  <1> QED
    BY <1>a, <1>b, <1>7

\* Eliding changes nothing of a message but its size, and that only where the
\* text of an old tool result is longer than the marker that takes its place.
LEMMA ElideIs ==
    ASSUME NEW m \in Seq(Message)
    PROVE  LET out == elideOldToolResults(m) IN
           /\ out \in Seq(Message)
           /\ Len(out) = Len(m)
           /\ \A i \in 1..Len(m) :
                /\ out[i].role = m[i].role /\ out[i].id = m[i].id
                /\ out[i].calls = m[i].calls /\ out[i].by = m[i].by
                /\ \/ out[i] = m[i]
                   \/ /\ m[i].role = "tool" /\ LaterResults(m, i) >= KeepRecent
                      /\ out[i] = [m[i] EXCEPT !.size = MarkerSize]
                /\ m[i].role = "tool" /\ LaterResults(m, i) >= KeepRecent =>
                     ~ (out[i].size > MarkerSize)
  <1> DEFINE out == elideOldToolResults(m)
             old(i) == /\ m[i].role = "tool"
                       /\ LaterResults(m, i) >= KeepRecent
                       /\ m[i].size > MarkerSize
             new(i) == [m[i] EXCEPT !.size = MarkerSize]
  <1>1. out = [i \in 1..Len(m) |-> IF old(i) THEN new(i) ELSE m[i]]
    BY DEF elideOldToolResults
  <1>2. Len(m) \in Nat /\ MarkerSize \in Nat
    BY LenProperties, TranscriptAssumption
  <1>3. ASSUME NEW i \in 1..Len(m)
        PROVE  /\ m[i] \in Message /\ new(i) \in Message
               /\ new(i).role = m[i].role /\ new(i).id = m[i].id
               /\ new(i).calls = m[i].calls /\ new(i).by = m[i].by
               /\ new(i).size = MarkerSize
    <2>1. m[i] \in Message
      BY ElementOfSeq
    <2> QED
      BY <1>2, <2>1 DEF Message
  <1> HIDE DEF new, out
  <1>4. out \in [1..Len(m) -> Message]
    BY <1>1, <1>3
  <1>5. out \in Seq(Message) /\ Len(out) = Len(m)
    <2>1. out \in Seq(Message)
      BY <1>2, <1>4, IsASeq
    <2>2. DOMAIN out = 1..Len(m)
      BY <1>4
    <2> QED
      BY <1>2, <2>1, <2>2, LenProperties
  <1>6. ASSUME NEW i \in 1..Len(m)
        PROVE  /\ out[i].role = m[i].role /\ out[i].id = m[i].id
               /\ out[i].calls = m[i].calls /\ out[i].by = m[i].by
               /\ \/ out[i] = m[i]
                  \/ /\ m[i].role = "tool" /\ LaterResults(m, i) >= KeepRecent
                     /\ out[i] = new(i)
               /\ m[i].role = "tool" /\ LaterResults(m, i) >= KeepRecent =>
                    ~ (out[i].size > MarkerSize)
    <2>1. CASE old(i)
      <3>1. out[i] = new(i)
        BY <1>1, <2>1
      <3> QED
        BY <1>2, <1>3, <2>1, <3>1
    <2>2. CASE ~ old(i)
      <3>1. out[i] = m[i]
        BY <1>1, <2>2
      <3> QED
        BY <2>2, <3>1
    <2> QED
      BY <2>1, <2>2
  <1> QED
    BY <1>5, <1>6 DEF out, new

\* What is kept is the system prompt and the end of the body.
LEMMA KeepFromIs ==
    ASSUME NEW m \in Seq(Message), NEW f \in BodyStart(m)..Len(m) + 1
    PROVE  LET k == KeepFrom(m, f)
               b == BodyStart(m)
           IN /\ k \in Seq(Message)
              /\ Len(k) = Len(m) - (f - b)
              /\ \A i \in 1..b - 1 : k[i] = m[i]
              /\ \A i \in b..Len(k) : k[i] = m[i + (f - b)] /\ i + (f - b) \in 1..Len(m)
              /\ f = b => k = m
  <1> DEFINE b == BodyStart(m)
             L == Len(m)
             p == SubSeq(m, 1, b - 1)
             q == SubSeq(m, f, L)
             k == KeepFrom(m, f)
  <1>1. L \in Nat /\ b \in 1..2 /\ b <= L + 1 /\ f \in b..L + 1
    BY BodyStartIs, LenProperties
  <1>2. k = p \o q
    BY DEF KeepFrom
  <1> HIDE DEF b, L, k
  <1>3. /\ p \in Seq(Message) /\ Len(p) = b - 1
        /\ \A i \in 1..b - 1 : p[i] = m[i]
    <2>1. b - 1 \in 0..L /\ 1 \in 1..L + 1
      BY <1>1
    <2>2. \A i \in 1..b - 1 : i \in 1..L
      BY <1>1
    <2>3. \A i \in 1..b - 1 : m[i] \in Message
      BY <2>2, ElementOfSeq DEF L
    <2> QED
      BY <1>1, <2>1, <2>3, SubSeqProperties DEF L
  <1>4. /\ q \in Seq(Message) /\ Len(q) = L + 1 - f
        /\ \A i \in 1..L + 1 - f : q[i] = m[f + i - 1]
    <2>1. \A i \in f..L : m[i] \in Message
      BY <1>1, ElementOfSeq DEF L
    <2>2. f \in 1..L + 1 /\ L \in f - 1..L
      BY <1>1
    <2> QED
      BY <1>1, <2>1, <2>2, SubSeqProperties DEF L
  <1> HIDE DEF p, q
  <1>5. /\ k \in Seq(Message) /\ Len(k) = L - (f - b)
        /\ \A i \in 1..Len(k) : k[i] = IF i <= b - 1 THEN p[i] ELSE q[i - (b - 1)]
    <2>1. /\ k \in Seq(Message) /\ Len(k) = Len(p) + Len(q)
          /\ \A i \in 1..Len(p) + Len(q) :
               k[i] = IF i <= Len(p) THEN p[i] ELSE q[i - Len(p)]
      BY <1>2, <1>3, <1>4, ConcatProperties
    <2> QED
      BY <1>1, <1>3, <1>4, <2>1
  <1>6. ASSUME NEW i \in 1..b - 1 PROVE k[i] = m[i]
    BY <1>1, <1>3, <1>5
  <1>7. ASSUME NEW i \in b..Len(k) PROVE k[i] = m[i + (f - b)] /\ i + (f - b) \in 1..L
    <2>1. i - (b - 1) \in 1..L + 1 - f /\ f + (i - (b - 1)) - 1 = i + (f - b)
      BY <1>1, <1>5
    <2>2. i \in 1..Len(k) /\ ~ (i <= b - 1)
      BY <1>1
    <2>3. k[i] = q[i - (b - 1)]
      BY <1>5, <2>2
    <2>4. q[i - (b - 1)] = m[f + (i - (b - 1)) - 1]
      BY <1>4, <2>1
    <2> QED
      BY <1>1, <1>5, <2>1, <2>3, <2>4
  <1>8. ASSUME f = b PROVE k = m
    <2>1. Len(k) = L /\ \A i \in 1..L : i \in 1..b - 1 \/ i \in b..Len(k)
      BY <1>1, <1>5, <1>8
    <2>2. \A i \in 1..L : k[i] = m[i]
      BY <1>1, <1>6, <1>7, <1>8, <2>1
    <2> QED
      BY <1>5, <2>1, <2>2, SeqEqual DEF L
  <1> QED
    BY <1>5, <1>6, <1>7, <1>8 DEF b, k, L

\* A group is what it is wherever it stands: it depends on what follows alone.
LEMMA GroupLenShift ==
    ASSUME NEW m \in Seq(Message), NEW o \in Seq(Message), NEW gone \in Nat,
           Len(o) = Len(m) + gone,
           NEW i \in 1..Len(m),
           \A j \in i..Len(m) :
             m[j].role = o[j + gone].role /\ m[j].calls = o[j + gone].calls
    PROVE  groupLen(m, i) = groupLen(o, i + gone)
  <1> DEFINE p == groupLen(m, i)
             q == groupLen(o, i + gone)
  <1>1. Len(m) \in Nat /\ i \in Nat /\ i + gone \in 1..Len(o) /\ i \in i..Len(m)
    BY LenProperties
  <1>2. /\ p \in Nat \ {0} /\ i + p <= Len(m) + 1
        /\ \A j \in i + 1..i + p - 1 : m[j].role = "tool"
        /\ m[i].calls = <<>> => p = 1
        /\ m[i].calls # <<>> /\ i + p <= Len(m) => m[i + p].role # "tool"
    BY GroupLenIs
  <1>3. /\ q \in Nat \ {0} /\ i + gone + q <= Len(o) + 1
        /\ \A j \in i + gone + 1..i + gone + q - 1 : o[j].role = "tool"
        /\ o[i + gone].calls = <<>> => q = 1
        /\ o[i + gone].calls # <<>> /\ i + gone + q <= Len(o) =>
             o[i + gone + q].role # "tool"
    BY <1>1, GroupLenIs
  <1> HIDE DEF p, q
  <1>4. m[i].calls = o[i + gone].calls
    BY <1>1
  <1>5. ASSUME m[i].calls = <<>> PROVE p = q
    BY <1>2, <1>3, <1>4, <1>5
  <1>6. ASSUME m[i].calls # <<>> PROVE p = q
    <2>1. ASSUME p < q PROVE FALSE
      <3>1. i + p \in i..Len(m) /\ i + p + gone \in i + gone + 1..i + gone + q - 1
        BY <1>1, <1>2, <1>3, <2>1
      <3>2. o[i + p + gone].role = "tool" /\ m[i + p].role = o[i + p + gone].role
        BY <1>3, <3>1
      <3> QED
        BY <1>2, <1>6, <3>1, <3>2
    <2>2. ASSUME q < p PROVE FALSE
      <3>1. /\ i + q \in i..Len(m) /\ i + q \in i + 1..i + p - 1
            /\ i + gone + q <= Len(o) /\ i + gone + q = i + q + gone
        BY <1>1, <1>2, <1>3, <2>2
      <3>2. m[i + q].role = "tool" /\ m[i + q].role = o[i + q + gone].role
        BY <1>2, <3>1
      <3> QED
        BY <1>3, <1>4, <1>6, <3>1, <3>2
    <2> QED
      BY <1>2, <1>3, <2>1, <2>2
  <1> QED
    BY <1>5, <1>6 DEF p, q

\* Compaction is: shorten old results, then keep everything from a position
\* on, as DropIs says of it.
LEMMA CompactIs ==
    ASSUME NEW r, NEW m \in Seq(Message), NEW C,
           BodyStart(m) \in C,
           \A i \in C : i \in 1..Len(m) => i + groupLen(elideOldToolResults(m), i) \in C
    PROVE  LET out == elideOldToolResults(m)
               b == BodyStart(m)
           IN /\ BodyStart(out) = b
              /\ \E f \in b..Len(m) + 1 :
                   /\ f \in C
                   /\ compact(r, m) = KeepFrom(out, f)
                   /\ AtFloor(out, f) \/ estimate(r, compact(r, m)) <= target
                   /\ f # b => Len(m) + 1 - f >= MinKept
  <1> DEFINE out == elideOldToolResults(m)
             b == BodyStart(m)
             fits == estimate(r, out) <= target
  <1>1. /\ out \in Seq(Message) /\ Len(out) = Len(m)
        /\ \A i \in 1..Len(m) : out[i].role = m[i].role
    BY ElideIs
  <1>2. compact(r, m) = IF fits THEN out ELSE dropOldest(r, out)
    BY DEF compact
  <1> HIDE DEF out
  <1>3. BodyStart(out) = b
    <2>1. Len(m) \in Nat /\ (m = <<>> <=> out = <<>>) /\ (m # <<>> => 1 \in 1..Len(m))
      BY <1>1, EmptySeq, LenProperties
    <2> QED
      BY <1>1, <2>1 DEF BodyStart
  <1>4. b \in b..Len(m) + 1 /\ KeepFrom(out, b) = out
    <2>1. b \in Nat /\ b <= Len(m) + 1 /\ Len(m) \in Nat
      BY BodyStartIs, LenProperties
    <2> QED
      BY <1>1, <1>3, <2>1, KeepFromIs
  <1>5. CASE fits
    BY <1>2, <1>3, <1>4, <1>5 DEF out
  <1>6. CASE ~ fits
    <2>1. /\ BodyStart(out) \in C
          /\ \A i \in C : i \in 1..Len(out) => i + groupLen(out, i) \in C
      BY <1>1, <1>3 DEF out
    <2>2. PICK f \in BodyStart(out)..Len(out) + 1 :
            /\ f \in C
            /\ dropOldest(r, out) = KeepFrom(out, f)
            /\ AtFloor(out, f) \/ estimate(r, KeepFrom(out, f)) <= target
            /\ f # BodyStart(out) => Len(out) + 1 - f >= MinKept
      BY <1>1, <2>1, DropIs
    <2>3. compact(r, m) = KeepFrom(out, f)
      BY <1>2, <1>6, <2>2
    <2> HIDE DEF fits, b
    <2> QED
      BY <1>1, <1>3, <2>2, <2>3 DEF b, out
  <1> QED
    BY <1>5, <1>6

\* Compaction makes a conversation out of a conversation, and one that begins
\* with a system prompt keeps it.
LEMMA CompactType ==
    ASSUME NEW r, NEW m \in Seq(Message)
    PROVE  /\ compact(r, m) \in Seq(Message)
           /\ m # <<>> /\ m[1].role = "system" =>
                compact(r, m) # <<>> /\ compact(r, m)[1] = m[1]
  <1> DEFINE out == elideOldToolResults(m)
             b == BodyStart(m)
             C == Nat
             new == compact(r, m)
  <1>1. /\ out \in Seq(Message) /\ Len(out) = Len(m)
        /\ \A i \in 1..Len(m) : out[i] = m[i] \/ m[i].role = "tool"
    BY ElideIs
  <1>2. /\ BodyStart(m) \in Nat
        /\ \A i \in Nat : i \in 1..Len(m) => i + groupLen(out, i) \in Nat
    <2>1. ASSUME NEW i \in 1..Len(m) PROVE i + groupLen(out, i) \in Nat
      <3>1. groupLen(out, i) \in Nat
        <4> HIDE DEF out
        <4> QED
          BY <1>1, GroupLenIs
      <3> QED
        BY <3>1, LenProperties
    <2> QED
      BY <2>1, BodyStartIs
  <1>3. BodyStart(out) = b /\ \E f \in b..Len(m) + 1 : new = KeepFrom(out, f)
    BY <1>2, CompactIs
  <1> HIDE DEF out, new
  <1>4. PICK f \in BodyStart(out)..Len(out) + 1 : new = KeepFrom(out, f)
    BY <1>1, <1>3
  <1>5. /\ new \in Seq(Message)
        /\ Len(new) = Len(out) - (f - BodyStart(out))
        /\ \A i \in 1..BodyStart(out) - 1 : new[i] = out[i]
    BY <1>1, <1>4, KeepFromIs
  <1>6. ASSUME m # <<>>, m[1].role = "system" PROVE new # <<>> /\ new[1] = m[1]
    <2>1. b = 2 /\ Len(m) \in Nat \ {0}
      BY <1>6, BodyStartIs, EmptySeq
    <2>2. 1 \in 1..b - 1 /\ 1 \in 1..Len(m) /\ Len(new) >= 1
      BY <1>1, <1>3, <1>5, <2>1
    <2>3. new[1] = out[1] /\ out[1] = m[1]
      BY <1>1, <1>3, <1>5, <1>6, <2>2
    <2>4. new # <<>>
      BY <1>5, <2>2, EmptySeq
    <2> QED
      BY <2>3, <2>4
  <1> QED
    BY <1>5, <1>6 DEF new

\* What compaction leaves stands as it did: each message of the body of the
\* new conversation is one of the shortened old one, as many positions further
\* on as messages are gone.
LEMMA CompactShift ==
    ASSUME NEW r, NEW m \in Seq(Message)
    PROVE  LET out == elideOldToolResults(m)
               new == compact(r, m)
               b == BodyStart(m)
           IN \E gone \in 0..Len(m) :
                /\ Len(new) = Len(m) - gone
                /\ b + gone <= Len(m) + 1
                /\ \A i \in 1..b - 1 : new[i] = out[i]
                /\ \A i \in b..Len(new) :
                     i + gone \in 1..Len(m) /\ new[i] = out[i + gone]
                /\ gone > 0 => Len(new) - (b - 1) >= MinKept
                /\ AtFloor(out, b + gone) \/ estimate(r, new) <= target
                /\ gone = 0 => new = out
  <1> DEFINE out == elideOldToolResults(m)
             new == compact(r, m)
             b == BodyStart(m)
             C == Nat
  <1>1. /\ out \in Seq(Message) /\ Len(out) = Len(m) /\ Len(m) \in Nat
        /\ b \in 1..2 /\ b <= Len(m) + 1 /\ MinKept \in Nat
    BY ElideIs, BodyStartIs, LenProperties, TranscriptAssumption
  <1>2. ASSUME NEW i \in C, i \in 1..Len(m) PROVE i + groupLen(out, i) \in C
    <2> HIDE DEF out
    <2>1. groupLen(out, i) \in Nat
      BY <1>1, <1>2, GroupLenIs
    <2> QED
      BY <2>1
  <1>3. b \in C
    BY <1>1
  <1>4. /\ BodyStart(out) = b
        /\ \E f \in b..Len(m) + 1 :
             /\ new = KeepFrom(out, f)
             /\ AtFloor(out, f) \/ estimate(r, new) <= target
             /\ f # b => Len(m) + 1 - f >= MinKept
    <2> HIDE DEF C
    <2> QED
      BY <1>2, <1>3, CompactIs
  <1> HIDE DEF out, new, b
  <1>5. PICK f \in b..Len(m) + 1 :
             /\ new = KeepFrom(out, f)
             /\ AtFloor(out, f) \/ estimate(r, new) <= target
             /\ f # b => Len(m) + 1 - f >= MinKept
    BY <1>4
  <1>6. /\ Len(new) = Len(out) - (f - b)
        /\ \A i \in 1..b - 1 : new[i] = out[i]
        /\ \A i \in b..Len(new) : new[i] = out[i + (f - b)] /\ i + (f - b) \in 1..Len(out)
        /\ f = b => new = out
    BY <1>1, <1>4, <1>5, KeepFromIs
  <1> DEFINE gone == f - b
  <1>7. gone \in 0..Len(m) /\ b + gone = f /\ (gone = 0 => f = b) /\ (gone > 0 => f # b)
    BY <1>1, <1>5
  <1>8. gone > 0 => Len(new) - (b - 1) >= MinKept
    BY <1>1, <1>5, <1>6
  <1>9. b + gone <= Len(m) + 1
    BY <1>1, <1>5
  <1> HIDE DEF gone
  <1>10. /\ Len(new) = Len(m) - gone
         /\ \A i \in b..Len(new) : i + gone \in 1..Len(m) /\ new[i] = out[i + gone]
         /\ AtFloor(out, b + gone) \/ estimate(r, new) <= target
         /\ gone = 0 => new = out
    BY <1>1, <1>5, <1>6, <1>7 DEF gone
  <1> QED
    BY <1>6, <1>7, <1>8, <1>9, <1>10 DEF out, new, b

\* Where a conversation begins with its system prompt, what compaction leaves
\* is over the threshold only if nothing more may be dropped from it.
LEMMA CompactReachesFloor ==
    ASSUME NEW r, NEW m \in Seq(Message), m # <<>>, m[1].role = "system"
    PROVE  LET new == compact(r, m)
           IN AtFloor(new, BodyStart(new)) \/ estimate(r, new) <= target
  <1> DEFINE out == elideOldToolResults(m)
             new == compact(r, m)
  <1>1. new \in Seq(Message) /\ new # <<>> /\ new[1].role = "system"
    BY CompactType
  <1>2. /\ BodyStart(m) = 2 /\ BodyStart(new) = 2
    <2> HIDE DEF new
    <2> QED
      BY <1>1, BodyStartIs
  <1>3. PICK gone \in 0..Len(m) :
                /\ Len(new) = Len(m) - gone
                /\ \A i \in 2..Len(new) :
                     i + gone \in 1..Len(m) /\ new[i] = out[i + gone]
                /\ 2 + gone <= Len(m) + 1
                /\ AtFloor(out, 2 + gone) \/ estimate(r, new) <= target
    BY <1>2, CompactShift
  <1>4. out \in Seq(Message) /\ Len(out) = Len(m) /\ Len(m) \in Nat /\ MinKept \in Nat
    BY ElideIs, LenProperties, TranscriptAssumption
  <1> HIDE DEF out, new
  <1>5. ASSUME AtFloor(out, 2 + gone) PROVE AtFloor(new, 2)
    <2>1. CASE Len(new) < 2
      BY <1>1, <1>3, <1>4, <2>1, LenProperties DEF AtFloor
    <2>2. CASE Len(new) >= 2
      <3>1. 2 \in 1..Len(new)
        BY <1>1, <2>2, LenProperties
      <3>2. groupLen(new, 2) = groupLen(out, 2 + gone)
        <4>1. gone \in Nat /\ Len(out) = Len(new) + gone
          BY <1>3, <1>4
        <4>2. \A j \in 2..Len(new) : /\ new[j].role = out[j + gone].role
                                      /\ new[j].calls = out[j + gone].calls
          BY <1>3
        <4> QED
          BY <1>1, <1>4, <3>1, <4>1, <4>2, GroupLenShift
      <3>3. Len(new) + 1 - 2 = Len(out) + 1 - (2 + gone)
        BY <1>3, <1>4
      <3> QED
        BY <1>5, <3>2, <3>3 DEF AtFloor
    <2> QED
      BY <1>1, <2>1, <2>2, LenProperties
  <1> QED
    BY <1>2, <1>3, <1>5 DEF new

\* A conversation whose old results are short already stays as it is.
LEMMA ElideSettled ==
    ASSUME NEW m \in Seq(Message),
           \A i \in 1..Len(m) :
             m[i].role = "tool" /\ LaterResults(m, i) >= KeepRecent =>
               ~ (m[i].size > MarkerSize)
    PROVE  elideOldToolResults(m) = m
  <1> DEFINE old(i) == /\ m[i].role = "tool"
                       /\ LaterResults(m, i) >= KeepRecent
                       /\ m[i].size > MarkerSize
             new(i) == [m[i] EXCEPT !.size = MarkerSize]
  <1>1. elideOldToolResults(m) = [i \in 1..Len(m) |-> IF old(i) THEN new(i) ELSE m[i]]
    BY DEF elideOldToolResults
  <1>2. \A i \in 1..Len(m) : ~ old(i)
    OBVIOUS
  <1>3. m = [i \in 1..Len(m) |-> m[i]]
    BY LenProperties
  <1> HIDE DEF old, new
  <1>4. elideOldToolResults(m) = [i \in 1..Len(m) |-> m[i]]
    BY <1>1, <1>2
  <1> QED
    BY <1>3, <1>4

\* Compacting what has just been compacted changes nothing more.
LEMMA CompactSettled ==
    ASSUME NEW r \in Nat, NEW m \in Seq(Message), m # <<>>, m[1].role = "system"
    PROVE  compact(r, compact(r, m)) = compact(r, m)
  <1> DEFINE out == elideOldToolResults(m)
             new == compact(r, m)
  <1>1. new \in Seq(Message) /\ new # <<>> /\ new[1] = m[1] /\ new[1].role = "system"
    BY CompactType
  <1>2. BodyStart(m) = 2 /\ BodyStart(new) = 2
    <2> HIDE DEF new
    <2> QED
      BY <1>1, BodyStartIs
  <1>3. PICK gone \in 0..Len(m) :
                /\ Len(new) = Len(m) - gone
                /\ \A i \in 2..Len(new) :
                     i + gone \in 1..Len(m) /\ new[i] = out[i + gone]
    BY <1>2, CompactShift
  <1>4. AtFloor(new, 2) \/ estimate(r, new) <= target
    BY <1>2, CompactReachesFloor
  <1>5. /\ out \in Seq(Message) /\ Len(out) = Len(m) /\ Len(m) \in Nat
        /\ \A i \in 1..Len(m) :
             /\ out[i].role = m[i].role
             /\ m[i].role = "tool" /\ LaterResults(m, i) >= KeepRecent =>
                  ~ (out[i].size > MarkerSize)
    BY ElideIs, LenProperties
  <1> HIDE DEF out, new
  <1>6. elideOldToolResults(new) = new
    <2>1. ASSUME NEW i \in 1..Len(new),
                 new[i].role = "tool", LaterResults(new, i) >= KeepRecent
          PROVE  ~ (new[i].size > MarkerSize)
      <3>1. i \in 2..Len(new)
        BY <1>1, <2>1, LenProperties
      <3>2. /\ gone \in Nat /\ Len(m) = Len(new) + gone
            /\ \A j \in i..Len(new) : new[j].role = m[j + gone].role
        BY <1>3, <1>5, <3>1
      <3>3. LaterResults(new, i) = LaterResults(m, i + gone)
        BY <1>1, <2>1, <3>2, LaterResultsShift
      <3>4. i + gone \in 1..Len(m) /\ new[i] = out[i + gone]
        BY <1>3, <3>1
      <3> QED
        BY <1>5, <2>1, <3>3, <3>4
    <2> QED
      BY <1>1, <2>1, ElideSettled
  <1>7. compact(r, new) = IF estimate(r, new) <= target THEN new ELSE dropOldest(r, new)
    BY <1>6 DEF compact
  <1>8. ASSUME AtFloor(new, 2) PROVE dropOldest(r, new) = new
    <2> DEFINE C == Nat
    <2>1. BodyStart(new) \in C
      BY <1>2
    <2>2. ASSUME NEW i \in C, i \in 1..Len(new) PROVE i + groupLen(new, i) \in C
      <3>1. groupLen(new, i) \in Nat
        BY <1>1, <2>2, GroupLenIs
      <3> QED
        BY <3>1
    <2> HIDE DEF C
    <2>3. dropOldest(r, new) = KeepFrom(new, BodyStart(new))
      BY <1>1, <1>2, <1>8, <2>1, <2>2, DropIs
    <2>4. BodyStart(new) \in BodyStart(new)..Len(new) + 1
      BY <1>1, BodyStartIs, LenProperties
    <2> QED
      BY <1>1, <2>3, <2>4, KeepFromIs
  <1> QED
    BY <1>4, <1>7, <1>8 DEF new

-----------------------------------------------------------------------------
(* Calls and their results.                                                *)

\* In s, the result at j answers a call of the message at i, and nothing but
\* results stands between them.
Answers(s, j, i) ==
    /\ i \in 1..j - 1
    /\ \E k \in 1..Len(s[i].calls) : s[i].calls[k] = s[j].id
    /\ \A h \in i + 1..j : s[h].role = "tool"

\* No result stands without its call; only an assistant makes calls.
Backed(s) ==
    /\ \A i \in 1..Len(s) : s[i].role # "assistant" => s[i].calls = <<>>
    /\ \A j \in 1..Len(s) : s[j].role = "tool" => \E i \in 1..Len(s) : Answers(s, j, i)

\* No call stands without its result.
AllAnswered(s) ==
    \A i \in 1..Len(s) : \A k \in 1..Len(s[i].calls) :
      i + k <= Len(s) /\ s[i + k].role = "tool" /\ s[i + k].id = s[i].calls[k]

\* s and t differ in nothing that calls and results depend on.
Alike(s, t) ==
    /\ Len(s) = Len(t)
    /\ \A i \in 1..Len(s) :
         s[i].role = t[i].role /\ s[i].id = t[i].id /\ s[i].calls = t[i].calls

\* Both together are what the server demands of a conversation.
LEMMA PairedIs ==
    ASSUME NEW s, Backed(s)
    PROVE  /\ orphanedToolResults(s) = {}
           /\ AllAnswered(s) => Paired(s)
  <1> DEFINE seen == UNION {{s[i].calls[k] : k \in 1..Len(s[i].calls)} : i \in 1..Len(s)}
  <1>1. ASSUME NEW j \in 1..Len(s), s[j].role = "tool" PROVE s[j].id \in seen
    <2>1. PICK i \in 1..Len(s) : Answers(s, j, i)
      BY <1>1 DEF Backed
    <2>2. PICK k \in 1..Len(s[i].calls) : s[i].calls[k] = s[j].id
      BY <2>1 DEF Answers
    <2> QED
      BY <2>2
  <1>2. orphanedToolResults(s) = {}
    <2>1. orphanedToolResults(s) = {i \in 1..Len(s) : s[i].role = "tool" /\ s[i].id \notin seen}
      BY DEF orphanedToolResults
    <2> HIDE DEF seen
    <2> QED
      BY <1>1, <2>1
  <1>3. AllAnswered(s) => Paired(s)
    BY <1>2 DEF AllAnswered, Paired
  <1> QED
    BY <1>2, <1>3

\* Sizes and authors do not matter.
LEMMA BackedAlike ==
    ASSUME NEW s \in Seq(Message), NEW t \in Seq(Message), Alike(s, t)
    PROVE  /\ Backed(s) => Backed(t)
           /\ AllAnswered(s) => AllAnswered(t)
  <1>1. /\ Len(s) = Len(t) /\ Len(s) \in Nat
        /\ \A i \in 1..Len(s) :
             s[i].role = t[i].role /\ s[i].id = t[i].id /\ s[i].calls = t[i].calls
    BY LenProperties DEF Alike
  <1>2. ASSUME NEW j \in 1..Len(s), NEW i, Answers(s, j, i) PROVE Answers(t, j, i)
    <2>1. /\ i \in 1..j - 1 /\ i \in 1..Len(s)
          /\ \A h \in i + 1..j : h \in 1..Len(s)
      BY <1>1, <1>2 DEF Answers
    <2> QED
      BY <1>1, <1>2, <2>1 DEF Answers
  <1>3. ASSUME Backed(s) PROVE Backed(t)
    <2>1. ASSUME NEW j \in 1..Len(t), t[j].role = "tool"
          PROVE  \E i \in 1..Len(t) : Answers(t, j, i)
      BY <1>1, <1>2, <1>3, <2>1 DEF Backed
    <2> QED
      BY <1>1, <1>3, <2>1 DEF Backed
  <1>4. ASSUME AllAnswered(s) PROVE AllAnswered(t)
    <2> SUFFICES ASSUME NEW i \in 1..Len(t), NEW k \in 1..Len(t[i].calls)
                 PROVE  i + k <= Len(t) /\ t[i + k].role = "tool" /\ t[i + k].id = t[i].calls[k]
      BY DEF AllAnswered
    <2>1. i \in 1..Len(s) /\ k \in 1..Len(s[i].calls)
      BY <1>1
    <2>2. i + k <= Len(s) /\ s[i + k].role = "tool" /\ s[i + k].id = s[i].calls[k]
      BY <1>4, <2>1 DEF AllAnswered
    <2>3. Len(s[i].calls) \in Nat
      <3>1. s[i] \in Message
        BY <2>1, ElementOfSeq
      <3> QED
        BY <3>1, LenProperties DEF Message
    <2>4. i + k \in 1..Len(s)
      BY <1>1, <2>1, <2>2, <2>3
    <2> QED
      BY <1>1, <2>1, <2>2, <2>4
  <1> QED
    BY <1>3, <1>4

\* What a conversation begins with is backed if the whole is.
LEMMA BackedPrefix ==
    ASSUME NEW s \in Seq(Message), NEW t \in Seq(Message), Len(s) <= Len(t),
           \A i \in 1..Len(s) : s[i] = t[i],
           Backed(t)
    PROVE  Backed(s)
  <1>1. Len(s) \in Nat /\ Len(t) \in Nat /\ \A i \in 1..Len(s) : i \in 1..Len(t)
    BY LenProperties
  <1>2. ASSUME NEW j \in 1..Len(s), NEW i, Answers(t, j, i)
        PROVE  i \in 1..Len(s) /\ Answers(s, j, i)
    <2>1. /\ i \in 1..j - 1 /\ i \in 1..Len(s)
          /\ \A h \in i + 1..j : h \in 1..Len(s)
      BY <1>1, <1>2 DEF Answers
    <2> QED
      BY <1>2, <2>1 DEF Answers
  <1>3. ASSUME NEW j \in 1..Len(s), s[j].role = "tool"
        PROVE  \E i \in 1..Len(s) : Answers(s, j, i)
    <2>1. PICK i \in 1..Len(t) : Answers(t, j, i)
      BY <1>1, <1>3 DEF Backed
    <2> QED
      BY <1>2, <2>1
  <1> QED
    BY <1>1, <1>3 DEF Backed

\* t is s with a message more, which has the id and makes the calls that m
\* does, and the results of those calls, if there are any.
Grown(s, t, m) ==
    /\ Len(t) = Len(s) + 1 + Len(m.calls)
    /\ \A i \in 1..Len(s) : t[i] = s[i]
    /\ t[Len(s) + 1] = m
    /\ m.role # "tool"
    /\ m.role # "assistant" => m.calls = <<>>
    /\ \A k \in 1..Len(m.calls) :
         LET r == t[Len(s) + 1 + k] IN
         r.role = "tool" /\ r.id = m.calls[k] /\ r.calls = <<>>

\* Then t is in order if s is.
LEMMA BackedGrows ==
    ASSUME NEW s \in Seq(Message), NEW t \in Seq(Message), NEW m \in Message,
           Grown(s, t, m)
    PROVE  /\ Backed(s) => Backed(t)
           /\ AllAnswered(s) => AllAnswered(t)
  <1>a. Len(m.calls) \in Nat
    BY LenProperties DEF Message
  <1>0. PICK n \in Nat, c \in Nat, l \in Nat :
           n = Len(s) + 1 /\ c = Len(m.calls) /\ l = Len(s)
    BY <1>a, LenProperties
  <1>b. Len(t) = n + c /\ n = l + 1 /\ Len(s) = l
    BY <1>0 DEF Grown
  <1>c. /\ \A i \in 1..Len(s) : t[i] = s[i]
        /\ t[n].role # "tool" /\ Len(t[n].calls) = c
        /\ t[n].role # "assistant" => t[n].calls = <<>>
        /\ \A k \in 1..c : /\ t[n + k].role = "tool" /\ t[n + k].id = t[n].calls[k]
                            /\ t[n + k].calls = <<>>
    BY <1>0 DEF Grown
  <1>1. /\ n \in 1..Len(t)
        /\ \A i \in 1..Len(s) : i \in 1..Len(t)
    BY <1>b
  <1>2. ASSUME NEW i \in 1..Len(t)
        PROVE  i \in 1..Len(s) \/ i = n \/ \E k \in 1..c : i = n + k
    <2>1. CASE i > n
      <3>1. i - n \in 1..c /\ i = n + (i - n)
        BY <1>b, <2>1
      <3> QED
        BY <3>1
    <2>2. CASE ~ (i > n)
      BY <1>b, <2>2
    <2> QED
      BY <2>1, <2>2
  <1>3. ASSUME Backed(s) PROVE Backed(t)
    <2>1. ASSUME NEW i \in 1..Len(t), t[i].role # "assistant" PROVE t[i].calls = <<>>
      <3>1. CASE i \in 1..Len(s)
        BY <1>3, <1>c, <2>1, <3>1 DEF Backed
      <3>2. CASE i = n
        BY <1>c, <2>1, <3>2
      <3>3. CASE \E k \in 1..c : i = n + k
        BY <1>c, <3>3
      <3> QED
        BY <1>2, <3>1, <3>2, <3>3
    <2>2. ASSUME NEW j \in 1..Len(t), t[j].role = "tool"
          PROVE  \E i \in 1..Len(t) : Answers(t, j, i)
      <3>1. CASE j \in 1..Len(s)
        <4>1. PICK i \in 1..Len(s) : Answers(s, j, i)
          BY <1>3, <1>c, <2>2, <3>1 DEF Backed
        <4>2. \A h \in i + 1..j : h \in 1..Len(s)
          BY <1>b, <3>1, <4>1 DEF Answers
        <4>3. Answers(t, j, i)
          BY <1>c, <3>1, <4>1, <4>2 DEF Answers
        <4> QED
          BY <1>1, <4>1, <4>3
      <3>2. CASE \E k \in 1..c : j = n + k
        <4>1. PICK k \in 1..c : j = n + k
          BY <3>2
        <4>2. n \in 1..j - 1 /\ t[n].calls[k] = t[j].id
          BY <1>b, <1>c, <4>1
        <4>3. \A h \in n + 1..j : h \in 1..Len(t) /\ h \notin 1..Len(s) /\ h # n
          BY <1>b, <4>1
        <4>4. ASSUME NEW h \in n + 1..j PROVE t[h].role = "tool"
          <5>1. PICK g \in 1..c : h = n + g
            BY <1>2, <4>3
          <5> QED
            BY <1>c, <5>1
        <4>5. Answers(t, j, n)
          BY <1>c, <4>1, <4>2, <4>4 DEF Answers
        <4> QED
          BY <1>1, <4>5
      <3> QED
        BY <1>2, <1>c, <2>2, <3>1, <3>2
    <2> QED
      BY <2>1, <2>2 DEF Backed
  <1>4. ASSUME AllAnswered(s) PROVE AllAnswered(t)
    <2> SUFFICES ASSUME NEW i \in 1..Len(t), NEW k \in 1..Len(t[i].calls)
                 PROVE  i + k <= Len(t) /\ t[i + k].role = "tool" /\ t[i + k].id = t[i].calls[k]
      BY DEF AllAnswered
    <2>1. CASE i \in 1..Len(s)
      <3>1. k \in 1..Len(s[i].calls)
        BY <1>c, <2>1
      <3>2. i + k <= Len(s) /\ s[i + k].role = "tool" /\ s[i + k].id = s[i].calls[k]
        BY <1>4, <2>1, <3>1 DEF AllAnswered
      <3>3. Len(s[i].calls) \in Nat
        <4>1. s[i] \in Message
          BY <2>1, ElementOfSeq
        <4> QED
          BY <4>1, LenProperties DEF Message
      <3>4. i + k \in 1..Len(s) /\ i + k <= Len(t)
        BY <1>b, <2>1, <3>1, <3>2, <3>3
      <3>5. t[i] = s[i] /\ t[i + k] = s[i + k]
        BY <1>c, <2>1, <3>4
      <3> QED
        BY <3>2, <3>4, <3>5
    <2>2. CASE i = n
      <3>1. k \in 1..c
        BY <1>c, <2>2
      <3> QED
        BY <1>b, <1>c, <2>2, <3>1
    <2>3. CASE \E h \in 1..c : i = n + h
      <3>1. t[i].calls = <<>>
        BY <1>c, <2>3
      <3>2. Len(t[i].calls) = 0
        BY <3>1
      <3> QED
        BY <3>2
    <2> QED
      BY <1>2, <2>1, <2>2, <2>3
  <1> QED
    BY <1>3, <1>4

\* The one case of it where no calls are made.
LEMMA BackedAppend ==
    ASSUME NEW s \in Seq(Message), NEW m \in Message, m.role # "tool", m.calls = <<>>
    PROVE  /\ Append(s, m) \in Seq(Message)
           /\ Backed(s) => Backed(Append(s, m))
           /\ AllAnswered(s) => AllAnswered(Append(s, m))
  <1> DEFINE t == Append(s, m)
  <1>1. /\ t \in Seq(Message) /\ Len(t) = Len(s) + 1 /\ t[Len(s) + 1] = m /\ Len(s) \in Nat
        /\ \A i \in 1..Len(s) : t[i] = s[i]
    BY AppendProperties, LenProperties
  <1> HIDE DEF t
  <1>2. Len(m.calls) = 0
    OBVIOUS
  <1>3. Grown(s, t, m)
    BY <1>1, <1>2 DEF Grown
  <1>4. (Backed(s) => Backed(t)) /\ (AllAnswered(s) => AllAnswered(t))
    BY <1>1, <1>3, BackedGrows
  <1> QED
    BY <1>1, <1>4 DEF t

\* What is put before a conversation by a resume changes nothing.
LEMMA BackedAfterPrompt ==
    ASSUME NEW s \in Seq(Message), NEW m \in Message, m.role = "system", m.calls = <<>>,
           Backed(s)
    PROVE  Backed(<<m>> \o s)
  <1> DEFINE t == <<m>> \o s
  <1>1. /\ t \in Seq(Message) /\ Len(s) \in Nat /\ Len(t) = Len(s) + 1 /\ t[1] = m
        /\ \A i \in 1..Len(s) : t[i + 1] = s[i]
    <2> DEFINE p == <<m>>
    <2>1. p \in Seq(Message) /\ Len(p) = 1 /\ p[1] = m
      OBVIOUS
    <2> HIDE DEF p
    <2>2. /\ p \o s \in Seq(Message) /\ Len(p \o s) = Len(p) + Len(s) /\ Len(s) \in Nat
          /\ \A i \in 1..Len(p) + Len(s) :
               (p \o s)[i] = IF i <= Len(p) THEN p[i] ELSE s[i - Len(p)]
      BY <2>1, ConcatProperties, LenProperties
    <2>3. ASSUME NEW i \in 1..Len(s) PROVE (p \o s)[i + 1] = s[i]
      <3>1. i + 1 \in 1..Len(p) + Len(s) /\ ~ (i + 1 <= Len(p)) /\ (i + 1) - Len(p) = i
        BY <2>1, <2>2
      <3> QED
        BY <2>2, <3>1
    <2>4. (p \o s)[1] = m
      BY <2>1, <2>2
    <2> QED
      BY <2>2, <2>3, <2>4 DEF p
  <1> HIDE DEF t
  <1>2. ASSUME NEW i \in 1..Len(t), i # 1 PROVE \E h \in 1..Len(s) : i = h + 1
    <2>1. i - 1 \in 1..Len(s) /\ i = (i - 1) + 1
      BY <1>1, <1>2
    <2> QED
      BY <2>1
  <1>3. ASSUME NEW i \in 1..Len(t), t[i].role # "assistant" PROVE t[i].calls = <<>>
    <2>1. CASE i = 1
      BY <1>1, <2>1
    <2>2. CASE i # 1
      <3>1. PICK h \in 1..Len(s) : i = h + 1
        BY <1>2, <2>2
      <3> QED
        BY <1>1, <1>3, <3>1 DEF Backed
    <2> QED
      BY <2>1, <2>2
  <1>4. ASSUME NEW j \in 1..Len(t), t[j].role = "tool"
        PROVE  \E i \in 1..Len(t) : Answers(t, j, i)
    <2>1. j # 1
      BY <1>1, <1>4
    <2>2. PICK q \in 1..Len(s) : j = q + 1
      BY <1>2, <2>1
    <2>3. s[q].role = "tool" /\ t[j] = s[q]
      BY <1>1, <1>4, <2>2
    <2>4. PICK i \in 1..Len(s) : Answers(s, q, i)
      BY <2>3 DEF Backed
    <2>5. i + 1 \in 1..Len(t) /\ i + 1 \in 1..j - 1 /\ t[i + 1] = s[i]
      BY <1>1, <2>2, <2>4 DEF Answers
    <2>6. ASSUME NEW h \in i + 1 + 1..j PROVE t[h].role = "tool"
      <3>1. PICK g \in 1..Len(s) : h = g + 1
        <4>1. h - 1 \in 1..Len(s) /\ h = (h - 1) + 1
          BY <1>1, <2>2
        <4> QED
          BY <4>1
      <3>2. g \in i + 1..q
        BY <2>2, <3>1
      <3> QED
        BY <1>1, <2>4, <3>1, <3>2 DEF Answers
    <2>7. Answers(t, j, i + 1)
      BY <2>3, <2>4, <2>5, <2>6 DEF Answers
    <2> QED
      BY <2>5, <2>7
  <1>5. Backed(t)
    BY <1>3, <1>4 DEF Backed
  <1> QED
    BY <1>5 DEF t

\* t is s without the gone messages that follow the first one; the cut is not
\* before a result.
CutOut(s, t, gone) ==
    /\ Len(t) = Len(s) - gone /\ 1 <= Len(t)
    /\ t[1] = s[1]
    /\ \A i \in 2..Len(t) : t[i] = s[i + gone]
    /\ gone + 2 <= Len(s) => s[gone + 2].role # "tool"

\* Then t is in order if s is, and s begins with a system prompt.
LEMMA BackedCut ==
    ASSUME NEW s \in Seq(Message), NEW t \in Seq(Message), NEW gone \in Nat,
           CutOut(s, t, gone), s[1].role = "system", Backed(s)
    PROVE  /\ Backed(t)
           /\ AllAnswered(s) => AllAnswered(t)
  <1>1. PICK l \in Nat : l = Len(t)
    BY LenProperties
  <1>2. /\ Len(s) = l + gone /\ 1 <= l /\ Len(t) = l
    BY <1>1, LenProperties DEF CutOut
  <1>3. t[1] = s[1] /\ \A i \in 2..l : t[i] = s[i + gone]
    BY <1>2 DEF CutOut
  <1>4. gone + 2 <= l + gone => s[gone + 2].role # "tool"
    BY <1>2 DEF CutOut
  <1>5. t[1].role = "system" /\ t[1].calls = <<>>
    BY <1>2, <1>3 DEF Backed
  <1>6. ASSUME NEW i \in 1..l, t[i].role # "assistant" PROVE t[i].calls = <<>>
    <2>1. CASE i = 1
      BY <1>5, <2>1
    <2>2. CASE i # 1
      <3>1. i \in 2..l /\ i + gone \in 1..Len(s)
        BY <1>2, <2>2
      <3> QED
        BY <1>3, <1>6, <3>1 DEF Backed
    <2> QED
      BY <2>1, <2>2
  <1>7. ASSUME NEW j \in 1..l, t[j].role = "tool"
        PROVE  \E i \in 1..l : Answers(t, j, i)
    <2>1. j \in 2..l /\ j + gone \in 1..Len(s)
      BY <1>2, <1>5, <1>7
    <2>2. t[j] = s[j + gone]
      BY <1>3, <2>1
    <2>3. PICK h \in 1..Len(s) : Answers(s, j + gone, h)
      BY <1>7, <2>1, <2>2 DEF Backed
    <2>4. h \in Nat /\ h < j + gone
      BY <1>2, <2>1, <2>3 DEF Answers
    <2>5. ~ (h < gone + 2)
      <3> SUFFICES ASSUME h < gone + 2 PROVE FALSE
        OBVIOUS
      <3>1. gone + 2 \in h + 1..j + gone /\ gone + 2 <= l + gone
        BY <2>1, <2>4
      <3> QED
        BY <1>4, <2>3, <3>1 DEF Answers
    <2>6. PICK i \in 2..l : h = i + gone
      <3>1. h - gone \in 2..l /\ h = (h - gone) + gone
        BY <2>1, <2>4, <2>5
      <3> QED
        BY <3>1
    <2>7. i \in 1..j - 1 /\ t[i] = s[h]
      BY <1>3, <2>1, <2>4, <2>6
    <2>8. ASSUME NEW g \in i + 1..j PROVE t[g].role = "tool"
      <3>1. g \in 2..l /\ g + gone \in h + 1..j + gone
        BY <2>1, <2>6
      <3> QED
        BY <1>3, <2>3, <3>1 DEF Answers
    <2>9. Answers(t, j, i)
      BY <2>2, <2>3, <2>7, <2>8 DEF Answers
    <2> QED
      BY <2>6, <2>9
  <1>8. Backed(t)
    BY <1>2, <1>6, <1>7 DEF Backed
  <1>9. ASSUME AllAnswered(s) PROVE AllAnswered(t)
    <2> SUFFICES ASSUME NEW i \in 1..l, NEW k \in 1..Len(t[i].calls)
                 PROVE  i + k <= l /\ t[i + k].role = "tool" /\ t[i + k].id = t[i].calls[k]
      BY <1>2 DEF AllAnswered
    <2>1. CASE i = 1
      <3>1. Len(t[i].calls) = 0
        BY <1>5, <2>1
      <3> QED
        BY <3>1
    <2>2. CASE i # 1
      <3>1. i \in 2..l /\ i + gone \in 1..Len(s)
        BY <1>2, <2>2
      <3>2. t[i] = s[i + gone]
        BY <1>3, <3>1
      <3>3. k \in Nat /\ 1 <= k
        <4>1. t[i] \in Message
          BY <1>2, ElementOfSeq
        <4>2. Len(t[i].calls) \in Nat
          BY <4>1, LenProperties DEF Message
        <4> QED
          BY <4>2
      <3>4. /\ (i + gone) + k <= Len(s)
            /\ s[(i + gone) + k].role = "tool" /\ s[(i + gone) + k].id = t[i].calls[k]
        <4>1. PICK h \in 1..Len(s) : h = i + gone
          BY <3>1
        <4>2. k \in 1..Len(s[h].calls) /\ s[h].calls = t[i].calls
          BY <3>2, <4>1
        <4>3. h + k <= Len(s) /\ s[h + k].role = "tool" /\ s[h + k].id = s[h].calls[k]
          BY <1>9, <4>2 DEF AllAnswered
        <4> QED
          BY <4>1, <4>2, <4>3
      <3>5. i + k \in 2..l /\ (i + k) + gone = (i + gone) + k
        BY <1>2, <3>1, <3>3, <3>4
      <3>6. t[i + k] = s[(i + k) + gone]
        BY <1>3, <3>5
      <3> QED
        BY <3>4, <3>5, <3>6
    <2> QED
      BY <2>1, <2>2
  <1> QED
    BY <1>8, <1>9

\* Compaction takes a call and its results together.
LEMMA BackedCompacted ==
    ASSUME NEW r, NEW m \in Seq(Message), m # <<>>, m[1].role = "system", Backed(m)
    PROVE  /\ Backed(compact(r, m))
           /\ AllAnswered(m) => AllAnswered(compact(r, m))
  <1> DEFINE out == elideOldToolResults(m)
             C == {i \in Nat : 2 <= i /\ (i \in 1..Len(m) => out[i].role # "tool")}
  <1>1. /\ out \in Seq(Message) /\ Len(out) = Len(m) /\ Len(m) \in Nat
        /\ \A i \in 1..Len(m) : /\ out[i].role = m[i].role /\ out[i].id = m[i].id
                                /\ out[i].calls = m[i].calls
    BY ElideIs, LenProperties
  <1>2. BodyStart(m) = 2 /\ 1 <= Len(m)
    BY <1>1, BodyStartIs
  <1> HIDE DEF out
  <1>3. Alike(m, out)
    BY <1>1 DEF Alike
  <1>4. Backed(out) /\ (AllAnswered(m) => AllAnswered(out)) /\ out[1].role = "system"
    BY <1>1, <1>2, <1>3, BackedAlike
  <1>5. ASSUME NEW i \in 1..Len(m), out[i].calls = <<>>, out[i].role # "tool",
               i + 1 \in 1..Len(m)
        PROVE  out[i + 1].role # "tool"
    <2> SUFFICES ASSUME out[i + 1].role = "tool" PROVE FALSE
      OBVIOUS
    <2>1. PICK h \in 1..Len(out) : Answers(out, i + 1, h)
      BY <1>1, <1>4, <1>5 DEF Backed
    <2>2. h \in 1..(i + 1) - 1
      BY <2>1 DEF Answers
    <2>3. CASE h = i
      <3>1. Len(out[h].calls) = 0
        BY <1>5, <2>3
      <3> QED
        BY <2>1, <3>1 DEF Answers
    <2>4. CASE h # i
      <3>1. i \in h + 1..i + 1
        BY <2>2, <2>4
      <3> QED
        BY <1>5, <2>1, <3>1 DEF Answers
    <2> QED
      BY <2>3, <2>4
  <1>6. BodyStart(m) \in C
    <2>1. ASSUME 2 \in 1..Len(m) PROVE out[2].role # "tool"
      <3>1. 1 \in 1..Len(m) /\ 1 + 1 \in 1..Len(m) /\ 1 + 1 = 2
        BY <1>2, <2>1
      <3>2. out[1].calls = <<>> /\ out[1].role # "tool"
        BY <1>1, <1>4, <3>1 DEF Backed
      <3> QED
        BY <1>5, <3>1, <3>2
    <2> QED
      BY <1>2, <2>1
  <1>7. ASSUME NEW i \in C, i \in 1..Len(m) PROVE i + groupLen(out, i) \in C
    <2>1. PICK g \in Nat : g = groupLen(out, i) /\ g # 0
      BY <1>1, <1>7, GroupLenIs
    <2>2. /\ out[i].calls = <<>> => g = 1
          /\ out[i].calls # <<>> /\ i + g <= Len(out) => out[i + g].role # "tool"
      <3>1. i \in 1..Len(out)
        BY <1>1, <1>7
      <3>2. /\ out[i].calls = <<>> => groupLen(out, i) = 1
            /\ out[i].calls # <<>> /\ i + groupLen(out, i) <= Len(out) =>
                 out[i + groupLen(out, i)].role # "tool"
        BY <1>1, <3>1, GroupLenIs
      <3> QED
        BY <2>1, <3>2
    <2>3. ASSUME i + g \in 1..Len(m) PROVE out[i + g].role # "tool"
      BY <1>1, <1>5, <1>7, <2>2, <2>3
    <2>4. i + g \in C
      BY <2>1, <2>3
    <2> QED
      BY <2>1, <2>4
  <1> HIDE DEF C
  <1>8. PICK f \in 2..Len(m) + 1 : f \in C /\ compact(r, m) = KeepFrom(out, f) /\ BodyStart(out) = 2
    BY <1>2, <1>6, <1>7, CompactIs DEF out
  <1>9. PICK gone \in Nat : f = gone + 2
    <2>1. f - 2 \in Nat /\ f = (f - 2) + 2
      BY <1>1
    <2> QED
      BY <2>1
  <1> DEFINE new == KeepFrom(out, f)
  <1>10. /\ new \in Seq(Message) /\ Len(new) = Len(out) - (f - 2)
         /\ \A i \in 1..1 : new[i] = out[i]
         /\ \A i \in 2..Len(new) : new[i] = out[i + (f - 2)]
    <2>1. f \in BodyStart(out)..Len(out) + 1 /\ 2 - 1 = 1
      BY <1>1, <1>8
    <2>2. LET k == KeepFrom(out, f)
              b == BodyStart(out)
          IN /\ k \in Seq(Message)
             /\ Len(k) = Len(out) - (f - b)
             /\ \A i \in 1..b - 1 : k[i] = out[i]
             /\ \A i \in b..Len(k) : k[i] = out[i + (f - b)] /\ i + (f - b) \in 1..Len(out)
      BY <1>1, <2>1, KeepFromIs
    <2> QED
      BY <1>8, <2>1, <2>2
  <1> HIDE DEF new
  <1>11. CutOut(out, new, gone)
    <2>1. f - 2 = gone /\ Len(new) = Len(out) - gone /\ 1 <= Len(new)
      <3>1. f - 2 = gone /\ gone + 1 <= Len(m)
        BY <1>1, <1>2, <1>9
      <3>2. Len(new) = Len(m) - gone
        BY <1>1, <1>10, <3>1
      <3> QED
        BY <1>1, <3>1, <3>2
    <2>2. gone + 2 <= Len(out) => out[gone + 2].role # "tool"
      BY <1>1, <1>8, <1>9 DEF C
    <2>3. new[1] = out[1] /\ \A i \in 2..Len(new) : new[i] = out[i + gone]
      BY <1>10, <2>1
    <2> QED
      BY <2>1, <2>2, <2>3 DEF CutOut
  <1>12. Backed(new) /\ (AllAnswered(out) => AllAnswered(new))
    BY <1>1, <1>4, <1>10, <1>11, BackedCut
  <1> QED
    BY <1>4, <1>8, <1>12 DEF new

-----------------------------------------------------------------------------
(* A session: its types.                                                   *)

\* The records of the history.
Kind == {"mode", "permission", "answer", "run", "tool_call", "subagent"}
Word == Mode \cup {"allow", "deny", "ask", "yes", "always", "no", "quit", "start", "done"}
Record == [ev : Kind, by : Depth, req : Request \cup {NoTool}, what : Word]

\* Where a call is waited for there is one, of a tool its agent has; while a
\* sub-agent runs the session's agent is at a delegation, and the sub-agent's
\* tools are the ones that were asked for.
AtWork ==
    /\ phase \in {"confirm", "approved", "tool"} =>
         pending[depth] # <<>> /\ Current.req \in Registry(depth)
    /\ depth = 1 =>
         /\ pending[0] # <<>>
         /\ Head(pending[0]).req \in Task
         /\ readOnly <=> Head(pending[0]).req \in ReadOnlyTask
    /\ phase \in {"off", "prompt"} => depth = 0

\* An agent that runs, or waits for its sub-agent, has its system prompt.
Prompted ==
    \A d \in Depth : d <= depth => msgs[d] # <<>> /\ msgs[d][1].role = "system"

TypeInv == TypeOK /\ trace \in Seq(Record) /\ AtWork /\ Prompted

\* The messages the steps make.
LEMMA MessagesAre ==
    ASSUME NEW d \in Depth, NEW i \in Nat, NEW n \in Nat, NEW ids \in Seq(Nat)
    PROVE  /\ System(d) \in Message /\ System(d).role = "system"
           /\ User(i, d) \in Message
           /\ Assistant(ids, n, d) \in Message
           /\ ToolResult(i, n, d) \in Message
  BY EmptySeq DEF System, User, Assistant, ToolResult, Message, Depth

\* A message more, or several: the first one stays, and so does the type.
LEMMA Longer ==
    ASSUME NEW s \in Seq(Message), NEW m \in Message
    PROVE  /\ Append(s, m) \in Seq(Message) /\ Append(s, m) # <<>>
           /\ s # <<>> => Append(s, m)[1] = s[1]
           /\ s \o <<m>> = Append(s, m)
  <1>1. s # <<>> => 1 \in 1..Len(s)
    BY EmptySeq
  <1> QED
    BY <1>1, AppendProperties, AppendIsConcat

\* The call an agent is at, and the ones after it.
LEMMA CallsAre ==
    ASSUME NEW p \in Seq(Call), p # <<>>
    PROVE  /\ Head(p) \in Call /\ Head(p).id \in Nat
           /\ Head(p).req \in Request \cup {NoTool}
           /\ Tail(p) \in Seq(Call)
  <1>1. Head(p) \in Call /\ Tail(p) \in Seq(Call)
    BY HeadTailProperties
  <1> QED
    BY <1>1 DEF Call

\* What is recorded of an event.
LEMMA EventsAre ==
    ASSUME NEW ev \in Kind, NEW d \in Depth, NEW r \in Request \cup {NoTool},
           NEW what \in Word
    PROVE  /\ Event(ev, d, r, what) \in Record
           /\ Event(ev, d, r, what).ev = ev /\ Event(ev, d, r, what).by = d
           /\ Event(ev, d, r, what).req = r /\ Event(ev, d, r, what).what = what
  BY DEF Event, Record

\* The session begins well typed.
LEMMA TypeInit == Init => TypeInv
  <1> SUFFICES ASSUME Init PROVE TypeInv
    OBVIOUS
  <1>1. System(0) \in Message /\ System(0).role = "system"
    BY DEF System, Message
  <1>2. <<System(0)>> \in Seq(Message) /\ <<System(0)>> # <<>>
        /\ <<System(0)>>[1].role = "system"
    BY <1>1
  <1>3. NoMsgs \in [Depth -> Seq(Message)]
    BY <1>2 DEF NoMsgs, Depth
  <1>4. /\ NoTurns \in [Depth -> Nat] /\ NoCalls \in [Depth -> Seq(Call)]
        /\ InitRates \in [Depth -> Rates]
    BY AgentAssumption DEF NoTurns, NoCalls, InitRates, Depth
  <1>5. TypeOK
    <2>1. InitMode \in Mode
      BY AgentAssumption
    <2>2. depth \in Depth /\ phase \in Phase
      BY DEF Init, Depth, Phase
    <2>3. file \in Seq(Message)
      BY EmptySeq DEF Init
    <2> QED
      BY <1>3, <1>4, <2>1, <2>2, <2>3 DEF TypeOK, Init
  <1>6. trace \in Seq(Record)
    <2>1. InitMode \in Mode /\ 0 \in Depth
      BY AgentAssumption DEF Depth
    <2>2. Event("mode", 0, NoTool, InitMode) \in Record
      BY <2>1, EventsAre DEF Kind, Word
    <2> QED
      BY <2>2 DEF Init
  <1>7. AtWork
    BY DEF AtWork, Init
  <1>8. Prompted
    BY <1>2 DEF Prompted, Init, NoMsgs, Depth
  <1> QED
    BY <1>5, <1>6, <1>7, <1>8 DEF TypeInv

\* A process that goes leaves nothing that is not well typed.
LEMMA OffTypes == TypeInv /\ Off => TypeInv'
  <1> SUFFICES ASSUME TypeInv, Off PROVE TypeInv'
    OBVIOUS
  <1>1. System(0) \in Message /\ System(0).role = "system"
    BY DEF System, Message
  <1>2. <<System(0)>> \in Seq(Message) /\ <<System(0)>> # <<>>
        /\ <<System(0)>>[1].role = "system"
    BY <1>1
  <1>3. NoMsgs \in [Depth -> Seq(Message)]
    BY <1>2 DEF NoMsgs, Depth
  <1>4. /\ NoTurns \in [Depth -> Nat] /\ NoCalls \in [Depth -> Seq(Call)]
        /\ InitRates \in [Depth -> Rates]
    BY AgentAssumption DEF NoTurns, NoCalls, InitRates, Depth
  <1>5. TypeOK'
    <2>1. InitMode \in Mode
      BY AgentAssumption
    <2>2. depth' \in Depth /\ phase' \in Phase
      BY DEF Off, Depth, Phase
    <2> QED
      BY <1>3, <1>4, <2>1, <2>2 DEF TypeInv, TypeOK, Off
  <1>6. AtWork'
    BY DEF AtWork, Off
  <1>7. Prompted'
    BY <1>2 DEF Prompted, Off, NoMsgs, Depth
  <1> QED
    BY <1>5, <1>6, <1>7 DEF TypeInv, Off

\* A result for the call the agent is at keeps the types.
LEMMA ResultTypes ==
    ASSUME TypeInv, NEW n \in Nat, pending[depth] # <<>>,
           appendToolResult(depth, n), UNCHANGED <<gateVars, runVars>>,
           trace' \in Seq(Record)
    PROVE  TypeInv'
  <1> DEFINE c == Head(pending[depth])
             m == ToolResult(c.id, n, depth)
  <1>1. /\ depth \in Depth /\ pending[depth] \in Seq(Call) /\ msgs[depth] \in Seq(Message)
        /\ msgs[depth] # <<>>
    BY DEF TypeInv, TypeOK, Prompted, Depth
  <1>2. m \in Message
    <2>1. c.id \in Nat
      BY <1>1, CallsAre
    <2> QED
      BY <1>1, <2>1, EmptySeq, MessagesAre
  <1>3. /\ msgs' = [msgs EXCEPT ![depth] = Append(msgs[depth], m)]
        /\ file' = Append(file, m)
        /\ pending' = [pending EXCEPT ![depth] = Tail(pending[depth])]
        /\ phase' = "dispatch"
        /\ UNCHANGED <<turn, rate, nextId, inputs, starts>>
    BY DEF appendToolResult
  <1> HIDE DEF c, m
  <1>4. /\ Append(msgs[depth], m) \in Seq(Message) /\ Append(msgs[depth], m) # <<>>
        /\ Append(msgs[depth], m)[1] = msgs[depth][1]
        /\ Append(file, m) \in Seq(Message)
        /\ Tail(pending[depth]) \in Seq(Call)
    BY <1>1, <1>2, CallsAre, Longer DEF TypeInv, TypeOK
  <1>5. TypeOK'
    BY <1>1, <1>3, <1>4 DEF TypeInv, TypeOK, gateVars, runVars, Phase
  <1>6. Prompted'
    BY <1>1, <1>3, <1>4 DEF TypeInv, TypeOK, runVars, Prompted
  <1>7. AtWork'
    BY <1>1, <1>3 DEF TypeInv, TypeOK, runVars, AtWork, Depth
  <1> QED
    BY <1>5, <1>6, <1>7 DEF TypeInv

\* So does the end of a run, whatever it says and logs.
LEMMA FinishTypes ==
    ASSUME TypeInv, phase \in {"stream", "waiting", "confirm"},
           NEW said \in Seq(Message), NEW evs \in Seq(Record), NEW r \in Rates,
           FinishRun(said, evs, r), UNCHANGED gateVars
    PROVE  TypeInv'
  <1>0. file \o said \in Seq(Message) /\ trace \o evs \in Seq(Record)
    BY ConcatProperties DEF TypeInv, TypeOK
  <1>1. CASE depth = 0
    <2>1. /\ phase' = "prompt"
          /\ msgs' = [msgs EXCEPT ![0] = msgs[0] \o said]
          /\ file' = file \o said
          /\ pending' = [pending EXCEPT ![0] = <<>>]
          /\ turn' = [turn EXCEPT ![0] = 0]
          /\ rate' = [rate EXCEPT ![0] = r]
          /\ trace' = trace \o evs
          /\ UNCHANGED <<nextId, depth, readOnly, interrupted, inputs, starts>>
      BY <1>1 DEF FinishRun
    <2>2. /\ 0 \in Depth /\ msgs[0] \in Seq(Message) /\ msgs[0] # <<>>
          /\ <<>> \in Seq(Call)
      BY <1>1 DEF TypeInv, TypeOK, Prompted, Depth
    <2>3. /\ msgs[0] \o said \in Seq(Message) /\ msgs[0] \o said # <<>>
          /\ (msgs[0] \o said)[1] = msgs[0][1]
      <3>1. Len(msgs[0]) \in Nat \ {0} /\ Len(said) \in Nat
        BY <2>2, EmptySeq, LenProperties
      <3>2. /\ msgs[0] \o said \in Seq(Message)
            /\ Len(msgs[0] \o said) = Len(msgs[0]) + Len(said)
            /\ (msgs[0] \o said)[1] = msgs[0][1]
        BY <2>2, <3>1, ConcatProperties
      <3> QED
        BY <3>1, <3>2, EmptySeq
    <2>4. TypeOK'
      BY <1>0, <2>1, <2>2, <2>3 DEF TypeInv, TypeOK, gateVars, Phase
    <2>5. Prompted'
      BY <1>1, <2>1, <2>2, <2>3 DEF TypeInv, TypeOK, Prompted, Depth
    <2>6. AtWork'
      BY <1>1, <2>1 DEF AtWork
    <2> QED
      BY <1>0, <2>1, <2>4, <2>5, <2>6 DEF TypeInv
  <1>2. CASE depth = 1
    <2>1. PICK n \in ResultSizes :
            LET c == Head(pending[0])
                m == ToolResult(c.id, n, 0)
            IN /\ msgs' = [msgs EXCEPT ![0] = Append(@, m), ![1] = <<>>]
               /\ file' = Append(file \o said, m)
               /\ pending' = [pending EXCEPT ![0] = Tail(@), ![1] = <<>>]
               /\ trace' = Append(trace \o evs, Event("tool_call", 0, c.req, "done"))
      <3>1. ~ (depth = 0)
        BY <1>2
      <3> QED
        BY <3>1, Zenon DEF FinishRun
    <2>2. /\ phase' = "dispatch" /\ depth' = 0
          /\ turn' = [turn EXCEPT ![1] = 0]
          /\ rate' = [rate EXCEPT ![1] = InitRate]
          /\ readOnly' = FALSE
          /\ UNCHANGED <<nextId, interrupted, inputs, starts>>
      BY <1>2 DEF FinishRun
    <2> DEFINE c == Head(pending[0])
               m == ToolResult(c.id, n, 0)
               e == Event("tool_call", 0, c.req, "done")
    <2>3. /\ 0 \in Depth /\ 1 \in Depth /\ msgs[0] \in Seq(Message) /\ msgs[0] # <<>>
          /\ <<>> \in Seq(Call) /\ <<>> \in Seq(Message)
          /\ pending[0] \in Seq(Call) /\ pending[0] # <<>>
      BY <1>2 DEF TypeInv, TypeOK, AtWork, Prompted, Depth
    <2>4. c.id \in Nat /\ c.req \in Request \cup {NoTool} /\ Tail(pending[0]) \in Seq(Call)
      BY <2>3, CallsAre
    <2>5. m \in Message
      BY <2>3, <2>4, AgentAssumption, EmptySeq, MessagesAre
    <2>6. e \in Record
      <3>1. "tool_call" \in Kind /\ "done" \in Word
        BY DEF Kind, Word
      <3> HIDE DEF c
      <3> QED
        BY <2>3, <2>4, <3>1, EventsAre
    <2> HIDE DEF c, m, e
    <2>7. /\ Append(msgs[0], m) \in Seq(Message) /\ Append(msgs[0], m) # <<>>
          /\ Append(msgs[0], m)[1] = msgs[0][1]
          /\ Append(file \o said, m) \in Seq(Message)
          /\ Append(trace \o evs, e) \in Seq(Record)
      BY <1>0, <2>3, <2>5, <2>6, AppendProperties, Longer
    <2>8. /\ msgs' = [msgs EXCEPT ![0] = Append(msgs[0], m), ![1] = <<>>]
          /\ file' = Append(file \o said, m)
          /\ pending' = [pending EXCEPT ![0] = Tail(pending[0]), ![1] = <<>>]
          /\ trace' = Append(trace \o evs, e)
      BY <2>1 DEF c, m, e
    <2>9. TypeOK'
      <3>1. msgs' \in [Depth -> Seq(Message)] /\ file' \in Seq(Message)
        BY <2>3, <2>7, <2>8 DEF TypeInv, TypeOK
      <3>2. pending' \in [Depth -> Seq(Call)]
        BY <2>3, <2>4, <2>8 DEF TypeInv, TypeOK
      <3>3. turn' \in [Depth -> Nat] /\ rate' \in [Depth -> Rates]
        BY <2>2, <2>3, AgentAssumption DEF TypeInv, TypeOK
      <3>4. /\ phase' \in Phase /\ depth' \in Depth /\ readOnly' \in BOOLEAN
            /\ mode' \in Mode /\ remembered' \subseteq Key /\ interrupted' \in BOOLEAN
            /\ nextId' \in Nat /\ inputs' \in Nat /\ starts' \in Nat
        BY <2>2, <2>3 DEF TypeInv, TypeOK, gateVars, Phase
      <3> QED
        BY <3>1, <3>2, <3>3, <3>4 DEF TypeOK
    <2>10. Prompted'
      <3>1. msgs[0][1].role = "system"
        BY <2>3 DEF TypeInv, TypeOK, Prompted, Depth
      <3>2. msgs'[0] = Append(msgs[0], m)
        BY <2>3, <2>8 DEF TypeInv, TypeOK
      <3>3. msgs'[0] # <<>> /\ msgs'[0][1].role = "system"
        BY <2>7, <3>1, <3>2
      <3>4. ASSUME NEW d \in Depth, d <= depth' PROVE d = 0
        BY <2>2, <3>4 DEF Depth
      <3> QED
        BY <3>3, <3>4 DEF Prompted
    <2>11. AtWork'
      BY <2>2 DEF AtWork
    <2> QED
      BY <2>7, <2>8, <2>9, <2>10, <2>11 DEF TypeInv
  <1> QED
    BY <1>1, <1>2 DEF FinishRun

\* What the operator does at the prompt.
LEMMA PromptTypes ==
    ASSUME TypeInv,
           UserPrompt \/ (\E m \in Mode : SetMode(m)) \/ Compact \/ Reset \/ Resume
    PROVE  TypeInv'
  <1>1. /\ 0 \in Depth /\ msgs[0] \in Seq(Message) /\ msgs[0] # <<>>
        /\ msgs[0][1].role = "system" /\ nextId \in Nat /\ file \in Seq(Message)
    BY DEF TypeInv, TypeOK, Prompted, Depth
  <1>2. System(0) \in Message /\ System(0).role = "system" /\ User(nextId, 0) \in Message
    BY <1>1, EmptySeq, MessagesAre
  <1>3. <<System(0)>> \in Seq(Message) /\ <<System(0)>> # <<>>
        /\ <<System(0)>>[1].role = "system"
    BY <1>2
  <1>4. ASSUME UserPrompt PROVE TypeInv'
    <2> DEFINE m == User(nextId, 0)
    <2>1. /\ msgs' = [msgs EXCEPT ![0] = Append(msgs[0], m)]
          /\ file' = Append(file, m)
          /\ nextId' = nextId + 1 /\ inputs' = inputs + 1
          /\ phase = "prompt" /\ phase' = "stream"
          /\ UNCHANGED <<turn, pending, rate, gateVars, runVars, starts, trace>>
      BY <1>4 DEF UserPrompt, AtPrompt
    <2> HIDE DEF m
    <2>2. /\ Append(msgs[0], m) \in Seq(Message) /\ Append(msgs[0], m) # <<>>
          /\ Append(msgs[0], m)[1] = msgs[0][1] /\ Append(file, m) \in Seq(Message)
      BY <1>1, <1>2, Longer DEF m
    <2>3. depth = 0
      BY <2>1 DEF TypeInv, AtWork
    <2>4. TypeOK'
      <3>1. msgs' \in [Depth -> Seq(Message)]
        BY <1>1, <2>1, <2>2 DEF TypeInv, TypeOK
      <3>2. /\ file' \in Seq(Message) /\ nextId' \in Nat /\ inputs' \in Nat
            /\ phase' \in Phase
        BY <1>1, <2>1, <2>2 DEF TypeInv, TypeOK, Phase
      <3>3. UNCHANGED <<turn, pending, rate, starts, depth, readOnly, interrupted, mode,
                       remembered>>
        BY <2>1 DEF gateVars, runVars
      <3> QED
        BY <3>1, <3>2, <3>3 DEF TypeInv, TypeOK
    <2>5. Prompted'
      BY <1>1, <2>1, <2>2, <2>3 DEF TypeInv, TypeOK, runVars, Prompted, Depth
    <2>6. AtWork'
      BY <2>1, <2>3 DEF runVars, AtWork
    <2> QED
      BY <2>1, <2>4, <2>5, <2>6 DEF TypeInv
  <1>5. ASSUME NEW m \in Mode, SetMode(m) PROVE TypeInv'
    <2>1. /\ mode' = m /\ remembered' = {} /\ inputs' = inputs + 1
          /\ trace' = Append(trace, Event("mode", 0, NoTool, m))
          /\ UNCHANGED <<phase, convVars, runVars, starts>>
      BY <1>5 DEF SetMode, AtPrompt
    <2>2. Event("mode", 0, NoTool, m) \in Record
      BY <1>1, EventsAre DEF Kind, Word
    <2>3. trace' \in Seq(Record)
      BY <2>1, <2>2, AppendProperties DEF TypeInv
    <2>4. TypeOK'
      BY <2>1 DEF TypeInv, TypeOK, convVars, runVars
    <2>5. Prompted'
      BY <2>1 DEF TypeInv, convVars, runVars, Prompted
    <2>6. AtWork'
      BY <2>1 DEF TypeInv, convVars, runVars, AtWork, Current, Registry, subRegistry
    <2> QED
      BY <2>3, <2>4, <2>5, <2>6 DEF TypeInv
  <1>6. ASSUME Compact PROVE TypeInv'
    <2> DEFINE new == compact(rate[0], msgs[0])
    <2>1. /\ msgs' = [msgs EXCEPT ![0] = new] /\ inputs' = inputs + 1 /\ phase = "prompt"
          /\ UNCHANGED <<phase, turn, pending, rate, file, nextId, gateVars, runVars,
                         starts, trace>>
      BY <1>6 DEF Compact, AtPrompt
    <2>2. new \in Seq(Message) /\ new # <<>> /\ new[1] = msgs[0][1]
      BY <1>1, CompactType
    <2> HIDE DEF new
    <2>3. depth = 0
      BY <2>1 DEF TypeInv, AtWork
    <2>4. TypeOK'
      <3>1. msgs' \in [Depth -> Seq(Message)]
        BY <1>1, <2>1, <2>2 DEF TypeInv, TypeOK
      <3>2. inputs' \in Nat
        BY <2>1 DEF TypeInv, TypeOK
      <3>3. UNCHANGED <<phase, turn, pending, rate, file, nextId, starts, depth, readOnly,
                       interrupted, mode, remembered>>
        BY <2>1 DEF gateVars, runVars
      <3> QED
        BY <3>1, <3>2, <3>3 DEF TypeInv, TypeOK
    <2>5. Prompted'
      BY <1>1, <2>1, <2>2, <2>3 DEF TypeInv, TypeOK, runVars, Prompted, Depth
    <2>6. AtWork'
      BY <2>1, <2>3 DEF runVars, AtWork
    <2> QED
      BY <2>1, <2>4, <2>5, <2>6 DEF TypeInv
  <1>7. ASSUME Reset PROVE TypeInv'
    <2>1. /\ msgs' = [msgs EXCEPT ![0] = <<System(0)>>] /\ inputs' = inputs + 1
          /\ phase = "prompt"
          /\ UNCHANGED <<phase, turn, pending, rate, file, nextId, gateVars, runVars,
                         starts, trace>>
      BY <1>7 DEF Reset, AtPrompt
    <2>2. depth = 0
      BY <2>1 DEF TypeInv, AtWork
    <2>3. TypeOK'
      BY <1>1, <1>3, <2>1 DEF TypeInv, TypeOK, gateVars, runVars, Phase
    <2>4. Prompted'
      BY <1>1, <1>3, <2>1, <2>2 DEF TypeInv, TypeOK, runVars, Prompted, Depth
    <2>5. AtWork'
      BY <2>1, <2>2 DEF runVars, AtWork
    <2> QED
      BY <2>1, <2>3, <2>4, <2>5 DEF TypeInv
  <1>8. ASSUME Resume PROVE TypeInv'
    <2> DEFINE new == <<System(0)>> \o file
    <2>1. /\ phase = "off" /\ starts' = starts + 1 /\ phase' = "prompt"
          /\ msgs' = [msgs EXCEPT ![0] = new]
          /\ trace' = Append(trace, Event("mode", 0, NoTool, InitMode))
          /\ UNCHANGED <<turn, pending, rate, file, nextId, gateVars, runVars, inputs>>
      BY <1>8 DEF Resume
    <2>2. new \in Seq(Message) /\ new # <<>> /\ new[1].role = "system"
      <3>1. /\ new \in Seq(Message) /\ Len(new) = 1 + Len(file) /\ Len(file) \in Nat
            /\ new[1] = <<System(0)>>[1]
        BY <1>1, <1>3, ConcatProperties, LenProperties
      <3> QED
        BY <1>3, <3>1, EmptySeq
    <2> HIDE DEF new
    <2>3. Event("mode", 0, NoTool, InitMode) \in Record
      BY <1>1, AgentAssumption, EventsAre DEF Kind, Word
    <2>4. trace' \in Seq(Record)
      BY <2>1, <2>3, AppendProperties DEF TypeInv
    <2>5. depth = 0
      BY <2>1 DEF TypeInv, AtWork
    <2>6. TypeOK'
      <3>1. msgs' \in [Depth -> Seq(Message)]
        BY <1>1, <2>1, <2>2 DEF TypeInv, TypeOK
      <3>2. starts' \in Nat /\ phase' \in Phase
        BY <2>1 DEF TypeInv, TypeOK, Phase
      <3>3. UNCHANGED <<turn, pending, rate, file, nextId, inputs, depth, readOnly,
                       interrupted, mode, remembered>>
        BY <2>1 DEF gateVars, runVars
      <3> QED
        BY <3>1, <3>2, <3>3 DEF TypeInv, TypeOK
    <2>7. Prompted'
      BY <1>1, <2>1, <2>2, <2>5 DEF TypeInv, TypeOK, runVars, Prompted, Depth
    <2>8. AtWork'
      BY <2>1, <2>5 DEF runVars, AtWork
    <2> QED
      BY <2>4, <2>6, <2>7, <2>8 DEF TypeInv
  <1> QED
    BY <1>4, <1>5, <1>6, <1>7, <1>8

\* The turn loop.
LEMMA TurnTypes ==
    ASSUME TypeInv,
           \/ SendRequest \/ TurnBudgetSpent \/ AnyReply
           \/ \E n \in ReplySizes, r \in Rates : FinalReply(n, r)
           \/ StreamFails \/ NextTurn
    PROVE  TypeInv'
  <1>1. /\ depth \in Depth /\ 0 \in Depth /\ rate[0] \in Rates
        /\ msgs[depth] \in Seq(Message) /\ msgs[depth] # <<>>
        /\ msgs[depth][1].role = "system" /\ nextId \in Nat /\ file \in Seq(Message)
        /\ <<>> \in Seq(Message) /\ <<>> \in Seq(Record) /\ <<>> \in Seq(Nat)
    BY EmptySeq DEF TypeInv, TypeOK, Prompted, Depth
  <1>2. ASSUME SendRequest PROVE TypeInv'
    <2> DEFINE new == IF needsCompaction(rate[depth], msgs[depth])
                      THEN compact(rate[depth], msgs[depth]) ELSE msgs[depth]
    <2>1. /\ msgs' = [msgs EXCEPT ![depth] = new] /\ phase' = "waiting" /\ phase = "stream"
          /\ UNCHANGED <<turn, pending, rate, file, nextId, gateVars, runVars, inputs,
                         starts, trace>>
      BY <1>2 DEF SendRequest, TypeInv, TypeOK
    <2>2. new \in Seq(Message) /\ new # <<>> /\ new[1] = msgs[depth][1]
      BY <1>1, CompactType
    <2> HIDE DEF new
    <2>3. TypeOK'
      BY <1>1, <2>1, <2>2 DEF TypeInv, TypeOK, gateVars, runVars, Phase
    <2>4. Prompted'
      BY <1>1, <2>1, <2>2 DEF TypeInv, TypeOK, runVars, Prompted
    <2>5. AtWork'
      BY <2>1 DEF TypeInv, runVars, AtWork
    <2> QED
      BY <2>1, <2>3, <2>4, <2>5 DEF TypeInv
  <1>3. ASSUME TurnBudgetSpent \/ StreamFails PROVE TypeInv'
    <2>1. /\ phase \in {"stream", "waiting"} /\ FinishRun(<<>>, <<>>, rate[0])
          /\ UNCHANGED gateVars
      BY <1>3 DEF TurnBudgetSpent, StreamFails
    <2> QED
      BY <1>1, <2>1, FinishTypes
  <1>4. ASSUME NEW n \in ReplySizes, NEW r \in Rates, FinalReply(n, r) PROVE TypeInv'
    <2>1. /\ phase = "waiting" /\ FinishRun(<<Assistant(<<>>, n, depth)>>, <<>>, r)
          /\ UNCHANGED gateVars
      BY <1>4 DEF FinalReply
    <2>2. Assistant(<<>>, n, depth) \in Message
      BY <1>1, AgentAssumption, MessagesAre
    <2>3. <<Assistant(<<>>, n, depth)>> \in Seq(Message)
      BY <2>2
    <2> QED
      BY <1>1, <2>1, <2>3, FinishTypes
  <1>5. ASSUME NEW reqs \in Replies, NEW n \in ReplySizes, NEW r \in Rates, Reply(reqs, n, r)
        PROVE  TypeInv'
    <2> DEFINE ids == [k \in 1..Len(reqs) |-> nextId + k - 1]
               calls == [k \in 1..Len(reqs) |-> [id |-> ids[k], req |-> reqs[k]]]
               m == Assistant(ids, n, depth)
    <2>1. /\ phase = "waiting" /\ phase' = "dispatch"
          /\ msgs' = [msgs EXCEPT ![depth] = Append(msgs[depth], m)]
          /\ file' = Append(file, m)
          /\ pending' = [pending EXCEPT ![depth] = calls]
          /\ nextId' = nextId + Len(reqs)
          /\ rate' = [rate EXCEPT ![depth] = r]
          /\ UNCHANGED <<turn, gateVars, runVars, inputs, starts, trace>>
      BY <1>5 DEF Reply
    <2>2. reqs \in Seq(Request \cup {NoTool}) /\ Len(reqs) \in Nat
      BY AgentAssumption, LenProperties
    <2>3. \A k \in 1..Len(reqs) : nextId + k - 1 \in Nat /\ reqs[k] \in Request \cup {NoTool}
      BY <1>1, <2>2, ElementOfSeq
    <2>4. ids \in Seq(Nat) /\ calls \in Seq(Call)
      <3>1. ids \in [1..Len(reqs) -> Nat]
        BY <2>3
      <3>2. ids \in Seq(Nat)
        BY <2>2, <2>3, IsASeq
      <3> HIDE DEF ids
      <3>3. \A k \in 1..Len(reqs) : [id |-> ids[k], req |-> reqs[k]] \in Call
        BY <2>3, <3>1 DEF Call
      <3>4. calls \in Seq(Call)
        BY <2>2, <3>3, IsASeq
      <3> QED
        BY <3>2, <3>4
    <2>5. m \in Message
      <3> HIDE DEF ids
      <3> QED
        BY <1>1, <2>4, AgentAssumption, MessagesAre
    <2> HIDE DEF ids, calls, m
    <2>6. /\ Append(msgs[depth], m) \in Seq(Message) /\ Append(msgs[depth], m) # <<>>
          /\ Append(msgs[depth], m)[1] = msgs[depth][1] /\ Append(file, m) \in Seq(Message)
      BY <1>1, <2>5, Longer
    <2>7. TypeOK'
      <3>1. /\ msgs' \in [Depth -> Seq(Message)] /\ pending' \in [Depth -> Seq(Call)]
            /\ rate' \in [Depth -> Rates]
        BY <1>1, <2>1, <2>4, <2>6 DEF TypeInv, TypeOK
      <3>2. /\ file' \in Seq(Message) /\ nextId' \in Nat /\ phase' \in Phase
        BY <1>1, <2>1, <2>2, <2>6 DEF Phase
      <3>3. UNCHANGED <<turn, inputs, starts, depth, readOnly, interrupted, mode, remembered>>
        BY <2>1 DEF gateVars, runVars
      <3> QED
        BY <3>1, <3>2, <3>3 DEF TypeInv, TypeOK
    <2>8. Prompted'
      BY <1>1, <2>1, <2>6 DEF TypeInv, TypeOK, runVars, Prompted
    <2>9. AtWork'
      BY <1>1, <2>1 DEF TypeInv, TypeOK, runVars, AtWork, Depth
    <2> QED
      BY <2>1, <2>7, <2>8, <2>9 DEF TypeInv
  <1>6. ASSUME NextTurn PROVE TypeInv'
    <2>1. /\ phase = "dispatch" /\ phase' = "stream"
          /\ turn' = [turn EXCEPT ![depth] = turn[depth] + 1]
          /\ UNCHANGED <<msgs, pending, rate, file, nextId, gateVars, runVars, inputs,
                         starts, trace>>
      BY <1>6 DEF NextTurn
    <2>2. TypeOK'
      <3>1. turn' \in [Depth -> Nat]
        <4>1. turn \in [Depth -> Nat] /\ turn[depth] + 1 \in Nat
          BY <1>1 DEF TypeInv, TypeOK
        <4> QED
          BY <2>1, <4>1
      <3>2. phase' \in Phase
        BY <2>1 DEF Phase
      <3>3. UNCHANGED <<msgs, pending, rate, file, nextId, inputs, starts, depth, readOnly,
                       interrupted, mode, remembered>>
        BY <2>1 DEF gateVars, runVars
      <3> QED
        BY <3>1, <3>2, <3>3 DEF TypeInv, TypeOK
    <2>3. Prompted'
      BY <2>1 DEF TypeInv, runVars, Prompted
    <2>4. AtWork'
      BY <2>1 DEF TypeInv, runVars, AtWork
    <2> QED
      BY <2>1, <2>2, <2>3, <2>4 DEF TypeInv
  <1> QED
    BY <1>2, <1>3, <1>4, <1>5, <1>6 DEF AnyReply

\* What is decided about a call: a deny rule or the mode refuses it, the mode
\* or an approval allows it, or the operator is asked, in approve mode alone,
\* about what changes something and is not on the auto-allow list.
LEMMA Decides ==
    ASSUME NEW m \in Mode, NEW given, NEW r \in Request
    PROVE  /\ Evaluate(m, given, r) \in {"deny", "allow", "ask"}
           /\ Evaluate(m, given, r) = "allow" =>
                /\ ~ RuleDenied(r)
                /\ r \in Mutating \ AutoTool =>
                     m = "auto" \/ (m = "approve" /\ rememberKey[r] \in given)
           /\ Evaluate(m, given, r) = "ask" =>
                ~ RuleDenied(r) /\ m = "approve" /\ r \in Mutating \ AutoTool
  <1>1. CASE RuleDenied(r)
    BY <1>1 DEF Evaluate
  <1>2. CASE ~ RuleDenied(r) /\ r \in (Request \ Mutating) \cup AutoTool
    BY <1>2 DEF Evaluate
  <1>3. CASE ~ RuleDenied(r) /\ r \in Mutating \ AutoTool
    BY <1>3 DEF Evaluate, Mode
  <1> QED
    BY <1>1, <1>2, <1>3

\* What an agent has a tool for is a request.
LEMMA RegistryIs ==
    /\ \A d : Registry(d) \subseteq Request
    /\ NoTool \notin Request
  BY AgentAssumption DEF Registry, subRegistry

\* The calls, their confirmation and what they run.
LEMMA CallTypes ==
    ASSUME TypeInv,
           \/ BadCall \/ Check \/ Ask \/ \E a \in {"yes", "always"} : AnswerYes(a)
           \/ AnswerNo \/ AnswerQuit
    PROVE  TypeInv'
  <1>1. /\ depth \in Depth /\ pending[depth] \in Seq(Call) /\ rate[0] \in Rates
        /\ mode \in Mode /\ <<>> \in Seq(Message) /\ 1 \in Nat
    BY EmptySeq DEF TypeInv, TypeOK, Prompted, Depth
  <1>2. ASSUME BadCall PROVE TypeInv'
    BY <1>1, <1>2, ResultTypes DEF BadCall, AtCall, TypeInv
  <1>3. ASSUME Check PROVE TypeInv'
    <2> DEFINE r == Current.req
               d == Evaluate(mode, remembered, r)
    <2>1. /\ phase = "dispatch" /\ pending[depth] # <<>> /\ r \in Registry(depth)
          /\ trace' = Append(trace, Event("permission", depth, r, d))
          /\ IF d = "deny" THEN appendToolResult(depth, 1)
             ELSE phase' = "approved" /\ UNCHANGED <<convVars, inputs, starts>>
          /\ UNCHANGED <<gateVars, runVars>>
      BY <1>3 DEF Check, AtCall
    <2>2. Event("permission", depth, r, d) \in Record
      <3>1. r \in Request
        BY <2>1, RegistryIs
      <3>2. d \in {"deny", "allow", "ask"}
        BY <1>1, <3>1, Decides
      <3> HIDE DEF r, d
      <3> QED
        BY <1>1, <3>1, <3>2, EventsAre DEF Kind, Word
    <2>3. trace' \in Seq(Record)
      BY <2>1, <2>2, AppendProperties DEF TypeInv
    <2>4. CASE d = "deny"
      BY <1>1, <2>1, <2>3, <2>4, ResultTypes
    <2>5. CASE d # "deny"
      <3>1. phase' = "approved" /\ UNCHANGED <<convVars, gateVars, runVars, inputs, starts>>
        BY <2>1, <2>5
      <3>2. TypeOK'
        BY <3>1 DEF TypeInv, TypeOK, convVars, gateVars, runVars, Phase
      <3>3. Prompted'
        BY <3>1 DEF TypeInv, convVars, runVars, Prompted
      <3>4. AtWork'
        BY <2>1, <3>1 DEF TypeInv, convVars, runVars, AtWork, Current, Registry, subRegistry
      <3> QED
        BY <2>3, <3>2, <3>3, <3>4 DEF TypeInv
    <2> QED
      BY <2>4, <2>5
  <1>4. ASSUME Ask PROVE TypeInv'
    <2>1. /\ phase = "dispatch" /\ pending[depth] # <<>> /\ Current.req \in Registry(depth)
          /\ phase' = "confirm"
          /\ UNCHANGED <<convVars, gateVars, runVars, inputs, starts, trace>>
      BY <1>4 DEF Ask, AtCall
    <2>2. TypeOK'
      BY <2>1 DEF TypeInv, TypeOK, convVars, gateVars, runVars, Phase
    <2>3. Prompted'
      BY <2>1 DEF TypeInv, convVars, runVars, Prompted
    <2>4. AtWork'
      BY <2>1 DEF TypeInv, convVars, runVars, AtWork, Current, Registry, subRegistry
    <2> QED
      BY <2>1, <2>2, <2>3, <2>4 DEF TypeInv
  <1>5. ASSUME phase = "confirm"
        PROVE  /\ pending[depth] # <<>> /\ Current.req \in Registry(depth)
               /\ Current.req \in Request
               /\ \A a \in {"yes", "always", "no", "quit"}, d \in {"allow", "deny"} :
                    Answered(a, d) \in Seq(Record)
    <2>1. pending[depth] # <<>> /\ Current.req \in Registry(depth)
      BY <1>5 DEF TypeInv, AtWork
    <2>2. Current.req \in Request
      BY <2>1, RegistryIs
    <2>3. ASSUME NEW a \in {"yes", "always", "no", "quit"}, NEW d \in {"allow", "deny"}
          PROVE  Answered(a, d) \in Seq(Record)
      <3>1. /\ Event("answer", depth, Current.req, a) \in Record
            /\ Event("permission", depth, Current.req, d) \in Record
        BY <1>1, <2>2, EventsAre DEF Kind, Word
      <3> QED
        BY <3>1 DEF Answered
    <2> QED
      BY <2>1, <2>2, <2>3
  <1>6. ASSUME NEW a \in {"yes", "always"}, AnswerYes(a) PROVE TypeInv'
    <2>1. /\ phase = "confirm" /\ phase' = "approved"
          /\ remembered' = IF a = "always" THEN remembered \cup {rememberKey[Current.req]}
                           ELSE remembered
          /\ trace' = trace \o Answered(a, "allow")
          /\ UNCHANGED <<convVars, mode, runVars, inputs, starts>>
      BY <1>6 DEF AnswerYes
    <2>2. trace' \in Seq(Record)
      BY <1>5, <2>1, ConcatProperties DEF TypeInv
    <2>3. TypeOK'
      <3>1. remembered' \subseteq Key
        BY <1>5, <2>1 DEF TypeInv, TypeOK, Key
      <3> QED
        BY <2>1, <3>1 DEF TypeInv, TypeOK, convVars, runVars, Phase
    <2>4. Prompted'
      BY <2>1 DEF TypeInv, convVars, runVars, Prompted
    <2>5. AtWork'
      BY <2>1 DEF TypeInv, convVars, runVars, AtWork, Current, Registry, subRegistry
    <2> QED
      BY <2>2, <2>3, <2>4, <2>5 DEF TypeInv
  <1>7. ASSUME AnswerNo PROVE TypeInv'
    <2>1. /\ phase = "confirm" /\ trace' = trace \o Answered("no", "deny")
          /\ appendToolResult(depth, 1) /\ UNCHANGED <<gateVars, runVars>>
      BY <1>7 DEF AnswerNo
    <2>2. trace' \in Seq(Record)
      BY <1>5, <2>1, ConcatProperties DEF TypeInv
    <2> QED
      BY <1>1, <1>5, <2>1, <2>2, ResultTypes
  <1>8. ASSUME AnswerQuit PROVE TypeInv'
    <2>1. /\ phase = "confirm" /\ FinishRun(<<>>, Answered("quit", "deny"), rate[0])
          /\ UNCHANGED gateVars
      BY <1>8 DEF AnswerQuit
    <2> QED
      BY <1>1, <1>5, <2>1, FinishTypes
  <1> QED
    BY <1>2, <1>3, <1>4, <1>6, <1>7, <1>8

\* What runs, and how it ends.
LEMMA ToolTypes ==
    ASSUME TypeInv,
           \/ RunTool \/ Delegate \/ \E n \in ResultSizes : ToolDone(n)
           \/ ToolFails \/ Interrupt
    PROVE  TypeInv'
  <1>1. /\ depth \in Depth /\ pending[depth] \in Seq(Call)
        /\ mode \in Mode /\ 1 \in Nat /\ 0 \in Depth /\ 1 \in Depth
        /\ nextId \in Nat /\ file \in Seq(Message)
    BY EmptySeq DEF TypeInv, TypeOK, Prompted, Depth
  <1>2. ASSUME phase \in {"approved", "tool"}
        PROVE  /\ pending[depth] # <<>> /\ Current.req \in Registry(depth)
               /\ Current.req \in Request
    BY <1>2, RegistryIs DEF TypeInv, AtWork
  <1>3. ASSUME RunTool PROVE TypeInv'
    <2>1. /\ phase = "approved" /\ phase' = "tool"
          /\ trace' = Append(trace, Event("run", depth, Current.req, "start"))
          /\ UNCHANGED <<convVars, gateVars, runVars, inputs, starts>>
      BY <1>3 DEF RunTool
    <2>2. Event("run", depth, Current.req, "start") \in Record
      BY <1>1, <1>2, <2>1, EventsAre DEF Kind, Word
    <2>3. trace' \in Seq(Record)
      BY <2>1, <2>2, AppendProperties DEF TypeInv
    <2>4. TypeOK'
      BY <2>1 DEF TypeInv, TypeOK, convVars, gateVars, runVars, Phase
    <2>5. Prompted'
      BY <2>1 DEF TypeInv, convVars, runVars, Prompted
    <2>6. AtWork'
      BY <2>1 DEF TypeInv, convVars, runVars, AtWork, Current, Registry, subRegistry
    <2> QED
      BY <2>3, <2>4, <2>5, <2>6 DEF TypeInv
  <1>4. ASSUME Delegate PROVE TypeInv'
    <2> DEFINE m == User(nextId, 1)
               r == Current.req
               evs == <<Event("run", 0, r, "start"), Event("subagent", 1, r, "start")>>
    <2>1. /\ phase = "approved" /\ depth = 0 /\ r \in Task
          /\ depth' = 1
          /\ readOnly' = (r \in ReadOnlyTask)
          /\ msgs' = [msgs EXCEPT ![1] = <<System(1), m>>]
          /\ file' = Append(file, m)
          /\ nextId' = nextId + 1
          /\ trace' = trace \o evs
          /\ phase' = "stream"
          /\ UNCHANGED <<turn, pending, rate, gateVars, interrupted, inputs, starts>>
      BY <1>4 DEF Delegate
    <2>2. m \in Message /\ System(1) \in Message /\ System(1).role = "system"
      BY <1>1, EmptySeq, MessagesAre
    <2>3. evs \in Seq(Record)
      <3>1. r \in Request
        BY <1>2, <2>1
      <3> HIDE DEF r
      <3>2. /\ Event("run", 0, r, "start") \in Record
            /\ Event("subagent", 1, r, "start") \in Record
        BY <1>1, <3>1, EventsAre DEF Kind, Word
      <3> QED
        BY <3>2
    <2> HIDE DEF m, evs
    <2>4. /\ <<System(1), m>> \in Seq(Message) /\ <<System(1), m>> # <<>>
          /\ <<System(1), m>>[1] = System(1)
      BY <2>2
    <2>5. trace' \in Seq(Record) /\ Append(file, m) \in Seq(Message)
      BY <1>1, <2>1, <2>2, <2>3, ConcatProperties, AppendProperties DEF TypeInv
    <2>6. TypeOK'
      <3>1. msgs' \in [Depth -> Seq(Message)]
        BY <1>1, <2>1, <2>4 DEF TypeInv, TypeOK
      <3>2. /\ file' \in Seq(Message) /\ nextId' \in Nat /\ depth' \in Depth
            /\ readOnly' \in BOOLEAN /\ phase' \in Phase
        BY <1>1, <2>1, <2>5 DEF TypeInv, TypeOK, Phase
      <3>3. UNCHANGED <<turn, pending, rate, inputs, starts, interrupted, mode, remembered>>
        BY <2>1 DEF gateVars
      <3> QED
        BY <3>1, <3>2, <3>3 DEF TypeInv, TypeOK
    <2>7. Prompted'
      BY <1>1, <2>1, <2>2, <2>4 DEF TypeInv, TypeOK, Prompted, Depth
    <2>8. AtWork'
      BY <1>2, <2>1 DEF AtWork, Current
    <2> QED
      BY <2>5, <2>6, <2>7, <2>8 DEF TypeInv
  <1>5. ASSUME NEW n \in ResultSizes, ToolDone(n) PROVE TypeInv'
    <2>1. /\ phase = "tool" /\ appendToolResult(depth, n) /\ UNCHANGED <<gateVars, runVars>>
          /\ trace' = Append(trace, Event("tool_call", depth, Current.req, "done"))
      BY <1>5 DEF ToolDone
    <2>2. Event("tool_call", depth, Current.req, "done") \in Record
      BY <1>1, <1>2, <2>1, EventsAre DEF Kind, Word
    <2>3. trace' \in Seq(Record)
      BY <2>1, <2>2, AppendProperties DEF TypeInv
    <2>4. n \in Nat
      BY AgentAssumption
    <2> QED
      BY <1>2, <2>1, <2>3, <2>4, ResultTypes
  <1>6. ASSUME ToolFails PROVE TypeInv'
    <2>1. /\ phase = "tool" /\ appendToolResult(depth, 1) /\ UNCHANGED <<gateVars, runVars>>
          /\ trace' = trace
      BY <1>6 DEF ToolFails
    <2>2. trace' \in Seq(Record)
      BY <2>1 DEF TypeInv
    <2> QED
      BY <1>1, <1>2, <2>1, <2>2, ResultTypes
  <1>7. ASSUME Interrupt PROVE TypeInv'
    <2>1. /\ interrupted' = TRUE
          /\ UNCHANGED <<phase, convVars, gateVars, depth, readOnly, inputs, starts, trace>>
      BY <1>7 DEF Interrupt
    <2>2. TypeOK'
      BY <2>1 DEF TypeInv, TypeOK, convVars, gateVars
    <2>3. Prompted'
      BY <2>1 DEF TypeInv, convVars, Prompted
    <2>4. AtWork'
      BY <2>1 DEF TypeInv, convVars, AtWork, Current, Registry, subRegistry
    <2> QED
      BY <2>1, <2>2, <2>3, <2>4 DEF TypeInv
  <1> QED
    BY <1>3, <1>4, <1>5, <1>6, <1>7

\* No step leads out of the types.
LEMMA TypeStep == TypeInv /\ [Next]_vars => TypeInv'
  <1> SUFFICES ASSUME TypeInv, [Next]_vars PROVE TypeInv'
    OBVIOUS
  <1>1. CASE UNCHANGED vars
    <2>1. TypeOK'
      BY <1>1 DEF vars, TypeInv, TypeOK, convVars, gateVars, runVars
    <2>2. Prompted' /\ AtWork'
      BY <1>1 DEF vars, TypeInv, convVars, gateVars, runVars, Prompted, AtWork,
                  Current, Registry, subRegistry
    <2> QED
      BY <1>1, <2>1, <2>2 DEF vars, TypeInv
  <1>2. CASE Exit \/ Cancelled \/ Kill
    BY <1>2, OffTypes DEF Exit, Cancelled, Kill
  <1>3. CASE Next /\ ~ (Exit \/ Cancelled \/ Kill)
    BY <1>3, PromptTypes, TurnTypes, CallTypes, ToolTypes DEF Next
  <1> QED
    BY <1>1, <1>2, <1>3

\* Type correctness of a session: whatever is requested, replied, answered
\* and interrupted, every reachable state is one of the program's.
THEOREM AgentTypeCorrect == Spec => []TypeOK
  <1>1. TypeInv => TypeOK
    BY DEF TypeInv
  <1> QED
    BY <1>1, TypeInit, TypeStep, PTL DEF Spec

-----------------------------------------------------------------------------
(* The requests the agent sends.                                           *)

\* The agent waits for the server only after it has sent a request, and
\* nothing it would send next changes while it waits.
LEMMA WaitsForWhatItSent ==
    ASSUME TypeInv, [Next]_vars, phase' = "waiting"
    PROVE  \/ SendRequest
           \/ phase = "waiting" /\ UNCHANGED <<depth, msgs, rate>>
  <1>1. CASE UNCHANGED vars
    BY <1>1 DEF vars, convVars, runVars
  <1>2. CASE \/ UserPrompt \/ (\E m \in Mode : SetMode(m)) \/ Compact \/ Reset \/ Exit \/ Resume
             \/ Kill \/ Cancelled
    BY <1>2 DEF UserPrompt, SetMode, Compact, Reset, Exit, Resume, Kill, Cancelled, Off, AtPrompt
  <1>3. CASE \/ TurnBudgetSpent \/ StreamFails \/ AnswerQuit
             \/ \E n \in ReplySizes, r \in Rates : FinalReply(n, r)
    BY <1>3 DEF TurnBudgetSpent, StreamFails, AnswerQuit, FinalReply, FinishRun
  <1>4. CASE \/ AnyReply \/ NextTurn \/ BadCall \/ Check \/ Ask \/ AnswerNo \/ RunTool \/ Delegate
             \/ ToolFails \/ (\E a \in {"yes", "always"} : AnswerYes(a))
             \/ \E n \in ResultSizes : ToolDone(n)
    BY <1>4 DEF AnyReply, Reply, NextTurn, BadCall, Check, Ask, AnswerNo, RunTool, Delegate,
                ToolFails, AnswerYes, ToolDone, appendToolResult
  <1>5. CASE Interrupt
    BY <1>5 DEF Interrupt, convVars
  <1> QED
    BY <1>1, <1>2, <1>3, <1>4, <1>5 DEF Next

\* Each agent that may compact has a conversation that begins with its system
\* prompt, and a rate to measure it with.
LEMMA Measured ==
    ASSUME TypeInv
    PROVE  /\ depth \in Depth /\ rate[depth] \in Nat
           /\ \A d \in Depth : msgs[d] \in Seq(Message)
           /\ msgs[depth] # <<>> /\ msgs[depth][1].role = "system"
  <1>1. depth \in Depth /\ rate[depth] \in Nat /\ \A d \in Depth : msgs[d] \in Seq(Message)
    BY AgentAssumption DEF TypeInv, TypeOK
  <1>2. depth <= depth
    BY <1>1 DEF Depth
  <1> QED
    BY <1>1, <1>2 DEF TypeInv, Prompted

\* What sending a request does to the conversation.
LEMMA SentIs ==
    ASSUME TypeInv, SendRequest
    PROVE  /\ UNCHANGED <<depth, rate>>
           /\ \A d \in Depth \ {depth} : msgs'[d] = msgs[d]
           /\ msgs'[depth] = IF needsCompaction(rate[depth], msgs[depth])
                               THEN compact(rate[depth], msgs[depth]) ELSE msgs[depth]
  <1>1. /\ UNCHANGED <<depth, rate>>
        /\ msgs' = IF needsCompaction(rate[depth], msgs[depth])
                     THEN [msgs EXCEPT ![depth] = compact(rate[depth], msgs[depth])] ELSE msgs
    BY DEF SendRequest, runVars
  <1>2. msgs \in [Depth -> Seq(Message)] /\ depth \in Depth
    BY DEF TypeInv, TypeOK
  <1> QED
    BY <1>1, <1>2

FloorInv == TypeInv /\ OverThresholdOnlyAtFloor

\* A request is sent after compaction has done what it can.
LEMMA FloorStep == FloorInv /\ [Next]_vars => FloorInv'
  <1> SUFFICES ASSUME FloorInv, [Next]_vars PROVE FloorInv'
    OBVIOUS
  <1>1. TypeInv'
    BY TypeStep DEF FloorInv
  <1>2. ASSUME phase' = "waiting", needsCompaction(rate'[depth'], msgs'[depth'])
        PROVE  AtFloor(msgs'[depth'], BodyStart(msgs'[depth']))
    <2>1. CASE phase = "waiting" /\ UNCHANGED <<depth, msgs, rate>>
      BY <1>2, <2>1 DEF FloorInv, OverThresholdOnlyAtFloor, Sent
    <2>2. CASE SendRequest
      <3> DEFINE new == compact(rate[depth], msgs[depth])
      <3>1. msgs'[depth'] = new /\ rate'[depth'] = rate[depth]
        BY <1>2, <2>2, SentIs DEF FloorInv
      <3>2. AtFloor(new, BodyStart(new)) \/ estimate(rate[depth], new) <= target
        BY Measured, CompactReachesFloor DEF FloorInv
      <3>3. estimate(rate[depth], new) \in Nat /\ target \in Nat
        <4>1. new \in Seq(Message)
          BY Measured, CompactType DEF FloorInv
        <4> HIDE DEF new
        <4> QED
          BY <4>1, Measured, EstimateType DEF FloorInv
      <3> HIDE DEF new
      <3>4. estimate(rate[depth], new) > target
        BY <1>2, <3>1 DEF needsCompaction
      <3> QED
        BY <3>1, <3>2, <3>3, <3>4
    <2> QED
      BY <1>2, <2>1, <2>2, WaitsForWhatItSent DEF FloorInv
  <1> QED
    BY <1>1, <1>2 DEF FloorInv, OverThresholdOnlyAtFloor, Sent

\* A request that is still over the threshold goes out only if no further
\* group of messages may be dropped: compaction never stops short, whatever
\* the window, the sizes, and the rate the estimator has settled on.
THEOREM OnlyOverThresholdAtFloor == Spec => []OverThresholdOnlyAtFloor
  <1>1. Init => FloorInv
    BY TypeInit DEF Init, FloorInv, OverThresholdOnlyAtFloor, Sent
  <1>2. FloorInv => OverThresholdOnlyAtFloor
    BY DEF FloorInv
  <1> QED
    BY <1>1, <1>2, FloorStep, PTL DEF Spec

\* Compacting what has just been compacted changes nothing more, so the
\* requests of one turn after the other do not wear a conversation down.
THEOREM CompactionAlwaysSettles == Spec => []CompactionSettles
  <1>1. TypeInv => CompactionSettles
    BY Measured, CompactSettled DEF CompactionSettles
  <1> QED
    BY <1>1, TypeInit, TypeStep, PTL DEF Spec

\* A conversation that is left alone keeps everything.
LEMMA KeepsAll ==
    ASSUME NEW m \in Seq(Message)
    PROVE  KeepsRecent(m, m)
  <1>1. Len(m) \in Nat /\ BodyStart(m) \in 1..2
    BY LenProperties, BodyStartIs
  <1>2. Len(m) - Len(m) = 0 /\ \A i \in BodyStart(m)..Len(m) : m[i + 0] = m[i]
    BY <1>1
  <1> QED
    BY <1>1, <1>2 DEF KeepsRecent, Same

\* A compacted one keeps its system prompt, its recent messages and its recent
\* results whole, and the rest, from some point on, in its order.
LEMMA CompactKeeps ==
    ASSUME NEW r, NEW m \in Seq(Message)
    PROVE  KeepsRecent(m, compact(r, m))
  <1> DEFINE out == elideOldToolResults(m)
             new == compact(r, m)
             b == BodyStart(m)
  <1>1. PICK gone \in 0..Len(m) :
           /\ Len(new) = Len(m) - gone
           /\ b + gone <= Len(m) + 1
           /\ \A i \in 1..b - 1 : new[i] = out[i]
           /\ \A i \in b..Len(new) : i + gone \in 1..Len(m) /\ new[i] = out[i + gone]
           /\ gone > 0 => Len(new) - (b - 1) >= MinKept
    BY CompactShift
  <1>2. /\ \A i \in 1..Len(m) :
             /\ out[i].role = m[i].role
             /\ \/ out[i] = m[i]
                \/ /\ m[i].role = "tool" /\ LaterResults(m, i) >= KeepRecent
                   /\ out[i] = [m[i] EXCEPT !.size = MarkerSize]
    BY ElideIs
  <1>3. new \in Seq(Message) /\ Len(m) \in Nat /\ Len(new) \in Nat
    BY CompactType, LenProperties
  <1>4. b \in 1..2 /\ b <= Len(m) + 1 /\ (b = 2 => m[1].role = "system")
    BY BodyStartIs DEF BodyStart
  <1> HIDE DEF new, out
  <1>5. SubSeq(new, 1, b - 1) = SubSeq(m, 1, b - 1)
    <2> HIDE DEF b
    <2>1. \A i \in 1..b - 1 : new[i] = m[i] /\ new[i] \in Message
      <3>1. ASSUME NEW i \in 1..b - 1 PROVE new[i] = m[i] /\ i \in 1..Len(m)
        <4>1. i = 1 /\ i \in 1..Len(m) /\ m[i].role = "system"
          BY <1>3, <1>4
        <4> QED
          BY <1>1, <1>2, <4>1
      <3> QED
        BY <3>1, ElementOfSeq
    <2>2. b - 1 \in Int
      BY <1>4
    <2> DEFINE p == SubSeq(new, 1, b - 1)
               q == SubSeq(m, 1, b - 1)
    <2>3. /\ p \in Seq(Message) /\ q \in Seq(Message) /\ Len(p) = Len(q)
          /\ \A i \in 1..Len(p) : p[i] = q[i]
      <3>1. /\ p \in Seq(Message)
            /\ Len(p) = (IF 1 <= b - 1 THEN (b - 1) - 1 + 1 ELSE 0)
            /\ \A i \in 1..((b - 1) - 1) + 1 : p[i] = new[(1 + i) - 1]
        BY <2>1, <2>2, SubSeqProperties
      <3>2. /\ q \in Seq(Message)
            /\ Len(q) = (IF 1 <= b - 1 THEN (b - 1) - 1 + 1 ELSE 0)
            /\ \A i \in 1..((b - 1) - 1) + 1 : q[i] = m[(1 + i) - 1]
        BY <2>1, <2>2, SubSeqProperties
      <3> HIDE DEF p, q
      <3> QED
        BY <1>4, <2>1, <3>1, <3>2
    <2> HIDE DEF p, q
    <2>4. p = q
      BY <2>3, SeqEqual
    <2> QED
      BY <2>4 DEF p, q
  <1>6. ASSUME NEW i \in b..Len(new)
        PROVE  /\ Same(new[i], m[i + gone])
               /\ new[i].size # m[i + gone].size =>
                    new[i].role = "tool" /\ LaterResults(new, i) >= KeepRecent
    <2>1. i + gone \in 1..Len(m) /\ new[i] = out[i + gone] /\ m[i + gone] \in Message
      BY <1>1, ElementOfSeq
    <2>2. CASE out[i + gone] = m[i + gone]
      BY <2>1, <2>2 DEF Same
    <2>3. CASE /\ m[i + gone].role = "tool" /\ LaterResults(m, i + gone) >= KeepRecent
               /\ out[i + gone] = [m[i + gone] EXCEPT !.size = MarkerSize]
      <3>1. Same(new[i], m[i + gone])
        BY <2>1, <2>3 DEF Same, Message
      <3>2. i \in 1..Len(new) /\ Len(m) = Len(new) + gone
        BY <1>1, <1>3, <1>4
      <3>3. ASSUME NEW j \in i..Len(new) PROVE new[j].role = m[j + gone].role
        <4>1. j \in b..Len(new)
          BY <1>3, <1>4
        <4>2. j + gone \in 1..Len(m) /\ new[j] = out[j + gone]
          BY <1>1, <4>1
        <4> QED
          BY <1>2, <4>2
      <3>4. LaterResults(new, i) = LaterResults(m, i + gone)
        BY <1>3, <3>2, <3>3, LaterResultsShift
      <3>5. new[i].role = "tool"
        BY <1>2, <2>1, <2>3
      <3> QED
        BY <2>3, <3>1, <3>4, <3>5
    <2> QED
      BY <1>2, <2>1, <2>2, <2>3
  <1>7. Len(m) - Len(new) = gone /\ gone >= 0
    BY <1>1, <1>3
  <1> HIDE DEF b
  <1>8. KeepsRecent(m, new)
    BY <1>1, <1>5, <1>6, <1>7 DEF KeepsRecent, b
  <1> QED
    BY <1>8 DEF new

\* Sending a request, and /compact, take away from the front of a conversation
\* only, and shorten old tool results only.
THEOREM CompactionAlwaysKeepsRecent == Spec => CompactionKeepsRecent
  <1>1. TypeInv /\ [Next]_vars =>
          [SendRequest \/ Compact => \A d \in Depth : KeepsRecent(msgs[d], msgs'[d])]_vars
    <2> SUFFICES ASSUME TypeInv, SendRequest \/ Compact, NEW d \in Depth
                 PROVE  KeepsRecent(msgs[d], msgs'[d])
      OBVIOUS
    <2>1. msgs \in [Depth -> Seq(Message)] /\ msgs[d] \in Seq(Message)
      BY DEF TypeInv, TypeOK
    <2>2. msgs'[d] = msgs[d] \/ \E r : msgs'[d] = compact(r, msgs[d])
      <3>1. CASE SendRequest
        BY <3>1, SentIs
      <3>2. CASE Compact
        <4>1. msgs' = [msgs EXCEPT ![0] = compact(rate[0], msgs[0])]
          BY <3>2 DEF Compact
        <4> QED
          BY <2>1, <4>1
      <3> QED
        BY <3>1, <3>2
    <2> QED
      BY <2>1, <2>2, KeepsAll, CompactKeeps
  <1> QED
    BY <1>1, TypeInit, TypeStep, PTL DEF Spec, CompactionKeepsRecent

-----------------------------------------------------------------------------
(* Calls and their results, in memory and in the transcript.               *)

\* A conversation as it will be once the calls that are pending have their
\* results.
Whole(m, p) == m \o [q \in 1..Len(p) |-> ToolResult(p[q].id, 1, 0)]

\* It is one the server accepts.
InOrder(m, p) == Backed(Whole(m, p)) /\ AllAnswered(Whole(m, p))

\* No sub-agent wrote to it.
Own(f) == \A i \in 1..Len(f) : f[i].by = 0

\* The messages of a conversation, and what it lacks, at their places.
LEMMA WholeIs ==
    ASSUME NEW m \in Seq(Message), NEW p \in Seq(Call)
    PROVE  /\ Whole(m, p) \in Seq(Message)
           /\ Len(Whole(m, p)) = Len(m) + Len(p) /\ Len(m) \in Nat /\ Len(p) \in Nat
           /\ \A i \in 1..Len(m) : Whole(m, p)[i] = m[i]
           /\ \A q \in 1..Len(p) : Whole(m, p)[Len(m) + q] = ToolResult(p[q].id, 1, 0)
           /\ p = <<>> => Whole(m, p) = m
  <1> DEFINE r == [q \in 1..Len(p) |-> ToolResult(p[q].id, 1, 0)]
  <1>1. PICK l \in Nat, c \in Nat : l = Len(m) /\ c = Len(p)
    BY LenProperties
  <1>2. \A q \in 1..c : ToolResult(p[q].id, 1, 0) \in Message
    <2> SUFFICES ASSUME NEW q \in 1..c PROVE ToolResult(p[q].id, 1, 0) \in Message
      OBVIOUS
    <2>1. p[q] \in Call
      BY <1>1, ElementOfSeq
    <2>2. p[q].id \in Nat /\ 0 \in Depth /\ 1 \in Nat
      BY <2>1 DEF Call, Depth
    <2> QED
      BY <2>2, EmptySeq, MessagesAre
  <1>3. r \in Seq(Message) /\ Len(r) = c /\ \A q \in 1..c : r[q] = ToolResult(p[q].id, 1, 0)
    <2>1. r = [q \in 1..c |-> ToolResult(p[q].id, 1, 0)]
      BY <1>1
    <2> HIDE DEF r
    <2>2. r \in Seq(Message)
      BY <1>2, <2>1, IsASeq
    <2>3. DOMAIN r = 1..c
      BY <2>1
    <2>4. Len(r) = c
      BY <2>2, <2>3, LenProperties
    <2> QED
      BY <2>1, <2>2, <2>4
  <1>4. Whole(m, p) = m \o r
    BY DEF Whole
  <1> HIDE DEF r
  <1>5. /\ m \o r \in Seq(Message) /\ Len(m \o r) = Len(m) + Len(r)
        /\ \A i \in 1..Len(m) + Len(r) :
             (m \o r)[i] = IF i <= Len(m) THEN m[i] ELSE r[i - Len(m)]
    BY <1>3, ConcatProperties
  <1>6. \A i \in 1..l : (m \o r)[i] = m[i]
    BY <1>1, <1>3, <1>5
  <1>7. ASSUME NEW q \in 1..c PROVE (m \o r)[l + q] = r[q]
    <2>1. l + q \in 1..l + c /\ ~ (l + q <= l) /\ (l + q) - l = q
      OBVIOUS
    <2> QED
      BY <1>1, <1>3, <1>5, <2>1
  <1>8. ASSUME p = <<>> PROVE m \o r = m
    <2>1. c = 0
      BY <1>1, <1>8
    <2>2. r = <<>>
      BY <1>3, <2>1, EmptySeq
    <2> QED
      BY <2>2, ConcatEmptySeq
  <1> QED
    BY <1>1, <1>3, <1>4, <1>5, <1>6, <1>7, <1>8

\* A result for the first of the calls that are pending.
LEMMA WholeAnswered ==
    ASSUME NEW m \in Seq(Message), NEW p \in Seq(Call), p # <<>>,
           NEW n \in Nat, NEW d \in Depth
    PROVE  LET x == ToolResult(Head(p).id, n, d) IN
           /\ Append(m, x) \in Seq(Message) /\ Tail(p) \in Seq(Call)
           /\ Backed(Whole(m, p)) => Backed(Whole(Append(m, x), Tail(p)))
           /\ InOrder(m, p) => InOrder(Append(m, x), Tail(p))
  <1> DEFINE x == ToolResult(Head(p).id, n, d)
             a == Append(m, x)
             u == Whole(m, p)
             v == Whole(a, Tail(p))
  <1>0. x \in Message /\ x.role = "tool" /\ x.calls = <<>> /\ x.id = Head(p).id
    <2>1. Head(p).id \in Nat /\ <<>> \in Seq(Nat)
      BY CallsAre, EmptySeq
    <2> QED
      BY <2>1, MessagesAre DEF ToolResult
  <1>1. PICK l \in Nat, c \in Nat : l = Len(m) /\ Len(p) = c + 1
    <2>1. Len(p) - 1 \in Nat /\ Len(p) = (Len(p) - 1) + 1 /\ Len(m) \in Nat
      BY EmptySeq, LenProperties
    <2> QED
      BY <2>1
  <1>2. /\ Tail(p) \in Seq(Call) /\ Len(Tail(p)) = c /\ Head(p) = p[1]
        /\ \A q \in 1..c : Tail(p)[q] = p[q + 1]
    BY <1>1, HeadTailProperties
  <1> HIDE DEF x
  <1>3. a \in Seq(Message) /\ Len(a) = l + 1 /\ a[l + 1] = x /\ \A i \in 1..l : a[i] = m[i]
    BY <1>0, <1>1, AppendProperties
  <1>4. /\ u \in Seq(Message) /\ Len(u) = l + (c + 1)
        /\ \A i \in 1..l : u[i] = m[i]
        /\ \A q \in 1..c + 1 : u[l + q] = ToolResult(p[q].id, 1, 0)
    <2>1. /\ u \in Seq(Message) /\ Len(u) = Len(m) + Len(p)
          /\ \A i \in 1..Len(m) : u[i] = m[i]
          /\ \A q \in 1..Len(p) : u[Len(m) + q] = ToolResult(p[q].id, 1, 0)
      BY WholeIs
    <2> HIDE DEF u
    <2> QED
      BY <1>1, <2>1
  <1> HIDE DEF a
  <1>5. /\ v \in Seq(Message) /\ Len(v) = (l + 1) + c
        /\ \A i \in 1..l + 1 : v[i] = a[i]
        /\ \A q \in 1..c : v[(l + 1) + q] = ToolResult(Tail(p)[q].id, 1, 0)
    <2>1. /\ v \in Seq(Message) /\ Len(v) = Len(a) + Len(Tail(p))
          /\ \A i \in 1..Len(a) : v[i] = a[i]
          /\ \A q \in 1..Len(Tail(p)) : v[Len(a) + q] = ToolResult(Tail(p)[q].id, 1, 0)
      BY <1>2, <1>3, WholeIs
    <2> HIDE DEF v
    <2> QED
      BY <1>2, <1>3, <2>1
  <1> HIDE DEF u, v
  <1>6. Alike(u, v)
    <2>1. ASSUME NEW i \in 1..l + (c + 1)
          PROVE  u[i].role = v[i].role /\ u[i].id = v[i].id /\ u[i].calls = v[i].calls
      <3>1. CASE i \in 1..l
        BY <1>3, <1>4, <1>5, <3>1
      <3>2. CASE i = l + 1
        <4>1. u[l + 1] = ToolResult(p[1].id, 1, 0) /\ v[i] = x
          <5>1. 1 \in 1..c + 1 /\ l + 1 \in 1..l + 1
            BY <1>1
          <5>2. u[l + 1] = ToolResult(p[1].id, 1, 0)
            BY <1>4, <5>1
          <5>3. v[l + 1] = x
            BY <1>3, <1>5, <5>1
          <5> QED
            BY <3>2, <5>2, <5>3
        <4> QED
          BY <1>0, <1>2, <3>2, <4>1 DEF ToolResult
      <3>3. CASE i > l + 1
        <4>1. PICK q \in 1..c : i = (l + 1) + q
          <5>1. i - (l + 1) \in 1..c /\ i = (l + 1) + (i - (l + 1))
            BY <3>3
          <5> QED
            BY <5>1
        <4>2. q + 1 \in 1..c + 1 /\ l + (q + 1) = i
          BY <4>1
        <4>3. u[l + (q + 1)] = ToolResult(p[q + 1].id, 1, 0)
          BY <1>4, <4>2
        <4>4. v[(l + 1) + q] = ToolResult(p[q + 1].id, 1, 0)
          BY <1>2, <1>5
        <4>5. u[i] = v[i]
          BY <4>1, <4>2, <4>3, <4>4
        <4> QED
          BY <4>5
      <3> QED
        BY <3>1, <3>2, <3>3
    <2>2. Len(u) = l + (c + 1) /\ Len(v) = Len(u)
      BY <1>4, <1>5
    <2> QED
      BY <2>1, <2>2 DEF Alike
  <1>7. (Backed(u) => Backed(v)) /\ (AllAnswered(u) => AllAnswered(v))
    BY <1>4, <1>5, <1>6, BackedAlike
  <1> QED
    BY <1>2, <1>3, <1>7 DEF InOrder, u, v, a, x

\* A reply that makes the calls that are pending then.
LEMMA WholeReplied ==
    ASSUME NEW m \in Seq(Message), NEW p \in Seq(Call), NEW ids \in Seq(Nat),
           Len(ids) = Len(p), \A k \in 1..Len(p) : p[k].id = ids[k],
           NEW n \in Nat, NEW d \in Depth
    PROVE  LET x == Assistant(ids, n, d) IN
           /\ Append(m, x) \in Seq(Message)
           /\ Backed(m) => Backed(Whole(Append(m, x), p))
           /\ Backed(m) /\ AllAnswered(m) => InOrder(Append(m, x), p)
  <1> DEFINE x == Assistant(ids, n, d)
             a == Append(m, x)
             u == Whole(a, p)
  <1>0. x \in Message /\ x.role = "assistant" /\ x.calls = ids
    <2>1. 0 \in Nat
      OBVIOUS
    <2> QED
      BY <2>1, MessagesAre DEF Assistant
  <1> HIDE DEF x
  <1>1. /\ a \in Seq(Message) /\ Len(a) = Len(m) + 1 /\ a[Len(m) + 1] = x
        /\ \A i \in 1..Len(m) : a[i] = m[i]
        /\ Len(m) \in Nat
    BY <1>0, AppendProperties, LenProperties
  <1> HIDE DEF a
  <1>2. /\ u \in Seq(Message) /\ Len(u) = Len(a) + Len(p)
        /\ \A i \in 1..Len(a) : u[i] = a[i]
        /\ \A q \in 1..Len(p) : u[Len(a) + q] = ToolResult(p[q].id, 1, 0)
    BY <1>1, WholeIs
  <1> HIDE DEF u
  <1>3. Grown(m, u, x)
    <2>1. Len(u) = Len(m) + 1 + Len(x.calls)
      BY <1>0, <1>1, <1>2
    <2>2. (\A i \in 1..Len(m) : u[i] = m[i]) /\ u[Len(m) + 1] = x
      BY <1>1, <1>2
    <2>3. ASSUME NEW k \in 1..Len(x.calls)
          PROVE  LET r == u[Len(m) + 1 + k] IN
                 r.role = "tool" /\ r.id = x.calls[k] /\ r.calls = <<>>
      <3>1. k \in 1..Len(p) /\ p[k].id = x.calls[k]
        BY <1>0
      <3>2. u[Len(m) + 1 + k] = ToolResult(p[k].id, 1, 0)
        BY <1>1, <1>2, <3>1
      <3> QED
        BY <3>1, <3>2 DEF ToolResult
    <2> QED
      BY <1>0, <2>1, <2>2, <2>3 DEF Grown
  <1>4. (Backed(m) => Backed(u)) /\ (AllAnswered(m) => AllAnswered(u))
    BY <1>0, <1>2, <1>3, BackedGrows
  <1> QED
    BY <1>1, <1>4 DEF InOrder, u, a, x

\* Calls that are given up.
LEMMA WholeDropped ==
    ASSUME NEW m \in Seq(Message), NEW p \in Seq(Call), Backed(Whole(m, p))
    PROVE  Backed(m)
  <1> DEFINE u == Whole(m, p)
  <1>1. /\ u \in Seq(Message) /\ Len(m) <= Len(u)
        /\ \A i \in 1..Len(m) : m[i] = u[i]
    BY WholeIs
  <1> QED
    BY <1>1, BackedPrefix

\* What a step says: nothing, or one message that is no result and makes no
\* calls.
Plain(said) ==
    \/ said = <<>>
    \/ \E x \in Message : said = <<x>> /\ x.role # "tool" /\ x.calls = <<>>

\* Saying nothing, or one message that calls no tool, keeps a conversation as
\* well formed as it is.
LEMMA SaidIs ==
    ASSUME NEW m \in Seq(Message), NEW said, Plain(said)
    PROVE  /\ said \in Seq(Message) /\ m \o said \in Seq(Message)
           /\ Backed(m) => Backed(m \o said)
           /\ AllAnswered(m) => AllAnswered(m \o said)
           /\ Own(m \o said) => Own(m)
  <1>1. CASE said = <<>>
    <2>1. m \o said = m
      BY <1>1, ConcatEmptySeq
    <2>2. said \in Seq(Message)
      BY <1>1
    <2> QED
      BY <2>1, <2>2
  <1>2. ASSUME NEW x \in Message, said = <<x>>, x.role # "tool", x.calls = <<>>
        PROVE  /\ said \in Seq(Message) /\ m \o said \in Seq(Message)
               /\ Backed(m) => Backed(m \o said)
               /\ AllAnswered(m) => AllAnswered(m \o said)
               /\ Own(m \o said) => Own(m)
    <2>1. m \o said = Append(m, x)
      BY <1>2, Longer
    <2>2. /\ Append(m, x) \in Seq(Message)
          /\ Backed(m) => Backed(Append(m, x))
          /\ AllAnswered(m) => AllAnswered(Append(m, x))
      BY <1>2, BackedAppend
    <2>3. Own(Append(m, x)) => Own(m)
      <3>1. /\ Len(Append(m, x)) = Len(m) + 1 /\ Len(m) \in Nat
            /\ \A i \in 1..Len(m) : Append(m, x)[i] = m[i]
        BY AppendProperties, LenProperties
      <3> QED
        BY <3>1 DEF Own
    <2>4. said \in Seq(Message)
      BY <1>2
    <2> QED
      BY <2>1, <2>2, <2>3, <2>4
  <1> QED
    BY <1>1, <1>2 DEF Plain

\* A transcript that has one message more.
LEMMA OwnAppend ==
    ASSUME NEW f \in Seq(Message), NEW x \in Message, Own(Append(f, x))
    PROVE  Own(f) /\ x.by = 0
  <1>1. /\ Len(Append(f, x)) = Len(f) + 1 /\ Len(f) \in Nat
        /\ Append(f, x)[Len(f) + 1] = x
        /\ \A i \in 1..Len(f) : Append(f, x)[i] = f[i]
    BY AppendProperties, LenProperties
  <1>2. Len(f) + 1 \in 1..Len(Append(f, x)) /\ \A i \in 1..Len(f) : i \in 1..Len(Append(f, x))
    BY <1>1
  <1> QED
    BY <1>1, <1>2 DEF Own

\* No calls are left over when the agent is about to send, sends, or is at
\* the prompt, nor of a sub-agent that is gone.
Idle ==
    /\ phase \in {"off", "prompt", "stream", "waiting"} => pending[depth] = <<>>
    /\ depth = 0 => pending[1] = <<>>
    /\ starts >= 1

\* Until the process is restarted, or calls are abandoned, each agent's
\* conversation is in order.
Ordered ==
    starts = 1 /\ ~CallsAbandoned =>
      \A d \in Depth : d <= depth => InOrder(msgs[d], pending[d])

\* As long as there was no delegation, neither the conversation nor the
\* transcript has results without their calls.
Resumable ==
    Own(file) =>
      depth = 0 /\ Backed(Whole(msgs[0], pending[0])) /\ Backed(Whole(file, pending[0]))

OrderInv == TypeInv /\ Idle /\ Ordered /\ Resumable

\* What the proofs below keep needing of the types.
LEMMA Typed ==
    ASSUME TypeInv
    PROVE  /\ depth \in Depth /\ 0 \in Depth /\ 1 \in Depth
           /\ msgs \in [Depth -> Seq(Message)] /\ pending \in [Depth -> Seq(Call)]
           /\ msgs[depth] \in Seq(Message) /\ pending[depth] \in Seq(Call)
           /\ msgs[0] \in Seq(Message) /\ pending[0] \in Seq(Call)
           /\ file \in Seq(Message) /\ nextId \in Nat /\ starts \in Nat
  BY DEF TypeInv, TypeOK, Depth

\* Nothing is pending: what is there is all there is.
LEMMA WholeAlone ==
    ASSUME NEW m \in Seq(Message)
    PROVE  /\ Whole(m, <<>>) = m
           /\ InOrder(m, <<>>) <=> Backed(m) /\ AllAnswered(m)
  <1> DEFINE none == <<>>
  <1>1. none \in Seq(Call) /\ none = <<>>
    OBVIOUS
  <1> HIDE DEF none
  <1>2. Whole(m, none) = m
    BY <1>1, WholeIs
  <1> QED
    BY <1>1, <1>2 DEF InOrder

\* A step that leaves the conversations alone.
LEMMA OrderKept ==
    ASSUME OrderInv, UNCHANGED <<msgs, pending, file, depth, starts>>,
           CallsAbandoned => CallsAbandoned',
           \/ phase' \notin {"off", "prompt", "stream", "waiting"}
           \/ phase' = phase
           \/ pending[depth] = <<>>
    PROVE  Idle' /\ Ordered' /\ Resumable'
  <1>1. Idle'
    BY DEF OrderInv, Idle
  <1>2. Ordered'
    BY DEF OrderInv, Ordered
  <1>3. Resumable'
    BY DEF OrderInv, Resumable
  <1> QED
    BY <1>1, <1>2, <1>3

\* A result for the call the agent is at.
LEMMA OrderAnswered ==
    ASSUME OrderInv, NEW n \in Nat, pending[depth] # <<>>,
           appendToolResult(depth, n), UNCHANGED runVars,
           CallsAbandoned => CallsAbandoned'
    PROVE  Idle' /\ Ordered' /\ Resumable'
  <1> DEFINE x == ToolResult(Head(pending[depth]).id, n, depth)
  <1>1. /\ msgs' = [msgs EXCEPT ![depth] = Append(msgs[depth], x)]
        /\ file' = Append(file, x)
        /\ pending' = [pending EXCEPT ![depth] = Tail(pending[depth])]
        /\ phase' = "dispatch" /\ depth' = depth /\ starts' = starts
    BY DEF appendToolResult, runVars
  <1>2. TypeInv
    BY DEF OrderInv
  <1>3. /\ Backed(Whole(msgs[depth], pending[depth])) =>
             Backed(Whole(Append(msgs[depth], x), Tail(pending[depth])))
        /\ InOrder(msgs[depth], pending[depth]) =>
             InOrder(Append(msgs[depth], x), Tail(pending[depth]))
        /\ Backed(Whole(file, pending[depth])) =>
             Backed(Whole(Append(file, x), Tail(pending[depth])))
    BY <1>2, Typed, WholeAnswered
  <1>4. x \in Message
    <2>1. Head(pending[depth]).id \in Nat
      BY <1>2, Typed, CallsAre
    <2> QED
      BY <1>2, <2>1, Typed, EmptySeq, MessagesAre
  <1> HIDE DEF x
  <1>5. /\ msgs'[depth] = Append(msgs[depth], x) /\ pending'[depth] = Tail(pending[depth])
        /\ \A d \in Depth : d # depth => msgs'[d] = msgs[d] /\ pending'[d] = pending[d]
    BY <1>1, <1>2, Typed
  <1>6. Idle'
    <2>1. depth = 0 => pending'[1] = pending[1]
      BY <1>2, <1>5, Typed
    <2> QED
      BY <1>1, <2>1 DEF OrderInv, Idle
  <1>7. Ordered'
    BY <1>1, <1>3, <1>5 DEF OrderInv, Ordered
  <1>8. Resumable'
    <2> SUFFICES ASSUME Own(file')
                 PROVE  /\ depth' = 0 /\ Backed(Whole(msgs'[0], pending'[0]))
                        /\ Backed(Whole(file', pending'[0]))
      BY DEF Resumable
    <2>1. Own(file)
      BY <1>1, <1>2, <1>4, Typed, OwnAppend
    <2> QED
      BY <1>1, <1>3, <1>5, <2>1 DEF OrderInv, Resumable
  <1> QED
    BY <1>6, <1>7, <1>8

\* A conversation that is only a system prompt, or a sub-agent's first
\* message after it.
LEMMA OrderFresh ==
    ASSUME NEW s \in Message, s.role = "system", s.calls = <<>>
    PROVE  /\ <<s>> \in Seq(Message) /\ Backed(<<s>>) /\ AllAnswered(<<s>>)
           /\ \A x \in Message : x.role # "tool" /\ x.calls = <<>> =>
                <<s, x>> \in Seq(Message) /\ Backed(<<s, x>>) /\ AllAnswered(<<s, x>>)
  <1> DEFINE p == <<s>>
  <1>1. p \in Seq(Message) /\ Len(p) = 1 /\ p[1] = s
    OBVIOUS
  <1> HIDE DEF p
  <1>2. Backed(p)
    BY <1>1 DEF Backed
  <1>3. AllAnswered(p)
    <2>1. \A i \in 1..Len(p) : Len(p[i].calls) = 0
      BY <1>1
    <2> QED
      BY <2>1 DEF AllAnswered
  <1>4. ASSUME NEW x \in Message, x.role # "tool", x.calls = <<>>
        PROVE  <<s, x>> \in Seq(Message) /\ Backed(<<s, x>>) /\ AllAnswered(<<s, x>>)
    <2> DEFINE q == <<s, x>>
    <2>1. q \in Seq(Message) /\ Len(q) = 2 /\ q[1] = s /\ q[2] = x
      OBVIOUS
    <2> HIDE DEF q
    <2>2. Grown(p, q, x)
      <3>1. Len(x.calls) = 0
        BY <1>4
      <3>2. Len(q) = Len(p) + 1 + Len(x.calls)
        BY <1>1, <2>1, <3>1
      <3>3. (\A i \in 1..Len(p) : q[i] = p[i]) /\ q[Len(p) + 1] = x
        BY <1>1, <2>1
      <3> QED
        BY <1>4, <3>1, <3>2, <3>3 DEF Grown
    <2>3. (Backed(p) => Backed(q)) /\ (AllAnswered(p) => AllAnswered(q))
      BY <1>1, <2>1, <2>2, BackedGrows
    <2> QED
      BY <1>2, <1>3, <2>1, <2>3 DEF q
  <1> QED
    BY <1>1, <1>2, <1>3, <1>4 DEF p

\* A process that goes leaves a transcript that has its calls.
LEMMA OrderOff == OrderInv /\ Off => Idle' /\ Ordered' /\ Resumable'
  <1> SUFFICES ASSUME OrderInv, Off PROVE Idle' /\ Ordered' /\ Resumable'
    OBVIOUS
  <1> DEFINE s == System(0)
  <1>1. TypeInv
    BY DEF OrderInv
  <1>2. /\ phase' = "off" /\ depth' = 0 /\ file' = file /\ starts' = starts
        /\ msgs'[0] = <<s>> /\ pending'[0] = <<>> /\ pending'[1] = <<>>
    BY DEF Off, NoMsgs, NoCalls, Depth
  <1>3. s \in Message /\ s.role = "system" /\ s.calls = <<>>
    BY DEF System, Message
  <1> HIDE DEF s
  <1>4. <<s>> \in Seq(Message) /\ Backed(<<s>>) /\ AllAnswered(<<s>>)
    BY <1>3, OrderFresh
  <1>5. Idle'
    BY <1>2 DEF OrderInv, Idle
  <1>6. Ordered'
    <2>1. InOrder(msgs'[0], pending'[0])
      BY <1>2, <1>4, WholeAlone
    <2>2. \A d \in Depth : d <= depth' => d = 0
      BY <1>2 DEF Depth
    <2> QED
      BY <2>1, <2>2 DEF Ordered
  <1>7. Resumable'
    <2>1. Own(file) => Backed(file)
      BY <1>1, Typed, WholeDropped DEF OrderInv, Resumable
    <2>2. Whole(file, <<>>) = file /\ Whole(<<s>>, <<>>) = <<s>>
      BY <1>1, <1>4, Typed, WholeAlone
    <2> QED
      BY <1>2, <1>4, <2>1, <2>2 DEF Resumable
  <1> QED
    BY <1>5, <1>6, <1>7

\* The end of a run.
LEMMA OrderFinished ==
    ASSUME OrderInv, phase \in {"stream", "waiting", "confirm"},
           NEW said, Plain(said), NEW evs, NEW r,
           FinishRun(said, evs, r),
           pending[depth] = <<>> \/ (said = <<>> /\ (depth = 0 => CallsAbandoned')),
           CallsAbandoned => CallsAbandoned'
    PROVE  Idle' /\ Ordered' /\ Resumable'
  <1>1. TypeInv
    BY DEF OrderInv
  <1>2. CASE depth = 0
    <2>1. /\ phase' = "prompt" /\ depth' = depth /\ starts' = starts
          /\ msgs' = [msgs EXCEPT ![0] = msgs[0] \o said]
          /\ file' = file \o said
          /\ pending' = [pending EXCEPT ![0] = <<>>]
      BY <1>2 DEF FinishRun
    <2>2. /\ msgs'[0] = msgs[0] \o said /\ pending'[0] = <<>> /\ pending'[1] = pending[1]
      BY <1>1, <2>1, Typed
    <2>3. /\ msgs[0] \o said \in Seq(Message)
          /\ Backed(msgs[0]) => Backed(msgs[0] \o said)
          /\ AllAnswered(msgs[0]) => AllAnswered(msgs[0] \o said)
          /\ file \o said \in Seq(Message)
          /\ Backed(file) => Backed(file \o said)
          /\ Own(file \o said) => Own(file)
      BY <1>1, Typed, SaidIs
    <2>4. Idle'
      BY <1>2, <2>1, <2>2 DEF OrderInv, Idle
    <2>5. Ordered'
      <3> SUFFICES ASSUME starts' = 1, ~CallsAbandoned', NEW d \in Depth, d <= depth'
                   PROVE  InOrder(msgs'[d], pending'[d])
        BY DEF Ordered
      <3>1. d = 0
        BY <1>2, <2>1 DEF Depth
      <3>2. pending[0] = <<>> /\ InOrder(msgs[0], pending[0])
        BY <1>1, <1>2, <2>1, Typed DEF OrderInv, Ordered
      <3>3. Backed(msgs[0]) /\ AllAnswered(msgs[0])
        BY <1>1, <3>2, Typed, WholeAlone
      <3> QED
        BY <2>2, <2>3, <3>1, <3>3, WholeAlone
    <2>6. Resumable'
      <3> SUFFICES ASSUME Own(file')
                   PROVE  /\ depth' = 0 /\ Backed(Whole(msgs'[0], pending'[0]))
                          /\ Backed(Whole(file', pending'[0]))
        BY DEF Resumable
      <3>1. /\ Backed(Whole(msgs[0], pending[0]))
            /\ Backed(Whole(file, pending[0]))
        BY <2>1, <2>3 DEF OrderInv, Resumable
      <3>2. Backed(msgs[0]) /\ Backed(file)
        BY <1>1, <3>1, Typed, WholeDropped
      <3>3. /\ Whole(msgs[0] \o said, <<>>) = msgs[0] \o said
            /\ Whole(file \o said, <<>>) = file \o said
        BY <2>3, WholeAlone
      <3> QED
        BY <1>2, <2>1, <2>2, <2>3, <3>2, <3>3
    <2> QED
      BY <2>4, <2>5, <2>6
  <1>3. CASE depth = 1
    <2>1. PICK n \in ResultSizes :
            LET c == Head(pending[0])
                m == ToolResult(c.id, n, 0)
            IN /\ msgs' = [msgs EXCEPT ![0] = Append(@, m), ![1] = <<>>]
               /\ file' = Append(file \o said, m)
               /\ pending' = [pending EXCEPT ![0] = Tail(@), ![1] = <<>>]
               /\ trace' = Append(trace \o evs, Event("tool_call", 0, c.req, "done"))
      <3>1. ~ (depth = 0)
        BY <1>3
      <3> QED
        BY <3>1, Zenon DEF FinishRun
    <2>2. phase' = "dispatch" /\ depth' = 0 /\ starts' = starts
      BY <1>3 DEF FinishRun
    <2> DEFINE m == ToolResult(Head(pending[0]).id, n, 0)
    <2>3. /\ msgs' = [msgs EXCEPT ![0] = Append(msgs[0], m), ![1] = <<>>]
          /\ file' = Append(file \o said, m)
          /\ pending' = [pending EXCEPT ![0] = Tail(pending[0]), ![1] = <<>>]
      BY <2>1
    <2>4. pending[0] # <<>> /\ n \in Nat
      BY <1>1, <1>3, AgentAssumption DEF TypeInv, AtWork
    <2>5. InOrder(msgs[0], pending[0]) => InOrder(Append(msgs[0], m), Tail(pending[0]))
      BY <1>1, <2>4, Typed, WholeAnswered
    <2>6. m \in Message
      <3>1. Head(pending[0]).id \in Nat
        BY <1>1, <2>4, Typed, CallsAre
      <3> QED
        BY <1>1, <2>4, <3>1, Typed, EmptySeq, MessagesAre
    <2> HIDE DEF m
    <2>7. /\ msgs'[0] = Append(msgs[0], m) /\ pending'[0] = Tail(pending[0])
          /\ pending'[1] = <<>>
      BY <1>1, <2>3, Typed
    <2>8. Idle'
      BY <2>2, <2>7 DEF OrderInv, Idle
    <2>9. Ordered'
      <3> SUFFICES ASSUME starts' = 1, ~CallsAbandoned', NEW d \in Depth, d <= depth'
                   PROVE  InOrder(msgs'[d], pending'[d])
        BY DEF Ordered
      <3>1. d = 0 /\ 0 <= depth
        BY <1>3, <2>2 DEF Depth
      <3>2. InOrder(msgs[0], pending[0])
        BY <1>1, <2>2, <3>1, Typed DEF OrderInv, Ordered
      <3> QED
        BY <2>5, <2>7, <3>1, <3>2
    <2>10. Resumable'
      <3>1. file \o said \in Seq(Message) /\ (Own(file \o said) => Own(file))
        BY <1>1, Typed, SaidIs
      <3>2. Own(file') => Own(file)
        BY <2>3, <2>6, <3>1, OwnAppend
      <3>3. ~ Own(file)
        BY <1>3 DEF OrderInv, Resumable
      <3> QED
        BY <3>2, <3>3 DEF Resumable
    <2> QED
      BY <2>8, <2>9, <2>10
  <1> QED
    BY <1>2, <1>3 DEF FinishRun

\* A reply that makes calls.
LEMMA OrderReplied ==
    ASSUME OrderInv, NEW reqs \in Replies, NEW n \in ReplySizes, NEW r \in Rates,
           Reply(reqs, n, r), TypeInv'
    PROVE  Idle' /\ Ordered' /\ Resumable'
  <1> DEFINE ids == [k \in 1..Len(reqs) |-> nextId + k - 1]
             calls == [k \in 1..Len(reqs) |-> [id |-> ids[k], req |-> reqs[k]]]
             x == Assistant(ids, n, depth)
  <1>1. TypeInv /\ n \in Nat /\ pending[depth] = <<>>
    <2>1. phase = "waiting"
      BY DEF Reply
    <2> QED
      BY <2>1, AgentAssumption DEF OrderInv, Idle
  <1>2. /\ msgs' = [msgs EXCEPT ![depth] = Append(msgs[depth], x)]
        /\ file' = Append(file, x)
        /\ pending' = [pending EXCEPT ![depth] = calls]
        /\ phase' = "dispatch" /\ depth' = depth /\ starts' = starts /\ trace' = trace
    BY DEF Reply, runVars
  <1>3. Len(reqs) \in Nat
    BY AgentAssumption, LenProperties
  <1>4. ids \in Seq(Nat) /\ Len(ids) = Len(reqs)
    <2>1. \A k \in 1..Len(reqs) : nextId + k - 1 \in Nat
      BY <1>1, <1>3, Typed
    <2>2. ids \in Seq(Nat)
      BY <1>3, <2>1, IsASeq
    <2>3. DOMAIN ids = 1..Len(reqs)
      OBVIOUS
    <2> HIDE DEF ids
    <2> QED
      BY <1>3, <2>2, <2>3, LenProperties
  <1>5. pending'[depth] = calls /\ calls \in Seq(Call)
    <2>1. pending'[depth] \in Seq(Call)
      BY <1>1, <1>2, Typed DEF TypeInv, TypeOK
    <2>2. pending'[depth] = calls
      <3> HIDE DEF calls
      <3> QED
        BY <1>1, <1>2, Typed
    <2> HIDE DEF calls
    <2> QED
      BY <2>1, <2>2
  <1>6. Len(ids) = Len(calls) /\ \A k \in 1..Len(calls) : calls[k].id = ids[k]
    <2>1. DOMAIN calls = 1..Len(reqs) /\ \A k \in 1..Len(reqs) : calls[k].id = ids[k]
      OBVIOUS
    <2> HIDE DEF calls, ids
    <2>2. Len(calls) = Len(reqs)
      BY <1>3, <1>5, <2>1, LenProperties
    <2> QED
      BY <1>4, <2>1, <2>2
  <1> HIDE DEF ids, calls
  <1>7. /\ Append(msgs[depth], x) \in Seq(Message)
        /\ Backed(msgs[depth]) => Backed(Whole(Append(msgs[depth], x), calls))
        /\ Backed(msgs[depth]) /\ AllAnswered(msgs[depth]) =>
             InOrder(Append(msgs[depth], x), calls)
        /\ Backed(file) => Backed(Whole(Append(file, x), calls))
    BY <1>1, <1>4, <1>5, <1>6, Typed, WholeReplied
  <1>8. x \in Message
    <2>1. 0 \in Nat
      OBVIOUS
    <2> QED
      BY <1>1, <1>4, <2>1, Typed, MessagesAre
  <1> HIDE DEF x
  <1>9. /\ msgs'[depth] = Append(msgs[depth], x)
        /\ \A d \in Depth : d # depth => msgs'[d] = msgs[d] /\ pending'[d] = pending[d]
    BY <1>1, <1>2, Typed
  <1>10. CallsAbandoned' = CallsAbandoned
    BY <1>2 DEF CallsAbandoned
  <1>11. Idle'
    <2>1. depth = 0 => pending'[1] = pending[1]
      BY <1>1, <1>9, Typed
    <2> QED
      BY <1>2, <2>1 DEF OrderInv, Idle
  <1>12. Ordered'
    <2> SUFFICES ASSUME starts' = 1, ~CallsAbandoned', NEW d \in Depth, d <= depth'
                 PROVE  InOrder(msgs'[d], pending'[d])
      BY DEF Ordered
    <2>1. InOrder(msgs[d], pending[d])
      BY <1>2, <1>10 DEF OrderInv, Ordered
    <2>2. CASE d = depth
      <3>1. Backed(msgs[depth]) /\ AllAnswered(msgs[depth])
        BY <1>1, <2>1, <2>2, Typed, WholeAlone
      <3> QED
        BY <1>5, <1>7, <1>9, <2>2, <3>1
    <2>3. CASE d # depth
      BY <1>9, <2>1, <2>3
    <2> QED
      BY <2>2, <2>3
  <1>13. Resumable'
    <2> SUFFICES ASSUME Own(file')
                 PROVE  /\ depth' = 0 /\ Backed(Whole(msgs'[0], pending'[0]))
                        /\ Backed(Whole(file', pending'[0]))
      BY DEF Resumable
    <2>1. Own(file)
      BY <1>1, <1>2, <1>8, Typed, OwnAppend
    <2>2. /\ depth = 0 /\ Backed(Whole(msgs[0], pending[0]))
          /\ Backed(Whole(file, pending[0]))
      BY <2>1 DEF OrderInv, Resumable
    <2>3. Backed(msgs[0]) /\ Backed(file)
      BY <1>1, <2>2, Typed, WholeDropped
    <2> QED
      BY <1>2, <1>5, <1>7, <1>9, <2>2, <2>3
  <1> QED
    BY <1>11, <1>12, <1>13

\* t begins with s.
Continues(s, t) ==
    Len(s) \in Nat /\ Len(t) \in Nat /\ Len(s) <= Len(t) /\ \A i \in 1..Len(s) : t[i] = s[i]

\* A history with events behind it continues itself.
LEMMA ContinuesIs ==
    ASSUME NEW s \in Seq(Record), NEW evs \in Seq(Record), NEW e \in Record
    PROVE  /\ Continues(s, s) /\ Continues(s, Append(s, e))
           /\ Continues(s, s \o evs) /\ Continues(s, Append(s \o evs, e))
  <1> DEFINE t == s \o evs
  <1>1. /\ t \in Seq(Record) /\ Len(s) \in Nat /\ Len(evs) \in Nat /\ Len(t) = Len(s) + Len(evs)
        /\ \A i \in 1..Len(s) : t[i] = s[i]
    BY ConcatProperties, LenProperties
  <1> HIDE DEF t
  <1>2. ASSUME NEW u \in Seq(Record)
        PROVE  /\ Len(Append(u, e)) = Len(u) + 1
               /\ \A i \in 1..Len(u) : Append(u, e)[i] = u[i]
    BY AppendProperties
  <1>3. Continues(s, s) /\ Continues(s, Append(s, e)) /\ Continues(s, t)
    BY <1>1, <1>2 DEF Continues
  <1>4. Continues(s, Append(t, e))
    <2>1. /\ Len(Append(t, e)) = Len(t) + 1
          /\ \A i \in 1..Len(t) : Append(t, e)[i] = t[i]
      BY <1>1, <1>2
    <2> QED
      BY <1>1, <2>1 DEF Continues
  <1> QED
    BY <1>3, <1>4 DEF t

\* Nothing that has happened is taken back.
LEMMA HistoryContinues == TypeInv /\ [Next]_vars => Continues(trace, trace')
  <1> SUFFICES ASSUME TypeInv, [Next]_vars PROVE Continues(trace, trace')
    OBVIOUS
  <1> DEFINE none == <<>>
             start == Event("mode", 0, NoTool, InitMode)
  <1>1. trace \in Seq(Record) /\ none \in Seq(Record) /\ start \in Record
    BY AgentAssumption, EventsAre DEF TypeInv, Kind, Word, Depth
  <1>2. depth \in Depth /\ 0 \in Depth /\ 1 \in Depth
    BY Typed DEF Depth
  <1>3. phase \in {"confirm", "approved", "tool"} => Current.req \in Request \cup {NoTool}
    BY CallsAre, Typed DEF TypeInv, AtWork, Current
  <1>4. CASE UNCHANGED trace
    BY <1>1, <1>4, ContinuesIs
  <1>5. CASE \E e \in Record : trace' = Append(trace, e)
    BY <1>1, <1>5, ContinuesIs
  <1>6. CASE \E evs \in Seq(Record) : trace' = trace \o evs
    BY <1>1, <1>6, ContinuesIs
  <1>7. ASSUME phase \in {"stream", "waiting", "confirm"},
               NEW said, NEW evs \in Seq(Record), NEW r, FinishRun(said, evs, r)
        PROVE  Continues(trace, trace')
    <2>1. CASE depth = 0
      <3>1. trace' = trace \o evs
        BY <1>7, <2>1 DEF FinishRun
      <3> QED
        BY <1>1, <1>7, <3>1, ContinuesIs
    <2>2. CASE depth = 1
      <3> DEFINE e == Event("tool_call", 0, Head(pending[0]).req, "done")
      <3>1. trace' = Append(trace \o evs, e)
        BY <1>7, <2>2 DEF FinishRun
      <3>2. e \in Record
        <4>1. Head(pending[0]).req \in Request \cup {NoTool}
          BY <2>2, CallsAre, Typed DEF TypeInv, AtWork
        <4> QED
          BY <1>2, <4>1, EventsAre DEF Kind, Word
      <3> QED
        BY <1>1, <3>1, <3>2, ContinuesIs
    <2> QED
      BY <1>7, <2>1, <2>2 DEF FinishRun
  <1>8. CASE UNCHANGED vars
    BY <1>4, <1>8 DEF vars
  <1>9. CASE \/ UserPrompt \/ Compact \/ Reset \/ Exit \/ SendRequest \/ AnyReply \/ Cancelled
             \/ NextTurn \/ BadCall \/ Ask \/ ToolFails \/ Interrupt \/ Kill
    BY <1>4, <1>9 DEF UserPrompt, Compact, Reset, Exit, SendRequest, AnyReply, Reply, Cancelled,
                      NextTurn, BadCall, Ask, ToolFails, Interrupt, Kill, Off
  <1>10. CASE \E m \in Mode : SetMode(m)
    <2>1. PICK m \in Mode : trace' = Append(trace, Event("mode", 0, NoTool, m))
      BY <1>10 DEF SetMode
    <2>2. Event("mode", 0, NoTool, m) \in Record
      BY <1>2, EventsAre DEF Kind, Word
    <2> QED
      BY <1>5, <2>1, <2>2
  <1>11. CASE Resume
    BY <1>1, <1>5, <1>11 DEF Resume
  <1>12. CASE Check
    <2> DEFINE d == Evaluate(mode, remembered, Current.req)
    <2>1. /\ trace' = Append(trace, Event("permission", depth, Current.req, d))
          /\ Current.req \in Request
      BY <1>12, RegistryIs DEF Check
    <2>2. mode \in Mode
      BY DEF TypeInv, TypeOK
    <2>3. d \in {"allow", "deny", "ask"}
      BY <2>1, <2>2, Decides
    <2> HIDE DEF d
    <2>4. Event("permission", depth, Current.req, d) \in Record
      BY <1>2, <2>1, <2>3, EventsAre DEF Kind, Word
    <2> QED
      BY <1>5, <2>1, <2>4
  <1>13. CASE RunTool
    <2>1. trace' = Append(trace, Event("run", depth, Current.req, "start"))
      BY <1>13 DEF RunTool
    <2>2. Event("run", depth, Current.req, "start") \in Record
      BY <1>2, <1>3, <1>13, EventsAre DEF RunTool, Kind, Word
    <2> QED
      BY <1>5, <2>1, <2>2
  <1>14. CASE \E n \in ResultSizes : ToolDone(n)
    <2>1. trace' = Append(trace, Event("tool_call", depth, Current.req, "done"))
      BY <1>14 DEF ToolDone
    <2>2. Event("tool_call", depth, Current.req, "done") \in Record
      BY <1>2, <1>3, <1>14, EventsAre DEF ToolDone, Kind, Word
    <2> QED
      BY <1>5, <2>1, <2>2
  <1>15. ASSUME phase = "confirm", NEW a \in {"yes", "always", "no", "quit"},
                NEW d \in {"allow", "deny"}
         PROVE  Answered(a, d) \in Seq(Record)
    <2>1. /\ Event("answer", depth, Current.req, a) \in Record
          /\ Event("permission", depth, Current.req, d) \in Record
      BY <1>2, <1>3, <1>15, EventsAre DEF Kind, Word
    <2> QED
      BY <2>1 DEF Answered
  <1>16. CASE AnswerNo \/ \E a \in {"yes", "always"} : AnswerYes(a)
    BY <1>6, <1>15, <1>16 DEF AnswerNo, AnswerYes
  <1>17. CASE AnswerQuit
    BY <1>7, <1>15, <1>17 DEF AnswerQuit
  <1>18. CASE TurnBudgetSpent \/ StreamFails \/ \E n \in ReplySizes, r \in Rates : FinalReply(n, r)
    BY <1>1, <1>7, <1>18 DEF TurnBudgetSpent, StreamFails, FinalReply
  <1>19. CASE Delegate
    <2> DEFINE run == Event("run", 0, Current.req, "start")
               sub == Event("subagent", 1, Current.req, "start")
    <2>1. trace' = trace \o <<run, sub>>
      BY <1>19 DEF Delegate
    <2>2. run \in Record /\ sub \in Record
      BY <1>2, <1>3, <1>19, EventsAre DEF Delegate, Kind, Word
    <2> HIDE DEF run, sub
    <2>3. <<run, sub>> \in Seq(Record)
      BY <2>2
    <2> QED
      BY <1>6, <2>1, <2>3
  <1> QED
    BY <1>8, <1>9, <1>10, <1>11, <1>12, <1>13, <1>14, <1>16, <1>17, <1>18, <1>19 DEF Next

\* What the operator has quit stays quit.
LEMMA AbandonedStays == TypeInv /\ [Next]_vars /\ CallsAbandoned => CallsAbandoned'
  <1> SUFFICES ASSUME TypeInv, [Next]_vars, CallsAbandoned PROVE CallsAbandoned'
    OBVIOUS
  <1>1. PICK i \in 1..Len(trace) :
          trace[i].ev = "answer" /\ trace[i].what = "quit" /\ trace[i].by = 0
    BY DEF CallsAbandoned
  <1>2. i \in 1..Len(trace') /\ trace'[i] = trace[i]
    BY HistoryContinues DEF Continues
  <1> QED
    BY <1>1, <1>2 DEF CallsAbandoned

\* A conversation in order that gets one message more.
LEMMA OrderAppend ==
    ASSUME NEW m \in Seq(Message), NEW x \in Message, x.role # "tool", x.calls = <<>>
    PROVE  /\ InOrder(m, <<>>) => InOrder(Append(m, x), <<>>)
           /\ Backed(Whole(m, <<>>)) => Backed(Whole(Append(m, x), <<>>))
  <1>1. /\ Append(m, x) \in Seq(Message)
        /\ Backed(m) => Backed(Append(m, x))
        /\ AllAnswered(m) => AllAnswered(Append(m, x))
    BY BackedAppend
  <1> QED
    BY <1>1, WholeAlone

\* What the operator asks for.
LEMMA OrderAsked ==
    ASSUME OrderInv, UserPrompt
    PROVE  Idle' /\ Ordered' /\ Resumable'
  <1> DEFINE x == User(nextId, 0)
  <1>1. TypeInv
    BY DEF OrderInv
  <1>2. /\ phase = "prompt" /\ msgs' = [msgs EXCEPT ![0] = Append(msgs[0], x)]
        /\ file' = Append(file, x)
        /\ UNCHANGED <<pending, depth, starts, trace>>
    BY DEF UserPrompt, AtPrompt, runVars
  <1>3. depth = 0 /\ pending[0] = <<>>
    BY <1>2 DEF OrderInv, Idle, TypeInv, AtWork
  <1>4. x \in Message /\ x.role # "tool" /\ x.calls = <<>>
    <2>1. 0 \in Nat
      OBVIOUS
    <2> QED
      BY <1>1, <2>1, Typed, EmptySeq, MessagesAre DEF User
  <1> HIDE DEF x
  <1>5. /\ InOrder(msgs[0], <<>>) => InOrder(Append(msgs[0], x), <<>>)
        /\ Backed(Whole(msgs[0], <<>>)) => Backed(Whole(Append(msgs[0], x), <<>>))
        /\ Backed(Whole(file, <<>>)) => Backed(Whole(Append(file, x), <<>>))
    BY <1>1, <1>4, Typed, OrderAppend
  <1>6. msgs'[0] = Append(msgs[0], x) /\ CallsAbandoned' = CallsAbandoned
    BY <1>1, <1>2, Typed DEF CallsAbandoned
  <1>7. Idle'
    BY <1>2, <1>3 DEF OrderInv, Idle
  <1>8. Ordered'
    <2>1. \A d \in Depth : d <= depth' => d = 0
      BY <1>2, <1>3 DEF Depth
    <2>2. starts = 1 /\ ~CallsAbandoned => InOrder(msgs[0], pending[0])
      BY <1>1, <1>3, Typed DEF OrderInv, Ordered
    <2> QED
      BY <1>2, <1>3, <1>5, <1>6, <2>1, <2>2 DEF Ordered
  <1>9. Resumable'
    <2>1. Own(file') => Own(file)
      BY <1>1, <1>2, <1>4, Typed, OwnAppend
    <2> QED
      BY <1>2, <1>3, <1>5, <1>6, <2>1 DEF OrderInv, Resumable
  <1> QED
    BY <1>7, <1>8, <1>9

\* Compaction, by the operator or before a request.
LEMMA OrderCompacted ==
    ASSUME OrderInv, Compact \/ SendRequest
    PROVE  Idle' /\ Ordered' /\ Resumable'
  <1>1. TypeInv
    BY DEF OrderInv
  <1>2. UNCHANGED <<pending, depth, file, starts, trace>> /\ phase' \in {"prompt", "waiting"}
    BY DEF Compact, SendRequest, AtPrompt, runVars
  <1>3. pending[depth] = <<>>
    BY DEF OrderInv, Idle, Compact, SendRequest, AtPrompt
  <1>4. \A d \in Depth : d # depth => msgs'[d] = msgs[d]
    <2>1. CASE SendRequest
      BY <1>1, <2>1, SentIs
    <2>2. CASE Compact
      <3>1. depth = 0 /\ msgs' = [msgs EXCEPT ![0] = compact(rate[0], msgs[0])]
        BY <1>1, <2>2 DEF Compact, AtPrompt, TypeInv, AtWork
      <3> QED
        BY <1>1, <3>1, Typed
    <2> QED
      BY <2>1, <2>2
  <1>5. msgs'[depth] \in {msgs[depth], compact(rate[depth], msgs[depth])}
    <2>1. CASE SendRequest
      BY <1>1, <2>1, SentIs
    <2>2. CASE Compact
      <3>1. depth = 0 /\ msgs' = [msgs EXCEPT ![0] = compact(rate[0], msgs[0])]
        BY <1>1, <2>2 DEF Compact, AtPrompt, TypeInv, AtWork
      <3> QED
        BY <1>1, <3>1, Typed
    <2> QED
      BY <2>1, <2>2
  <1>6. /\ Backed(msgs[depth]) => Backed(msgs'[depth])
        /\ Backed(msgs[depth]) /\ AllAnswered(msgs[depth]) => AllAnswered(msgs'[depth])
    BY <1>1, <1>5, Measured, BackedCompacted
  <1>7. msgs'[depth] \in Seq(Message)
    BY <1>1, <1>5, Measured, CompactType
  <1>8. Idle' /\ CallsAbandoned' = CallsAbandoned
    BY <1>2, <1>3 DEF OrderInv, Idle, CallsAbandoned
  <1>9. Ordered'
    <2> SUFFICES ASSUME starts' = 1, ~CallsAbandoned', NEW d \in Depth, d <= depth'
                 PROVE  InOrder(msgs'[d], pending'[d])
      BY DEF Ordered
    <2>1. InOrder(msgs[d], pending[d])
      BY <1>2, <1>8 DEF OrderInv, Ordered
    <2>2. CASE d = depth
      <3>1. Backed(msgs[depth]) /\ AllAnswered(msgs[depth])
        BY <1>1, <1>3, <2>1, <2>2, Typed, WholeAlone
      <3> QED
        BY <1>2, <1>3, <1>6, <1>7, <2>2, <3>1, WholeAlone
    <2> QED
      BY <1>2, <1>4, <2>1, <2>2
  <1>10. Resumable'
    <2> SUFFICES ASSUME Own(file')
                 PROVE  /\ depth' = 0 /\ Backed(Whole(msgs'[0], pending'[0]))
                        /\ Backed(Whole(file', pending'[0]))
      BY DEF Resumable
    <2>1. depth = 0 /\ Backed(Whole(msgs[0], pending[0])) /\ Backed(Whole(file, pending[0]))
      BY <1>2 DEF OrderInv, Resumable
    <2>2. Backed(msgs[0])
      BY <1>1, <1>3, <2>1, Typed, WholeAlone
    <2>3. Whole(msgs'[0], <<>>) = msgs'[0]
      BY <1>7, <2>1, WholeAlone
    <2> QED
      BY <1>2, <1>3, <1>6, <2>1, <2>2, <2>3
  <1> QED
    BY <1>8, <1>9, <1>10

\* The system prompts.
LEMMA PromptsAre ==
    ASSUME NEW d \in Depth
    PROVE  System(d) \in Message /\ System(d).role = "system" /\ System(d).calls = <<>>
  <1>1. 0 \in Nat
    OBVIOUS
  <1> QED
    BY <1>1, EmptySeq, MessagesAre DEF System

\* A conversation that is cleared.
LEMMA OrderCleared ==
    ASSUME OrderInv, Reset
    PROVE  Idle' /\ Ordered' /\ Resumable'
  <1> DEFINE s == System(0)
  <1>1. TypeInv
    BY DEF OrderInv
  <1>2. /\ phase = "prompt" /\ msgs' = [msgs EXCEPT ![0] = <<s>>]
        /\ UNCHANGED <<phase, pending, depth, file, starts, trace>>
    BY DEF Reset, AtPrompt, runVars
  <1>3. depth = 0 /\ pending[0] = <<>>
    BY <1>2 DEF OrderInv, Idle, TypeInv, AtWork
  <1>4. s \in Message /\ s.role = "system" /\ s.calls = <<>>
    BY <1>1, Typed, PromptsAre
  <1> HIDE DEF s
  <1>5. <<s>> \in Seq(Message) /\ Backed(<<s>>) /\ AllAnswered(<<s>>)
    BY <1>4, OrderFresh
  <1> DEFINE p == <<s>>
  <1>6. msgs'[0] = p
    BY <1>1, <1>2, Typed
  <1> HIDE DEF p
  <1>7. InOrder(p, <<>>) /\ Backed(Whole(p, <<>>))
    BY <1>5, WholeAlone DEF p
  <1>8. Idle'
    BY <1>2 DEF OrderInv, Idle
  <1>9. Ordered'
    <2>1. \A d \in Depth : d <= depth' => d = 0
      BY <1>2, <1>3 DEF Depth
    <2> QED
      BY <1>2, <1>3, <1>6, <1>7, <2>1 DEF Ordered
  <1>10. Resumable'
    BY <1>2, <1>3, <1>6, <1>7 DEF OrderInv, Resumable
  <1> QED
    BY <1>8, <1>9, <1>10

\* A session that is resumed.
LEMMA OrderResumed ==
    ASSUME OrderInv, Resume
    PROVE  Idle' /\ Ordered' /\ Resumable'
  <1> DEFINE s == System(0)
             new == <<s>> \o file
  <1>1. TypeInv
    BY DEF OrderInv
  <1>2. /\ phase = "off" /\ phase' = "prompt" /\ msgs' = [msgs EXCEPT ![0] = new]
        /\ UNCHANGED <<pending, depth, file>> /\ starts' = starts + 1
    BY DEF Resume, runVars
  <1>3. depth = 0 /\ pending[0] = <<>>
    BY <1>2 DEF OrderInv, Idle, TypeInv, AtWork
  <1>4. s \in Message /\ s.role = "system" /\ s.calls = <<>>
    BY <1>1, Typed, PromptsAre
  <1> HIDE DEF s
  <1>5. new \in Seq(Message) /\ (Backed(file) => Backed(new))
    <2>1. <<s>> \in Seq(Message)
      BY <1>4
    <2> QED
      BY <1>1, <1>4, <2>1, Typed, BackedAfterPrompt, ConcatProperties
  <1> HIDE DEF new
  <1>6. msgs'[0] = new
    BY <1>1, <1>2, Typed
  <1>7. Idle' /\ Ordered'
    <2>1. starts' >= 1 /\ starts' # 1
      BY <1>1, <1>2, Typed DEF OrderInv, Idle
    <2>2. Idle'
      BY <1>2, <1>3, <2>1 DEF OrderInv, Idle
    <2>3. Ordered'
      BY <2>1 DEF Ordered
    <2> QED
      BY <2>2, <2>3
  <1>8. Resumable'
    <2> SUFFICES ASSUME Own(file')
                 PROVE  /\ depth' = 0 /\ Backed(Whole(msgs'[0], pending'[0]))
                        /\ Backed(Whole(file', pending'[0]))
      BY DEF Resumable
    <2>1. Backed(Whole(file, pending[0]))
      BY <1>2 DEF OrderInv, Resumable
    <2>2. Backed(file) /\ Whole(new, <<>>) = new
      BY <1>1, <1>3, <1>5, <2>1, Typed, WholeAlone
    <2> QED
      BY <1>2, <1>3, <1>5, <1>6, <2>1, <2>2
  <1> QED
    BY <1>7, <1>8

\* A sub-agent that begins.
LEMMA OrderDelegated ==
    ASSUME OrderInv, Delegate, CallsAbandoned => CallsAbandoned'
    PROVE  Idle' /\ Ordered' /\ Resumable'
  <1> DEFINE s == System(1)
             x == User(nextId, 1)
             both == <<s, x>>
  <1>1. TypeInv /\ depth = 0
    BY DEF OrderInv, Delegate
  <1>2. /\ msgs' = [msgs EXCEPT ![1] = both] /\ file' = Append(file, x)
        /\ depth' = 1 /\ phase' = "stream" /\ UNCHANGED <<pending, starts>>
    BY DEF Delegate
  <1>3. pending[1] = <<>>
    BY <1>1 DEF OrderInv, Idle
  <1>4. /\ s \in Message /\ s.role = "system" /\ s.calls = <<>>
        /\ x \in Message /\ x.role # "tool" /\ x.calls = <<>> /\ x.by = 1
    <2>1. 0 \in Nat
      OBVIOUS
    <2> QED
      BY <1>1, <2>1, Typed, EmptySeq, PromptsAre, MessagesAre DEF User
  <1> HIDE DEF s, x
  <1>5. both \in Seq(Message) /\ Backed(both) /\ AllAnswered(both)
    BY <1>4, OrderFresh
  <1> HIDE DEF both
  <1>6. InOrder(both, <<>>)
    BY <1>5, WholeAlone
  <1>7. msgs'[1] = both /\ msgs'[0] = msgs[0]
    BY <1>1, <1>2, Typed
  <1>8. Idle'
    BY <1>2, <1>3 DEF OrderInv, Idle
  <1>9. Ordered'
    <2> SUFFICES ASSUME starts' = 1, ~CallsAbandoned', NEW d \in Depth
                 PROVE  InOrder(msgs'[d], pending'[d])
      BY DEF Ordered
    <2>1. InOrder(msgs[0], pending[0])
      BY <1>1, <1>2, Typed DEF OrderInv, Ordered
    <2>2. d = 0 \/ d = 1
      BY DEF Depth
    <2> QED
      BY <1>2, <1>3, <1>6, <1>7, <2>1, <2>2
  <1>10. Resumable'
    <2>1. ~ Own(file')
      BY <1>1, <1>2, <1>4, Typed, OwnAppend
    <2> QED
      BY <2>1 DEF Resumable
  <1> QED
    BY <1>8, <1>9, <1>10

\* To quit at the session's own agent abandons its calls.
LEMMA QuitAbandons ==
    ASSUME TypeInv, AnswerQuit, depth = 0
    PROVE  CallsAbandoned'
  <1> DEFINE quit == Event("answer", 0, Current.req, "quit")
             deny == Event("permission", 0, Current.req, "deny")
             evs == <<quit, deny>>
  <1>1. trace' = trace \o evs
    BY DEF AnswerQuit, FinishRun, Answered
  <1>2. quit \in Record /\ deny \in Record
    <2>1. Current.req \in Request \cup {NoTool}
      BY CallsAre, Typed DEF TypeInv, AtWork, Current, AnswerQuit
    <2> QED
      BY <2>1, Typed, EventsAre DEF Kind, Word
  <1>3. quit.ev = "answer" /\ quit.what = "quit" /\ quit.by = 0
    BY DEF Event
  <1> HIDE DEF quit, deny
  <1>4. evs \in Seq(Record) /\ Len(evs) = 2 /\ evs[1] = quit
    BY <1>2
  <1> HIDE DEF evs
  <1>5. trace \in Seq(Record) /\ Len(trace) \in Nat
    BY LenProperties DEF TypeInv
  <1>6. /\ Len(trace \o evs) = Len(trace) + Len(evs)
        /\ \A i \in 1..Len(trace) + Len(evs) :
             (trace \o evs)[i] = IF i <= Len(trace) THEN trace[i] ELSE evs[i - Len(trace)]
    BY <1>4, <1>5, ConcatProperties
  <1>7. Len(trace) + 1 \in 1..Len(trace') /\ trace'[Len(trace) + 1] = evs[1]
    BY <1>1, <1>4, <1>5, <1>6
  <1> QED
    BY <1>3, <1>4, <1>7 DEF CallsAbandoned

\* The ends of a run.
LEMMA OrderEnded ==
    ASSUME OrderInv, CallsAbandoned => CallsAbandoned',
           \/ TurnBudgetSpent \/ StreamFails \/ AnswerQuit
           \/ \E n \in ReplySizes, r \in Rates : FinalReply(n, r)
    PROVE  Idle' /\ Ordered' /\ Resumable'
  <1>1. TypeInv
    BY DEF OrderInv
  <1>2. Plain(<<>>)
    BY DEF Plain
  <1>3. phase \in {"stream", "waiting"} => pending[depth] = <<>>
    BY DEF OrderInv, Idle
  <1>4. CASE TurnBudgetSpent \/ StreamFails
    BY <1>2, <1>3, <1>4, OrderFinished DEF TurnBudgetSpent, StreamFails
  <1>5. CASE AnswerQuit
    BY <1>1, <1>2, <1>5, QuitAbandons, OrderFinished DEF AnswerQuit
  <1>6. ASSUME NEW n \in ReplySizes, NEW r \in Rates, FinalReply(n, r)
        PROVE  Idle' /\ Ordered' /\ Resumable'
    <2> DEFINE x == Assistant(<<>>, n, depth)
               said == <<x>>
    <2>1. phase = "waiting" /\ FinishRun(said, <<>>, r)
      BY <1>6 DEF FinalReply
    <2>2. x \in Message /\ x.role = "assistant" /\ x.calls = <<>>
      <3>1. <<>> \in Seq(Nat) /\ 0 \in Nat /\ n \in Nat
        BY AgentAssumption, EmptySeq
      <3> QED
        BY <1>1, <3>1, Typed, MessagesAre DEF Assistant
    <2> HIDE DEF x
    <2>3. Plain(said)
      BY <2>2 DEF Plain
    <2> HIDE DEF said
    <2> QED
      BY <1>3, <2>1, <2>3, OrderFinished
  <1> QED
    BY <1>4, <1>5, <1>6

\* Every step keeps the conversations in order.
LEMMA OrderStep == OrderInv /\ [Next]_vars => OrderInv'
  <1> SUFFICES ASSUME OrderInv, [Next]_vars PROVE OrderInv'
    OBVIOUS
  <1>1. TypeInv /\ TypeInv'
    BY TypeStep DEF OrderInv
  <1>2. CallsAbandoned => CallsAbandoned'
    BY <1>1, AbandonedStays
  <1> SUFFICES Idle' /\ Ordered' /\ Resumable'
    BY <1>1 DEF OrderInv
  <1>3. 1 \in Nat /\ ResultSizes \subseteq Nat
    BY AgentAssumption
  <1>4. phase \in {"confirm", "approved", "tool"} => pending[depth] # <<>>
    BY <1>1 DEF TypeInv, AtWork
  <1>5. CASE UNCHANGED vars
    BY <1>2, <1>5, OrderKept DEF vars, convVars, runVars
  <1>6. CASE \/ (\E m \in Mode : SetMode(m)) \/ NextTurn \/ Ask \/ RunTool \/ Interrupt
             \/ \E a \in {"yes", "always"} : AnswerYes(a)
    <2>1. UNCHANGED <<msgs, pending, file, depth, starts>>
      BY <1>6 DEF SetMode, NextTurn, Ask, RunTool, Interrupt, AnswerYes, convVars, runVars
    <2>2. \/ phase' \notin {"off", "prompt", "stream", "waiting"}
          \/ phase' = phase \/ pending[depth] = <<>>
      BY <1>6 DEF SetMode, NextTurn, Ask, RunTool, Interrupt, AnswerYes
    <2> QED
      BY <1>2, <2>1, <2>2, OrderKept
  <1>7. CASE BadCall \/ AnswerNo \/ ToolFails
    <2>1. pending[depth] # <<>> /\ appendToolResult(depth, 1) /\ UNCHANGED runVars
      BY <1>4, <1>7 DEF BadCall, AnswerNo, ToolFails, AtCall
    <2> QED
      BY <1>2, <1>3, <2>1, OrderAnswered
  <1>8. CASE \E n \in ResultSizes : ToolDone(n)
    <2>1. PICK n \in ResultSizes :
            pending[depth] # <<>> /\ appendToolResult(depth, n) /\ UNCHANGED runVars
      BY <1>4, <1>8 DEF ToolDone
    <2> QED
      BY <1>2, <1>3, <2>1, OrderAnswered
  <1>9. CASE Check
    <2>1. pending[depth] # <<>> /\ UNCHANGED runVars
      BY <1>9 DEF Check, AtCall
    <2>2. \/ appendToolResult(depth, 1)
          \/ phase' = "approved" /\ UNCHANGED <<convVars, inputs, starts>>
      BY <1>9 DEF Check
    <2>3. CASE appendToolResult(depth, 1)
      BY <1>2, <1>3, <2>1, <2>3, OrderAnswered
    <2>4. CASE phase' = "approved" /\ UNCHANGED <<convVars, inputs, starts>>
      BY <1>2, <2>1, <2>4, OrderKept DEF convVars, runVars
    <2> QED
      BY <2>2, <2>3, <2>4
  <1>10. CASE Exit \/ Cancelled \/ Kill
    BY <1>10, OrderOff DEF Exit, Cancelled, Kill
  <1>11. CASE AnyReply
    BY <1>1, <1>11, OrderReplied DEF AnyReply
  <1>12. CASE \/ TurnBudgetSpent \/ StreamFails \/ AnswerQuit
              \/ \E n \in ReplySizes, r \in Rates : FinalReply(n, r)
    BY <1>2, <1>12, OrderEnded
  <1>13. CASE UserPrompt \/ Compact \/ SendRequest \/ Reset \/ Resume \/ Delegate
    BY <1>2, <1>13, OrderAsked, OrderCompacted, OrderCleared, OrderResumed, OrderDelegated
  <1> QED
    BY <1>5, <1>6, <1>7, <1>8, <1>9, <1>10, <1>11, <1>12, <1>13 DEF Next

\* The session begins in order.
LEMMA OrderInit == Init => OrderInv
  <1> SUFFICES ASSUME Init PROVE OrderInv
    OBVIOUS
  <1> DEFINE s == System(0)
             p == <<s>>
             none == <<>>
  <1>1. TypeInv
    BY TypeInit
  <1>2. /\ msgs[0] = p /\ pending[0] = <<>> /\ pending[1] = <<>> /\ depth = 0
        /\ file = none /\ starts = 1
    BY DEF Init, NoMsgs, NoCalls, Depth
  <1>3. s \in Message /\ s.role = "system" /\ s.calls = <<>>
    BY <1>1, Typed, PromptsAre
  <1> HIDE DEF s
  <1>4. p \in Seq(Message) /\ Backed(p) /\ AllAnswered(p)
    BY <1>3, OrderFresh
  <1> HIDE DEF p
  <1>5. none \in Seq(Message) /\ Backed(none)
    <2>1. none \in Seq(Message) /\ Len(none) = 0
      OBVIOUS
    <2> HIDE DEF none
    <2> QED
      BY <2>1 DEF Backed
  <1> HIDE DEF none
  <1>6. Idle
    BY <1>2 DEF Idle
  <1>7. Ordered
    <2>1. \A d \in Depth : d <= depth => d = 0
      BY <1>2 DEF Depth
    <2> QED
      BY <1>2, <1>4, <2>1, WholeAlone DEF Ordered
  <1>8. Resumable
    BY <1>2, <1>4, <1>5, WholeAlone DEF Resumable
  <1> QED
    BY <1>1, <1>6, <1>7, <1>8 DEF OrderInv

\* Every request is one the server accepts: each call answered, in turn and
\* at once, and no result without its call, whatever was compacted, refused,
\* interrupted or delegated before it; and after any number of kills and
\* resumes still no result without its call, as long as no sub-agent wrote to
\* the transcript.
THEOREM RequestsAlwaysWellFormed == Spec => []RequestsWellFormed
  <1>1. OrderInv => RequestsWellFormed
    <2> SUFFICES ASSUME OrderInv, phase = "waiting"
                 PROVE  /\ starts = 1 /\ ~CallsAbandoned => Paired(msgs[depth])
                        /\ Own(file) => orphanedToolResults(msgs[depth]) = {}
      BY DEF RequestsWellFormed, Sent, Own
    <2>1. TypeInv /\ pending[depth] = <<>> /\ depth \in Depth /\ depth <= depth
      BY Typed DEF OrderInv, Idle, Depth
    <2>2. ASSUME starts = 1, ~CallsAbandoned PROVE Paired(msgs[depth])
      <3>1. InOrder(msgs[depth], <<>>)
        BY <2>1, <2>2 DEF OrderInv, Ordered
      <3> QED
        BY <2>1, <3>1, Typed, WholeAlone, PairedIs
    <2>3. ASSUME Own(file) PROVE orphanedToolResults(msgs[depth]) = {}
      <3>1. depth = 0 /\ Backed(Whole(msgs[depth], <<>>))
        BY <2>1, <2>3 DEF OrderInv, Resumable
      <3> QED
        BY <2>1, <3>1, Typed, WholeAlone, PairedIs
    <2> QED
      BY <2>2, <2>3
  <1> QED
    BY <1>1, OrderInit, OrderStep, PTL DEF Spec

-----------------------------------------------------------------------------
(* What is remembered, and what the transcript has of it.                  *)

\* Where the search of TranscriptCoversMemory ends.
Found(body, f) ==
    LET at[i \in 0..Len(body)] ==
            IF i = 0 THEN 0
            ELSE LET before == at[i - 1]
                     hit == {j \in before + 1..Len(f) : Same(f[j], body[i])}
                 IN IF hit = {} THEN Len(f) + 1
                    ELSE CHOOSE j \in hit : \A k \in hit : j <= k
    IN at[Len(body)]

\* What is at places that rise is found.
LEMMA FoundIs ==
    ASSUME NEW f \in Seq(Message), NEW body \in Seq(Message),
           NEW e \in [1..Len(body) -> 1..Len(f)],
           \A i, j \in 1..Len(body) : i < j => e[i] < e[j],
           \A i \in 1..Len(body) : Same(f[e[i]], body[i])
    PROVE  Found(body, f) <= Len(f)
  <1> DEFINE n == Len(body)
             hits(v, i) == {j \in v + 1..Len(f) : Same(f[j], body[i])}
             next(v, i) == IF hits(v, i) = {} THEN Len(f) + 1
                           ELSE CHOOSE j \in hits(v, i) : \A k \in hits(v, i) : j <= k
             V == 0..Len(f) + 1
             h == [i \in 0..n |-> [v \in V |-> next(v, i)]]
             Eq(at) == at = [i \in 0..n |->
                               IF i = 0 THEN 0
                               ELSE LET before == at[i - 1]
                                        hit == {j \in before + 1..Len(f) : Same(f[j], body[i])}
                                    IN IF hit = {} THEN Len(f) + 1
                                       ELSE CHOOSE j \in hit : \A k \in hit : j <= k]
             at == CHOOSE at : Eq(at)
  <1>1. n \in Nat /\ Len(f) \in Nat
    BY LenProperties
  <1>2. ASSUME NEW v \in Nat, NEW i
        PROVE  /\ next(v, i) \in V
               /\ \A k \in hits(v, i) : next(v, i) <= k /\ next(v, i) <= Len(f)
    <2> DEFINE H == hits(v, i)
    <2>1. H \subseteq Nat /\ \A k \in H : k <= Len(f)
      BY <1>1
    <2>2. H # {} => \E j \in H : \A k \in H : j <= k
      <3> HIDE DEF H
      <3> QED
        BY <2>1, SmallestExists
    <2>3. next(v, i) = IF H = {} THEN Len(f) + 1 ELSE CHOOSE j \in H : \A k \in H : j <= k
      OBVIOUS
    <2> HIDE DEF hits, next, H
    <2>4. H # {} => next(v, i) \in H /\ \A k \in H : next(v, i) <= k
      BY <2>2, <2>3
    <2>5. \A k \in H : next(v, i) <= k /\ next(v, i) <= Len(f)
      BY <2>1, <2>4
    <2>6. next(v, i) \in V
      <3>1. CASE H = {}
        BY <1>1, <2>3, <3>1
      <3>2. CASE H # {}
        <4>1. next(v, i) \in Nat /\ next(v, i) <= Len(f)
          BY <2>1, <2>4, <3>2
        <4> QED
          BY <1>1, <4>1
      <3> QED
        BY <3>1, <3>2
    <2> QED
      BY <2>5, <2>6 DEF H
  <1>3. h \in [0..n -> [V -> V]] /\ 0 \in V /\ \A i \in 0..n, v \in V : h[i][v] = next(v, i)
    <2> HIDE DEF next, n
    <2>1. \A v \in V : v \in Nat
      BY <1>1
    <2>2. 0 \in V
      BY <1>1
    <2> HIDE DEF V
    <2> QED
      BY <1>2, <2>1, <2>2
  <1>4. PICK F \in [0..n -> V] : Iterated(0, n, 0, h, F)
    <2>1. 0 \in Nat /\ 0 <= n
      BY <1>1
    <2> HIDE DEF h, V, n
    <2> QED
      BY <1>1, <1>3, <2>1, IterationExists
  <1>5. Eq(F)
    <2>1. ASSUME NEW i \in 0..n
          PROVE  F[i] = IF i = 0 THEN 0 ELSE next(F[i - 1], i)
      <3>1. F[i] = IF i = 0 THEN 0 ELSE h[i][F[i - 1]]
        BY <1>4 DEF Iterated
      <3> HIDE DEF h, next, V, n
      <3>2. i # 0 => i - 1 \in 0..n /\ F[i - 1] \in V
        <4>1. i # 0 => i - 1 \in 0..n
          BY <1>1
        <4> QED
          BY <1>4, <4>1
      <3> QED
        BY <1>3, <3>1, <3>2
    <2>2. F = [i \in 0..n |-> IF i = 0 THEN 0 ELSE next(F[i - 1], i)]
      <3> HIDE DEF next, n, V
      <3> QED
        BY <2>1
    <2> QED
      BY <2>2
  <1>6. Eq(at)
    <2> HIDE DEF Eq
    <2> QED
      BY <1>5
  <1>7. Found(body, f) = at[n]
    BY DEF Found
  <1>8. \A i \in 0..n : at[i] = IF i = 0 THEN 0 ELSE next(at[i - 1], i)
    <2>1. at = [i \in 0..n |-> IF i = 0 THEN 0 ELSE next(at[i - 1], i)]
      BY <1>6
    <2> HIDE DEF at, next, n
    <2> QED
      BY <2>1
  <1> HIDE DEF at, next, Eq
  <1> DEFINE T == {i \in 0..n : ~ (at[i] \in Nat /\ at[i] <= Len(f) /\ (i # 0 => at[i] <= e[i]))}
  <1>9. ASSUME NEW i \in T, \A k \in T : i <= k PROVE FALSE
    <2>1. i # 0
      BY <1>1, <1>8
    <2>2. i - 1 \in 0..n /\ i - 1 \notin T /\ i \in 1..n
      BY <1>1, <1>9, <2>1
    <2>3. at[i - 1] \in Nat /\ (i - 1 # 0 => at[i - 1] <= e[i - 1])
      BY <2>2
    <2>4. e[i] \in 1..Len(f) /\ at[i - 1] < e[i]
      <3>1. CASE i - 1 = 0
        BY <1>8, <2>2, <3>1
      <3>2. CASE i - 1 # 0
        <4>1. i - 1 \in 1..n /\ i - 1 < i
          BY <2>2, <3>2
        <4>2. e[i - 1] < e[i] /\ e[i - 1] \in 1..Len(f) /\ e[i] \in 1..Len(f)
          BY <2>2, <4>1
        <4> QED
          BY <1>1, <2>3, <3>2, <4>2
      <3> QED
        BY <3>1, <3>2
    <2>5. e[i] \in hits(at[i - 1], i)
      <3>1. e[i] \in at[i - 1] + 1..Len(f)
        BY <1>1, <2>3, <2>4
      <3> QED
        BY <2>2, <3>1
    <2>6. at[i] = next(at[i - 1], i)
      BY <1>8, <2>1
    <2>7. at[i] \in V /\ at[i] <= e[i] /\ at[i] <= Len(f)
      <3> HIDE DEF hits, V
      <3> QED
        BY <1>2, <2>3, <2>5, <2>6
    <2>8. at[i] \in Nat
      BY <1>1, <2>7
    <2> QED
      BY <2>7, <2>8
  <1>10. T = {}
    <2>1. T \subseteq Nat
      BY <1>1
    <2> HIDE DEF T
    <2> QED
      BY <1>9, <2>1, SmallestExists
  <1>11. n \in 0..n /\ n \notin T
    <2>1. n \in 0..n
      BY <1>1
    <2> QED
      BY <1>10, <2>1
  <1> HIDE DEF n
  <1> QED
    BY <1>7, <1>11

\* All of m but its system prompt is in f, at places that rise.
Covers(m, f) ==
    \E g \in [2..Len(m) -> 1..Len(f)] :
        /\ \A i, j \in 2..Len(m) : i < j => g[i] < g[j]
        /\ \A i \in 2..Len(m) : Same(f[g[i]], m[i])

\* If a conversation, but for its prompt, stands in order in f, looking from
\* the front finds it.
LEMMA CoversFound ==
    ASSUME NEW m \in Seq(Message), NEW f \in Seq(Message), m # <<>>, Covers(m, f)
    PROVE  Found(SubSeq(m, 2, Len(m)), f) <= Len(f)
  <1> DEFINE body == SubSeq(m, 2, Len(m))
  <1>1. PICK n \in Nat : Len(m) = n + 1
    <2>1. Len(m) \in Nat /\ Len(m) # 0
      BY EmptySeq, LenProperties
    <2>2. Len(m) - 1 \in Nat /\ Len(m) = (Len(m) - 1) + 1
      BY <2>1
    <2> QED
      BY <2>2
  <1>2. body \in Seq(Message) /\ Len(body) = n /\ \A i \in 1..n : body[i] = m[i + 1]
    <2>1. \A i \in 2..n + 1 : m[i] \in Message
      <3>1. ASSUME NEW i \in 2..n + 1 PROVE m[i] \in Message
        <4>1. i \in 1..Len(m)
          BY <1>1
        <4> QED
          BY <4>1, ElementOfSeq
      <3> QED
        BY <3>1
    <2> DEFINE k == n + 1
    <2>2. k \in Int /\ 2 \in Int /\ body = SubSeq(m, 2, k)
      BY <1>1
    <2>3. /\ SubSeq(m, 2, k) \in Seq(Message)
          /\ Len(SubSeq(m, 2, k)) = (IF 2 <= k THEN k - 2 + 1 ELSE 0)
          /\ \A i \in 1..k - 2 + 1 : SubSeq(m, 2, k)[i] = m[2 + i - 1]
      <3> HIDE DEF body
      <3> QED
        BY <2>1, <2>2, SubSeqProperties
    <2> HIDE DEF body
    <2>4. Len(body) = n
      BY <1>1, <2>2, <2>3
    <2>5. ASSUME NEW i \in 1..n PROVE body[i] = m[i + 1]
      <3>1. i \in 1..k - 2 + 1 /\ 2 + i - 1 = i + 1
        BY <1>1
      <3> QED
        BY <2>2, <2>3, <3>1
    <2> QED
      BY <2>2, <2>3, <2>4, <2>5
  <1>3. PICK g \in [2..n + 1 -> 1..Len(f)] :
          /\ \A i, j \in 2..n + 1 : i < j => g[i] < g[j]
          /\ \A i \in 2..n + 1 : Same(f[g[i]], m[i])
    BY <1>1 DEF Covers
  <1> HIDE DEF body
  <1> DEFINE e == [i \in 1..Len(body) |-> g[i + 1]]
  <1>4. e \in [1..Len(body) -> 1..Len(f)]
    <2>1. \A i \in 1..n : i + 1 \in 2..n + 1
      OBVIOUS
    <2> QED
      BY <1>2, <2>1
  <1>5. \A i, j \in 1..Len(body) : i < j => e[i] < e[j]
    <2>1. ASSUME NEW i \in 1..n, NEW j \in 1..n, i < j PROVE g[i + 1] < g[j + 1]
      <3>1. i + 1 \in 2..n + 1 /\ j + 1 \in 2..n + 1 /\ i + 1 < j + 1
        BY <2>1
      <3> QED
        BY <1>3, <3>1
    <2> QED
      BY <1>2, <2>1
  <1>6. \A i \in 1..Len(body) : Same(f[e[i]], body[i])
    <2>1. ASSUME NEW i \in 1..n PROVE Same(f[g[i + 1]], m[i + 1])
      <3>1. i + 1 \in 2..n + 1
        OBVIOUS
      <3> QED
        BY <1>3, <3>1
    <2> QED
      BY <1>2, <2>1
  <1> HIDE DEF e
  <1>7. Found(body, f) <= Len(f)
    BY <1>2, <1>4, <1>5, <1>6, FoundIs
  <1> QED
    BY <1>7 DEF body

\* A conversation that is only a system prompt, or not even that.
LEMMA CoversNothing ==
    ASSUME NEW m \in Seq(Message), NEW f, Len(m) <= 1
    PROVE  Covers(m, f)
  <1>1. 2..Len(m) = {}
    BY LenProperties
  <1>2. [i \in {} |-> 1] \in [{} -> 1..Len(f)]
    OBVIOUS
  <1> QED
    BY <1>1, <1>2 DEF Covers

\* A transcript that has gone on.
LEMMA CoversLater ==
    ASSUME NEW m \in Seq(Message), NEW f \in Seq(Message), NEW t \in Seq(Message),
           Len(f) <= Len(t), \A i \in 1..Len(f) : t[i] = f[i], Covers(m, f)
    PROVE  Covers(m, t)
  <1>1. PICK g \in [2..Len(m) -> 1..Len(f)] :
          /\ \A i, j \in 2..Len(m) : i < j => g[i] < g[j]
          /\ \A i \in 2..Len(m) : Same(f[g[i]], m[i])
    BY DEF Covers
  <1>2. g \in [2..Len(m) -> 1..Len(t)]
    <2>1. 1..Len(f) \subseteq 1..Len(t)
      BY LenProperties
    <2> QED
      BY <2>1
  <1>3. \A i \in 2..Len(m) : Same(t[g[i]], m[i])
    BY <1>1
  <1> QED
    BY <1>1, <1>2, <1>3 DEF Covers

\* The same message at the end of both.
LEMMA CoversBoth ==
    ASSUME NEW m \in Seq(Message), NEW f \in Seq(Message), NEW x \in Message,
           m # <<>>, Covers(m, f)
    PROVE  Covers(Append(m, x), Append(f, x))
  <1> DEFINE u == Append(m, x)
             t == Append(f, x)
  <1>1. PICK n \in Nat : Len(m) = n + 1
    <2>1. Len(m) \in Nat /\ Len(m) # 0
      BY EmptySeq, LenProperties
    <2>2. Len(m) - 1 \in Nat /\ Len(m) = (Len(m) - 1) + 1
      BY <2>1
    <2> QED
      BY <2>2
  <1>2. PICK l \in Nat : l = Len(f)
    BY LenProperties
  <1>3. Len(u) = n + 2 /\ u[n + 2] = x /\ \A i \in 1..n + 1 : u[i] = m[i]
    <2>1. Len(u) = Len(m) + 1 /\ u[Len(m) + 1] = x /\ \A i \in 1..Len(m) : u[i] = m[i]
      BY AppendProperties
    <2> HIDE DEF u
    <2>2. Len(m) + 1 = n + 2
      BY <1>1
    <2> QED
      BY <1>1, <2>1, <2>2
  <1>4. Len(t) = l + 1 /\ t[l + 1] = x /\ \A i \in 1..l : t[i] = f[i]
    BY <1>2, AppendProperties
  <1> HIDE DEF u, t
  <1>5. PICK g \in [2..n + 1 -> 1..l] :
          /\ \A i, j \in 2..n + 1 : i < j => g[i] < g[j]
          /\ \A i \in 2..n + 1 : Same(f[g[i]], m[i])
    BY <1>1, <1>2 DEF Covers
  <1> DEFINE h == [i \in 2..n + 2 |-> IF i = n + 2 THEN l + 1 ELSE g[i]]
  <1>6. ASSUME NEW i \in 2..n + 2, i # n + 2
        PROVE  i \in 2..n + 1 /\ i \in 1..n + 1 /\ g[i] \in 1..l
    <2>1. i \in 2..n + 1 /\ i \in 1..n + 1
      BY <1>6
    <2> QED
      BY <2>1
  <1>7. h \in [2..n + 2 -> 1..l + 1]
    <2>1. ASSUME NEW i \in 2..n + 2 PROVE h[i] \in 1..l + 1
      <3>1. CASE i = n + 2
        BY <3>1
      <3>2. CASE i # n + 2
        <4>1. h[i] = g[i] /\ g[i] \in 1..l
          BY <1>6, <3>2
        <4> QED
          BY <4>1
      <3> QED
        BY <3>1, <3>2
    <2> QED
      BY <2>1
  <1>8. ASSUME NEW i \in 2..n + 2, NEW j \in 2..n + 2, i < j PROVE h[i] < h[j]
    <2>1. i # n + 2 /\ h[i] = g[i] /\ g[i] \in 1..l /\ i \in 2..n + 1
      BY <1>6, <1>8
    <2>2. CASE j = n + 2
      BY <2>1, <2>2
    <2>3. CASE j # n + 2
      <3>1. h[j] = g[j] /\ j \in 2..n + 1
        BY <1>6, <2>3
      <3> QED
        BY <1>5, <1>8, <2>1, <3>1
    <2> QED
      BY <2>2, <2>3
  <1>9. ASSUME NEW i \in 2..n + 2 PROVE Same(t[h[i]], u[i])
    <2>1. CASE i = n + 2
      BY <1>3, <1>4, <2>1 DEF Same
    <2>2. CASE i # n + 2
      <3>1. h[i] = g[i] /\ g[i] \in 1..l /\ i \in 2..n + 1 /\ i \in 1..n + 1
        BY <1>6, <2>2
      <3>2. Same(f[g[i]], m[i]) /\ t[g[i]] = f[g[i]] /\ u[i] = m[i]
        BY <1>3, <1>4, <1>5, <3>1
      <3> QED
        BY <3>1, <3>2
    <2> QED
      BY <2>1, <2>2
  <1> HIDE DEF h
  <1>10. Covers(u, t)
    BY <1>3, <1>4, <1>7, <1>8, <1>9 DEF Covers
  <1> QED
    BY <1>10 DEF u, t

\* A message more in the transcript.
LEMMA CoversMore ==
    ASSUME NEW m \in Seq(Message), NEW f \in Seq(Message), NEW x \in Message, Covers(m, f)
    PROVE  Covers(m, Append(f, x))
  <1> DEFINE t == Append(f, x)
  <1>1. /\ t \in Seq(Message) /\ Len(t) = Len(f) + 1 /\ Len(f) \in Nat
        /\ \A i \in 1..Len(f) : t[i] = f[i]
    BY AppendProperties, LenProperties
  <1> HIDE DEF t
  <1>2. Covers(m, t)
    BY <1>1, CoversLater
  <1> QED
    BY <1>2 DEF t

\* What a run says at its end, in both or in the transcript only.
LEMMA CoversSaid ==
    ASSUME NEW m \in Seq(Message), NEW f \in Seq(Message), NEW said, Plain(said), Covers(m, f)
    PROVE  /\ m # <<>> => Covers(m \o said, f \o said)
           /\ Covers(m, f \o said)
  <1>1. CASE said = <<>>
    <2>1. m \o said = m /\ f \o said = f
      BY <1>1, ConcatEmptySeq
    <2> QED
      BY <2>1
  <1>2. ASSUME NEW x \in Message, said = <<x>>
        PROVE  /\ m # <<>> => Covers(m \o said, f \o said)
               /\ Covers(m, f \o said)
    <2>1. m \o said = Append(m, x) /\ f \o said = Append(f, x)
      BY <1>2, Longer
    <2> QED
      BY <2>1, CoversBoth, CoversMore
  <1> QED
    BY <1>1, <1>2 DEF Plain

\* A conversation that is resumed.
LEMMA CoversResumed ==
    ASSUME NEW s \in Message, NEW f \in Seq(Message)
    PROVE  <<s>> \o f \in Seq(Message) /\ Covers(<<s>> \o f, f)
  <1> DEFINE p == <<s>>
             m == p \o f
  <1>1. p \in Seq(Message) /\ Len(p) = 1
    OBVIOUS
  <1> HIDE DEF p
  <1>2. PICK l \in Nat : l = Len(f)
    BY LenProperties
  <1>3. m \in Seq(Message) /\ Len(m) = l + 1 /\ \A i \in 2..l + 1 : m[i] = f[i - 1]
    <2>1. /\ m \in Seq(Message) /\ Len(m) = Len(p) + Len(f)
          /\ \A i \in 1..Len(p) + Len(f) : m[i] = IF i <= Len(p) THEN p[i] ELSE f[i - Len(p)]
      BY <1>1, ConcatProperties
    <2> HIDE DEF m
    <2> QED
      BY <1>1, <1>2, <2>1
  <1> HIDE DEF m
  <1> DEFINE g == [i \in 2..l + 1 |-> i - 1]
  <1>4. g \in [2..l + 1 -> 1..l]
    OBVIOUS
  <1>5. \A i, j \in 2..l + 1 : i < j => g[i] < g[j]
    OBVIOUS
  <1>6. \A i \in 2..l + 1 : Same(f[g[i]], m[i])
    BY <1>3 DEF Same
  <1> HIDE DEF g
  <1>7. Covers(m, f)
    BY <1>2, <1>3, <1>4, <1>5, <1>6 DEF Covers
  <1> QED
    BY <1>3, <1>7 DEF m, p

\* A sub-agent that begins.
LEMMA CoversBegun ==
    ASSUME NEW s \in Message, NEW x \in Message, NEW f \in Seq(Message)
    PROVE  Covers(<<s, x>>, Append(f, x))
  <1> DEFINE m == <<s, x>>
             t == Append(f, x)
  <1>1. m \in Seq(Message) /\ Len(m) = 2 /\ m[2] = x
    OBVIOUS
  <1>2. PICK l \in Nat : l = Len(f)
    BY LenProperties
  <1>3. Len(t) = l + 1 /\ t[l + 1] = x
    BY <1>2, AppendProperties
  <1> HIDE DEF m, t
  <1> DEFINE g == [i \in 2..2 |-> l + 1]
  <1>4. g \in [2..2 -> 1..l + 1] /\ \A i \in 2..2 : g[i] = l + 1
    OBVIOUS
  <1> HIDE DEF g
  <1>5. (\A i, j \in 2..2 : i < j => g[i] < g[j]) /\ \A i \in 2..2 : Same(t[g[i]], m[i])
    <2>1. \A i \in 2..2 : i = 2
      OBVIOUS
    <2> QED
      BY <1>1, <1>3, <1>4, <2>1 DEF Same
  <1>6. Covers(m, t)
    BY <1>1, <1>3, <1>4, <1>5 DEF Covers
  <1> QED
    BY <1>6 DEF m, t

\* A conversation that is compacted.
LEMMA CoversCompacted ==
    ASSUME NEW r, NEW m \in Seq(Message), NEW f \in Seq(Message),
           m # <<>>, m[1].role = "system", Covers(m, f)
    PROVE  Covers(compact(r, m), f)
  <1> DEFINE new == compact(r, m)
  <1>1. BodyStart(m) = 2
    BY DEF BodyStart
  <1>2. KeepsRecent(m, new)
    BY CompactKeeps
  <1>3. new \in Seq(Message)
    BY CompactType
  <1> HIDE DEF new
  <1>4. PICK gone \in Nat, k \in Nat : Len(new) = k /\ Len(m) = k + gone
    <2>1. Len(new) \in Nat /\ Len(m) \in Nat
      BY <1>3, LenProperties
    <2>2. Len(m) - Len(new) >= 0
      BY <1>2 DEF KeepsRecent
    <2>3. Len(m) - Len(new) \in Nat /\ Len(m) = Len(new) + (Len(m) - Len(new))
      BY <2>1, <2>2
    <2> QED
      BY <2>1, <2>3
  <1>5. \A i \in 2..k : Same(new[i], m[i + gone])
    <2>1. \A i \in BodyStart(m)..Len(new) : Same(new[i], m[i + (Len(m) - Len(new))])
      BY <1>2 DEF KeepsRecent
    <2>2. Len(m) - Len(new) = gone
      BY <1>4
    <2> QED
      BY <1>1, <1>4, <2>1, <2>2
  <1>6. PICK g \in [2..k + gone -> 1..Len(f)] :
          /\ \A i, j \in 2..k + gone : i < j => g[i] < g[j]
          /\ \A i \in 2..k + gone : Same(f[g[i]], m[i])
    BY <1>4 DEF Covers
  <1> DEFINE h == [i \in 2..k |-> g[i + gone]]
  <1>7. \A i \in 2..k : i + gone \in 2..k + gone /\ g[i + gone] \in 1..Len(f)
    <2>1. \A i \in 2..k : i + gone \in 2..k + gone
      BY <1>4
    <2> QED
      BY <2>1
  <1>8. h \in [2..k -> 1..Len(f)]
    BY <1>7
  <1>9. \A i, j \in 2..k : i < j => h[i] < h[j]
    <2>1. ASSUME NEW i \in 2..k, NEW j \in 2..k, i < j PROVE g[i + gone] < g[j + gone]
      <3>1. i + gone < j + gone
        BY <1>4, <2>1
      <3> QED
        BY <1>6, <1>7, <3>1
    <2> QED
      BY <2>1
  <1>10. \A i \in 2..k : Same(f[h[i]], new[i])
    <2>1. ASSUME NEW i \in 2..k PROVE Same(f[g[i + gone]], new[i])
      <3>1. Same(new[i], m[i + gone]) /\ Same(f[g[i + gone]], m[i + gone])
        BY <1>5, <1>6, <1>7
      <3> QED
        BY <3>1, Zenon DEF Same
    <2> QED
      BY <2>1
  <1> HIDE DEF h
  <1>11. Covers(new, f)
    BY <1>4, <1>8, <1>9, <1>10 DEF Covers
  <1> QED
    BY <1>11 DEF new

\* Each agent's conversation is in the transcript.
Covered == \A d \in Depth : d <= depth => Covers(msgs[d], file)

CoverInv == TypeInv /\ Covered

\* What holds of the agents that run, or wait for their sub-agent.
LEMMA Conversing ==
    ASSUME TypeInv, NEW d \in Depth, d <= depth
    PROVE  msgs[d] \in Seq(Message) /\ msgs[d] # <<>> /\ msgs[d][1].role = "system"
  BY DEF TypeInv, TypeOK, Prompted

\* The agent at work gets a message, and so does the transcript.
LEMMA CoverLonger ==
    ASSUME CoverInv, NEW x \in Message,
           msgs' = [msgs EXCEPT ![depth] = Append(msgs[depth], x)],
           file' = Append(file, x), depth' = depth
    PROVE  Covered'
  <1> SUFFICES ASSUME NEW d \in Depth, d <= depth' PROVE Covers(msgs'[d], file')
    BY DEF Covered
  <1>1. TypeInv /\ d <= depth /\ Covers(msgs[d], file)
    BY DEF CoverInv, Covered
  <1>2. msgs[d] \in Seq(Message) /\ msgs[d] # <<>>
    BY <1>1, Conversing
  <1>3. CASE d = depth
    <2>1. msgs'[d] = Append(msgs[d], x)
      BY <1>1, <1>3, Typed
    <2> QED
      BY <1>1, <1>2, <2>1, Typed, CoversBoth
  <1>4. CASE d # depth
    <2>1. msgs'[d] = msgs[d]
      BY <1>1, <1>4, Typed
    <2> QED
      BY <1>1, <1>2, <2>1, Typed, CoversMore
  <1> QED
    BY <1>3, <1>4

\* Only one agent's conversation remains, and it is only a prompt.
LEMMA CoverPrompt ==
    ASSUME depth' = 0, NEW s, msgs'[0] = <<s>>
    PROVE  Covered'
  <1> DEFINE m == <<s>>
  <1>1. m \in Seq({s}) /\ Len(m) = 1
    OBVIOUS
  <1> HIDE DEF m
  <1>2. Covers(m, file')
    <2>1. 2..Len(m) = {}
      BY <1>1
    <2>2. [i \in {} |-> 1] \in [{} -> 1..Len(file')]
      OBVIOUS
    <2> QED
      BY <2>1, <2>2 DEF Covers
  <1>3. \A d \in Depth : d <= depth' => d = 0
    BY DEF Depth
  <1> QED
    BY <1>2, <1>3 DEF Covered, m

\* The end of a run.
LEMMA CoverFinished ==
    ASSUME CoverInv, NEW said, Plain(said), NEW evs, NEW r, FinishRun(said, evs, r)
    PROVE  Covered'
  <1>1. TypeInv /\ 0 \in Depth /\ 0 <= depth
    BY Typed DEF CoverInv, Depth
  <1>2. /\ msgs[0] \in Seq(Message) /\ msgs[0] # <<>> /\ file \in Seq(Message)
        /\ Covers(msgs[0], file)
    BY <1>1, Conversing, Typed DEF CoverInv, Covered
  <1>3. /\ Covers(msgs[0] \o said, file \o said)
        /\ Covers(msgs[0], file \o said) /\ file \o said \in Seq(Message)
    BY <1>2, CoversSaid, SaidIs
  <1>4. depth' = 0
    BY DEF FinishRun
  <1>5. CASE depth = 0
    <2>1. msgs' = [msgs EXCEPT ![0] = msgs[0] \o said] /\ file' = file \o said
      BY <1>5 DEF FinishRun
    <2>2. msgs'[0] = msgs[0] \o said
      BY <1>1, <2>1, Typed
    <2> QED
      BY <1>3, <1>4, <2>1, <2>2 DEF Covered, Depth
  <1>6. CASE depth = 1
    <2>1. PICK n \in ResultSizes :
            LET m == ToolResult(Head(pending[0]).id, n, 0) IN
            /\ msgs' = [msgs EXCEPT ![0] = Append(msgs[0], m), ![1] = <<>>]
            /\ file' = Append(file \o said, m)
      BY <1>6 DEF FinishRun
    <2> DEFINE m == ToolResult(Head(pending[0]).id, n, 0)
    <2>2. m \in Message
      <3>1. Head(pending[0]).id \in Nat /\ n \in Nat
        BY <1>1, <1>6, AgentAssumption, CallsAre, Typed DEF TypeInv, AtWork
      <3> QED
        BY <1>1, <3>1, EmptySeq, MessagesAre
    <2>3. msgs' = [msgs EXCEPT ![0] = Append(msgs[0], m), ![1] = <<>>] /\ file' = Append(file \o said, m)
      BY <2>1
    <2> HIDE DEF m
    <2>4. msgs'[0] = Append(msgs[0], m)
      BY <1>1, <2>3, Typed
    <2>5. Covers(Append(msgs[0], m), Append(file \o said, m))
      BY <1>2, <1>3, <2>2, CoversBoth
    <2>6. Covers(msgs'[0], file')
      BY <2>3, <2>4, <2>5
    <2>7. \A d \in Depth : d <= depth' => d = 0
      BY <1>4 DEF Depth
    <2> QED
      BY <2>6, <2>7 DEF Covered
  <1> QED
    BY <1>5, <1>6 DEF FinishRun

\* Compaction, by the operator or before a request.
LEMMA CoverCompacted ==
    ASSUME CoverInv, Compact \/ SendRequest
    PROVE  Covered'
  <1>1. TypeInv
    BY DEF CoverInv
  <1>2. UNCHANGED <<depth, file>>
    BY DEF Compact, SendRequest, runVars
  <1>3. \A d \in Depth : msgs'[d] = msgs[d] \/ \E r : msgs'[d] = compact(r, msgs[d])
    <2>1. CASE SendRequest
      BY <1>1, <2>1, SentIs
    <2>2. CASE Compact
      <3>1. msgs' = [msgs EXCEPT ![0] = compact(rate[0], msgs[0])]
        BY <2>2 DEF Compact
      <3> QED
        BY <1>1, <3>1, Typed
    <2> QED
      BY <2>1, <2>2
  <1> SUFFICES ASSUME NEW d \in Depth, d <= depth PROVE Covers(msgs'[d], file)
    BY <1>2 DEF Covered
  <1>4. /\ msgs[d] \in Seq(Message) /\ msgs[d] # <<>> /\ msgs[d][1].role = "system"
        /\ Covers(msgs[d], file) /\ file \in Seq(Message)
    BY <1>1, Conversing, Typed DEF CoverInv, Covered
  <1> QED
    BY <1>3, <1>4, CoversCompacted

\* Every step keeps what is remembered in the transcript.
LEMMA CoverStep == CoverInv /\ [Next]_vars => CoverInv'
  <1> SUFFICES ASSUME CoverInv, [Next]_vars PROVE CoverInv'
    OBVIOUS
  <1>1. TypeInv /\ TypeInv'
    BY TypeStep DEF CoverInv
  <1> SUFFICES Covered'
    BY <1>1 DEF CoverInv
  <1>2. 0 \in Nat /\ 1 \in Nat /\ nextId \in Nat /\ ReplySizes \subseteq Nat /\ ResultSizes \subseteq Nat
    BY <1>1, AgentAssumption, Typed
  <1>3. CASE UNCHANGED <<msgs, file, depth>>
    BY <1>3 DEF CoverInv, Covered
  <1>4. ASSUME NEW n \in Nat, pending[depth] # <<>>, appendToolResult(depth, n), UNCHANGED runVars
        PROVE  Covered'
    <2> DEFINE x == ToolResult(Head(pending[depth]).id, n, depth)
    <2>1. /\ msgs' = [msgs EXCEPT ![depth] = Append(msgs[depth], x)]
          /\ file' = Append(file, x) /\ depth' = depth
      BY <1>4 DEF appendToolResult, runVars
    <2>2. x \in Message
      <3>1. Head(pending[depth]).id \in Nat
        BY <1>1, <1>4, Typed, CallsAre
      <3> QED
        BY <1>1, <3>1, Typed, EmptySeq, MessagesAre
    <2> HIDE DEF x
    <2> QED
      BY <2>1, <2>2, CoverLonger
  <1>5. phase \in {"confirm", "approved", "tool"} => pending[depth] # <<>>
    BY <1>1 DEF TypeInv, AtWork
  <1>6. CASE UNCHANGED vars
    BY <1>3, <1>6 DEF vars, convVars, runVars
  <1>7. CASE \/ (\E m \in Mode : SetMode(m)) \/ NextTurn \/ Ask \/ RunTool \/ Interrupt
             \/ \E a \in {"yes", "always"} : AnswerYes(a)
    BY <1>3, <1>7 DEF SetMode, NextTurn, Ask, RunTool, Interrupt, AnswerYes, convVars, runVars
  <1>8. CASE BadCall \/ AnswerNo \/ ToolFails
    BY <1>2, <1>4, <1>5, <1>8 DEF BadCall, AnswerNo, ToolFails, AtCall
  <1>9. CASE \E n \in ResultSizes : ToolDone(n)
    BY <1>2, <1>4, <1>5, <1>9 DEF ToolDone
  <1>10. CASE Check
    <2>1. pending[depth] # <<>> /\ UNCHANGED runVars
      BY <1>10 DEF Check, AtCall
    <2>2. appendToolResult(depth, 1) \/ UNCHANGED convVars
      BY <1>10 DEF Check
    <2> QED
      BY <1>2, <1>3, <1>4, <2>1, <2>2 DEF convVars, runVars
  <1>11. CASE Exit \/ Cancelled \/ Kill
    BY <1>11, CoverPrompt DEF Exit, Cancelled, Kill, Off, NoMsgs, Depth
  <1>12. CASE Reset
    <2>1. msgs' = [msgs EXCEPT ![0] = <<System(0)>>] /\ depth' = 0
      BY <1>1, <1>12 DEF Reset, AtPrompt, runVars, TypeInv, AtWork
    <2>2. msgs'[0] = <<System(0)>>
      BY <1>1, <2>1, Typed
    <2> QED
      BY <2>1, <2>2, CoverPrompt
  <1>13. CASE Compact \/ SendRequest
    BY <1>13, CoverCompacted
  <1>14. CASE TurnBudgetSpent \/ StreamFails \/ AnswerQuit
    BY <1>14, CoverFinished DEF TurnBudgetSpent, StreamFails, AnswerQuit, Plain
  <1>15. CASE \E n \in ReplySizes, r \in Rates : FinalReply(n, r)
    <2>1. PICK n \in ReplySizes, r \in Rates : FinishRun(<<Assistant(<<>>, n, depth)>>, <<>>, r)
      BY <1>15 DEF FinalReply
    <2> DEFINE x == Assistant(<<>>, n, depth)
               said == <<x>>
    <2>2. x \in Message /\ x.role = "assistant" /\ x.calls = <<>>
      <3>1. <<>> \in Seq(Nat) /\ n \in Nat
        BY <1>2, EmptySeq
      <3> QED
        BY <1>1, <1>2, <3>1, Typed, MessagesAre DEF Assistant
    <2>3. FinishRun(said, <<>>, r)
      BY <2>1
    <2> HIDE DEF x
    <2>4. Plain(said)
      BY <2>2 DEF Plain
    <2> HIDE DEF said
    <2> QED
      BY <2>3, <2>4, CoverFinished
  <1>16. CASE AnyReply
    <2>1. PICK reqs \in Replies, n \in ReplySizes, r \in Rates : Reply(reqs, n, r)
      BY <1>16 DEF AnyReply
    <2> DEFINE ids == [k \in 1..Len(reqs) |-> nextId + k - 1]
               x == Assistant(ids, n, depth)
    <2>2. /\ msgs' = [msgs EXCEPT ![depth] = Append(msgs[depth], x)]
          /\ file' = Append(file, x) /\ depth' = depth
      BY <2>1 DEF Reply, runVars
    <2>3. x \in Message
      <3>1. Len(reqs) \in Nat
        BY AgentAssumption, LenProperties
      <3>2. \A k \in 1..Len(reqs) : nextId + k - 1 \in Nat
        BY <1>2, <3>1
      <3>3. ids \in Seq(Nat)
        BY <3>1, <3>2, IsASeq
      <3> HIDE DEF ids
      <3>4. depth \in Depth /\ n \in Nat
        BY <1>1, <1>2, Typed
      <3> QED
        BY <1>2, <3>3, <3>4, MessagesAre
    <2> HIDE DEF x
    <2> QED
      BY <2>2, <2>3, CoverLonger
  <1>17. CASE UserPrompt
    <2> DEFINE x == User(nextId, 0)
    <2>1. /\ msgs' = [msgs EXCEPT ![0] = Append(msgs[0], x)] /\ depth = 0
          /\ file' = Append(file, x) /\ depth' = depth
      BY <1>1, <1>17 DEF UserPrompt, AtPrompt, runVars, TypeInv, AtWork
    <2>2. x \in Message
      BY <1>1, <1>2, Typed, EmptySeq, MessagesAre
    <2> HIDE DEF x
    <2> QED
      BY <2>1, <2>2, CoverLonger
  <1>18. CASE Resume
    <2> DEFINE new == <<System(0)>> \o file
    <2>1. msgs' = [msgs EXCEPT ![0] = new] /\ file' = file /\ depth' = 0
      BY <1>1, <1>18 DEF Resume, runVars, TypeInv, AtWork
    <2>2. Covers(new, file)
      BY <1>1, Typed, PromptsAre, CoversResumed
    <2> HIDE DEF new
    <2>3. msgs'[0] = new
      BY <1>1, <2>1, Typed
    <2> QED
      BY <2>1, <2>2, <2>3 DEF Covered, Depth
  <1>19. CASE Delegate
    <2> DEFINE s == System(1)
               x == User(nextId, 1)
               both == <<s, x>>
    <2>1. msgs' = [msgs EXCEPT ![1] = both] /\ file' = Append(file, x) /\ depth = 0 /\ depth' = 1
      BY <1>19 DEF Delegate
    <2>2. s \in Message /\ x \in Message
      BY <1>1, <1>2, Typed, EmptySeq, PromptsAre, MessagesAre
    <2> HIDE DEF s, x
    <2>3. Covers(both, Append(file, x))
      BY <1>1, <2>2, Typed, CoversBegun
    <2> HIDE DEF both
    <2>4. msgs'[1] = both /\ msgs'[0] = msgs[0]
      BY <1>1, <2>1, Typed
    <2>5. Covers(msgs[0], Append(file, x))
      <3>1. 0 \in Depth /\ 0 <= depth
        BY <2>1, Typed, <1>1
      <3>2. Covers(msgs[0], file) /\ msgs[0] \in Seq(Message) /\ file \in Seq(Message)
        BY <1>1, <3>1, Typed DEF CoverInv, Covered
      <3> QED
        BY <2>2, <3>2, CoversMore
    <2> QED
      BY <2>1, <2>3, <2>4, <2>5 DEF Covered, Depth
  <1> QED
    BY <1>6, <1>7, <1>8, <1>9, <1>10, <1>11, <1>12, <1>13, <1>14, <1>15, <1>16, <1>17, <1>18,
       <1>19 DEF Next

\* Whatever an agent remembers is in the transcript, in the same order, so
\* that a resume has it back: however the turns were interrupted, delegated
\* and compacted, at every depth and after any number of resumes.
THEOREM TranscriptAlwaysCoversMemory == Spec => []TranscriptCoversMemory
  <1>1. Init => CoverInv
    <2> SUFFICES ASSUME Init PROVE CoverInv
      OBVIOUS
    <2> DEFINE m == <<System(0)>>
    <2>1. TypeInv
      BY TypeInit
    <2>2. msgs[0] = m /\ depth = 0
      BY DEF Init, NoMsgs, Depth
    <2>3. m \in Seq(Message) /\ Len(m) = 1
      BY <2>1, Typed, PromptsAre
    <2> HIDE DEF m
    <2>4. Covers(m, file)
      <3>1. Len(m) <= 1
        BY <2>3
      <3> QED
        BY <2>3, <3>1, CoversNothing
    <2> QED
      BY <2>1, <2>2, <2>4 DEF CoverInv, Covered, Depth
  <1>2. CoverInv => TranscriptCoversMemory
    <2> SUFFICES ASSUME CoverInv
                 PROVE  Found(SubSeq(msgs[depth], 2, Len(msgs[depth])), file) <= Len(file)
      BY Zenon DEF TranscriptCoversMemory, Found
    <2>1. TypeInv /\ depth \in Depth /\ depth <= depth /\ file \in Seq(Message)
      BY Typed DEF CoverInv, Depth
    <2>2. Covers(msgs[depth], file) /\ msgs[depth] \in Seq(Message) /\ msgs[depth] # <<>>
      BY <2>1, Conversing DEF CoverInv, Covered
    <2> QED
      BY <2>1, <2>2, CoversFound
  <1> QED
    BY <1>1, <1>2, CoverStep, PTL DEF Spec

-----------------------------------------------------------------------------
(* The permission gate: that the audit log tells of every run, that a      *)
(* sub-agent stays in bounds, that nothing forbidden runs, and that the    *)
(* gate keeps what Consent promises.  What a step does to the gate and to  *)
(* the history is one of a few kinds; the proofs go through the kinds, and *)
(* StepKinds goes through the actions.                                     *)

(* The kinds of step, as the gate and the history see them.                *)

Busy == {"confirm", "approved", "tool"}

\* The same agent goes on, below the same delegation if there is one.
Stays ==
    /\ UNCHANGED <<depth, readOnly>>
    /\ depth = 1 => Head(pending'[0]) = Head(pending[0])

\* ... and is at the same call.
Waits == Stays /\ Current' = Current

Logs(evs) == trace' = trace \o evs

Quiet ==
    /\ UNCHANGED <<gateVars, trace>>
    /\ \/ phase \notin Busy \cup {"off"} /\ phase' \notin Busy \cup {"off"} /\ Stays
       \/ phase' = phase /\ Waits

Gone ==
    /\ phase' = "off" /\ depth' = 0 /\ trace' = trace
    /\ mode' = InitMode /\ remembered' = {}

ModeIsSet(m) ==
    /\ phase = "prompt" /\ phase' = "prompt" /\ depth = 0 /\ depth' = 0
    /\ mode' = m /\ remembered' = {}
    /\ Logs(<<Event("mode", 0, NoTool, m)>>)

Restarted ==
    /\ phase = "off" /\ phase' = "prompt" /\ depth = 0 /\ depth' = 0
    /\ UNCHANGED gateVars
    /\ Logs(<<Event("mode", 0, NoTool, InitMode)>>)

Denied ==
    /\ phase = "dispatch" /\ phase' = "dispatch" /\ Stays
    /\ Current.req \in Registry(depth)
    /\ UNCHANGED gateVars
    /\ Logs(<<Event("permission", depth, Current.req, "deny")>>)

Allowed ==
    /\ phase = "dispatch" /\ phase' = "approved" /\ Waits
    /\ Current.req \in Registry(depth)
    /\ Evaluate(mode, remembered, Current.req) = "allow"
    /\ UNCHANGED gateVars
    /\ Logs(<<Event("permission", depth, Current.req, "allow")>>)

Asked ==
    /\ phase = "dispatch" /\ phase' = "confirm" /\ Waits
    /\ Current.req \in Registry(depth)
    /\ Evaluate(mode, remembered, Current.req) = "ask"
    /\ UNCHANGED <<gateVars, trace>>

Agreed(a) ==
    /\ phase = "confirm" /\ phase' = "approved" /\ Waits
    /\ UNCHANGED mode
    /\ remembered' = IF a = "always" THEN remembered \cup {rememberKey[Current.req]}
                     ELSE remembered
    /\ Logs(Answered(a, "allow"))

Declined(a) ==
    /\ phase = "confirm" /\ phase' \in {"dispatch", "prompt"} /\ Stays
    /\ UNCHANGED gateVars
    /\ Logs(Answered(a, "deny"))

\* The sub-agent's run is over.
Returned(evs) ==
    /\ phase \in {"stream", "waiting", "confirm"} /\ phase' = "dispatch"
    /\ depth = 1 /\ depth' = 0
    /\ UNCHANGED gateVars
    /\ Logs(evs \o <<Event("tool_call", 0, Head(pending[0]).req, "done")>>)

Begun ==
    /\ phase = "approved" /\ phase' = "tool" /\ Waits
    /\ UNCHANGED gateVars
    /\ Logs(<<Event("run", depth, Current.req, "start")>>)

Delegated ==
    /\ phase = "approved" /\ phase' = "stream" /\ depth = 0 /\ depth' = 1
    /\ Current.req \in Task /\ Head(pending'[0]) = Current
    /\ UNCHANGED gateVars
    /\ Logs(<<Event("run", 0, Current.req, "start"),
              Event("subagent", 1, Current.req, "start")>>)

Ended(evs) ==
    /\ phase = "tool" /\ phase' = "dispatch" /\ Stays
    /\ UNCHANGED gateVars
    /\ Logs(evs)

StepKind ==
    \/ Quiet
    \/ Gone
    \/ \E m \in Mode : ModeIsSet(m)
    \/ Restarted
    \/ Denied
    \/ Allowed
    \/ Asked
    \/ \E a \in {"yes", "always"} : Agreed(a)
    \/ \E a \in {"no", "quit"} : Declined(a)
    \/ Returned(<<>>)
    \/ phase = "confirm" /\ Returned(Answered("quit", "deny"))
    \/ Begun
    \/ Delegated
    \/ \E evs \in {<<>>, <<Event("tool_call", depth, Current.req, "done")>>} : Ended(evs)

\* A run that ends without having been cancelled.
LEMMA FinishKind ==
    ASSUME TypeInv, NEW said, NEW evs \in Seq(Record), NEW r,
           phase \in {"stream", "waiting", "confirm"},
           FinishRun(said, evs, r), UNCHANGED gateVars
    PROVE  \/ depth = 0 /\ Stays /\ phase' = "prompt" /\ Logs(evs)
           \/ Returned(evs)
  <1>1. CASE depth = 0
    BY <1>1 DEF FinishRun, Stays, Logs
  <1>2. CASE depth = 1
    <2> DEFINE e == Event("tool_call", 0, Head(pending[0]).req, "done")
    <2>1. phase' = "dispatch" /\ depth' = 0 /\ trace' = Append(trace \o evs, e)
      BY <1>2 DEF FinishRun
    <2>2. e \in Record
      <3>1. pending[0] \in Seq(Call) /\ pending[0] # <<>> /\ 0 \in Depth
        BY <1>2 DEF TypeInv, TypeOK, AtWork, Depth
      <3>2. Head(pending[0]).req \in Request \cup {NoTool}
        BY <3>1, CallsAre
      <3> QED
        BY <3>1, <3>2, EventsAre DEF Kind, Word
    <2> HIDE DEF e
    <2>3. trace' = trace \o (evs \o <<e>>)
      <3>1. trace \in Seq(Record) /\ <<e>> \in Seq(Record) /\ trace \o evs \in Seq(Record)
        BY <2>2, ConcatProperties DEF TypeInv
      <3>2. trace' = (trace \o evs) \o <<e>>
        BY <2>1, <2>2, <3>1, AppendIsConcat
      <3> QED
        BY <3>1, <3>2, ConcatAssociative
    <2> QED
      BY <1>2, <2>1, <2>3 DEF Returned, Logs, e
  <1> QED
    BY <1>1, <1>2 DEF FinishRun

\* A result for the current call: the agent goes on, below the same delegation.
LEMMA ResultStays ==
    ASSUME TypeInv, NEW n, appendToolResult(depth, n), UNCHANGED runVars
    PROVE  Stays /\ phase' = "dispatch"
  <1>1. /\ pending' = [pending EXCEPT ![depth] = Tail(pending[depth])]
        /\ phase' = "dispatch"
    BY DEF appendToolResult
  <1>2. depth = 1 => pending'[0] = pending[0]
    BY <1>1 DEF TypeInv, TypeOK, Depth
  <1> QED
    BY <1>1, <1>2 DEF Stays, runVars

\* Every step is of one of the kinds.
LEMMA StepKinds == TypeInv /\ [Next]_vars => StepKind
  <1> SUFFICES ASSUME TypeInv, [Next]_vars PROVE StepKind
    OBVIOUS
  <1>0. /\ trace \in Seq(Record) /\ depth \in Depth /\ pending \in [Depth -> Seq(Call)]
        /\ <<>> \in Seq(Record)
        /\ trace = trace \o <<>>
    BY EmptySeq, ConcatEmptySeq DEF TypeInv, TypeOK
  <1>a. ASSUME phase \in Busy
        PROVE  /\ Current.req \in Request /\ Current.req \in Registry(depth)
               /\ \A w \in Word, k \in Kind : Event(k, depth, Current.req, w) \in Record
    <2>1. Current.req \in Request /\ Current.req \in Registry(depth)
      BY <1>a, RegistryIs DEF TypeInv, AtWork, Busy
    <2> QED
      BY <1>0, <2>1, EventsAre
  <1>b. ASSUME NEW e \in Record, trace' = Append(trace, e) PROVE trace' = trace \o <<e>>
    BY <1>0, <1>b, AppendIsConcat
  <1>1. CASE UNCHANGED vars
    BY <1>1 DEF vars, convVars, gateVars, runVars, StepKind, Quiet, Waits, Stays, Current
  <1>2. CASE Exit \/ Cancelled \/ Kill
    BY <1>2 DEF Exit, Cancelled, Kill, Off, StepKind, Gone
  <1>3. CASE UserPrompt \/ Compact \/ Reset
    <2>1. /\ phase = "prompt" /\ phase' \in {"prompt", "stream"}
          /\ UNCHANGED <<pending, gateVars, runVars, trace>>
      BY <1>3 DEF UserPrompt, Compact, Reset, AtPrompt
    <2> QED
      BY <2>1 DEF StepKind, Quiet, Stays, Busy, runVars, gateVars
  <1>4. ASSUME NEW m \in Mode, SetMode(m) PROVE StepKind
    <2>1. /\ phase = "prompt" /\ phase' = phase /\ mode' = m /\ remembered' = {}
          /\ trace' = Append(trace, Event("mode", 0, NoTool, m)) /\ depth' = depth
      BY <1>4 DEF SetMode, AtPrompt, runVars
    <2>2. Event("mode", 0, NoTool, m) \in Record
      BY EventsAre DEF Kind, Word, Depth
    <2>3. depth = 0
      BY <2>1 DEF TypeInv, AtWork
    <2>4. ModeIsSet(m)
      BY <1>b, <2>1, <2>2, <2>3 DEF ModeIsSet, Logs
    <2> QED
      BY <2>4 DEF StepKind
  <1>5. CASE Resume
    <2>1. /\ phase = "off" /\ phase' = "prompt" /\ UNCHANGED gateVars
          /\ trace' = Append(trace, Event("mode", 0, NoTool, InitMode)) /\ depth' = depth
      BY <1>5 DEF Resume, runVars
    <2>2. Event("mode", 0, NoTool, InitMode) \in Record
      BY AgentAssumption, EventsAre DEF Kind, Word, Depth
    <2>3. depth = 0
      BY <2>1 DEF TypeInv, AtWork
    <2> QED
      BY <1>b, <2>1, <2>2, <2>3 DEF StepKind, Restarted, Logs
  <1>6. CASE SendRequest \/ NextTurn
    <2>1. /\ phase \in {"stream", "dispatch"} /\ phase' \in {"waiting", "stream"}
          /\ UNCHANGED <<pending, gateVars, runVars, trace>>
      BY <1>6 DEF SendRequest, NextTurn
    <2> QED
      BY <2>1 DEF StepKind, Quiet, Stays, Busy, runVars, gateVars
  <1>7. CASE TurnBudgetSpent \/ StreamFails
             \/ \E n \in ReplySizes, r \in Rates : FinalReply(n, r)
    <2>1. PICK said, r : /\ phase \in {"stream", "waiting"} /\ FinishRun(said, <<>>, r)
                         /\ UNCHANGED gateVars
      BY <1>7 DEF TurnBudgetSpent, StreamFails, FinalReply
    <2>2. \/ depth = 0 /\ Stays /\ phase' = "prompt" /\ Logs(<<>>)
          \/ Returned(<<>>)
      <3>1. <<>> \in Seq(Record) /\ phase \in {"stream", "waiting", "confirm"}
        BY <1>0, <2>1
      <3> DEFINE none == <<>>
      <3>2. none \in Seq(Record) /\ FinishRun(said, none, r)
        BY <2>1, <3>1
      <3> HIDE DEF none
      <3>3. \/ depth = 0 /\ Stays /\ phase' = "prompt" /\ Logs(none)
            \/ Returned(none)
        BY <2>1, <3>1, <3>2, FinishKind
      <3> QED
        BY <3>3 DEF none
    <2>3. CASE depth = 0 /\ Stays /\ phase' = "prompt" /\ Logs(<<>>)
      <3>1. trace' = trace
        BY <1>0, <2>3 DEF Logs
      <3> QED
        BY <2>1, <2>3, <3>1 DEF StepKind, Quiet, Busy
    <2>4. CASE Returned(<<>>)
      BY <2>4 DEF StepKind
    <2> QED
      BY <2>2, <2>3, <2>4
  <1>8. ASSUME NEW reqs, NEW n, NEW r, Reply(reqs, n, r) PROVE StepKind
    <2>1. PICK calls : pending' = [pending EXCEPT ![depth] = calls]
      BY <1>8 DEF Reply
    <2>2. /\ phase = "waiting" /\ phase' = "dispatch" /\ UNCHANGED <<gateVars, runVars, trace>>
      BY <1>8 DEF Reply
    <2>3. depth = 1 => pending'[0] = pending[0]
      BY <1>0, <2>1 DEF Depth
    <2>4. Stays
      BY <2>2, <2>3 DEF Stays, runVars
    <2> QED
      BY <2>2, <2>4 DEF StepKind, Quiet, Busy, runVars, gateVars
  <1>9. CASE BadCall
    <2>1. /\ phase = "dispatch" /\ appendToolResult(depth, 1)
          /\ UNCHANGED <<gateVars, runVars, trace>>
      BY <1>9 DEF BadCall, AtCall
    <2>2. Stays /\ phase' = "dispatch"
      BY <2>1, ResultStays
    <2> QED
      BY <2>1, <2>2 DEF StepKind, Quiet, Busy
  <1>10. CASE Check
    <2> DEFINE r == Current.req
               d == Evaluate(mode, remembered, r)
    <2>1. /\ phase = "dispatch" /\ r \in Registry(depth) /\ d # "ask"
          /\ trace' = Append(trace, Event("permission", depth, r, d))
          /\ IF d = "deny" THEN appendToolResult(depth, 1)
             ELSE phase' = "approved" /\ UNCHANGED <<convVars, inputs, starts>>
          /\ UNCHANGED <<gateVars, runVars>>
      BY <1>10 DEF Check, AtCall
    <2>2. r \in Request /\ mode \in Mode
      BY <2>1, RegistryIs DEF TypeInv, TypeOK
    <2>3. d \in {"deny", "allow"}
      BY <2>1, <2>2, Decides
    <2> HIDE DEF d
    <2>4. Event("permission", depth, r, d) \in Record
      BY <1>0, <2>2, <2>3, EventsAre DEF Kind, Word
    <2>5. Logs(<<Event("permission", depth, r, d)>>)
      BY <1>b, <2>1, <2>4 DEF Logs
    <2>6. CASE d = "deny"
      <3>1. Stays /\ phase' = "dispatch"
        BY <2>1, <2>6, ResultStays
      <3> QED
        BY <2>1, <2>5, <2>6, <3>1 DEF StepKind, Denied
    <2>7. CASE d = "allow"
      <3>1. Waits /\ phase' = "approved"
        BY <2>1, <2>7 DEF Waits, Stays, Current, convVars, runVars
      <3>2. Allowed
        BY <2>1, <2>5, <2>7, <3>1 DEF Allowed, d
      <3> QED
        BY <3>2 DEF StepKind
    <2> QED
      BY <2>3, <2>6, <2>7
  <1>11. CASE Ask
    <2>1. /\ phase = "dispatch" /\ Current.req \in Registry(depth)
          /\ Evaluate(mode, remembered, Current.req) = "ask"
          /\ phase' = "confirm"
          /\ UNCHANGED <<convVars, gateVars, runVars, inputs, starts, trace>>
      BY <1>11 DEF Ask, AtCall
    <2>2. Waits
      BY <2>1 DEF Waits, Stays, Current, convVars, runVars
    <2>3. Asked
      BY <2>1, <2>2 DEF Asked
    <2> QED
      BY <2>3 DEF StepKind
  <1>12. ASSUME NEW a \in {"yes", "always"}, AnswerYes(a) PROVE StepKind
    <2>1. /\ phase = "confirm" /\ phase' = "approved" /\ UNCHANGED mode
          /\ remembered' = IF a = "always" THEN remembered \cup {rememberKey[Current.req]}
                           ELSE remembered
          /\ Logs(Answered(a, "allow")) /\ UNCHANGED <<convVars, runVars>>
      BY <1>12 DEF AnswerYes, Logs
    <2>2. Waits
      BY <2>1 DEF Waits, Stays, Current, convVars, runVars
    <2>3. Agreed(a)
      BY <2>1, <2>2 DEF Agreed
    <2> QED
      BY <2>3 DEF StepKind
  <1>13. CASE AnswerNo
    <2>1. /\ phase = "confirm" /\ appendToolResult(depth, 1) /\ UNCHANGED <<gateVars, runVars>>
          /\ Logs(Answered("no", "deny"))
      BY <1>13 DEF AnswerNo, Logs
    <2>2. Stays /\ phase' = "dispatch"
      BY <2>1, ResultStays
    <2>3. Declined("no")
      BY <2>1, <2>2 DEF Declined
    <2> QED
      BY <2>3 DEF StepKind
  <1>14. CASE AnswerQuit
    <2>1. /\ phase = "confirm" /\ FinishRun(<<>>, Answered("quit", "deny"), rate[0])
          /\ UNCHANGED gateVars
      BY <1>14 DEF AnswerQuit
    <2>2. Answered("quit", "deny") \in Seq(Record)
      BY <1>a, <2>1 DEF Answered, Busy, Kind, Word
    <2>3. \/ depth = 0 /\ Stays /\ phase' = "prompt" /\ Logs(Answered("quit", "deny"))
          \/ Returned(Answered("quit", "deny"))
      BY <2>1, <2>2, FinishKind
    <2>4. Declined("quit") \/ Returned(Answered("quit", "deny"))
      BY <2>1, <2>3 DEF Declined
    <2> QED
      BY <2>1, <2>4 DEF StepKind
  <1>15. CASE RunTool
    <2>1. /\ phase = "approved" /\ phase' = "tool"
          /\ trace' = Append(trace, Event("run", depth, Current.req, "start"))
          /\ UNCHANGED <<convVars, gateVars, runVars, inputs, starts>>
      BY <1>15 DEF RunTool
    <2>2. Event("run", depth, Current.req, "start") \in Record
      BY <1>a, <2>1 DEF Busy, Kind, Word
    <2>3. Waits
      BY <2>1 DEF Waits, Stays, Current, convVars, runVars
    <2>4. Begun
      BY <1>b, <2>1, <2>2, <2>3 DEF Begun, Logs
    <2> QED
      BY <2>4 DEF StepKind
  <1>16. CASE Delegate
    <2>1. /\ phase = "approved" /\ depth = 0 /\ Current.req \in Task
          /\ depth' = 1 /\ phase' = "stream" /\ UNCHANGED <<pending, gateVars>>
          /\ Logs(<<Event("run", 0, Current.req, "start"),
                    Event("subagent", 1, Current.req, "start")>>)
      BY <1>16 DEF Delegate, Logs
    <2>2. Head(pending'[0]) = Current
      BY <2>1 DEF Current
    <2>3. Delegated
      BY <2>1, <2>2 DEF Delegated
    <2> QED
      BY <2>3 DEF StepKind
  <1>17. ASSUME NEW n, ToolDone(n) PROVE StepKind
    <2> DEFINE e == Event("tool_call", depth, Current.req, "done")
    <2>1. /\ phase = "tool" /\ appendToolResult(depth, n) /\ UNCHANGED <<gateVars, runVars>>
          /\ trace' = Append(trace, e)
      BY <1>17 DEF ToolDone
    <2>2. e \in Record
      BY <1>a, <2>1 DEF Busy, Kind, Word
    <2>3. Stays /\ phase' = "dispatch"
      BY <2>1, ResultStays
    <2>4. Logs(<<e>>)
      <3> HIDE DEF e
      <3> QED
        BY <1>b, <2>1, <2>2 DEF Logs
    <2>5. Ended(<<e>>)
      BY <2>1, <2>3, <2>4 DEF Ended
    <2> QED
      BY <2>5 DEF StepKind
  <1>18. CASE ToolFails
    <2>1. /\ phase = "tool" /\ appendToolResult(depth, 1) /\ UNCHANGED <<gateVars, runVars>>
          /\ trace' = trace
      BY <1>18 DEF ToolFails
    <2>2. Stays /\ phase' = "dispatch"
      BY <2>1, ResultStays
    <2>3. Ended(<<>>)
      BY <1>0, <2>1, <2>2 DEF Ended, Logs
    <2> QED
      BY <2>3 DEF StepKind
  <1>19. CASE Interrupt
    BY <1>19 DEF Interrupt, convVars, StepKind, Quiet, Waits, Stays, Current
  <1> QED
    BY <1>1, <1>2, <1>3, <1>4, <1>5, <1>6, <1>7, <1>8, <1>9, <1>10, <1>11, <1>12, <1>13,
       <1>14, <1>15, <1>16, <1>17, <1>18, <1>19 DEF Next, AnyReply

-----------------------------------------------------------------------------
(* What the audit log tells.                                               *)

OwnOf(e, d) == e.by = d /\ e.ev \in {"run", "tool_call"}

\* In the history t, what the agent at depth d did last before i is at j.
OwnAt(t, j, i, d) ==
    /\ j \in 1..i - 1 /\ OwnOf(t[j], d)
    /\ \A k \in j + 1..i - 1 : ~ OwnOf(t[k], d)

\* What it did last of all is start to run r.
LastDid(t, d, r) ==
    \E j \in 1..Len(t) :
        OwnAt(t, j, Len(t) + 1, d) /\ t[j].ev = "run" /\ t[j].req = r

\* A call that is approved has just been logged as allowed; what runs, or has
\* been delegated, is the last thing its agent logged or started.
Told ==
    /\ phase = "approved" =>
         /\ trace # <<>>
         /\ trace[Len(trace)] = Event("permission", depth, Current.req, "allow")
    /\ phase = "tool" => LastDid(trace, depth, Current.req)
    /\ depth = 1 => LastDid(trace, 0, Head(pending[0]).req)

AuditInv == TypeInv /\ Told /\ AuditTellsOfEveryRun /\ SubagentStaysInBounds

\* Records that are added come after those that are there.
LEMMA LogGrows ==
    ASSUME NEW t \in Seq(Record), NEW evs \in Seq(Record)
    PROVE  /\ t \o evs \in Seq(Record)
           /\ Len(t) \in Nat /\ Len(evs) \in Nat
           /\ Len(t \o evs) = Len(t) + Len(evs)
           /\ \A i \in 1..Len(t) : (t \o evs)[i] = t[i]
           /\ \A k \in 1..Len(evs) : (t \o evs)[Len(t) + k] = evs[k]
           /\ \A i \in 1..Len(t) + Len(evs) : i \in 1..Len(t) \/
                (i - Len(t) \in 1..Len(evs) /\ Len(t) + (i - Len(t)) = i)
  <1> DEFINE u == t \o evs
  <1>1. /\ u \in Seq(Record) /\ Len(t) \in Nat /\ Len(evs) \in Nat
        /\ Len(u) = Len(t) + Len(evs)
        /\ \A i \in 1..Len(t) + Len(evs) :
             u[i] = IF i <= Len(t) THEN t[i] ELSE evs[i - Len(t)]
    BY ConcatProperties, LenProperties
  <1> HIDE DEF u
  <1>2. ASSUME NEW i \in 1..Len(t) PROVE u[i] = t[i]
    BY <1>1
  <1>3. ASSUME NEW k \in 1..Len(evs) PROVE u[Len(t) + k] = evs[k]
    <2>1. /\ Len(t) + k \in 1..Len(t) + Len(evs)
          /\ ~ (Len(t) + k <= Len(t)) /\ (Len(t) + k) - Len(t) = k
      BY <1>1
    <2> QED
      BY <1>1, <2>1
  <1>4. ASSUME NEW i \in 1..Len(t) + Len(evs), i \notin 1..Len(t)
        PROVE  i - Len(t) \in 1..Len(evs) /\ Len(t) + (i - Len(t)) = i
    BY <1>1, <1>4
  <1> QED
    BY <1>1, <1>2, <1>3, <1>4 DEF u

\* What an agent did last before a position is what it did last before a later
\* one, if what comes in between is not its own.
LEMMA OwnAtGrows ==
    ASSUME NEW t \in Seq(Record), NEW evs \in Seq(Record), NEW d, NEW j,
           NEW i \in 1..Len(t) + 1, OwnAt(t, j, i, d)
    PROVE  /\ OwnAt(t \o evs, j, i, d)
           /\ j \in 1..Len(t) /\ (t \o evs)[j] = t[j]
           /\ \A k \in 1..Len(evs) + 1 :
                i = Len(t) + 1 /\ (\A m \in 1..k - 1 : ~ OwnOf(evs[m], d)) =>
                  OwnAt(t \o evs, j, Len(t) + k, d)
  <1> DEFINE u == t \o evs
  <1> PICK n \in Nat, l \in Nat : n = Len(t) /\ l = Len(evs)
    BY LogGrows
  <1>1. /\ \A m \in 1..n : u[m] = t[m]
        /\ \A m \in 1..l : u[n + m] = evs[m]
    BY LogGrows
  <1> HIDE DEF u
  <1>2. /\ j \in 1..i - 1 /\ OwnOf(t[j], d) /\ \A m \in j + 1..i - 1 : ~ OwnOf(t[m], d)
    BY DEF OwnAt
  <1>3. j \in 1..n /\ u[j] = t[j]
    BY <1>1, <1>2
  <1>4. OwnAt(u, j, i, d)
    <2>1. \A m \in j + 1..i - 1 : m \in 1..n
      BY <1>2
    <2> QED
      BY <1>1, <1>2, <1>3, <2>1 DEF OwnAt
  <1>5. ASSUME NEW k \in 1..l + 1, i = n + 1, \A m \in 1..k - 1 : ~ OwnOf(evs[m], d)
        PROVE  OwnAt(u, j, n + k, d)
    <2>1. ASSUME NEW m \in j + 1..(n + k) - 1 PROVE ~ OwnOf(u[m], d)
      <3>1. CASE m <= n
        <4>1. m \in j + 1..i - 1 /\ m \in 1..n
          BY <1>3, <1>5, <3>1
        <4> QED
          BY <1>1, <1>2, <4>1
      <3>2. CASE ~ (m <= n)
        <4>1. m - n \in 1..l /\ m - n \in 1..k - 1 /\ n + (m - n) = m
          BY <1>3, <3>2
        <4> QED
          BY <1>1, <1>5, <4>1
      <3> QED
        BY <1>3, <3>1, <3>2
    <2>2. j \in 1..(n + k) - 1
      BY <1>3
    <2> QED
      BY <1>2, <1>3, <2>1, <2>2 DEF OwnAt
  <1> QED
    BY <1>3, <1>4, <1>5 DEF u

\* So the run that it is about is found from there,
LEMMA LastDidGrows ==
    ASSUME NEW t \in Seq(Record), NEW evs \in Seq(Record), NEW d, NEW r,
           NEW k \in 1..Len(evs) + 1, LastDid(t, d, r),
           \A m \in 1..k - 1 : ~ OwnOf(evs[m], d)
    PROVE  \E j \in 1..Len(t) : /\ OwnAt(t \o evs, j, Len(t) + k, d)
                                /\ (t \o evs)[j] = t[j]
                                /\ t[j].ev = "run" /\ t[j].req = r
  <1>1. PICK j \in 1..Len(t) :
           OwnAt(t, j, Len(t) + 1, d) /\ t[j].ev = "run" /\ t[j].req = r
    BY DEF LastDid
  <1>2. Len(t) + 1 \in 1..Len(t) + 1
    BY LenProperties
  <1>3. OwnAt(t \o evs, j, Len(t) + k, d) /\ (t \o evs)[j] = t[j]
    BY <1>1, <1>2, OwnAtGrows
  <1> QED
    BY <1>1, <1>3

\* ... and it stays what it did last of all while others do things.
LEMMA LastDidStays ==
    ASSUME NEW t \in Seq(Record), NEW evs \in Seq(Record), NEW d, NEW r,
           LastDid(t, d, r), \A k \in 1..Len(evs) : ~ OwnOf(evs[k], d)
    PROVE  LastDid(t \o evs, d, r)
  <1> DEFINE u == t \o evs
  <1> PICK k \in Nat : k = Len(evs) + 1
    BY LogGrows
  <1>1. /\ Len(t) \in Nat /\ Len(evs) \in Nat /\ Len(u) = Len(t) + Len(evs)
    BY LogGrows
  <1>2. k \in 1..Len(evs) + 1 /\ k - 1 = Len(evs) /\ Len(t) + k = Len(u) + 1
    BY <1>1
  <1>a. \A m \in 1..k - 1 : ~ OwnOf(evs[m], d)
    BY <1>2
  <1>3. PICK j \in 1..Len(t) : /\ OwnAt(u, j, Len(t) + k, d) /\ u[j] = t[j]
                               /\ t[j].ev = "run" /\ t[j].req = r
    <2>1. k \in 1..Len(evs) + 1
      BY <1>2
    <2>2. \E j \in 1..Len(t) : /\ OwnAt(t \o evs, j, Len(t) + k, d)
                               /\ (t \o evs)[j] = t[j]
                               /\ t[j].ev = "run" /\ t[j].req = r
      BY <1>a, <2>1, LastDidGrows
    <2> QED
      BY <2>2
  <1> QED
    BY <1>1, <1>2, <1>3 DEF LastDid

\* What it has just begun is what it did last.
LEMMA LastDidNow ==
    ASSUME NEW t \in Seq(Record), NEW evs \in Seq(Record), NEW d, NEW r,
           Len(evs) > 0, evs[1].ev = "run", evs[1].by = d, evs[1].req = r,
           \A k \in 2..Len(evs) : ~ OwnOf(evs[k], d)
    PROVE  LastDid(t \o evs, d, r)
  <1> DEFINE u == t \o evs
  <1> PICK n \in Nat, l \in Nat : n = Len(t) /\ l = Len(evs)
    BY LogGrows
  <1>1. /\ Len(u) = n + l
        /\ \A k \in 1..l : u[n + k] = evs[k]
    BY LogGrows
  <1> HIDE DEF u
  <1>2. ASSUME NEW k \in n + 1 + 1..(n + l + 1) - 1 PROVE ~ OwnOf(u[k], d)
    <2>1. k - n \in 2..l /\ k - n \in 1..l /\ n + (k - n) = k
      OBVIOUS
    <2> QED
      BY <1>1, <2>1
  <1>3. n + 1 \in 1..n + l /\ n + 1 \in 1..(n + l + 1) - 1 /\ u[n + 1] = evs[1]
    BY <1>1
  <1>4. OwnAt(u, n + 1, n + l + 1, d)
    BY <1>2, <1>3 DEF OwnAt, OwnOf
  <1> QED
    BY <1>1, <1>3, <1>4 DEF LastDid, u

\* The two properties, of a history.
TellsAll(t) ==
    \A i \in 1..Len(t) :
        /\ t[i].ev = "run" =>
             i > 1 /\ t[i - 1] = Event("permission", t[i].by, t[i].req, "allow")
        /\ t[i].ev = "tool_call" =>
             \E j \in 1..Len(t) :
                OwnAt(t, j, i, t[i].by) /\ t[j].ev = "run" /\ t[j].req = t[i].req

\* What the request t lets a sub-agent do.
Lets(t, r) == r \notin Task /\ (t \in ReadOnlyTask => r \notin Mutating)

InBounds(t) ==
    \A i \in 1..Len(t) : t[i].ev = "run" /\ t[i].by = 1 =>
        \E j \in 1..Len(t) :
            /\ OwnAt(t, j, i, 0)
            /\ t[j].ev = "run" /\ t[j].req \in Task /\ Lets(t[j].req, t[i].req)

\* They are what they are said to be.
LEMMA HistoryIs ==
    /\ AuditTellsOfEveryRun <=> TellsAll(trace)
    /\ SubagentStaysInBounds <=> InBounds(trace)
    /\ AuditTellsOfEveryRun' <=> TellsAll(trace')
    /\ SubagentStaysInBounds' <=> InBounds(trace')
  <1>1. AuditTellsOfEveryRun <=> TellsAll(trace)
    BY DEF AuditTellsOfEveryRun, TellsAll, LastOwn, OwnAt, OwnOf
  <1>2. SubagentStaysInBounds <=> InBounds(trace)
    BY DEF SubagentStaysInBounds, InBounds, LastOwn, OwnAt, OwnOf, Lets
  <1>3. AuditTellsOfEveryRun' <=> TellsAll(trace')
    BY DEF AuditTellsOfEveryRun, TellsAll, LastOwn, OwnAt, OwnOf
  <1>4. SubagentStaysInBounds' <=> InBounds(trace')
    BY DEF SubagentStaysInBounds, InBounds, LastOwn, OwnAt, OwnOf, Lets
  <1> QED
    BY <1>1, <1>2, <1>3, <1>4

\* Records may be added that tell the truth: a run right after the permission
\* for it, a finished call that is the last thing its agent started, a
\* sub-agent's run under a delegation that lets it.
LEMMA AuditGrows ==
    ASSUME NEW t \in Seq(Record), NEW evs \in Seq(Record), TellsAll(t), InBounds(t),
           \A k \in 1..Len(evs) :
             /\ evs[k].ev = "run" =>
                  /\ k = 1 /\ t # <<>>
                  /\ t[Len(t)] = Event("permission", evs[k].by, evs[k].req, "allow")
             /\ evs[k].ev = "tool_call" =>
                  /\ LastDid(t, evs[k].by, evs[k].req)
                  /\ \A m \in 1..k - 1 : ~ OwnOf(evs[m], evs[k].by)
             /\ evs[k].ev = "run" /\ evs[k].by = 1 =>
                  \E q \in Task : LastDid(t, 0, q) /\ Lets(q, evs[k].req)
    PROVE  TellsAll(t \o evs) /\ InBounds(t \o evs)
  <1> DEFINE u == t \o evs
  <1> PICK n \in Nat, l \in Nat : n = Len(t) /\ l = Len(evs)
    BY LogGrows
  <1>1. /\ Len(u) = n + l
        /\ \A i \in 1..n : u[i] = t[i]
        /\ \A i \in 1..l : u[n + i] = evs[i]
        /\ \A i \in 1..n + l : i \in 1..n \/ (i - n \in 1..l /\ n + (i - n) = i)
    BY LogGrows
  <1>2. ASSUME NEW i \in 1..n, NEW j, NEW d, OwnAt(t, j, i, d)
        PROVE  OwnAt(u, j, i, d) /\ j \in 1..n + l /\ u[j] = t[j]
    <2>1. i \in 1..Len(t) + 1
      OBVIOUS
    <2>2. OwnAt(u, j, i, d) /\ j \in 1..n /\ u[j] = t[j]
      BY <1>2, <2>1, OwnAtGrows
    <2> QED
      BY <2>2
  <1>3. ASSUME NEW k \in 1..l, NEW d, NEW r, LastDid(t, d, r),
               \A i \in 1..k - 1 : ~ OwnOf(evs[i], d)
        PROVE  \E j \in 1..n + l : OwnAt(u, j, n + k, d) /\ u[j].ev = "run" /\ u[j].req = r
    <2>1. k \in 1..Len(evs) + 1
      OBVIOUS
    <2>2. PICK j \in 1..Len(t) : /\ OwnAt(t \o evs, j, Len(t) + k, d)
                                 /\ (t \o evs)[j] = t[j]
                                 /\ t[j].ev = "run" /\ t[j].req = r
      BY <1>3, <2>1, LastDidGrows
    <2> QED
      BY <2>2
  <1> HIDE DEF u
  <1>4. ASSUME NEW i \in 1..n + l
        PROVE  /\ u[i].ev = "run" =>
                    i > 1 /\ u[i - 1] = Event("permission", u[i].by, u[i].req, "allow")
               /\ u[i].ev = "tool_call" =>
                    \E j \in 1..n + l : /\ OwnAt(u, j, i, u[i].by)
                                        /\ u[j].ev = "run" /\ u[j].req = u[i].req
    <2>1. CASE i \in 1..n
      <3>1. u[i] = t[i] /\ (i > 1 => u[i - 1] = t[i - 1])
        BY <1>1, <2>1
      <3>2. /\ t[i].ev = "run" =>
                 i > 1 /\ t[i - 1] = Event("permission", t[i].by, t[i].req, "allow")
            /\ t[i].ev = "tool_call" =>
                 \E j \in 1..n : /\ OwnAt(t, j, i, t[i].by)
                                 /\ t[j].ev = "run" /\ t[j].req = t[i].req
        BY <2>1 DEF TellsAll
      <3> QED
        BY <1>2, <2>1, <3>1, <3>2
    <2>2. ASSUME NEW k \in 1..l, i = n + k
          PROVE  /\ evs[k].ev = "run" =>
                      i > 1 /\ u[i - 1] = Event("permission", evs[k].by, evs[k].req, "allow")
                 /\ evs[k].ev = "tool_call" =>
                      \E j \in 1..n + l : /\ OwnAt(u, j, i, evs[k].by)
                                          /\ u[j].ev = "run" /\ u[j].req = evs[k].req
      <3>1. ASSUME evs[k].ev = "run"
            PROVE  i > 1 /\ u[i - 1] = Event("permission", evs[k].by, evs[k].req, "allow")
        <4>1. k = 1 /\ n \in 1..n /\ i - 1 = n
          BY <2>2, <3>1, EmptySeq
        <4> QED
          BY <1>1, <2>2, <3>1, <4>1
      <3>2. ASSUME evs[k].ev = "tool_call"
            PROVE  \E j \in 1..n + l : /\ OwnAt(u, j, i, evs[k].by)
                                       /\ u[j].ev = "run" /\ u[j].req = evs[k].req
        <4>1. \E j \in 1..n + l : /\ OwnAt(u, j, n + k, evs[k].by)
                                  /\ u[j].ev = "run" /\ u[j].req = evs[k].req
          BY <1>3, <3>2
        <4> QED
          BY <2>2, <4>1
      <3> QED
        BY <3>1, <3>2
    <2>3. ASSUME i \notin 1..n PROVE \E k \in 1..l : i = n + k /\ u[i] = evs[k]
      <3>1. i - n \in 1..l /\ n + (i - n) = i
        BY <1>1, <2>3
      <3>2. u[n + (i - n)] = evs[i - n]
        BY <1>1, <3>1
      <3> QED
        BY <3>1, <3>2
    <2> QED
      BY <2>1, <2>2, <2>3
  <1>5. ASSUME NEW i \in 1..n + l, u[i].ev = "run", u[i].by = 1
        PROVE  \E j \in 1..n + l :
                 /\ OwnAt(u, j, i, 0)
                 /\ u[j].ev = "run" /\ u[j].req \in Task /\ Lets(u[j].req, u[i].req)
    <2>1. CASE i \in 1..n
      <3>1. u[i] = t[i]
        BY <1>1, <2>1
      <3>2. \E j \in 1..n :
                 /\ OwnAt(t, j, i, 0)
                 /\ t[j].ev = "run" /\ t[j].req \in Task /\ Lets(t[j].req, t[i].req)
        BY <1>5, <2>1, <3>1 DEF InBounds
      <3> QED
        BY <1>2, <2>1, <3>1, <3>2
    <2>2. ASSUME NEW k \in 1..l, i = n + k
          PROVE  \E j \in 1..n + l :
                   /\ OwnAt(u, j, i, 0)
                   /\ u[j].ev = "run" /\ u[j].req \in Task /\ Lets(u[j].req, u[i].req)
      <3>1. u[i] = evs[k] /\ k = 1
        BY <1>1, <1>5, <2>2
      <3>2. PICK q \in Task : LastDid(t, 0, q) /\ Lets(q, evs[k].req)
        BY <1>5, <3>1
      <3>3. \A m \in 1..k - 1 : ~ OwnOf(evs[m], 0)
        BY <3>1
      <3> QED
        BY <1>3, <2>2, <3>1, <3>2, <3>3
    <2> QED
      BY <1>1, <2>1, <2>2
  <1>6. TellsAll(u)
    BY <1>1, <1>4 DEF TellsAll
  <1>7. InBounds(u)
    BY <1>1, <1>5 DEF InBounds
  <1> QED
    BY <1>6, <1>7 DEF u

\* The session begins with a history of one change of mode.
LEMMA AuditInit == Init => AuditInv
  <1> SUFFICES ASSUME Init PROVE AuditInv
    OBVIOUS
  <1>1. TypeInv
    BY TypeInit
  <1>2. Told
    BY DEF Told, Init
  <1> DEFINE e == Event("mode", 0, NoTool, InitMode)
  <1>3. trace = <<e>> /\ e.ev = "mode"
    BY DEF Init, Event
  <1> HIDE DEF e
  <1>4. Len(trace) = 1 /\ trace[1].ev = "mode"
    BY <1>3
  <1>5. TellsAll(trace) /\ InBounds(trace)
    BY <1>4 DEF TellsAll, InBounds
  <1> QED
    BY <1>1, <1>2, <1>5, HistoryIs DEF AuditInv

\* What is logged about the current call.
LEMMA BusyRecords ==
    ASSUME TypeInv, phase \in Busy
    PROVE  /\ Current.req \in Request /\ Current.req \in Registry(depth)
           /\ \A w \in Word, k \in Kind :
                /\ Event(k, depth, Current.req, w) \in Record
                /\ Event(k, depth, Current.req, w).ev = k
                /\ Event(k, depth, Current.req, w).by = depth
                /\ Event(k, depth, Current.req, w).req = Current.req
  <1>1. Current.req \in Request /\ Current.req \in Registry(depth) /\ depth \in Depth
    BY RegistryIs DEF TypeInv, TypeOK, AtWork, Busy
  <1> QED
    BY <1>1, EventsAre

\* What is logged of an answer.
LEMMA AnswersAre ==
    ASSUME NEW a \in {"yes", "always", "no", "quit"}, NEW w \in {"allow", "deny"},
           TypeInv, phase = "confirm"
    PROVE  /\ Answered(a, w) \in Seq(Record) /\ Len(Answered(a, w)) = 2
           /\ \A k \in 1..Len(Answered(a, w)) :
                Answered(a, w)[k].ev \notin {"run", "tool_call"}
           /\ Answered(a, w)[1].ev = "answer" /\ Answered(a, w)[1].what = a
           /\ Answered(a, w)[1].req = Current.req
           /\ Answered(a, w)[2] = Event("permission", depth, Current.req, w)
           /\ Answered(a, w)[2].ev = "permission"
  <1> DEFINE p == Event("answer", depth, Current.req, a)
             q == Event("permission", depth, Current.req, w)
  <1>1. p \in Record /\ q \in Record /\ p.ev = "answer" /\ q.ev = "permission"
        /\ p.req = Current.req
    BY BusyRecords DEF Busy, Kind, Word
  <1>2. p.what = a
    BY DEF Event
  <1>3. Answered(a, w) = <<p, q>>
    BY DEF Answered
  <1> HIDE DEF p, q
  <1> QED
    BY <1>1, <1>2, <1>3 DEF q

\* Every step logs what is true.
LEMMA AuditStep == AuditInv /\ [Next]_vars => AuditInv'
  <1> SUFFICES ASSUME AuditInv, [Next]_vars PROVE AuditInv'
    OBVIOUS
  <1>0. /\ TypeInv /\ Told /\ TellsAll(trace) /\ InBounds(trace)
        /\ trace \in Seq(Record) /\ depth \in Depth
    BY HistoryIs DEF AuditInv, TypeInv, TypeOK
  <1>1. TypeInv' /\ StepKind
    BY <1>0, TypeStep, StepKinds
  <1>2. ASSUME Told', TellsAll(trace') /\ InBounds(trace') PROVE AuditInv'
    BY <1>1, <1>2, HistoryIs DEF AuditInv
  <1>3. ASSUME phase \in Busy
        PROVE  /\ Current.req \in Request /\ Current.req \in Registry(depth)
               /\ \A w \in Word, k \in Kind :
                    /\ Event(k, depth, Current.req, w) \in Record
                    /\ Event(k, depth, Current.req, w).ev = k
                    /\ Event(k, depth, Current.req, w).by = depth
                    /\ Event(k, depth, Current.req, w).req = Current.req
    BY <1>0, <1>3, BusyRecords
  <1>4. \* What is no run and no finished call may be logged.
        ASSUME NEW evs \in Seq(Record), Logs(evs),
               \A k \in 1..Len(evs) : evs[k].ev \notin {"run", "tool_call"}
        PROVE  /\ TellsAll(trace') /\ InBounds(trace')
               /\ \A d, r : LastDid(trace, d, r) => LastDid(trace', d, r)
    <2>1. trace' = trace \o evs /\ \A k \in 1..Len(evs), d \in Depth : ~ OwnOf(evs[k], d)
      BY <1>4 DEF Logs, OwnOf
    <2>2. \A k \in 1..Len(evs) : \A d : ~ OwnOf(evs[k], d)
      BY <1>4 DEF OwnOf
    <2>3. TellsAll(trace') /\ InBounds(trace')
      BY <1>0, <1>4, <2>1, AuditGrows
    <2>4. ASSUME NEW d, NEW r, LastDid(trace, d, r) PROVE LastDid(trace', d, r)
      BY <1>0, <2>1, <2>2, <2>4, LastDidStays
    <2> QED
      BY <2>3, <2>4
  <1>5. CASE Quiet
    <2>1. trace' = trace
      BY <1>5 DEF Quiet
    <2>2. Told'
      <3>1. CASE phase' = phase /\ Waits
        BY <1>0, <2>1, <3>1 DEF Told, Waits, Stays
      <3>2. CASE phase' \notin Busy /\ Stays
        BY <1>0, <2>1, <3>2 DEF Told, Busy, Stays
      <3> QED
        BY <1>5, <3>1, <3>2 DEF Quiet
    <2> QED
      BY <1>0, <1>2, <2>1, <2>2
  <1>6. CASE Gone
    <2>1. trace' = trace /\ Told'
      BY <1>6 DEF Gone, Told
    <2> QED
      BY <1>0, <1>2, <2>1
  <1>7. CASE Restarted \/ \E m \in Mode : ModeIsSet(m)
    <2>1. PICK m \in Mode : /\ phase' = "prompt" /\ depth' = 0
                            /\ Logs(<<Event("mode", 0, NoTool, m)>>)
      BY <1>7, AgentAssumption DEF Restarted, ModeIsSet
    <2> DEFINE e == Event("mode", 0, NoTool, m)
    <2>2. e \in Record /\ e.ev = "mode"
      BY EventsAre DEF Depth, Kind, Word
    <2> HIDE DEF e
    <2>3. <<e>> \in Seq(Record) /\ \A k \in 1..Len(<<e>>) : <<e>>[k] = e
      BY <2>2
    <2>4. TellsAll(trace') /\ InBounds(trace')
      <3>1. Logs(<<e>>)
        BY <2>1 DEF e
      <3> QED
        BY <1>4, <2>2, <2>3, <3>1
    <2>5. Told'
      BY <2>1 DEF Told
    <2> QED
      BY <1>2, <2>4, <2>5
  <1>8. ASSUME NEW w \in {"allow", "deny"}, phase = "dispatch", Stays,
               Current.req \in Request \cup {NoTool},
               Logs(<<Event("permission", depth, Current.req, w)>>),
               phase' = "dispatch" \/ (phase' = "approved" /\ Waits /\ w = "allow")
        PROVE  AuditInv'
    <2> DEFINE e == Event("permission", depth, Current.req, w)
    <2>1. e \in Record /\ e.ev = "permission"
      BY <1>0, <1>8, EventsAre DEF Kind, Word
    <2>2. Logs(<<e>>)
      BY <1>8
    <2> HIDE DEF e
    <2>3. /\ <<e>> \in Seq(Record) /\ Len(<<e>>) = 1 /\ <<e>>[1] = e
          /\ \A k \in 1..Len(<<e>>) : <<e>>[k] = e
      BY <2>1
    <2>4. /\ TellsAll(trace') /\ InBounds(trace')
          /\ \A d, r : LastDid(trace, d, r) => LastDid(trace', d, r)
      BY <1>4, <2>1, <2>2, <2>3
    <2>5. trace' # <<>> /\ trace'[Len(trace')] = e
      <3>1. trace' \in Seq(Record) /\ Len(trace') = Len(trace) + 1 /\ Len(trace) \in Nat
            /\ trace'[Len(trace) + 1] = e
        BY <1>0, <2>2, <2>3, LogGrows DEF Logs
      <3> QED
        BY <3>1, EmptySeq
    <2>6. Told'
      BY <1>0, <1>8, <2>4, <2>5 DEF Told, Stays, Waits, e
    <2> QED
      BY <1>2, <2>4, <2>6
  <1>9. CASE Denied
    <2>1. Current.req \in Request \cup {NoTool}
      BY <1>9, RegistryIs DEF Denied
    <2> QED
      BY <1>8, <1>9, <2>1 DEF Denied

  <1>10. CASE Allowed
    <2>1. Current.req \in Request \cup {NoTool}
      BY <1>10, RegistryIs DEF Allowed
    <2> QED
      BY <1>8, <1>10, <2>1 DEF Allowed, Waits
  <1>11. CASE Asked
    <2>1. trace' = trace
      BY <1>11 DEF Asked
    <2>2. Told'
      BY <1>0, <1>11, <2>1 DEF Asked, Told, Waits, Stays
    <2> QED
      BY <1>0, <1>2, <2>1, <2>2
  <1>12. ASSUME NEW a \in {"yes", "always", "no", "quit"}, NEW w \in {"allow", "deny"},
                phase = "confirm"
         PROVE  /\ Answered(a, w) \in Seq(Record) /\ Len(Answered(a, w)) = 2
                /\ \A k \in 1..Len(Answered(a, w)) :
                     Answered(a, w)[k].ev \notin {"run", "tool_call"}
                /\ Answered(a, w)[2] = Event("permission", depth, Current.req, w)
    BY <1>0, <1>12, AnswersAre
  <1>13. ASSUME NEW a \in {"yes", "always"}, Agreed(a) PROVE AuditInv'
    <2> DEFINE evs == Answered(a, "allow")
    <2>1. phase = "confirm" /\ phase' = "approved" /\ Waits /\ Logs(evs)
      BY <1>13 DEF Agreed
    <2>2. /\ evs \in Seq(Record) /\ Len(evs) = 2
          /\ \A k \in 1..Len(evs) : evs[k].ev \notin {"run", "tool_call"}
          /\ evs[2] = Event("permission", depth, Current.req, "allow")
      BY <1>12, <2>1
    <2> HIDE DEF evs
    <2>3. /\ TellsAll(trace') /\ InBounds(trace')
          /\ \A d, r : LastDid(trace, d, r) => LastDid(trace', d, r)
      BY <1>4, <2>1, <2>2
    <2>4. trace' # <<>> /\ trace'[Len(trace')] = evs[2]
      <3>1. trace' = trace \o evs /\ 2 \in 1..Len(evs)
        BY <2>1, <2>2 DEF Logs
      <3>2. trace' \in Seq(Record) /\ Len(trace') = Len(trace) + 2 /\ Len(trace) \in Nat
            /\ trace'[Len(trace) + 2] = evs[2]
        <4>1. /\ trace \o evs \in Seq(Record) /\ Len(trace) \in Nat
              /\ Len(trace \o evs) = Len(trace) + Len(evs)
              /\ \A k \in 1..Len(evs) : (trace \o evs)[Len(trace) + k] = evs[k]
          BY <1>0, <2>2, LogGrows
        <4> QED
          BY <2>2, <3>1, <4>1
      <3> QED
        BY <3>2, EmptySeq
    <2>5. Told'
      BY <1>0, <2>1, <2>2, <2>3, <2>4 DEF Told, Stays, Waits
    <2> QED
      BY <1>2, <2>3, <2>5
  <1>14. ASSUME NEW a \in {"no", "quit"}, Declined(a) PROVE AuditInv'
    <2> DEFINE evs == Answered(a, "deny")
    <2>1. phase = "confirm" /\ phase' \in {"dispatch", "prompt"} /\ Stays /\ Logs(evs)
      BY <1>14 DEF Declined
    <2>2. /\ evs \in Seq(Record)
          /\ \A k \in 1..Len(evs) : evs[k].ev \notin {"run", "tool_call"}
      BY <1>12, <2>1
    <2> HIDE DEF evs
    <2>3. /\ TellsAll(trace') /\ InBounds(trace')
          /\ \A d, r : LastDid(trace, d, r) => LastDid(trace', d, r)
      BY <1>4, <2>1, <2>2
    <2>4. Told'
      BY <1>0, <2>1, <2>3 DEF Told, Stays
    <2> QED
      BY <1>2, <2>3, <2>4
  <1>15. ASSUME NEW evs \in Seq(Record), Returned(evs),
                \A k \in 1..Len(evs) : evs[k].ev \notin {"run", "tool_call"}
         PROVE  AuditInv'
    <2> DEFINE r == Head(pending[0]).req
               e == Event("tool_call", 0, r, "done")
               all == evs \o <<e>>
    <2>1. /\ phase' = "dispatch" /\ depth = 1 /\ depth' = 0 /\ Logs(all)
      BY <1>15 DEF Returned
    <2>2. r \in Request
      BY <1>0, <2>1, AgentAssumption, PermissionAssumption DEF TypeInv, AtWork
    <2>3. e \in Record /\ e.ev = "tool_call" /\ e.by = 0 /\ e.req = r
      <3> HIDE DEF r
      <3> QED
        BY <2>2, EventsAre DEF Depth, Kind, Word
    <2>4. LastDid(trace, 0, r)
      BY <1>0, <2>1 DEF Told
    <2> PICK l \in Nat : l = Len(evs)
      BY LenProperties
    <2> HIDE DEF e
    <2>5. /\ all \in Seq(Record) /\ Len(all) = l + 1
          /\ \A k \in 1..l : all[k] = evs[k]
          /\ all[l + 1] = e
      <3>1. <<e>> \in Seq(Record) /\ Len(<<e>>) = 1 /\ <<e>>[1] = e /\ 1 \in 1..Len(<<e>>)
        BY <2>3
      <3> QED
        BY <3>1, LogGrows
    <2> HIDE DEF all
    <2>6. TellsAll(trace') /\ InBounds(trace')
      <3>1. ASSUME NEW k \in 1..Len(all)
            PROVE  /\ all[k].ev # "run"
                   /\ all[k].ev = "tool_call" =>
                        all[k] = e /\ \A m \in 1..k - 1 : all[m].ev \notin {"run", "tool_call"}
        <4>1. CASE k \in 1..l
          BY <1>15, <2>5, <4>1
        <4>2. CASE k = l + 1
          BY <1>15, <2>3, <2>5, <4>2
        <4> QED
          BY <2>5, <4>1, <4>2
      <3>2. trace' = trace \o all
        BY <2>1 DEF Logs
      <3>3. \A k \in 1..Len(all) :
              /\ all[k].ev # "run"
              /\ all[k].ev = "tool_call" =>
                   /\ LastDid(trace, all[k].by, all[k].req)
                   /\ \A m \in 1..k - 1 : ~ OwnOf(all[m], all[k].by)
        BY <2>3, <2>4, <3>1 DEF OwnOf
      <3> HIDE DEF r
      <3> QED
        BY <1>0, <2>5, <3>2, <3>3, AuditGrows
    <2>7. Told'
      BY <2>1 DEF Told
    <2> QED
      BY <1>2, <2>6, <2>7
  <1>16. CASE Begun
    <2> DEFINE e == Event("run", depth, Current.req, "start")
    <2>1. phase = "approved" /\ phase' = "tool" /\ Waits /\ Logs(<<e>>)
      BY <1>16 DEF Begun
    <2>2. /\ e \in Record /\ e.ev = "run" /\ e.by = depth /\ e.req = Current.req
          /\ Current.req \in Registry(depth)
      BY <1>3, <2>1 DEF Busy, Kind, Word
    <2> HIDE DEF e
    <2>3. /\ <<e>> \in Seq(Record) /\ Len(<<e>>) = 1 /\ <<e>>[1] = e
          /\ \A k \in 1..Len(<<e>>) : <<e>>[k] = e /\ k = 1
      BY <2>2
    <2>4. trace # <<>> /\ trace[Len(trace)] = Event("permission", e.by, e.req, "allow")
      BY <1>0, <2>1, <2>2 DEF Told
    <2>5. e.by = 1 => \E q \in Task : LastDid(trace, 0, q) /\ Lets(q, e.req)
      <3>1. ASSUME e.by = 1
            PROVE  LastDid(trace, 0, Head(pending[0]).req) /\ Head(pending[0]).req \in Task
                   /\ Lets(Head(pending[0]).req, e.req)
        BY <1>0, <2>2, <3>1 DEF Told, TypeInv, AtWork, Registry, subRegistry, Lets
      <3> QED
        BY <3>1
    <2>6. TellsAll(trace') /\ InBounds(trace')
      <3>1. trace' = trace \o <<e>>
        BY <2>1 DEF Logs
      <3> QED
        BY <1>0, <2>2, <2>3, <2>4, <2>5, <3>1, AuditGrows
    <2>7. LastDid(trace', depth, Current.req)
      <3>1. trace' = trace \o <<e>>
        BY <2>1 DEF Logs
      <3>2. Len(<<e>>) > 0 /\ \A k \in 2..Len(<<e>>) : ~ OwnOf(<<e>>[k], depth)
        BY <2>3
      <3> QED
        BY <1>0, <2>2, <2>3, <3>1, <3>2, LastDidNow
    <2>8. depth = 1 => LastDid(trace', 0, Head(pending[0]).req)
      <3>1. trace' = trace \o <<e>>
        BY <2>1 DEF Logs
      <3>2. ASSUME depth = 1 PROVE \A k \in 1..Len(<<e>>) : ~ OwnOf(<<e>>[k], 0)
        BY <2>2, <2>3, <3>2 DEF OwnOf
      <3>3. ASSUME depth = 1 PROVE LastDid(trace, 0, Head(pending[0]).req)
        BY <1>0, <3>3 DEF Told
      <3> QED
        BY <1>0, <2>3, <3>1, <3>2, <3>3, LastDidStays
    <2>9. Told'
      BY <2>1, <2>7, <2>8 DEF Told, Waits, Stays
    <2> QED
      BY <1>2, <2>6, <2>9
  <1>17. CASE Delegated
    <2> DEFINE e == Event("run", 0, Current.req, "start")
               f == Event("subagent", 1, Current.req, "start")
    <2>1. /\ phase = "approved" /\ phase' = "stream" /\ depth = 0 /\ Logs(<<e, f>>)
          /\ Head(pending'[0]) = Current
      BY <1>17 DEF Delegated
    <2>2. /\ e \in Record /\ e.ev = "run" /\ e.by = 0 /\ e.req = Current.req
          /\ f \in Record /\ f.ev = "subagent" /\ Current.req \in Request
      <3>1. Current.req \in Request
        BY <1>3, <2>1 DEF Busy
      <3> QED
        BY <3>1, EventsAre DEF Depth, Kind, Word
    <2> HIDE DEF e, f
    <2> DEFINE all == <<e, f>>
    <2>3. /\ all \in Seq(Record) /\ Len(all) = 2 /\ all[1] = e /\ all[2] = f
          /\ \A k \in 1..Len(all) : (k = 1 /\ all[k] = e) \/ (k = 2 /\ all[k] = f)
      BY <2>2
    <2>4. trace # <<>> /\ trace[Len(trace)] = Event("permission", e.by, e.req, "allow")
      BY <1>0, <2>1, <2>2 DEF Told
    <2>5. trace' = trace \o all
      BY <2>1 DEF Logs
    <2> HIDE DEF all
    <2>6. TellsAll(trace') /\ InBounds(trace')
      BY <1>0, <2>2, <2>3, <2>4, <2>5, AuditGrows
    <2>7. LastDid(trace', 0, Current.req)
      <3>1. Len(all) > 0 /\ \A k \in 2..Len(all) : ~ OwnOf(all[k], 0)
        BY <2>2, <2>3 DEF OwnOf
      <3> QED
        BY <1>0, <2>2, <2>3, <2>5, <3>1, LastDidNow
    <2>8. Told'
      BY <2>1, <2>7 DEF Told
    <2> QED
      BY <1>2, <2>6, <2>8
  <1>18. CASE Ended(<<>>)
    <2>1. trace' = trace
      BY <1>0, <1>18, ConcatEmptySeq DEF Ended, Logs
    <2>2. Told'
      BY <1>0, <1>18, <2>1 DEF Ended, Told, Stays
    <2> QED
      BY <1>0, <1>2, <2>1, <2>2
  <1>19. CASE Ended(<<Event("tool_call", depth, Current.req, "done")>>)
    <2> DEFINE e == Event("tool_call", depth, Current.req, "done")
    <2>1. phase = "tool" /\ phase' = "dispatch" /\ Stays /\ Logs(<<e>>)
      BY <1>19 DEF Ended
    <2>2. e \in Record /\ e.ev = "tool_call" /\ e.by = depth /\ e.req = Current.req
      BY <1>3, <2>1 DEF Busy, Kind, Word
    <2> HIDE DEF e
    <2>3. /\ <<e>> \in Seq(Record) /\ Len(<<e>>) = 1 /\ <<e>>[1] = e
          /\ \A k \in 1..Len(<<e>>) : <<e>>[k] = e /\ k = 1
      BY <2>2
    <2>4. trace' = trace \o <<e>> /\ LastDid(trace, depth, Current.req)
      BY <1>0, <2>1 DEF Logs, Told
    <2>5. TellsAll(trace') /\ InBounds(trace')
      <3>1. ASSUME NEW k \in 1..Len(<<e>>)
            PROVE  /\ <<e>>[k].ev # "run"
                   /\ LastDid(trace, <<e>>[k].by, <<e>>[k].req)
                   /\ \A m \in 1..k - 1 : FALSE
        BY <2>2, <2>3, <2>4
      <3> QED
        BY <1>0, <2>3, <2>4, <3>1, AuditGrows
    <2>6. depth = 1 => LastDid(trace', 0, Head(pending[0]).req)
      <3>1. ASSUME depth = 1 PROVE \A k \in 1..Len(<<e>>) : ~ OwnOf(<<e>>[k], 0)
        BY <2>2, <2>3, <3>1 DEF OwnOf
      <3>2. ASSUME depth = 1 PROVE LastDid(trace, 0, Head(pending[0]).req)
        BY <1>0, <3>2 DEF Told
      <3> QED
        BY <1>0, <2>3, <2>4, <3>1, <3>2, LastDidStays
    <2>7. Told'
      BY <2>1, <2>6 DEF Told, Stays
    <2> QED
      BY <1>2, <2>5, <2>7
  <1>20. CASE Returned(<<>>)
    <2> DEFINE none == <<>>
    <2>1. none \in Seq(Record) /\ \A k \in 1..Len(none) : FALSE
      BY EmptySeq
    <2>2. Returned(none)
      BY <1>20
    <2> HIDE DEF none
    <2> QED
      BY <1>15, <2>1, <2>2
  <1>21. CASE phase = "confirm" /\ Returned(Answered("quit", "deny"))
    BY <1>12, <1>15, <1>21
  <1> QED
    BY <1>1, <1>5, <1>6, <1>7, <1>9, <1>10, <1>11, <1>13, <1>14, <1>16, <1>17, <1>18, <1>19,
       <1>20, <1>21 DEF StepKind

\* Every run has its permission record right before it, and every tool_call
\* record is about the last thing its agent started, under any interleaving
\* of turns, sub-agents, refusals, quits, interrupts, kills and resumes.
THEOREM AuditAlwaysTells == Spec => []AuditTellsOfEveryRun
  <1>1. AuditInv => AuditTellsOfEveryRun
    BY DEF AuditInv
  <1> QED
    BY <1>1, AuditInit, AuditStep, PTL DEF Spec

\* A sub-agent runs things only under a delegation that is under way, and only
\* what that delegation lets it.
THEOREM SubagentAlwaysInBounds == Spec => []SubagentStaysInBounds
  <1>1. AuditInv => SubagentStaysInBounds
    BY DEF AuditInv
  <1> QED
    BY <1>1, AuditInit, AuditStep, PTL DEF Spec

-----------------------------------------------------------------------------
(* What the gate lets run.                                                 *)

\* The operator's consent, in the history t after j, to what runs at i.
ConsentAt(t, j, i, r) ==
    \E a \in j + 1..i - 1 :
        /\ t[a].ev = "answer"
        /\ \/ /\ t[a].what = "always" /\ t[a].req \in Request
              /\ rememberKey[t[a].req] = rememberKey[r]
           \/ /\ t[a].what = "yes" /\ t[a].req = r
              /\ \A k \in a..i - 1 : t[k].ev # "run"

\* In the history t, the mode in force at i was set at j.
ModeAt(t, j, i) ==
    /\ j \in 1..i - 1 /\ t[j].ev = "mode"
    /\ \A k \in j + 1..i - 1 : t[k].ev # "mode"

\* At the end of t, the mode set at j is in force.
InForce(t, j) == ModeAt(t, j, Len(t) + 1)

\* Rules, mode and consent let r run at i, where the mode was set at j.
MayRun(t, j, i, r) ==
    /\ ~ RuleDenied(r)
    /\ r \in Mutating \ AutoTool =>
         \/ t[j].what = "auto"
         \/ t[j].what = "approve" /\ ConsentAt(t, j, i, r)

Lawful(t) ==
    \A i, j \in 1..Len(t) :
        t[i].ev = "run" /\ ModeAt(t, j, i) => MayRun(t, j, i, t[i].req)

\* The approvals that are remembered were given in the mode in force.
Vouched(t, keys) ==
    \A j \in 1..Len(t) : InForce(t, j) => \A key \in keys :
        \E a \in j + 1..Len(t) :
            /\ t[a].ev = "answer" /\ t[a].what = "always" /\ t[a].req \in Request
            /\ rememberKey[t[a].req] = key

Law ==
    /\ Lawful(trace)
    /\ phase = "off" => mode = InitMode /\ remembered = {}
    /\ phase # "off" => \A j \in 1..Len(trace) : InForce(trace, j) => trace[j].what = mode
    /\ Vouched(trace, remembered)
    /\ phase = "confirm" =>
         mode = "approve" /\ ~ RuleDenied(Current.req) /\ Current.req \in Request
    /\ phase = "approved" => \A j \in 1..Len(trace) :
         InForce(trace, j) => MayRun(trace, j, Len(trace) + 1, Current.req)

LawInv == TypeInv /\ Law

\* A request that no rule denies is one that the rules in force let through.
LEMMA RulesLetThrough ==
    ASSUME NEW r, NEW rules \in {DefaultRules, RulesFile} \ {NoRulesFile},
           ~ RuleDenied(r)
    PROVE  /\ ~ Matches(rules.denyCommands \cup rules.denyPaths, r)
           /\ r \in Command /\ rules.allowCommands # {} => Matches(LoadRules.allowCommands, r)
  <1>1. /\ rules.denyCommands \subseteq LoadRules.denyCommands
        /\ rules.allowCommands \subseteq LoadRules.allowCommands
        /\ rules.denyPaths \subseteq LoadRules.denyPaths
    BY DEF LoadRules
  <1>2. ~ Matches(rules.denyCommands \cup rules.denyPaths, r)
    BY <1>1 DEF RuleDenied, Matches
  <1>3. ASSUME r \in Command, rules.allowCommands # {} PROVE Matches(LoadRules.allowCommands, r)
    <2>1. LoadRules.allowCommands # {}
      BY <1>1, <1>3
    <2> QED
      BY <1>3, <2>1 DEF RuleDenied
  <1> QED
    BY <1>2, <1>3

\* What was in force, or consented to, before a position in the history is so
\* however the history goes on.
LEMMA LawGrows ==
    ASSUME NEW t \in Seq(Record), NEW evs \in Seq(Record), NEW i \in 1..Len(t) + 1
    PROVE  /\ \A j : ModeAt(t \o evs, j, i) <=> ModeAt(t, j, i)
           /\ \A j \in 1..Len(t) : \A r : ConsentAt(t, j, i, r) => ConsentAt(t \o evs, j, i, r)
           /\ \A j \in 1..i - 1 : \A r : MayRun(t, j, i, r) => MayRun(t \o evs, j, i, r)
  <1> DEFINE u == t \o evs
  <1> PICK n \in Nat : n = Len(t)
    BY LogGrows
  <1>1. \A k \in 1..n : u[k] = t[k]
    BY LogGrows
  <1> HIDE DEF u
  <1>2. ASSUME NEW j PROVE ModeAt(u, j, i) <=> ModeAt(t, j, i)
    <2>1. CASE j \in 1..i - 1
      <3>1. u[j] = t[j] /\ \A k \in j + 1..i - 1 : u[k] = t[k]
        BY <1>1, <2>1
      <3> QED
        BY <3>1 DEF ModeAt
    <2> QED
      BY <2>1 DEF ModeAt
  <1>3. ASSUME NEW j \in 1..n, NEW r, ConsentAt(t, j, i, r) PROVE ConsentAt(u, j, i, r)
    <2>1. PICK a \in j + 1..i - 1 :
             /\ t[a].ev = "answer"
             /\ \/ /\ t[a].what = "always" /\ t[a].req \in Request
                   /\ rememberKey[t[a].req] = rememberKey[r]
                \/ /\ t[a].what = "yes" /\ t[a].req = r
                   /\ \A k \in a..i - 1 : t[k].ev # "run"
      BY <1>3 DEF ConsentAt
    <2>2. u[a] = t[a] /\ \A k \in a..i - 1 : u[k] = t[k]
      BY <1>1
    <2> QED
      BY <2>1, <2>2 DEF ConsentAt
  <1>4. ASSUME NEW j \in 1..i - 1, NEW r, MayRun(t, j, i, r) PROVE MayRun(u, j, i, r)
    <2>1. j \in 1..n /\ u[j] = t[j]
      BY <1>1
    <2> QED
      BY <1>3, <1>4, <2>1 DEF MayRun
  <1> QED
    BY <1>2, <1>3, <1>4 DEF u

\* While no mode is set, the mode in force stays, and so do the approvals that
\* were given in it; consent to what has not run holds until something runs.
LEMMA ForceStays ==
    ASSUME NEW t \in Seq(Record), NEW evs \in Seq(Record), NEW j,
           \A k \in 1..Len(evs) : evs[k].ev # "mode", InForce(t \o evs, j)
    PROVE  /\ InForce(t, j) /\ j \in 1..Len(t) /\ (t \o evs)[j] = t[j]
           /\ \A r : ConsentAt(t, j, Len(t) + 1, r)
                       /\ (\A k \in 1..Len(evs) : evs[k].ev # "run") =>
                     ConsentAt(t \o evs, j, Len(t \o evs) + 1, r)
  <1> DEFINE u == t \o evs
  <1> PICK n \in Nat, l \in Nat : n = Len(t) /\ l = Len(evs)
    BY LogGrows
  <1>1. /\ Len(u) = n + l
        /\ \A k \in 1..n : u[k] = t[k]
        /\ \A k \in 1..l : u[n + k] = evs[k]
    BY LogGrows
  <1>a. ModeAt(u, j, n + l + 1)
    BY <1>1 DEF InForce
  <1> HIDE DEF u
  <1>2. /\ j \in 1..n + l /\ u[j].ev = "mode"
        /\ \A k \in j + 1..n + l : u[k].ev # "mode"
    BY <1>a DEF ModeAt
  <1>3. j \in 1..n
    <2>1. ASSUME ~ (j <= n) PROVE FALSE
      <3>1. PICK k \in 1..l : n + k = j
        <4>1. j - n \in 1..l /\ n + (j - n) = j
          BY <1>2, <2>1
        <4> QED
          BY <4>1
      <3>2. u[j] = evs[k] /\ evs[k].ev # "mode"
        BY <1>1, <3>1
      <3> QED
        BY <1>2, <3>2
    <2> QED
      BY <1>2, <2>1
  <1>4. InForce(t, j)
    <2>1. \A k \in j + 1..(n + 1) - 1 : k \in 1..n /\ k \in j + 1..n + l
      BY <1>3
    <2>2. j \in 1..(n + 1) - 1
      BY <1>3
    <2>3. ModeAt(t, j, n + 1)
      BY <1>1, <1>2, <1>3, <2>1, <2>2 DEF ModeAt
    <2> QED
      BY <2>3 DEF InForce
  <1>5. ASSUME NEW r, ConsentAt(t, j, n + 1, r), \A k \in 1..l : evs[k].ev # "run"
        PROVE  ConsentAt(u, j, (n + l) + 1, r)
    <2>1. PICK a \in j + 1..(n + 1) - 1 :
             /\ t[a].ev = "answer"
             /\ \/ /\ t[a].what = "always" /\ t[a].req \in Request
                   /\ rememberKey[t[a].req] = rememberKey[r]
                \/ /\ t[a].what = "yes" /\ t[a].req = r
                   /\ \A k \in a..(n + 1) - 1 : t[k].ev # "run"
      BY <1>5 DEF ConsentAt
    <2>2. u[a] = t[a] /\ a \in j + 1..((n + l) + 1) - 1
      BY <1>1, <1>3
    <2>3. ASSUME NEW k \in a..((n + l) + 1) - 1, \A m \in a..(n + 1) - 1 : t[m].ev # "run"
          PROVE  u[k].ev # "run"
      <3>1. CASE k <= n
        <4>1. k \in a..(n + 1) - 1 /\ k \in 1..n
          BY <1>3, <3>1
        <4> QED
          BY <1>1, <2>3, <4>1
      <3>2. CASE ~ (k <= n)
        <4>1. PICK h \in 1..l : n + h = k
          <5>1. k - n \in 1..l /\ n + (k - n) = k
            BY <1>3, <3>2
          <5> QED
            BY <5>1
        <4>2. u[n + h] = evs[h] /\ evs[h].ev # "run"
          BY <1>1, <1>5
        <4> QED
          BY <4>1, <4>2
      <3> QED
        BY <1>3, <3>1, <3>2
    <2> QED
      BY <2>1, <2>2, <2>3 DEF ConsentAt
  <1> QED
    BY <1>1, <1>3, <1>4, <1>5 DEF u

\* Records may be added to a lawful history as long as what begins to run, with
\* the first of them, may.
LEMMA LawfulGrows ==
    ASSUME NEW t \in Seq(Record), NEW evs \in Seq(Record), Lawful(t),
           \A k \in 1..Len(evs) : evs[k].ev = "run" =>
               k = 1 /\ \A j \in 1..Len(t) :
                           InForce(t, j) => MayRun(t, j, Len(t) + 1, evs[k].req)
    PROVE  Lawful(t \o evs)
  <1> DEFINE u == t \o evs
  <1> PICK n \in Nat, l \in Nat : n = Len(t) /\ l = Len(evs)
    BY LogGrows
  <1>1. /\ Len(u) = n + l
        /\ \A k \in 1..n : u[k] = t[k]
        /\ \A k \in 1..l : u[n + k] = evs[k]
    BY LogGrows
  <1>2. ASSUME NEW i \in 1..n + 1
        PROVE  /\ \A j : ModeAt(u, j, i) <=> ModeAt(t, j, i)
               /\ \A j \in 1..i - 1 : \A r : MayRun(t, j, i, r) => MayRun(u, j, i, r)
    BY LawGrows
  <1> HIDE DEF u
  <1>3. ASSUME NEW i \in 1..n + l, NEW j \in 1..n + l, u[i].ev = "run", ModeAt(u, j, i)
        PROVE  MayRun(u, j, i, u[i].req)
    <2>1. j \in 1..i - 1
      BY <1>3 DEF ModeAt
    <2>2. CASE i <= n
      <3>1. i \in 1..n /\ i \in 1..n + 1 /\ u[i] = t[i] /\ j \in 1..n
        BY <1>1, <2>1, <2>2
      <3>2. MayRun(t, j, i, t[i].req)
        BY <1>2, <1>3, <3>1 DEF Lawful
      <3> QED
        BY <1>2, <2>1, <3>1, <3>2
    <2>3. CASE ~ (i <= n)
      <3>1. PICK k \in 1..l : n + k = i /\ u[i] = evs[k]
        <4>1. i - n \in 1..l /\ n + (i - n) = i
          BY <2>3
        <4> QED
          BY <1>1, <4>1
      <3>2. k = 1
        BY <1>3, <3>1
      <3>3. i = n + 1 /\ j \in 1..n /\ i \in 1..n + 1
        BY <2>1, <3>1, <3>2
      <3>4. InForce(t, j)
        BY <1>2, <1>3, <3>3 DEF InForce
      <3>5. MayRun(t, j, n + 1, evs[k].req)
        BY <1>3, <3>1, <3>3, <3>4
      <3> QED
        BY <1>2, <2>1, <3>1, <3>3, <3>5
    <2> QED
      BY <2>2, <2>3
  <1> QED
    BY <1>1, <1>3 DEF Lawful, u

\* A property of the history is one of its records.
LEMMA LawfulRuns ==
    ASSUME Lawful(trace)
    PROVE  NothingForbiddenRuns
  <1> SUFFICES ASSUME NEW i \in 1..Len(trace), NEW j \in 1..Len(trace),
                      trace[i].ev = "run", ModeSet(j, i)
               PROVE  /\ \A rules \in {DefaultRules, RulesFile} \ {NoRulesFile} :
                           /\ ~ Matches(rules.denyCommands \cup rules.denyPaths, trace[i].req)
                           /\ trace[i].req \in Command /\ rules.allowCommands # {} =>
                                Matches(LoadRules.allowCommands, trace[i].req)
                      /\ trace[i].req \in Mutating \ AutoTool =>
                           \/ trace[j].what = "auto"
                           \/ /\ trace[j].what = "approve"
                              /\ Consented(j, i) \/ KeyApproved(j, i)
    BY DEF NothingForbiddenRuns
  <1>1. ModeAt(trace, j, i)
    BY DEF ModeSet, ModeAt
  <1>2. MayRun(trace, j, i, trace[i].req)
    BY <1>1 DEF Lawful
  <1>3. \A rules \in {DefaultRules, RulesFile} \ {NoRulesFile} :
             /\ ~ Matches(rules.denyCommands \cup rules.denyPaths, trace[i].req)
             /\ trace[i].req \in Command /\ rules.allowCommands # {} =>
                  Matches(LoadRules.allowCommands, trace[i].req)
    BY <1>2, RulesLetThrough DEF MayRun
  <1>4. ConsentAt(trace, j, i, trace[i].req) => Consented(j, i) \/ KeyApproved(j, i)
    BY DEF ConsentAt, Consented, KeyApproved
  <1> QED
    BY <1>2, <1>3, <1>4 DEF MayRun

\* Approvals are backed by the same answers while no mode is set; one more
\* may be remembered when the operator has just said always.
LEMMA VouchedStays ==
    ASSUME NEW t \in Seq(Record), NEW evs \in Seq(Record), NEW keys, NEW more,
           \A k \in 1..Len(evs) : evs[k].ev # "mode", Vouched(t, keys),
           \A key \in more \ keys : \E k \in 1..Len(evs) :
             /\ evs[k].ev = "answer" /\ evs[k].what = "always"
             /\ evs[k].req \in Request /\ rememberKey[evs[k].req] = key
    PROVE  Vouched(t \o evs, more)
  <1> DEFINE u == t \o evs
  <1> PICK n \in Nat, l \in Nat : n = Len(t) /\ l = Len(evs)
    BY LogGrows
  <1>1. /\ Len(u) = n + l
        /\ \A k \in 1..n : u[k] = t[k]
        /\ \A k \in 1..l : u[n + k] = evs[k]
    BY LogGrows
  <1>2. ASSUME NEW j, InForce(u, j) PROVE InForce(t, j) /\ j \in 1..n
    BY <1>2, ForceStays
  <1> HIDE DEF u
  <1>3. ASSUME NEW j \in 1..n + l, InForce(u, j), NEW key \in more
        PROVE  \E a \in j + 1..n + l :
                 /\ u[a].ev = "answer" /\ u[a].what = "always" /\ u[a].req \in Request
                 /\ rememberKey[u[a].req] = key
    <2>1. CASE key \in keys
      <3>1. PICK a \in j + 1..n :
               /\ t[a].ev = "answer" /\ t[a].what = "always" /\ t[a].req \in Request
               /\ rememberKey[t[a].req] = key
        BY <1>2, <1>3, <2>1 DEF Vouched
      <3>2. u[a] = t[a] /\ a \in j + 1..n + l
        BY <1>1
      <3> QED
        BY <3>1, <3>2
    <2>2. CASE key \notin keys
      <3>1. PICK k \in 1..l : /\ evs[k].ev = "answer" /\ evs[k].what = "always"
                              /\ evs[k].req \in Request /\ rememberKey[evs[k].req] = key
        BY <2>2
      <3>2. n + k \in j + 1..n + l /\ u[n + k] = evs[k]
        BY <1>1, <1>2, <1>3
      <3> QED
        BY <3>1, <3>2
    <2> QED
      BY <2>1, <2>2
  <1> QED
    BY <1>1, <1>3 DEF Vouched, u

\* A step that sets no mode, begins nothing that may not run, and remembers no
\* approval but the one just given, leaves the gate in order.
LEMMA LawStands ==
    ASSUME NEW evs \in Seq(Record), LawInv, Logs(evs), mode' = mode,
           \A k \in 1..Len(evs) : evs[k].ev # "mode",
           \A k \in 1..Len(evs) : evs[k].ev = "run" =>
               k = 1 /\ phase = "approved" /\ evs[k].req = Current.req,
           \A key \in remembered' \ remembered : \E k \in 1..Len(evs) :
             /\ evs[k].ev = "answer" /\ evs[k].what = "always"
             /\ evs[k].req \in Request /\ rememberKey[evs[k].req] = key,
           phase # "off", phase' # "off",
           phase' = "confirm" =>
             mode = "approve" /\ ~ RuleDenied(Current'.req) /\ Current'.req \in Request,
           phase' = "approved" => \A j \in 1..Len(trace) :
               InForce(trace, j) /\ InForce(trace', j) /\ trace'[j] = trace[j] =>
                 MayRun(trace', j, Len(trace') + 1, Current'.req)
    PROVE  Law'
  <1>0. /\ trace \in Seq(Record) /\ Lawful(trace) /\ Vouched(trace, remembered)
        /\ trace' = trace \o evs
    BY DEF LawInv, TypeInv, Law, Logs
  <1>1. Lawful(trace')
    <2>1. ASSUME NEW k \in 1..Len(evs), evs[k].ev = "run"
          PROVE  k = 1 /\ \A j \in 1..Len(trace) :
                   InForce(trace, j) => MayRun(trace, j, Len(trace) + 1, evs[k].req)
      BY <2>1 DEF LawInv, Law
    <2> QED
      BY <1>0, <2>1, LawfulGrows
  <1>2. ASSUME NEW j, InForce(trace', j)
        PROVE  InForce(trace, j) /\ j \in 1..Len(trace) /\ trace'[j] = trace[j]
    BY <1>0, <1>2, ForceStays
  <1>3. Vouched(trace', remembered')
    BY <1>0, VouchedStays
  <1>4. ASSUME NEW j \in 1..Len(trace'), InForce(trace', j) PROVE trace'[j].what = mode'
    BY <1>0, <1>2, <1>4 DEF LawInv, Law
  <1>5. ASSUME phase' = "approved", NEW j \in 1..Len(trace'), InForce(trace', j)
        PROVE  MayRun(trace', j, Len(trace') + 1, Current'.req)
    BY <1>2, <1>5
  <1> QED
    BY <1>0, <1>1, <1>3, <1>4, <1>5 DEF Law

\* Setting a mode puts it in force, whatever was before.
LEMMA ModeTaken ==
    ASSUME NEW t \in Seq(Record), NEW m \in Mode, NEW j,
           InForce(t \o <<Event("mode", 0, NoTool, m)>>, j)
    PROVE  (t \o <<Event("mode", 0, NoTool, m)>>)[j].what = m
  <1> DEFINE e == Event("mode", 0, NoTool, m)
             u == t \o <<e>>
  <1> PICK n \in Nat : n = Len(t)
    BY LogGrows
  <1>1. e \in Record /\ e.ev = "mode" /\ e.what = m
    <2>1. e \in Record /\ e.ev = "mode"
      BY EventsAre DEF Depth, Kind, Word
    <2> QED
      BY <2>1 DEF Event
  <1> HIDE DEF e
  <1>2. Len(u) = n + 1 /\ u[n + 1] = e
    <2>1. <<e>> \in Seq(Record) /\ Len(<<e>>) = 1 /\ <<e>>[1] = e /\ 1 \in 1..Len(<<e>>)
      BY <1>1
    <2> QED
      BY <2>1, LogGrows
  <1>a. InForce(u, j)
    BY DEF e
  <1> HIDE DEF u
  <1>3. j \in 1..n + 1 /\ \A k \in j + 1..n + 1 : u[k].ev # "mode"
    BY <1>a, <1>2 DEF InForce, ModeAt
  <1>4. j = n + 1
    <2>1. ASSUME j # n + 1 PROVE FALSE
      <3>1. n + 1 \in j + 1..n + 1
        BY <1>3, <2>1
      <3> QED
        BY <1>1, <1>2, <1>3, <3>1
    <2> QED
      BY <2>1
  <1>5. u[j].what = m
    BY <1>1, <1>2, <1>4
  <1> QED
    BY <1>5 DEF u, e

\* The session begins in its mode, with nothing remembered.
LEMMA LawInit == Init => LawInv
  <1> SUFFICES ASSUME Init PROVE LawInv
    OBVIOUS
  <1>1. TypeInv
    BY TypeInit
  <1>2. /\ phase = "prompt" /\ remembered = {} /\ mode = InitMode /\ InitMode \in Mode
        /\ trace = <<Event("mode", 0, NoTool, InitMode)>>
    BY AgentAssumption DEF Init
  <1> DEFINE e == Event("mode", 0, NoTool, InitMode)
             none == <<>>
  <1>3. e \in Record /\ e.ev = "mode"
    BY <1>2, EventsAre DEF Depth, Kind, Word
  <1>4. none \in Seq(Record) /\ trace = none \o <<e>>
    <2> HIDE DEF e
    <2>1. <<e>> \in Seq(Record) /\ trace = <<e>>
      BY <1>2, <1>3 DEF e
    <2>2. trace = none \o <<e>>
      BY <2>1, ConcatEmptySeq
    <2> QED
      BY <2>2, EmptySeq
  <1> HIDE DEF none
  <1>5. \A j \in 1..Len(trace) : InForce(trace, j) => trace[j].what = mode
    BY <1>2, <1>4, ModeTaken
  <1> HIDE DEF e
  <1>6. Len(trace) = 1 /\ trace[1] = e
    BY <1>2 DEF e
  <1>7. Lawful(trace) /\ Vouched(trace, remembered)
    BY <1>2, <1>3, <1>6 DEF Lawful, Vouched
  <1> QED
    BY <1>1, <1>2, <1>5, <1>7 DEF LawInv, Law

\* Every step keeps the gate in order.
LEMMA LawStep == LawInv /\ [Next]_vars => LawInv'
  <1> SUFFICES ASSUME LawInv, [Next]_vars PROVE LawInv'
    OBVIOUS
  <1>0. TypeInv /\ Law /\ trace \in Seq(Record) /\ mode \in Mode
    BY DEF LawInv, TypeInv, TypeOK
  <1>1. TypeInv' /\ StepKind
    BY <1>0, TypeStep, StepKinds
  <1>2. ASSUME Law' PROVE LawInv'
    BY <1>1, <1>2 DEF LawInv
  <1> DEFINE none == <<>>
  <1>3. none \in Seq(Record) /\ (\A k \in 1..Len(none) : FALSE) /\ trace = trace \o none
    BY <1>0, EmptySeq, ConcatEmptySeq
  <1> HIDE DEF none
  <1>4. \* Nothing is let through or set.
        ASSUME NEW evs \in Seq(Record), Logs(evs), UNCHANGED gateVars,
               \A k \in 1..Len(evs) : evs[k].ev # "mode",
               \A k \in 1..Len(evs) : evs[k].ev = "run" =>
                   k = 1 /\ phase = "approved" /\ evs[k].req = Current.req,
               phase # "off", phase' \notin {"off", "confirm", "approved"}
        PROVE  LawInv'
    <2>1. mode' = mode /\ remembered' \ remembered = {}
      BY <1>4 DEF gateVars
    <2> QED
      BY <1>2, <1>4, <2>1, LawStands
  <1>5. ASSUME NEW e \in Record
        PROVE  <<e>> \in Seq(Record) /\ \A k \in 1..Len(<<e>>) : k = 1 /\ <<e>>[k] = e
    OBVIOUS
  <1>6. CASE Quiet
    <2>1. trace' = trace /\ mode' = mode /\ remembered' = remembered
      BY <1>6 DEF Quiet, gateVars
    <2>2. CASE phase' = phase /\ Waits
      BY <1>0, <1>2, <2>1, <2>2 DEF Law, Waits
    <2>3. CASE phase # "off" /\ phase' \notin {"off", "confirm", "approved"}
      BY <1>0, <1>2, <2>1, <2>3 DEF Law
    <2> QED
      BY <1>6, <2>2, <2>3 DEF Quiet, Busy
  <1>7. CASE Gone
    <2>1. Vouched(trace, {})
      BY DEF Vouched
    <2> QED
      BY <1>0, <1>2, <1>7, <2>1 DEF Gone, Law
  <1>8. ASSUME NEW m \in Mode, phase' = "prompt", mode' = m, remembered' = {},
               Logs(<<Event("mode", 0, NoTool, m)>>)
        PROVE  LawInv'
    <2> DEFINE e == Event("mode", 0, NoTool, m)
    <2>1. e \in Record /\ e.ev = "mode"
      BY EventsAre DEF Depth, Kind, Word
    <2>2. trace' = trace \o <<e>>
      BY <1>8 DEF Logs
    <2>3. ASSUME NEW j, InForce(trace', j) PROVE trace'[j].what = m
      BY <1>0, <2>2, <2>3, ModeTaken
    <2> HIDE DEF e
    <2>4. Lawful(trace')
      <3>1. Lawful(trace \o <<e>>)
        BY <1>0, <1>5, <2>1, LawfulGrows DEF Law
      <3> QED
        BY <2>2, <3>1
    <2>5. Vouched(trace', {})
      BY DEF Vouched
    <2> QED
      BY <1>2, <1>8, <2>3, <2>4, <2>5 DEF Law
  <1>9. CASE Restarted \/ \E m \in Mode : ModeIsSet(m)
    <2>1. Restarted => mode' = InitMode /\ remembered' = {}
      BY <1>0 DEF Restarted, Law, gateVars
    <2> QED
      BY <1>8, <1>9, <2>1, AgentAssumption DEF Restarted, ModeIsSet
  <1>10. CASE Denied
    <2> DEFINE e == Event("permission", depth, Current.req, "deny")
    <2>1. e \in Record /\ e.ev = "permission"
      <3>1. Current.req \in Request /\ depth \in Depth
        BY <1>0, <1>10, RegistryIs DEF Denied, TypeInv, TypeOK
      <3> QED
        BY <3>1, EventsAre DEF Kind, Word
    <2>2. Logs(<<e>>) /\ UNCHANGED gateVars /\ phase = "dispatch" /\ phase' = "dispatch"
      BY <1>10 DEF Denied
    <2> HIDE DEF e
    <2> QED
      BY <1>4, <1>5, <2>1, <2>2
  <1>11. CASE Allowed
    <2> DEFINE e == Event("permission", depth, Current.req, "allow")
               r == Current.req
    <2>1. e \in Record /\ e.ev = "permission" /\ r \in Request
      <3>1. Current.req \in Request /\ depth \in Depth
        BY <1>0, <1>11, RegistryIs DEF Allowed, TypeInv, TypeOK
      <3>2. e \in Record /\ e.ev = "permission"
        BY <3>1, EventsAre DEF Kind, Word
      <3> QED
        BY <3>1, <3>2
    <2>2. /\ Logs(<<e>>) /\ mode' = mode /\ remembered' = remembered
          /\ phase = "dispatch" /\ phase' = "approved"
          /\ Current' = Current /\ Evaluate(mode, remembered, r) = "allow"
      BY <1>11 DEF Allowed, gateVars, Waits
    <2>3. /\ ~ RuleDenied(r)
          /\ r \in Mutating \ AutoTool =>
               mode = "auto" \/ (mode = "approve" /\ rememberKey[r] \in remembered)
      BY <1>0, <2>1, <2>2, Decides
    <2> HIDE DEF e
    <2>4. ASSUME NEW j \in 1..Len(trace), InForce(trace, j), trace'[j] = trace[j]
          PROVE  MayRun(trace', j, Len(trace') + 1, Current'.req)
      <3>1. trace[j].what = mode
        BY <1>0, <2>2, <2>4 DEF Law
      <3>2. ASSUME rememberKey[r] \in remembered PROVE ConsentAt(trace', j, Len(trace') + 1, r)
        <4>1. PICK a \in j + 1..Len(trace) :
                 /\ trace[a].ev = "answer" /\ trace[a].what = "always"
                 /\ trace[a].req \in Request /\ rememberKey[trace[a].req] = rememberKey[r]
          BY <1>0, <2>4, <3>2 DEF Law, Vouched
        <4>2. /\ trace'[a] = trace[a] /\ Len(trace') = Len(trace) + 1 /\ Len(trace) \in Nat
          <5>1. <<e>> \in Seq(Record) /\ Len(<<e>>) = 1 /\ trace' = trace \o <<e>>
            BY <2>1, <2>2 DEF Logs
          <5>2. a \in 1..Len(trace)
            BY <1>0, LenProperties
          <5> QED
            BY <1>0, <5>1, <5>2, LogGrows
        <4>3. a \in j + 1..(Len(trace') + 1) - 1
          BY <4>2
        <4> QED
          BY <4>1, <4>2, <4>3 DEF ConsentAt
      <3>3. MayRun(trace', j, Len(trace') + 1, r)
        BY <2>3, <2>4, <3>1, <3>2 DEF MayRun
      <3> QED
        BY <2>2, <3>3
    <2>5. Law'
      <3>1. remembered' \ remembered = {}
        BY <2>2
      <3> QED
        BY <1>5, <2>1, <2>2, <2>4, <3>1, LawStands
    <2> QED
      BY <1>2, <2>5
  <1>12. CASE Asked
    <2>1. /\ trace' = trace /\ mode' = mode /\ remembered' = remembered
          /\ phase = "dispatch" /\ phase' = "confirm" /\ Current' = Current
          /\ Evaluate(mode, remembered, Current.req) = "ask" /\ Current.req \in Request
      BY <1>12, RegistryIs DEF Asked, Waits, gateVars
    <2>2. mode = "approve" /\ ~ RuleDenied(Current.req)
      BY <1>0, <2>1, Decides
    <2> QED
      BY <1>0, <1>2, <2>1, <2>2 DEF Law
  <1>13. ASSUME NEW a \in {"yes", "always"}, Agreed(a) PROVE LawInv'
    <2> DEFINE evs == Answered(a, "allow")
               r == Current.req
    <2>1. /\ phase = "confirm" /\ phase' = "approved" /\ mode' = mode /\ Current' = Current
          /\ remembered' = IF a = "always" THEN remembered \cup {rememberKey[r]}
                           ELSE remembered
          /\ trace' = trace \o evs
      BY <1>13 DEF Agreed, Waits, Logs
    <2>2. /\ evs \in Seq(Record) /\ Len(evs) = 2
          /\ \A k \in 1..Len(evs) : evs[k].ev \notin {"run", "tool_call"}
          /\ evs[1].ev = "answer" /\ evs[1].what = a /\ evs[1].req = r
          /\ evs[2].ev = "permission"
      BY <1>0, <2>1, AnswersAre
    <2>7. r \in Request
      BY <1>0, <2>1 DEF Law
    <2> HIDE DEF evs
    <2>3. \A k \in 1..Len(evs) : k \in {1, 2} /\ evs[k].ev # "mode" /\ evs[k].ev # "run"
      BY <2>2
    <2>4. \A key \in remembered' \ remembered : \E k \in 1..Len(evs) :
             /\ evs[k].ev = "answer" /\ evs[k].what = "always"
             /\ evs[k].req \in Request /\ rememberKey[evs[k].req] = key
      BY <2>1, <2>2, <2>7
    <2>5. ASSUME NEW j \in 1..Len(trace), InForce(trace, j), trace'[j] = trace[j]
          PROVE  MayRun(trace', j, Len(trace') + 1, Current'.req)
      <3>1. trace'[j].what = "approve" /\ ~ RuleDenied(r)
        BY <1>0, <2>1, <2>5 DEF Law
      <3>2. PICK n \in Nat : n = Len(trace)
        BY <1>0, LenProperties
      <3>3. /\ Len(trace') = n + 2 /\ trace'[n + 1] = evs[1] /\ trace'[n + 2] = evs[2]
        <4>1. 1 \in 1..Len(evs) /\ 2 \in 1..Len(evs)
          BY <2>2
        <4>2. /\ Len(trace \o evs) = Len(trace) + Len(evs)
              /\ \A k \in 1..Len(evs) : (trace \o evs)[Len(trace) + k] = evs[k]
          BY <1>0, <2>2, LogGrows
        <4> QED
          BY <2>1, <2>2, <3>2, <4>1, <4>2
      <3>4. n + 1 \in j + 1..(n + 3) - 1
        BY <3>2
      <3>5. \A k \in n + 1..(n + 3) - 1 : trace'[k].ev # "run"
        <4>1. \A k \in n + 1..(n + 3) - 1 : k = n + 1 \/ k = n + 2
          OBVIOUS
        <4> QED
          BY <2>2, <3>3, <4>1
      <3>6. ConsentAt(trace', j, n + 3, r)
        BY <2>2, <2>7, <3>3, <3>4, <3>5 DEF ConsentAt
      <3>7. Len(trace') + 1 = n + 3
        BY <3>3
      <3> QED
        BY <2>1, <3>1, <3>6, <3>7 DEF MayRun
    <2>6. Law'
      BY <2>1, <2>2, <2>3, <2>4, <2>5, LawStands DEF Logs
    <2> QED
      BY <1>2, <2>6
  <1>14. ASSUME NEW a \in {"no", "quit"}, Declined(a) PROVE LawInv'
    <2> DEFINE evs == Answered(a, "deny")
    <2>1. /\ phase = "confirm" /\ phase' \in {"dispatch", "prompt"} /\ UNCHANGED gateVars
          /\ Logs(evs)
      BY <1>14 DEF Declined
    <2>2. /\ evs \in Seq(Record) /\ Len(evs) = 2
          /\ \A k \in 1..Len(evs) : evs[k].ev \notin {"run", "tool_call"}
          /\ evs[1].ev = "answer" /\ evs[2].ev = "permission"
      BY <1>0, <2>1, AnswersAre
    <2> HIDE DEF evs
    <2>3. \A k \in 1..Len(evs) : evs[k].ev # "mode" /\ evs[k].ev # "run"
      <3>1. \A k \in 1..Len(evs) : k = 1 \/ k = 2
        BY <2>2
      <3> QED
        BY <2>2, <3>1
    <2> QED
      BY <1>4, <2>1, <2>2, <2>3
  <1>15. ASSUME NEW evs \in Seq(Record), Returned(evs),
                \A k \in 1..Len(evs) : evs[k].ev # "mode" /\ evs[k].ev # "run"
         PROVE  LawInv'
    <2> DEFINE r == Head(pending[0]).req
               e == Event("tool_call", 0, r, "done")
               all == evs \o <<e>>
    <2>1. /\ phase \in {"stream", "waiting", "confirm"} /\ phase' = "dispatch" /\ depth = 1
          /\ UNCHANGED gateVars /\ Logs(all)
      BY <1>15 DEF Returned
    <2>2. r \in Request
      BY <1>0, <2>1, AgentAssumption, PermissionAssumption DEF TypeInv, AtWork
    <2>3. e \in Record /\ e.ev = "tool_call"
      <3> HIDE DEF r
      <3> QED
        BY <2>2, EventsAre DEF Depth, Kind, Word
    <2> PICK l \in Nat : l = Len(evs)
      BY LenProperties
    <2> HIDE DEF e
    <2>4. /\ all \in Seq(Record) /\ Len(all) = l + 1
          /\ \A k \in 1..l : all[k] = evs[k]
          /\ all[l + 1] = e
      <3>1. <<e>> \in Seq(Record) /\ Len(<<e>>) = 1 /\ <<e>>[1] = e /\ 1 \in 1..Len(<<e>>)
        BY <2>3
      <3> QED
        BY <3>1, LogGrows
    <2> HIDE DEF all
    <2>5. \A k \in 1..Len(all) : all[k].ev # "mode" /\ all[k].ev # "run"
      <3>1. \A k \in 1..Len(all) : k \in 1..l \/ k = l + 1
        BY <2>4
      <3> QED
        BY <1>15, <2>3, <2>4, <3>1
    <2> QED
      BY <1>4, <2>1, <2>4, <2>5
  <1>16. CASE Begun
    <2> DEFINE e == Event("run", depth, Current.req, "start")
    <2>1. phase = "approved" /\ phase' = "tool" /\ UNCHANGED gateVars /\ Logs(<<e>>)
      BY <1>16 DEF Begun
    <2>2. e \in Record /\ e.ev = "run" /\ e.req = Current.req
      BY <1>0, <2>1, BusyRecords DEF Busy, Kind, Word
    <2> HIDE DEF e
    <2> QED
      BY <1>4, <1>5, <2>1, <2>2
  <1>17. CASE Delegated
    <2> DEFINE e == Event("run", 0, Current.req, "start")
               f == Event("subagent", 1, Current.req, "start")
               all == <<e, f>>
    <2>1. /\ phase = "approved" /\ phase' = "stream" /\ UNCHANGED gateVars /\ Logs(all)
      BY <1>17 DEF Delegated
    <2>2. /\ e \in Record /\ e.ev = "run" /\ e.req = Current.req
          /\ f \in Record /\ f.ev = "subagent"
      <3>1. Current.req \in Request
        BY <1>0, <2>1, BusyRecords DEF Busy
      <3> QED
        BY <3>1, EventsAre DEF Depth, Kind, Word
    <2> HIDE DEF e, f
    <2>3. /\ all \in Seq(Record)
          /\ \A k \in 1..Len(all) : (k = 1 /\ all[k] = e) \/ (k = 2 /\ all[k] = f)
      BY <2>2
    <2> HIDE DEF all
    <2> QED
      BY <1>4, <2>1, <2>2, <2>3
  <1>18. CASE Ended(<<>>)
    <2>1. /\ Logs(none) /\ UNCHANGED gateVars /\ phase = "tool" /\ phase' = "dispatch"
      BY <1>18 DEF Ended, none
    <2> QED
      BY <1>3, <1>4, <2>1
  <1>19. CASE Ended(<<Event("tool_call", depth, Current.req, "done")>>)
    <2> DEFINE e == Event("tool_call", depth, Current.req, "done")
    <2>1. phase = "tool" /\ phase' = "dispatch" /\ UNCHANGED gateVars /\ Logs(<<e>>)
      BY <1>19 DEF Ended
    <2>2. e \in Record /\ e.ev = "tool_call"
      BY <1>0, <2>1, BusyRecords DEF Busy, Kind, Word
    <2> HIDE DEF e
    <2> QED
      BY <1>4, <1>5, <2>1, <2>2
  <1>20. CASE Returned(<<>>)
    <2>1. Returned(none)
      BY <1>20 DEF none
    <2> QED
      BY <1>3, <1>15, <2>1
  <1>21. CASE phase = "confirm" /\ Returned(Answered("quit", "deny"))
    <2> DEFINE evs == Answered("quit", "deny")
    <2>1. /\ evs \in Seq(Record) /\ Len(evs) = 2
          /\ evs[1].ev = "answer" /\ evs[2].ev = "permission"
      BY <1>0, <1>21, AnswersAre
    <2>2. Returned(evs)
      BY <1>21
    <2> HIDE DEF evs
    <2>3. \A k \in 1..Len(evs) : evs[k].ev # "mode" /\ evs[k].ev # "run"
      <3>1. \A k \in 1..Len(evs) : k = 1 \/ k = 2
        BY <2>1
      <3> QED
        BY <2>1, <3>1
    <2> QED
      BY <1>15, <2>1, <2>2, <2>3
  <1> QED
    BY <1>1, <1>6, <1>7, <1>9, <1>10, <1>11, <1>12, <1>13, <1>14, <1>16, <1>17, <1>18,
       <1>19, <1>20, <1>21 DEF StepKind

\* Nothing runs that a deny rule matches, and nothing that changes anything but
\* by its tool being on the auto-allow list, by auto mode, or by an answer the
\* operator gave in approve mode, in that same mode, to that request or always
\* to one with its key: whatever the replies, the delegations, the answers, the
\* changes of mode, the interrupts, the kills and the resumes (Check, Evaluate,
\* SetMode, runTools, taskTool.Run).
THEOREM NothingForbiddenEverRuns == Spec => []NothingForbiddenRuns
  <1>1. LawInv => NothingForbiddenRuns
    BY LawfulRuns DEF LawInv, Law
  <1> QED
    BY <1>1, LawInit, LawStep, PTL DEF Spec

\* No two actions that change something are kept under one key.
KeysTellApart ==
    \A q \in Request, r \in Mutating : rememberKey[q] = rememberKey[r] => q = r

\* All that keeps an approval from being of exactly the action that was shown
\* is the key it is kept under: if keys told actions apart, nothing would run in
\* approve mode that the operator was not shown and did not consent to, over any
\* turns, sub-agents, changes of mode, interrupts and resumes (rememberKey).
THEOREM DistinctKeysWouldDo ==
    ASSUME KeysTellApart
    PROVE  Spec => []OnlyWhatWasShownRuns
  <1>1. ASSUME NothingForbiddenRuns PROVE OnlyWhatWasShownRuns
    <2> SUFFICES ASSUME NEW i \in 1..Len(trace), NEW j \in 1..Len(trace),
                        trace[i].ev = "run", trace[i].req \in Mutating \ AutoTool,
                        ModeSet(j, i), trace[j].what = "approve"
                 PROVE  Consented(j, i)
      BY DEF OnlyWhatWasShownRuns
    <2>1. Consented(j, i) \/ KeyApproved(j, i)
      BY <1>1 DEF NothingForbiddenRuns
    <2>2. ASSUME KeyApproved(j, i) PROVE Consented(j, i)
      <3>1. PICK a \in j + 1..i - 1 :
               /\ trace[a].ev = "answer" /\ trace[a].what = "always"
               /\ trace[a].req \in Request
               /\ rememberKey[trace[a].req] = rememberKey[trace[i].req]
        BY <2>2 DEF KeyApproved
      <3>2. trace[a].req = trace[i].req
        BY <3>1 DEF KeysTellApart
      <3> QED
        BY <3>1, <3>2 DEF Consented
    <2> QED
      BY <2>1, <2>2
  <1> QED
    BY <1>1, NothingForbiddenEverRuns, PTL

-----------------------------------------------------------------------------
(* The session implements the gate as such.                                *)

\* What the gate sees of a session.
Asking == IF phase = "confirm" THEN Current.req ELSE NoTool
Due == IF phase = "approved" THEN Current.req ELSE NoTool
Running == (IF depth = 1 THEN <<Head(pending[0]).req>> ELSE <<>>)
           \o (IF phase = "tool" THEN <<Current.req>> ELSE <<>>)

\* The rules are the gate's rules.
LEMMA GateRules ==
    /\ \A r : Gate!RuleDenied(r) <=> RuleDenied(r)
    /\ Gate!AutoTool = AutoTool
    /\ Gate!Mode = Mode
  BY DEF Gate!RuleDenied, Gate!Matches, Gate!LoadRules, Gate!AutoTool, Gate!Mode,
         Gate!NoRulesFile, RuleDenied, Matches, LoadRules, AutoTool, Mode, NoRulesFile

\* What runs is at most a delegation and a call inside it.
LEMMA ShortSequences ==
    ASSUME NEW x, NEW y
    PROVE  /\ <<>> \o <<>> = <<>>
           /\ <<x>> \o <<>> = <<x>>
           /\ <<>> \o <<y>> = <<y>>
           /\ <<x>> \o <<y>> = <<x, y>>
           /\ Append(<<>>, y) = <<y>> /\ Append(<<x>>, y) = <<x, y>>
           /\ Len(<<x>>) = 1 /\ Len(<<x, y>>) = 2
           /\ SubSeq(<<x>>, 1, Len(<<x>>) - 1) = <<>>
           /\ SubSeq(<<x, y>>, 1, Len(<<x, y>>) - 1) = <<x>>
           /\ <<x>> # <<>> /\ <<x, y>> # <<>>
  <1> DEFINE S == {x, y}
             none == <<>>
             sx == <<x>>
             sy == <<y>>
             both == <<x, y>>
  <1>1. /\ none \in Seq(S) /\ Len(none) = 0
        /\ sx \in Seq(S) /\ Len(sx) = 1 /\ sx[1] = x
        /\ sy \in Seq(S) /\ Len(sy) = 1 /\ sy[1] = y
        /\ both \in Seq(S) /\ Len(both) = 2 /\ both[1] = x /\ both[2] = y
    OBVIOUS
  <1>2. none # sx /\ none # both
    BY <1>1
  <1> HIDE DEF none, sx, sy, both, S
  <1>3. none \o none = none /\ sx \o none = sx /\ none \o sy = sy
    BY <1>1, ConcatEmptySeq DEF none
  <1>4. Append(none, y) = sy
    <2> DEFINE a == Append(none, y)
    <2>1. a \in Seq(S) /\ Len(a) = 1 /\ a[1] = y
      BY <1>1, AppendProperties DEF S
    <2> HIDE DEF a
    <2>2. a = sy
      BY <1>1, <2>1, SeqEqual
    <2> QED
      BY <2>2 DEF a
  <1>5. Append(sx, y) = both
    <2> DEFINE a == Append(sx, y)
    <2>1. a \in Seq(S) /\ Len(a) = 2 /\ a[1] = x /\ a[2] = y
      <3>1. /\ a \in Seq(S) /\ Len(a) = Len(sx) + 1 /\ a[Len(sx) + 1] = y
            /\ \A k \in 1..Len(sx) : a[k] = sx[k]
        <4>1. y \in S /\ sx \in Seq(S)
          BY <1>1 DEF S
        <4> QED
          BY <4>1, AppendProperties
      <3> HIDE DEF a
      <3> QED
        BY <1>1, <3>1
    <2> HIDE DEF a
    <2>2. \A k \in 1..2 : a[k] = both[k]
      BY <1>1, <2>1
    <2>3. a = both
      BY <1>1, <2>1, <2>2, SeqEqual
    <2> QED
      BY <2>3 DEF a
  <1>6. sx \o sy = both
    <2> DEFINE a == sx \o sy
    <2>1. a \in Seq(S) /\ Len(a) = 2 /\ a[1] = x /\ a[2] = y
      BY <1>1, ConcatProperties
    <2> HIDE DEF a
    <2>2. \A k \in 1..2 : a[k] = both[k]
      BY <1>1, <2>1
    <2>3. a = both
      BY <1>1, <2>1, <2>2, SeqEqual
    <2> QED
      BY <2>3 DEF a
  <1>7. SubSeq(sx, 1, Len(sx) - 1) = none
    <2> DEFINE a == SubSeq(sx, 1, 0)
    <2>1. a \in Seq(S) /\ Len(a) = 0
      BY <1>1, SubSeqProperties
    <2> HIDE DEF a
    <2>2. a = none
      BY <1>1, <2>1, EmptySeq DEF none
    <2> QED
      BY <1>1, <2>2 DEF a
  <1>8. SubSeq(both, 1, Len(both) - 1) = sx
    <2> DEFINE a == SubSeq(both, 1, 1)
    <2>1. a \in Seq(S) /\ Len(a) = 1 /\ a[1] = x
      <3>1. \A k \in 1..1 : both[k] \in S
        BY <1>1 DEF S
      <3>2. /\ a \in Seq(S) /\ Len(a) = 1
            /\ \A k \in 1..(1 - 1) + 1 : a[k] = both[(1 + k) - 1]
        BY <3>1, SubSeqProperties
      <3> HIDE DEF a
      <3> QED
        BY <1>1, <3>2
    <2> HIDE DEF a
    <2>2. a = sx
      BY <1>1, <2>1, SeqEqual
    <2> QED
      BY <1>1, <2>2 DEF a
  <1> QED
    BY <1>1, <1>2, <1>3, <1>4, <1>5, <1>6, <1>7, <1>8 DEF none, sx, sy, both

\* What the gate sees run, in each phase, before and after a step.
LEMMA RunningIs ==
    /\ depth = 0 /\ phase # "tool" => Running = <<>>
    /\ depth = 0 /\ phase = "tool" => Running = <<Current.req>>
    /\ depth = 1 /\ phase # "tool" => Running = <<Head(pending[0]).req>>
    /\ depth = 1 /\ phase = "tool" => Running = <<Head(pending[0]).req, Current.req>>
    /\ depth' = 0 /\ phase' # "tool" => Running' = <<>>
    /\ depth' = 0 /\ phase' = "tool" => Running' = <<Current'.req>>
    /\ depth' = 1 /\ phase' # "tool" => Running' = <<Head(pending'[0]).req>>
    /\ depth' = 1 /\ phase' = "tool" => Running' = <<Head(pending'[0]).req, Current'.req>>
  <1> DEFINE x == Head(pending[0]).req
             y == Current.req
             p == Head(pending'[0]).req
             q == Current'.req
  <1>1. /\ Running = (IF depth = 1 THEN <<x>> ELSE <<>>) \o (IF phase = "tool" THEN <<y>> ELSE <<>>)
        /\ Running' = (IF depth' = 1 THEN <<p>> ELSE <<>>) \o (IF phase' = "tool" THEN <<q>> ELSE <<>>)
    BY DEF Running
  <1> HIDE DEF x, y, p, q
  <1>2. /\ <<>> \o <<>> = <<>> /\ <<x>> \o <<>> = <<x>> /\ <<>> \o <<y>> = <<y>>
        /\ <<x>> \o <<y>> = <<x, y>>
        /\ <<p>> \o <<>> = <<p>> /\ <<>> \o <<q>> = <<q>> /\ <<p>> \o <<q>> = <<p, q>>
    BY ShortSequences
  <1>3. /\ depth = 0 /\ phase # "tool" => Running = <<>>
        /\ depth = 0 /\ phase = "tool" => Running = <<y>>
        /\ depth = 1 /\ phase # "tool" => Running = <<x>>
        /\ depth = 1 /\ phase = "tool" => Running = <<x, y>>
    <2>1. depth = 0 => depth # 1
      OBVIOUS
    <2> QED
      BY <1>1, <1>2, <2>1, Zenon
  <1>4. /\ depth' = 0 /\ phase' # "tool" => Running' = <<>>
        /\ depth' = 0 /\ phase' = "tool" => Running' = <<q>>
        /\ depth' = 1 /\ phase' # "tool" => Running' = <<p>>
        /\ depth' = 1 /\ phase' = "tool" => Running' = <<p, q>>
    <2>1. depth' = 0 => depth' # 1
      OBVIOUS
    <2> QED
      BY <1>1, <1>2, <2>1, Zenon
  <1> QED
    BY <1>3, <1>4 DEF x, y, p, q

\* A session begins with nothing let through.
LEMMA GateInit == Init => Gate!Init
  <1> SUFFICES ASSUME Init PROVE Gate!Init
    OBVIOUS
  <1>1. phase = "prompt" /\ depth = 0 /\ mode = InitMode /\ remembered = {}
    BY DEF Init
  <1>2. Asking = NoTool /\ Due = NoTool /\ Running = <<>>
    BY <1>1, RunningIs DEF Asking, Due
  <1> QED
    BY <1>1, <1>2 DEF Gate!Init, Gate!Idle, Asking, Due, Running

\* Each kind of step is one of the gate's, or leaves what the gate sees as it is.
LEMMA GateStep == TypeInv /\ [Next]_vars => [Gate!Next]_(Gate!vars)
  <1> SUFFICES ASSUME TypeInv, [Next]_vars PROVE [Gate!Next]_(Gate!vars)
    OBVIOUS
  <1>0. depth \in Depth /\ depth \in {0, 1} /\ mode \in Mode /\ remembered \subseteq Key
    BY DEF TypeInv, TypeOK, Depth
  <1>1. StepKind /\ TypeInv'
    BY StepKinds, TypeStep
  <1>2. depth' \in {0, 1}
    BY <1>1 DEF TypeInv, TypeOK, Depth
  <1>3. ASSUME UNCHANGED gateVars, Asking' = Asking, Due' = Due, Running' = Running
        PROVE  [Gate!Next]_(Gate!vars)
    BY <1>3 DEF Gate!vars, Asking, Due, Running, gateVars
  <1>4. ASSUME Stays, phase # "tool", phase' # "tool" PROVE Running' = Running
    BY <1>0, <1>4, RunningIs DEF Stays
  <1>5. CASE Quiet
    <2>1. UNCHANGED gateVars
      BY <1>5 DEF Quiet
    <2>2. CASE phase \notin Busy /\ phase' \notin Busy /\ Stays
      <3>1. Running' = Running
        BY <1>4, <2>2 DEF Busy
      <3> QED
        BY <1>3, <2>1, <2>2, <3>1 DEF Asking, Due, Busy
    <2>3. CASE phase' = phase /\ Waits
      <3>1. Running' = Running
        BY <1>0, <2>3, RunningIs DEF Waits, Stays
      <3> QED
        BY <1>3, <2>1, <2>3, <3>1 DEF Asking, Due, Waits
    <2> QED
      BY <1>5, <2>2, <2>3 DEF Quiet
  <1>6. CASE Gone
    <2>1. Asking' = NoTool /\ Due' = NoTool /\ Running' = <<>>
      BY <1>6, RunningIs DEF Gone, Asking, Due
    <2> QED
      BY <1>6, <2>1 DEF Gone, Gate!Next, Gate!Stops, Asking, Due, Running
  <1>7. ASSUME NEW m \in Mode, ModeIsSet(m) PROVE Gate!Next
    <2>1. /\ Asking = NoTool /\ Due = NoTool /\ Running = <<>>
          /\ Asking' = NoTool /\ Due' = NoTool /\ Running' = <<>>
      BY <1>7, RunningIs DEF ModeIsSet, Asking, Due
    <2>2. mode' \in Gate!Mode /\ remembered' = {}
      BY <1>7, GateRules DEF ModeIsSet
    <2> QED
      BY <2>1, <2>2 DEF Gate!Next, Gate!ChangeMode, Gate!Idle, Asking, Due, Running
  <1>8. CASE Restarted
    <2>1. /\ Asking = NoTool /\ Due = NoTool /\ Running = <<>>
          /\ Asking' = NoTool /\ Due' = NoTool /\ Running' = <<>>
      BY <1>8, RunningIs DEF Restarted, Asking, Due
    <2> QED
      BY <1>3, <1>8, <2>1 DEF Restarted
  <1>9. CASE Denied
    <2>1. phase = "dispatch" /\ phase' = "dispatch" /\ Stays /\ UNCHANGED gateVars
      BY <1>9 DEF Denied
    <2> QED
      BY <1>3, <1>4, <2>1 DEF Asking, Due
  <1>10. ASSUME phase = "dispatch", Current.req \in Registry(depth)
         PROVE  /\ Asking = NoTool /\ Due = NoTool
                /\ Gate!Free /\ Current.req \in Gate!Within /\ Current.req \in Request
    <2>1. Asking = NoTool /\ Due = NoTool /\ Current.req \in Request
      BY <1>10, RegistryIs DEF Asking, Due
    <2>2. Gate!Free /\ Current.req \in Gate!Within
      <3> DEFINE q == Head(pending[0]).req
      <3>1. CASE depth = 0
        <4>1. Running = <<>>
          BY <1>10, <3>1, RunningIs
        <4> QED
          BY <2>1, <4>1 DEF Gate!Free, Gate!Idle, Gate!Within, Asking, Due, Running
      <3>2. CASE depth = 1
        <4>1. /\ Running = <<q>> /\ q \in Task /\ (readOnly <=> q \in ReadOnlyTask)
          BY <1>10, <3>2, RunningIs DEF TypeInv, AtWork
        <4>2. Current.req \in (Request \ Task) \ (IF q \in ReadOnlyTask THEN Mutating ELSE {})
          BY <1>10, <3>2, <4>1 DEF Registry, subRegistry
        <4> HIDE DEF q
        <4>3. Len(Running) = 1 /\ Running[1] = q /\ Running # <<>>
          BY <4>1
        <4> QED
          BY <2>1, <4>1, <4>2, <4>3 DEF Gate!Free, Gate!Idle, Gate!Within, Asking, Due, Running
      <3> QED
        BY <1>0, <3>1, <3>2
    <2> QED
      BY <2>1, <2>2
  <1>11. CASE Allowed
    <2> DEFINE r == Current.req
    <2>1. /\ phase = "dispatch" /\ phase' = "approved" /\ Waits /\ UNCHANGED gateVars
          /\ r \in Registry(depth) /\ Evaluate(mode, remembered, r) = "allow"
      BY <1>11 DEF Allowed
    <2>2. Asking = NoTool /\ Due = NoTool /\ Gate!Free /\ r \in Gate!Within /\ r \in Request
      BY <1>10, <2>1
    <2>3. Asking' = NoTool /\ Due' = r /\ Running' = Running
      BY <1>4, <2>1 DEF Asking, Due, Waits
    <2>4. /\ ~ RuleDenied(r)
          /\ r \in Mutating \ AutoTool =>
               mode = "auto" \/ (mode = "approve" /\ rememberKey[r] \in remembered)
      BY <1>0, <2>1, <2>2, Decides
    <2>5. /\ ~ Gate!RuleDenied(r)
          /\ \/ r \notin Mutating
             \/ r \in Gate!AutoTool
             \/ mode = "auto"
             \/ mode = "approve" /\ rememberKey[r] \in remembered
      BY <2>4, GateRules
    <2> HIDE DEF r
    <2>6. Gate!LetThrough(r)
      BY <2>1, <2>2, <2>3, <2>5 DEF Gate!LetThrough, Asking, Due, Running, gateVars
    <2> QED
      BY <2>2, <2>6 DEF Gate!Next
  <1>12. CASE Asked
    <2> DEFINE r == Current.req
    <2>1. /\ phase = "dispatch" /\ phase' = "confirm" /\ Waits /\ UNCHANGED gateVars
          /\ r \in Registry(depth) /\ Evaluate(mode, remembered, r) = "ask"
      BY <1>12 DEF Asked
    <2>2. Asking = NoTool /\ Due = NoTool /\ Gate!Free /\ r \in Gate!Within /\ r \in Request
      BY <1>10, <2>1
    <2>3. Asking' = r /\ Due' = NoTool /\ Running' = Running
      BY <1>4, <2>1 DEF Asking, Due, Waits
    <2>4. ~ Gate!RuleDenied(r) /\ mode = "approve" /\ r \in Mutating
      BY <1>0, <2>1, <2>2, Decides, GateRules
    <2> HIDE DEF r
    <2>5. Gate!Ask(r)
      BY <2>1, <2>2, <2>3, <2>4 DEF Gate!Ask, Asking, Due, Running, gateVars
    <2> QED
      BY <2>2, <2>5 DEF Gate!Next
  <1>13. ASSUME phase \in Busy
         PROVE  Current.req # NoTool
    BY <1>13, BusyRecords, RegistryIs
  <1>14. ASSUME NEW a \in {"yes", "always"}, Agreed(a) PROVE Gate!Next
    <2> DEFINE r == Current.req
    <2>1. /\ phase = "confirm" /\ phase' = "approved" /\ Waits /\ mode' = mode
          /\ remembered' \in {remembered, remembered \cup {rememberKey[r]}}
      BY <1>14 DEF Agreed
    <2>2. r # NoTool
      BY <1>13, <2>1 DEF Busy
    <2>3. Asking = r /\ Due = NoTool /\ Asking' = NoTool /\ Due' = r /\ Running' = Running
      BY <1>4, <2>1 DEF Asking, Due, Waits
    <2> HIDE DEF r
    <2>4. Gate!Consents
      BY <2>1, <2>2, <2>3 DEF Gate!Consents, Asking, Due, Running
    <2> QED
      BY <2>4 DEF Gate!Next
  <1>15. ASSUME NEW a \in {"no", "quit"}, Declined(a) PROVE Gate!Next
    <2>1. /\ phase = "confirm" /\ phase' \in {"dispatch", "prompt"} /\ Stays
          /\ UNCHANGED gateVars
      BY <1>15 DEF Declined
    <2>2. Asking # NoTool /\ Due = NoTool /\ Asking' = NoTool /\ Due' = NoTool
      BY <1>13, <2>1 DEF Busy, Asking, Due
    <2>3. Running' = Running
      BY <1>4, <2>1
    <2>4. Gate!Declines
      BY <2>1, <2>2, <2>3 DEF Gate!Declines, Asking, Due, Running, gateVars
    <2> QED
      BY <2>4 DEF Gate!Next
  <1>16. ASSUME UNCHANGED gateVars, Running # <<>>, Due = NoTool, Asking' = NoTool, Due' = NoTool,
                Running' = SubSeq(Running, 1, Len(Running) - 1)
         PROVE  Gate!Next
    <2>1. Gate!Ends
      BY <1>16 DEF Gate!Ends, Asking, Due, Running, gateVars
    <2> QED
      BY <2>1 DEF Gate!Next
  <1>17. ASSUME NEW evs, Returned(evs) PROVE Gate!Next
    <2> DEFINE q == Head(pending[0]).req
    <2>1. /\ phase \in {"stream", "waiting", "confirm"} /\ phase' = "dispatch"
          /\ depth = 1 /\ depth' = 0 /\ UNCHANGED gateVars
      BY <1>17 DEF Returned
    <2>2. Running = <<q>> /\ Running' = <<>> /\ Due = NoTool /\ Asking' = NoTool /\ Due' = NoTool
      BY <2>1, RunningIs DEF Asking, Due
    <2> HIDE DEF q
    <2>3. Running # <<>> /\ Running' = SubSeq(Running, 1, Len(Running) - 1)
      BY <2>2, ShortSequences
    <2> QED
      BY <1>16, <2>1, <2>2, <2>3
  <1>18. ASSUME UNCHANGED gateVars, Asking' = Asking, Due # NoTool, Due' = NoTool,
                Running' = Append(Running, Due)
         PROVE  Gate!Next
    <2>1. Gate!Begins
      BY <1>18 DEF Gate!Begins, Asking, Due, Running, gateVars
    <2> QED
      BY <2>1 DEF Gate!Next
  <1>19. CASE Begun
    <2> DEFINE q == Head(pending[0]).req
               r == Current.req
    <2>1. phase = "approved" /\ phase' = "tool" /\ Waits /\ UNCHANGED gateVars
      BY <1>19 DEF Begun
    <2>2. Asking' = Asking /\ Due = r /\ Due # NoTool /\ Due' = NoTool
      BY <1>13, <2>1 DEF Asking, Due, Busy
    <2>3. \/ Running = <<>> /\ Running' = <<r>>
          \/ Running = <<q>> /\ Running' = <<q, r>>
      BY <1>0, <2>1, RunningIs DEF Waits, Stays
    <2> HIDE DEF q, r
    <2>4. Running' = Append(Running, Due)
      BY <2>2, <2>3, ShortSequences
    <2> QED
      BY <1>18, <2>1, <2>2, <2>4
  <1>20. CASE Delegated
    <2> DEFINE r == Current.req
    <2>1. /\ phase = "approved" /\ phase' = "stream" /\ depth = 0 /\ depth' = 1
          /\ UNCHANGED gateVars /\ Head(pending'[0]).req = r
      BY <1>20 DEF Delegated
    <2>2. Asking' = Asking /\ Due = r /\ Due # NoTool /\ Due' = NoTool
      BY <1>13, <2>1 DEF Asking, Due, Busy
    <2>3. Running = <<>> /\ Running' = <<r>>
      BY <2>1, RunningIs
    <2> HIDE DEF r
    <2>4. Running' = Append(Running, Due)
      BY <2>2, <2>3, ShortSequences
    <2> QED
      BY <1>18, <2>1, <2>2, <2>4
  <1>21. ASSUME NEW evs, Ended(evs) PROVE Gate!Next
    <2> DEFINE q == Head(pending[0]).req
               r == Current.req
    <2>1. phase = "tool" /\ phase' = "dispatch" /\ Stays /\ UNCHANGED gateVars
      BY <1>21 DEF Ended
    <2>2. Due = NoTool /\ Asking' = NoTool /\ Due' = NoTool
      BY <2>1 DEF Asking, Due
    <2>3. \/ Running = <<r>> /\ Running' = <<>>
          \/ Running = <<q, r>> /\ Running' = <<q>>
      BY <1>0, <2>1, RunningIs DEF Stays
    <2> HIDE DEF q, r
    <2>4. Running # <<>> /\ Running' = SubSeq(Running, 1, Len(Running) - 1)
      BY <2>3, ShortSequences
    <2> QED
      BY <1>16, <2>1, <2>2, <2>4
  <1> QED
    BY <1>1, <1>5, <1>6, <1>7, <1>8, <1>9, <1>11, <1>12, <1>14, <1>15, <1>17, <1>19, <1>20,
       <1>21 DEF StepKind

\* The session, whatever becomes of the turns around a call, keeps what the
\* gate as such promises: a call passes the gate before it runs, once for each
\* time; an answer is about the call that was shown; what an approval or a
\* mode allows ends with that mode.
THEOREM SessionKeepsConsent == Spec => GateKeepsConsent
  <1>1. TypeInv /\ [Next]_vars => [Gate!Next]_(Gate!vars)
    BY GateStep
  <1> QED
    BY <1>1, GateInit, TypeInit, TypeStep, PTL DEF Spec, GateKeepsConsent, Gate!Spec
=============================================================================
