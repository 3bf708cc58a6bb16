-------------------------- MODULE SessionStoreProofs --------------------------
(***************************************************************************)
(* Proofs about SessionStore: type correctness, how far what was           *)
(* acknowledged survives, that a session alone on its transcript agrees    *)
(* with it, and that each transcript is a journal; for any processes,      *)
(* sessions and messages, either sharing mode and transcripts of any       *)
(* length.                                                                 *)
(***************************************************************************)
EXTENDS SessionStore, Lemmas

-----------------------------------------------------------------------------
(* Type correctness.                                                       *)

\* An open last line is a line; an identifier that is not in use has no
\* transcript; only an open session can have failed; a session that runs has
\* a transcript.
Shape ==
    /\ \A s \in Sid : files[s].open => files[s].lines # <<>>
    /\ \A s \in Sid \ used : files[s] = EmptyFile
    /\ \A p \in Process : failed[p] => pc[p] = "open"
    /\ \A p \in Process : pc[p] # "off" => sid[p] \in used

TypeInv == TypeOK /\ Shape

\* The types hold before any session.
LEMMA TypeInit == Init => TypeInv
  <1> SUFFICES ASSUME Init PROVE TypeInv
    OBVIOUS
  <1>1. EmptyFile \in FileOf(Msg)
    BY DEF EmptyFile, FileOf
  <1>2. NotTorn \in 0..NotTorn
    BY SessionAssumption DEF NotTorn
  <1>3. TypeOK
    BY <1>1, <1>2 DEF Init, TypeOK
  <1>4. Shape
    BY DEF Init, Shape, EmptyFile
  <1> QED
    BY <1>3, <1>4 DEF TypeInv

\* A transcript is a well-typed file.
LEMMA TranscriptType ==
    ASSUME TypeInv, NEW s \in Sid
    PROVE  GoodFile(files[s], Msg) /\ GoodPrefix(files[s]) \in Seq(Msg)
  <1>1. GoodFile(files[s], Msg)
    BY DEF TypeInv, TypeOK, Shape, GoodFile
  <1> QED
    BY <1>1, GoodPrefixType

\* A write, whole or not, to the transcript of a running session.
LEMMA WriteKeepsTypes ==
    ASSUME TypeInv, NEW p \in Process, pc[p] # "off", NEW m \in Msg, NEW how,
           files' = [files EXCEPT ![sid[p]] = WriteLine(@, m, how)]
    PROVE  /\ files' \in [Sid -> FileOf(Msg)]
           /\ \A s \in Sid : files'[s].open => files'[s].lines # <<>>
           /\ \A s \in Sid \ used : files'[s] = EmptyFile
  <1>1. sid[p] \in Sid /\ sid[p] \in used
    BY DEF TypeInv, TypeOK, Shape
  <1>2. GoodFile(WriteLine(files[sid[p]], m, how), Msg)
    BY <1>1, TranscriptType, WriteLineType
  <1> QED
    BY <1>1, <1>2 DEF TypeInv, TypeOK, Shape, GoodFile

\* Every step of a session keeps the types.
LEMMA TypeStep == TypeInv /\ [Next]_vars => TypeInv'
  <1> SUFFICES ASSUME TypeInv, [Next]_vars PROVE TypeInv'
    OBVIOUS
  <1> USE DEF TypeInv, TypeOK, Shape
  <1>1. ASSUME NEW p \in Process, NEW s \in Sid, StartFresh(p, s) PROVE TypeInv'
    BY <1>1 DEF StartFresh
  <1>2. ASSUME NEW p \in Process, NEW s \in used, Load(p, s) PROVE TypeInv'
    <2>1. GoodPrefix(files[s]) \in Seq(Msg)
      BY TranscriptType
    <2>2. told' \in [Process -> Seq(Msg)]
      <3> DEFINE g == GoodPrefix(files[s])
      <3>1. told' = [told EXCEPT ![p] = g]
        BY <1>2 DEF Load
      <3> HIDE DEF g
      <3> QED BY <2>1, <3>1 DEF g
    <2> QED
      BY <1>2, <2>2 DEF Load
  <1>3. ASSUME NEW p \in Process, Create(p) PROVE TypeInv'
    BY <1>3 DEF Create
  <1>4. ASSUME NEW p \in Process, NEW m \in Msg, AppendMsg(p, m) PROVE TypeInv'
    <2>1. /\ files' \in [Sid -> FileOf(Msg)]
          /\ \A s \in Sid : files'[s].open => files'[s].lines # <<>>
          /\ \A s \in Sid \ used : files'[s] = EmptyFile
      BY <1>4, WriteKeepsTypes DEF AppendMsg, CanAppend
    <2>2. told' \in [Process -> Seq(Msg)] /\ acked' \in [Sid -> Seq(Msg)]
      BY <1>4 DEF AppendMsg
    <2> QED
      BY <1>4, <2>1, <2>2 DEF AppendMsg, CanAppend
  <1>5. ASSUME NEW p \in Process, NEW m \in Msg, NEW how \in Cuts, AppendFails(p, m, how)
        PROVE  TypeInv'
    <2>1. /\ files' \in [Sid -> FileOf(Msg)]
          /\ \A s \in Sid : files'[s].open => files'[s].lines # <<>>
          /\ \A s \in Sid \ used : files'[s] = EmptyFile
      BY <1>5, WriteKeepsTypes DEF AppendFails, CanAppend
    <2>2. told' \in [Process -> Seq(Msg)]
      BY <1>5 DEF AppendFails
    <2>3. torn' \in [Sid -> 0..NotTorn]
      <3>1. Len(acked[sid[p]]) \in 0..NotTorn
        BY <1>5, SessionAssumption DEF AppendFails, CanAppend, NotTorn
      <3> QED
        BY <1>5, <3>1 DEF AppendFails
    <2> QED
      BY <1>5, <2>1, <2>2, <2>3 DEF AppendFails, CanAppend
  <1>6. ASSUME NEW p \in Process, NEW m \in Msg, AppendAfterFailure(p, m) PROVE TypeInv'
    BY <1>6 DEF AppendAfterFailure
  <1>7. ASSUME NEW p \in Process, End(p) PROVE TypeInv'
    BY <1>7 DEF End
  <1>8. CASE UNCHANGED vars
    BY <1>8 DEF vars
  <1> QED
    BY <1>1, <1>2, <1>3, <1>4, <1>5, <1>6, <1>7, <1>8 DEF Next, ResumeByID, ResumeLast

\* The transcripts, the sessions and the history always have their types.
THEOREM SessionStoreTypeCorrect == Spec => []TypeOK
  <1>1. TypeInv => TypeOK
    BY DEF TypeInv
  <1> QED
    BY <1>1, TypeInit, TypeStep, PTL DEF Spec

-----------------------------------------------------------------------------
(* What was acknowledged survives.                                         *)

\* Of a transcript f with the messages a acknowledged, t of them before a
\* write was first cut short: as long as none was, the transcript is sound
\* and a reader gets just these.  Afterwards a reader gets at least the first
\* t, and one more as long as that one's newline is missing, for the next
\* write will spoil it.
Survived(f, a, t) ==
    LET g == GoodPrefix(f) IN
    IF t = NotTorn
    THEN WellFormed(f) /\ ~f.open /\ g = a
    ELSE /\ t <= Len(a)
         /\ WellFormed(f) => f.open
         /\ Len(g) >= t + (IF WellFormed(f) THEN 1 ELSE 0)
         /\ \A i \in 1..t : g[i] = a[i]

SurviveInv == TypeInv /\ \A s \in Sid : Survived(files[s], acked[s], torn[s])

\* Once a transcript is torn, no write takes away what came before the tear.
LEMMA SurvivesTorn ==
    ASSUME NEW f, GoodFile(f, Msg), NEW a \in Seq(Msg), NEW t \in 0..NotTorn,
           Survived(f, a, t), t # NotTorn,
           NEW m \in Msg, NEW how \in Cuts \cup {"line"},
           NEW b \in Seq(Msg), Len(b) >= Len(a), \A i \in 1..Len(a) : b[i] = a[i]
    PROVE  Survived(WriteLine(f, m, how), b, t)
  <1> DEFINE g == WriteLine(f, m, how)
             e == GoodPrefix(f)
  <1>0. /\ t \in Nat /\ t <= Len(a)
        /\ WellFormed(f) => f.open
        /\ Len(e) >= t + (IF WellFormed(f) THEN 1 ELSE 0)
        /\ \A i \in 1..t : e[i] = a[i]
    BY SessionAssumption DEF Survived, NotTorn
  <1>1. e \in Seq(Msg) /\ Len(e) \in Nat /\ Len(a) \in Nat /\ Len(b) \in Nat
    BY GoodPrefixType
  <1>2. t <= Len(b) /\ \A i \in 1..t : b[i] = a[i]
    <2>1. t \in Nat /\ t <= Len(a)
      BY <1>0
    <2> QED
      BY <1>1, <2>1
  <1>3. CASE how = "none"
    <2>1. g = f
      BY <1>3 DEF WriteLine
    <2> HIDE DEF g
    <2> QED
      BY <1>0, <1>1, <1>2, <2>1 DEF Survived, g
  <1>4. CASE how # "none"
    <2>0. how \in {"line", "part", "whole"}
      BY <1>4 DEF Cuts
    <2>1. CASE ~WellFormed(f)
      <3>1. ~WellFormed(g) /\ GoodPrefix(g) = e
        BY <2>0, <2>1, WriteToFrozen
      <3> HIDE DEF g
      <3> QED
        BY <1>0, <1>1, <1>2, <2>1, <3>1 DEF Survived, g
    <2>2. CASE WellFormed(f)
      <3>1. ~WellFormed(g) /\ GoodPrefix(g) = SubSeq(e, 1, Len(e) - 1)
        <4>1. f.open
          BY <1>0, <2>2
        <4> QED BY <2>0, <2>2, <4>1, WriteToLoose
      <3>2. /\ Len(SubSeq(e, 1, Len(e) - 1)) = Len(e) - 1
            /\ \A i \in 1..Len(e) - 1 : SubSeq(e, 1, Len(e) - 1)[i] = e[i]
        <4>1. Len(e) >= 1
          BY <1>0, <1>1, <2>2
        <4> HIDE DEF e
        <4> QED BY <1>1, <4>1
      <3> HIDE DEF g
      <3> QED
        BY <1>0, <1>1, <1>2, <2>2, <3>1, <3>2 DEF Survived, g
    <2> QED
      BY <2>1, <2>2
  <1> QED
    BY <1>3, <1>4

\* An acknowledged message.
LEMMA SurvivesAppend ==
    ASSUME NEW f, GoodFile(f, Msg), NEW a \in Seq(Msg), NEW t \in 0..NotTorn,
           Survived(f, a, t), NEW m \in Msg
    PROVE  Survived(WriteLine(f, m, "line"), Append(a, m), t)
  <1> DEFINE b == Append(a, m)
  <1>1. b \in Seq(Msg) /\ Len(b) >= Len(a) /\ \A i \in 1..Len(a) : b[i] = a[i]
    BY AppendProperties
  <1>2. CASE t = NotTorn
    <2>1. WellFormed(f) /\ ~f.open /\ GoodPrefix(f) = a
      BY <1>2 DEF Survived
    <2> QED
      BY <1>2, <2>1, WriteToSound DEF Survived
  <1>3. CASE t # NotTorn
    BY <1>1, <1>3, SurvivesTorn
  <1> QED
    BY <1>2, <1>3

\* A write that fails: the first one that leaves bytes tears the transcript.
LEMMA SurvivesFailure ==
    ASSUME NEW f, GoodFile(f, Msg), NEW a \in Seq(Msg), NEW t \in 0..NotTorn,
           Survived(f, a, t), NEW m \in Msg, NEW how \in Cuts, Len(a) < MaxLines
    PROVE  Survived(WriteLine(f, m, how), a,
                    IF how # "none" /\ t = NotTorn THEN Len(a) ELSE t)
  <1> DEFINE g == WriteLine(f, m, how)
  <1>1. CASE t # NotTorn
    BY <1>1, SurvivesTorn
  <1>2. CASE how = "none"
    <2>1. g = f
      BY <1>2 DEF WriteLine
    <2> QED
      BY <1>2, <2>1
  <1>3. CASE t = NotTorn /\ how # "none"
    <2>1. WellFormed(f) /\ ~f.open /\ GoodPrefix(f) = a
      BY <1>3 DEF Survived
    <2>2. how \in {"part", "whole"}
      BY <1>3 DEF Cuts
    <2>3. /\ WellFormed(g) <=> how # "part"
          /\ g.open <=> how # "line"
          /\ GoodPrefix(g) = IF how = "part" THEN a ELSE Append(a, m)
      BY <2>1, <2>2, WriteToSound
    <2>4. Len(a) # NotTorn /\ Len(a) \in Nat
      BY SessionAssumption DEF NotTorn
    <2>5. CASE how = "part"
      <3>1. ~WellFormed(g) /\ GoodPrefix(g) = a
        BY <2>3, <2>5
      <3> HIDE DEF g
      <3> QED
        BY <1>3, <2>4, <3>1 DEF Survived, g
    <2>6. CASE how = "whole"
      <3>1. WellFormed(g) /\ g.open /\ GoodPrefix(g) = Append(a, m)
        BY <2>3, <2>6
      <3>2. /\ Len(Append(a, m)) = Len(a) + 1
            /\ \A i \in 1..Len(a) : Append(a, m)[i] = a[i]
        BY AppendProperties
      <3> HIDE DEF g
      <3> QED
        BY <1>3, <2>4, <3>1, <3>2 DEF Survived, g
    <2> QED
      BY <2>2, <2>5, <2>6
  <1> QED
    BY <1>1, <1>2, <1>3

\* Of an empty transcript nothing has been acknowledged.
LEMMA SurviveInit == Init => SurviveInv
  <1> SUFFICES ASSUME Init, NEW s \in Sid PROVE Survived(files[s], acked[s], torn[s])
    BY TypeInit DEF SurviveInv
  <1>1. files[s] = EmptyFile /\ acked[s] = <<>> /\ torn[s] = NotTorn
    BY DEF Init
  <1>2. EmptyFile.lines = <<>> /\ EmptyFile.open = FALSE /\ GoodFile(EmptyFile, Msg)
    BY DEF EmptyFile, GoodFile, FileOf
  <1>3. WellFormed(EmptyFile) /\ ReadableUpTo(EmptyFile, 0)
    BY <1>2 DEF WellFormed, ReadableUpTo
  <1>4. GoodPrefix(EmptyFile) = [i \in 1..0 |-> EmptyFile.lines[i].val]
    BY <1>2, <1>3, GoodPrefixIs
  <1>5. GoodPrefix(EmptyFile) = <<>>
    BY <1>4
  <1> QED
    BY <1>1, <1>2, <1>3, <1>5 DEF Survived

\* Every step keeps what was acknowledged before the first torn line.
LEMMA SurviveStep == SurviveInv /\ [Next]_vars => SurviveInv'
  <1> SUFFICES ASSUME SurviveInv, [Next]_vars, NEW s \in Sid
               PROVE  Survived(files'[s], acked'[s], torn'[s])
    BY TypeStep DEF SurviveInv, Survived, NotTorn
  <1>0. /\ GoodFile(files[s], Msg) /\ acked[s] \in Seq(Msg) /\ torn[s] \in 0..NotTorn
        /\ Survived(files[s], acked[s], torn[s])
    BY TranscriptType DEF SurviveInv, TypeInv, TypeOK
  <1>1. CASE UNCHANGED <<files, acked, torn>>
    BY <1>0, <1>1
  <1>2. ASSUME NEW p \in Process, NEW m \in Msg, AppendMsg(p, m)
        PROVE  Survived(files'[s], acked'[s], torn'[s])
    <2>1. CASE s # sid[p]
      BY <1>0, <1>2, <2>1 DEF AppendMsg
    <2>2. CASE s = sid[p]
      <3>1. /\ files'[s] = WriteLine(files[s], m, "line")
            /\ acked'[s] = Append(acked[s], m)
            /\ torn'[s] = torn[s]
        BY <1>2, <2>2 DEF AppendMsg, SurviveInv, TypeInv, TypeOK
      <3> QED
        BY <1>0, <3>1, SurvivesAppend
    <2> QED
      BY <2>1, <2>2
  <1>3. ASSUME NEW p \in Process, NEW m \in Msg, NEW how \in Cuts, AppendFails(p, m, how)
        PROVE  Survived(files'[s], acked'[s], torn'[s])
    <2>1. CASE s # sid[p]
      BY <1>0, <1>3, <2>1 DEF AppendFails
    <2>2. CASE s = sid[p]
      <3>1. /\ files'[s] = WriteLine(files[s], m, how)
            /\ acked'[s] = acked[s]
            /\ torn'[s] = IF how # "none" /\ torn[s] = NotTorn THEN Len(acked[s]) ELSE torn[s]
            /\ Len(acked[s]) < MaxLines
        BY <1>3, <2>2 DEF AppendFails, CanAppend, SurviveInv, TypeInv, TypeOK
      <3> QED
        BY <1>0, <3>1, SurvivesFailure
    <2> QED
      BY <2>1, <2>2
  <1> QED
    BY <1>1, <1>2, <1>3 DEF Next, vars, StartFresh, ResumeByID, ResumeLast, Load, Create,
       AppendAfterFailure, End

\* However many sessions write to a transcript, in turn or at once, whatever
\* fails in them and however long it gets: what was acknowledged before the
\* first tear is what Load recovers first.
THEOREM AckedAlwaysSurvive == Spec => []AckedBeforeTearSurvive
  <1>1. SurviveInv => AckedBeforeTearSurvive
    <2> SUFFICES ASSUME SurviveInv, NEW s \in Sid,
                        NEW i \in 1..Len(acked[s]), i <= torn[s]
                 PROVE  /\ i <= Len(GoodPrefix(files[s]))
                        /\ GoodPrefix(files[s])[i] = acked[s][i]
      BY DEF AckedBeforeTearSurvive
    <2>1. /\ Survived(files[s], acked[s], torn[s])
          /\ Len(GoodPrefix(files[s])) \in Nat /\ Len(acked[s]) \in Nat /\ torn[s] \in Nat
      BY TranscriptType, SessionAssumption DEF SurviveInv, TypeInv, TypeOK, NotTorn
    <2> QED
      BY <2>1 DEF Survived
  <1> QED
    BY <1>1, SurviveInit, SurviveStep, PTL DEF Spec

-----------------------------------------------------------------------------
(* A transcript has no gap.                                                *)

\* A transcript that was never shared has one session at a time at it.
AloneUnlessShared ==
    \A s \in Sid : ~shared[s] =>
        \A p, q \in Process :
            pc[p] # "off" /\ pc[q] # "off" /\ sid[p] = s /\ sid[q] = s => p = q

GapInv == SurviveInv /\ AloneUnlessShared /\ TranscriptHasNoGap

\* The transcript's messages g are the beginning of the session's, l; fl: a
\* write has failed.
Agrees(g, l, fl) ==
    /\ Len(g) <= Len(l)
    /\ \A i \in 1..Len(g) : l[i] = g[i]
    /\ ~fl => Len(l) = Len(g)

\* A message more, in the session and in the transcript or in the session alone,
\* and the two still agree.
LEMMA AgreesGrow ==
    ASSUME NEW g \in Seq(Msg), NEW l \in Seq(Msg), NEW fl \in BOOLEAN,
           Agrees(g, l, fl), NEW m \in Msg
    PROVE  /\ Agrees(g, Append(l, m), TRUE)
           /\ ~fl => Agrees(Append(g, m), Append(l, m), FALSE)
  <1>1. /\ Len(Append(l, m)) = Len(l) + 1
        /\ \A i \in 1..Len(l) : Append(l, m)[i] = l[i]
        /\ Append(l, m)[Len(l) + 1] = m
    BY AppendProperties
  <1>2. /\ Len(Append(g, m)) = Len(g) + 1
        /\ \A i \in 1..Len(g) : Append(g, m)[i] = g[i]
        /\ Append(g, m)[Len(g) + 1] = m
    BY AppendProperties
  <1>3. Len(g) \in Nat /\ Len(l) \in Nat
    OBVIOUS
  <1>4. Agrees(g, Append(l, m), TRUE)
    BY <1>1, <1>3 DEF Agrees
  <1>5. ASSUME ~fl PROVE Agrees(Append(g, m), Append(l, m), FALSE)
    BY <1>1, <1>2, <1>3, <1>5 DEF Agrees
  <1> QED
    BY <1>4, <1>5

\* The property, with what can be read back as a parameter.
LEMMA GapIs ==
    TranscriptHasNoGap <=>
        \A p \in Process :
            pc[p] # "off" /\ ~shared[sid[p]] /\ torn[sid[p]] = NotTorn =>
                Agrees(GoodPrefix(files[sid[p]]), told[p], failed[p])
  BY DEF TranscriptHasNoGap, Agrees

\* Nothing is at stake before the first session.
LEMMA GapInit == Init => GapInv
  BY SurviveInit DEF Init, GapInv, AloneUnlessShared, TranscriptHasNoGap

\* Sessions come to a transcript one at a time, unless that is recorded.
LEMMA AloneStep == GapInv /\ [Next]_vars => AloneUnlessShared'
  <1> SUFFICES ASSUME GapInv, [Next]_vars PROVE AloneUnlessShared'
    OBVIOUS
  <1> USE DEF GapInv, SurviveInv, TypeInv, TypeOK, Shape
  <1>1. CASE UNCHANGED <<pc, sid, shared>>
    BY <1>1 DEF AloneUnlessShared
  <1>2. ASSUME NEW p \in Process, NEW s \in Sid, StartFresh(p, s) PROVE AloneUnlessShared'
    BY <1>2 DEF StartFresh, AloneUnlessShared
  <1>3. ASSUME NEW p \in Process, NEW s \in used, Load(p, s) PROVE AloneUnlessShared'
    <2>1. ~shared'[s] => \A q \in Process \ {p} : pc[q] # "off" => sid[q] # s
      BY <1>3 DEF Load, Others
    <2>2. \A r \in Sid : ~shared'[r] => ~shared[r]
      BY <1>3 DEF Load
    <2>3. /\ pc' = [pc EXCEPT ![p] = "loaded"]
          /\ sid' = [sid EXCEPT ![p] = s]
      BY <1>3 DEF Load
    <2> QED
      BY <2>1, <2>2, <2>3 DEF AloneUnlessShared
  <1>4. ASSUME NEW p \in Process, Create(p) PROVE AloneUnlessShared'
    BY <1>4 DEF Create, AloneUnlessShared
  <1>5. ASSUME NEW p \in Process, End(p) PROVE AloneUnlessShared'
    BY <1>5 DEF End, AloneUnlessShared
  <1> QED
    BY <1>1, <1>2, <1>3, <1>4, <1>5 DEF Next, vars, ResumeByID, ResumeLast, AppendMsg,
       AppendFails, AppendAfterFailure

\* Every step leaves a transcript that is the beginning of its session.
LEMMA GapStep == GapInv /\ [Next]_vars => TranscriptHasNoGap'
  <1> SUFFICES ASSUME GapInv, [Next]_vars, NEW q \in Process,
                      pc'[q] # "off", ~shared'[sid'[q]], torn'[sid'[q]] = NotTorn
               PROVE  Agrees(GoodPrefix(files'[sid'[q]]), told'[q], failed'[q])
    BY DEF TranscriptHasNoGap, Agrees, NotTorn
  <1> DEFINE Goal == Agrees(GoodPrefix(files'[sid'[q]]), told'[q], failed'[q])
  <1>0. TypeInv /\ SurviveInv /\ TypeOK /\ Shape /\ AloneUnlessShared
    BY DEF GapInv, SurviveInv, TypeInv
  <1>a. ASSUME pc[q] # "off", ~shared[sid[q]], torn[sid[q]] = NotTorn
        PROVE  Agrees(GoodPrefix(files[sid[q]]), told[q], failed[q])
    BY <1>a, GapIs DEF GapInv
  <1>b. CASE UNCHANGED <<pc, sid, files, told, failed, shared, torn>>
    BY <1>a, <1>b
  \* A step of another process, at its own transcript.
  <1>c. ASSUME NEW p \in Process, p # q, pc[p] # "off",
               \A s \in Sid : s # sid[p] => files'[s] = files[s] /\ torn'[s] = torn[s],
               UNCHANGED <<pc, sid, shared>>, told'[q] = told[q], failed'[q] = failed[q]
        PROVE  Goal
    <2>1. sid[p] # sid[q]
      BY <1>0, <1>c DEF AloneUnlessShared, TypeOK
    <2> QED
      BY <1>0, <1>a, <1>c, <2>1 DEF TypeOK
  <1>1. ASSUME NEW p \in Process, NEW s \in Sid, StartFresh(p, s) PROVE Goal
    <2>1. CASE p # q
      BY <1>0, <1>1, <1>a, <2>1 DEF StartFresh, TypeOK
    <2>2. CASE p = q
      <3>1. sid'[q] = s /\ told'[q] = <<>> /\ files'[s] = EmptyFile
        BY <1>0, <1>1, <2>2 DEF StartFresh, TypeOK, Shape
      <3>2. EmptyFile.lines = <<>> /\ EmptyFile.open = FALSE /\ GoodFile(EmptyFile, Msg)
        BY DEF EmptyFile, GoodFile, FileOf
      <3>3. ReadableUpTo(EmptyFile, 0)
        BY <3>2 DEF ReadableUpTo
      <3>4. GoodPrefix(EmptyFile) = [i \in 1..0 |-> EmptyFile.lines[i].val]
        BY <3>2, <3>3, GoodPrefixIs
      <3>5. GoodPrefix(EmptyFile) = <<>>
        BY <3>4
      <3> QED
        BY <3>1, <3>5 DEF Agrees
    <2> QED
      BY <2>1, <2>2
  <1>2. ASSUME NEW p \in Process, NEW s \in used, Load(p, s) PROVE Goal
    <2>1. CASE p # q
      BY <1>0, <1>2, <1>a, <2>1 DEF Load, TypeOK
    <2>2. CASE p = q
      <3>1. /\ sid'[q] = s /\ files' = files /\ told'[q] = GoodPrefix(files[s])
            /\ s \in Sid
        BY <1>0, <1>2, <2>2 DEF Load, TypeOK
      <3>2. Len(GoodPrefix(files[s])) \in Nat
        BY <1>0, <3>1, TranscriptType
      <3> QED
        BY <3>1, <3>2 DEF Agrees
    <2> QED
      BY <2>1, <2>2
  <1>3. ASSUME NEW p \in Process, Create(p) PROVE Goal
    <2>1. pc[q] # "off"
      BY <1>0, <1>3 DEF Create, TypeOK
    <2> QED
      BY <1>3, <1>a, <2>1 DEF Create
  <1>4. ASSUME NEW p \in Process, NEW m \in Msg, AppendMsg(p, m) PROVE Goal
    <2>1. CASE p # q
      BY <1>0, <1>4, <1>c, <2>1 DEF AppendMsg, CanAppend, TypeOK
    <2>2. CASE p = q
      <3> DEFINE f == files[sid[q]]
      <3>1. /\ files'[sid'[q]] = WriteLine(f, m, "line")
            /\ told'[q] = Append(told[q], m)
            /\ failed'[q] = FALSE /\ failed[q] = FALSE
            /\ pc[q] # "off" /\ ~shared[sid[q]] /\ torn[sid[q]] = NotTorn
            /\ sid[q] \in Sid
        BY <1>0, <1>4, <2>2 DEF AppendMsg, CanAppend, TypeOK
      <3>2. Survived(f, acked[sid[q]], NotTorn)
        BY <3>1 DEF GapInv, SurviveInv
      <3>3. WellFormed(f) /\ ~f.open
        BY <3>2 DEF Survived
      <3>4. GoodFile(f, Msg) /\ GoodPrefix(f) \in Seq(Msg) /\ told[q] \in Seq(Msg)
        BY <1>0, <3>1, TranscriptType DEF TypeOK
      <3>5. GoodPrefix(WriteLine(f, m, "line")) = Append(GoodPrefix(f), m)
        BY <3>3, <3>4, WriteToSound
      <3>6. Agrees(GoodPrefix(f), told[q], FALSE)
        BY <1>a, <3>1
      <3>7. Agrees(Append(GoodPrefix(f), m), Append(told[q], m), FALSE)
        BY <3>4, <3>6, AgreesGrow
      <3> HIDE DEF f
      <3> QED
        BY <3>1, <3>5, <3>7
    <2> QED
      BY <2>1, <2>2
  <1>5. ASSUME NEW p \in Process, NEW m \in Msg, NEW how \in Cuts, AppendFails(p, m, how)
        PROVE  Goal
    <2>1. CASE p # q
      BY <1>0, <1>5, <1>c, <2>1 DEF AppendFails, CanAppend, TypeOK
    <2>2. CASE p = q
      <3> DEFINE f == files[sid[q]]
      <3>1. /\ files'[sid'[q]] = WriteLine(f, m, how)
            /\ told'[q] = Append(told[q], m)
            /\ failed'[q] = TRUE
            /\ pc[q] # "off" /\ ~shared[sid[q]]
            /\ sid[q] \in Sid /\ sid' = sid
        BY <1>0, <1>5, <2>2 DEF AppendFails, CanAppend, TypeOK
      <3>2. how = "none" /\ torn[sid[q]] = NotTorn
        <4>1. torn'[sid[q]] = IF how # "none" /\ torn[sid[q]] = NotTorn
                              THEN Len(acked[sid[q]]) ELSE torn[sid[q]]
          BY <1>0, <1>5, <2>2, <3>1 DEF AppendFails, TypeOK
        <4>2. Len(acked[sid[q]]) # NotTorn
          BY <1>0, <1>5, <2>2, <3>1, SessionAssumption DEF AppendFails, CanAppend, NotTorn, TypeOK
        <4> QED
          BY <3>1, <4>1, <4>2
      <3>3. WriteLine(f, m, how) = f
        BY <3>2 DEF WriteLine
      <3>4. GoodPrefix(f) \in Seq(Msg) /\ told[q] \in Seq(Msg) /\ failed[q] \in BOOLEAN
        BY <1>0, <3>1, TranscriptType DEF TypeOK
      <3>5. Agrees(GoodPrefix(f), told[q], failed[q])
        BY <1>a, <3>1, <3>2
      <3>6. Agrees(GoodPrefix(f), Append(told[q], m), TRUE)
        BY <3>4, <3>5, AgreesGrow
      <3> HIDE DEF f
      <3> QED
        BY <3>1, <3>3, <3>6
    <2> QED
      BY <2>1, <2>2
  <1>6. ASSUME NEW p \in Process, NEW m \in Msg, AppendAfterFailure(p, m) PROVE Goal
    <2>1. CASE p # q
      BY <1>0, <1>6, <1>c, <2>1 DEF AppendAfterFailure, CanAppend, TypeOK
    <2>2. CASE p = q
      <3>1. /\ files' = files /\ sid' = sid
            /\ told'[q] = Append(told[q], m)
            /\ failed'[q] = TRUE /\ failed[q] = TRUE
            /\ pc[q] # "off" /\ ~shared[sid[q]] /\ torn[sid[q]] = NotTorn
            /\ sid[q] \in Sid
        BY <1>0, <1>6, <2>2 DEF AppendAfterFailure, CanAppend, TypeOK
      <3>2. GoodPrefix(files[sid[q]]) \in Seq(Msg) /\ told[q] \in Seq(Msg)
        BY <1>0, <3>1, TranscriptType DEF TypeOK
      <3>3. Agrees(GoodPrefix(files[sid[q]]), told[q], TRUE)
        BY <1>a, <3>1
      <3> QED
        BY <3>1, <3>2, <3>3, AgreesGrow
    <2> QED
      BY <2>1, <2>2
  <1>7. ASSUME NEW p \in Process, End(p) PROVE Goal
    BY <1>0, <1>7, <1>a DEF End, TypeOK
  <1> QED
    BY <1>1, <1>2, <1>3, <1>4, <1>5, <1>6, <1>7, <1>b DEF Next, vars, ResumeByID, ResumeLast,
       GapInv, SurviveInv, TypeInv, TypeOK

\* Of a session that has its transcript to itself, what a resume will find is
\* the beginning of what it loaded and was given to append, and all of it while
\* no write has failed, through any number of resumes, failures and kills.
THEOREM NoTranscriptHasAGap == Spec => []TranscriptHasNoGap
  <1>1. GapInv /\ [Next]_vars => GapInv'
    BY SurviveStep, AloneStep, GapStep DEF GapInv
  <1>2. GapInv => TranscriptHasNoGap
    BY DEF GapInv
  <1> QED
    BY <1>1, <1>2, GapInit, PTL DEF Spec

-----------------------------------------------------------------------------
(* Each transcript is a journal.                                           *)

\* Every step is, for each transcript, one of its journal or none.
LEMMA TranscriptStep ==
    ASSUME TypeInv, [Next]_vars, NEW s \in Sid
    PROVE  \/ Transcript(s)!Next
           \/ UNCHANGED <<GoodPrefix(files[s]), Condition(files[s])>>
  <1> DEFINE e == GoodPrefix(files[s])
             c == Condition(files[s])
             Goal == Transcript(s)!Next \/ UNCHANGED <<e, c>>
  <1>0. GoodFile(files[s], Msg)
    BY TranscriptType
  <1>1. ASSUME JournalStep(e, c, e', c') PROVE Goal
    BY <1>1 DEF JournalStep, Transcript!Next, Transcript!Write, Transcript!Grows,
       Transcript!WriteWithoutNewline, Transcript!CutShort, Transcript!Spoil
  <1>2. ASSUME NEW p \in Process, NEW m \in Msg, NEW how \in Cuts \cup {"line"},
               files' = [files EXCEPT ![sid[p]] = WriteLine(@, m, how)]
        PROVE  Goal
    <2>1. CASE s # sid[p]
      BY <1>2, <2>1
    <2>2. CASE s = sid[p]
      <3>1. files'[s] = WriteLine(files[s], m, how)
        BY <1>2, <2>2 DEF TypeInv, TypeOK
      <3>2. JournalStep(e, c, e', c')
        BY <1>0, <3>1, WriteIsJournalled
      <3> QED
        BY <1>1, <3>2
    <2> QED
      BY <2>1, <2>2
  <1>3. CASE files' = files
    BY <1>3
  <1>4. ASSUME NEW p \in Process, NEW m \in Msg, AppendMsg(p, m) PROVE Goal
    BY <1>2, <1>4 DEF AppendMsg
  <1>5. ASSUME NEW p \in Process, NEW m \in Msg, NEW how \in Cuts, AppendFails(p, m, how)
        PROVE  Goal
    BY <1>2, <1>5 DEF AppendFails
  <1> QED
    BY <1>3, <1>4, <1>5 DEF Next, vars, StartFresh, ResumeByID, ResumeLast, Load, Create,
       AppendAfterFailure, End

\* Each transcript, whoever resumes it and whoever still writes to it, takes
\* only the steps of a journal.
THEOREM TranscriptsImplementJournal == Spec => TranscriptsAreJournals
  <1>1. TypeInv /\ [Next]_vars =>
          [\A s \in Sid : \/ Transcript(s)!Next
                          \/ UNCHANGED <<GoodPrefix(files[s]), Condition(files[s])>>]_vars
    BY TranscriptStep
  <1> QED
    BY <1>1, TypeInit, TypeStep, PTL DEF Spec, TranscriptsAreJournals
=============================================================================
