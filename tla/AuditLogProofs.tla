--------------------------- MODULE AuditLogProofs ---------------------------
(***************************************************************************)
(* Proofs about AuditLog: type correctness, that the log left by sessions  *)
(* that follow one another verifies, what a log that verifies tells, that  *)
(* edits are found, and that the log is a journal; for any processes, any  *)
(* record bodies, either sharing mode and any length of log.               *)
(***************************************************************************)
EXTENDS AuditLog, Lemmas

\* A record built by Log is a Record.
LEMMA MakeRecordType ==
    ASSUME NEW s \in Nat, NEW h \in Digests, NEW b \in Body
    PROVE  /\ hashRecord(s, h, b) \in Digests
           /\ MakeRecord(s, h, b) \in Record
  BY DEF hashRecord, MakeRecord, Record, Digests

-----------------------------------------------------------------------------
(* Type correctness.                                                       *)

\* An open last line is a line, and only an open log can have failed.
Shape ==
    /\ file.open => file.lines # <<>>
    /\ \A p \in Process : failed[p] => pc[p] = "open"

TypeInv == TypeOK /\ Shape

\* The hash that ends the first n lines is a digest.
LEMMA PrevOfType ==
    ASSUME NEW L \in Seq(LineOf(Record)), NEW i \in 1..Len(L) + 1
    PROVE  PrevOf(L, i) \in Digests
  <1>1. CASE i = 1
    BY <1>1 DEF PrevOf, genesisHash, Digests
  <1>2. CASE i # 1
    <2>1. L[i - 1] \in LineOf(Record)
      BY <1>2
    <2>2. L[i - 1].val.hash \in Digests
      BY <2>1 DEF Record, LineOf
    <2> QED
      BY <1>2, <2>2 DEF PrevOf
  <1> QED
    BY <1>1, <1>2

\* The sequence number on a line is a natural number.
LEMMA SeqOfType ==
    ASSUME NEW L \in Seq(LineOf(Record)), NEW i \in 1..Len(L)
    PROVE  L[i].val.seq \in Nat
  <1>1. L[i] \in LineOf(Record)
    OBVIOUS
  <1> QED
    BY <1>1 DEF Record, LineOf

\* The types hold of an empty log.
LEMMA TypeInit == Init => TypeInv
  <1> SUFFICES ASSUME Init PROVE TypeInv
    OBVIOUS
  <1>1. EmptyFile \in FileOf(Record)
    BY DEF EmptyFile, FileOf
  <1>2. genesisHash \in Digests
    BY DEF genesisHash, Digests
  <1>3. prevHash \in [Process -> Digests]
    BY <1>2 DEF Init
  <1>4. file \in FileOf(Record)
    BY <1>1 DEF Init
  <1>5. acked \in Seq(Body)
    BY DEF Init
  <1>6. TypeOK
    BY <1>3, <1>4, <1>5 DEF Init, TypeOK
  <1>7. Shape
    BY DEF Init, Shape, EmptyFile
  <1> QED
    BY <1>6, <1>7 DEF TypeInv

\* Every step of a logger, a failing write and an edit keeps the types.
LEMMA TypeStep == TypeInv /\ [Next]_vars => TypeInv'
  <1> SUFFICES ASSUME TypeInv, [Next]_vars PROVE TypeInv'
    OBVIOUS
  <1> USE DEF TypeInv, TypeOK, Shape
  <1>0. GoodFile(file, Record) /\ file.lines \in Seq(LineOf(Record))
    BY DEF FileOf, GoodFile
  <1>1. ASSUME NEW p \in Process, tail(p) PROVE TypeInv'
    <2> DEFINE n == Len(file.lines)
    <2>1. n \in Nat
      BY <1>0
    <2>2. n # 0 => file.lines[n].val.seq \in Nat
      BY <1>0, <2>1, SeqOfType
    <2>3. PrevOf(file.lines, n + 1) \in Digests
      BY <1>0, <2>1, PrevOfType
    <2>4. seq' \in [Process -> Nat]
      <3> DEFINE s == IF n = 0 THEN 0 ELSE file.lines[n].val.seq
      <3>1. s \in Nat
        BY <2>2
      <3>2. seq' = [seq EXCEPT ![p] = s]
        BY <1>1 DEF tail
      <3> HIDE DEF s
      <3> QED BY <3>1, <3>2
    <2>5. prevHash' \in [Process -> Digests]
      <3> DEFINE h == PrevOf(file.lines, n + 1)
      <3>1. prevHash' = [prevHash EXCEPT ![p] = h]
        BY <1>1 DEF tail
      <3> HIDE DEF h
      <3> QED BY <2>3, <3>1 DEF h
    <2> QED
      BY <1>1, <2>4, <2>5 DEF tail
  <1>2. ASSUME NEW p \in Process, Open(p) PROVE TypeInv'
    BY <1>2 DEF Open
  <1>3. ASSUME NEW p \in Process, NEW b \in Body, Log(p, b) PROVE TypeInv'
    <2> DEFINE r == MakeRecord(seq[p] + 1, prevHash[p], b)
    <2>1. r \in Record /\ hashRecord(seq[p] + 1, prevHash[p], b) \in Digests
      BY MakeRecordType
    <2>2. GoodFile(WriteLine(file, r, "line"), Record)
      BY <1>0, <2>1, WriteLineType
    <2>3. Append(acked, b) \in Seq(Body)
      OBVIOUS
    <2>4. /\ seq' \in [Process -> Nat]
          /\ prevHash' \in [Process -> Digests]
      BY <1>3, <2>1 DEF Log
    <2> QED
      BY <1>3, <2>2, <2>3, <2>4 DEF Log, GoodFile
  <1>4. ASSUME NEW p \in Process, NEW b \in Body, NEW how \in Cuts, LogFails(p, b, how)
        PROVE TypeInv'
    <2> DEFINE r == MakeRecord(seq[p] + 1, prevHash[p], b)
    <2>1. r \in Record
      BY MakeRecordType
    <2>2. GoodFile(WriteLine(file, r, how), Record)
      BY <1>0, <2>1, WriteLineType
    <2>3. seq' \in [Process -> Nat]
      BY <1>4 DEF LogFails
    <2>4. cut' \in BOOLEAN /\ failed' \in [Process -> BOOLEAN]
      BY <1>4 DEF LogFails
    <2>5. \A q \in Process : failed'[q] => pc'[q] = "open"
      BY <1>4 DEF LogFails, CanLog
    <2> QED
      BY <1>4, <2>2, <2>3, <2>4, <2>5 DEF LogFails, GoodFile
  <1>5. ASSUME NEW p \in Process, LogAfterFailure(p) PROVE TypeInv'
    BY <1>5 DEF LogAfterFailure
  <1>6. ASSUME NEW p \in Process, Close(p) PROVE TypeInv'
    BY <1>6 DEF Close
  <1>7. CASE UNCHANGED vars
    BY <1>7 DEF vars
  <1> QED
    BY <1>1, <1>2, <1>3, <1>4, <1>5, <1>6, <1>7 DEF Next

\* The audit log, its loggers and its history always have their types.
THEOREM AuditLogTypeCorrect == Spec => []TypeOK
  <1>1. Spec => []TypeInv
    BY TypeInit, TypeStep, PTL DEF Spec
  <1>2. TypeInv => TypeOK
    BY DEF TypeInv
  <1> QED
    BY <1>1, <1>2, PTL
-----------------------------------------------------------------------------
(* The log verifies.                                                       *)

\* CleanLogVerifies is not inductive by itself: that the next record chains
\* rests on what the running logger remembers, LoggerAtTail, and that a
\* logger reads a good sequence number from the tail rests on the log.
Inv == TypeInv /\ LoggerAtTail /\ CleanLogVerifies

\* One more record, numbered and chained from the last one, verifies.
LEMMA ChainExtends ==
    ASSUME NEW L \in Seq(LineOf(Record)), verify(L), NEW b \in Body,
           NEW h \in Digests, h = PrevOf(L, Len(L) + 1),
           NEW M, M = Append(L, [ok |-> TRUE, val |-> MakeRecord(Len(L) + 1, h, b)])
    PROVE  /\ Len(M) = Len(L) + 1
           /\ M[Len(L) + 1].val.body = b
           /\ \A i \in 1..Len(L) : M[i] = L[i]
           /\ PrevOf(M, Len(M) + 1) = hashRecord(Len(L) + 1, h, b)
           /\ verify(M)
  <1> DEFINE n == Len(L)
             r == MakeRecord(n + 1, h, b)
             e == [ok |-> TRUE, val |-> r]
  <1>0. n \in Nat
    OBVIOUS
  <1>1. r \in Record
    BY <1>0, MakeRecordType
  <1>2. e \in LineOf(Record)
    BY <1>1 DEF LineOf
  <1>3. /\ M \in Seq(LineOf(Record))
        /\ Len(M) = n + 1
        /\ M[n + 1] = e
        /\ \A i \in 1..n : M[i] = L[i]
    <2> HIDE DEF e
    <2> QED BY <1>2, AppendProperties DEF e
  <1>4. /\ r.seq = n + 1 /\ r.prev = h /\ r.body = b
        /\ r.hash = hashRecord(n + 1, h, b)
    BY DEF MakeRecord
  <1>5. PrevOf(M, Len(M) + 1) = hashRecord(n + 1, h, b)
    BY <1>0, <1>3, <1>4 DEF PrevOf
  <1>6. PrevOf(M, n + 1) = h
    BY <1>0, <1>3 DEF PrevOf
  <1>7. ASSUME NEW i \in 1..Len(M) PROVE VerifiesAt(M, i)
    <2>1. CASE i = n + 1
      BY <2>1, <1>3, <1>4, <1>6 DEF VerifiesAt
    <2>2. CASE i # n + 1
      <3>1. i \in 1..n /\ M[i] = L[i]
        BY <2>2, <1>0, <1>3
      <3>2. VerifiesAt(L, i)
        BY <3>1 DEF verify
      <3>3. PrevOf(M, i) = PrevOf(L, i)
        BY <3>1, <1>3 DEF PrevOf
      <3> QED
        BY <3>1, <3>2, <3>3 DEF VerifiesAt
    <2> QED
      BY <2>1, <2>2
  <1>8. verify(M)
    BY <1>7 DEF verify
  <1>9. M[n + 1].val.body = b
    BY <1>3, <1>4
  <1> QED
    <2> HIDE DEF e, r
    <2> QED BY <1>3, <1>5, <1>8, <1>9

\* The chain's invariant holds of an empty log.
LEMMA InvInit == Init => Inv
  BY TypeInit DEF Init, Inv, LoggerAtTail, CleanLogVerifies, Clean, EmptyFile, verify

\* A logger that is alone writes at the tail it read; every step keeps it so.
LEMMA InvStep == Inv /\ [Next]_vars => Inv'
  <1> SUFFICES ASSUME Inv, [Next]_vars PROVE Inv'
    OBVIOUS
  <1> USE DEF Inv
  <1>0. TypeInv'
    BY TypeStep
  <1>a. file.lines \in Seq(LineOf(Record)) /\ file.open \in BOOLEAN
    BY DEF TypeInv, TypeOK, FileOf
  <1>1. ASSUME NEW p \in Process, tail(p) PROVE Inv'
    <2> SUFFICES ASSUME Clean' PROVE LoggerAtTail' /\ CleanLogVerifies'
      BY <1>0 DEF LoggerAtTail, CleanLogVerifies
    <2> DEFINE n == Len(file.lines)
    <2>1. Clean /\ \A q \in Process \ {p} : pc[q] = "closed"
      BY <1>1 DEF tail, Clean
    <2>2. verify(file.lines) /\ n \in Nat
      BY <2>1, <1>a DEF CleanLogVerifies
    <2>3. n # 0 => file.lines[n].val.seq = n
      BY <2>2 DEF verify, VerifiesAt
    <2>4. file' = file /\ acked' = acked
      BY <1>1 DEF tail
    <2>5. /\ pc'[p] = "tailed" /\ \A q \in Process \ {p} : pc'[q] = "closed"
      BY <1>1, <2>1 DEF tail, TypeInv, TypeOK
    <2>6. prevHash'[p] = PrevOf(file.lines, n + 1)
      BY <1>1 DEF tail, TypeInv, TypeOK
    <2>7. seq'[p] = n
      BY <1>1, <2>3 DEF tail, TypeInv, TypeOK
    <2> QED
      BY <2>1, <2>2, <2>4, <2>5, <2>6, <2>7 DEF LoggerAtTail, CleanLogVerifies
  <1>2. ASSUME NEW p \in Process, Open(p) PROVE Inv'
    BY <1>0, <1>2 DEF Open, LoggerAtTail, CleanLogVerifies, Clean, TypeInv, TypeOK
  <1>3. ASSUME NEW p \in Process, NEW b \in Body, Log(p, b) PROVE Inv'
    <2> SUFFICES ASSUME Clean' PROVE LoggerAtTail' /\ CleanLogVerifies'
      BY <1>0 DEF LoggerAtTail, CleanLogVerifies
    <2> DEFINE L == file.lines
               n == Len(L)
               h == prevHash[p]
               r == MakeRecord(n + 1, h, b)
               e == [ok |-> TRUE, val |-> r]
    <2>1. Clean
      BY <1>3 DEF Log, Clean
    <2>2. verify(L) /\ n \in Nat
      BY <2>1, <1>a DEF CleanLogVerifies
    <2>3. pc[p] = "open" /\ seq[p] = n /\ h = PrevOf(L, n + 1) /\ h \in Digests
      BY <1>3, <2>1 DEF Log, CanLog, LoggerAtTail, TypeInv, TypeOK
    <2>4. file' = [lines |-> Append(L, e), open |-> FALSE]
      <3>1. ~file.open
        BY <2>1 DEF LoggerAtTail
      <3>2. file' = WriteLine(file, r, "line")
        BY <1>3, <2>3 DEF Log
      <3>3. WriteLine(file, r, "line") = [lines |-> Append(L, e), open |-> FALSE]
        BY <3>1 DEF WriteLine
      <3> QED BY <3>2, <3>3
    <2>5. /\ Len(file'.lines) = n + 1
          /\ file'.lines[n + 1].val.body = b
          /\ \A i \in 1..n : file'.lines[i] = L[i]
          /\ PrevOf(file'.lines, Len(file'.lines) + 1) = hashRecord(n + 1, h, b)
          /\ verify(file'.lines)
      <3> DEFINE M == Append(L, e)
      <3>1. file'.lines = M
        BY <2>4
      <3>2. /\ Len(M) = n + 1
            /\ M[n + 1].val.body = b
            /\ \A i \in 1..n : M[i] = L[i]
            /\ PrevOf(M, Len(M) + 1) = hashRecord(n + 1, h, b)
            /\ verify(M)
        BY <1>a, <2>2, <2>3, ChainExtends
      <3> HIDE DEF M
      <3> QED BY <3>1, <3>2
    <2>6. /\ acked' \in Seq(Body) /\ Len(acked') = n + 1
          /\ \A i \in 1..n : acked'[i] = L[i].val.body
          /\ acked'[n + 1] = b
      <3>1. Len(acked) = n /\ \A i \in 1..n : acked[i] = L[i].val.body
        BY <2>1 DEF LoggerAtTail
      <3>2. acked' = Append(acked, b) /\ acked \in Seq(Body)
        BY <1>3 DEF Log, TypeInv, TypeOK
      <3> QED BY <3>1, <3>2, AppendProperties
    <2>7. \A i \in 1..n + 1 : acked'[i] = file'.lines[i].val.body
      <3> SUFFICES ASSUME NEW i \in 1..n + 1
                   PROVE  acked'[i] = file'.lines[i].val.body
        OBVIOUS
      <3>1. i = n + 1 \/ i \in 1..n
        BY <2>2
      <3>2. CASE i = n + 1
        BY <2>5, <2>6, <3>2
      <3>3. CASE i \in 1..n
        BY <2>5, <2>6, <3>3
      <3> QED
        BY <3>1, <3>2, <3>3
    <2>8. /\ prevHash'[p] = hashRecord(n + 1, h, b)
          /\ seq'[p] = n + 1
          /\ pc' = pc
      BY <1>3, <2>3 DEF Log, TypeInv, TypeOK
    <2>9. \A q \in Process : pc[q] # "closed" => q = p
      BY <2>1, <2>3 DEF LoggerAtTail
    <2>10. file'.open = FALSE
      BY <2>4
    <2> QED
      BY <2>5, <2>6, <2>7, <2>8, <2>9, <2>10 DEF LoggerAtTail, CleanLogVerifies
  <1>4. ASSUME NEW p \in Process, NEW b \in Body, NEW how \in Cuts, LogFails(p, b, how)
        PROVE Inv'
    <2> SUFFICES ASSUME Clean' PROVE LoggerAtTail' /\ CleanLogVerifies'
      BY <1>0 DEF LoggerAtTail, CleanLogVerifies
    <2>1. Clean /\ how = "none"
      BY <1>4 DEF LogFails, Clean
    <2>2. file' = file
      BY <1>4, <2>1 DEF LogFails, WriteLine
    <2>3. failed'[p] /\ \A q \in Process \ {p} : seq'[q] = seq[q] /\ failed'[q] = failed[q]
      BY <1>4 DEF LogFails, TypeInv, TypeOK
    <2>4. UNCHANGED <<pc, prevHash, acked>>
      BY <1>4 DEF LogFails
    <2> QED
      BY <2>1, <2>2, <2>3, <2>4 DEF LoggerAtTail, CleanLogVerifies
  <1>5. ASSUME NEW p \in Process, LogAfterFailure(p) PROVE Inv'
    BY <1>0, <1>5 DEF LogAfterFailure, CanLog, LoggerAtTail, CleanLogVerifies, Clean,
         TypeInv, TypeOK
  <1>6. ASSUME NEW p \in Process, Close(p) PROVE Inv'
    BY <1>0, <1>6 DEF Close, LoggerAtTail, CleanLogVerifies, Clean, TypeInv, TypeOK
  <1>7. CASE UNCHANGED vars
    BY <1>0, <1>7 DEF vars, LoggerAtTail, CleanLogVerifies, Clean
  <1> QED
    BY <1>1, <1>2, <1>3, <1>4, <1>5, <1>6, <1>7 DEF Next

\* While sessions follow one another and no write leaves bytes behind, the
\* running logger's memory and the file agree.
THEOREM LoggerStaysAtTail == Spec => []LoggerAtTail
  <1>1. Spec => []Inv
    BY InvInit, InvStep, PTL DEF Spec
  <1>2. Inv => LoggerAtTail
    BY DEF Inv
  <1> QED
    BY <1>1, <1>2, PTL

\* ... and the log they leave verifies: each restart continues the chain, for
\* any number of processes, sessions and records.
THEOREM SequentialLogVerifies == Spec => []CleanLogVerifies
  <1>1. Spec => []Inv
    BY InvInit, InvStep, PTL DEF Spec
  <1>2. Inv => CleanLogVerifies
    BY DEF Inv
  <1> QED
    BY <1>1, <1>2, PTL

-----------------------------------------------------------------------------
(* What verification tells.                                                *)

\* Every record acknowledged is on its line, and nothing else is in the file
\* but, on a last line without its newline, one record more.
OnlyAcked ==
    verify(file.lines) =>
        /\ Len(file.lines) = Len(acked) + (IF file.open THEN 1 ELSE 0)
        /\ \A i \in 1..Len(acked) : file.lines[i].val.body = acked[i]

CompleteInv == TypeInv /\ OnlyAcked

\* A log that verifies was well formed and verified before its last write,
\* which added a line to it.
LEMMA VerifiedWrite ==
    ASSUME NEW f, GoodFile(f, Record), NEW r \in Record, NEW how \in Cuts \cup {"line"},
           how # "none", verify(WriteLine(f, r, how).lines)
    PROVE  LET g == WriteLine(f, r, how) IN
           /\ ~f.open
           /\ verify(f.lines)
           /\ Len(g.lines) = Len(f.lines) + 1
           /\ \A i \in 1..Len(f.lines) : g.lines[i] = f.lines[i]
           /\ g.lines[Len(g.lines)].val = r
           /\ how = "line" => ~g.open
           /\ how # "line" => g.open
  <1> DEFINE g == WriteLine(f, r, how)
             n == Len(f.lines)
             e == [ok |-> how # "part", val |-> r]
  <1>0. f.lines \in Seq(LineOf(Record)) /\ n \in Nat /\ e \in LineOf(Record)
    BY GoodFileType DEF LineOf
  <1>1. GoodFile(g, Record)
    BY WriteLineType
  <1>2. WellFormed(g)
    <2>1. verify(g.lines)
      OBVIOUS
    <2> HIDE DEF g
    <2> QED BY <2>1 DEF verify, VerifiesAt, WellFormed
  <1>3. how \in {"line", "part", "whole"}
    BY DEF Cuts
  <1>4. WellFormed(f) /\ ~f.open
    <2>1. WellFormed(f)
      BY <1>2, <1>3, WriteToFrozen
    <2> QED
      BY <1>2, <1>3, <2>1, WriteToLoose
  <1>5. g.lines = Append(f.lines, e)
    BY <1>4 DEF WriteLine
  <1>6. /\ Len(g.lines) = n + 1
        /\ \A i \in 1..n : g.lines[i] = f.lines[i]
        /\ g.lines[n + 1] = e
    <2> HIDE DEF e, g
    <2> QED BY <1>0, <1>5, AppendProperties
  <1>7. verify(f.lines)
    <2>1. verify(g.lines)
      OBVIOUS
    <2>2. ASSUME NEW i \in 1..n PROVE VerifiesAt(f.lines, i)
      <3> HIDE DEF g
      <3>1. VerifiesAt(g.lines, i)
        BY <1>0, <1>6, <2>1 DEF verify
      <3>2. g.lines[i] = f.lines[i] /\ PrevOf(g.lines, i) = PrevOf(f.lines, i)
        BY <1>0, <1>6 DEF PrevOf
      <3> QED
        BY <3>1, <3>2 DEF VerifiesAt
    <2> QED
      BY <2>2 DEF verify
  <1>8. g.open <=> how # "line"
    BY <1>3, <1>4, WriteToSound
  <1> QED
    BY <1>0, <1>4, <1>6, <1>7, <1>8

\* Every step keeps a log that verifies equal to what was acknowledged.
LEMMA CompleteStep == CompleteInv /\ [Next]_vars => CompleteInv'
  <1> SUFFICES ASSUME CompleteInv, [Next]_vars, verify(file'.lines)
               PROVE  OnlyAcked'
    BY TypeStep DEF CompleteInv, OnlyAcked
  <1> USE DEF CompleteInv
  <1>0. /\ GoodFile(file, Record) /\ Len(file.lines) \in Nat
        /\ acked \in Seq(Body) /\ Len(acked) \in Nat
    <2>1. GoodFile(file, Record) /\ acked \in Seq(Body)
      BY DEF TypeInv, TypeOK, Shape, GoodFile
    <2> QED
      BY <2>1, GoodFileType
  <1>1. CASE UNCHANGED <<file, acked>>
    BY <1>1 DEF OnlyAcked
  <1>2. ASSUME NEW p \in Process, NEW b \in Body, Log(p, b) PROVE OnlyAcked'
    <2> DEFINE r == MakeRecord(seq[p] + 1, prevHash[p], b)
               g == WriteLine(file, r, "line")
    <2>1. r \in Record
      BY MakeRecordType DEF TypeInv, TypeOK
    <2>2. file' = g /\ acked' = Append(acked, b)
      BY <1>2 DEF Log
    <2>3. r.body = b
      BY DEF MakeRecord
    <2>4. /\ ~file.open
          /\ verify(file.lines)
          /\ Len(g.lines) = Len(file.lines) + 1
          /\ \A i \in 1..Len(file.lines) : g.lines[i] = file.lines[i]
          /\ g.lines[Len(g.lines)].val = r
          /\ ~g.open
      <3> HIDE DEF r
      <3> QED BY <1>0, <2>1, <2>2, VerifiedWrite
    <2>5. /\ Len(file.lines) = Len(acked)
          /\ \A i \in 1..Len(acked) : file.lines[i].val.body = acked[i]
      BY <1>0, <2>4 DEF OnlyAcked
    <2>6. /\ Len(acked') = Len(acked) + 1 /\ acked'[Len(acked) + 1] = b
          /\ \A i \in 1..Len(acked) : acked'[i] = acked[i]
      BY <1>0, <2>2, AppendProperties
    <2> HIDE DEF g, r
    <2> QED
      BY <1>0, <2>2, <2>3, <2>4, <2>5, <2>6 DEF OnlyAcked
  <1>3. ASSUME NEW p \in Process, NEW b \in Body, NEW how \in Cuts, LogFails(p, b, how)
        PROVE  OnlyAcked'
    <2> DEFINE r == MakeRecord(seq[p] + 1, prevHash[p], b)
               g == WriteLine(file, r, how)
    <2>1. r \in Record
      BY MakeRecordType DEF TypeInv, TypeOK
    <2>2. file' = g /\ acked' = acked
      BY <1>3 DEF LogFails
    <2>3. CASE how = "none"
      BY <1>1, <2>2, <2>3 DEF WriteLine
    <2>4. CASE how # "none"
      <3>1. /\ ~file.open
            /\ verify(file.lines)
            /\ Len(g.lines) = Len(file.lines) + 1
            /\ \A i \in 1..Len(file.lines) : g.lines[i] = file.lines[i]
            /\ g.open
        <4>1. how # "line"
          BY DEF Cuts
        <4> HIDE DEF r
        <4> QED BY <1>0, <2>1, <2>2, <2>4, <4>1, VerifiedWrite
      <3>2. /\ Len(file.lines) = Len(acked)
            /\ \A i \in 1..Len(acked) : file.lines[i].val.body = acked[i]
        BY <1>0, <3>1 DEF OnlyAcked
      <3> HIDE DEF g, r
      <3> QED
        BY <1>0, <2>2, <3>1, <3>2 DEF OnlyAcked
    <2> QED
      BY <2>3, <2>4
  <1> QED
    BY <1>1, <1>2, <1>3 DEF Next, vars, tail, Open, LogAfterFailure, Close

\* Whatever overlapped and whatever was cut short, a log of any length that
\* verifies has each record for which Log returned nil, on its line.
THEOREM VerifiedLogsAreComplete == Spec => []VerifiedLogIsComplete
  <1>1. Init => CompleteInv
    <2> SUFFICES ASSUME Init PROVE OnlyAcked
      BY TypeInit DEF CompleteInv
    <2> QED
      BY DEF Init, OnlyAcked, EmptyFile
  <1>2. CompleteInv => VerifiedLogIsComplete
    <2> SUFFICES ASSUME CompleteInv, verify(file.lines) PROVE VerifiedLogIsComplete
      BY DEF VerifiedLogIsComplete
    <2>1. Len(acked) \in Nat
      BY DEF CompleteInv, TypeInv, TypeOK
    <2> QED
      BY <2>1 DEF CompleteInv, OnlyAcked, VerifiedLogIsComplete
  <1> QED
    BY <1>1, <1>2, CompleteStep, PTL DEF Spec

-----------------------------------------------------------------------------
(* Edits.                                                                  *)

\* No edit of EditsAreDetected leaves a log that verifies: a record's number
\* is that of its line, and its hash covers what it says.
LEMMA EditsBreakTheChain ==
    ASSUME NEW L \in Seq(LineOf(Record)), verify(L)
    PROVE  /\ \A i \in 1..Len(L), b \in Body :
                b # L[i].val.body => ~verify([L EXCEPT ![i].val.body = b])
           /\ \A i \in 1..Len(L) - 1 : ~verify(Without(L, i)) /\ ~verify(Swapped(L, i))
  <1> DEFINE n == Len(L)
  <1>0. n \in Nat
    OBVIOUS
  <1>1. ASSUME NEW i \in 1..n, NEW b \in Body, b # L[i].val.body
        PROVE  ~verify([L EXCEPT ![i].val.body = b])
    <2> DEFINE M == [L EXCEPT ![i].val.body = b]
    <2>1. L[i] \in LineOf(Record)
      OBVIOUS
    <2>2. L[i].val.prev \in Digests /\ L[i].val.body \in Body
      BY <2>1 DEF LineOf, Record
    <2>3. M[i].val.body = b /\ M[i].val.prev = L[i].val.prev /\ M[i].val.hash = L[i].val.hash
      BY <2>1 DEF LineOf, Record
    <2>4. L[i].val.hash = hashRecord(i, L[i].val.prev, L[i].val.body)
      BY DEF verify, VerifiesAt
    <2>5. hashRecord(i, L[i].val.prev, L[i].val.body) # hashRecord(i, L[i].val.prev, b)
      BY <1>1, <2>2, AppendInjective DEF hashRecord, Digests
    <2>6. Len(M) = n
      OBVIOUS
    <2> HIDE DEF M
    <2>7. ~VerifiesAt(M, i)
      BY <2>3, <2>4, <2>5 DEF VerifiesAt
    <2>8. ~verify(M)
      BY <2>6, <2>7 DEF verify
    <2> QED
      BY <2>8 DEF M
  <1>2. ASSUME NEW i \in 1..n - 1 PROVE ~verify(Without(L, i))
    <2> DEFINE M == Without(L, i)
    <2>1. M = [k \in 1..n - 1 |-> L[IF k < i THEN k ELSE k + 1]]
      BY DEF Without
    <2>2. Len(M) = n - 1 /\ M[i] = L[i + 1]
      BY <1>0, <2>1
    <2>3. L[i + 1].val.seq = i + 1
      BY <1>0 DEF verify, VerifiesAt
    <2> HIDE DEF M
    <2> QED
      BY <1>0, <2>2, <2>3 DEF verify, VerifiesAt, M
  <1>3. ASSUME NEW i \in 1..n - 1 PROVE ~verify(Swapped(L, i))
    <2> DEFINE M == Swapped(L, i)
    <2>1. Len(M) = n /\ M[i] = L[i + 1]
      BY <1>0 DEF Swapped
    <2>2. L[i + 1].val.seq = i + 1
      BY <1>0 DEF verify, VerifiesAt
    <2> HIDE DEF M
    <2> QED
      BY <1>0, <2>1, <2>2 DEF verify, VerifiesAt, M
  <1> QED
    BY <1>1, <1>2, <1>3

\* Whatever the log, and however long: no single edit goes unnoticed.
THEOREM EditsAreAlwaysDetected == Spec => []EditsAreDetected
  <1>1. TypeOK => EditsAreDetected
    <2> SUFFICES ASSUME TypeOK, verify(file.lines)
                 PROVE  /\ \A i \in 1..Len(file.lines), b \in Body :
                             b # file.lines[i].val.body =>
                               ~verify([file.lines EXCEPT ![i].val.body = b])
                        /\ \A i \in 1..Len(file.lines) - 1 :
                             ~verify(Without(file.lines, i)) /\ ~verify(Swapped(file.lines, i))
      BY DEF EditsAreDetected
    <2>1. file.lines \in Seq(LineOf(Record))
      BY DEF TypeOK, FileOf
    <2> QED
      BY <2>1, EditsBreakTheChain
  <1> QED
    BY <1>1, AuditLogTypeCorrect, PTL

-----------------------------------------------------------------------------
(* The log is a journal.                                                   *)

\* An empty log is an empty journal.
LEMMA JournalInit == Init => Recovered!Init
  <1> SUFFICES ASSUME Init PROVE Recovered!Init
    OBVIOUS
  <1>1. GoodFile(file, Record) /\ file.lines = <<>> /\ ~file.open
    BY DEF Init, EmptyFile, FileOf, GoodFile
  <1>2. WellFormed(file) /\ ReadableUpTo(file, 0)
    BY <1>1 DEF WellFormed, ReadableUpTo
  <1>3. GoodPrefix(file) = [i \in 1..0 |-> file.lines[i].val]
    BY <1>1, <1>2, GoodPrefixIs
  <1>4. GoodPrefix(file) = <<>>
    BY <1>3
  <1>5. Condition(file) = "sound"
    BY <1>1, <1>2, ConditionIs
  <1> QED
    BY <1>4, <1>5 DEF Recovered!Init

\* Each step of the log is a step of the journal, or leaves it alone.
LEMMA JournalNext == TypeInv /\ [Next]_vars => [Recovered!Next]_Recovered!vars
  <1> SUFFICES ASSUME TypeInv, [Next]_vars PROVE [Recovered!Next]_Recovered!vars
    OBVIOUS
  <1> DEFINE e == GoodPrefix(file)
             c == Condition(file)
  <1>0. GoodFile(file, Record)
    BY DEF TypeInv, TypeOK, Shape, GoodFile
  <1>1. JournalStep(e, c, e', c') => [Recovered!Next]_Recovered!vars
    BY DEF JournalStep, Recovered!Next, Recovered!vars, Recovered!Write, Recovered!Grows,
           Recovered!WriteWithoutNewline, Recovered!CutShort, Recovered!Spoil
  <1>2. ASSUME NEW p \in Process, NEW b \in Body, NEW how \in Cuts \cup {"line"},
               file' = WriteLine(file, MakeRecord(seq[p] + 1, prevHash[p], b), how)
        PROVE  JournalStep(e, c, e', c')
    <2>1. MakeRecord(seq[p] + 1, prevHash[p], b) \in Record
      BY MakeRecordType DEF TypeInv, TypeOK
    <2> QED
      BY <1>0, <1>2, <2>1, WriteIsJournalled
  <1>3. CASE file' = file
    BY <1>3 DEF Recovered!vars
  <1>4. ASSUME NEW p \in Process, NEW b \in Body, Log(p, b)
        PROVE  [Recovered!Next]_Recovered!vars
    BY <1>1, <1>2, <1>4 DEF Log
  <1>5. ASSUME NEW p \in Process, NEW b \in Body, NEW how \in Cuts, LogFails(p, b, how)
        PROVE  [Recovered!Next]_Recovered!vars
    BY <1>1, <1>2, <1>5 DEF LogFails
  <1> QED
    BY <1>3, <1>4, <1>5 DEF Next, vars, tail, Open, LogAfterFailure, Close

\* The audit log implements Journal, for any number of processes at it, any
\* sharing mode and any writes that are cut short.
THEOREM LogImplementsJournal == Spec => LogIsAJournal
  <1>1. Spec => []TypeInv
    BY TypeInit, TypeStep, PTL DEF Spec
  <1> QED
    BY <1>1, JournalInit, JournalNext, PTL DEF Spec, LogIsAJournal, Recovered!Spec
=============================================================================
