---------------------------- MODULE LsfScanProofs ----------------------------
(***************************************************************************)
(* Proofs about LsfScan, for any finite set of callers and any bounds: the *)
(* properties its run checks.                                              *)
(***************************************************************************)
EXTENDS LsfScan, FiniteSetTheorems, TLAPS

\* The C memory a caller owns is fixed by where it is and what it has copied.
HeapKept ==
  \A c \in Callers :
    /\ pc[c] = "idle" => heap[c] = {}
    /\ pc[c] \in {"open", "closeEmpty", "alloc", "closeFailed", "return"} =>
         heap[c] = {<<"args", 0>>}
    /\ pc[c] \in {"read", "fill", "discard", "close", "copy", "free"} =>
         heap[c] = {<<"args", 0>>, <<"array", 0>>} \cup Slots(jobs[c])
    /\ pc[c] \in {"idle", "open", "closeEmpty", "alloc"} => jobs[c] = <<>>

\* Scans whose sessions are open together are both known to be disturbed.
Apart ==
  \A c, d \in Callers :
    c # d /\ pc[c] \in Open /\ pc[d] \in Open => c \in disturbed

\* The session of an undisturbed scan is its own, and stands where its loop
\* does: the records read are copied, but for the one in the buffer.
InStep ==
  \A c \in Callers \ disturbed :
    /\ pc[c] \in {"alloc", "read", "fill"} =>
         session.scan = scan[c] /\ session.next + session.left = count[c] + 1
    /\ pc[c] = "alloc" => session.next = 1
    /\ pc[c] = "read" => session.next = Len(jobs[c]) + 1
    /\ pc[c] = "fill" =>
         /\ session.next = Len(jobs[c]) + 2 /\ session.left = more[c]
         /\ buffer = [scan |-> scan[c], job |-> Len(jobs[c]) + 1]
    /\ pc[c] \in {"read", "fill", "close", "copy"} =>
         \A i \in 1..Len(jobs[c]) : jobs[c][i] = [scan |-> scan[c], job |-> i]
    /\ pc[c] \in {"close", "copy"} => Len(jobs[c]) = count[c]
    /\ pc[c] = "closeEmpty" => count[c] = 0

\* The first n records of query s.
Records(s, n) == [i \in 1..n |-> [scan |-> s, job |-> i]]

\* What a scan returns is set last.
Answered ==
  \A c \in Callers :
    /\ pc[c] \notin {"free", "return"} => result[c] = NoResult
    /\ pc[c] \in {"free", "return"} /\ c \notin disturbed =>
         result[c].jobs = IF result[c].failed THEN <<>>
                          ELSE Records(scan[c], count[c])

\* The inductive invariant.
IInv == TypeOK /\ HeapKept /\ Apart /\ InStep /\ Answered /\ SessionsClosed

-----------------------------------------------------------------------------
\* The first states satisfy it.
LEMMA InitIInv == Init => IInv
<1> SUFFICES ASSUME Init PROVE IInv
  OBVIOUS
<1>1. TypeOK
  BY DEF Init, TypeOK, Record, Session, NoRecord, NoSession, NoResult, Labels
<1>2. {c \in Callers : pc[c] \in Open} = {}
  BY DEF Init, Open
<1>3. Cardinality({c \in Callers : pc[c] \in Open}) = 0
  BY <1>2, FS_EmptySet
<1>4. SessionsClosed
  BY <1>3 DEF Init, SessionsClosed
<1> QED
  BY <1>1, <1>4 DEF Init, IInv, HeapKept, Apart, InStep, Answered, NoResult, Open

\* Every step keeps the types.
LEMMA StepTypeOK ==
  ASSUME TypeOK, [Next]_vars
  PROVE  TypeOK'
<1> USE LsfScanAssumption DEF TypeOK, vars, library, locals, history, Goto
<1>1. ASSUME UNCHANGED vars PROVE TypeOK'
  BY <1>1
<1>2. ASSUME NEW c \in Callers, Enter(c) PROVE TypeOK'
  <2>1. heap' \in [Callers -> SUBSET Blocks]
    BY <1>2 DEF Enter, Blocks
  <2> QED
    BY <1>2, <2>1 DEF Enter, Labels
<1>3. ASSUME NEW c \in Callers, OpenFails(c) PROVE TypeOK'
  BY <1>3 DEF OpenFails, Labels, Failure
<1>4. ASSUME NEW c \in Callers, OpenSession(c) PROVE TypeOK'
  <2>1. session' \in Session /\ count' \in [Callers -> Nat]
    BY <1>4 DEF OpenSession, Session
  <2>2. disturbed' \in SUBSET Callers
    BY <1>4 DEF OpenSession
  <2>3. pc' \in [Callers -> Labels]
    BY <1>4 DEF OpenSession, Labels
  <2> QED
    BY <1>4, <2>1, <2>2, <2>3 DEF OpenSession
<1>5. ASSUME NEW c \in Callers, CloseEmpty(c) PROVE TypeOK'
  <2>1. session' \in Session /\ closed' \in Nat
    BY <1>5 DEF CloseEmpty, CloseSession, Session, NoSession
  <2> QED
    BY <1>5, <2>1 DEF CloseEmpty, CloseSession, Labels, Failure
<1>6. ASSUME NEW c \in Callers, Alloc(c) PROVE TypeOK'
  <2>1. heap' \in [Callers -> SUBSET Blocks]
    BY <1>6 DEF Alloc, Blocks
  <2> QED
    BY <1>6, <2>1 DEF Alloc, Labels
<1>7. ASSUME NEW c \in Callers, AllocFails(c) PROVE TypeOK'
  BY <1>7 DEF AllocFails, Labels, Failure
<1>8. ASSUME NEW c \in Callers, Read(c) PROVE TypeOK'
  <2>1. session \in Session /\ session.left \in Nat /\ session.next \in Nat /\ session.scan \in Nat
    BY DEF Session
  <2>2. session' \in Session
    <3>1. session' = [scan |-> session.scan, next |-> session.next + 1,
                      left |-> session.left - 1]
      BY <1>8, <2>1 DEF Read, Session
    <3>2. session.left - 1 \in Nat /\ session.next + 1 \in Nat
      BY <1>8, <2>1 DEF Read
    <3> QED
      BY <2>1, <3>1, <3>2 DEF Session
  <2>3. buffer' \in Record
    BY <1>8, <2>1 DEF Read, Record
  <2>4. more' \in [Callers -> Nat]
    BY <1>8, <2>1 DEF Read
  <2> QED
    BY <1>8, <2>2, <2>3, <2>4 DEF Read, Labels
<1>9. ASSUME NEW c \in Callers, ReadFails(c) PROVE TypeOK'
  BY <1>9 DEF ReadFails, Labels, Failure
<1>10. ASSUME NEW c \in Callers, Fill(c) PROVE TypeOK'
  <2>1. jobs[c] \in Seq(Record) /\ Len(jobs[c]) + 1 \in Nat
    OBVIOUS
  <2>2. jobs' \in [Callers -> Seq(Record)]
    BY <1>10, <2>1 DEF Fill
  <2>3. heap' \in [Callers -> SUBSET Blocks]
    BY <1>10, <2>1 DEF Fill, Blocks
  <2>4. pc' \in [Callers -> Labels]
    BY <1>10 DEF Fill, Labels
  <2> QED
    BY <1>10, <2>2, <2>3, <2>4 DEF Fill
<1>11. ASSUME NEW c \in Callers, Discard(c) PROVE TypeOK'
  <2>1. heap' \in [Callers -> SUBSET Blocks]
    BY <1>11 DEF Discard, FreeJobs
  <2> QED
    BY <1>11, <2>1 DEF Discard, FreeJobs, Labels
<1>12. ASSUME NEW c \in Callers, CloseFailed(c) PROVE TypeOK'
  <2>1. session' \in Session /\ closed' \in Nat
    BY <1>12 DEF CloseFailed, CloseSession, Session, NoSession
  <2> QED
    BY <1>12, <2>1 DEF CloseFailed, CloseSession, Labels, Failure
<1>13. ASSUME NEW c \in Callers, Close(c) PROVE TypeOK'
  <2>1. session' \in Session /\ closed' \in Nat
    BY <1>13 DEF Close, CloseSession, Session, NoSession
  <2> QED
    BY <1>13, <2>1 DEF Close, CloseSession, Labels, Failure
<1>14. ASSUME NEW c \in Callers, Copy(c) PROVE TypeOK'
  <2>1. result' \in [Callers -> [failed : BOOLEAN, jobs : Seq(Record)]]
    BY <1>14 DEF Copy
  <2> QED
    BY <1>14, <2>1 DEF Copy, Labels
<1>15. ASSUME NEW c \in Callers, Free(c) PROVE TypeOK'
  <2>1. heap' \in [Callers -> SUBSET Blocks]
    BY <1>15 DEF Free, FreeJobs
  <2> QED
    BY <1>15, <2>1 DEF Free, FreeJobs, Labels
<1>16. ASSUME NEW c \in Callers, Return(c) PROVE TypeOK'
  <2>1. heap' \in [Callers -> SUBSET Blocks] /\ disturbed' \in SUBSET Callers
    BY <1>16 DEF Return
  <2>2. result' \in [Callers -> [failed : BOOLEAN, jobs : Seq(Record)]]
    BY <1>16 DEF Return, NoResult
  <2>3. jobs' \in [Callers -> Seq(Record)]
    BY <1>16 DEF Return
  <2> QED
    BY <1>16, <2>1, <2>2, <2>3 DEF Return, Labels
<1> QED
  BY <1>1, <1>2, <1>3, <1>4, <1>5, <1>6, <1>7, <1>8,
     <1>9, <1>10, <1>11, <1>12, <1>13, <1>14, <1>15, <1>16 DEF Next

\* Every step takes and frees what its place calls for.
LEMMA StepHeap ==
  ASSUME TypeOK, HeapKept, [Next]_vars
  PROVE  HeapKept'
<1> USE DEF TypeOK, HeapKept, vars, library, locals, history, Goto
<1>1. ASSUME UNCHANGED vars PROVE HeapKept'
  BY <1>1
<1>2. ASSUME NEW c \in Callers, Enter(c) PROVE HeapKept'
  BY <1>2 DEF Enter
<1>3. ASSUME NEW c \in Callers, OpenFails(c) PROVE HeapKept'
  BY <1>3 DEF OpenFails
<1>4. ASSUME NEW c \in Callers, OpenSession(c) PROVE HeapKept'
  BY <1>4 DEF OpenSession
<1>5. ASSUME NEW c \in Callers, CloseEmpty(c) PROVE HeapKept'
  BY <1>5 DEF CloseEmpty, CloseSession
<1>6. ASSUME NEW c \in Callers, Alloc(c) PROVE HeapKept'
  <2>1. Slots(jobs[c]) = {}
    BY <1>6 DEF Alloc, Slots
  <2> QED
    BY <1>6, <2>1 DEF Alloc
<1>7. ASSUME NEW c \in Callers, AllocFails(c) PROVE HeapKept'
  BY <1>7 DEF AllocFails
<1>8. ASSUME NEW c \in Callers, Read(c) PROVE HeapKept'
  BY <1>8 DEF Read
<1>9. ASSUME NEW c \in Callers, ReadFails(c) PROVE HeapKept'
  BY <1>9 DEF ReadFails
<1>10. ASSUME NEW c \in Callers, Fill(c) PROVE HeapKept'
  <2>1. Slots(Append(jobs[c], buffer)) = Slots(jobs[c]) \cup {<<"job", Len(jobs[c]) + 1>>}
    <3>1. Len(Append(jobs[c], buffer)) = Len(jobs[c]) + 1 /\ Len(jobs[c]) \in Nat
      OBVIOUS
    <3>2. 1..(Len(jobs[c]) + 1) = (1..Len(jobs[c])) \cup {Len(jobs[c]) + 1}
      BY <3>1
    <3> QED
      BY <3>1, <3>2 DEF Slots
  <2>2. jobs'[c] = Append(jobs[c], buffer) /\ heap'[c] = heap[c] \cup {<<"job", Len(jobs[c]) + 1>>}
    BY <1>10 DEF Fill
  <2> QED
    BY <1>10, <2>1, <2>2 DEF Fill
<1>11. ASSUME NEW c \in Callers, Discard(c) PROVE HeapKept'
  <2>1. heap'[c] = {<<"args", 0>>}
    BY <1>11 DEF Discard, FreeJobs, Slots
  <2> QED
    BY <1>11, <2>1 DEF Discard, FreeJobs
<1>12. ASSUME NEW c \in Callers, CloseFailed(c) PROVE HeapKept'
  BY <1>12 DEF CloseFailed, CloseSession
<1>13. ASSUME NEW c \in Callers, Close(c) PROVE HeapKept'
  BY <1>13 DEF Close, CloseSession
<1>14. ASSUME NEW c \in Callers, Copy(c) PROVE HeapKept'
  BY <1>14 DEF Copy
<1>15. ASSUME NEW c \in Callers, Free(c) PROVE HeapKept'
  <2>1. heap'[c] = {<<"args", 0>>}
    BY <1>15 DEF Free, FreeJobs, Slots
  <2> QED
    BY <1>15, <2>1 DEF Free, FreeJobs
<1>16. ASSUME NEW c \in Callers, Return(c) PROVE HeapKept'
  BY <1>16 DEF Return
<1> QED
  BY <1>1, <1>2, <1>3, <1>4, <1>5, <1>6, <1>7, <1>8,
     <1>9, <1>10, <1>11, <1>12, <1>13, <1>14, <1>15, <1>16 DEF Next

\* Opening marks whoever else is open; no other step opens.
LEMMA StepApart ==
  ASSUME TypeOK, Apart, [Next]_vars
  PROVE  Apart'
<1> USE DEF TypeOK, Apart, Open, vars, library, locals, history, Goto
<1>1. ASSUME UNCHANGED vars PROVE Apart'
  BY <1>1
<1>2. ASSUME NEW c \in Callers, Enter(c) PROVE Apart'
  BY <1>2 DEF Enter
<1>3. ASSUME NEW c \in Callers, OpenFails(c) PROVE Apart'
  BY <1>3 DEF OpenFails
<1>4. ASSUME NEW c \in Callers, OpenSession(c) PROVE Apart'
  BY <1>4 DEF OpenSession
<1>5. ASSUME NEW c \in Callers, CloseEmpty(c) PROVE Apart'
  BY <1>5 DEF CloseEmpty, CloseSession
<1>6. ASSUME NEW c \in Callers, Alloc(c) PROVE Apart'
  BY <1>6 DEF Alloc
<1>7. ASSUME NEW c \in Callers, AllocFails(c) PROVE Apart'
  BY <1>7 DEF AllocFails
<1>8. ASSUME NEW c \in Callers, Read(c) PROVE Apart'
  BY <1>8 DEF Read
<1>9. ASSUME NEW c \in Callers, ReadFails(c) PROVE Apart'
  BY <1>9 DEF ReadFails
<1>10. ASSUME NEW c \in Callers, Fill(c) PROVE Apart'
  BY <1>10 DEF Fill
<1>11. ASSUME NEW c \in Callers, Discard(c) PROVE Apart'
  BY <1>11 DEF Discard, FreeJobs
<1>12. ASSUME NEW c \in Callers, CloseFailed(c) PROVE Apart'
  BY <1>12 DEF CloseFailed, CloseSession
<1>13. ASSUME NEW c \in Callers, Close(c) PROVE Apart'
  BY <1>13 DEF Close, CloseSession
<1>14. ASSUME NEW c \in Callers, Copy(c) PROVE Apart'
  BY <1>14 DEF Copy
<1>15. ASSUME NEW c \in Callers, Free(c) PROVE Apart'
  BY <1>15 DEF Free, FreeJobs
<1>16. ASSUME NEW c \in Callers, Return(c) PROVE Apart'
  BY <1>16 DEF Return
<1> QED
  BY <1>1, <1>2, <1>3, <1>4, <1>5, <1>6, <1>7, <1>8,
     <1>9, <1>10, <1>11, <1>12, <1>13, <1>14, <1>15, <1>16 DEF Next

\* Nobody else moves the session of an undisturbed scan.
LEMMA StepInStep ==
  ASSUME TypeOK, HeapKept, Apart, InStep, [Next]_vars
  PROVE  InStep'
<1> USE DEF TypeOK, Apart, InStep, Open, Session, vars, library, locals, history, Goto
<1>1. ASSUME UNCHANGED vars PROVE InStep'
  BY <1>1
<1>2. ASSUME NEW c \in Callers, Enter(c) PROVE InStep'
  BY <1>2 DEF Enter
<1>3. ASSUME NEW c \in Callers, OpenFails(c) PROVE InStep'
  BY <1>3 DEF OpenFails
<1>4. ASSUME NEW c \in Callers, OpenSession(c) PROVE InStep'
  BY <1>4 DEF OpenSession
<1>5. ASSUME NEW c \in Callers, CloseEmpty(c) PROVE InStep'
  BY <1>5 DEF CloseEmpty, CloseSession
<1>6. ASSUME NEW c \in Callers, Alloc(c) PROVE InStep'
  BY <1>6 DEF Alloc, HeapKept
<1>7. ASSUME NEW c \in Callers, AllocFails(c) PROVE InStep'
  BY <1>7 DEF AllocFails
<1>8. ASSUME NEW c \in Callers, Read(c) PROVE InStep'
  BY <1>8 DEF Read
<1>9. ASSUME NEW c \in Callers, ReadFails(c) PROVE InStep'
  BY <1>9 DEF ReadFails
<1>10. ASSUME NEW c \in Callers, Fill(c) PROVE InStep'
  <2>1. /\ jobs'[c] = Append(jobs[c], buffer)
        /\ Len(jobs'[c]) = Len(jobs[c]) + 1 /\ Len(jobs[c]) \in Nat
    BY <1>10 DEF Fill
  <2>2. ASSUME c \notin disturbed, NEW i \in 1..Len(jobs'[c])
        PROVE  jobs'[c][i] = [scan |-> scan[c], job |-> i]
    <3>1. CASE i = Len(jobs[c]) + 1
      BY <1>10, <2>1, <2>2, <3>1 DEF Fill
    <3>2. CASE i # Len(jobs[c]) + 1
      <4>1. i \in 1..Len(jobs[c]) /\ jobs'[c][i] = jobs[c][i]
        BY <2>1, <3>2
      <4> QED
        BY <1>10, <2>2, <4>1 DEF Fill
    <3> QED
      BY <3>1, <3>2
  <2>3. ASSUME c \notin disturbed, pc'[c] = "read"
        PROVE  session.next = Len(jobs'[c]) + 1
    BY <1>10, <2>1, <2>3 DEF Fill
  <2>4. ASSUME c \notin disturbed, pc'[c] = "close"
        PROVE  Len(jobs'[c]) = count[c]
    BY <1>10, <2>1, <2>4 DEF Fill
  <2> QED
    BY <1>10, <2>2, <2>3, <2>4 DEF Fill
<1>11. ASSUME NEW c \in Callers, Discard(c) PROVE InStep'
  BY <1>11 DEF Discard, FreeJobs
<1>12. ASSUME NEW c \in Callers, CloseFailed(c) PROVE InStep'
  BY <1>12 DEF CloseFailed, CloseSession
<1>13. ASSUME NEW c \in Callers, Close(c) PROVE InStep'
  BY <1>13 DEF Close, CloseSession
<1>14. ASSUME NEW c \in Callers, Copy(c) PROVE InStep'
  BY <1>14 DEF Copy
<1>15. ASSUME NEW c \in Callers, Free(c) PROVE InStep'
  BY <1>15 DEF Free, FreeJobs
<1>16. ASSUME NEW c \in Callers, Return(c) PROVE InStep'
  BY <1>16 DEF Return
<1> QED
  BY <1>1, <1>2, <1>3, <1>4, <1>5, <1>6, <1>7, <1>8,
     <1>9, <1>10, <1>11, <1>12, <1>13, <1>14, <1>15, <1>16 DEF Next

\* An answer holds the records of its own query.
LEMMA StepAnswered ==
  ASSUME TypeOK, InStep, Answered, [Next]_vars
  PROVE  Answered'
<1> USE DEF TypeOK, Answered, NoResult, Failure, Open, vars, library, locals, history, Goto
<1>1. ASSUME UNCHANGED vars PROVE Answered'
  BY <1>1
<1>2. ASSUME NEW c \in Callers, Enter(c) PROVE Answered'
  BY <1>2 DEF Enter
<1>3. ASSUME NEW c \in Callers, OpenFails(c) PROVE Answered'
  BY <1>3 DEF OpenFails
<1>4. ASSUME NEW c \in Callers, OpenSession(c) PROVE Answered'
  <2>1. disturbed \subseteq disturbed'
    BY <1>4 DEF OpenSession
  <2>2. pc'[c] \in {"closeEmpty", "alloc"} /\ result' = result
    BY <1>4 DEF OpenSession
  <2>3. \A d \in Callers \ {c} :
          pc'[d] = pc[d] /\ count'[d] = count[d] /\ scan'[d] = scan[d]
    BY <1>4 DEF OpenSession
  <2>4. result[c] = NoResult
    BY <1>4 DEF OpenSession
  <2>5. ASSUME NEW d \in Callers, d # c
        PROVE  /\ pc'[d] = pc[d] /\ result'[d] = result[d]
               /\ count'[d] = count[d] /\ scan'[d] = scan[d]
    BY <2>2, <2>3, <2>5
  <2> QED
    BY <2>1, <2>2, <2>4, <2>5
<1>5. ASSUME NEW c \in Callers, CloseEmpty(c) PROVE Answered'
  <2>1. ASSUME c \notin disturbed PROVE count[c] = 0
    BY <1>5, <2>1 DEF CloseEmpty, CloseSession, InStep
  <2>2. <<>> = Records(scan[c], 0)
    BY DEF Records
  <2> QED
    BY <1>5, <2>1, <2>2 DEF CloseEmpty, CloseSession
<1>6. ASSUME NEW c \in Callers, Alloc(c) PROVE Answered'
  BY <1>6 DEF Alloc
<1>7. ASSUME NEW c \in Callers, AllocFails(c) PROVE Answered'
  BY <1>7 DEF AllocFails
<1>8. ASSUME NEW c \in Callers, Read(c) PROVE Answered'
  BY <1>8 DEF Read
<1>9. ASSUME NEW c \in Callers, ReadFails(c) PROVE Answered'
  BY <1>9 DEF ReadFails
<1>10. ASSUME NEW c \in Callers, Fill(c) PROVE Answered'
  BY <1>10 DEF Fill
<1>11. ASSUME NEW c \in Callers, Discard(c) PROVE Answered'
  BY <1>11 DEF Discard, FreeJobs
<1>12. ASSUME NEW c \in Callers, CloseFailed(c) PROVE Answered'
  BY <1>12 DEF CloseFailed, CloseSession
<1>13. ASSUME NEW c \in Callers, Close(c) PROVE Answered'
  BY <1>13 DEF Close, CloseSession
<1>14. ASSUME NEW c \in Callers, Copy(c) PROVE Answered'
  <2>1. ASSUME c \notin disturbed
        PROVE  jobs[c] = Records(scan[c], count[c])
    <3>1. jobs[c] = [i \in 1..Len(jobs[c]) |-> jobs[c][i]]
      OBVIOUS
    <3> QED
      BY <1>14, <2>1, <3>1 DEF Copy, InStep, Records
  <2>2. result'[c] = [failed |-> FALSE, jobs |-> jobs[c]]
    BY <1>14 DEF Copy
  <2>3. \A d \in Callers \ {c} : result'[d] = result[d] /\ pc'[d] = pc[d]
    BY <1>14 DEF Copy
  <2>4. pc'[c] = "free" /\ UNCHANGED <<count, scan, disturbed>>
    BY <1>14 DEF Copy
  <2>5. ASSUME NEW d \in Callers, d # c
        PROVE  /\ pc'[d] = pc[d] /\ result'[d] = result[d]
               /\ count'[d] = count[d] /\ scan'[d] = scan[d]
    BY <2>3, <2>4, <2>5
  <2>6. c \notin disturbed =>
          result'[c].jobs = Records(scan'[c], count'[c])
    BY <2>1, <2>2, <2>4
  <2>7. ~result'[c].failed
    BY <2>2
  <2> QED
    BY <2>4, <2>5, <2>6, <2>7
<1>15. ASSUME NEW c \in Callers, Free(c) PROVE Answered'
  BY <1>15 DEF Free, FreeJobs
<1>16. ASSUME NEW c \in Callers, Return(c) PROVE Answered'
  BY <1>16 DEF Return
<1> QED
  BY <1>1, <1>2, <1>3, <1>4, <1>5, <1>6, <1>7, <1>8,
     <1>9, <1>10, <1>11, <1>12, <1>13, <1>14, <1>15, <1>16 DEF Next

\* Adding a member to a finite set adds one to its cardinality.
LEMMA CountOne ==
  ASSUME NEW S, NEW R, NEW c, IsFiniteSet(S), c \notin S, R = S \cup {c}
  PROVE  Cardinality(R) = Cardinality(S) + 1
BY FS_AddElement

\* The callers between lsb_openjobinfo and lsb_closejobinfo.
OpenCallers == {c \in Callers : pc[c] \in Open}

\* Every session opened is closed by whoever opened it.
LEMMA StepSessions ==
  ASSUME TypeOK, SessionsClosed, [Next]_vars
  PROVE  SessionsClosed'
<1>0. /\ SessionsClosed <=> opened = closed + Cardinality(OpenCallers)
      /\ SessionsClosed' <=> opened' = closed' + Cardinality(OpenCallers')
  BY DEF SessionsClosed, OpenCallers
<1>a. IsFiniteSet(OpenCallers) /\ Cardinality(OpenCallers) \in Nat
  BY LsfScanAssumption, FS_Subset, FS_CardinalityType DEF OpenCallers
<1>b. IsFiniteSet(OpenCallers') /\ Cardinality(OpenCallers') \in Nat
  BY LsfScanAssumption, FS_Subset, FS_CardinalityType DEF OpenCallers
<1> USE DEF TypeOK, Open, vars, library, locals, history, Goto
<1>1. ASSUME UNCHANGED vars PROVE SessionsClosed'
  <2>1. OpenCallers' = OpenCallers
    BY <1>1 DEF OpenCallers
  <2> QED
    BY <1>1, <1>0, <2>1
<1>2. ASSUME NEW c \in Callers, Enter(c) PROVE SessionsClosed'
  <2>1. OpenCallers' = OpenCallers
    BY <1>2 DEF Enter, OpenCallers
  <2> QED
    BY <1>2, <1>0, <2>1 DEF Enter
<1>3. ASSUME NEW c \in Callers, OpenFails(c) PROVE SessionsClosed'
  <2>1. OpenCallers' = OpenCallers
    BY <1>3 DEF OpenFails, OpenCallers
  <2> QED
    BY <1>3, <1>0, <2>1 DEF OpenFails
<1>4. ASSUME NEW c \in Callers, OpenSession(c) PROVE SessionsClosed'
  <2>1. c \notin OpenCallers /\ OpenCallers' = OpenCallers \cup {c}
    BY <1>4 DEF OpenSession, OpenCallers
  <2>2. Cardinality(OpenCallers') = Cardinality(OpenCallers) + 1
    BY <1>a, <2>1, CountOne
  <2> QED
    BY <1>4, <1>0, <1>a, <2>2 DEF OpenSession
<1>5. ASSUME NEW c \in Callers, CloseEmpty(c) PROVE SessionsClosed'
  <2>1. c \notin OpenCallers' /\ OpenCallers = OpenCallers' \cup {c}
    BY <1>5 DEF CloseEmpty, CloseSession, OpenCallers
  <2>2. Cardinality(OpenCallers) = Cardinality(OpenCallers') + 1
    BY <1>b, <2>1, CountOne
  <2> QED
    BY <1>5, <1>0, <1>b, <2>2 DEF CloseEmpty, CloseSession
<1>6. ASSUME NEW c \in Callers, Alloc(c) PROVE SessionsClosed'
  <2>1. OpenCallers' = OpenCallers
    BY <1>6 DEF Alloc, OpenCallers
  <2> QED
    BY <1>6, <1>0, <2>1 DEF Alloc
<1>7. ASSUME NEW c \in Callers, AllocFails(c) PROVE SessionsClosed'
  <2>1. OpenCallers' = OpenCallers
    BY <1>7 DEF AllocFails, OpenCallers
  <2> QED
    BY <1>7, <1>0, <2>1 DEF AllocFails
<1>8. ASSUME NEW c \in Callers, Read(c) PROVE SessionsClosed'
  <2>1. OpenCallers' = OpenCallers
    BY <1>8 DEF Read, OpenCallers
  <2> QED
    BY <1>8, <1>0, <2>1 DEF Read
<1>9. ASSUME NEW c \in Callers, ReadFails(c) PROVE SessionsClosed'
  <2>1. OpenCallers' = OpenCallers
    BY <1>9 DEF ReadFails, OpenCallers
  <2> QED
    BY <1>9, <1>0, <2>1 DEF ReadFails
<1>10. ASSUME NEW c \in Callers, Fill(c) PROVE SessionsClosed'
  <2>1. OpenCallers' = OpenCallers
    BY <1>10 DEF Fill, OpenCallers
  <2> QED
    BY <1>10, <1>0, <2>1 DEF Fill
<1>11. ASSUME NEW c \in Callers, Discard(c) PROVE SessionsClosed'
  <2>1. OpenCallers' = OpenCallers
    BY <1>11 DEF Discard, FreeJobs, OpenCallers
  <2> QED
    BY <1>11, <1>0, <2>1 DEF Discard, FreeJobs
<1>12. ASSUME NEW c \in Callers, CloseFailed(c) PROVE SessionsClosed'
  <2>1. c \notin OpenCallers' /\ OpenCallers = OpenCallers' \cup {c}
    BY <1>12 DEF CloseFailed, CloseSession, OpenCallers
  <2>2. Cardinality(OpenCallers) = Cardinality(OpenCallers') + 1
    BY <1>b, <2>1, CountOne
  <2> QED
    BY <1>12, <1>0, <1>b, <2>2 DEF CloseFailed, CloseSession
<1>13. ASSUME NEW c \in Callers, Close(c) PROVE SessionsClosed'
  <2>1. c \notin OpenCallers' /\ OpenCallers = OpenCallers' \cup {c}
    BY <1>13 DEF Close, CloseSession, OpenCallers
  <2>2. Cardinality(OpenCallers) = Cardinality(OpenCallers') + 1
    BY <1>b, <2>1, CountOne
  <2> QED
    BY <1>13, <1>0, <1>b, <2>2 DEF Close, CloseSession
<1>14. ASSUME NEW c \in Callers, Copy(c) PROVE SessionsClosed'
  <2>1. OpenCallers' = OpenCallers
    BY <1>14 DEF Copy, OpenCallers
  <2> QED
    BY <1>14, <1>0, <2>1 DEF Copy
<1>15. ASSUME NEW c \in Callers, Free(c) PROVE SessionsClosed'
  <2>1. OpenCallers' = OpenCallers
    BY <1>15 DEF Free, FreeJobs, OpenCallers
  <2> QED
    BY <1>15, <1>0, <2>1 DEF Free, FreeJobs
<1>16. ASSUME NEW c \in Callers, Return(c) PROVE SessionsClosed'
  <2>1. OpenCallers' = OpenCallers
    BY <1>16 DEF Return, OpenCallers
  <2> QED
    BY <1>16, <1>0, <2>1 DEF Return
<1> QED
  BY <1>1, <1>2, <1>3, <1>4, <1>5, <1>6, <1>7, <1>8,
     <1>9, <1>10, <1>11, <1>12, <1>13, <1>14, <1>15, <1>16 DEF Next

\* Every step keeps it.
LEMMA Inductive == IInv /\ [Next]_vars => IInv'
<1> SUFFICES ASSUME IInv, [Next]_vars PROVE IInv'
  OBVIOUS
<1>1. TypeOK' /\ HeapKept' /\ Apart'
  BY StepTypeOK, StepHeap, StepApart DEF IInv
<1>2. InStep' /\ Answered' /\ SessionsClosed'
  BY StepInStep, StepAnswered, StepSessions DEF IInv
<1> QED
  BY <1>1, <1>2 DEF IInv

\* It holds in every state that is reached.
THEOREM Invariance == Spec => []IInv
BY InitIInv, Inductive, PTL DEF Spec

-----------------------------------------------------------------------------
\* Every variable keeps its type.
THEOREM TypeCorrect == Spec => []TypeOK
<1>1. IInv => TypeOK
  BY DEF IInv
<1> QED
  BY Invariance, <1>1, PTL

\* lsb_closejobinfo is called once for every lsb_openjobinfo that succeeded,
\* on every path of lsf_exporter_collect and with any number of scans at once.
THEOREM EverySessionIsClosed == Spec => []SessionsClosed
<1>1. IInv => SessionsClosed
  BY DEF IInv
<1> QED
  BY Invariance, <1>1, PTL

\* Every path of collect frees all the C memory it took.
THEOREM NoPathLeaks == Spec => []NothingLeaked
<1>1. IInv => NothingLeaked
  BY DEF IInv, HeapKept, NothingLeaked
<1> QED
  BY Invariance, <1>1, PTL

\* The array and the strings the Go code copies from have not been freed.
THEOREM CopyReadsLiveMemory == Spec => []CopiedWhileLive
<1>1. IInv => CopiedWhileLive
  BY DEF IInv, HeapKept, CopiedWhileLive
<1> QED
  BY Invariance, <1>1, PTL

\* A scan whose session nobody else touched returns what its query matched,
\* or nothing.
THEOREM ScansAreWhole == Spec => []ScanIsWhole
<1>1. IInv => ScanIsWhole
  BY DEF IInv, Answered, ScanIsWhole, Records
<1> QED
  BY Invariance, <1>1, PTL

-----------------------------------------------------------------------------
\* No two scans have a session open at the same time.
OneAtATime == \A c, d \in Callers : pc[c] \in Open /\ pc[d] \in Open => c = d

\* Whatever a scan returns without an error is all its query matched.
EveryScanIsWhole ==
  \A c \in Callers : pc[c] = "return" =>
    result[c].jobs = IF result[c].failed THEN <<>> ELSE Records(scan[c], count[c])

\* Only a session that is opened beside another one disturbs a scan.
LEMMA StepUndisturbed ==
  ASSUME IInv, disturbed = {}, [Next]_vars, OneAtATime'
  PROVE  disturbed' = {}
<1>1. CASE UNCHANGED vars
  BY <1>1 DEF vars, history
<1>2. ASSUME NEW c \in Callers, OpenSession(c)
      PROVE  disturbed' = {}
  <2> DEFINE others == {d \in Callers \ {c} : pc[d] \in Open}
  <2>1. pc \in [Callers -> Labels]
    BY DEF IInv, TypeOK
  <2>2. pc' = [pc EXCEPT ![c] = "closeEmpty"] \/ pc' = [pc EXCEPT ![c] = "alloc"]
    BY <1>2 DEF OpenSession, Goto
  <2>3. pc'[c] \in Open /\ \A d \in Callers \ {c} : pc'[d] = pc[d]
    BY <2>1, <2>2 DEF Open
  <2>4. others = {}
    BY <2>3 DEF OneAtATime
  <2> QED
    BY <1>2, <2>4 DEF OpenSession
<1>3. ASSUME NEW c \in Callers, Return(c)
      PROVE  disturbed' = {}
  BY <1>3 DEF Return
<1>4. ASSUME NEW c \in Callers,
             \/ Enter(c) \/ OpenFails(c) \/ CloseEmpty(c) \/ Alloc(c)
             \/ AllocFails(c) \/ Read(c) \/ ReadFails(c) \/ Fill(c) \/ Discard(c)
             \/ CloseFailed(c) \/ Close(c) \/ Copy(c) \/ Free(c)
      PROVE  disturbed' = {}
  BY <1>4 DEF Enter, OpenFails, CloseEmpty, Alloc, AllocFails, Read, ReadFails,
     Fill, Discard, CloseFailed, Close, Copy, Free, history
<1> QED
  BY <1>1, <1>2, <1>3, <1>4 DEF Next

\* All it takes for every scan to be whole is that the background collection and
\* a refresh (lsfSource.Collect and CollectJobs) never have their sessions open
\* together, and no lock of the code sees to that.
THEOREM ScansInTurnAreWhole == Spec /\ []OneAtATime => []EveryScanIsWhole
<1>1. Init => disturbed = {}
  BY DEF Init
<1>2. IInv /\ disturbed = {} /\ [Next]_vars /\ OneAtATime' => (disturbed = {})'
  BY StepUndisturbed
<1>3. ScanIsWhole /\ disturbed = {} => EveryScanIsWhole
  BY DEF ScanIsWhole, EveryScanIsWhole, Records
<1> QED
  BY <1>1, <1>2, <1>3, Invariance, ScansAreWhole, PTL DEF Spec

-----------------------------------------------------------------------------
\* Records of queries from one up to another, in the order LSF gives them.
InOrder(list, from, to) ==
  \A i \in 1..Len(list) :
    /\ list[i].scan \in from..to
    /\ \A k \in 1..i - 1 : Scans!Earlier(list[k], list[i])

\* All records of a list come before a given one.
AllEarlier(list, r) == \A i \in 1..Len(list) : Scans!Earlier(list[i], r)

\* What the library would read next.
Upcoming == [scan |-> session.scan, job |-> session.next]

\* The library has the newest query only, and nobody has read ahead of it.
LibraryAhead ==
  /\ buffer.scan <= opened
  /\ session.left > 0 => session.scan = opened /\ Scans!Earlier(buffer, Upcoming)
  /\ \A c \in Callers : session.left > 0 => AllEarlier(jobs[c], Upcoming)

\* Queries are numbered by their opening, and a caller has a number while it
\* has a query.
ScanNumbered ==
  \A c \in Callers :
    /\ scan[c] <= opened
    /\ pc[c] \in {"idle", "open"} => scan[c] = 0 /\ count[c] = 0
    /\ pc[c] \in Open \cup {"copy", "free"} => scan[c] > 0
    /\ pc[c] = "return" /\ ~result[c].failed => scan[c] > 0
    /\ pc[c] = "idle" => c \notin disturbed
    /\ c \in disturbed => scan[c] > 0

\* What a caller has copied is of its own query or of later ones, in order,
\* and no longer than its array; the record it copies next comes after it.
Ordered(c) ==
  /\ InOrder(jobs[c], scan[c], opened)
  /\ pc[c] = "fill" => buffer.scan >= scan[c] /\ AllEarlier(jobs[c], buffer)
  /\ Len(jobs[c]) <= count[c]
  /\ pc[c] \in {"alloc", "read", "fill"} => Len(jobs[c]) < count[c]
  /\ pc[c] = "free" => result[c] = [failed |-> FALSE, jobs |-> jobs[c]]
\* Every caller has its records in order.
OrderKept == \A c \in Callers : Ordered(c)

-----------------------------------------------------------------------------
\* The order of the records is transitive.
LEMMA EarlierTransitive ==
  ASSUME NEW r \in Record, NEW s \in Record, NEW t \in Record,
         Scans!Earlier(r, s), Scans!Earlier(s, t)
  PROVE  Scans!Earlier(r, t)
BY DEF Scans!Earlier, Record

\* What comes before a record comes before a later one.
LEMMA AllEarlierLater ==
  ASSUME NEW list \in Seq(Record), NEW r \in Record, NEW s \in Record,
         AllEarlier(list, r), Scans!Earlier(r, s)
  PROVE  AllEarlier(list, s)
<1> SUFFICES ASSUME NEW i \in 1..Len(list) PROVE Scans!Earlier(list[i], s)
  BY DEF AllEarlier
<1>1. list[i] \in Record
  OBVIOUS
<1>2. Scans!Earlier(list[i], r)
  BY DEF AllEarlier
<1> QED
  BY <1>1, <1>2, EarlierTransitive

\* A list grows by a record that comes before the given one.
LEMMA AllEarlierGrows ==
  ASSUME NEW list \in Seq(Record), NEW r \in Record, NEW s \in Record,
         AllEarlier(list, s), Scans!Earlier(r, s)
  PROVE  AllEarlier(Append(list, r), s)
<1> SUFFICES ASSUME NEW i \in 1..Len(Append(list, r))
             PROVE  Scans!Earlier(Append(list, r)[i], s)
  BY DEF AllEarlier
<1>1. Len(Append(list, r)) = Len(list) + 1 /\ Len(list) \in Nat
  OBVIOUS
<1>2. CASE i = Len(list) + 1
  <2>1. Append(list, r)[i] = r
    BY <1>2
  <2> QED
    BY <2>1
<1>3. CASE i \in 1..Len(list)
  <2>1. Append(list, r)[i] = list[i]
    BY <1>3
  <2> QED
    BY <1>3, <2>1 DEF AllEarlier
<1> QED
  BY <1>1, <1>2, <1>3

\* A record of a later query comes after all.
LEMMA NewerIsLater ==
  ASSUME NEW list \in Seq(Record), NEW from \in Nat, NEW to \in Nat,
         InOrder(list, from, to), NEW r \in Record, to < r.scan
  PROVE  AllEarlier(list, r)
<1> SUFFICES ASSUME NEW i \in 1..Len(list) PROVE Scans!Earlier(list[i], r)
  BY DEF AllEarlier
<1>1. list[i] \in Record /\ list[i].scan \in from..to
  BY DEF InOrder
<1> QED
  BY <1>1 DEF Scans!Earlier, Record

\* More queries leave a list in order.
LEMMA InOrderWidens ==
  ASSUME NEW list \in Seq(Record), NEW from \in Nat, NEW to \in Nat,
         NEW upto \in Nat, to <= upto, InOrder(list, from, to)
  PROVE  InOrder(list, from, upto)
BY DEF InOrder

\* A record that comes after all keeps the list in order.
LEMMA InOrderGrows ==
  ASSUME NEW list \in Seq(Record), NEW r \in Record, NEW from \in Nat, NEW to \in Nat,
         InOrder(list, from, to), AllEarlier(list, r), r.scan \in from..to
  PROVE  InOrder(Append(list, r), from, to)
<1> DEFINE longer == Append(list, r)
<1>1. /\ Len(longer) = Len(list) + 1 /\ Len(list) \in Nat
      /\ longer[Len(list) + 1] = r
      /\ \A i \in 1..Len(list) : longer[i] = list[i]
  OBVIOUS
<1> HIDE DEF longer
<1> SUFFICES ASSUME NEW i \in 1..Len(longer)
             PROVE  /\ longer[i].scan \in from..to
                    /\ \A k \in 1..i - 1 : Scans!Earlier(longer[k], longer[i])
  BY DEF InOrder, longer
<1>2. CASE i = Len(list) + 1
  BY <1>1, <1>2 DEF AllEarlier
<1>3. CASE i \in 1..Len(list)
  <2>1. \A k \in 1..i - 1 : k \in 1..Len(list)
    BY <1>1, <1>3
  <2> QED
    BY <1>1, <1>3, <2>1 DEF InOrder
<1> QED
  BY <1>1, <1>2, <1>3

\* The empty list.
LEMMA EmptyInOrder ==
  /\ \A from, to : InOrder(<<>>, from, to)
  /\ \A r : AllEarlier(<<>>, r)
BY DEF InOrder, AllEarlier

\* The numbers of the queries.
LEMMA StepNumbered ==
  ASSUME TypeOK, ScanNumbered, [Next]_vars
  PROVE  ScanNumbered'
<1> USE DEF TypeOK, ScanNumbered, Open, NoResult, Failure, vars, library, locals, history, Goto
<1>1. ASSUME UNCHANGED vars PROVE ScanNumbered'
  BY <1>1
<1>2. ASSUME NEW c \in Callers, Enter(c) PROVE ScanNumbered'
  BY <1>2 DEF Enter
<1>3. ASSUME NEW c \in Callers, OpenFails(c) PROVE ScanNumbered'
  BY <1>3 DEF OpenFails
<1>4. ASSUME NEW c \in Callers, OpenSession(c) PROVE ScanNumbered'
  <2>1. /\ opened' = opened + 1 /\ scan' = [scan EXCEPT ![c] = opened + 1]
        /\ pc'[c] \in {"closeEmpty", "alloc"} /\ result' = result
    BY <1>4 DEF OpenSession
  <2>2. \A d \in Callers \ {c} : pc'[d] = pc[d] /\ count'[d] = count[d]
    BY <1>4 DEF OpenSession
  <2>3. ASSUME NEW d \in Callers, d \in disturbed'
        PROVE  d = c \/ d \in disturbed \/ pc[d] \in Open
    BY <1>4, <2>3 DEF OpenSession
  <2>4. ASSUME NEW d \in Callers, d # c
        PROVE  /\ scan'[d] = scan[d] /\ pc'[d] = pc[d] /\ count'[d] = count[d]
               /\ result'[d] = result[d]
    BY <2>1, <2>2, <2>4
  <2> QED
    BY <2>1, <2>3, <2>4
<1>5. ASSUME NEW c \in Callers, CloseEmpty(c) PROVE ScanNumbered'
  BY <1>5 DEF CloseEmpty, CloseSession
<1>6. ASSUME NEW c \in Callers, Alloc(c) PROVE ScanNumbered'
  BY <1>6 DEF Alloc
<1>7. ASSUME NEW c \in Callers, AllocFails(c) PROVE ScanNumbered'
  BY <1>7 DEF AllocFails
<1>8. ASSUME NEW c \in Callers, Read(c) PROVE ScanNumbered'
  BY <1>8 DEF Read
<1>9. ASSUME NEW c \in Callers, ReadFails(c) PROVE ScanNumbered'
  BY <1>9 DEF ReadFails
<1>10. ASSUME NEW c \in Callers, Fill(c) PROVE ScanNumbered'
  BY <1>10 DEF Fill
<1>11. ASSUME NEW c \in Callers, Discard(c) PROVE ScanNumbered'
  BY <1>11 DEF Discard, FreeJobs
<1>12. ASSUME NEW c \in Callers, CloseFailed(c) PROVE ScanNumbered'
  BY <1>12 DEF CloseFailed, CloseSession
<1>13. ASSUME NEW c \in Callers, Close(c) PROVE ScanNumbered'
  BY <1>13 DEF Close, CloseSession
<1>14. ASSUME NEW c \in Callers, Copy(c) PROVE ScanNumbered'
  BY <1>14 DEF Copy
<1>15. ASSUME NEW c \in Callers, Free(c) PROVE ScanNumbered'
  BY <1>15 DEF Free, FreeJobs
<1>16. ASSUME NEW c \in Callers, Return(c) PROVE ScanNumbered'
  BY <1>16 DEF Return
<1> QED
  BY <1>1, <1>2, <1>3, <1>4, <1>5, <1>6, <1>7, <1>8,
     <1>9, <1>10, <1>11, <1>12, <1>13, <1>14, <1>15, <1>16 DEF Next

\* Nobody reads ahead of the library.
LEMMA StepAhead ==
  ASSUME TypeOK, LibraryAhead, OrderKept, [Next]_vars
  PROVE  LibraryAhead'
<1> USE DEF TypeOK, LibraryAhead, NoSession, vars, library, locals, history, Goto
<1>1. ASSUME UNCHANGED vars PROVE LibraryAhead'
  BY <1>1 DEF Upcoming
<1>2. ASSUME NEW c \in Callers, Enter(c) PROVE LibraryAhead'
  BY <1>2 DEF Enter, Upcoming
<1>3. ASSUME NEW c \in Callers, OpenFails(c) PROVE LibraryAhead'
  BY <1>3 DEF OpenFails, Upcoming
<1>4. ASSUME NEW c \in Callers, OpenSession(c) PROVE LibraryAhead'
  <2>1. /\ session'.scan = opened + 1 /\ session'.next = 1 /\ opened' = opened + 1
        /\ buffer' = buffer /\ jobs' = jobs
    BY <1>4 DEF OpenSession
  <2>2. Upcoming' \in Record /\ Upcoming'.scan = opened + 1
    BY <2>1 DEF Upcoming, Record
  <2>3. Scans!Earlier(buffer, Upcoming')
    BY <2>2 DEF Scans!Earlier, Record
  <2>4. ASSUME NEW d \in Callers PROVE AllEarlier(jobs[d], Upcoming')
    <3>1. jobs[d] \in Seq(Record) /\ scan[d] \in Nat /\ opened \in Nat
      OBVIOUS
    <3>2. InOrder(jobs[d], scan[d], opened) /\ opened < Upcoming'.scan
      BY <2>2 DEF OrderKept, Ordered
    <3> QED
      BY <2>2, <3>1, <3>2, NewerIsLater
  <2> QED
    BY <2>1, <2>3, <2>4 DEF Record
<1>5. ASSUME NEW c \in Callers, CloseEmpty(c) PROVE LibraryAhead'
  BY <1>5 DEF CloseEmpty, CloseSession, Upcoming
<1>6. ASSUME NEW c \in Callers, Alloc(c) PROVE LibraryAhead'
  BY <1>6 DEF Alloc, Upcoming
<1>7. ASSUME NEW c \in Callers, AllocFails(c) PROVE LibraryAhead'
  BY <1>7 DEF AllocFails, Upcoming
<1>8. ASSUME NEW c \in Callers, Read(c) PROVE LibraryAhead'
  <2>0. session.scan \in Nat /\ session.next \in Nat /\ session.left \in Nat
    BY DEF Session
  <2>1. /\ buffer' = Upcoming /\ session.left > 0 /\ opened' = opened /\ jobs' = jobs
        /\ session'.scan = session.scan /\ session'.next = session.next + 1
    BY <1>8, <2>0 DEF Read, Upcoming, Session
  <2>2. Upcoming \in Record /\ Upcoming' \in Record
    BY <2>0, <2>1 DEF Upcoming, Record
  <2>3. Scans!Earlier(Upcoming, Upcoming')
    BY <2>0, <2>1 DEF Upcoming, Scans!Earlier
  <2>4. ASSUME NEW d \in Callers PROVE AllEarlier(jobs[d], Upcoming')
    <3>1. jobs[d] \in Seq(Record) /\ AllEarlier(jobs[d], Upcoming)
      BY <2>1
    <3> QED
      BY <2>2, <2>3, <3>1, AllEarlierLater
  <2>5. buffer'.scan = opened
    BY <2>1 DEF Upcoming
  <2> QED
    BY <2>1, <2>3, <2>4, <2>5
<1>9. ASSUME NEW c \in Callers, ReadFails(c) PROVE LibraryAhead'
  BY <1>9 DEF ReadFails, Upcoming
<1>10. ASSUME NEW c \in Callers, Fill(c) PROVE LibraryAhead'
  <2>1. /\ UNCHANGED <<session, buffer, opened>>
        /\ jobs' = [jobs EXCEPT ![c] = Append(jobs[c], buffer)]
    BY <1>10 DEF Fill
  <2>2. Upcoming' = Upcoming /\ Upcoming \in Record
    BY <2>1 DEF Upcoming, Record, Session
  <2>3. ASSUME session.left > 0, NEW d \in Callers
        PROVE  AllEarlier(jobs'[d], Upcoming)
    <3>1. CASE d = c
      <4>1. jobs[c] \in Seq(Record) /\ buffer \in Record
        OBVIOUS
      <4>2. AllEarlier(jobs[c], Upcoming) /\ Scans!Earlier(buffer, Upcoming)
        BY <2>3
      <4>3. AllEarlier(Append(jobs[c], buffer), Upcoming)
        BY <2>2, <4>1, <4>2, AllEarlierGrows
      <4> QED
        BY <2>1, <3>1, <4>3
    <3>2. CASE d # c
      BY <2>1, <2>3, <3>2
    <3> QED
      BY <3>1, <3>2
  <2> QED
    BY <2>1, <2>2, <2>3
<1>11. ASSUME NEW c \in Callers, Discard(c) PROVE LibraryAhead'
  BY <1>11 DEF Discard, FreeJobs, Upcoming
<1>12. ASSUME NEW c \in Callers, CloseFailed(c) PROVE LibraryAhead'
  BY <1>12 DEF CloseFailed, CloseSession, Upcoming
<1>13. ASSUME NEW c \in Callers, Close(c) PROVE LibraryAhead'
  BY <1>13 DEF Close, CloseSession, Upcoming
<1>14. ASSUME NEW c \in Callers, Copy(c) PROVE LibraryAhead'
  BY <1>14 DEF Copy, Upcoming
<1>15. ASSUME NEW c \in Callers, Free(c) PROVE LibraryAhead'
  BY <1>15 DEF Free, FreeJobs, Upcoming
<1>16. ASSUME NEW c \in Callers, Return(c) PROVE LibraryAhead'
  <2>1. /\ UNCHANGED <<session, buffer, opened>>
        /\ jobs' = [jobs EXCEPT ![c] = <<>>]
    BY <1>16 DEF Return
  <2>2. Upcoming' = Upcoming
    BY <2>1 DEF Upcoming
  <2>3. AllEarlier(<<>>, Upcoming)
    BY EmptyInOrder
  <2>4. ASSUME session.left > 0, NEW d \in Callers
        PROVE  AllEarlier(jobs'[d], Upcoming)
    BY <2>1, <2>3, <2>4
  <2> QED
    BY <2>1, <2>2, <2>4
<1> QED
  BY <1>1, <1>2, <1>3, <1>4, <1>5, <1>6, <1>7, <1>8,
     <1>9, <1>10, <1>11, <1>12, <1>13, <1>14, <1>15, <1>16 DEF Next

\* Records are copied in order, and into the array.
LEMMA StepOrder ==
  ASSUME TypeOK, HeapKept, LibraryAhead, ScanNumbered, OrderKept, [Next]_vars
  PROVE  OrderKept'
<1> USE DEF TypeOK, OrderKept, Ordered, Open, vars, library, locals, history, Goto
<1>1. ASSUME UNCHANGED vars PROVE OrderKept'
  BY <1>1
<1>2. ASSUME NEW c \in Callers, Enter(c) PROVE OrderKept'
  BY <1>2 DEF Enter
<1>3. ASSUME NEW c \in Callers, OpenFails(c) PROVE OrderKept'
  BY <1>3 DEF OpenFails
<1>4. ASSUME NEW c \in Callers, OpenSession(c) PROVE OrderKept'
  <2>1. /\ opened' = opened + 1 /\ scan' = [scan EXCEPT ![c] = opened + 1]
        /\ pc'[c] \in {"closeEmpty", "alloc"} /\ UNCHANGED <<buffer, jobs, result>>
        /\ jobs[c] = <<>>
    BY <1>4 DEF OpenSession, HeapKept
  <2>2. count'[c] \in Nat /\ (pc'[c] = "alloc" => count'[c] > 0)
    BY <1>4, LsfScanAssumption DEF OpenSession
  <2>3. \A d \in Callers \ {c} : pc'[d] = pc[d] /\ count'[d] = count[d]
    BY <1>4 DEF OpenSession
  <2>4. Ordered(c)'
    <3>1. InOrder(<<>>, opened + 1, opened + 1)
      BY EmptyInOrder
    <3> QED
      BY <2>1, <2>2, <3>1
  <2>5. ASSUME NEW d \in Callers, d # c PROVE Ordered(d)'
    <3>1. jobs[d] \in Seq(Record) /\ scan[d] \in Nat /\ opened \in Nat /\ opened + 1 \in Nat
          /\ opened <= opened + 1 /\ InOrder(jobs[d], scan[d], opened)
      OBVIOUS
    <3>2. InOrder(jobs[d], scan[d], opened + 1)
      BY <3>1, InOrderWidens
    <3>3. /\ scan'[d] = scan[d] /\ pc'[d] = pc[d] /\ count'[d] = count[d]
          /\ result'[d] = result[d] /\ jobs'[d] = jobs[d]
      BY <2>1, <2>3, <2>5
    <3> QED
      BY <2>1, <3>2, <3>3
  <2> QED
    BY <2>4, <2>5
<1>5. ASSUME NEW c \in Callers, CloseEmpty(c) PROVE OrderKept'
  BY <1>5 DEF CloseEmpty, CloseSession
<1>6. ASSUME NEW c \in Callers, Alloc(c) PROVE OrderKept'
  BY <1>6 DEF Alloc
<1>7. ASSUME NEW c \in Callers, AllocFails(c) PROVE OrderKept'
  BY <1>7 DEF AllocFails
<1>8. ASSUME NEW c \in Callers, Read(c) PROVE OrderKept'
  <2>1. /\ buffer' = Upcoming /\ session.left > 0
        /\ UNCHANGED <<opened, scan, jobs, count, result>>
        /\ pc' = [pc EXCEPT ![c] = "fill"] /\ pc[c] = "read"
    BY <1>8 DEF Read, Upcoming
  <2>2. ASSUME NEW d \in Callers
        PROVE  Upcoming.scan >= scan[d] /\ AllEarlier(jobs[d], Upcoming)
    BY <2>1 DEF LibraryAhead, ScanNumbered, Upcoming
  <2> QED
    BY <2>1, <2>2
<1>9. ASSUME NEW c \in Callers, ReadFails(c) PROVE OrderKept'
  BY <1>9 DEF ReadFails
<1>10. ASSUME NEW c \in Callers, Fill(c) PROVE OrderKept'
  <2>1. /\ UNCHANGED <<opened, scan, buffer, count, result>> /\ pc[c] = "fill"
        /\ jobs' = [jobs EXCEPT ![c] = Append(jobs[c], buffer)]
        /\ pc' = [pc EXCEPT ![c] = IF more[c] = 0 \/ Len(jobs[c]) + 1 = count[c]
                                   THEN "close" ELSE "read"]
    BY <1>10 DEF Fill
  <2>2. jobs[c] \in Seq(Record) /\ buffer \in Record /\ scan[c] \in Nat /\ opened \in Nat
    OBVIOUS
  <2>3. InOrder(jobs[c], scan[c], opened) /\ AllEarlier(jobs[c], buffer)
    BY <2>1
  <2>4. buffer.scan \in scan[c]..opened
    BY <2>1, <2>2 DEF LibraryAhead, Record
  <2>5. InOrder(Append(jobs[c], buffer), scan[c], opened)
    BY <2>2, <2>3, <2>4, InOrderGrows
  <2>6. Len(Append(jobs[c], buffer)) = Len(jobs[c]) + 1 /\ Len(jobs[c]) \in Nat /\ count[c] \in Nat
    BY <2>2
  <2>7. Ordered(c)'
    <3>1. jobs'[c] = Append(jobs[c], buffer)
      BY <2>1
    <3>2. pc'[c] \in {"close", "read"} /\ (pc'[c] = "read" => Len(jobs[c]) + 1 # count[c])
      BY <2>1
    <3>3. Len(jobs[c]) < count[c]
      BY <2>1
    <3>4. scan'[c] = scan[c] /\ opened' = opened /\ count'[c] = count[c]
      BY <2>1
    <3> QED
      BY <2>5, <2>6, <3>1, <3>2, <3>3, <3>4
  <2>8. ASSUME NEW d \in Callers, d # c PROVE Ordered(d)'
    <3>1. /\ scan'[d] = scan[d] /\ pc'[d] = pc[d] /\ count'[d] = count[d]
          /\ result'[d] = result[d] /\ jobs'[d] = jobs[d]
      BY <2>1, <2>8
    <3> QED
      BY <2>1, <3>1
  <2> QED
    BY <2>7, <2>8
<1>11. ASSUME NEW c \in Callers, Discard(c) PROVE OrderKept'
  BY <1>11 DEF Discard, FreeJobs
<1>12. ASSUME NEW c \in Callers, CloseFailed(c) PROVE OrderKept'
  BY <1>12 DEF CloseFailed, CloseSession
<1>13. ASSUME NEW c \in Callers, Close(c) PROVE OrderKept'
  BY <1>13 DEF Close, CloseSession
<1>14. ASSUME NEW c \in Callers, Copy(c) PROVE OrderKept'
  <2>1. /\ UNCHANGED <<buffer, opened, jobs, count, scan>> /\ pc[c] = "copy"
        /\ pc' = [pc EXCEPT ![c] = "free"]
        /\ result' = [result EXCEPT ![c] = [failed |-> FALSE, jobs |-> jobs[c]]]
    BY <1>14 DEF Copy
  <2> QED
    BY <2>1
<1>15. ASSUME NEW c \in Callers, Free(c) PROVE OrderKept'
  BY <1>15 DEF Free, FreeJobs
<1>16. ASSUME NEW c \in Callers, Return(c) PROVE OrderKept'
  <2>1. /\ UNCHANGED <<buffer, opened>>
        /\ pc' = [pc EXCEPT ![c] = "idle"] /\ jobs' = [jobs EXCEPT ![c] = <<>>]
        /\ count' = [count EXCEPT ![c] = 0] /\ scan' = [scan EXCEPT ![c] = 0]
    BY <1>16 DEF Return
  <2>2. result' = [result EXCEPT ![c] = NoResult]
    BY <1>16 DEF Return
  <2>3. Ordered(c)'
    BY <2>1, EmptyInOrder
  <2>4. ASSUME NEW d \in Callers, d # c PROVE Ordered(d)'
    <3>1. /\ scan'[d] = scan[d] /\ pc'[d] = pc[d] /\ count'[d] = count[d]
          /\ result'[d] = result[d] /\ jobs'[d] = jobs[d]
      BY <2>1, <2>2, <2>4
    <3> QED
      BY <2>1, <3>1
  <2> QED
    BY <2>3, <2>4
<1> QED
  BY <1>1, <1>2, <1>3, <1>4, <1>5, <1>6, <1>7, <1>8,
     <1>9, <1>10, <1>11, <1>12, <1>13, <1>14, <1>15, <1>16 DEF Next

-----------------------------------------------------------------------------
(* The scan implements WholeScan: entering begins a scan, lsb_openjobinfo  *)
(* makes its query, each of the four ways into Return answers it, and the  *)
(* steps in between are its own.                                           *)

\* What the refinement needs of a state.
AheadInv == IInv /\ LibraryAhead /\ ScanNumbered /\ OrderKept

\* The strengthened invariant holds from the start.
LEMMA InitAhead == Init => AheadInv
<1> SUFFICES ASSUME Init PROVE AheadInv
  OBVIOUS
<1>1. \A c \in Callers : InOrder(jobs[c], scan[c], opened)
  BY EmptyInOrder DEF Init
<1>2. LibraryAhead /\ ScanNumbered
  BY DEF Init, LibraryAhead, ScanNumbered, NoSession, NoRecord, Open
<1>3. OrderKept
  BY <1>1 DEF Init, OrderKept, Ordered
<1> QED
  BY InitIInv, <1>2, <1>3 DEF AheadInv

\* No step breaks it.
LEMMA InductiveAhead == AheadInv /\ [Next]_vars => AheadInv'
BY Inductive, StepNumbered, StepAhead, StepOrder DEF AheadInv, IInv

\* The first states are the first states of WholeScan.
LEMMA InitScan == Init => Scans!Init
BY DEF Init, Scans!Init, Phase, PhaseOf, Answers, Scans!NoAnswer, NoResult

\* A caller that moves changes phase as its label says; nobody else does.
LEMMA PhaseMoves ==
  ASSUME TypeOK, NEW c \in Callers, NEW label, Goto(c, label)
  PROVE  /\ Phase[c] = PhaseOf(pc[c])
         /\ Phase' = [Phase EXCEPT ![c] = PhaseOf(label)]
BY DEF TypeOK, Goto, Phase

\* Nor is anybody else told anything.
LEMMA AnswersMove ==
  ASSUME TypeOK, NEW c \in Callers, NEW label, Goto(c, label),
         NEW r, result' = [result EXCEPT ![c] = r]
  PROVE  Answers' = [Answers EXCEPT ![c] = IF label = "return" THEN r ELSE NoResult]
BY DEF TypeOK, Goto, Answers

\* What the steps between the query and the answer have in common.
LEMMA OwnStep ==
  ASSUME TypeOK, NEW c \in Callers, NEW label, Goto(c, label),
         pc[c] \notin {"idle", "return"}, label \notin {"idle", "return"},
         \E r : result' = [result EXCEPT ![c] = r],
         UNCHANGED <<scan, count, opened, disturbed>>
  PROVE  UNCHANGED Scans!vars
<1>1. Phase[c] = "scanning" /\ Phase' = [Phase EXCEPT ![c] = "scanning"]
  BY PhaseMoves DEF PhaseOf
<1>2. Phase' = Phase
  BY <1>1 DEF Phase
<1>3. Answers' = [Answers EXCEPT ![c] = NoResult] /\ Answers[c] = NoResult
  BY AnswersMove DEF Answers
<1>4. Answers' = Answers
  BY <1>3 DEF Answers
<1> QED
  BY <1>2, <1>4 DEF Scans!vars

\* And what the steps that answer have in common.
LEMMA AnswerStep ==
  ASSUME TypeOK, NEW c \in Callers, Goto(c, "return"), pc[c] \notin {"idle", "return"},
         NEW r, result' = [result EXCEPT ![c] = r],
         UNCHANGED <<scan, count, opened, disturbed>>,
         r = Failure \/ (scan[c] # 0 /\ ~r.failed /\ Scans!Sound(c, r.jobs))
  PROVE  Scans!Answer(c)
<1>1. Phase[c] = "scanning" /\ Phase' = [Phase EXCEPT ![c] = "answered"]
  BY PhaseMoves DEF PhaseOf
<1>2. Answers' = [Answers EXCEPT ![c] = r]
  BY AnswersMove
<1>3. Answers'[c] = r
  BY <1>2 DEF Answers
<1>4. Answers' = [Answers EXCEPT ![c] = Answers'[c]]
  BY <1>2, <1>3
<1>5. r = Scans!Failure \/ (scan[c] # 0 /\ ~r.failed /\ Scans!Sound(c, r.jobs))
  BY DEF Scans!Failure, Failure
<1> QED
  BY <1>1, <1>3, <1>4, <1>5 DEF Scans!Answer

\* What a caller frees, it may have been told.
LEMMA FreeIsSound ==
  ASSUME AheadInv, NEW c \in Callers, pc[c] = "free"
  PROVE  scan[c] # 0 /\ ~result[c].failed /\ Scans!Sound(c, result[c].jobs)
<1>1. result[c] = [failed |-> FALSE, jobs |-> jobs[c]]
  BY DEF AheadInv, OrderKept, Ordered
<1>2. scan[c] > 0 /\ scan[c] \in Nat
  BY DEF AheadInv, IInv, TypeOK, ScanNumbered
<1>3. ASSUME c \notin disturbed PROVE jobs[c] = Scans!Matched(scan[c], count[c])
  BY <1>1, <1>3 DEF AheadInv, IInv, Answered, Records, Scans!Matched
<1>4. Len(jobs[c]) <= count[c] /\ InOrder(jobs[c], scan[c], opened)
  BY DEF AheadInv, OrderKept, Ordered
<1>5. Scans!Sound(c, jobs[c])
  BY <1>3, <1>4 DEF Scans!Sound, InOrder
<1> QED
  BY <1>1, <1>2, <1>5

\* An empty answer is sound where the query matched nothing, or was met.
LEMMA EmptyIsSound ==
  ASSUME AheadInv, NEW c \in Callers, pc[c] = "closeEmpty"
  PROVE  scan[c] # 0 /\ ~result[c].failed /\ Scans!Sound(c, result[c].jobs)
<1>1. result[c] = [failed |-> FALSE, jobs |-> <<>>]
  BY DEF AheadInv, IInv, Answered, NoResult
<1>2. scan[c] > 0 /\ scan[c] \in Nat /\ count[c] \in Nat
  BY DEF AheadInv, IInv, TypeOK, ScanNumbered, Open
<1>3. ASSUME c \notin disturbed PROVE <<>> = Scans!Matched(scan[c], count[c])
  <2>1. count[c] = 0
    BY <1>3 DEF AheadInv, IInv, InStep
  <2> QED
    BY <2>1 DEF Scans!Matched
<1>4. Scans!Sound(c, <<>>)
  BY <1>2, <1>3 DEF Scans!Sound
<1> QED
  BY <1>1, <1>2, <1>4

\* Every step is one of WholeScan's, or none.
LEMMA StepScan ==
  ASSUME AheadInv, [Next]_vars
  PROVE  [Scans!Next]_Scans!vars
<1>0. TypeOK /\ ScanNumbered
  BY DEF AheadInv, IInv
<1>1. ASSUME UNCHANGED vars PROVE [Scans!Next]_Scans!vars
  BY <1>1 DEF vars, library, locals, history, Scans!vars, Phase, Answers
<1>2. ASSUME NEW c \in Callers, Enter(c) PROVE [Scans!Next]_Scans!vars
  <2>1. Phase[c] = "idle" /\ Phase' = [Phase EXCEPT ![c] = "scanning"]
    BY <1>2, <1>0, PhaseMoves DEF Enter, PhaseOf
  <2>2. Answers' = Answers
    BY <1>0, <1>2 DEF Enter, Goto, Answers, TypeOK
  <2>3. Scans!Begin(c)
    BY <1>2, <2>1, <2>2 DEF Enter, history, Scans!Begin
  <2> QED
    BY <2>3 DEF Scans!Next
<1>3. ASSUME NEW c \in Callers, OpenFails(c) PROVE [Scans!Next]_Scans!vars
  <2>1. Goto(c, "return") /\ pc[c] \notin {"idle", "return"}
    BY <1>3 DEF OpenFails
  <2>2. result' = [result EXCEPT ![c] = Failure]
    BY <1>3 DEF OpenFails
  <2>3. UNCHANGED <<scan, count, opened, disturbed>>
    BY <1>3 DEF OpenFails, history
  <2>4. Scans!Answer(c)
    BY <2>1, <2>2, <2>3, <1>0, AnswerStep
  <2> QED
    BY <2>4 DEF Scans!Next
<1>4. ASSUME NEW c \in Callers, OpenSession(c) PROVE [Scans!Next]_Scans!vars
  <2>1. PICK n \in 0..MaxJobs :
          /\ count' = [count EXCEPT ![c] = n]
          /\ Goto(c, IF n = 0 THEN "closeEmpty" ELSE "alloc")
    BY <1>4 DEF OpenSession
  <2> DEFINE label == IF n = 0 THEN "closeEmpty" ELSE "alloc"
             others == {d \in Callers \ {c} : pc[d] \in Open}
  <2>2. Goto(c, label) /\ PhaseOf(label) = "scanning" /\ label # "return"
    BY <2>1 DEF PhaseOf
  <2>3. pc[c] = "open" /\ PhaseOf("open") = "scanning"
    BY <1>4 DEF OpenSession, PhaseOf
  <2> HIDE DEF label
  <2>4. Phase[c] = "scanning" /\ Phase' = [Phase EXCEPT ![c] = "scanning"]
    BY <2>2, <2>3, <1>0, PhaseMoves
  <2>5. Phase' = Phase
    BY <2>4 DEF Phase
  <2>6. Answers' = Answers
    BY <1>0, <1>4, <2>2, <2>3 DEF OpenSession, Goto, Answers, TypeOK
  <2>7. others \in SUBSET {d \in Callers \ {c} : Phase[d] = "scanning" /\ scan[d] # 0}
    <3> SUFFICES ASSUME NEW d \in Callers, d # c, pc[d] \in Open
                 PROVE  Phase[d] = "scanning" /\ scan[d] # 0
      OBVIOUS
    <3>1. scan[d] > 0 /\ scan[d] \in Nat
      BY <1>0 DEF ScanNumbered, TypeOK
    <3>2. Phase[d] = "scanning"
      BY DEF Phase, PhaseOf, Open
    <3> QED
      BY <3>1, <3>2
  <2>8. disturbed' = IF others = {} THEN disturbed ELSE disturbed \cup others \cup {c}
    BY <1>4 DEF OpenSession
  <2>9. scan[c] = 0 /\ opened' = opened + 1 /\ scan' = [scan EXCEPT ![c] = opened + 1]
    BY <1>0, <1>4 DEF OpenSession, ScanNumbered
  <2> HIDE DEF others
  <2>10. Scans!Query(c)
    BY <2>1, <2>4, <2>5, <2>6, <2>7, <2>8, <2>9 DEF Scans!Query
  <2> QED
    BY <2>10 DEF Scans!Next
<1>5. ASSUME NEW c \in Callers, CloseEmpty(c) PROVE [Scans!Next]_Scans!vars
  <2>0. pc[c] = "closeEmpty" /\ scan[c] # 0 /\ ~result[c].failed
        /\ Scans!Sound(c, result[c].jobs)
    BY <1>5, EmptyIsSound DEF CloseEmpty
  <2>1. Goto(c, "return") /\ pc[c] \notin {"idle", "return"}
    BY <1>5 DEF CloseEmpty, CloseSession
  <2>2. result' = [result EXCEPT ![c] = result[c]]
    BY <1>0, <1>5 DEF CloseEmpty, CloseSession, TypeOK
  <2>3. UNCHANGED <<scan, count, opened, disturbed>>
    BY <1>5 DEF CloseEmpty, CloseSession, history
  <2>4. Scans!Answer(c)
    BY <2>1, <2>2, <2>3, <1>0, AnswerStep, <2>0
  <2> QED
    BY <2>4 DEF Scans!Next
<1>6. ASSUME NEW c \in Callers, Alloc(c) PROVE [Scans!Next]_Scans!vars
  <2>1. Goto(c, "read") /\ pc[c] \notin {"idle", "return"}
    BY <1>6 DEF Alloc
  <2>2. result' = [result EXCEPT ![c] = result[c]]
    BY <1>0, <1>6 DEF Alloc, TypeOK
  <2>3. UNCHANGED <<scan, count, opened, disturbed>>
    BY <1>6 DEF Alloc, history
  <2> QED
    BY <2>1, <2>2, <2>3, <1>0, OwnStep
<1>7. ASSUME NEW c \in Callers, AllocFails(c) PROVE [Scans!Next]_Scans!vars
  <2>1. Goto(c, "closeFailed") /\ pc[c] \notin {"idle", "return"}
    BY <1>7 DEF AllocFails
  <2>2. result' = [result EXCEPT ![c] = result[c]]
    BY <1>0, <1>7 DEF AllocFails, TypeOK
  <2>3. UNCHANGED <<scan, count, opened, disturbed>>
    BY <1>7 DEF AllocFails, history
  <2> QED
    BY <2>1, <2>2, <2>3, <1>0, OwnStep
<1>8. ASSUME NEW c \in Callers, Read(c) PROVE [Scans!Next]_Scans!vars
  <2>1. Goto(c, "fill") /\ pc[c] \notin {"idle", "return"}
    BY <1>8 DEF Read
  <2>2. result' = [result EXCEPT ![c] = result[c]]
    BY <1>0, <1>8 DEF Read, TypeOK
  <2>3. UNCHANGED <<scan, count, opened, disturbed>>
    BY <1>8 DEF Read, history
  <2> QED
    BY <2>1, <2>2, <2>3, <1>0, OwnStep
<1>9. ASSUME NEW c \in Callers, ReadFails(c) PROVE [Scans!Next]_Scans!vars
  <2>1. Goto(c, "discard") /\ pc[c] \notin {"idle", "return"}
    BY <1>9 DEF ReadFails
  <2>2. result' = [result EXCEPT ![c] = result[c]]
    BY <1>0, <1>9 DEF ReadFails, TypeOK
  <2>3. UNCHANGED <<scan, count, opened, disturbed>>
    BY <1>9 DEF ReadFails, history
  <2> QED
    BY <2>1, <2>2, <2>3, <1>0, OwnStep
<1>10. ASSUME NEW c \in Callers, Fill(c) PROVE [Scans!Next]_Scans!vars
  <2>1. PICK label \in {"close", "read"} : Goto(c, label)
    BY <1>10 DEF Fill
  <2>2. pc[c] \notin {"idle", "return"} /\ result' = [result EXCEPT ![c] = result[c]]
    BY <1>0, <1>10 DEF Fill, TypeOK
  <2>3. UNCHANGED <<scan, count, opened, disturbed>>
    BY <1>10 DEF Fill, history
  <2> QED
    BY <2>1, <2>2, <2>3, <1>0, OwnStep
<1>11. ASSUME NEW c \in Callers, Discard(c) PROVE [Scans!Next]_Scans!vars
  <2>1. Goto(c, "closeFailed") /\ pc[c] \notin {"idle", "return"}
    BY <1>11 DEF Discard, FreeJobs
  <2>2. result' = [result EXCEPT ![c] = result[c]]
    BY <1>0, <1>11 DEF Discard, FreeJobs, TypeOK
  <2>3. UNCHANGED <<scan, count, opened, disturbed>>
    BY <1>11 DEF Discard, FreeJobs, history
  <2> QED
    BY <2>1, <2>2, <2>3, <1>0, OwnStep
<1>12. ASSUME NEW c \in Callers, CloseFailed(c) PROVE [Scans!Next]_Scans!vars
  <2>1. Goto(c, "return") /\ pc[c] \notin {"idle", "return"}
    BY <1>12 DEF CloseFailed, CloseSession
  <2>2. result' = [result EXCEPT ![c] = Failure]
    BY <1>12 DEF CloseFailed, CloseSession
  <2>3. UNCHANGED <<scan, count, opened, disturbed>>
    BY <1>12 DEF CloseFailed, CloseSession, history
  <2>4. Scans!Answer(c)
    BY <2>1, <2>2, <2>3, <1>0, AnswerStep
  <2> QED
    BY <2>4 DEF Scans!Next
<1>13. ASSUME NEW c \in Callers, Close(c) PROVE [Scans!Next]_Scans!vars
  <2>1. Goto(c, "copy") /\ pc[c] \notin {"idle", "return"}
    BY <1>13 DEF Close, CloseSession
  <2>2. result' = [result EXCEPT ![c] = result[c]]
    BY <1>0, <1>13 DEF Close, CloseSession, TypeOK
  <2>3. UNCHANGED <<scan, count, opened, disturbed>>
    BY <1>13 DEF Close, CloseSession, history
  <2> QED
    BY <2>1, <2>2, <2>3, <1>0, OwnStep
<1>14. ASSUME NEW c \in Callers, Copy(c) PROVE [Scans!Next]_Scans!vars
  <2>1. Goto(c, "free") /\ pc[c] \notin {"idle", "return"}
    BY <1>14 DEF Copy
  <2>2. result' = [result EXCEPT ![c] = [failed |-> FALSE, jobs |-> jobs[c]]]
    BY <1>14 DEF Copy
  <2>3. UNCHANGED <<scan, count, opened, disturbed>>
    BY <1>14 DEF Copy, history
  <2> QED
    BY <2>1, <2>2, <2>3, <1>0, OwnStep
<1>15. ASSUME NEW c \in Callers, Free(c) PROVE [Scans!Next]_Scans!vars
  <2>0. pc[c] = "free" /\ scan[c] # 0 /\ ~result[c].failed
        /\ Scans!Sound(c, result[c].jobs)
    BY <1>15, FreeIsSound DEF Free
  <2>1. Goto(c, "return") /\ pc[c] \notin {"idle", "return"}
    BY <1>15 DEF Free, FreeJobs
  <2>2. result' = [result EXCEPT ![c] = result[c]]
    BY <1>0, <1>15 DEF Free, FreeJobs, TypeOK
  <2>3. UNCHANGED <<scan, count, opened, disturbed>>
    BY <1>15 DEF Free, FreeJobs, history
  <2>4. Scans!Answer(c)
    BY <2>1, <2>2, <2>3, <1>0, AnswerStep, <2>0
  <2> QED
    BY <2>4 DEF Scans!Next
<1>16. ASSUME NEW c \in Callers, Return(c) PROVE [Scans!Next]_Scans!vars
  <2>1. Goto(c, "idle") /\ pc[c] = "return" /\ result' = [result EXCEPT ![c] = NoResult]
    BY <1>16 DEF Return
  <2>2. Phase[c] = "answered" /\ Phase' = [Phase EXCEPT ![c] = "idle"]
    BY <2>1, <1>0, PhaseMoves DEF PhaseOf
  <2>3. Answers' = [Answers EXCEPT ![c] = NoResult]
    BY <2>1, <1>0, AnswersMove
  <2>4. Scans!Leave(c)
    BY <1>16, <2>2, <2>3 DEF Return, Scans!Leave, Scans!NoAnswer, NoResult
  <2> QED
    BY <2>4 DEF Scans!Next
<1> QED
  BY <1>1, <1>2, <1>3, <1>4, <1>5, <1>6, <1>7, <1>8,
     <1>9, <1>10, <1>11, <1>12, <1>13, <1>14, <1>15, <1>16 DEF Next

\* collect keeps the promise of WholeScan, for any number of callers.
THEOREM LsfScanImplementsWholeScan == Spec => ImplementsWholeScan
BY InitAhead, InductiveAhead, InitScan, StepScan, PTL DEF Spec, Scans!Spec, ImplementsWholeScan
=============================================================================
