---------------------------- MODULE SourcesProofs ----------------------------
(***************************************************************************)
(* Proofs about Sources: its safety properties for collections of any      *)
(* length, whatever the command, LSF and the timer do.                     *)
(***************************************************************************)
EXTENDS Sources, TLAPS

\* What the collection has merged of the sources asked so far.
Asked == {sources[i] : i \in 1..(pos - 1)}

\* The loop invariant of compositeSource.Collect.
Merged ==
  pos # 0 =>
    /\ \A s \in Asked : returned[s].ready
    /\ errs = {s \in Asked : returned[s].failed}
    /\ out.jobs = UNION {returned[s].data.jobs : s \in Asked}
    /\ out.resources = UNION {returned[s].data.resources : s \in Asked}
    /\ out.cluster = "none" => \A s \in Asked : returned[s].data.cluster = "none"

\* A source is asked only where there is one, and the command is that of an
\* external source which has not returned yet.
InRange ==
  /\ data.ready => pos \in DOMAIN sources
  /\ run # "idle" => At("external")

IInv == TypeOK /\ InRange /\ Merged

-----------------------------------------------------------------------------
\* A source list has one or two names, and none twice.
LEMMA ListShape ==
  ASSUME NEW list \in Configurations
  PROVE  /\ Len(list) \in {1, 2} /\ DOMAIN list = 1..Len(list)
         /\ \A i \in 1..Len(list) : list[i] \in Names
         /\ \A i, j \in 1..Len(list) : list[i] = list[j] => i = j
<1>1. PICK tagged \in BOOLEAN, disabled \in BOOLEAN, hasCommand \in BOOLEAN :
        list = SourceList(tagged, disabled, hasCommand)
  BY DEF Configurations
<1>2. \/ \E n \in Names : list = <<n>>
      \/ \E n \in Names \ {"external"} : list = <<n, "external">>
  BY <1>1 DEF SourceList, Names
<1>3. ASSUME NEW n \in Names, list = <<n>>
      PROVE  Len(list) = 1 /\ DOMAIN list = 1..1 /\ list[1] \in Names
  BY <1>3
<1>4. ASSUME NEW n \in Names \ {"external"}, list = <<n, "external">>
      PROVE  /\ Len(list) = 2 /\ DOMAIN list = 1..2
             /\ list[1] = n /\ list[2] = "external"
  BY <1>4
<1>5. CASE \E n \in Names : list = <<n>>
  BY <1>3, <1>5
<1>6. CASE \E n \in Names \ {"external"} : list = <<n, "external">>
  <2>1. PICK n \in Names \ {"external"} : list = <<n, "external">>
    BY <1>6
  <2>2. Len(list) = 2 /\ DOMAIN list = 1..2 /\ list[1] = n /\ list[2] = "external"
    BY <1>4, <2>1
  <2> QED
    BY <2>2 DEF Names
<1> QED
  BY <1>2, <1>5, <1>6

\* The first states satisfy the invariant.
LEMMA InitIInv == Init => IInv
<1> SUFFICES ASSUME Init PROVE IInv
  OBVIOUS
<1>1. Len(sources) \in {1, 2}
  BY ListShape DEF Init
<1>2. NoData \in Data /\ Pending \in Outcome
  BY DEF NoData, Data, Pending, Outcome
<1>3. returned \in [Names -> Outcome]
  BY <1>2 DEF Init
<1>4. pos \in 0..Len(sources) + 1
  BY <1>1 DEF Init
<1>5. TypeOK
  BY <1>2, <1>3, <1>4 DEF Init, TypeOK
<1> QED
  BY <1>5 DEF Init, IInv, InRange, Merged, Pending

\* What a source can find is data.
LEMMA FoundType == \A name \in Names : Found(name) \subseteq Data
BY DEF Found, Data

\* Every step keeps the types, and merges only what a source has returned.
LEMMA StepTypeOK ==
  ASSUME TypeOK, InRange, [Next]_vars
  PROVE  TypeOK' /\ InRange'
<1>0. /\ Len(sources) \in {1, 2} /\ DOMAIN sources = 1..Len(sources)
      /\ \A i \in DOMAIN sources : sources[i] \in Names
  BY ListShape DEF TypeOK
<1>a. /\ NoData \in Data /\ Pending \in Outcome /\ Failed \in Outcome
      /\ Failed.ready
      /\ \A d \in Data : [ready |-> TRUE, failed |-> FALSE, data |-> d] \in Outcome
  BY DEF NoData, Data, Pending, Failed, Outcome
<1>b. ASSUME NEW outcome \in Outcome, Return(outcome), pos \in DOMAIN sources,
             shell' \in {"none", "running", "exited", "failed", "killed"},
             outcome.ready, run' = "idle",
             helper' \in BOOLEAN, output' \in {"none", "broken", "valid"}
      PROVE  TypeOK' /\ InRange'
  BY <1>b DEF TypeOK, InRange, Return, At
<1> USE DEF TypeOK, InRange, At
<1>1. CASE UNCHANGED vars
  BY <1>1 DEF vars, command
<1>2. CASE Begin
  <2>1. returned' \in [Names -> Outcome]
    BY <1>2, <1>a DEF Begin
  <2> QED
    BY <1>0, <1>a, <1>2, <2>1 DEF Begin, command
<1>3. CASE NextSource
  <2>1. pos \in 1..Len(sources) /\ sources[pos] \in Names
    BY <1>0, <1>3 DEF NextSource
  <2>2. returned' \in [Names -> Outcome]
    BY <1>3, <2>1 DEF NextSource
  <2>3. errs' \in SUBSET Names
    BY <1>3, <2>1 DEF NextSource
  <2>4. Merge(out, data.data) \in Data
    <3>1. data.data \in Data
      BY DEF Outcome
    <3> QED
      BY <3>1 DEF Merge, Data
  <2>5. pos' \in 0..Len(sources) + 1
    BY <1>0, <1>3, <2>1 DEF NextSource
  <2> QED
    BY <1>3, <1>a, <2>2, <2>3, <2>4, <2>5 DEF NextSource, command, Pending
<1>4. CASE Finish
  BY <1>0, <1>4 DEF Finish, command
<1>5. CASE NoCommand
  BY <1>5, <1>a, <1>b DEF NoCommand, At, command
<1>6. CASE StubReturns
  BY <1>6, <1>a, <1>b DEF StubReturns, At, command
<1>7. CASE StartCommand
  BY <1>7 DEF StartCommand
<1>8. CASE WaitReturns
  BY <1>8 DEF WaitReturns, command
<1>9. CASE Decode
  <2>1. PICK outcome \in Outcome : outcome.ready /\ Return(outcome)
    BY <1>9, <1>a, FoundType DEF Decode, Names
  <2> QED
    BY <1>9, <2>1, <1>b DEF Decode
<1>10. CASE NativeReturns
  <2>1. PICK outcome \in Outcome : outcome.ready /\ Return(outcome)
    BY <1>10, <1>a, FoundType DEF NativeReturns, Names
  <2>2. run = "idle"
    BY <1>10 DEF NativeReturns
  <2> QED
    BY <1>10, <2>1, <2>2, <1>b DEF NativeReturns, command
<1>11. CASE StartFails
  BY <1>11, <1>a, <1>b DEF StartFails, At, command
<1>12. CASE Expire
  BY <1>12 DEF Expire
<1>13. CASE Spawn
  BY <1>13 DEF Spawn
<1>14. CASE HelperExits
  BY <1>14 DEF HelperExits
<1>15. CASE Write
  BY <1>15 DEF Write
<1>16. CASE ShellExits
  BY <1>16 DEF ShellExits
<1> QED
  BY <1>1, <1>2, <1>3, <1>4, <1>5, <1>6, <1>7, <1>8, <1>9, <1>10, <1>11, <1>12,
     <1>13, <1>14, <1>15, <1>16 DEF Next, Exporter

\* The loop invariant is about what only Begin, NextSource and Finish change.
LEMMA MergedKept ==
  ASSUME Merged, UNCHANGED <<sources, pos, out, errs, returned>>
  PROVE  Merged'
<1>1. Asked' = Asked
  BY DEF Asked
<1> QED
  BY <1>1 DEF Merged

\* Every step keeps the loop invariant.
LEMMA StepMerged ==
  ASSUME TypeOK, InRange, Merged, [Next]_vars
  PROVE  Merged'
<1>1. CASE UNCHANGED vars
  BY <1>1, MergedKept DEF vars
<1>2. CASE Begin
  <2>1. pos' = 1 /\ Asked' = {}
    BY <1>2 DEF Begin, Asked
  <2>2. errs' = {} /\ out'.jobs = {} /\ out'.resources = {}
    BY <1>2 DEF Begin, NoData
  <2> QED
    BY <2>1, <2>2 DEF Merged
<1>3. CASE NextSource
  <2>1. /\ Len(sources) \in {1, 2} /\ pos \in 1..Len(sources)
        /\ \A i, j \in 1..Len(sources) : sources[i] = sources[j] => i = j
        /\ \A i \in 1..Len(sources) : sources[i] \in Names
    BY <1>3, ListShape DEF NextSource, TypeOK, InRange
  <2> DEFINE new == sources[pos]
  <2>2. pos # 0 /\ pos' = pos + 1 /\ sources' = sources /\ new \in Names
    BY <1>3, <2>1 DEF NextSource
  <2>3. Asked' = Asked \cup {new} /\ new \notin Asked /\ Asked \subseteq Names
    <3>1. 1..(pos' - 1) = (1..(pos - 1)) \cup {pos}
      BY <2>1, <2>2
    <3>2. \A i \in 1..(pos - 1) : i \in 1..Len(sources) /\ i # pos
      BY <2>1
    <3> QED
      BY <2>1, <2>2, <3>1, <3>2 DEF Asked
  <2>4. /\ returned'[new] = data
        /\ \A s \in Asked : returned'[s] = returned[s]
    BY <1>3, <2>2, <2>3 DEF NextSource, TypeOK
  <2>5. /\ data.ready
        /\ errs' = IF data.failed THEN errs \cup {new} ELSE errs
        /\ out'.jobs = out.jobs \cup data.data.jobs
        /\ out'.resources = out.resources \cup data.data.resources
        /\ out'.cluster = IF data.data.cluster = "none" THEN out.cluster
                          ELSE data.data.cluster
    BY <1>3 DEF NextSource, Merge
  <2> HIDE DEF new
  <2>6. \A s \in Asked' : returned'[s].ready
    BY <2>2, <2>3, <2>4, <2>5 DEF Merged
  <2>7. errs' = {s \in Asked' : returned'[s].failed}
    BY <2>2, <2>3, <2>4, <2>5 DEF Merged
  <2>8. /\ out'.jobs = UNION {returned'[s].data.jobs : s \in Asked'}
        /\ out'.resources = UNION {returned'[s].data.resources : s \in Asked'}
    BY <2>2, <2>3, <2>4, <2>5 DEF Merged
  <2>9. out'.cluster = "none" =>
          \A s \in Asked' : returned'[s].data.cluster = "none"
    BY <2>2, <2>3, <2>4, <2>5 DEF Merged
  <2> QED
    BY <2>6, <2>7, <2>8, <2>9 DEF Merged
<1>4. CASE Finish
  BY <1>4 DEF Finish, Merged
<1>5. CASE NoCommand
  BY <1>5, MergedKept DEF NoCommand, Return, command
<1>6. CASE StubReturns
  BY <1>6, MergedKept DEF StubReturns, Return, command
<1>7. CASE StartCommand
  BY <1>7, MergedKept DEF StartCommand
<1>8. CASE WaitReturns
  BY <1>8, MergedKept DEF WaitReturns, command
<1>9. CASE Decode
  BY <1>9, MergedKept DEF Decode, Return
<1>10. CASE NativeReturns
  BY <1>10, MergedKept DEF NativeReturns, Return, command
<1>11. CASE StartFails
  BY <1>11, MergedKept DEF StartFails, Return, command
<1>12. CASE Expire
  BY <1>12, MergedKept DEF Expire
<1>13. CASE Spawn
  BY <1>13, MergedKept DEF Spawn
<1>14. CASE HelperExits
  BY <1>14, MergedKept DEF HelperExits
<1>15. CASE Write
  BY <1>15, MergedKept DEF Write
<1>16. CASE ShellExits
  BY <1>16, MergedKept DEF ShellExits
<1> QED
  BY <1>1, <1>2, <1>3, <1>4, <1>5, <1>6, <1>7, <1>8, <1>9, <1>10, <1>11, <1>12, <1>13, <1>14, <1>15, <1>16
     DEF Next, Exporter

\* Every step keeps it.
LEMMA Inductive == IInv /\ [Next]_vars => IInv'
  BY StepTypeOK, StepMerged DEF IInv

\* It holds in every state that is reached.
THEOREM Invariance == Spec => []IInv
  BY InitIInv, Inductive, PTL DEF Spec

-----------------------------------------------------------------------------
\* Every variable keeps its type.
THEOREM TypeCorrect == Spec => []TypeOK
<1>1. IInv => TypeOK
  BY DEF IInv
<1> QED
  BY Invariance, <1>1, PTL

\* A collection reports every source's error and keeps every other source's
\* data (compositeSource.Collect and mergeData).
THEOREM FailuresCostNoData == Spec => []OthersSurvive
<1>1. IInv => OthersSurvive
  <2> SUFFICES ASSUME IInv, Collected PROVE OthersSurvive
    BY DEF OthersSurvive
  <2>1. Len(sources) \in {1, 2} /\ DOMAIN sources = 1..Len(sources)
    BY ListShape DEF IInv, TypeOK
  <2>2. pos # 0 /\ Asked = {sources[i] : i \in DOMAIN sources}
    BY <2>1 DEF Collected, Asked
  <2> QED
    BY <2>2 DEF IInv, Merged, OthersSurvive
<1> QED
  BY Invariance, <1>1, PTL

-----------------------------------------------------------------------------
\* Outside cmd.Run no process of a command is left that could still write, and
\* between two commands there is no command at all.
NobodyWrites ==
  /\ run # "running" => shell # "running" /\ ~helper
  /\ run = "idle" => shell = "none"

\* Every step keeps it.
LEMMA StepNobodyWrites ==
  ASSUME NobodyWrites, [Next]_vars
  PROVE  NobodyWrites'
<1> USE DEF NobodyWrites
<1>1. CASE UNCHANGED vars
  BY <1>1 DEF vars, command
<1>2. CASE Begin
  BY <1>2 DEF Begin, command
<1>3. CASE NextSource
  BY <1>3 DEF NextSource, command
<1>4. CASE Finish
  BY <1>4 DEF Finish, command
<1>5. CASE NoCommand
  BY <1>5 DEF NoCommand, command
<1>6. CASE StubReturns
  BY <1>6 DEF StubReturns, command
<1>7. CASE StartCommand
  BY <1>7 DEF StartCommand
<1>8. CASE WaitReturns
  BY <1>8 DEF WaitReturns, command
<1>9. CASE Decode
  BY <1>9 DEF Decode
<1>10. CASE NativeReturns
  BY <1>10 DEF NativeReturns, command
<1>11. CASE StartFails
  BY <1>11 DEF StartFails, command
<1>12. CASE Expire
  BY <1>12 DEF Expire
<1>13. CASE Spawn
  BY <1>13 DEF Spawn
<1>14. CASE HelperExits
  BY <1>14 DEF HelperExits
<1>15. CASE Write
  BY <1>15 DEF Write
<1>16. CASE ShellExits
  BY <1>16 DEF ShellExits
<1> QED
  BY <1>1, <1>2, <1>3, <1>4, <1>5, <1>6, <1>7, <1>8, <1>9, <1>10, <1>11, <1>12,
     <1>13, <1>14, <1>15, <1>16 DEF Next, Exporter

\* Whatever the command's processes do, when a collection begins or ends and when
\* the output is decoded, none of them is left (externalSource.Collect).
THEOREM CommandsAreOver == Spec => []NobodyWrites
<1>1. Init => NobodyWrites
  BY DEF Init, NobodyWrites
<1>2. NobodyWrites /\ [Next]_vars => NobodyWrites'
  BY StepNobodyWrites
<1> QED
  BY <1>1, <1>2, PTL DEF Spec

\* A step from the return of cmd.Run is the decoder's.
LEMMA StepFinal ==
  ASSUME TypeOK, InRange, NobodyWrites, Next, run = "waited"
  PROVE  run' = "idle" /\ output' = output /\ ~helper'
<1>1. At("external") /\ ~helper /\ shell # "running"
  BY DEF InRange, NobodyWrites
<1>2. pos # 0 /\ pos # Len(sources) + 1
  BY <1>1, ListShape DEF At, TypeOK
<1>3. CASE Decode
  BY <1>1, <1>3 DEF Decode
<1>4. ~(Begin \/ Finish \/ NextSource)
  BY <1>1, <1>2 DEF Begin, Finish, NextSource, At
<1>5. ~(NoCommand \/ StubReturns \/ NativeReturns)
  BY <1>1 DEF NoCommand, StubReturns, NativeReturns, At
<1>6. ~(StartCommand \/ StartFails \/ WaitReturns \/ Expire)
  BY DEF StartCommand, StartFails, WaitReturns, Expire
<1>7. ~(Spawn \/ HelperExits \/ Write \/ ShellExits)
  BY <1>1 DEF Spawn, HelperExits, Write, ShellExits
<1> QED
  BY <1>3, <1>4, <1>5, <1>6, <1>7 DEF Next, Exporter

\* The decoder judges what the command has left behind, all of it
\* (externalSource.Collect).
THEOREM DecodedOutputIsFinal == Spec => OutputIsFinal
<1> DEFINE Final == run = "waited" => run' = "idle" /\ output' = output /\ ~helper'
<1>1. IInv /\ NobodyWrites /\ [Next]_vars => [Final]_vars
  BY StepFinal DEF IInv
<1>2. OutputIsFinal <=> [][Final]_vars
  BY DEF OutputIsFinal
<1> QED
  BY <1>1, <1>2, Invariance, CommandsAreOver, PTL DEF Spec
=============================================================================
