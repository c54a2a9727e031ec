------------------------------ MODULE LsfScan ------------------------------
(***************************************************************************)
(* lsfSource.collect and lsf_exporter_collect: a job query opened in the   *)
(* LSF batch library, its records copied into C memory one by one, the     *)
(* session closed, the records copied into Go memory, the C memory freed.  *)
(*                                                                         *)
(* The library is external and is modelled from the calls made to it: it   *)
(* keeps one query session and one record buffer for the whole process,    *)
(* so that a call for one scan is seen by every other.                     *)
(***************************************************************************)
EXTENDS Naturals, Sequences, FiniteSets

CONSTANTS
  Callers,    \* goroutines in lsfSource.collect: the background collection
              \* and, independently of it, a refresh
  MaxJobs,    \* bound: records a query can match
  MaxScans    \* bound: queries opened

ASSUME LsfScanAssumption ==
  IsFiniteSet(Callers) /\ MaxJobs \in Nat /\ MaxScans \in Nat

VARIABLES
  session,   \* library: the query being read, and the records it still holds
  buffer,    \* library: the jobInfoEnt that lsb_readjobinfo points to
  pc,        \* where each caller is
  count,     \* what lsb_openjobinfo returned to it
  more,      \* its local more
  jobs,      \* its array of lsf_exporter_job, up to seen
  heap,      \* the C memory it owns
  result,    \* what collect returns to Go
  \* History: not in the code, read by the properties only.
  opened,    \* lsb_openjobinfo calls that succeeded; a query's number is its rank
  closed,    \* lsb_closejobinfo calls
  scan,      \* the query each caller opened
  disturbed  \* callers whose session was open together with another one

library == <<session, buffer>>
locals  == <<pc, count, more, jobs, heap, result>>
history == <<opened, closed, scan, disturbed>>
vars    == <<library, locals, history>>

-----------------------------------------------------------------------------
Labels == {"idle", "open", "closeEmpty", "alloc", "read", "fill", "discard",
           "closeFailed", "close", "copy", "free", "return"}

\* A job's record: the query that fetched it and its place in the answer.
Record   == [scan : Nat, job : Nat]
NoRecord == [scan |-> 0, job |-> 0]
Session  == [scan : Nat, next : Nat, left : Nat]
NoSession == [scan |-> 0, next |-> 0, left |-> 0]

\* C memory: the error buffer and the query's strings, the array, and the
\* strings of the array's i-th job.
Slots(s)  == {<<"job", i>> : i \in 1..Len(s)}
Blocks    == {"args", "array", "job"} \X Nat

NoResult == [failed |-> FALSE, jobs |-> <<>>]
Failure  == [failed |-> TRUE, jobs |-> <<>>]

\* Between lsb_openjobinfo and lsb_closejobinfo.
Open == {"closeEmpty", "alloc", "read", "fill", "discard", "closeFailed", "close"}

-----------------------------------------------------------------------------
Init ==
  /\ session = NoSession /\ buffer = NoRecord
  /\ pc = [c \in Callers |-> "idle"]
  /\ count = [c \in Callers |-> 0]
  /\ more = [c \in Callers |-> 0]
  /\ jobs = [c \in Callers |-> <<>>]
  /\ heap = [c \in Callers |-> {}]
  /\ result = [c \in Callers |-> NoResult]
  /\ opened = 0 /\ closed = 0
  /\ scan = [c \in Callers |-> 0]
  /\ disturbed = {}

Goto(c, label) == pc' = [pc EXCEPT ![c] = label]

\* Collect() or CollectJobs(true): the arguments become C strings.
Enter(c) ==
  /\ pc[c] = "idle"
  /\ heap' = [heap EXCEPT ![c] = {<<"args", 0>>}]
  /\ Goto(c, "open")
  /\ UNCHANGED <<library, count, more, jobs, result, history>>

OpenFails(c) ==
  /\ pc[c] = "open"
  /\ result' = [result EXCEPT ![c] = Failure]
  /\ Goto(c, "return")
  /\ UNCHANGED <<library, count, more, jobs, heap, history>>

\* lsb_openjobinfo returns the number of records that match.
OpenSession(c) ==
  /\ pc[c] = "open" /\ opened < MaxScans
  /\ opened' = opened + 1
  /\ scan' = [scan EXCEPT ![c] = opened + 1]
  /\ LET others == {d \in Callers \ {c} : pc[d] \in Open}
     IN  disturbed' = IF others = {} THEN disturbed ELSE disturbed \cup others \cup {c}
  /\ \E n \in 0..MaxJobs :
       /\ session' = [scan |-> opened + 1, next |-> 1, left |-> n]
       /\ count' = [count EXCEPT ![c] = n]
       /\ Goto(c, IF n = 0 THEN "closeEmpty" ELSE "alloc")
  /\ UNCHANGED <<buffer, more, jobs, heap, result, closed>>

CloseSession == session' = NoSession /\ closed' = closed + 1

\* Mutant: an empty answer returns without closing the session.
CloseEmptyForgotten(c) ==
  /\ pc[c] = "closeEmpty"
  /\ Goto(c, "return")
  /\ UNCHANGED <<library, count, more, jobs, heap, result, history>>

\* No job matched: success without an array.
CloseEmpty(c) ==
  /\ pc[c] = "closeEmpty"
  /\ CloseSession
  /\ Goto(c, "return")
  /\ UNCHANGED <<buffer, count, more, jobs, heap, result, opened, scan, disturbed>>

Alloc(c) ==
  /\ pc[c] = "alloc"
  /\ heap' = [heap EXCEPT ![c] = @ \cup {<<"array", 0>>}]
  /\ Goto(c, "read")
  /\ UNCHANGED <<library, count, more, jobs, result, history>>

\* calloc returns NULL.
AllocFails(c) ==
  /\ pc[c] = "alloc"
  /\ Goto(c, "closeFailed")
  /\ UNCHANGED <<library, count, more, jobs, heap, result, history>>

\* Mutant: more is off by one.
ReadMiscounts(c) ==
  /\ pc[c] = "read" /\ session.left > 0
  /\ buffer' = [scan |-> session.scan, job |-> session.next]
  /\ session' = [session EXCEPT !.next = @ + 1, !.left = @ - 1]
  /\ more' = [more EXCEPT ![c] = session.left - 2]
  /\ Goto(c, "fill")
  /\ UNCHANGED <<count, jobs, heap, result, history>>

\* lsb_readjobinfo overwrites the buffer and says how many records are left.
Read(c) ==
  /\ pc[c] = "read" /\ session.left > 0
  /\ buffer' = [scan |-> session.scan, job |-> session.next]
  /\ session' = [session EXCEPT !.next = @ + 1, !.left = @ - 1]
  /\ more' = [more EXCEPT ![c] = session.left - 1]
  /\ Goto(c, "fill")
  /\ UNCHANGED <<count, jobs, heap, result, history>>

\* lsb_readjobinfo returns NULL: the connection is lost, or the session is.
ReadFails(c) ==
  /\ pc[c] = "read"
  /\ Goto(c, "discard")
  /\ UNCHANGED <<library, count, more, jobs, heap, result, history>>

\* Mutant: fill_job keeps the library's pointers in place of duplicates, so
\* that every job shows what the buffer holds now.
FillAliasing(c) ==
  /\ pc[c] = "fill"
  /\ LET seen == Len(jobs[c]) + 1
     IN  /\ jobs' = [jobs EXCEPT ![c] = [i \in 1..seen |-> buffer]]
         /\ heap' = [heap EXCEPT ![c] = @ \cup {<<"job", seen>>}]
         /\ Goto(c, IF more[c] = 0 \/ seen = count[c] THEN "close" ELSE "read")
  /\ UNCHANGED <<library, count, more, result, history>>

\* fill_job duplicates what the buffer holds into the next slot; the loop
\* ends with the last record or with the array.
Fill(c) ==
  /\ pc[c] = "fill"
  /\ LET seen == Len(jobs[c]) + 1
     IN  /\ jobs' = [jobs EXCEPT ![c] = Append(@, buffer)]
         /\ heap' = [heap EXCEPT ![c] = @ \cup {<<"job", seen>>}]
         /\ Goto(c, IF more[c] = 0 \/ seen = count[c] THEN "close" ELSE "read")
  /\ UNCHANGED <<library, count, more, result, history>>

FreeJobs(c) == heap' = [heap EXCEPT ![c] = @ \ ({<<"array", 0>>} \cup Slots(jobs[c]))]

\* Mutant: a failed read frees the array but not the strings copied so far.
DiscardArrayOnly(c) ==
  /\ pc[c] = "discard"
  /\ heap' = [heap EXCEPT ![c] = @ \ {<<"array", 0>>}]
  /\ Goto(c, "closeFailed")
  /\ UNCHANGED <<library, count, more, jobs, result, history>>

\* lsf_exporter_free_jobs(jobs, seen) after a failed read.
Discard(c) ==
  /\ pc[c] = "discard"
  /\ FreeJobs(c)
  /\ Goto(c, "closeFailed")
  /\ UNCHANGED <<library, count, more, jobs, result, history>>

CloseFailed(c) ==
  /\ pc[c] = "closeFailed"
  /\ CloseSession
  /\ result' = [result EXCEPT ![c] = Failure]
  /\ Goto(c, "return")
  /\ UNCHANGED <<buffer, count, more, jobs, heap, opened, scan, disturbed>>

\* Mutant: lsf_exporter_free_jobs is called, not deferred.
CloseAndFree(c) ==
  /\ pc[c] = "close"
  /\ CloseSession
  /\ FreeJobs(c)
  /\ Goto(c, "copy")
  /\ UNCHANGED <<buffer, count, more, jobs, result, opened, scan, disturbed>>

Close(c) ==
  /\ pc[c] = "close"
  /\ CloseSession
  /\ Goto(c, "copy")
  /\ UNCHANGED <<buffer, count, more, jobs, heap, result, opened, scan, disturbed>>

\* Every record becomes a Job; only then the deferred free runs.
Copy(c) ==
  /\ pc[c] = "copy"
  /\ result' = [result EXCEPT ![c] = [failed |-> FALSE, jobs |-> jobs[c]]]
  /\ Goto(c, "free")
  /\ UNCHANGED <<library, count, more, jobs, heap, history>>

Free(c) ==
  /\ pc[c] = "free"
  /\ FreeJobs(c)
  /\ Goto(c, "return")
  /\ UNCHANGED <<library, count, more, jobs, result, history>>

\* The deferred frees of the arguments; the locals are gone.
Return(c) ==
  /\ pc[c] = "return"
  /\ heap' = [heap EXCEPT ![c] = @ \ {<<"args", 0>>}]
  /\ count' = [count EXCEPT ![c] = 0]
  /\ more' = [more EXCEPT ![c] = 0]
  /\ jobs' = [jobs EXCEPT ![c] = <<>>]
  /\ result' = [result EXCEPT ![c] = NoResult]
  /\ scan' = [scan EXCEPT ![c] = 0]
  /\ disturbed' = disturbed \ {c}
  /\ Goto(c, "idle")
  /\ UNCHANGED <<library, opened, closed>>

-----------------------------------------------------------------------------
Next == \E c \in Callers :
  \/ Enter(c) \/ OpenFails(c) \/ OpenSession(c) \/ CloseEmpty(c)
  \/ Alloc(c) \/ AllocFails(c) \/ Read(c) \/ ReadFails(c) \/ Fill(c)
  \/ Discard(c) \/ CloseFailed(c) \/ Close(c) \/ Copy(c) \/ Free(c) \/ Return(c)

Spec == Init /\ [][Next]_vars

-----------------------------------------------------------------------------
TypeOK ==
  /\ session \in Session /\ buffer \in Record
  /\ pc \in [Callers -> Labels]
  /\ count \in [Callers -> Nat] /\ more \in [Callers -> Nat]
  /\ jobs \in [Callers -> Seq(Record)]
  /\ heap \in [Callers -> SUBSET Blocks]
  /\ result \in [Callers -> [failed : BOOLEAN, jobs : Seq(Record)]]
  /\ opened \in Nat /\ closed \in Nat
  /\ scan \in [Callers -> Nat] /\ disturbed \in SUBSET Callers

\* README: "lsb_closejobinfo() is called on every lsb_openjobinfo() success
\* path".  A session that was opened and not closed belongs to a scan that is
\* still on its way, whatever failed and however the scans interleave.
SessionsClosed ==
  opened = closed + Cardinality({c \in Callers : pc[c] \in Open})

\* Whichever path a scan takes, it leaves no C memory behind: an error before
\* the array, a failed calloc, a read that fails halfway, a success.
NothingLeaked == \A c \in Callers : pc[c] = "idle" => heap[c] = {}

\* The Go code copies from C memory that is still its own.
CopiedWhileLive ==
  \A c \in Callers : pc[c] = "copy" =>
    {<<"array", 0>>} \cup Slots(jobs[c]) \subseteq heap[c]

\* A scan is all or nothing: it fails and returns no job, or returns exactly
\* the records its own query matched, each once and in order.  This is all
\* the code can promise: the session is the process's, and another scan that
\* opens its own takes it away.
ScanIsWhole ==
  \A c \in Callers : pc[c] = "return" /\ c \notin disturbed =>
    result[c].jobs = IF result[c].failed THEN <<>>
                     ELSE [i \in 1..count[c] |-> [scan |-> scan[c], job |-> i]]

\* How far a caller at a label has come, and what it has been told: collect's
\* results are its caller's once it returns.
PhaseOf(label) == CASE label = "idle"   -> "idle"
                    [] label = "return" -> "answered"
                    [] OTHER            -> "scanning"
Phase   == [c \in Callers |-> PhaseOf(pc[c])]
Answers == [c \in Callers |-> IF pc[c] = "return" THEN result[c] ELSE NoResult]

\* The scan keeps the promise of WholeScan: the calls of the library in between
\* make one query with one answer, and a scan that another one got in the way of
\* still has no record twice, in whatever order the two read and copy.
Scans == INSTANCE WholeScan WITH
           phase   <- Phase,
           query   <- scan,
           size    <- count,
           answer  <- Answers,
           queries <- opened,
           met     <- disturbed
ImplementsWholeScan == Scans!Spec
=============================================================================
