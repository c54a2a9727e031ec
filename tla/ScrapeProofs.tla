---------------------------- MODULE ScrapeProofs ----------------------------
(***************************************************************************)
(* Proofs about Scrape: its type invariant, what the runtimes of a page    *)
(* are worth, and when two samples of jobs fall into one series, for any   *)
(* jobs, payloads, clocks and number of collections.                       *)
(***************************************************************************)
EXTENDS TextProofs

\* The runs LSF knows of: one at a time for each job, and those that are over
\* in the past.
RunsInOrder ==
  /\ clock \in Nat /\ clock >= SecondTicks
  /\ \A r \in over : 0 < r.start /\ r.start <= r.end /\ r.end <= Second(clock)
  /\ \A r, s \in over : r.job = s.job /\ r.start = s.start => r = s
  /\ \A j \in Jobs :
       /\ lsf[j].start <= Second(clock)
       /\ Running(j) => /\ lsf[j].start > 0 /\ lsf[j].end = 0
                        /\ \A r \in over : r.job = j => r.end < lsf[j].start
       /\ lsf[j].end > 0 => [job |-> j, start |-> lsf[j].start, end |-> lsf[j].end] \in over
       /\ lsf[j].start > 0 /\ lsf[j].end = 0 => Running(j)

\* What a record is good for: it was read between since and until, of an LSF
\* that knows of whole seconds.
Recorded(job, since, until, runs) ==
  /\ job.id \in Jobs /\ job.start \in Nat /\ job.end \in Nat
  /\ job.start <= Second(until)
  /\ job.end > 0 => /\ job.end <= Second(until)
                    /\ [job |-> job.id, start |-> job.start, end |-> job.end] \in runs
  /\ job.end = 0 => \A r \in runs : r.job = job.id /\ r.start = job.start => r.end >= Second(since)

\* A snapshot that is out has been taken in the past, by a scan that has ended.
SnapshotType(s, time) ==
  /\ s.at \in Nat /\ s.took \in Nat /\ s.gap \in Nat /\ s.own \in Nat
  /\ s.own <= Len(s.data.jobs) /\ Len(s.data.jobs) \in Nat
  /\ s.at = 0 => s.own = 0
  /\ s.took + s.gap <= s.at /\ s.at <= time

\* When the collection of a snapshot began.
Since(s) == s.at - s.gap - s.took

\* The records of a snapshot were read while its collection ran.
SnapshotRecorded(s, runs) ==
  \A i \in 1..s.own : Recorded(s.data.jobs[i], Since(s), s.at, runs)

\* The jobs read so far are LSF's as they were since the scan began.
JobsRecorded ==
  /\ began + duration <= clock
  /\ jobs \in Seq(ToSet(jobs))
  /\ phase # "idle" => \A i \in 1..Len(jobs) : Recorded(jobs[i], began, clock, over)

\* A page is made of one snapshot, with the age it had when the page was begun.
ViewAged ==
  /\ scrape = "idle" => view = NoView
  /\ scrape # "idle" => /\ view.snapshot.at <= aged /\ aged <= clock
                        /\ view.snapshot.at > 0 => view.age = aged - view.snapshot.at
  /\ scrape = "written" => aged <= written /\ written <= clock

\* What every step keeps of the recorded times.
Recording ==
  /\ RunsInOrder /\ JobsRecorded
  /\ SnapshotType(snapshot, clock) /\ SnapshotRecorded(snapshot, over)
  /\ SnapshotType(view.snapshot, clock) /\ SnapshotRecorded(view.snapshot, over)
  /\ ViewAged

\* The inductive invariant.
IInv == TypeOK /\ Recording

-----------------------------------------------------------------------------
\* The second an instant lies in begins then or before, by less than a second.
LEMMA SecondBounds ==
  ASSUME NEW t \in Int
  PROVE  /\ Second(t) \in Int
         /\ Second(t) <= t
         /\ t - Second(t) <= SecondTicks - 1
         /\ t >= 0 => Second(t) >= 0
         /\ t >= SecondTicks => Second(t) > 0
<1>1. t >= 0 => t % SecondTicks <= t
  BY SecondTicksAssumption
<1> QED
  BY <1>1, SecondTicksAssumption DEF Second

\* An instant that is not before another is not in a second before it.
LEMMA SecondSteps ==
  ASSUME NEW s \in Int, NEW t \in Int, s <= t
  PROVE  Second(s) <= Second(t)
<1> DEFINE p == s \div SecondTicks
           q == t \div SecondTicks
<1>1. p \in Int /\ q \in Int /\ SecondTicks \in Nat \ {0}
  BY SecondTicksAssumption
<1>2. s = SecondTicks * p + (s % SecondTicks) /\ t = SecondTicks * q + (t % SecondTicks)
  BY <1>1
<1>3. s % SecondTicks \in 0..SecondTicks - 1 /\ t % SecondTicks \in 0..SecondTicks - 1
  BY <1>1
<1> HIDE DEF p, q
<1>4. p <= q
  <2>1. SUFFICES ASSUME p >= q + 1 PROVE FALSE
    BY <1>1
  <2>2. SecondTicks * p >= SecondTicks * (q + 1)
    BY <1>1, <2>1
  <2>3. SecondTicks * (q + 1) = SecondTicks * q + SecondTicks
    BY <1>1
  <2> DEFINE a == SecondTicks * p
             b == SecondTicks * q
             c == SecondTicks * (q + 1)
             d == s % SecondTicks
             e == t % SecondTicks
  <2>4. a \in Int /\ b \in Int /\ c \in Int
    BY <1>1
  <2>5. s = a + d /\ t = b + e /\ a >= c /\ c = b + SecondTicks /\ d \in 0..SecondTicks - 1
        /\ e \in 0..SecondTicks - 1
    BY <1>2, <1>3, <2>2, <2>3
  <2> HIDE DEF a, b, c, d, e
  <2> QED
    BY <1>1, <2>4, <2>5
<1>5. SecondTicks * p <= SecondTicks * q
  BY <1>1, <1>4
<1>6. Second(s) = SecondTicks * p /\ Second(t) = SecondTicks * q
  <2>1. SecondTicks * p \in Int /\ SecondTicks * q \in Int
    BY <1>1
  <2> QED
    BY <1>1, <1>2, <1>3, <2>1 DEF Second
<1> QED
  BY <1>5, <1>6

\* The jobs of another source's payload are a sequence.
LEMMA PayloadJobs ==
  ASSUME NEW payload \in Payloads
  PROVE  payload.jobs \in Seq(ToSet(payload.jobs))
BY ScrapeAssumption DEF DataType, Texts, IsSeq

\* The state before the first collection.
LEMMA NothingYet ==
  /\ NoSnapshot.at = 0 /\ NoSnapshot.took = 0 /\ NoSnapshot.gap = 0 /\ NoSnapshot.own = 0
  /\ NoSnapshot.data.jobs = <<>> /\ Len(<<>>) = 0
  /\ NoView.snapshot = NoSnapshot /\ NoView.age = 0
BY DEF NoSnapshot, NoData, NoView

\* A job that waits has no times.
LEMMA WaitingType ==
  /\ Waiting \in Life /\ Waiting.start = 0 /\ Waiting.end = 0 /\ Waiting.bits = {"PEND"}
BY DEF Waiting, Life

\* The first states satisfy the invariant.
LEMMA InitIInv == Init => IInv
<1> SUFFICES ASSUME Init PROVE IInv
  OBVIOUS
<1>1. lsf \in [Jobs -> Life]
  BY WaitingType DEF Init
<1>2. TypeOK
  BY <1>1, NothingYet, SecondTicksAssumption DEF Init, TypeOK
<1>3. RunsInOrder
  <2>1. clock = SecondTicks /\ Second(clock) >= 0
    BY SecondTicksAssumption, SecondBounds DEF Init
  <2> QED
    BY <2>1, SecondTicksAssumption, WaitingType, {"PEND"} # {"RUN"} DEF Init, RunsInOrder, Running
<1>4. JobsRecorded
  <2>1. <<>> \in Seq(ToSet(<<>>))
    OBVIOUS
  <2> QED
    BY <2>1, SecondTicksAssumption DEF Init, JobsRecorded
<1>5. SnapshotType(snapshot, clock) /\ SnapshotRecorded(snapshot, over)
  BY NothingYet, SecondTicksAssumption DEF Init, SnapshotType, SnapshotRecorded
<1>6. SnapshotType(view.snapshot, clock) /\ SnapshotRecorded(view.snapshot, over)
  BY <1>5, NothingYet DEF Init
<1> QED
  BY <1>2, <1>3, <1>4, <1>5, <1>6 DEF Init, IInv, Recording, ViewAged

-----------------------------------------------------------------------------
\* Time passes, and no run ends but now.
Later ==
  /\ clock' \in Nat /\ clock <= clock'
  /\ over \subseteq over' /\ \A r \in over' \ over : r.end = Second(clock)

\* A record stays good.
LEMMA RecordKept ==
  ASSUME Later, clock \in Nat, NEW job, NEW since \in Int, NEW until \in Int, NEW later \in Int,
         Recorded(job, since, until, over), until <= later, since <= clock
  PROVE  Recorded(job, since, later, over')
<1>1. ASSUME job.end = 0, NEW r \in over', r.job = job.id, r.start = job.start
      PROVE  r.end >= Second(since)
  <2>1. CASE r \in over
    BY <1>1, <2>1 DEF Recorded
  <2>2. CASE r \notin over
    <3>1. r.end = Second(clock)
      BY <1>1, <2>2 DEF Later
    <3>2. Second(since) <= Second(clock) /\ Second(since) \in Int /\ Second(clock) \in Int
      BY SecondBounds, SecondSteps
    <3> QED
      BY <3>1, <3>2
  <2> QED
    BY <2>1, <2>2
<1>2. Second(until) <= Second(later) /\ Second(until) \in Int /\ Second(later) \in Int
  BY SecondBounds, SecondSteps
<1> QED
  BY <1>1, <1>2 DEF Recorded, Later

\* Time that passes and jobs that move on leave a snapshot true.
LEMMA SnapshotKept ==
  ASSUME Later, clock \in Nat, NEW s, SnapshotType(s, clock), SnapshotRecorded(s, over)
  PROVE  SnapshotType(s, clock') /\ SnapshotRecorded(s, over')
<1>1. SnapshotType(s, clock')
  BY DEF SnapshotType, Later
<1>2. Since(s) \in Int /\ s.at \in Int /\ Since(s) <= clock /\ s.at <= s.at
  BY DEF SnapshotType, Since
<1>3. ASSUME NEW i \in 1..s.own
      PROVE  Recorded(s.data.jobs[i], Since(s), s.at, over')
  <2>1. Recorded(s.data.jobs[i], Since(s), s.at, over)
    BY <1>3 DEF SnapshotRecorded
  <2> QED
    BY <1>2, <2>1, RecordKept
<1> QED
  BY <1>1, <1>3 DEF SnapshotRecorded

\* The same for the jobs read so far,
LEMMA JobsKept ==
  ASSUME IInv, Later, UNCHANGED collection
  PROVE  JobsRecorded'
<1>0. /\ began \in Nat /\ duration \in Nat /\ clock \in Int /\ clock' \in Int
      /\ clock \in Nat /\ clock <= clock'
  BY DEF IInv, TypeOK, Later
<1>1. ASSUME phase # "idle", NEW i \in 1..Len(jobs)
      PROVE  Recorded(jobs[i], began, clock', over')
  <2>1. Recorded(jobs[i], began, clock, over) /\ began <= clock
    BY <1>0, <1>1 DEF IInv, Recording, JobsRecorded
  <2> QED
    BY <1>0, <2>1, RecordKept
<1> QED
  BY <1>0, <1>1 DEF IInv, Recording, JobsRecorded, collection

\* for the snapshot that is out,
LEMMA SnapshotStays ==
  ASSUME IInv, Later, UNCHANGED snapshot
  PROVE  SnapshotType(snapshot, clock)' /\ SnapshotRecorded(snapshot, over)'
<1>1. SnapshotType(snapshot, clock) /\ SnapshotRecorded(snapshot, over) /\ clock \in Nat
  BY DEF IInv, Recording, TypeOK
<1>2. SnapshotType(snapshot, clock') /\ SnapshotRecorded(snapshot, over')
  BY <1>1, SnapshotKept
<1> QED
  BY <1>2

\* and for the one of the page.
LEMMA PageStays ==
  ASSUME IInv, Later, UNCHANGED page
  PROVE  SnapshotType(view.snapshot, clock)' /\ SnapshotRecorded(view.snapshot, over)' /\ ViewAged'
<1>1. /\ SnapshotType(view.snapshot, clock) /\ SnapshotRecorded(view.snapshot, over)
      /\ clock \in Nat
  BY DEF IInv, Recording, TypeOK
<1>2. SnapshotType(view.snapshot, clock') /\ SnapshotRecorded(view.snapshot, over')
  BY <1>1, SnapshotKept
<1>3. view' = view
  BY DEF page
<1>4. SnapshotType(view.snapshot, clock)' /\ SnapshotRecorded(view.snapshot, over)'
  BY <1>2, <1>3
<1>5. ViewAged'
  BY <1>1 DEF IInv, Recording, ViewAged, page, Later, TypeOK, SnapshotType
<1> QED
  BY <1>4, <1>5

-----------------------------------------------------------------------------
\* The clock may tick.
LEMMA StepTick == IInv /\ Tick => IInv'
<1> SUFFICES ASSUME IInv, Tick PROVE IInv'
  OBVIOUS
<1>0. Later /\ UNCHANGED <<collection, snapshot, page, ahead, cluster>>
  BY DEF IInv, TypeOK, Tick, Later, cluster
<1>1. TypeOK'
  BY <1>0 DEF IInv, TypeOK, Tick, cluster, collection, page
<1>2. RunsInOrder'
  <2>1. lsf' = lsf /\ over' = over
    BY <1>0 DEF cluster
  <2>2. /\ RunsInOrder /\ clock \in Nat /\ clock' = clock + 1
        /\ lsf \in [Jobs -> Life] /\ over \in SUBSET Run
    BY DEF IInv, TypeOK, Recording, Tick
  <2>3. \A j \in Jobs : lsf[j].start \in Nat
    BY <2>2 DEF Life
  <2>6. Second(clock) <= Second(clock') /\ Second(clock) \in Int /\ Second(clock') \in Int
    BY <2>2, SecondBounds, SecondSteps
  <2>7. clock' >= SecondTicks
    BY <2>2, SecondTicksAssumption DEF RunsInOrder
  <2>4. \A r \in over : r.end \in Nat
    BY <2>2 DEF Run
  <2>5. \A j \in Jobs : Running(j)' <=> Running(j)
    BY <2>1 DEF Running
  <2> QED
    BY <2>1, <2>2, <2>3, <2>4, <2>5, <2>6, <2>7 DEF RunsInOrder
<1> QED
  BY <1>0, <1>1, <1>2, JobsKept, SnapshotStays, PageStays DEF IInv, Recording

\* What an action of LSF leaves alone.
LEMMA ClusterSteps ==
  ASSUME IInv, UNCHANGED <<clock, ahead, collection, snapshot, page>>,
         lsf' \in [Jobs -> Life], over' \in SUBSET Run, RunsInOrder',
         over \subseteq over', \A r \in over' \ over : r.end = Second(clock)
  PROVE  IInv'
<1>0. Later
  BY DEF IInv, TypeOK, Later
<1>1. TypeOK'
  BY DEF IInv, TypeOK, collection, page
<1> QED
  BY <1>0, <1>1, JobsKept, SnapshotStays, PageStays DEF IInv, Recording

\* LSF's second is one of its own.
LEMMA LsfSecond == IInv => Second(clock) \in Nat \ {0} /\ Second(clock) <= clock
BY SecondBounds DEF IInv, TypeOK, Recording, RunsInOrder

\* LSF may dispatch a job,
LEMMA StepDispatch == ASSUME IInv, NEW j \in Jobs, Dispatch(j) PROVE IInv'
<1>1. PICK hosts \in HostLists[j], u \in Usage :
        lsf' = [lsf EXCEPT ![j] =
                  [bits |-> {"RUN"}, start |-> Second(clock), end |-> 0, exit |-> 0, hosts |-> hosts,
                   cpu |-> u.cpu, maxMem |-> u.maxMem, swap |-> u.swap]]
  BY DEF Dispatch
<1> DEFINE life == [bits |-> {"RUN"}, start |-> Second(clock), end |-> 0, exit |-> 0, hosts |-> hosts,
                   cpu |-> u.cpu, maxMem |-> u.maxMem, swap |-> u.swap]
<1>2. /\ life.bits = {"RUN"} /\ life.start = Second(clock) /\ life.end = 0
  OBVIOUS
<1>3. life \in Life
  <2>2. clock \in Nat /\ Second(clock) \in Nat \ {0}
    BY LsfSecond DEF IInv, TypeOK
  <2>3. hosts \in UNION {HostLists[k] : k \in Jobs}
    OBVIOUS
  <2> QED
    BY <2>2, <2>3 DEF Life
<1> HIDE DEF life
<1>4. /\ lsf \in [Jobs -> Life] /\ over \in SUBSET Run /\ RunsInOrder
      /\ clock \in Nat /\ Second(clock) \in Nat \ {0}
  BY LsfSecond DEF IInv, TypeOK, Recording
<1>5. lsf' = [lsf EXCEPT ![j] = life]
  BY <1>1 DEF life
<1>6. lsf' \in [Jobs -> Life]
  BY <1>3, <1>4, <1>5
<1>7. lsf'[j] = life /\ \A k \in Jobs \ {j} : lsf'[k] = lsf[k]
  BY <1>4, <1>5
<1>8. clock' = clock /\ over' = over /\ \A r \in over : r.job = j => r.end < Second(clock)
  BY DEF Dispatch
<1>9. RunsInOrder'
  BY <1>2, <1>4, <1>7, <1>8 DEF RunsInOrder, Running
<1> QED
  BY <1>4, <1>6, <1>8, <1>9, ClusterSteps DEF Dispatch

\* The run that is over is one more run, and the only one with its start.
LEMMA OneMoreRun ==
  ASSUME IInv, NEW j \in Jobs, Running(j), RunOver(j)
  PROVE  /\ over' \in SUBSET Run /\ over \subseteq over'
         /\ \A r \in over' \ over : r.end = Second(clock)
         /\ [job |-> j, start |-> lsf[j].start, end |-> Second(clock)] \in over'
         /\ \A r \in over' : 0 < r.start /\ r.start <= r.end /\ r.end <= Second(clock)
         /\ \A r, s \in over' : r.job = s.job /\ r.start = s.start => r = s
<1> DEFINE run == [job |-> j, start |-> lsf[j].start, end |-> Second(clock)]
<1>1. lsf[j] \in Life /\ clock \in Nat /\ Second(clock) \in Nat \ {0} /\ over \in SUBSET Run
  BY LsfSecond DEF IInv, TypeOK
<1>2. lsf[j].start \in Nat
  BY <1>1 DEF Life
<1>3. run \in Run /\ run.job = j /\ run.start = lsf[j].start /\ run.end = Second(clock)
  BY <1>1, <1>2 DEF Run
<1>4. over' = over \cup {run}
  BY DEF RunOver
<1>5. /\ lsf[j].start > 0 /\ lsf[j].start <= Second(clock)
      /\ \A r \in over : r.job = j => r.end < lsf[j].start
      /\ \A r \in over : 0 < r.start /\ r.start <= r.end /\ r.end <= Second(clock)
      /\ \A r, s \in over : r.job = s.job /\ r.start = s.start => r = s
  BY DEF IInv, Recording, RunsInOrder
<1> HIDE DEF run
<1>6. \A r \in over : r \in Run /\ r.start \in Nat /\ r.end \in Nat
  BY <1>1 DEF Run
<1>7. \A r \in over : r.job = j => r.start # run.start
  BY <1>2, <1>3, <1>5, <1>6
<1> QED
  <2>1. \A r, s \in over' : r.job = s.job /\ r.start = s.start => r = s
    BY <1>3, <1>4, <1>5, <1>7
  <2>2. \A r \in over' : 0 < r.start /\ r.start <= r.end /\ r.end <= Second(clock)
    BY <1>1, <1>2, <1>3, <1>4, <1>5
  <2>3. run \in over'
    BY <1>4
  <2> QED
    BY <1>1, <1>3, <1>4, <2>1, <2>2, <2>3 DEF run

\* end it,
LEMMA StepFinish == ASSUME IInv, NEW j \in Jobs, Finish(j) PROVE IInv'
<1>1. PICK bits \in {{"DONE", "PDONE"}, {"EXIT"}} :
        lsf' = [lsf EXCEPT ![j].bits = bits, ![j].end = Second(clock),
                           ![j].exit = IF bits = {"EXIT"} THEN 1 ELSE 0]
  BY DEF Finish
<1>2. /\ lsf \in [Jobs -> Life] /\ RunsInOrder
      /\ clock \in Nat /\ Second(clock) \in Nat \ {0} /\ Running(j)
  BY LsfSecond DEF IInv, TypeOK, Recording, Finish
<1> DEFINE life == [lsf[j] EXCEPT !.bits = bits, !.end = Second(clock),
                                  !.exit = IF bits = {"EXIT"} THEN 1 ELSE 0]
<1>3. lsf' = [lsf EXCEPT ![j] = life]
  BY <1>1
<1>4. lsf[j] \in Life
  BY <1>2
<1>5. /\ life \in Life /\ life.bits = bits /\ life.end = Second(clock)
      /\ life.start = lsf[j].start
  BY <1>2, <1>4 DEF Life
<1> HIDE DEF life
<1>6. lsf' \in [Jobs -> Life]
  BY <1>2, <1>3, <1>5
<1>7. lsf'[j] = life /\ \A k \in Jobs \ {j} : lsf'[k] = lsf[k]
  BY <1>2, <1>3
<1>8. bits # {"RUN"}
  OBVIOUS
<1>9. RunOver(j) /\ clock' = clock /\ over \subseteq over'
  BY <1>2, OneMoreRun DEF Finish
<1>10. RunsInOrder'
  <2>1. /\ [job |-> j, start |-> lsf[j].start, end |-> Second(clock)] \in over'
        /\ \A r \in over' : 0 < r.start /\ r.start <= r.end /\ r.end <= Second(clock)
        /\ \A r, s \in over' : r.job = s.job /\ r.start = s.start => r = s
    BY <1>2, <1>9, OneMoreRun
  <2>2. \A r \in over' \ over : r.job = j
    BY <1>9 DEF RunOver
  <2>3. ASSUME NEW k \in Jobs
        PROVE  /\ lsf'[k].start <= Second(clock')
               /\ Running(k)' => /\ lsf'[k].start > 0 /\ lsf'[k].end = 0
                                 /\ \A r \in over' : r.job = k => r.end < lsf'[k].start
               /\ lsf'[k].end > 0 =>
                    [job |-> k, start |-> lsf'[k].start, end |-> lsf'[k].end] \in over'
               /\ lsf'[k].start > 0 /\ lsf'[k].end = 0 => Running(k)'
    <3>1. CASE k = j
      <4>1. lsf[j].start <= Second(clock)
        BY <1>2 DEF RunsInOrder
      <4>2. Second(clock) > 0
        BY <1>2
      <4>3. ~Running(j)'
        BY <1>5, <1>7, <1>8 DEF Running
      <4>4. lsf'[j].start <= Second(clock') /\ lsf'[j].end > 0 /\ lsf'[j].end = Second(clock)
        BY <1>5, <1>7, <1>9, <4>1, <4>2
      <4>5. [job |-> j, start |-> lsf'[j].start, end |-> lsf'[j].end] \in over'
        BY <1>5, <1>7, <2>1
      <4> QED
        BY <3>1, <4>3, <4>4, <4>5, <1>2
    <3>2. CASE k # j
      BY <1>2, <1>7, <1>9, <2>2, <3>2 DEF RunsInOrder, Running
    <3> QED
      BY <3>1, <3>2
  <2> QED
    BY <1>2, <1>9, <2>1, <2>3 DEF RunsInOrder
<1> QED
  BY <1>2, <1>6, <1>9, <1>10, OneMoreRun, ClusterSteps DEF Finish

\* or requeue it.
LEMMA StepRequeue == ASSUME IInv, NEW j \in Jobs, Requeue(j) PROVE IInv'
<1>1. lsf' = [lsf EXCEPT ![j] = Waiting]
  BY DEF Requeue
<1>2. /\ lsf \in [Jobs -> Life] /\ RunsInOrder
      /\ clock \in Nat /\ Second(clock) \in Nat \ {0} /\ Running(j)
  BY LsfSecond DEF IInv, TypeOK, Recording, Requeue
<1>3. lsf' \in [Jobs -> Life]
  BY <1>1, <1>2, WaitingType
<1>4. lsf'[j] = Waiting /\ \A k \in Jobs \ {j} : lsf'[k] = lsf[k]
  BY <1>1, <1>2
<1>5. RunOver(j) /\ clock' = clock /\ over \subseteq over'
  BY <1>2, OneMoreRun DEF Requeue
<1>6. RunsInOrder'
  <2>1. /\ \A r \in over' : 0 < r.start /\ r.start <= r.end /\ r.end <= Second(clock)
        /\ \A r, s \in over' : r.job = s.job /\ r.start = s.start => r = s
    BY <1>2, <1>5, OneMoreRun
  <2>2. \A r \in over' \ over : r.job = j
    BY <1>5 DEF RunOver
  <2>3. ASSUME NEW k \in Jobs
        PROVE  /\ lsf'[k].start <= Second(clock')
               /\ Running(k)' => /\ lsf'[k].start > 0 /\ lsf'[k].end = 0
                                 /\ \A r \in over' : r.job = k => r.end < lsf'[k].start
               /\ lsf'[k].end > 0 =>
                    [job |-> k, start |-> lsf'[k].start, end |-> lsf'[k].end] \in over'
               /\ lsf'[k].start > 0 /\ lsf'[k].end = 0 => Running(k)'
    <3>1. CASE k = j
      BY <1>2, <1>4, <1>5, <3>1, WaitingType, {"PEND"} # {"RUN"} DEF Running
    <3>2. CASE k # j
      BY <1>2, <1>4, <1>5, <2>2, <3>2 DEF RunsInOrder, Running
    <3> QED
      BY <3>1, <3>2
  <2> QED
    BY <1>2, <1>5, <2>1, <2>3 DEF RunsInOrder
<1> QED
  BY <1>2, <1>3, <1>5, <1>6, OneMoreRun, ClusterSteps DEF Requeue

-----------------------------------------------------------------------------
\* What a step of the exporter leaves alone.
LEMMA ClusterKept ==
  ASSUME IInv, UNCHANGED <<clock, cluster>>
  PROVE  Later /\ RunsInOrder'
<1>1. lsf' = lsf /\ over' = over /\ clock' = clock /\ clock \in Nat /\ RunsInOrder
  BY DEF cluster, IInv, TypeOK, Recording
<1>2. \A j \in Jobs : Running(j)' <=> Running(j)
  BY <1>1 DEF Running
<1> QED
  BY <1>1, <1>2 DEF Later, RunsInOrder

\* A scan may begin,
LEMMA StepOpen == IInv /\ Open => IInv'
<1> SUFFICES ASSUME IInv, Open PROVE IInv'
  OBVIOUS
<1>1. Later /\ RunsInOrder' /\ UNCHANGED <<clock, ahead, cluster, snapshot, page>>
  BY ClusterKept DEF Open
<1>2. TypeOK'
  BY <1>1 DEF IInv, TypeOK, Open, cluster, page
<1>3. JobsRecorded'
  <2>1. <<>> \in Seq(ToSet(<<>>)) /\ Len(<<>>) = 0
    OBVIOUS
  <2>2. jobs' = <<>> /\ began' = clock /\ duration' = 0 /\ clock' = clock /\ clock \in Nat
    BY DEF Open, IInv, TypeOK
  <2> QED
    BY <2>1, <2>2 DEF JobsRecorded
<1> QED
  BY <1>1, <1>2, <1>3, SnapshotStays, PageStays DEF IInv, Recording

\* Appending to a sequence, whatever its elements are.
LEMMA AppendToAny ==
  ASSUME NEW s, NEW e, s \in Seq(ToSet(s))
  PROVE  /\ Append(s, e) \in Seq(ToSet(Append(s, e)))
         /\ Len(Append(s, e)) = Len(s) + 1 /\ Len(s) \in Nat
         /\ \A i \in 1..Len(s) : Append(s, e)[i] = s[i]
         /\ Append(s, e)[Len(s) + 1] = e
<1> DEFINE S == ToSet(s) \cup {e}
<1>1. s \in Seq(S) /\ e \in S
  OBVIOUS
<1>2. /\ Append(s, e) \in Seq(S)
      /\ Len(Append(s, e)) = Len(s) + 1 /\ Len(s) \in Nat
      /\ \A i \in 1..Len(s) : Append(s, e)[i] = s[i]
      /\ Append(s, e)[Len(s) + 1] = e
  BY <1>1, AppendProperties, LenProperties
<1>3. Append(s, e) \in Seq(ToSet(Append(s, e)))
  BY <1>2 DEF ToSet
<1> QED
  BY <1>2, <1>3

\* One sequence after another.
LEMMA ConcatAny ==
  ASSUME NEW s, NEW t, s \in Seq(ToSet(s)), t \in Seq(ToSet(t))
  PROVE  /\ Len(s) \in Nat /\ Len(s \o t) \in Nat /\ Len(s) <= Len(s \o t)
         /\ \A i \in 1..Len(s) : (s \o t)[i] = s[i]
<1> DEFINE S == ToSet(s) \cup ToSet(t)
<1>1. s \in Seq(S) /\ t \in Seq(S)
  OBVIOUS
<1>2. Len(s) \in Nat /\ Len(t) \in Nat
  BY <1>1, LenProperties
<1> HIDE DEF S
<1>3. /\ Len(s \o t) = Len(s) + Len(t)
      /\ \A i \in 1..Len(s) + Len(t) : (s \o t)[i] = IF i <= Len(s) THEN s[i] ELSE t[i - Len(s)]
  BY <1>1, ConcatProperties
<1> QED
  BY <1>2, <1>3

\* A record just read is good from now on, and for what is said since.
LEMMA RecordRead ==
  ASSUME IInv, NEW j \in Jobs, NEW kb, began <= clock
  PROVE  Recorded(JobOf(j, Entry[j], lsf[j], kb), began, clock, over)
<1> DEFINE job == JobOf(j, Entry[j], lsf[j], kb)
<1>1. job.id = j /\ job.start = lsf[j].start /\ job.end = lsf[j].end
  BY DEF JobOf
<1> HIDE DEF job
<1>2. /\ lsf[j] \in Life /\ over \in SUBSET Run /\ clock \in Nat /\ began \in Nat
      /\ RunsInOrder
  BY DEF IInv, TypeOK, Recording
<1>3. lsf[j].start \in Nat /\ lsf[j].end \in Nat
  BY <1>2 DEF Life
<1>4. lsf[j].start <= Second(clock)
  BY <1>2 DEF RunsInOrder
<1>5. ASSUME lsf[j].end > 0
      PROVE  /\ [job |-> j, start |-> lsf[j].start, end |-> lsf[j].end] \in over
             /\ lsf[j].end <= Second(clock)
  <2>1. [job |-> j, start |-> lsf[j].start, end |-> lsf[j].end] \in over
    BY <1>2, <1>5 DEF RunsInOrder
  <2> QED
    BY <1>2, <2>1 DEF RunsInOrder
<1>6. ASSUME lsf[j].end = 0, NEW r \in over, r.job = j, r.start = lsf[j].start
      PROVE  FALSE
  <2>1. 0 < r.start /\ r.start <= r.end /\ r.start \in Nat /\ r.end \in Nat
    BY <1>2, <1>6 DEF RunsInOrder, Run
  <2>2. Running(j)
    BY <1>2, <1>6, <2>1 DEF RunsInOrder
  <2>3. r.end < lsf[j].start
    BY <1>2, <1>6, <2>2 DEF RunsInOrder
  <2> QED
    BY <1>6, <2>1, <2>3
<1>7. Recorded(job, began, clock, over)
  BY <1>1, <1>3, <1>4, <1>5, <1>6 DEF Recorded
<1> QED
  BY <1>7 DEF job

\* read a job,
LEMMA StepRead == ASSUME IInv, NEW j \in Jobs, Read(j) PROVE IInv'
<1>1. Later /\ RunsInOrder' /\ UNCHANGED <<clock, ahead, cluster, snapshot, page>>
  BY ClusterKept DEF Read
<1>2. TypeOK'
  BY <1>1 DEF IInv, TypeOK, Read, cluster, page
<1>3. PICK kb : jobs' = Append(jobs, JobOf(j, Entry[j], lsf[j], kb))
  BY DEF Read
<1> DEFINE job == JobOf(j, Entry[j], lsf[j], kb)
<1>4. /\ began + duration <= clock /\ began \in Nat /\ duration \in Nat /\ clock \in Nat
      /\ jobs \in Seq(ToSet(jobs)) /\ phase = "reading" /\ began' = began /\ duration' = duration
      /\ \A i \in 1..Len(jobs) : Recorded(jobs[i], began, clock, over)
  BY DEF IInv, TypeOK, Recording, JobsRecorded, Read
<1>5. Recorded(job, began, clock, over)
  BY <1>4, RecordRead
<1> HIDE DEF job
<1>6. jobs' = Append(jobs, job)
  BY <1>3 DEF job
<1>7. /\ jobs' \in Seq(ToSet(jobs')) /\ Len(jobs') = Len(jobs) + 1 /\ Len(jobs) \in Nat
      /\ \A i \in 1..Len(jobs) : jobs'[i] = jobs[i]
      /\ jobs'[Len(jobs) + 1] = job
  BY <1>4, <1>6, AppendToAny
<1>8. ASSUME NEW i \in 1..Len(jobs') PROVE Recorded(jobs'[i], began, clock, over)
  <2>1. i \in 1..Len(jobs) \/ i = Len(jobs) + 1
    BY <1>7
  <2> QED
    BY <1>4, <1>5, <1>7, <2>1
<1>9. JobsRecorded'
  BY <1>1, <1>4, <1>7, <1>8 DEF JobsRecorded, cluster
<1> QED
  BY <1>1, <1>2, <1>9, SnapshotStays, PageStays DEF IInv, Recording

\* A source returns, with what it has read or with an error and nothing.
LEMMA StepSource == IInv /\ (SourceReturns \/ SourceFails) => IInv'
<1> SUFFICES ASSUME IInv, SourceReturns \/ SourceFails PROVE IInv'
  OBVIOUS
<1>1. Later /\ RunsInOrder' /\ UNCHANGED <<clock, ahead, cluster, snapshot, page>>
  BY ClusterKept DEF SourceReturns, SourceFails
<1>2. /\ began \in Nat /\ duration \in Nat /\ clock \in Nat /\ began + duration <= clock
      /\ jobs \in Seq(ToSet(jobs)) /\ todo \in SUBSET Jobs
      /\ phase # "idle" => \A i \in 1..Len(jobs) : Recorded(jobs[i], began, clock, over)
  BY DEF IInv, TypeOK, Recording, JobsRecorded
<1>3. /\ phase = "reading" /\ phase' = "returned" /\ duration' = clock - began
      /\ began' = began /\ opened' = opened /\ todo' \in SUBSET Jobs
      /\ jobs' = jobs \/ jobs' = <<>>
  BY <1>2 DEF SourceReturns, SourceFails
<1>4. TypeOK'
  BY <1>1, <1>2, <1>3 DEF IInv, TypeOK, cluster, page
<1>5. JobsRecorded'
  <2>1. <<>> \in Seq(ToSet(<<>>)) /\ Len(<<>>) = 0
    OBVIOUS
  <2>2. began + duration' <= clock
    BY <1>2, <1>3
  <2>3. clock' = clock /\ over' = over
    BY <1>1 DEF cluster
  <2>4. CASE jobs' = jobs
    BY <1>2, <1>3, <2>2, <2>3, <2>4 DEF JobsRecorded
  <2>5. CASE jobs' = <<>>
    BY <1>3, <2>1, <2>2, <2>3, <2>5 DEF JobsRecorded
  <2> QED
    BY <1>3, <2>4, <2>5
<1> QED
  BY <1>1, <1>4, <1>5, SnapshotStays, PageStays DEF IInv, Recording

\* A snapshot is made of good records.
LEMMA Published ==
  ASSUME IInv, Publish
  PROVE  /\ SnapshotType(snapshot', clock) /\ SnapshotRecorded(snapshot', over)
         /\ snapshot'.own \in 0..Len(snapshot'.data.jobs)
<1>1. PICK payload \in Payloads :
        snapshot' = [data |-> Merge(jobs, payload), own |-> Len(jobs), at |-> clock,
                     took |-> duration, gap |-> clock - (began + duration)]
  BY DEF Publish
<1>2. /\ snapshot'.at = clock /\ snapshot'.took = duration /\ snapshot'.own = Len(jobs)
      /\ snapshot'.gap = clock - (began + duration)
      /\ snapshot'.data.jobs = jobs \o payload.jobs
  BY <1>1 DEF Merge
<1>3. /\ began \in Nat /\ duration \in Nat /\ clock \in Nat /\ clock > 0
      /\ began + duration <= clock
      /\ jobs \in Seq(ToSet(jobs))
      /\ \A i \in 1..Len(jobs) : Recorded(jobs[i], began, clock, over)
  BY SecondTicksAssumption DEF IInv, TypeOK, Recording, RunsInOrder, JobsRecorded, Publish
<1>4. payload.jobs \in Seq(ToSet(payload.jobs))
  BY PayloadJobs
<1>5. /\ Len(jobs) \in Nat /\ Len(jobs \o payload.jobs) \in Nat
      /\ Len(jobs) <= Len(jobs \o payload.jobs)
      /\ \A i \in 1..Len(jobs) : (jobs \o payload.jobs)[i] = jobs[i]
  BY <1>3, <1>4, ConcatAny
<1>6. Since(snapshot') = began
  BY <1>2, <1>3 DEF Since
<1>7. ASSUME NEW i \in 1..snapshot'.own
      PROVE  Recorded(snapshot'.data.jobs[i], Since(snapshot'), snapshot'.at, over)
  BY <1>2, <1>3, <1>5, <1>6
<1> QED
  BY <1>2, <1>3, <1>5, <1>7 DEF SnapshotType, SnapshotRecorded

\* collectOnce publishes what has been read.
LEMMA StepPublish == IInv /\ Publish => IInv'
<1> SUFFICES ASSUME IInv, Publish PROVE IInv'
  OBVIOUS
<1>1. Later /\ RunsInOrder'
  BY ClusterKept DEF Publish
<1>2. /\ SnapshotType(snapshot', clock) /\ SnapshotRecorded(snapshot', over)
      /\ snapshot'.own \in 0..Len(snapshot'.data.jobs)
  BY Published
<1>3. over' = over /\ lsf' = lsf /\ clock' = clock
  BY DEF cluster, Publish
<1>4. TypeOK'
  BY <1>2, <1>3 DEF IInv, TypeOK, page, Publish, SnapshotType
<1>5. JobsRecorded'
  <2>1. <<>> \in Seq(ToSet(<<>>)) /\ Len(<<>>) = 0
    OBVIOUS
  <2>2. /\ began \in Nat /\ duration \in Nat /\ clock \in Nat /\ began + duration <= clock
        /\ began' = began /\ duration' = 0 /\ jobs' = <<>>
    BY DEF IInv, TypeOK, Recording, JobsRecorded, Publish
  <2> QED
    BY <1>3, <2>1, <2>2 DEF JobsRecorded
<1>6. SnapshotType(snapshot, clock)' /\ SnapshotRecorded(snapshot, over)'
  BY <1>2, <1>3
<1> QED
  BY <1>1, <1>4, <1>5, <1>6, PageStays DEF IInv, Recording, Publish

-----------------------------------------------------------------------------
\* What the steps of a page have in common.
LEMMA ScrapeSteps ==
  ASSUME IInv, UNCHANGED <<clock, ahead, cluster, collection, snapshot>>, ViewAged',
         scrape' \in {"idle", "aged", "written"}, view'.age \in Nat,
         aged' \in Nat, written' \in Nat, view'.snapshot \in {snapshot, view.snapshot, NoSnapshot}
  PROVE  IInv'
<1>1. Later /\ RunsInOrder' /\ over' = over /\ clock' = clock
  BY ClusterKept DEF cluster
<1>2. TypeOK'
  BY DEF IInv, TypeOK, cluster, collection
<1>3. SnapshotType(NoSnapshot, clock) /\ SnapshotRecorded(NoSnapshot, over)
  BY NothingYet DEF SnapshotType, SnapshotRecorded, IInv, TypeOK
<1>4. SnapshotType(view.snapshot, clock)' /\ SnapshotRecorded(view.snapshot, over)'
  BY <1>1, <1>3 DEF IInv, Recording
<1> QED
  BY <1>1, <1>2, <1>4, JobsKept, SnapshotStays DEF IInv, Recording

\* A page takes the snapshot,
LEMMA StepTakeSnapshot == IInv /\ TakeSnapshot => IInv'
<1> SUFFICES ASSUME IInv, TakeSnapshot PROVE IInv'
  OBVIOUS
<1>1. snapshot.at \in Nat /\ clock \in Nat /\ snapshot.at <= clock /\ written \in Nat
  BY DEF IInv, TypeOK, Recording, SnapshotType
<1>2. /\ view'.snapshot = snapshot
      /\ view'.age = IF snapshot.at = 0 THEN 0 ELSE clock - snapshot.at
      /\ scrape' = "aged" /\ aged' = clock /\ written' = written /\ clock' = clock
  BY DEF TakeSnapshot
<1> QED
  BY <1>1, <1>2, ScrapeSteps DEF TakeSnapshot, ViewAged

\* is written,
LEMMA StepWritePage == IInv /\ WritePage => IInv'
<1> SUFFICES ASSUME IInv, WritePage PROVE IInv'
  OBVIOUS
<1>1. /\ view.age \in Nat /\ clock \in Nat /\ aged \in Nat /\ ViewAged
  BY DEF IInv, TypeOK, Recording
<1>2. /\ scrape = "aged" /\ scrape' = "written" /\ written' = clock
      /\ UNCHANGED <<clock, ahead, cluster, collection, snapshot, view, aged>>
  BY DEF WritePage
<1>3. ViewAged'
  BY <1>1, <1>2 DEF ViewAged
<1> QED
  BY <1>1, <1>2, <1>3, ScrapeSteps

\* and sent.
LEMMA StepReply == IInv /\ Reply => IInv'
<1> SUFFICES ASSUME IInv, Reply PROVE IInv'
  OBVIOUS
<1>1. ViewAged'
  BY DEF Reply, ViewAged
<1>2. /\ scrape' = "idle" /\ view' = NoView /\ aged' = 0 /\ written' = 0
      /\ UNCHANGED <<clock, ahead, cluster, collection, snapshot>>
  BY DEF Reply
<1>3. view'.age \in Nat /\ view'.snapshot = NoSnapshot
  BY <1>2, NothingYet
<1> QED
  BY <1>1, <1>2, <1>3, ScrapeSteps

\* A step may change nothing.
LEMMA StutterIInv == IInv /\ UNCHANGED vars => IInv'
<1> SUFFICES ASSUME IInv, UNCHANGED vars PROVE IInv'
  OBVIOUS
<1>1. Later /\ RunsInOrder'
  BY ClusterKept DEF vars
<1>2. TypeOK'
  BY DEF IInv, TypeOK, vars, cluster, collection, page
<1> QED
  BY <1>1, <1>2, JobsKept, SnapshotStays, PageStays DEF IInv, Recording, vars

\* The invariant holds in every state that is reached.
THEOREM Invariance == Spec => []IInv
<1>1. ASSUME IInv, [Next]_vars PROVE IInv'
  BY <1>1, StepTick, StepOpen, StepSource, StepPublish, StepTakeSnapshot, StepWritePage,
     StepReply, StepDispatch, StepFinish, StepRequeue, StepRead, StutterIInv DEF Next
<1> QED
  BY <1>1, InitIInv, PTL DEF Spec

-----------------------------------------------------------------------------
\* The runtime on the page is RunTime, if that is more than nothing.
LEMMA Shown ==
  ASSUME NEW i, RunTime(Data.jobs[i], Now) \in Int
  PROVE  ShownRunTime(i) = IF RunTime(Data.jobs[i], Now) > 0
                           THEN RunTime(Data.jobs[i], Now) ELSE 0
<1> DEFINE job     == Data.jobs[i]
           of      == <<"job", i>>
           now     == Now
           runtime == JobRunTime(of, job, now)
           shown   == {s \in JobSeries(of, job, now) : s.name = "lsf_job_runtime_seconds"}
<1>1. \A s \in JobInfo(of, job) : s.name # "lsf_job_runtime_seconds"
  BY DEF JobInfo, Gauge
<1>2. \A s \in JobFigures(of, job) : s.name # "lsf_job_runtime_seconds"
  <2>1. \A name \in DOMAIN Figures(job) : name # "lsf_job_runtime_seconds"
    BY DEF Figures
  <2>2. \A name \in DOMAIN Figures(job) :
          \A s \in Positive(of, name, JobLabels(job), Figures(job)[name]) : s.name = name
    BY DEF Positive, Gauge
  <2> QED
    BY <2>1, <2>2 DEF JobFigures
<1>3. \A s \in JobExit(of, job) : s.name # "lsf_job_runtime_seconds"
  BY DEF JobExit, Gauge
<1>4. /\ \A s \in runtime : s.name = "lsf_job_runtime_seconds" /\ s.value = RunTime(job, now)
      /\ runtime = {} <=> ~(RunTime(job, now) > 0)
  <2>1. CASE RunTime(job, now) > 0
    <3>1. runtime = Gauge(of, "lsf_job_runtime_seconds", JobLabels(job), RunTime(job, now))
      BY <2>1 DEF JobRunTime, Positive
    <3> DEFINE sample == [of |-> of, name |-> "lsf_job_runtime_seconds",
                          labels |-> JobLabels(job), value |-> RunTime(job, now)]
    <3>2. runtime = {sample}
      BY <3>1 DEF Gauge
    <3>3. sample.name = "lsf_job_runtime_seconds" /\ sample.value = RunTime(job, now)
      OBVIOUS
    <3> HIDE DEF runtime, sample
    <3> QED
      BY <2>1, <3>2, <3>3
  <2>2. CASE ~(RunTime(job, now) > 0)
    BY <2>2 DEF JobRunTime, Positive
  <2> QED
    BY <2>1, <2>2
<1>5. JobSeries(of, job, now) = JobInfo(of, job) \cup JobFigures(of, job) \cup runtime
                                \cup JobExit(of, job)
  BY DEF JobSeries
<1> HIDE DEF job, of, runtime
<1>6. shown = runtime
  BY <1>1, <1>2, <1>3, <1>4, <1>5
<1>7. ShownRunTime(i) = IF shown = {} THEN 0 ELSE (CHOOSE s \in shown : TRUE).value
  BY DEF ShownRunTime, job, of
<1> HIDE DEF shown
<1>8. ShownRunTime(i) = IF RunTime(job, now) > 0 THEN RunTime(job, now) ELSE 0
  BY <1>4, <1>6, <1>7
<1> QED
  BY <1>8 DEF job

\* How long a run lasted depends on when it ended, if it has.
LEMMA Actual ==
  ASSUME IInv, scrape = "written", NEW j \in Jobs, NEW start \in Nat, start <= Second(written)
  PROVE  /\ TrueRunTime(j, start) \in Int
         /\ TrueRunTime(j, start) >= 0 /\ TrueRunTime(j, start) <= Second(written) - start
         /\ \A r \in over : r.job = j /\ r.start = start /\ r.end <= Second(written) =>
              TrueRunTime(j, start) = r.end - start
         /\ \/ TrueRunTime(j, start) = Second(written) - start
            \/ \E r \in over : /\ r.job = j /\ r.start = start
                               /\ TrueRunTime(j, start) = r.end - start
<1> DEFINE ends == {r.end : r \in {r \in over : r.job = j /\ r.start = start /\ r.end < Second(written)}}
<1>1. /\ over \in SUBSET Run /\ Second(written) \in Int
      /\ \A r \in over : r.start <= r.end
      /\ \A r, s \in over : r.job = s.job /\ r.start = s.start => r = s
  <2>1. written \in Int
    BY DEF IInv, TypeOK
  <2>2. Second(written) \in Int
    BY <2>1, SecondBounds
  <2> QED
    BY <2>2 DEF IInv, TypeOK, Recording, RunsInOrder
<1>2. \A r \in over : r.start \in Nat /\ r.end \in Nat
  BY <1>1 DEF Run
<1>3. TrueRunTime(j, start) = (IF ends = {} THEN Second(written) ELSE CHOOSE e \in ends : TRUE) - start
  BY DEF TrueRunTime
<1>4. CASE ends = {}
  <2>1. \A r \in over : ~(r.job = j /\ r.start = start /\ r.end < Second(written))
    BY <1>4
  <2> HIDE DEF ends
  <2> QED
    BY <1>1, <1>2, <1>3, <1>4, <2>1
<1>5. CASE ends # {}
  <2>1. PICK r \in over : r.job = j /\ r.start = start /\ r.end < Second(written) /\ r.end \in ends
    BY <1>5
  <2>2. \A e \in ends : e = r.end
    BY <1>1, <2>1
  <2> HIDE DEF ends
  <2>3. (CHOOSE e \in ends : TRUE) = r.end
    BY <2>1, <2>2
  <2>4. TrueRunTime(j, start) = r.end - start
    BY <1>3, <1>5, <2>3
  <2>5. \A s \in over : s.job = j /\ s.start = start => s = r
    BY <1>1, <2>1
  <2> QED
    BY <1>1, <1>2, <2>1, <2>4, <2>5
<1> QED
  BY <1>4, <1>5

\* What is written in the past of a job's present or former run excuses its run time.
LEMMA Excused == IInv => RunTimeExcused
<1> DEFINE job(i)   == Data.jobs[i]
           actual(i) == TrueRunTime(job(i).id, job(i).start)
           rt(i)    == RunTime(job(i), Now)
           at       == view.snapshot.at
           took     == view.snapshot.took
           gap      == view.snapshot.gap
           since    == Since(view.snapshot)
           cut      == SecondTicks - 1
<1> SUFFICES ASSUME IInv, scrape = "written", NEW i \in 1..view.snapshot.own, job(i).start > 0
             PROVE  /\ ShownRunTime(i) <= actual(i) + (view.age + took) + (gap + (written - aged))
                                          + (IF ahead > 0 THEN ahead ELSE 0) + cut
                    /\ ShownRunTime(i) >= actual(i) + (IF ahead < 0 THEN ahead - cut ELSE 0)
  BY DEF RunTimeExcused
<1>1. Recorded(job(i), since, at, over)
  BY DEF IInv, Recording, SnapshotRecorded, Data
<1>2. /\ at \in Nat /\ took \in Nat /\ gap \in Nat /\ took + gap <= at
      /\ view.snapshot.own \in Nat /\ (at = 0 => view.snapshot.own = 0)
      /\ since = at - gap - took
  BY DEF IInv, Recording, SnapshotType, Since
<1>3. at > 0
  BY <1>2
<1>4. /\ view.age = aged - at /\ at <= aged /\ aged <= written
      /\ aged \in Nat /\ written \in Nat /\ ahead \in Int /\ cut \in Nat
  BY <1>2, <1>3, ScrapeAssumption, SecondTicksAssumption DEF IInv, TypeOK, Recording, ViewAged
<1>5. /\ job(i).id \in Jobs /\ job(i).start \in Nat /\ job(i).end \in Nat
      /\ job(i).start <= Second(at)
  BY <1>1 DEF Recorded
<1>6. /\ since \in Int /\ at \in Int /\ written \in Int /\ written + ahead \in Int
      /\ since <= written /\ at <= written
  BY <1>2, <1>4
<1>7. /\ Second(at) <= Second(written) /\ Second(since) <= Second(written)
      /\ Second(at) \in Int /\ Second(since) \in Int /\ Second(written) \in Int /\ Now \in Int
      /\ since - Second(since) <= cut /\ Second(written) <= written
      /\ Now <= written + ahead /\ written + ahead - Now <= cut
  <2>1. Second(at) <= Second(written) /\ Second(since) <= Second(written)
    BY <1>6, SecondSteps
  <2>2. Second(since) \in Int /\ since - Second(since) <= cut
    BY <1>6, SecondBounds
  <2>3. Second(at) \in Int /\ Second(written) \in Int /\ Second(written) <= written
    BY <1>6, SecondBounds
  <2>4. Now \in Int /\ Now <= written + ahead /\ written + ahead - Now <= cut
    <3> DEFINE t == written + ahead
    <3>1. t \in Int /\ Now = Second(t)
      BY <1>6 DEF Now
    <3> HIDE DEF t
    <3>2. Second(t) \in Int /\ Second(t) <= t /\ t - Second(t) <= cut
      BY <3>1, SecondBounds
    <3> QED
      BY <1>4, <3>1, <3>2 DEF t
  <2> HIDE DEF at, since, cut
  <2> QED
    BY <2>1, <2>2, <2>3, <2>4
<1>8. /\ ahead >= 0 => Second(written) <= Now
      /\ ahead <= 0 => Now <= Second(written)
  BY <1>4, <1>6, SecondSteps DEF Now
<1>9. job(i).start <= Second(written)
  BY <1>5, <1>7
<1>10. rt(i) = IF job(i).end > 0 THEN job(i).end - job(i).start ELSE Now - job(i).start
  BY <1>5 DEF RunTime
<1>11. rt(i) \in Int
  BY <1>5, <1>7, <1>10
<1>12. ShownRunTime(i) = IF rt(i) > 0 THEN rt(i) ELSE 0
  BY <1>11, Shown
<1>13. /\ actual(i) \in Int /\ actual(i) >= 0 /\ actual(i) <= Second(written) - job(i).start
       /\ \A r \in over : r.job = job(i).id /\ r.start = job(i).start /\ r.end <= Second(written) =>
            actual(i) = r.end - job(i).start
       /\ \/ actual(i) = Second(written) - job(i).start
          \/ \E r \in over : /\ r.job = job(i).id /\ r.start = job(i).start
                             /\ actual(i) = r.end - job(i).start
  BY <1>5, <1>9, Actual
<1>14. over \in SUBSET Run
  BY DEF IInv, TypeOK
<1> HIDE DEF job, at, took, gap, since, actual, rt, cut
<1>15. CASE job(i).end > 0
  <2> DEFINE run == [job |-> job(i).id, start |-> job(i).start, end |-> job(i).end]
  <2>1. run \in over /\ job(i).end <= Second(at)
    BY <1>1, <1>15 DEF Recorded
  <2>2. run.job = job(i).id /\ run.start = job(i).start /\ run.end = job(i).end
    OBVIOUS
  <2>3. actual(i) = job(i).end - job(i).start
    BY <1>5, <1>7, <1>13, <2>1, <2>2
  <2>4. ShownRunTime(i) = actual(i)
    BY <1>5, <1>10, <1>12, <1>13, <1>15, <2>3
  <2> QED
    BY <1>2, <1>4, <1>13, <2>4
<1>16. CASE job(i).end = 0
  <2>1. rt(i) = Now - job(i).start
    BY <1>10, <1>16
  <2>2. actual(i) >= Second(since) - job(i).start
    <3>1. CASE actual(i) = Second(written) - job(i).start
      BY <1>5, <1>7, <3>1
    <3>2. CASE \E r \in over : /\ r.job = job(i).id /\ r.start = job(i).start
                               /\ actual(i) = r.end - job(i).start
      <4>1. PICK r \in over : /\ r.job = job(i).id /\ r.start = job(i).start
                              /\ actual(i) = r.end - job(i).start
        BY <3>2
      <4>2. r.end >= Second(since) /\ r.end \in Nat
        BY <1>1, <1>14, <1>16, <4>1 DEF Recorded, Run
      <4> QED
        BY <1>5, <1>7, <4>1, <4>2
    <3> QED
      BY <1>13, <3>1, <3>2
  <2>3. Now - Second(since) <= (written - since) + (IF ahead > 0 THEN ahead ELSE 0) + cut
    BY <1>4, <1>6, <1>7, <1>8
  <2>4. written - since = (view.age + took) + (gap + (written - aged))
    BY <1>2, <1>4
  <2>5. 0 <= (view.age + took) + (gap + (written - aged)) + cut
    BY <1>2, <1>4
  <2>6. ShownRunTime(i) <= actual(i) + (view.age + took) + (gap + (written - aged))
                           + (IF ahead > 0 THEN ahead ELSE 0) + cut
    BY <1>2, <1>4, <1>5, <1>6, <1>7, <1>12, <1>13, <2>1, <2>2, <2>3, <2>4, <2>5
  <2>7. ShownRunTime(i) >= actual(i) + (IF ahead < 0 THEN ahead - cut ELSE 0)
    BY <1>4, <1>5, <1>6, <1>7, <1>8, <1>12, <1>13, <2>1
  <2> QED
    BY <2>6, <2>7
<1> QED
  BY <1>5, <1>15, <1>16

\* Every variable keeps its type: ages and durations are never negative, and a
\* snapshot has as many jobs as it says LSF has given it.
THEOREM TypeCorrect == Spec => []TypeOK
BY Invariance, PTL DEF IInv

\* For any jobs, payloads and clocks, however long anything takes and however
\* fine the clock is: a runtime that writeJobMetrics shows of a job of LSF is too
\* much by no more than the age and the duration on the same page, the time
\* between the two looks at the clock of collectOnce and of metricsHandler, the
\* difference between the clocks, and less than a second that is cut off.
THEOREM RunTimesAreExcused == Spec => []RunTimeExcused
BY Invariance, Excused, PTL

-----------------------------------------------------------------------------
\* The first n jobs of a list have different ids.
Distinct(list, n) == \A i, k \in 1..n : list[i].id = list[k].id => i = k

\* A collection reads every job once.
ReadOnce ==
  /\ phase # "idle" => /\ Distinct(jobs, Len(jobs))
                       /\ \A i \in 1..Len(jobs) : jobs[i].id \notin todo
  /\ Distinct(snapshot.data.jobs, snapshot.own)
  /\ Distinct(view.snapshot.data.jobs, view.snapshot.own)

\* Nothing was read twice at first.
LEMMA InitReadOnce == Init => ReadOnce
BY NothingYet DEF Init, ReadOnce, Distinct

\* What is read once is published once.
LEMMA PublishedOnce ==
  ASSUME IInv, Publish, Distinct(jobs, Len(jobs))
  PROVE  Distinct(snapshot'.data.jobs, snapshot'.own)
<1>1. PICK payload \in Payloads :
        snapshot' = [data |-> Merge(jobs, payload), own |-> Len(jobs), at |-> clock,
                     took |-> duration, gap |-> clock - (began + duration)]
  BY DEF Publish
<1>2. snapshot'.own = Len(jobs) /\ snapshot'.data.jobs = jobs \o payload.jobs
  BY <1>1 DEF Merge
<1>3. payload.jobs \in Seq(ToSet(payload.jobs)) /\ jobs \in Seq(ToSet(jobs))
  BY PayloadJobs DEF IInv, Recording, JobsRecorded
<1>4. Len(jobs) \in Nat /\ \A i \in 1..Len(jobs) : (jobs \o payload.jobs)[i] = jobs[i]
  BY <1>3, ConcatAny
<1> QED
  BY <1>2, <1>4 DEF Distinct

\* A scan reads each job once, as lsb_readjobinfo gives them.
LEMMA NextReadOnce == IInv /\ ReadOnce /\ [Next]_vars => ReadOnce'
<1> SUFFICES ASSUME IInv, ReadOnce, [Next]_vars PROVE ReadOnce'
  OBVIOUS
<1>1. CASE UNCHANGED <<collection, snapshot, view>>
  BY <1>1 DEF ReadOnce, Distinct, collection
<1>2. CASE Open
  <2>1. Len(<<>>) = 0
    OBVIOUS
  <2>2. jobs' = <<>> /\ snapshot' = snapshot /\ view' = view
    BY <1>2 DEF Open, page
  <2>3. Distinct(jobs', 0) /\ \A i \in 1..0 : jobs'[i].id \notin todo'
    BY DEF Distinct
  <2> QED
    BY <2>1, <2>2, <2>3 DEF ReadOnce
<1>3. ASSUME NEW j \in Jobs, Read(j) PROVE ReadOnce'
  <2>1. PICK kb : jobs' = Append(jobs, JobOf(j, Entry[j], lsf[j], kb))
    BY <1>3 DEF Read
  <2> DEFINE job == JobOf(j, Entry[j], lsf[j], kb)
  <2>2. job.id = j
    BY DEF JobOf
  <2> HIDE DEF job
  <2>3. jobs' = Append(jobs, job)
    BY <2>1 DEF job
  <2>4. /\ phase = "reading" /\ j \in todo /\ todo' = todo \ {j}
        /\ snapshot' = snapshot /\ view' = view /\ jobs \in Seq(ToSet(jobs))
    BY <1>3 DEF Read, page, IInv, Recording, JobsRecorded
  <2>5. /\ Len(jobs') = Len(jobs) + 1 /\ Len(jobs) \in Nat
        /\ \A i \in 1..Len(jobs) : jobs'[i] = jobs[i]
        /\ jobs'[Len(jobs) + 1] = job
    BY <2>3, <2>4, AppendToAny
  <2>6. \A i \in 1..Len(jobs) : jobs'[i].id \in {jobs[k].id : k \in 1..Len(jobs)} /\ jobs'[i].id # j
    BY <2>4, <2>5 DEF ReadOnce
  <2>7. \A i \in 1..Len(jobs') : i \in 1..Len(jobs) \/ i = Len(jobs) + 1
    BY <2>5
  <2>8. ASSUME NEW i \in 1..Len(jobs'), NEW k \in 1..Len(jobs'), jobs'[i].id = jobs'[k].id
        PROVE  i = k
    <3>1. CASE i \in 1..Len(jobs) /\ k \in 1..Len(jobs)
      BY <2>4, <2>5, <2>8, <3>1 DEF ReadOnce, Distinct
    <3>2. CASE i = Len(jobs) + 1 \/ k = Len(jobs) + 1
      BY <2>2, <2>5, <2>6, <2>7, <2>8, <3>2
    <3> QED
      BY <2>7, <3>1, <3>2
  <2>9. \A i \in 1..Len(jobs') : jobs'[i].id \notin todo'
    BY <2>2, <2>4, <2>5, <2>7 DEF ReadOnce
  <2> QED
    BY <2>4, <2>8, <2>9 DEF ReadOnce, Distinct
<1>4. CASE Publish
  <2>1. Distinct(jobs, Len(jobs)) /\ phase' = "idle" /\ view' = view
    BY <1>4 DEF Publish, ReadOnce, page
  <2>2. Distinct(snapshot'.data.jobs, snapshot'.own)
    BY <1>4, <2>1, PublishedOnce
  <2> QED
    BY <2>1, <2>2 DEF ReadOnce
<1>5. CASE SourceReturns \/ SourceFails
  <2>1. Len(<<>>) = 0 /\ Distinct(<<>>, 0)
    BY DEF Distinct
  <2>2. /\ phase = "reading" /\ snapshot' = snapshot /\ view' = view
        /\ (jobs' = jobs /\ todo' = todo) \/ jobs' = <<>>
    BY <1>5 DEF SourceReturns, SourceFails, page
  <2> QED
    BY <2>1, <2>2 DEF ReadOnce, Distinct
<1>6. CASE TakeSnapshot
  <2>1. view'.snapshot = snapshot /\ snapshot' = snapshot /\ UNCHANGED collection
    BY <1>6 DEF TakeSnapshot
  <2> QED
    BY <2>1 DEF ReadOnce, collection
<1>7. CASE Reply
  <2>1. /\ view'.snapshot.own = 0 /\ view'.snapshot.data.jobs = <<>>
        /\ snapshot' = snapshot /\ UNCHANGED collection
    BY <1>7, NothingYet DEF Reply
  <2> QED
    BY <2>1 DEF ReadOnce, collection, Distinct
<1>8. CASE Tick \/ WritePage \/ \E j \in Jobs : Dispatch(j) \/ Finish(j) \/ Requeue(j)
  BY <1>1, <1>8 DEF Tick, WritePage, Dispatch, Finish, Requeue, page
<1>9. CASE UNCHANGED vars
  BY <1>1, <1>9 DEF vars, page
<1> QED
  BY <1>2, <1>3, <1>4, <1>5, <1>6, <1>7, <1>8, <1>9 DEF Next

\* What the samples of a job have in common.
LEMMA JobSample ==
  ASSUME NEW of, NEW job, NEW now, NEW s \in JobSeries(of, job, now)
  PROVE  /\ s.of = of /\ s.labels.job_id = job.id
         /\ \A t \in JobSeries(of, job, now) : s.name = t.name => s = t
<1> DEFINE infos   == JobInfo(of, job)
           figures == JobFigures(of, job)
           runtime == JobRunTime(of, job, now)
           exits   == JobExit(of, job)
           Names   == DOMAIN Figures(job)
<1>1. Names = {"lsf_job_cpu_time_seconds", "lsf_job_requested_cpu", "lsf_job_memory_kilobytes",
               "lsf_job_requested_memory_kilobytes", "lsf_job_swap_kilobytes",
               "lsf_job_gpu_requested", "lsf_job_gpu_used"}
  BY DEF Figures
<1>2. JobLabels(job).job_id = job.id
  BY DEF JobLabels
<1>3. \A name, labels, value : \A u \in Gauge(of, name, labels, value) :
        u = [of |-> of, name |-> name, labels |-> labels, value |-> value]
  BY DEF Gauge
<1>4. \A u, v \in infos : u = v /\ u.of = of /\ u.name = "lsf_job_info" /\ u.labels.job_id = job.id
  BY DEF JobInfo, Gauge
<1>5. \A u \in runtime : u = [of |-> of, name |-> "lsf_job_runtime_seconds",
                              labels |-> JobLabels(job), value |-> RunTime(job, now)]
  BY <1>3 DEF JobRunTime, Positive
<1>6. \A u \in exits : u = [of |-> of, name |-> "lsf_job_exit_status",
                            labels |-> JobLabels(job), value |-> job.exit]
  BY <1>3 DEF JobExit
<1>7. \A u \in figures : \E name \in Names :
        u = [of |-> of, name |-> name, labels |-> JobLabels(job), value |-> Figures(job)[name]]
  <2>1. ASSUME NEW u \in figures
        PROVE  \E name \in Names : u \in Positive(of, name, JobLabels(job), Figures(job)[name])
    BY DEF JobFigures
  <2> QED
    BY <1>3, <2>1 DEF Positive
<1>8. JobSeries(of, job, now) = infos \cup figures \cup runtime \cup exits
  BY DEF JobSeries
<1> HIDE DEF infos, figures, runtime, exits, Names
<1>9. /\ \A u \in infos : u.of = of /\ u.name = "lsf_job_info"
      /\ \A u \in runtime : u.of = of /\ u.name = "lsf_job_runtime_seconds" /\ u.labels.job_id = job.id
      /\ \A u \in exits : u.of = of /\ u.name = "lsf_job_exit_status" /\ u.labels.job_id = job.id
      /\ \A u \in figures : u.of = of /\ u.name \in Names /\ u.labels.job_id = job.id
  BY <1>2, <1>4, <1>5, <1>6, <1>7
<1>10. \A u, v \in figures : u.name = v.name => u = v
  BY <1>7
<1>11. /\ "lsf_job_info" \notin Names /\ "lsf_job_runtime_seconds" \notin Names
       /\ "lsf_job_exit_status" \notin Names
  BY <1>1
<1>12. s.of = of /\ s.labels.job_id = job.id
  BY <1>4, <1>8, <1>9
<1>13. ASSUME NEW t \in JobSeries(of, job, now), s.name = t.name PROVE s = t
  <2>1. CASE s \in infos
    BY <1>4, <1>8, <1>9, <1>11, <1>13, <2>1
  <2>2. CASE s \in figures
    BY <1>8, <1>9, <1>10, <1>11, <1>13, <2>2
  <2>3. CASE s \in runtime
    BY <1>5, <1>8, <1>9, <1>11, <1>13, <2>3
  <2>4. CASE s \in exits
    BY <1>6, <1>8, <1>9, <1>11, <1>13, <2>4
  <2> QED
    BY <1>8, <2>1, <2>2, <2>3, <2>4
<1> QED
  BY <1>12, <1>13

\* Jobs with ids of their own have series of their own.
LEMMA Apart == IInv /\ ReadOnce => JobSeriesApart
<1> SUFFICES ASSUME IInv, ReadOnce, scrape = "written",
                    NEW s \in JobSamples, NEW t \in JobSamples,
                    s.name = t.name, s # t, s.labels = t.labels
             PROVE  /\ s.of # t.of /\ Data.jobs[s.of[2]].id = Data.jobs[t.of[2]].id
                    /\ s.of[2] > view.snapshot.own \/ t.of[2] > view.snapshot.own
  BY DEF JobSeriesApart, JobSamples
<1>1. PICK i \in 1..Len(Data.jobs) :
        s \in JobSeries(<<"job", i>>, Data.jobs[i], Now)
  BY DEF JobSamples
<1>2. PICK k \in 1..Len(Data.jobs) :
        t \in JobSeries(<<"job", k>>, Data.jobs[k], Now)
  BY DEF JobSamples
<1>3. s.of = <<"job", i>> /\ t.of = <<"job", k>>
  BY <1>1, <1>2, JobSample
<1>4. Data.jobs[i].id = Data.jobs[k].id
  <2>1. s.labels.job_id = Data.jobs[i].id
    BY <1>1, JobSample
  <2>2. t.labels.job_id = Data.jobs[k].id
    BY <1>2, JobSample
  <2> QED
    BY <2>1, <2>2
<1>5. i # k
  BY <1>1, <1>2, JobSample
<1>6. ~(i \in 1..view.snapshot.own /\ k \in 1..view.snapshot.own)
  BY <1>4, <1>5 DEF ReadOnce, Distinct, Data
<1>7. view.snapshot.own \in Nat /\ Len(Data.jobs) \in Nat
  BY DEF IInv, Recording, SnapshotType, Data
<1>8. i > view.snapshot.own \/ k > view.snapshot.own
  BY <1>6, <1>7
<1> QED
  BY <1>3, <1>4, <1>5, <1>8

\* However LSF and the external command mix: two samples of jobs fall into one
\* series only if a job has been described by the external command as well.
THEOREM JobSeriesStayApart == Spec => []JobSeriesApart
<1>1. ASSUME IInv, ReadOnce, [Next]_vars PROVE ReadOnce'
  BY <1>1, NextReadOnce
<1> QED
  BY <1>1, InitReadOnce, Invariance, Apart, PTL DEF Spec

-----------------------------------------------------------------------------
\* The texts of everything on its way to the page.
Typed ==
  /\ \A i \in 1..Len(jobs) : Texts(jobs[i], JobTexts)
  /\ DataType(snapshot.data) /\ DataType(view.snapshot.data)

\* What execution_host says of a run holds for as long as LSF knows that run;
\* another run of the job is in the past by then.
HostsOf(job, known, runs) ==
  /\ job.start = 0 => job.execution_host = NoText
  /\ job.start > 0 => \/ \E r \in runs : r.job = job.id /\ r.start = job.start
                      \/ known[job.id].start = job.start
  /\ job.start > 0 /\ known[job.id].start = job.start =>
       job.execution_host = FormatExecutionHosts(known[job.id].hosts)

\* A job that was read on its hosts is, or was, on them.
HostsKept ==
  /\ \A j \in Jobs : lsf[j].start = 0 => lsf[j].hosts = <<>>
  /\ \A i \in 1..Len(jobs) : phase # "idle" => HostsOf(jobs[i], lsf, over)
  /\ \A i \in 1..snapshot.own : HostsOf(snapshot.data.jobs[i], lsf, over)
  /\ \A i \in 1..view.snapshot.own : HostsOf(view.snapshot.data.jobs[i], lsf, over)

\* The empty sequence.
LEMMA NoElements == IsSeq(<<>>) /\ ToSet(<<>>) = {}
BY DEF IsSeq, ToSet

\* There is nothing wrongly typed in no data.
LEMMA NoDataType == DataType(NoData)
<1>1. /\ NoData.jobs = <<>> /\ NoData.queues = <<>> /\ NoData.hosts = <<>> /\ NoData.cluster = {}
      /\ NoData.licenses = <<>> /\ NoData.resources = <<>>
  BY DEF NoData
<1>2. IsSeq(<<>>) /\ ToSet(<<>>) = {}
  BY NoElements
<1>3. Texts(NoData, {"jobs", "queues", "hosts", "licenses", "resources"})
  BY <1>1, <1>2 DEF Texts
<1> HIDE DEF NoData
<1> QED
  BY <1>1, <1>2, <1>3 DEF DataType, Pointer

\* LSF's jobs run on lists of hosts that can be written.
LEMMA HostListOf ==
  ASSUME TypeOK, NEW j \in Jobs
  PROVE  HostList(lsf[j].hosts)
<1>1. lsf[j].hosts = <<>> \/ \E k \in Jobs : lsf[j].hosts \in HostLists[k]
  BY DEF TypeOK, Life
<1> QED
  BY <1>1, SubmittedHosts, NoHosts

\* A status is a text.
LEMMA OnePiece == \A bits : IsSeq(StatusText(bits))
<1>1. \A x : <<x>> \in Seq({x})
  OBVIOUS
<1>2. \A x : IsSeq(<<x>>)
  BY <1>1, SequenceOver
<1> QED
  BY <1>2 DEF StatusText

\* A job that has been read has texts.
LEMMA JobRead ==
  ASSUME TypeOK, NEW j \in Jobs, NEW kb
  PROVE  Texts(JobOf(j, Entry[j], lsf[j], kb), JobTexts)
<1> DEFINE job == JobOf(j, Entry[j], lsf[j], kb)
<1>1. /\ IsSeq(StatusText(lsf[j].bits)) /\ IsSeq(FormatExecutionHosts(lsf[j].hosts))
  BY HostListOf, FormatType, OnePiece
<1>2. /\ IsSeq(Entry[j].user) /\ IsSeq(Entry[j].queue) /\ IsSeq(Entry[j].name)
      /\ IsSeq(Entry[j].project) /\ IsSeq(Entry[j].application)
  BY ScrapeAssumption DEF Texts
<1>3. /\ job.user = Entry[j].user /\ job.queue = Entry[j].queue /\ job.name = Entry[j].name
      /\ job.project = Entry[j].project /\ job.application = Entry[j].application
      /\ job.status = StatusText(lsf[j].bits)
      /\ job.execution_host = FormatExecutionHosts(lsf[j].hosts)
  BY DEF JobOf
<1> HIDE DEF job
<1>4. Texts(job, JobTexts)
  BY <1>1, <1>2, <1>3 DEF Texts, JobTexts
<1> QED
  BY <1>4 DEF job

\* Merging what the sources return keeps the types.
LEMMA MergeType ==
  ASSUME NEW own, own \in Seq(ToSet(own)), \A i \in 1..Len(own) : Texts(own[i], JobTexts),
         NEW payload \in Payloads
  PROVE  DataType(Merge(own, payload))
<1> DEFINE data == Merge(own, payload)
           all  == own \o payload.jobs
<1>1. DataType(payload)
  BY ScrapeAssumption
<1>2. /\ data.jobs = all /\ data.queues = payload.queues /\ data.hosts = payload.hosts
      /\ data.cluster = payload.cluster /\ data.licenses = payload.licenses
      /\ data.resources = payload.resources
  BY DEF Merge
<1>3. /\ payload.jobs \in Seq(ToSet(payload.jobs))
      /\ \A job \in ToSet(payload.jobs) : Texts(job, JobTexts)
  BY <1>1, PayloadJobs DEF DataType
<1>4. own \in Seq(ToSet(own) \cup ToSet(payload.jobs)) /\ payload.jobs \in Seq(ToSet(own) \cup ToSet(payload.jobs))
  BY <1>3
<1>5. all \in Seq(ToSet(own) \cup ToSet(payload.jobs))
  BY <1>4, ConcatProperties
<1>6. \A job \in ToSet(own) : Texts(job, JobTexts)
  BY DEF ToSet
<1> HIDE DEF all
<1>7. IsSeq(all) /\ \A job \in ToSet(all) : job \in ToSet(own) \cup ToSet(payload.jobs)
  <2>1. \A i \in DOMAIN all : all[i] \in ToSet(own) \cup ToSet(payload.jobs)
    BY <1>5
  <2> QED
    BY <1>5, <2>1, SequenceOver DEF ToSet
<1>8. \A job \in ToSet(all) : Texts(job, JobTexts)
  BY <1>3, <1>6, <1>7
<1> HIDE DEF data
<1>9. Texts(data, {"jobs", "queues", "hosts", "licenses", "resources"})
  BY <1>1, <1>2, <1>7 DEF DataType, Texts
<1>10. DataType(data)
  BY <1>1, <1>2, <1>8, <1>9 DEF DataType
<1> QED
  BY <1>10 DEF data

\* Both hold at first.
LEMMA InitTyped == Init => Typed /\ HostsKept
<1> SUFFICES ASSUME Init PROVE Typed /\ HostsKept
  OBVIOUS
<1>1. /\ jobs = <<>> /\ Len(<<>>) = 0 /\ snapshot = NoSnapshot /\ view.snapshot = NoSnapshot
      /\ NoSnapshot.data = NoData /\ NoSnapshot.own = 0
  BY NothingYet DEF Init, NoSnapshot
<1>2. \A j \in Jobs : lsf[j].hosts = <<>>
  BY DEF Init, Waiting
<1>3. DataType(snapshot.data) /\ DataType(view.snapshot.data)
  BY <1>1, NoDataType
<1>4. \A i \in 1..0 : FALSE
  OBVIOUS
<1>5. Typed
  BY <1>1, <1>3, <1>4 DEF Typed
<1>6. HostsKept
  BY <1>1, <1>2, <1>4 DEF HostsKept
<1> QED
  BY <1>5, <1>6

\* What is published has the types of its parts.
LEMMA PublishedTyped ==
  ASSUME IInv, Publish, \A i \in 1..Len(jobs) : Texts(jobs[i], JobTexts)
  PROVE  DataType(snapshot'.data)
<1>1. PICK payload \in Payloads :
        snapshot' = [data |-> Merge(jobs, payload), own |-> Len(jobs), at |-> clock,
                     took |-> duration, gap |-> clock - (began + duration)]
  BY DEF Publish
<1>2. snapshot'.data = Merge(jobs, payload) /\ jobs \in Seq(ToSet(jobs))
  BY <1>1 DEF IInv, Recording, JobsRecorded
<1> QED
  BY <1>2, MergeType

\* No step breaks the types.
LEMMA NextTyped == IInv /\ Typed /\ [Next]_vars => Typed'
<1> SUFFICES ASSUME IInv, Typed, [Next]_vars PROVE Typed'
  OBVIOUS
<1>1. CASE UNCHANGED <<collection, snapshot, view>>
  BY <1>1 DEF Typed, collection
<1>2. CASE Open
  <2>1. Len(<<>>) = 0
    OBVIOUS
  <2>2. jobs' = <<>> /\ snapshot' = snapshot /\ view' = view
    BY <1>2 DEF Open, page
  <2> QED
    BY <2>1, <2>2 DEF Typed
<1>3. ASSUME NEW j \in Jobs, Read(j) PROVE Typed'
  <2>1. PICK kb : jobs' = Append(jobs, JobOf(j, Entry[j], lsf[j], kb))
    BY <1>3 DEF Read
  <2> DEFINE job == JobOf(j, Entry[j], lsf[j], kb)
  <2>2. Texts(job, JobTexts)
    BY JobRead DEF IInv
  <2> HIDE DEF job
  <2>3. jobs' = Append(jobs, job)
    BY <2>1 DEF job
  <2>4. snapshot' = snapshot /\ view' = view /\ jobs \in Seq(ToSet(jobs))
    BY <1>3 DEF Read, page, IInv, Recording, JobsRecorded
  <2>5. /\ Len(jobs') = Len(jobs) + 1 /\ Len(jobs) \in Nat
        /\ \A i \in 1..Len(jobs) : jobs'[i] = jobs[i]
        /\ jobs'[Len(jobs) + 1] = job
    BY <2>3, <2>4, AppendToAny
  <2>6. ASSUME NEW i \in 1..Len(jobs') PROVE Texts(jobs'[i], JobTexts)
    <3>1. i \in 1..Len(jobs) \/ i = Len(jobs) + 1
      BY <2>5
    <3> QED
      BY <2>2, <2>5, <3>1 DEF Typed
  <2> QED
    BY <2>4, <2>6 DEF Typed
<1>5. CASE Publish
  <2>1. Len(<<>>) = 0
    OBVIOUS
  <2>2. DataType(snapshot'.data) /\ jobs' = <<>> /\ view' = view
    BY <1>5, PublishedTyped DEF Publish, page, Typed
  <2> QED
    BY <2>1, <2>2 DEF Typed
<1>6. CASE SourceReturns \/ SourceFails
  <2>1. Len(<<>>) = 0
    OBVIOUS
  <2>2. (jobs' = jobs \/ jobs' = <<>>) /\ snapshot' = snapshot /\ view' = view
    BY <1>6 DEF SourceReturns, SourceFails, page
  <2> QED
    BY <2>1, <2>2 DEF Typed
<1>7. CASE TakeSnapshot
  <2>1. view'.snapshot = snapshot /\ snapshot' = snapshot /\ UNCHANGED collection
    BY <1>7 DEF TakeSnapshot
  <2> QED
    BY <2>1 DEF Typed, collection
<1>8. CASE Reply
  <2>1. view'.snapshot.data = NoData /\ snapshot' = snapshot /\ UNCHANGED collection
    BY <1>8, NothingYet DEF Reply, NoSnapshot
  <2> QED
    BY <2>1, NoDataType DEF Typed, collection
<1>9. CASE Tick \/ WritePage \/ \E j \in Jobs : Dispatch(j) \/ Finish(j) \/ Requeue(j)
  BY <1>1, <1>9 DEF Tick, WritePage, Dispatch, Finish, Requeue, page
<1>10. CASE UNCHANGED vars
  BY <1>1, <1>10 DEF vars, page
<1> QED
  BY <1>2, <1>3, <1>5, <1>6, <1>7, <1>8, <1>9, <1>10 DEF Next

-----------------------------------------------------------------------------
\* A step of LSF that leaves the known runs of a job their hosts, or puts them
\* in the past.
HostsSteps ==
  /\ over \subseteq over'
  /\ \A j \in Jobs :
       \/ lsf'[j].start = lsf[j].start /\ lsf'[j].hosts = lsf[j].hosts
       \/ /\ \A start \in Nat \ {0} : lsf'[j].start = start =>
               \A r \in over : r.job = j => r.start # start
          /\ lsf[j].start > 0 => \E r \in over' : r.job = j /\ r.start = lsf[j].start
          /\ lsf[j].start > 0 => lsf'[j].start # lsf[j].start

\* What LSF does next leaves what was said of a job's hosts true.
LEMMA HostsStay ==
  ASSUME HostsSteps, NEW job, job.id \in Jobs, job.start \in Nat, HostsOf(job, lsf, over)
  PROVE  HostsOf(job, lsf', over')
<1> DEFINE j == job.id
<1>1. CASE lsf'[j].start = lsf[j].start /\ lsf'[j].hosts = lsf[j].hosts
  BY <1>1 DEF HostsOf, HostsSteps
<1>2. CASE /\ \A start \in Nat \ {0} : lsf'[j].start = start =>
               \A r \in over : r.job = j => r.start # start
           /\ lsf[j].start > 0 => \E r \in over' : r.job = j /\ r.start = lsf[j].start
           /\ lsf[j].start > 0 => lsf'[j].start # lsf[j].start
  <2>1. ASSUME job.start > 0
        PROVE  /\ \E r \in over' : r.job = j /\ r.start = job.start
               /\ lsf'[j].start # job.start
    <3>1. CASE lsf[j].start = job.start
      BY <1>2, <2>1, <3>1
    <3>2. CASE lsf[j].start # job.start
      <4>1. PICK r \in over : r.job = j /\ r.start = job.start
        BY <2>1, <3>2 DEF HostsOf
      <4> QED
        BY <1>2, <2>1, <4>1 DEF HostsSteps
    <3> QED
      BY <3>1, <3>2
  <2> QED
    BY <2>1 DEF HostsOf
<1> QED
  BY <1>1, <1>2 DEF HostsSteps

\* LSF moves a job on in one of three ways, and the exporter sees nothing of it.
LEMMA StepsOfHosts ==
  ASSUME IInv, NEW j \in Jobs, Dispatch(j) \/ Finish(j) \/ Requeue(j)
  PROVE  HostsSteps /\ UNCHANGED <<collection, snapshot, view>>
<1>1. /\ lsf \in [Jobs -> Life] /\ Second(clock) \in Nat \ {0} /\ over \in SUBSET Run /\ RunsInOrder
  BY LsfSecond DEF IInv, TypeOK, Recording, RunsInOrder
<1>2. \A r \in over : r.start <= r.end /\ r.start \in Nat /\ r.end \in Nat
  BY <1>1 DEF RunsInOrder, Run
<1>3. CASE Dispatch(j)
  <2>1. \E life : lsf' = [lsf EXCEPT ![j] = life] /\ life.start = Second(clock)
    <3>1. PICK hosts \in HostLists[j], u \in Usage :
            lsf' = [lsf EXCEPT ![j] =
              [bits |-> {"RUN"}, start |-> Second(clock), end |-> 0, exit |-> 0, hosts |-> hosts,
               cpu |-> u.cpu, maxMem |-> u.maxMem, swap |-> u.swap]]
      BY <1>3 DEF Dispatch
    <3> DEFINE life == [bits |-> {"RUN"}, start |-> Second(clock), end |-> 0, exit |-> 0, hosts |-> hosts,
                       cpu |-> u.cpu, maxMem |-> u.maxMem, swap |-> u.swap]
    <3>2. lsf' = [lsf EXCEPT ![j] = life] /\ life.start = Second(clock)
      BY <3>1
    <3> QED
      BY <3>2
  <2>2. lsf'[j].start = Second(clock) /\ lsf[j].start = 0 /\ \A k \in Jobs \ {j} : lsf'[k] = lsf[k]
    BY <1>1, <1>3, <2>1, WaitingType DEF Dispatch
  <2>3. over' = over /\ \A r \in over : r.job = j => r.start # Second(clock)
    BY <1>1, <1>2, <1>3 DEF Dispatch
  <2>4. HostsSteps
    BY <2>2, <2>3 DEF HostsSteps
  <2> QED
    BY <1>3, <2>4 DEF Dispatch, page
<1>4. CASE Finish(j)
  <2>1. over \subseteq over'
    BY <1>4 DEF Finish, RunOver
  <2>2. \A k \in Jobs : lsf'[k].start = lsf[k].start /\ lsf'[k].hosts = lsf[k].hosts
    <3>1. PICK bits : lsf' = [lsf EXCEPT ![j].bits = bits, ![j].end = Second(clock),
                                        ![j].exit = IF bits = {"EXIT"} THEN 1 ELSE 0]
      BY <1>4 DEF Finish
    <3>2. lsf[j] \in Life
      BY <1>1
    <3> QED
      BY <1>1, <3>1, <3>2 DEF Life
  <2> QED
    BY <1>4, <2>1, <2>2 DEF HostsSteps, Finish, page
<1>5. CASE Requeue(j)
  <2>1. over \subseteq over' /\ [job |-> j, start |-> lsf[j].start, end |-> Second(clock)] \in over'
    BY <1>5 DEF Requeue, RunOver
  <2>2. lsf'[j].start = 0 /\ \A k \in Jobs \ {j} : lsf'[k] = lsf[k]
    BY <1>1, <1>5, WaitingType DEF Requeue
  <2>3. \E r \in over' : r.job = j /\ r.start = lsf[j].start
    BY <2>1
  <2> QED
    BY <1>5, <2>1, <2>2, <2>3 DEF HostsSteps, Requeue, page
<1> QED
  BY <1>3, <1>4, <1>5

\* A job that is not started has no hosts.
LEMMA WaitingHosts ==
  ASSUME IInv, \A j \in Jobs : lsf[j].start = 0 => lsf[j].hosts = <<>>,
         NEW k \in Jobs, Dispatch(k) \/ Finish(k) \/ Requeue(k)
  PROVE  \A j \in Jobs : lsf'[j].start = 0 => lsf'[j].hosts = <<>>
<1>1. lsf \in [Jobs -> Life] /\ Second(clock) \in Nat \ {0}
  BY LsfSecond DEF IInv, TypeOK, Recording, RunsInOrder
<1>2. CASE Dispatch(k)
  <2>1. \E life : lsf' = [lsf EXCEPT ![k] = life] /\ life.start = Second(clock)
    <3>1. PICK hosts \in HostLists[k], u \in Usage :
            lsf' = [lsf EXCEPT ![k] =
              [bits |-> {"RUN"}, start |-> Second(clock), end |-> 0, exit |-> 0, hosts |-> hosts,
               cpu |-> u.cpu, maxMem |-> u.maxMem, swap |-> u.swap]]
      BY <1>2 DEF Dispatch
    <3> DEFINE life == [bits |-> {"RUN"}, start |-> Second(clock), end |-> 0, exit |-> 0, hosts |-> hosts,
                       cpu |-> u.cpu, maxMem |-> u.maxMem, swap |-> u.swap]
    <3>2. lsf' = [lsf EXCEPT ![k] = life] /\ life.start = Second(clock)
      BY <3>1
    <3> QED
      BY <3>2
  <2> QED
    BY <1>1, <2>1
<1>3. CASE Finish(k)
  <2>1. PICK bits : lsf' = [lsf EXCEPT ![k].bits = bits, ![k].end = Second(clock),
                                       ![k].exit = IF bits = {"EXIT"} THEN 1 ELSE 0]
    BY <1>3 DEF Finish
  <2>2. lsf[k] \in Life
    BY <1>1
  <2>3. \A j \in Jobs : lsf'[j].start = lsf[j].start /\ lsf'[j].hosts = lsf[j].hosts
    BY <1>1, <2>1, <2>2 DEF Life
  <2> QED
    BY <2>3
<1>4. CASE Requeue(k)
  <2>1. Waiting.hosts = <<>>
    BY DEF Waiting
  <2> QED
    BY <1>1, <1>4, <2>1 DEF Requeue
<1> QED
  BY <1>2, <1>3, <1>4

\* What a record says of hosts when it is read.
LEMMA HostsRead ==
  ASSUME NEW j \in Jobs, lsf[j].start = 0 => lsf[j].hosts = <<>>, NEW kb
  PROVE  HostsOf(JobOf(j, Entry[j], lsf[j], kb), lsf, over)
<1> DEFINE job == JobOf(j, Entry[j], lsf[j], kb)
<1>1. /\ job.id = j /\ job.start = lsf[j].start
      /\ job.execution_host = FormatExecutionHosts(lsf[j].hosts)
  BY DEF JobOf
<1> HIDE DEF job
<1>2. HostsOf(job, lsf, over)
  BY <1>1, NoHosts DEF HostsOf
<1> QED
  BY <1>2 DEF job

\* A publication keeps the hosts of what was read.
LEMMA PublishedHosts ==
  ASSUME IInv, Publish, \A i \in 1..Len(jobs) : HostsOf(jobs[i], lsf, over)
  PROVE  \A i \in 1..snapshot'.own : HostsOf(snapshot'.data.jobs[i], lsf, over)
<1>1. PICK payload \in Payloads :
        snapshot' = [data |-> Merge(jobs, payload), own |-> Len(jobs), at |-> clock,
                     took |-> duration, gap |-> clock - (began + duration)]
  BY DEF Publish
<1>2. snapshot'.own = Len(jobs) /\ snapshot'.data.jobs = jobs \o payload.jobs
  BY <1>1 DEF Merge
<1>3. payload.jobs \in Seq(ToSet(payload.jobs)) /\ jobs \in Seq(ToSet(jobs))
  BY PayloadJobs DEF IInv, Recording, JobsRecorded
<1>4. Len(jobs) \in Nat /\ \A i \in 1..Len(jobs) : (jobs \o payload.jobs)[i] = jobs[i]
  BY <1>3, ConcatAny
<1> QED
  BY <1>2, <1>4

\* No step forgets a job's hosts.
LEMMA NextHostsKept == IInv /\ HostsKept /\ [Next]_vars => HostsKept'
<1> SUFFICES ASSUME IInv, HostsKept, [Next]_vars PROVE HostsKept'
  OBVIOUS
<1>2. CASE UNCHANGED <<cluster, collection, snapshot, view>>
  BY <1>2 DEF HostsKept, HostsOf, cluster, collection
<1>3. CASE Open
  <2>1. jobs' = <<>> /\ Len(<<>>) = 0 /\ snapshot' = snapshot /\ view' = view /\ UNCHANGED <<lsf, over>>
    BY <1>3 DEF Open, page, cluster
  <2> QED
    BY <2>1 DEF HostsKept
<1>4. ASSUME NEW j \in Jobs, Read(j) PROVE HostsKept'
  <2>1. PICK kb : jobs' = Append(jobs, JobOf(j, Entry[j], lsf[j], kb))
    BY <1>4 DEF Read
  <2> DEFINE job == JobOf(j, Entry[j], lsf[j], kb)
  <2>2. HostsOf(job, lsf, over)
    BY HostsRead DEF HostsKept
  <2> HIDE DEF job
  <2>3. jobs' = Append(jobs, job)
    BY <2>1 DEF job
  <2>4. /\ snapshot' = snapshot /\ view' = view /\ jobs \in Seq(ToSet(jobs))
        /\ phase = "reading" /\ phase' = phase /\ lsf' = lsf /\ over' = over
    BY <1>4 DEF Read, page, cluster, IInv, Recording, JobsRecorded
  <2>5. /\ Len(jobs') = Len(jobs) + 1 /\ Len(jobs) \in Nat
        /\ \A i \in 1..Len(jobs) : jobs'[i] = jobs[i]
        /\ jobs'[Len(jobs) + 1] = job
    BY <2>3, <2>4, AppendToAny
  <2>6. ASSUME NEW i \in 1..Len(jobs') PROVE HostsOf(jobs'[i], lsf, over)
    <3>1. i \in 1..Len(jobs) \/ i = Len(jobs) + 1
      BY <2>5
    <3> QED
      BY <2>2, <2>4, <2>5, <3>1 DEF HostsKept
  <2> QED
    BY <2>4, <2>6 DEF HostsKept
<1>6. CASE Publish
  <2>1. Len(<<>>) = 0 /\ jobs' = <<>> /\ view' = view /\ UNCHANGED <<lsf, over>>
    BY <1>6 DEF Publish, page, cluster
  <2>2. \A i \in 1..snapshot'.own : HostsOf(snapshot'.data.jobs[i], lsf, over)
    BY <1>6, PublishedHosts DEF Publish, HostsKept
  <2> QED
    BY <2>1, <2>2 DEF HostsKept
<1>7. CASE SourceReturns \/ SourceFails
  <2>1. /\ Len(<<>>) = 0 /\ phase = "reading" /\ (jobs' = jobs \/ jobs' = <<>>)
        /\ snapshot' = snapshot /\ view' = view /\ UNCHANGED <<lsf, over>>
    BY <1>7 DEF SourceReturns, SourceFails, page, cluster
  <2> QED
    BY <2>1 DEF HostsKept
<1>8. CASE TakeSnapshot
  <2>1. view'.snapshot = snapshot /\ snapshot' = snapshot /\ UNCHANGED <<collection, lsf, over>>
    BY <1>8 DEF TakeSnapshot, cluster
  <2> QED
    BY <2>1 DEF HostsKept, collection
<1>9. CASE Reply
  <2>1. /\ view'.snapshot.own = 0 /\ snapshot' = snapshot /\ UNCHANGED <<collection, lsf, over>>
    BY <1>9, NothingYet DEF Reply, cluster
  <2> QED
    BY <2>1 DEF HostsKept, collection
<1>10. ASSUME NEW j \in Jobs, Dispatch(j) \/ Finish(j) \/ Requeue(j) PROVE HostsKept'
  <2>1. HostsSteps /\ UNCHANGED <<collection, snapshot, view>>
    BY <1>10, StepsOfHosts
  <2>2. \A k \in Jobs : lsf'[k].start = 0 => lsf'[k].hosts = <<>>
    BY <1>10, WaitingHosts DEF HostsKept
  <2>3. ASSUME NEW job, job.id \in Jobs /\ job.start \in Nat, HostsOf(job, lsf, over)
        PROVE  HostsOf(job, lsf', over')
    BY <2>1, <2>3, HostsStay
  <2>4. ASSUME phase # "idle", NEW i \in 1..Len(jobs) PROVE HostsOf(jobs[i], lsf', over')
    <3>1. jobs[i].id \in Jobs /\ jobs[i].start \in Nat
      BY <2>4 DEF IInv, Recording, JobsRecorded, Recorded
    <3>2. HostsOf(jobs[i], lsf, over)
      BY <2>4 DEF HostsKept
    <3> QED
      BY <2>3, <3>1, <3>2
  <2>5. ASSUME NEW i \in 1..snapshot.own PROVE HostsOf(snapshot.data.jobs[i], lsf', over')
    <3>1. Recorded(snapshot.data.jobs[i], Since(snapshot), snapshot.at, over)
      BY DEF IInv, Recording, SnapshotRecorded
    <3>2. HostsOf(snapshot.data.jobs[i], lsf, over)
      BY DEF HostsKept
    <3> QED
      BY <2>3, <3>1, <3>2 DEF Recorded
  <2>6. ASSUME NEW i \in 1..view.snapshot.own PROVE HostsOf(view.snapshot.data.jobs[i], lsf', over')
    <3>1. Recorded(view.snapshot.data.jobs[i], Since(view.snapshot), view.snapshot.at, over)
      BY DEF IInv, Recording, SnapshotRecorded
    <3>2. HostsOf(view.snapshot.data.jobs[i], lsf, over)
      BY DEF HostsKept
    <3> QED
      BY <2>3, <3>1, <3>2 DEF Recorded
  <2> QED
    BY <2>1, <2>2, <2>4, <2>5, <2>6 DEF HostsKept, collection
<1>11. CASE Tick \/ WritePage
  BY <1>2, <1>11 DEF Tick, WritePage, page
<1>12. CASE UNCHANGED vars
  BY <1>2, <1>12 DEF vars, page
<1> QED
  BY <1>3, <1>4, <1>6, <1>7, <1>8, <1>9, <1>10, <1>11, <1>12 DEF Next

-----------------------------------------------------------------------------
\* The jobs of a page are texts, as what is on the way to it.
LEMMA ShownJobs ==
  ASSUME Typed
  PROVE  /\ Data.jobs \in Seq(ToSet(Data.jobs)) /\ Len(Data.jobs) \in Nat
         /\ DOMAIN Data.jobs = 1..Len(Data.jobs)
         /\ \A i \in DOMAIN Data.jobs : Texts(Data.jobs[i], JobTexts)
<1>1. DataType(Data)
  BY DEF Typed, Data
<1>2. Data.jobs \in Seq(ToSet(Data.jobs))
  BY <1>1 DEF DataType, Texts, IsSeq
<1>3. \A i \in DOMAIN Data.jobs : Data.jobs[i] \in ToSet(Data.jobs)
  BY DEF ToSet
<1> QED
  BY <1>1, <1>2, <1>3 DEF DataType

\* An information series is that of one job.
LEMMA InfoSample ==
  ASSUME NEW s \in Infos
  PROVE  \E i \in DOMAIN Data.jobs : s \in JobInfo(<<"job", i>>, Data.jobs[i]) /\ s.of[2] = i
<1>1. PICK i \in DOMAIN Data.jobs : s \in JobInfo(<<"job", i>>, Data.jobs[i])
  BY DEF Infos
<1>2. s.of = <<"job", i>>
  BY <1>1 DEF JobInfo, Gauge
<1>3. s.of[2] = i
  BY <1>2
<1> QED
  BY <1>1, <1>3

\* Labels that are texts are read back.
LEMMA ReadBack == Typed => LabelsReadBack
<1> SUFFICES ASSUME Typed, NEW s \in Infos
             PROVE  LET job == Data.jobs[s.of[2]]
                    IN  /\ ReadsBackAs(s.labels.user, job.user)
                        /\ ReadsBackAs(s.labels.queue, job.queue)
                        /\ ReadsBackAs(s.labels.status, job.status)
                        /\ ReadsBackAs(s.labels.job_name, job.name)
                        /\ ReadsBackAs(s.labels.project, job.project)
                        /\ ReadsBackAs(s.labels.application, job.application)
                        /\ ReadsBackAs(s.labels.execution_host, job.execution_host)
  BY DEF LabelsReadBack
<1>1. PICK i \in DOMAIN Data.jobs : s \in JobInfo(<<"job", i>>, Data.jobs[i]) /\ s.of[2] = i
  BY InfoSample
<1> DEFINE job == Data.jobs[i]
<1>2. Texts(job, JobTexts)
  BY ShownJobs
<1>3. /\ s.labels.user = Escape(job.user) /\ s.labels.queue = Escape(job.queue)
      /\ s.labels.status = Escape(job.status) /\ s.labels.job_name = Escape(job.name)
      /\ s.labels.project = Escape(job.project) /\ s.labels.application = Escape(job.application)
      /\ s.labels.execution_host = Escape(job.execution_host)
  BY <1>1 DEF JobInfo, Gauge
<1> HIDE DEF job
<1>4. \A text : IsSeq(text) => ReadsBackAs(Escape(text), text)
  BY EscapeReadsBack DEF IsSeq
<1>5. /\ IsSeq(job.user) /\ IsSeq(job.queue) /\ IsSeq(job.status) /\ IsSeq(job.name)
      /\ IsSeq(job.project) /\ IsSeq(job.application) /\ IsSeq(job.execution_host)
  BY <1>2 DEF Texts, JobTexts
<1> QED
  BY <1>1, <1>3, <1>4, <1>5 DEF job

\* Whatever users put into the names of their jobs, and whatever the external
\* command returns: Prometheus reads from every label of lsf_job_info the text
\* that escapeLabel was given.
THEOREM LabelsAreReadBack == Spec => []LabelsReadBack
<1>1. ASSUME IInv, Typed, [Next]_vars PROVE Typed'
  BY <1>1, NextTyped
<1> QED
  BY <1>1, InitTyped, Invariance, ReadBack, PTL DEF Spec

\* Hosts that are kept, and written once each, count the slots.
LEMMA Counted == IInv /\ Typed /\ HostsKept => SlotsCounted
<1> SUFFICES ASSUME IInv, Typed, HostsKept, scrape = "written", NEW s \in Infos,
                    s.of[2] <= view.snapshot.own,
                    lsf[Data.jobs[s.of[2]].id].start = Data.jobs[s.of[2]].start,
                    NEW h \in ToSet(lsf[Data.jobs[s.of[2]].id].hosts) \ {NoText}
             PROVE  LET job   == Data.jobs[s.of[2]]
                        text  == job.execution_host
                        hosts == lsf[job.id].hosts
                        slots == Cardinality({k \in DOMAIN hosts : hosts[k] = h})
                        at    == {i \in DOMAIN text : <<text[i]>> = h}
                    IN  /\ Cardinality(at) = 1
                        /\ \A i \in at :
                             IF slots = 1 THEN i = 1 \/ text[i - 1] = Comma
                             ELSE text[i - 1] = Times /\ text[i - 2] = Numeral(slots)
  BY DEF SlotsCounted, Infos
<1>1. PICK i \in DOMAIN Data.jobs : s.of[2] = i
  BY InfoSample
<1> DEFINE job   == Data.jobs[i]
           hosts == lsf[job.id].hosts
<1>2. i \in 1..view.snapshot.own
  BY <1>1, ShownJobs DEF IInv, Recording, SnapshotType
<1>3. job.id \in Jobs /\ job.start \in Nat
  <2>1. Recorded(job, Since(view.snapshot), view.snapshot.at, over)
    BY <1>2 DEF IInv, Recording, SnapshotRecorded, Data
  <2> QED
    BY <2>1 DEF Recorded
<1>4. HostsOf(job, lsf, over)
  BY <1>2 DEF HostsKept, Data
<1>5. HostList(hosts)
  BY <1>3, HostListOf DEF IInv
<1>6. job.start > 0
  <2>1. job.start = 0 => hosts = <<>>
    BY <1>1, <1>3 DEF HostsKept
  <2>2. ToSet(<<>>) = {}
    BY NoElements
  <2> QED
    BY <1>1, <1>3, <2>1, <2>2
<1>7. job.execution_host = FormatExecutionHosts(hosts)
  BY <1>1, <1>4, <1>6 DEF HostsOf
<1>8. h \in ToSet(hosts) \ {NoText}
  BY <1>1
<1> HIDE DEF hosts
<1>9. LET text  == FormatExecutionHosts(hosts)
          slots == Cardinality({k \in DOMAIN hosts : hosts[k] = h})
          at    == {k \in DOMAIN text : <<text[k]>> = h}
      IN  /\ Cardinality(at) = 1
          /\ \A k \in at :
               IF slots = 1 THEN k = 1 \/ text[k - 1] = Comma
               ELSE text[k - 1] = Times /\ text[k - 2] = Numeral(slots)
  BY <1>5, <1>8, HostsNamedOnce
<1> QED
  BY <1>1, <1>7, <1>9 DEF hosts

\* Whatever has become of a job since: as long as LSF knows the run that a page
\* is about, execution_host names each of its hosts once, with its slots.
THEOREM SlotsAreCounted == Spec => []SlotsCounted
<1>1. ASSUME IInv, Typed, [Next]_vars PROVE Typed'
  BY <1>1, NextTyped
<1>2. ASSUME IInv, HostsKept, [Next]_vars PROVE HostsKept'
  BY <1>2, NextHostsKept
<1> QED
  BY <1>1, <1>2, InitTyped, Invariance, Counted, PTL DEF Spec

-----------------------------------------------------------------------------
\* What the samples of a name are about.
KindOf ==
  [lsf_exporter_snapshot_jobs |-> "page", lsf_exporter_snapshot_queues |-> "page",
   lsf_exporter_snapshot_hosts |-> "page", lsf_exporter_snapshot_licenses |-> "page",
   lsf_exporter_snapshot_custom_resources |-> "page",
   lsf_job_info |-> "job", lsf_job_cpu_time_seconds |-> "job", lsf_job_requested_cpu |-> "job",
   lsf_job_memory_kilobytes |-> "job", lsf_job_requested_memory_kilobytes |-> "job",
   lsf_job_swap_kilobytes |-> "job", lsf_job_gpu_requested |-> "job", lsf_job_gpu_used |-> "job",
   lsf_job_runtime_seconds |-> "job", lsf_job_exit_status |-> "job",
   lsf_jobs_total |-> "status",
   lsf_queue_info |-> "queue", lsf_queue_priority |-> "queue", lsf_queue_jobs |-> "queue",
   lsf_queue_max_jobs |-> "queue", lsf_queue_open |-> "queue", lsf_queue_active |-> "queue",
   lsf_host_info |-> "host", lsf_host_jobs |-> "host", lsf_host_max_jobs |-> "host",
   lsf_host_closed |-> "host", lsf_host_load |-> "host",
   lsf_cluster_info |-> "cluster", lsf_cluster_master_up |-> "cluster",
   lsf_license_total |-> "license", lsf_license_used |-> "license", lsf_license_free |-> "license",
   lsf_custom_resource_total |-> "resource", lsf_custom_resource_used |-> "resource",
   lsf_custom_resource_free |-> "resource"]

\* Samples of one name, that are told apart by their labels.
Named(S, of, name) ==
  \A u \in S : u.of = of /\ u.name = name /\ \A v \in S : u.labels = v.labels => u = v

\* Samples that are told apart by name and labels.
ToldApart(S) == \A u, v \in S : u.name = v.name /\ u.labels = v.labels => u = v

\* A gauge has the name and the labels it is given.
LEMMA NamedGauge ==
  ASSUME NEW of, NEW name, NEW labels, NEW value
  PROVE  /\ Named(Gauge(of, name, labels, value), of, name)
         /\ \A u \in Gauge(of, name, labels, value) :
              u = [of |-> of, name |-> name, labels |-> labels, value |-> value] /\ u.labels = labels
BY DEF Named, Gauge

\* So has one that is left out at zero,
LEMMA NamedPositive ==
  ASSUME NEW of, NEW name, NEW labels, NEW value
  PROVE  /\ Named(Positive(of, name, labels, value), of, name)
         /\ \A u \in Positive(of, name, labels, value) : u.labels = labels
BY NamedGauge DEF Named, Positive

\* and one behind a pointer.
LEMMA NamedFlag ==
  ASSUME NEW of, NEW name, NEW labels, NEW flag, Pointer(flag)
  PROVE  /\ Named(Flag(of, name, labels, flag), of, name)
         /\ \A u \in Flag(of, name, labels, flag) : u.labels = labels
BY DEF Named, Flag, Gauge, Pointer

\* Parts are told apart by their names, and samples within a part by labels.
LEMMA NamedParts ==
  ASSUME NEW of, NEW Part, NEW S, \A u \in S : \E n \in DOMAIN Part : u \in Part[n],
         \A n \in DOMAIN Part : Named(Part[n], of, n)
  PROVE  ToldApart(S) /\ \A u \in S : u.of = of /\ u.name \in DOMAIN Part /\ u \in Part[u.name]
<1>1. ASSUME NEW u \in S PROVE u.of = of /\ u.name \in DOMAIN Part /\ u \in Part[u.name]
  BY <1>1 DEF Named
<1>2. ASSUME NEW u \in S, NEW v \in S, u.name = v.name, u.labels = v.labels PROVE u = v
  <2>1. u \in Part[u.name] /\ v \in Part[u.name] /\ u.name \in DOMAIN Part
    BY <1>1, <1>2
  <2> QED
    BY <1>2, <2>1 DEF Named
<1> QED
  BY <1>1, <1>2 DEF ToldApart

\* The series of a queue are told apart, and carry its name.
LEMMA QueueSample ==
  ASSUME NEW of, NEW q, Pointer(q.open), Pointer(q.active)
  PROVE  /\ ToldApart(QueueSeries(of, q))
         /\ \A s \in QueueSeries(of, q) :
              s.of = of /\ KindOf[s.name] = "queue" /\ s.labels.queue = Escape(q.name)
<1> DEFINE name   == Escape(q.name)
           labels == [queue |-> name]
           States == {"total", "pending", "running", "suspended"}
           info   == Gauge(of, "lsf_queue_info", [queue |-> name, status |-> Escape(q.status)], 1)
           prio   == Gauge(of, "lsf_queue_priority", labels, q.priority)
           counts == UNION {Gauge(of, "lsf_queue_jobs", [queue |-> name, state |-> state], q[state]) :
                              state \in States}
           most   == Positive(of, "lsf_queue_max_jobs", labels, q.maxJobs)
           open   == Flag(of, "lsf_queue_open", labels, q.open)
           active == Flag(of, "lsf_queue_active", labels, q.active)
<1>1. labels.queue = name /\ [queue |-> name, status |-> Escape(q.status)].queue = name
  OBVIOUS
<1>2. Named(info, of, "lsf_queue_info") /\ \A s \in info : s.labels.queue = name
  BY <1>1, NamedGauge
<1>3. Named(prio, of, "lsf_queue_priority") /\ \A s \in prio : s.labels.queue = name
  BY <1>1, NamedGauge
<1>4. Named(counts, of, "lsf_queue_jobs") /\ \A s \in counts : s.labels.queue = name
  <2> HIDE DEF States, name
  <2>1. \A s \in counts : \E state \in States :
          s = [of |-> of, name |-> "lsf_queue_jobs",
               labels |-> [queue |-> name, state |-> state], value |-> q[state]]
    BY DEF Gauge
  <2>2. ASSUME NEW s \in counts PROVE s.of = of /\ s.name = "lsf_queue_jobs" /\ s.labels.queue = name
    BY <2>1
  <2>3. ASSUME NEW s \in counts, NEW t \in counts, s.labels = t.labels PROVE s = t
    <3>1. PICK x \in States : s = [of |-> of, name |-> "lsf_queue_jobs",
                                   labels |-> [queue |-> name, state |-> x], value |-> q[x]]
      BY <2>1
    <3>2. PICK y \in States : t = [of |-> of, name |-> "lsf_queue_jobs",
                                   labels |-> [queue |-> name, state |-> y], value |-> q[y]]
      BY <2>1
    <3>3. s.labels.state = x /\ t.labels.state = y
      BY <3>1, <3>2
    <3> QED
      BY <2>3, <3>1, <3>2, <3>3
  <2> QED
    BY <2>2, <2>3 DEF Named
<1>5. Named(most, of, "lsf_queue_max_jobs") /\ \A s \in most : s.labels.queue = name
  BY <1>1, NamedPositive
<1>6. Named(open, of, "lsf_queue_open") /\ \A s \in open : s.labels.queue = name
  BY <1>1, NamedFlag
<1>7. Named(active, of, "lsf_queue_active") /\ \A s \in active : s.labels.queue = name
  BY <1>1, NamedFlag
<1> DEFINE Part == [lsf_queue_info |-> info, lsf_queue_priority |-> prio, lsf_queue_jobs |-> counts,
                    lsf_queue_max_jobs |-> most, lsf_queue_open |-> open, lsf_queue_active |-> active]
<1>8. QueueSeries(of, q) = info \cup prio \cup counts \cup most \cup open \cup active
  BY DEF QueueSeries
<1> HIDE DEF info, prio, counts, most, open, active, name
<1>9. \A n \in DOMAIN Part :
        KindOf[n] = "queue" /\ Named(Part[n], of, n) /\ \A s \in Part[n] : s.labels.queue = name
  BY <1>2, <1>3, <1>4, <1>5, <1>6, <1>7 DEF KindOf
<1>10. \A s \in QueueSeries(of, q) : \E n \in DOMAIN Part : s \in Part[n]
  BY <1>8
<1> HIDE DEF Part
<1>11. /\ ToldApart(QueueSeries(of, q))
       /\ \A s \in QueueSeries(of, q) : s.of = of /\ s.name \in DOMAIN Part /\ s \in Part[s.name]
  BY <1>9, <1>10, NamedParts
<1> QED
  BY <1>9, <1>11 DEF name

\* Different texts are escaped differently.
LEMMA EscapeApart ==
  ASSUME NEW s, NEW t, IsSeq(s), IsSeq(t), Escape(s) = Escape(t)
  PROVE  s = t
<1>1. ReadsBackAs(Escape(s), s) /\ ReadsBackAs(Escape(t), t)
  BY EscapeReadsBack DEF IsSeq
<1> QED
  BY <1>1 DEF ReadsBackAs

\* The series of a host are told apart, and carry its name.
LEMMA HostSample ==
  ASSUME NEW of, NEW h, Pointer(h.closed), \A r \in DOMAIN h.load : IsSeq(r)
  PROVE  /\ ToldApart(HostSeries(of, h))
         /\ \A s \in HostSeries(of, h) :
              s.of = of /\ KindOf[s.name] = "host" /\ s.labels.host = Escape(h.name)
<1> DEFINE name   == Escape(h.name)
           labels == [host |-> name]
           States == {"total", "running", "suspended"}
           info   == Gauge(of, "lsf_host_info", [host |-> name, status |-> Escape(h.status)], 1)
           counts == UNION {Gauge(of, "lsf_host_jobs", [host |-> name, state |-> state], h[state]) :
                              state \in States}
           most   == Positive(of, "lsf_host_max_jobs", labels, h.maxJobs)
           closed == Flag(of, "lsf_host_closed", labels, h.closed)
           load   == UNION {Gauge(of, "lsf_host_load", [host |-> name, resource |-> Escape(r)],
                                  h.load[r]) : r \in DOMAIN h.load}
<1>1. labels.host = name /\ [host |-> name, status |-> Escape(h.status)].host = name
  OBVIOUS
<1>2. Named(info, of, "lsf_host_info") /\ \A s \in info : s.labels.host = name
  BY <1>1, NamedGauge
<1>3. Named(counts, of, "lsf_host_jobs") /\ \A s \in counts : s.labels.host = name
  <2> HIDE DEF States, name
  <2>1. \A s \in counts : \E state \in States :
          s = [of |-> of, name |-> "lsf_host_jobs",
               labels |-> [host |-> name, state |-> state], value |-> h[state]]
    BY DEF Gauge
  <2>2. ASSUME NEW s \in counts PROVE s.of = of /\ s.name = "lsf_host_jobs" /\ s.labels.host = name
    <3>1. PICK x \in States : s = [of |-> of, name |-> "lsf_host_jobs",
                                   labels |-> [host |-> name, state |-> x], value |-> h[x]]
      BY <2>1
    <3> QED
      BY <3>1
  <2>3. ASSUME NEW s \in counts, NEW t \in counts, s.labels = t.labels PROVE s = t
    <3>1. PICK x \in States : s = [of |-> of, name |-> "lsf_host_jobs",
                                   labels |-> [host |-> name, state |-> x], value |-> h[x]]
      BY <2>1
    <3>2. PICK y \in States : t = [of |-> of, name |-> "lsf_host_jobs",
                                   labels |-> [host |-> name, state |-> y], value |-> h[y]]
      BY <2>1
    <3>3. s.labels.state = x /\ t.labels.state = y
      BY <3>1, <3>2
    <3> QED
      BY <2>3, <3>1, <3>2, <3>3
  <2> QED
    BY <2>2, <2>3 DEF Named
<1>4. Named(load, of, "lsf_host_load") /\ \A s \in load : s.labels.host = name
  <2> HIDE DEF name
  <2>1. \A s \in load : \E r \in DOMAIN h.load :
          s = [of |-> of, name |-> "lsf_host_load",
               labels |-> [host |-> name, resource |-> Escape(r)], value |-> h.load[r]]
    BY DEF Gauge
  <2>2. ASSUME NEW s \in load PROVE s.of = of /\ s.name = "lsf_host_load" /\ s.labels.host = name
    BY <2>1
  <2>3. ASSUME NEW s \in load, NEW t \in load, s.labels = t.labels PROVE s = t
    <3>1. PICK x \in DOMAIN h.load : s = [of |-> of, name |-> "lsf_host_load",
                                   labels |-> [host |-> name, resource |-> Escape(x)],
                                   value |-> h.load[x]]
      BY <2>1
    <3>2. PICK y \in DOMAIN h.load : t = [of |-> of, name |-> "lsf_host_load",
                                   labels |-> [host |-> name, resource |-> Escape(y)],
                                   value |-> h.load[y]]
      BY <2>1
    <3>3. s.labels.resource = Escape(x) /\ t.labels.resource = Escape(y)
      BY <3>1, <3>2
    <3>4. x = y
      BY <2>3, <3>3, EscapeApart
    <3> QED
      BY <3>1, <3>2, <3>4
  <2> QED
    BY <2>2, <2>3 DEF Named
<1>5. Named(most, of, "lsf_host_max_jobs") /\ \A s \in most : s.labels.host = name
  BY <1>1, NamedPositive
<1>6. Named(closed, of, "lsf_host_closed") /\ \A s \in closed : s.labels.host = name
  BY <1>1, NamedFlag
<1> DEFINE Part == [lsf_host_info |-> info, lsf_host_jobs |-> counts, lsf_host_max_jobs |-> most,
                    lsf_host_closed |-> closed, lsf_host_load |-> load]
<1>7. HostSeries(of, h) = info \cup counts \cup most \cup closed \cup load
  BY DEF HostSeries
<1> HIDE DEF info, counts, most, closed, load, name
<1>8. \A n \in DOMAIN Part :
        KindOf[n] = "host" /\ Named(Part[n], of, n) /\ \A s \in Part[n] : s.labels.host = name
  BY <1>2, <1>3, <1>4, <1>5, <1>6 DEF KindOf
<1>9. \A s \in HostSeries(of, h) : \E n \in DOMAIN Part : s \in Part[n]
  BY <1>7
<1> HIDE DEF Part
<1>10. /\ ToldApart(HostSeries(of, h))
       /\ \A s \in HostSeries(of, h) : s.of = of /\ s.name \in DOMAIN Part /\ s \in Part[s.name]
  BY <1>8, <1>9, NamedParts
<1> QED
  BY <1>8, <1>10 DEF name

\* The series of the cluster are told apart.
LEMMA ClusterSample ==
  ASSUME NEW of, NEW c, Pointer(c.masterUp)
  PROVE  /\ ToldApart(ClusterSeries(of, c))
         /\ \A s \in ClusterSeries(of, c) : s.of = of /\ KindOf[s.name] = "cluster"
<1> DEFINE labels == [cluster |-> Escape(c.name), master |-> Escape(c.master)]
           info   == Gauge(of, "lsf_cluster_info", [cluster |-> Escape(c.name),
                           master |-> Escape(c.master), status |-> Escape(c.status)], 1)
           up     == Flag(of, "lsf_cluster_master_up", labels, c.masterUp)
           Part   == [lsf_cluster_info |-> info, lsf_cluster_master_up |-> up]
<1>1. Named(info, of, "lsf_cluster_info")
  BY NamedGauge
<1>2. Named(up, of, "lsf_cluster_master_up")
  BY NamedFlag
<1>3. ClusterSeries(of, c) = info \cup up
  BY DEF ClusterSeries
<1> HIDE DEF info, up
<1>4. \A n \in DOMAIN Part : KindOf[n] = "cluster" /\ Named(Part[n], of, n)
  BY <1>1, <1>2 DEF KindOf
<1>5. \A s \in ClusterSeries(of, c) : \E n \in DOMAIN Part : s \in Part[n]
  BY <1>3
<1> HIDE DEF Part
<1>6. /\ ToldApart(ClusterSeries(of, c))
      /\ \A s \in ClusterSeries(of, c) : s.of = of /\ s.name \in DOMAIN Part /\ s \in Part[s.name]
  BY <1>4, <1>5, NamedParts
<1> QED
  BY <1>4, <1>6

\* The series of a license are told apart, and carry its feature.
LEMMA LicenseSample ==
  ASSUME NEW of, NEW l
  PROVE  /\ ToldApart(LicenseSeries(of, l))
         /\ \A s \in LicenseSeries(of, l) :
              s.of = of /\ KindOf[s.name] = "license" /\ s.labels.feature = Escape(l.feature)
<1> DEFINE labels == [feature |-> Escape(l.feature)]
           total  == Gauge(of, "lsf_license_total", labels, l.total)
           used   == Gauge(of, "lsf_license_used", labels, l.used)
           free   == Gauge(of, "lsf_license_free", labels, l.free)
           Part   == [lsf_license_total |-> total, lsf_license_used |-> used,
                      lsf_license_free |-> free]
<1>1. Named(total, of, "lsf_license_total") /\ \A s \in total : s.labels = labels
  BY NamedGauge
<1>2. Named(used, of, "lsf_license_used") /\ \A s \in used : s.labels = labels
  BY NamedGauge
<1>3. Named(free, of, "lsf_license_free") /\ \A s \in free : s.labels = labels
  BY NamedGauge
<1>4. LicenseSeries(of, l) = total \cup used \cup free
  BY DEF LicenseSeries
<1>5. labels.feature = Escape(l.feature)
  OBVIOUS
<1> HIDE DEF total, used, free, labels
<1>6. \A n \in DOMAIN Part :
        KindOf[n] = "license" /\ Named(Part[n], of, n) /\ \A s \in Part[n] : s.labels = labels
  BY <1>1, <1>2, <1>3 DEF KindOf
<1>7. \A s \in LicenseSeries(of, l) : \E n \in DOMAIN Part : s \in Part[n]
  BY <1>4
<1> HIDE DEF Part
<1>8. /\ ToldApart(LicenseSeries(of, l))
      /\ \A s \in LicenseSeries(of, l) : s.of = of /\ s.name \in DOMAIN Part /\ s \in Part[s.name]
  BY <1>6, <1>7, NamedParts
<1> QED
  BY <1>5, <1>6, <1>8

\* The series of a resource are told apart, and carry its name and location.
LEMMA ResourceSample ==
  ASSUME NEW of, NEW r
  PROVE  /\ ToldApart(ResourceSeries(of, r))
         /\ \A s \in ResourceSeries(of, r) :
              /\ s.of = of /\ KindOf[s.name] = "resource"
              /\ s.labels.resource = Escape(r.name) /\ s.labels.location = Escape(r.location)
<1> DEFINE labels == [resource |-> Escape(r.name), type |-> Escape(r.type),
                      location |-> Escape(r.location)]
           total  == Gauge(of, "lsf_custom_resource_total", labels, r.total)
           used   == Gauge(of, "lsf_custom_resource_used", labels, r.used)
           free   == Gauge(of, "lsf_custom_resource_free", labels, r.free)
           Part   == [lsf_custom_resource_total |-> total, lsf_custom_resource_used |-> used,
                      lsf_custom_resource_free |-> free]
<1>1. Named(total, of, "lsf_custom_resource_total") /\ \A s \in total : s.labels = labels
  BY NamedGauge
<1>2. Named(used, of, "lsf_custom_resource_used") /\ \A s \in used : s.labels = labels
  BY NamedGauge
<1>3. Named(free, of, "lsf_custom_resource_free") /\ \A s \in free : s.labels = labels
  BY NamedGauge
<1>4. ResourceSeries(of, r) = total \cup used \cup free
  BY DEF ResourceSeries
<1>5. labels.resource = Escape(r.name) /\ labels.location = Escape(r.location)
  OBVIOUS
<1> HIDE DEF total, used, free, labels
<1>6. \A n \in DOMAIN Part :
        KindOf[n] = "resource" /\ Named(Part[n], of, n) /\ \A s \in Part[n] : s.labels = labels
  BY <1>1, <1>2, <1>3 DEF KindOf
<1>7. \A s \in ResourceSeries(of, r) : \E n \in DOMAIN Part : s \in Part[n]
  BY <1>4
<1> HIDE DEF Part
<1>8. /\ ToldApart(ResourceSeries(of, r))
      /\ \A s \in ResourceSeries(of, r) : s.of = of /\ s.name \in DOMAIN Part /\ s \in Part[s.name]
  BY <1>6, <1>7, NamedParts
<1> QED
  BY <1>5, <1>6, <1>8

\* The totals are told apart by status.
LEMMA StatusSample ==
  ASSUME NEW list, \A i \in DOMAIN list : IsSeq(list[i].status)
  PROVE  /\ ToldApart(StatusTotals(list))
         /\ \A t \in StatusTotals(list) : KindOf[t.name] = "status" /\ t.of[1] = "status"
<1> DEFINE Having(st) == Cardinality({i \in DOMAIN list : list[i].status = st})
           Total(st)  == [of |-> <<"status", st>>, name |-> "lsf_jobs_total",
                          labels |-> [status |-> Escape(st)], value |-> Having(st)]
           Statuses   == {list[i].status : i \in DOMAIN list}
<1>1. ASSUME NEW t \in StatusTotals(list) PROVE \E st \in Statuses : t = Total(st)
  <2>1. PICK st \in Statuses : t \in Gauge(<<"status", st>>, "lsf_jobs_total",
                                          [status |-> Escape(st)], Having(st))
    BY DEF StatusTotals
  <2>2. t = Total(st)
    BY <2>1 DEF Gauge
  <2> QED
    BY <2>2
<1>2. \A st \in Statuses : IsSeq(st)
  OBVIOUS
<1>3. ASSUME NEW st
      PROVE  Total(st).name = "lsf_jobs_total" /\ Total(st).of[1] = "status"
             /\ Total(st).labels.status = Escape(st)
  OBVIOUS
<1> HIDE DEF Total, Statuses
<1>4. ASSUME NEW s \in StatusTotals(list), NEW t \in StatusTotals(list), s.labels = t.labels
      PROVE  s = t
  <2>1. PICK x \in Statuses : s = Total(x)
    BY <1>1
  <2>2. PICK y \in Statuses : t = Total(y)
    BY <1>1
  <2>3. Escape(x) = Escape(y)
    BY <1>3, <1>4, <2>1, <2>2
  <2>4. x = y
    BY <1>2, <2>3, EscapeApart
  <2> QED
    BY <2>1, <2>2, <2>4
<1>5. ASSUME NEW t \in StatusTotals(list)
      PROVE  KindOf[t.name] = "status" /\ t.of[1] = "status"
  <2>1. t.name = "lsf_jobs_total" /\ t.of[1] = "status"
    BY <1>1, <1>3
  <2>2. KindOf["lsf_jobs_total"] = "status"
    BY DEF KindOf
  <2> QED
    BY <2>1, <2>2
<1> QED
  BY <1>4, <1>5 DEF ToldApart

\* A job's series have names of jobs' series.
LEMMA JobKind ==
  ASSUME NEW of, NEW job, NEW now, NEW s \in JobSeries(of, job, now)
  PROVE  KindOf[s.name] = "job"
<1>1. DOMAIN Figures(job) = {"lsf_job_cpu_time_seconds", "lsf_job_requested_cpu",
               "lsf_job_memory_kilobytes", "lsf_job_requested_memory_kilobytes",
               "lsf_job_swap_kilobytes", "lsf_job_gpu_requested", "lsf_job_gpu_used"}
  BY DEF Figures
<1>2. \A u \in JobInfo(of, job) : u.name = "lsf_job_info"
  BY DEF JobInfo, Gauge
<1>3. \A u \in JobRunTime(of, job, now) : u.name = "lsf_job_runtime_seconds"
  BY DEF JobRunTime, Positive, Gauge
<1>4. \A u \in JobExit(of, job) : u.name = "lsf_job_exit_status"
  BY DEF JobExit, Gauge
<1>5. \A u \in JobFigures(of, job) : u.name \in DOMAIN Figures(job)
  BY DEF JobFigures, Positive, Gauge
<1>6. s.name \in {"lsf_job_info", "lsf_job_runtime_seconds", "lsf_job_exit_status"}
        \cup DOMAIN Figures(job)
  BY <1>2, <1>3, <1>4, <1>5 DEF JobSeries
<1> QED
  BY <1>1, <1>6 DEF KindOf

\* The samples that give the sizes of the parts of a snapshot.
Sizes(data) ==
  Gauge(<<"page">>, "lsf_exporter_snapshot_jobs", <<>>, Len(data.jobs))
  \cup Gauge(<<"page">>, "lsf_exporter_snapshot_queues", <<>>, Len(data.queues))
  \cup Gauge(<<"page">>, "lsf_exporter_snapshot_hosts", <<>>, Len(data.hosts))
  \cup Gauge(<<"page">>, "lsf_exporter_snapshot_licenses", <<>>, Len(data.licenses))
  \cup Gauge(<<"page">>, "lsf_exporter_snapshot_custom_resources", <<>>, Len(data.resources))

\* The series of a page as a whole are told apart.
LEMMA SizeSample ==
  ASSUME NEW data
  PROVE  ToldApart(Sizes(data)) /\ \A s \in Sizes(data) : KindOf[s.name] = "page"
<1> DEFINE Names == {"lsf_exporter_snapshot_jobs", "lsf_exporter_snapshot_queues",
                     "lsf_exporter_snapshot_hosts", "lsf_exporter_snapshot_licenses",
                     "lsf_exporter_snapshot_custom_resources"}
           Size(n) == CASE n = "lsf_exporter_snapshot_jobs"      -> Len(data.jobs)
                        [] n = "lsf_exporter_snapshot_queues"    -> Len(data.queues)
                        [] n = "lsf_exporter_snapshot_hosts"     -> Len(data.hosts)
                        [] n = "lsf_exporter_snapshot_licenses"  -> Len(data.licenses)
                        [] n = "lsf_exporter_snapshot_custom_resources" -> Len(data.resources)
           Sample(n) == [of |-> <<"page">>, name |-> n, labels |-> <<>>, value |-> Size(n)]
<1>1. ASSUME NEW s \in Sizes(data) PROVE \E n \in Names : s = Sample(n)
  BY DEF Sizes, Gauge
<1>2. \A n \in Names : KindOf[n] = "page"
  BY DEF KindOf
<1>3. \A n : Sample(n).name = n
  OBVIOUS
<1> HIDE DEF Names, Sample
<1> QED
  BY <1>1, <1>2, <1>3 DEF ToldApart

\* Every sample of a page is about one part of the snapshot.
LEMMA OnPage ==
  ASSUME NEW data, NEW now, NEW s \in Page(data, now)
  PROVE  \/ s \in Sizes(data)
         \/ s \in StatusTotals(data.jobs)
         \/ \E i \in DOMAIN data.jobs : s \in JobSeries(<<"job", i>>, data.jobs[i], now)
         \/ \E i \in DOMAIN data.queues : s \in QueueSeries(<<"queue", i>>, data.queues[i])
         \/ \E i \in DOMAIN data.hosts : s \in HostSeries(<<"host", i>>, data.hosts[i])
         \/ \E c \in data.cluster : s \in ClusterSeries(<<"cluster">>, c)
         \/ \E i \in DOMAIN data.licenses : s \in LicenseSeries(<<"license", i>>, data.licenses[i])
         \/ \E i \in DOMAIN data.resources :
              s \in ResourceSeries(<<"resource", i>>, data.resources[i])
<1> DEFINE JobPart      == UNION {JobSeries(<<"job", i>>, data.jobs[i], now) : i \in DOMAIN data.jobs}
           QueuePart    == UNION {QueueSeries(<<"queue", i>>, data.queues[i]) :
                                    i \in DOMAIN data.queues}
           HostPart     == UNION {HostSeries(<<"host", i>>, data.hosts[i]) : i \in DOMAIN data.hosts}
           ClusterPart  == UNION {ClusterSeries(<<"cluster">>, c) : c \in data.cluster}
           LicensePart  == UNION {LicenseSeries(<<"license", i>>, data.licenses[i]) :
                                    i \in DOMAIN data.licenses}
           ResourcePart == UNION {ResourceSeries(<<"resource", i>>, data.resources[i]) :
                                    i \in DOMAIN data.resources}
<1>1. Page(data, now) = Sizes(data) \cup JobPart \cup StatusTotals(data.jobs) \cup QueuePart
                          \cup HostPart \cup ClusterPart \cup LicensePart \cup ResourcePart
  <2>1. Each("job", data.jobs, LAMBDA of, job : JobSeries(of, job, now)) = JobPart
    BY DEF Each
  <2>2. Each("queue", data.queues, QueueSeries) = QueuePart
    BY DEF Each
  <2>3. Each("host", data.hosts, HostSeries) = HostPart
    BY DEF Each
  <2>4. Each("license", data.licenses, LicenseSeries) = LicensePart
    BY DEF Each
  <2>5. Each("resource", data.resources, ResourceSeries) = ResourcePart
    BY DEF Each
  <2> HIDE DEF JobPart, QueuePart, HostPart, ClusterPart, LicensePart, ResourcePart
  <2> QED
    BY <2>1, <2>2, <2>3, <2>4, <2>5 DEF Page, Sizes, ClusterPart
<1>2. s \in Sizes(data) \/ s \in JobPart \/ s \in StatusTotals(data.jobs) \/ s \in QueuePart
        \/ s \in HostPart \/ s \in ClusterPart \/ s \in LicensePart \/ s \in ResourcePart
  <2> HIDE DEF JobPart, QueuePart, HostPart, ClusterPart, LicensePart, ResourcePart
  <2> QED
    BY <1>1
<1> QED
  BY <1>2

-----------------------------------------------------------------------------
\* Two samples of one series are of different entries of the same name.
Duplicates(s, t) == s.of[1] = t.of[1] /\ s.of # t.of /\ Subject(s.of) = Subject(t.of)

\* Two series that a scraper takes for one.
Collide(s, t) == s.name = t.name /\ s # t /\ s.labels = t.labels

\* The parts of a pair.
LEMMA Place == \A kind, i : <<kind, i>>[1] = kind /\ <<kind, i>>[2] = i
OBVIOUS

\* A member of a list is among its members.
LEMMA EntryOf ==
  ASSUME NEW list, IsSeq(list), NEW i \in DOMAIN list
  PROVE  list[i] \in ToSet(list)
BY DEF ToSet

\* Colliding series of jobs come from two records of a job,
LEMMA JobsCollide ==
  ASSUME IInv, Typed, ReadOnce, scrape = "written",
         NEW i \in DOMAIN Data.jobs, NEW s \in JobSeries(<<"job", i>>, Data.jobs[i], Now),
         NEW k \in DOMAIN Data.jobs, NEW t \in JobSeries(<<"job", k>>, Data.jobs[k], Now),
         Collide(s, t)
  PROVE  Duplicates(s, t)
<1>1. s.of = <<"job", i>> /\ t.of = <<"job", k>>
  BY JobSample
<1>2. s \in JobSamples /\ t \in JobSamples
  BY ShownJobs DEF JobSamples
<1>3. s.of # t.of /\ Data.jobs[s.of[2]].id = Data.jobs[t.of[2]].id
  BY <1>2, Apart DEF JobSeriesApart, Collide
<1>4. s.of[1] = "job" /\ t.of[1] = "job" /\ s.of[2] = i /\ t.of[2] = k
  BY <1>1, Place
<1> QED
  BY <1>3, <1>4 DEF Duplicates, Subject

\* those of queues from two of a queue,
LEMMA QueuesCollide ==
  ASSUME DataType(Data),
         NEW i \in DOMAIN Data.queues, NEW s \in QueueSeries(<<"queue", i>>, Data.queues[i]),
         NEW k \in DOMAIN Data.queues, NEW t \in QueueSeries(<<"queue", k>>, Data.queues[k]),
         Collide(s, t)
  PROVE  Duplicates(s, t)
<1>1. ASSUME NEW n \in DOMAIN Data.queues
      PROVE  /\ IsSeq(Data.queues[n].name)
             /\ Pointer(Data.queues[n].open) /\ Pointer(Data.queues[n].active)
  <2>1. Data.queues[n] \in ToSet(Data.queues)
    BY EntryOf DEF DataType, Texts
  <2> QED
    BY <2>1 DEF DataType, Texts
<1>2. s.of = <<"queue", i>> /\ s.labels.queue = Escape(Data.queues[i].name)
  BY <1>1, QueueSample
<1>3. t.of = <<"queue", k>> /\ t.labels.queue = Escape(Data.queues[k].name)
  BY <1>1, QueueSample
<1>4. ToldApart(QueueSeries(<<"queue", i>>, Data.queues[i]))
  BY <1>1, QueueSample
<1>5. i # k
  BY <1>4 DEF Collide, ToldApart
<1>6. Data.queues[i].name = Data.queues[k].name
  BY <1>1, <1>2, <1>3, EscapeApart DEF Collide
<1>7. s.of[1] = "queue" /\ t.of[1] = "queue" /\ s.of[2] = i /\ t.of[2] = k
  BY <1>2, <1>3, Place
<1> QED
  BY <1>5, <1>6, <1>7 DEF Duplicates, Subject

\* those of hosts from two of a host,
LEMMA HostsCollide ==
  ASSUME DataType(Data),
         NEW i \in DOMAIN Data.hosts, NEW s \in HostSeries(<<"host", i>>, Data.hosts[i]),
         NEW k \in DOMAIN Data.hosts, NEW t \in HostSeries(<<"host", k>>, Data.hosts[k]),
         Collide(s, t)
  PROVE  Duplicates(s, t)
<1>1. ASSUME NEW n \in DOMAIN Data.hosts
      PROVE  /\ IsSeq(Data.hosts[n].name) /\ Pointer(Data.hosts[n].closed)
             /\ \A r \in DOMAIN Data.hosts[n].load : IsSeq(r)
  <2>1. Data.hosts[n] \in ToSet(Data.hosts)
    BY EntryOf DEF DataType, Texts
  <2> QED
    BY <2>1 DEF DataType, Texts
<1>2. s.of = <<"host", i>> /\ s.labels.host = Escape(Data.hosts[i].name)
  BY <1>1, HostSample
<1>3. t.of = <<"host", k>> /\ t.labels.host = Escape(Data.hosts[k].name)
  BY <1>1, HostSample
<1>4. ToldApart(HostSeries(<<"host", i>>, Data.hosts[i]))
  BY <1>1, HostSample
<1>5. i # k
  BY <1>4 DEF Collide, ToldApart
<1>6. Data.hosts[i].name = Data.hosts[k].name
  BY <1>1, <1>2, <1>3, EscapeApart DEF Collide
<1>7. s.of[1] = "host" /\ t.of[1] = "host" /\ s.of[2] = i /\ t.of[2] = k
  BY <1>2, <1>3, Place
<1> QED
  BY <1>5, <1>6, <1>7 DEF Duplicates, Subject

\* those of licenses from two of a license,
LEMMA LicensesCollide ==
  ASSUME DataType(Data),
         NEW i \in DOMAIN Data.licenses, NEW s \in LicenseSeries(<<"license", i>>, Data.licenses[i]),
         NEW k \in DOMAIN Data.licenses, NEW t \in LicenseSeries(<<"license", k>>, Data.licenses[k]),
         Collide(s, t)
  PROVE  Duplicates(s, t)
<1>1. ASSUME NEW n \in DOMAIN Data.licenses PROVE IsSeq(Data.licenses[n].feature)
  <2>1. Data.licenses[n] \in ToSet(Data.licenses)
    BY EntryOf DEF DataType, Texts
  <2> QED
    BY <2>1 DEF DataType, Texts
<1>2. s.of = <<"license", i>> /\ s.labels.feature = Escape(Data.licenses[i].feature)
  BY LicenseSample
<1>3. t.of = <<"license", k>> /\ t.labels.feature = Escape(Data.licenses[k].feature)
  BY LicenseSample
<1>4. ToldApart(LicenseSeries(<<"license", i>>, Data.licenses[i]))
  BY LicenseSample
<1>5. i # k
  BY <1>4 DEF Collide, ToldApart
<1>6. Data.licenses[i].feature = Data.licenses[k].feature
  BY <1>1, <1>2, <1>3, EscapeApart DEF Collide
<1>7. s.of[1] = "license" /\ t.of[1] = "license" /\ s.of[2] = i /\ t.of[2] = k
  BY <1>2, <1>3, Place
<1> QED
  BY <1>5, <1>6, <1>7 DEF Duplicates, Subject

\* those of resources from two of a resource.
LEMMA ResourcesCollide ==
  ASSUME DataType(Data),
         NEW i \in DOMAIN Data.resources,
         NEW s \in ResourceSeries(<<"resource", i>>, Data.resources[i]),
         NEW k \in DOMAIN Data.resources,
         NEW t \in ResourceSeries(<<"resource", k>>, Data.resources[k]),
         Collide(s, t)
  PROVE  Duplicates(s, t)
<1>1. ASSUME NEW n \in DOMAIN Data.resources
      PROVE  IsSeq(Data.resources[n].name) /\ IsSeq(Data.resources[n].location)
  <2>1. Data.resources[n] \in ToSet(Data.resources)
    BY EntryOf DEF DataType, Texts
  <2> QED
    BY <2>1 DEF DataType, Texts
<1>2. /\ s.of = <<"resource", i>> /\ s.labels.resource = Escape(Data.resources[i].name)
      /\ s.labels.location = Escape(Data.resources[i].location)
  BY ResourceSample
<1>3. /\ t.of = <<"resource", k>> /\ t.labels.resource = Escape(Data.resources[k].name)
      /\ t.labels.location = Escape(Data.resources[k].location)
  BY ResourceSample
<1>4. ToldApart(ResourceSeries(<<"resource", i>>, Data.resources[i]))
  BY ResourceSample
<1>5. i # k
  BY <1>4 DEF Collide, ToldApart
<1>6. Data.resources[i].name = Data.resources[k].name
  BY <1>1, <1>2, <1>3, EscapeApart DEF Collide
<1>7. Data.resources[i].location = Data.resources[k].location
  BY <1>1, <1>2, <1>3, EscapeApart DEF Collide
<1>8. s.of[1] = "resource" /\ t.of[1] = "resource" /\ s.of[2] = i /\ t.of[2] = k
  BY <1>2, <1>3, Place
<1> QED
  BY <1>5, <1>6, <1>7, <1>8 DEF Duplicates, Subject

\* What a sample of the page is of, by the kind of its name.
LEMMA OfItsKind ==
  ASSUME NEW data, DataType(data), NEW now, NEW s \in Page(data, now)
  PROVE  /\ KindOf[s.name] = "page" => s \in Sizes(data)
         /\ KindOf[s.name] = "status" => s \in StatusTotals(data.jobs)
         /\ KindOf[s.name] = "job" =>
              \E i \in DOMAIN data.jobs : s \in JobSeries(<<"job", i>>, data.jobs[i], now)
         /\ KindOf[s.name] = "queue" =>
              \E i \in DOMAIN data.queues : s \in QueueSeries(<<"queue", i>>, data.queues[i])
         /\ KindOf[s.name] = "host" =>
              \E i \in DOMAIN data.hosts : s \in HostSeries(<<"host", i>>, data.hosts[i])
         /\ KindOf[s.name] = "cluster" =>
              \E c \in data.cluster : s \in ClusterSeries(<<"cluster">>, c)
         /\ KindOf[s.name] = "license" =>
              \E i \in DOMAIN data.licenses : s \in LicenseSeries(<<"license", i>>, data.licenses[i])
         /\ KindOf[s.name] = "resource" =>
              \E i \in DOMAIN data.resources :
                s \in ResourceSeries(<<"resource", i>>, data.resources[i])
         /\ KindOf[s.name] \in {"page", "status", "job", "queue", "host", "cluster", "license",
                                "resource"}
<1>1. s \in Sizes(data) => KindOf[s.name] = "page"
  BY SizeSample
<1>2. s \in StatusTotals(data.jobs) => KindOf[s.name] = "status"
  <2>1. \A i \in DOMAIN data.jobs : IsSeq(data.jobs[i].status)
    BY EntryOf DEF DataType, Texts, JobTexts
  <2> QED
    BY <2>1, StatusSample
<1>3. ASSUME NEW i \in DOMAIN data.jobs, s \in JobSeries(<<"job", i>>, data.jobs[i], now)
      PROVE  KindOf[s.name] = "job"
  BY <1>3, JobKind
<1>4. ASSUME NEW i \in DOMAIN data.queues, s \in QueueSeries(<<"queue", i>>, data.queues[i])
      PROVE  KindOf[s.name] = "queue"
  <2>1. data.queues[i] \in ToSet(data.queues)
    BY EntryOf DEF DataType, Texts
  <2>2. Pointer(data.queues[i].open) /\ Pointer(data.queues[i].active)
    BY <2>1 DEF DataType
  <2> QED
    BY <1>4, <2>2, QueueSample
<1>5. ASSUME NEW i \in DOMAIN data.hosts, s \in HostSeries(<<"host", i>>, data.hosts[i])
      PROVE  KindOf[s.name] = "host"
  <2>1. data.hosts[i] \in ToSet(data.hosts)
    BY EntryOf DEF DataType, Texts
  <2>2. Pointer(data.hosts[i].closed) /\ \A r \in DOMAIN data.hosts[i].load : IsSeq(r)
    BY <2>1 DEF DataType
  <2> QED
    BY <1>5, <2>2, HostSample
<1>6. ASSUME NEW c \in data.cluster, s \in ClusterSeries(<<"cluster">>, c)
      PROVE  KindOf[s.name] = "cluster"
  BY <1>6, ClusterSample DEF DataType
<1>7. ASSUME NEW i \in DOMAIN data.licenses, s \in LicenseSeries(<<"license", i>>, data.licenses[i])
      PROVE  KindOf[s.name] = "license"
  BY <1>7, LicenseSample
<1>8. ASSUME NEW i \in DOMAIN data.resources,
             s \in ResourceSeries(<<"resource", i>>, data.resources[i])
      PROVE  KindOf[s.name] = "resource"
  BY <1>8, ResourceSample
<1> QED
  BY <1>1, <1>2, <1>3, <1>4, <1>5, <1>6, <1>7, <1>8, OnPage

\* And no series collides with one of another kind.
LEMMA PageCollides ==
  ASSUME IInv, Typed, ReadOnce, NEW s \in ThePage, NEW t \in ThePage, Collide(s, t)
  PROVE  Duplicates(s, t)
<1> DEFINE now  == Now
           kind == KindOf[s.name]
<1>1. scrape = "written" /\ s \in Page(Data, now) /\ t \in Page(Data, now)
  BY DEF ThePage
<1>2. KindOf[t.name] = kind /\ DataType(Data)
  BY DEF Collide, Typed, Data
<1> HIDE DEF kind, now
<1>3. CASE kind = "page"
  <2>1. s \in Sizes(Data) /\ t \in Sizes(Data)
    BY <1>1, <1>2, <1>3, OfItsKind DEF kind
  <2> QED
    BY <2>1, SizeSample DEF Collide, ToldApart
<1>4. CASE kind = "status"
  <2>1. s \in StatusTotals(Data.jobs) /\ t \in StatusTotals(Data.jobs)
    BY <1>1, <1>2, <1>4, OfItsKind DEF kind
  <2>2. \A i \in DOMAIN Data.jobs : IsSeq(Data.jobs[i].status)
    BY ShownJobs DEF Texts, JobTexts
  <2> QED
    BY <2>1, <2>2, StatusSample DEF Collide, ToldApart
<1>5. CASE kind = "job"
  <2>1. PICK i \in DOMAIN Data.jobs : s \in JobSeries(<<"job", i>>, Data.jobs[i], now)
    BY <1>1, <1>2, <1>5, OfItsKind DEF kind
  <2>2. PICK k \in DOMAIN Data.jobs : t \in JobSeries(<<"job", k>>, Data.jobs[k], now)
    BY <1>1, <1>2, <1>5, OfItsKind DEF kind
  <2> QED
    BY <1>1, <2>1, <2>2, JobsCollide DEF now
<1>6. CASE kind = "queue"
  <2>1. PICK i \in DOMAIN Data.queues : s \in QueueSeries(<<"queue", i>>, Data.queues[i])
    BY <1>1, <1>2, <1>6, OfItsKind DEF kind
  <2>2. PICK k \in DOMAIN Data.queues : t \in QueueSeries(<<"queue", k>>, Data.queues[k])
    BY <1>1, <1>2, <1>6, OfItsKind DEF kind
  <2> QED
    BY <1>2, <2>1, <2>2, QueuesCollide
<1>7. CASE kind = "host"
  <2>1. PICK i \in DOMAIN Data.hosts : s \in HostSeries(<<"host", i>>, Data.hosts[i])
    BY <1>1, <1>2, <1>7, OfItsKind DEF kind
  <2>2. PICK k \in DOMAIN Data.hosts : t \in HostSeries(<<"host", k>>, Data.hosts[k])
    BY <1>1, <1>2, <1>7, OfItsKind DEF kind
  <2> QED
    BY <1>2, <2>1, <2>2, HostsCollide
<1>8. CASE kind = "cluster"
  <2>1. PICK c \in Data.cluster : s \in ClusterSeries(<<"cluster">>, c)
    BY <1>1, <1>2, <1>8, OfItsKind DEF kind
  <2>2. PICK d \in Data.cluster : t \in ClusterSeries(<<"cluster">>, d)
    BY <1>1, <1>2, <1>8, OfItsKind DEF kind
  <2>3. c = d /\ Pointer(c.masterUp)
    BY <1>2 DEF DataType, Pointer
  <2> QED
    BY <2>1, <2>2, <2>3, ClusterSample DEF Collide, ToldApart
<1>9. CASE kind = "license"
  <2>1. PICK i \in DOMAIN Data.licenses : s \in LicenseSeries(<<"license", i>>, Data.licenses[i])
    BY <1>1, <1>2, <1>9, OfItsKind DEF kind
  <2>2. PICK k \in DOMAIN Data.licenses : t \in LicenseSeries(<<"license", k>>, Data.licenses[k])
    BY <1>1, <1>2, <1>9, OfItsKind DEF kind
  <2> QED
    BY <1>2, <2>1, <2>2, LicensesCollide
<1>10. CASE kind = "resource"
  <2>1. PICK i \in DOMAIN Data.resources :
          s \in ResourceSeries(<<"resource", i>>, Data.resources[i])
    BY <1>1, <1>2, <1>10, OfItsKind DEF kind
  <2>2. PICK k \in DOMAIN Data.resources :
          t \in ResourceSeries(<<"resource", k>>, Data.resources[k])
    BY <1>1, <1>2, <1>10, OfItsKind DEF kind
  <2> QED
    BY <1>2, <2>1, <2>2, ResourcesCollide
<1>11. kind \in {"page", "status", "job", "queue", "host", "cluster", "license", "resource"}
  BY <1>1, <1>2, OfItsKind DEF kind
<1> QED
  BY <1>3, <1>4, <1>5, <1>6, <1>7, <1>8, <1>9, <1>10, <1>11

\* So much for the whole page.
LEMMA CollideOnly == IInv /\ Typed /\ ReadOnce => SeriesCollideOnlyForDuplicates
BY Apart, PageCollides DEF SeriesCollideOnlyForDuplicates, Collide, Duplicates

\* Whatever LSF and the external command give: two samples of a page are of one
\* series only if they are about one thing that has been described twice.
THEOREM SeriesCollide == Spec => []SeriesCollideOnlyForDuplicates
<1>1. ASSUME IInv, Typed, [Next]_vars PROVE Typed'
  BY <1>1, NextTyped
<1>2. ASSUME IInv, ReadOnce, [Next]_vars PROVE ReadOnce'
  BY <1>2, NextReadOnce
<1> QED
  BY <1>1, <1>2, InitTyped, InitReadOnce, Invariance, CollideOnly, PTL DEF Spec

\* The sum of the values of the samples of a set, by any function that counts
\* them one by one.
LEMMA SumBy ==
  ASSUME NEW S, IsFiniteSet(S), NEW h, h[{}] = 0,
         \A U \in SUBSET S : U # {} =>
           h[U] = (CHOOSE x \in U : TRUE).value + h[U \ {CHOOSE x \in U : TRUE}]
  PROVE  FoldSet(LAMBDA t, sum : t.value + sum, 0, S) = h[S]
<1> DEFINE first(U) == CHOOSE x \in U : TRUE
           Sums(g) == g = [U \in SUBSET S |-> IF U = {} THEN 0
                                              ELSE first(U).value + g[U \ {first(U)}]]
           g == CHOOSE f : Sums(f)
           k == [U \in SUBSET S |-> h[U]]
<1>1. FoldSet(LAMBDA t, sum : t.value + sum, 0, S) = g[S]
  BY DEF FoldSet, MapThenFoldSet
<1>2. Sums(k)
  <2>1. ASSUME NEW U \in SUBSET S
        PROVE  h[U] = IF U = {} THEN 0 ELSE first(U).value + k[U \ {first(U)}]
    <3>1. k[U \ {first(U)}] = h[U \ {first(U)}]
      OBVIOUS
    <3> QED
      BY <3>1
  <2> QED
    BY <2>1
<1>3. Sums(g)
  <2> HIDE DEF Sums, k
  <2> QED
    BY <1>2
<1> HIDE DEF g, k
<1>4. \A U \in SUBSET S : g[U] = IF U = {} THEN 0 ELSE first(U).value + g[U \ {first(U)}]
  BY <1>3
<1> DEFINE F == {U \in SUBSET S : g[U] # h[U]}
<1>5. F = {}
  <2> SUFFICES ASSUME F # {} PROVE FALSE
    OBVIOUS
  <2>1. PICK U \in F : \A W \in F : W \subseteq U => W = U
    <3>1. F \in SUBSET SUBSET S
      OBVIOUS
    <3> HIDE DEF F
    <3> QED
      BY <3>1, Smallest
  <2>2. U # {} /\ U \in SUBSET S
    BY <1>4, <2>1
  <2>3. first(U) \in U
    BY <2>2
  <2> HIDE DEF first
  <2>4. g[U \ {first(U)}] = h[U \ {first(U)}]
    BY <2>1, <2>2, <2>3
  <2>5. g[U] = h[U]
    BY <1>4, <2>2, <2>4 DEF first
  <2> QED
    BY <2>1, <2>5
<1> QED
  BY <1>1, <1>5

\* The records of a status, and the sample that counts them.
Having(list, status) == {i \in DOMAIN list : list[i].status = status}

\* The total of a status.
StatusTotal(list, status) ==
  [of |-> <<"status", status>>, name |-> "lsf_jobs_total",
   labels |-> [status |-> Escape(status)], value |-> Cardinality(Having(list, status))]

\* The statuses of a list of jobs.
Statuses(list) == {list[i].status : i \in DOMAIN list}

\* There is one total for each status.
LEMMA TotalsAre ==
  ASSUME NEW list
  PROVE  StatusTotals(list) = {StatusTotal(list, status) : status \in Statuses(list)}
BY DEF StatusTotals, Gauge, StatusTotal, Having, Statuses

\* What a total says.
LEMMA TotalOf ==
  ASSUME NEW list, NEW status
  PROVE  /\ StatusTotal(list, status).of[2] = status
         /\ StatusTotal(list, status).labels.status = Escape(status)
         /\ StatusTotal(list, status).value = Cardinality(Having(list, status))
BY DEF StatusTotal

\* The records that some of the totals count.
CountedBy(list, U) == {i \in DOMAIN list : \E t \in U : list[i].status = t.of[2]}

\* Every job is in the total of its status and in no other.
LEMMA TotalsAddUp ==
  ASSUME NEW list, DOMAIN list = 1..Len(list), Len(list) \in Nat
  PROVE  Len(list) = FoldSet(LAMBDA t, sum : t.value + sum, 0, StatusTotals(list))
<1> DEFINE T == StatusTotals(list)
           h == [U \in SUBSET T |-> Cardinality(CountedBy(list, U))]
<1>1. IsFiniteSet(DOMAIN list) /\ Cardinality(DOMAIN list) = Len(list)
  <2>1. ASSUME NEW n \in Nat PROVE IsFiniteSet(1..n) /\ Cardinality(1..n) = n
    BY FS_Interval
  <2> QED
    BY <2>1
<1>2. IsFiniteSet(T)
  <2> DEFINE f == [i \in DOMAIN list |-> StatusTotal(list, list[i].status)]
  <2>1. f \in Surjection(DOMAIN list, T)
    BY TotalsAre DEF Surjection, Statuses
  <2> QED
    BY <1>1, <2>1, FS_Surjection
<1>3. \A t \in T : t.value = Cardinality(Having(list, t.of[2])) /\ t = StatusTotal(list, t.of[2])
  BY TotalsAre, TotalOf
<1>4. CountedBy(list, T) = DOMAIN list
  <2>1. ASSUME NEW i \in DOMAIN list PROVE i \in CountedBy(list, T)
    <3>1. StatusTotal(list, list[i].status) \in T
      BY TotalsAre DEF Statuses
    <3>2. StatusTotal(list, list[i].status).of[2] = list[i].status
      BY TotalOf
    <3> HIDE DEF T
    <3> QED
      BY <3>1, <3>2 DEF CountedBy
  <2> QED
    BY <2>1 DEF CountedBy
<1> HIDE DEF T
<1>5. h[{}] = 0
  BY FS_EmptySet DEF CountedBy
<1>6. ASSUME NEW U \in SUBSET T, NEW t \in U PROVE h[U] = t.value + h[U \ {t}]
  <2> DEFINE A == CountedBy(list, U)
             B == CountedBy(list, U \ {t})
             C == Having(list, t.of[2])
  <2>1. A = B \cup C
    BY DEF CountedBy, Having
  <2>2. B \cap C = {}
    <3> SUFFICES ASSUME NEW i \in B, i \in C PROVE FALSE
      OBVIOUS
    <3>1. PICK s \in U \ {t} : list[i].status = s.of[2]
      BY DEF CountedBy
    <3>2. s.of[2] = t.of[2]
      BY <3>1 DEF Having
    <3> QED
      BY <1>3, <3>1, <3>2
  <2>3. B \in SUBSET DOMAIN list /\ C \in SUBSET DOMAIN list
    BY DEF CountedBy, Having
  <2>4. h[U] = Cardinality(A) /\ h[U \ {t}] = Cardinality(B) /\ t.value = Cardinality(C)
    BY <1>3
  <2> HIDE DEF A, B, C, h
  <2>5. IsFiniteSet(B) /\ IsFiniteSet(C)
    BY <1>1, <2>3, FS_Subset
  <2>6. Cardinality(B) \in Nat /\ Cardinality(C) \in Nat
    BY <2>5, FS_CardinalityType
  <2>7. Cardinality(A) = Cardinality(B) + Cardinality(C) - Cardinality(B \cap C)
    BY <2>1, <2>5, FS_Union
  <2>8. Cardinality(B \cap C) = 0
    BY <2>2, FS_EmptySet
  <2> QED
    BY <2>4, <2>6, <2>7, <2>8
<1>7. h[T] = Len(list)
  BY <1>1, <1>4
<1> HIDE DEF h
<1>8. \A U \in SUBSET T : U # {} =>
        h[U] = (CHOOSE x \in U : TRUE).value + h[U \ {CHOOSE x \in U : TRUE}]
  BY <1>6
<1>9. FoldSet(LAMBDA t, sum : t.value + sum, 0, T) = h[T]
  BY <1>2, <1>5, <1>8, SumBy
<1> QED
  BY <1>7, <1>9 DEF T

\* The labels of a job's lsf_job_info.
InfoLabels(job) ==
  [job_id         |-> job.id,
   user           |-> Escape(job.user),
   queue          |-> Escape(job.queue),
   status         |-> Escape(job.status),
   job_name       |-> Escape(job.name),
   project        |-> Escape(job.project),
   application    |-> Escape(job.application),
   execution_host |-> Escape(job.execution_host)]

\* There is an information series with the given labels exactly if a job has them.
LEMMA InfosAre ==
  ASSUME scrape = "written", NEW labels
  PROVE  (\E s \in Infos : s.labels = labels) <=>
           \E i \in DOMAIN Data.jobs : labels = InfoLabels(Data.jobs[i])
<1> DEFINE info(i) == [of |-> <<"job", i>>, name |-> "lsf_job_info",
                      labels |-> InfoLabels(Data.jobs[i]), value |-> 1]
<1>1. \A i : JobInfo(<<"job", i>>, Data.jobs[i]) = {info(i)}
  BY DEF JobInfo, Gauge, InfoLabels
<1>2. \A i : info(i).labels = InfoLabels(Data.jobs[i])
  OBVIOUS
<1> HIDE DEF info
<1>3. \A s : s \in Infos <=> \E i \in DOMAIN Data.jobs : s = info(i)
  BY <1>1 DEF Infos
<1> QED
  BY <1>2, <1>3

\* As many series as there are records with ids of their own, and no more than
\* there are records.
LEMMA InfosOfStatus ==
  ASSUME Typed, scrape = "written", NEW status \in Statuses(Data.jobs)
  PROVE  LET labels == {s.labels : s \in {s \in Infos : s.labels.status = Escape(status)}}
             count  == Cardinality(Having(Data.jobs, status))
         IN  /\ Cardinality(labels) <= count
             /\ (\A i, k \in DOMAIN Data.jobs : i # k => Data.jobs[i].id # Data.jobs[k].id)
                  => Cardinality(labels) = count
<1> DEFINE labels == {s.labels : s \in {s \in Infos : s.labels.status = Escape(status)}}
           A == Having(Data.jobs, status)
           f == [i \in A |-> InfoLabels(Data.jobs[i])]
<1>1. IsFiniteSet(A)
  <2>1. IsFiniteSet(DOMAIN Data.jobs) /\ A \in SUBSET DOMAIN Data.jobs
    BY ShownJobs, FS_Interval DEF Having
  <2> QED
    BY <2>1, FS_Subset
<1>2. \A i \in DOMAIN Data.jobs : IsSeq(Data.jobs[i].status)
  BY ShownJobs DEF Texts, JobTexts
<1>3. \A i \in DOMAIN Data.jobs :
        /\ InfoLabels(Data.jobs[i]).status = Escape(Data.jobs[i].status)
        /\ InfoLabels(Data.jobs[i]).job_id = Data.jobs[i].id
  BY DEF InfoLabels
<1>4. IsSeq(status)
  BY <1>2 DEF Statuses
<1>5. \A x : x \in labels <=> (\E s \in Infos : s.labels = x) /\ x.status = Escape(status)
  OBVIOUS
<1> HIDE DEF labels
<1>6. ASSUME NEW x \in labels PROVE \E i \in A : x = InfoLabels(Data.jobs[i])
  <2>1. PICK i \in DOMAIN Data.jobs : x = InfoLabels(Data.jobs[i])
    BY <1>5, InfosAre
  <2>2. Escape(Data.jobs[i].status) = Escape(status)
    BY <1>3, <1>5, <2>1
  <2>3. Data.jobs[i].status = status
    BY <1>2, <1>4, <2>2, EscapeApart
  <2> QED
    BY <2>1, <2>3 DEF Having
<1>7. ASSUME NEW i \in A PROVE InfoLabels(Data.jobs[i]) \in labels
  <2>1. i \in DOMAIN Data.jobs /\ Data.jobs[i].status = status
    BY DEF Having
  <2>2. \E s \in Infos : s.labels = InfoLabels(Data.jobs[i])
    BY <2>1, InfosAre
  <2> QED
    BY <1>3, <1>5, <2>1, <2>2
<1>8. f \in Surjection(A, labels)
  <2>1. f \in [A -> labels]
    BY <1>7
  <2>2. \A x \in labels : \E i \in A : f[i] = x
    BY <1>6
  <2> HIDE DEF f, A
  <2> QED
    BY <2>1, <2>2 DEF Surjection
<1>9. ASSUME \A i, k \in DOMAIN Data.jobs : i # k => Data.jobs[i].id # Data.jobs[k].id
      PROVE  f \in Injection(A, labels)
  <2>1. ASSUME NEW i \in A, NEW k \in A, f[i] = f[k] PROVE i = k
    <3>1. i \in DOMAIN Data.jobs /\ k \in DOMAIN Data.jobs
      BY DEF Having
    <3>2. InfoLabels(Data.jobs[i]) = InfoLabels(Data.jobs[k])
      BY <2>1
    <3> QED
      BY <1>3, <1>9, <3>1, <3>2
  <2>2. f \in [A -> labels]
    BY <1>7
  <2> HIDE DEF f, A
  <2> QED
    BY <2>1, <2>2 DEF Injection, IsInjective
<1> HIDE DEF f, A
<1>10. /\ Cardinality(labels) <= Cardinality(A)
       /\ Cardinality(labels) = Cardinality(A) <=> f \in Injection(A, labels)
  BY <1>1, <1>8, FS_Surjection
<1> QED
  BY <1>9, <1>10 DEF labels, A

\* So the totals match the jobs shown.
LEMMA TotalsMatch == Typed => TotalsMatchInfo
<1> SUFFICES ASSUME Typed, scrape = "written" PROVE TotalsMatchInfo
  BY DEF TotalsMatchInfo, Totals
<1>1. Totals = StatusTotals(Data.jobs)
  BY DEF Totals
<1>2. Len(Data.jobs) = FoldSet(LAMBDA t, sum : t.value + sum, 0, Totals)
  BY <1>1, ShownJobs, TotalsAddUp
<1> DEFINE info(s) == {i.labels : i \in {i \in Infos : i.labels.status = s}}
           once    == \A i, k \in DOMAIN Data.jobs : i # k => Data.jobs[i].id # Data.jobs[k].id
<1>3. ASSUME NEW t \in Totals
      PROVE  /\ Cardinality(info(t.labels.status)) <= t.value
             /\ once => Cardinality(info(t.labels.status)) = t.value
  <2>1. PICK status \in Statuses(Data.jobs) : t = StatusTotal(Data.jobs, status)
    BY <1>1, TotalsAre
  <2>2. t.labels.status = Escape(status) /\ t.value = Cardinality(Having(Data.jobs, status))
    BY <2>1, TotalOf
  <2> QED
    BY <2>2, InfosOfStatus
<1> QED
  BY <1>2, <1>3 DEF TotalsMatchInfo

\* Whatever is on a page: the jobs by status add up to the size of the
\* snapshot, and to the lsf_job_info series of that status unless a job comes
\* twice.
THEOREM TotalsAgree == Spec => []TotalsMatchInfo
<1>1. ASSUME IInv, Typed, [Next]_vars PROVE Typed'
  BY <1>1, NextTyped
<1> QED
  BY <1>1, InitTyped, Invariance, TotalsMatch, PTL DEF Spec
=============================================================================
