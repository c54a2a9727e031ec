------------------------------- MODULE Scrape -------------------------------
(***************************************************************************)
(* From LSF to the page Prometheus reads: jobs live and end in LSF, a      *)
(* collection reads their records one by one and publishes a snapshot with *)
(* what the external command has added, a scrape writes it out.  Time      *)
(* passes between any two of these steps, SecondTicks ticks to the second. *)
(* LSF and writeJobMetrics cut their clocks to whole seconds, the age and  *)
(* the duration of a page are not cut; all of them are counted in ticks.   *)
(*                                                                         *)
(* When a collection may begin, and what becomes of one that fails, is the *)
(* matter of CollectorService, LsfScan and Sources.                        *)
(***************************************************************************)
EXTENDS MetricSeries, Timestamps

CONSTANTS
  Jobs,          \* ids of the jobs in LSF
  Entry,         \* what was submitted under each id
  HostLists,     \* what each may be dispatched to, an item for a slot
  Usage,         \* what a running job may have used
  Payloads,      \* what the external command may return
  Ahead,         \* by how many ticks the exporter's clock may be ahead of LSF's
  QueryAllJobs,  \* finished jobs are asked for, too
  MaxTime,       \* bound: time stops here
  MaxCollections \* bound: collections begun

ASSUME ScrapeAssumption ==
  /\ Ahead \subseteq Int
  /\ QueryAllJobs \in BOOLEAN
  /\ MaxTime \in Nat /\ MaxCollections \in Nat
  /\ \A p \in Payloads : DataType(p)
  /\ \A j \in Jobs : Texts(Entry[j], {"user", "queue", "name", "project", "application"})

\* A host's name is one piece, and no part of what is written around it.
ASSUME HostAssumption ==
  \A j \in Jobs : \A hosts \in HostLists[j] :
    /\ IsSeq(hosts)
    /\ \A h \in ToSet(hosts) \ {NoText} :
         \E name \in ToSet(h) : h = <<name>> /\ name \notin {Comma, Times} \cup {Numeral(n) : n \in DOMAIN hosts}

VARIABLES
  clock,     \* LSF's clock, in ticks
  ahead,     \* the exporter's clock is ahead by so much
  lsf,       \* what LSF knows of each job
  phase,     \* the collection: "idle", "reading" or "returned"
  began,     \* its local start
  duration,  \* its local duration, 0 until its source has returned
  todo,      \* the jobs it has not read yet
  jobs,      \* the jobs it has read
  snapshot,  \* s.snapshot
  scrape,    \* the scrape: "idle", "aged" or "written"
  view,      \* the snapshot it has taken, and the age it has written
  \* History: not in the code, read by the properties only.
  opened,    \* collections begun, for their bound
  over,      \* the runs that are over: a job may run again
  aged,      \* when the scrape wrote the age
  written    \* when it wrote the jobs

cluster    == <<lsf, over>>
collection == <<phase, began, duration, todo, jobs, opened>>
page       == <<scrape, view, aged, written>>
vars       == <<clock, ahead, cluster, collection, snapshot, page>>

-----------------------------------------------------------------------------
\* A job that waits.
Waiting == [bits |-> {"PEND"}, start |-> 0, end |-> 0, exit |-> 0, hosts |-> <<>>,
            cpu |-> 0, maxMem |-> 0, swap |-> 0]

Life == [bits : SUBSET {"PEND", "RUN", "DONE", "PDONE", "EXIT"},
         start : Nat, end : Nat, exit : {0, 1},
         hosts : {<<>>} \cup UNION {HostLists[j] : j \in Jobs},
         cpu : {0} \cup {u.cpu : u \in Usage}, maxMem : {0} \cup {u.maxMem : u \in Usage},
         swap : {0} \cup {u.swap : u \in Usage}]
Run  == [job : Jobs, start : Nat, end : Nat]

Running(j)  == lsf[j].bits = {"RUN"}
Finished(j) == lsf[j].end > 0

\* at is 0 for a CollectedAt that IsZero.  Two fields are history: own is the
\* number of jobs that come from LSF, gap the time collectOnce let pass between
\* taking the duration and setting CollectedAt.
NoSnapshot == [data |-> NoData, own |-> 0, at |-> 0, took |-> 0, gap |-> 0]
NoView     == [snapshot |-> NoSnapshot, age |-> 0]

Init ==
  /\ clock = SecondTicks /\ ahead \in Ahead
  /\ lsf = [j \in Jobs |-> Waiting] /\ over = {}
  /\ phase = "idle" /\ began = 0 /\ duration = 0 /\ todo = {} /\ jobs = <<>> /\ opened = 0
  /\ snapshot = NoSnapshot
  /\ scrape = "idle" /\ view = NoView /\ aged = 0 /\ written = 0

Tick ==
  /\ clock < MaxTime
  /\ clock' = clock + 1
  /\ UNCHANGED <<ahead, cluster, collection, snapshot, page>>

(* ------------------- LSF (external), in whole seconds ----------------- *)

\* LSF takes a second or more before it starts a job again.
Dispatch(j) ==
  /\ lsf[j] = Waiting
  /\ \A r \in over : r.job = j => r.end < Second(clock)
  /\ \E hosts \in HostLists[j], u \in Usage :
       lsf' = [lsf EXCEPT ![j] =
         [bits |-> {"RUN"}, start |-> Second(clock), end |-> 0, exit |-> 0, hosts |-> hosts,
          cpu |-> u.cpu, maxMem |-> u.maxMem, swap |-> u.swap]]
  /\ UNCHANGED <<clock, ahead, over, collection, snapshot, page>>

RunOver(j) == over' = over \cup {[job |-> j, start |-> lsf[j].start, end |-> Second(clock)]}

\* A job ends; its post-execution processing may be over as well.
Finish(j) ==
  /\ Running(j)
  /\ \E bits \in {{"DONE", "PDONE"}, {"EXIT"}} :
       lsf' = [lsf EXCEPT ![j].bits = bits, ![j].end = Second(clock),
                          ![j].exit = IF bits = {"EXIT"} THEN 1 ELSE 0]
  /\ RunOver(j)
  /\ UNCHANGED <<clock, ahead, collection, snapshot, page>>

\* A job goes back to its queue.
Requeue(j) ==
  /\ Running(j)
  /\ lsf' = [lsf EXCEPT ![j] = Waiting]
  /\ RunOver(j)
  /\ UNCHANGED <<clock, ahead, collection, snapshot, page>>

(* ----------------------------- a collection --------------------------- *)

Open ==
  /\ phase = "idle" /\ opened < MaxCollections
  /\ opened' = opened + 1
  /\ phase' = "reading" /\ began' = clock /\ duration' = 0 /\ jobs' = <<>>
  /\ todo' = {j \in Jobs : QueryAllJobs \/ ~Finished(j)}
  /\ UNCHANGED <<clock, ahead, cluster, snapshot, page>>

\* fill_job and the copy into Go memory, of the record as LSF has it now.
Read(j) ==
  /\ phase = "reading" /\ j \in todo
  /\ \E kb \in RequestedMemoryKB(Entry[j].request) :
       jobs' = Append(jobs, JobOf(j, Entry[j], lsf[j], kb))
  /\ todo' = todo \ {j}
  /\ UNCHANGED <<clock, ahead, cluster, phase, began, duration, opened, snapshot, page>>

\* mergeData: the jobs of LSF come first, and LSF gives nothing else.
Merge(own, payload) ==
  [jobs |-> own \o payload.jobs, queues |-> payload.queues, hosts |-> payload.hosts,
   cluster |-> payload.cluster, licenses |-> payload.licenses,
   resources |-> payload.resources]

\* The sources have returned: collectOnce takes the duration.
SourceReturns ==
  /\ phase = "reading" /\ todo = {}
  /\ phase' = "returned" /\ duration' = clock - began
  /\ UNCHANGED <<clock, ahead, cluster, began, todo, jobs, opened, snapshot, page>>

\* lsb_openjobinfo or lsb_readjobinfo has failed: no job of LSF is shown.
SourceFails ==
  /\ phase = "reading"
  /\ phase' = "returned" /\ duration' = clock - began
  /\ jobs' = <<>> /\ todo' = {}
  /\ UNCHANGED <<clock, ahead, cluster, began, opened, snapshot, page>>

\* It counts the collection, looks at the clock again for CollectedAt, and the
\* snapshot is out.
Publish ==
  /\ phase = "returned"
  /\ \E payload \in Payloads :
       snapshot' = [data |-> Merge(jobs, payload), own |-> Len(jobs), at |-> clock,
                    took |-> duration, gap |-> clock - (began + duration)]
  /\ phase' = "idle" /\ duration' = 0 /\ jobs' = <<>>
  /\ UNCHANGED <<clock, ahead, cluster, began, todo, opened, page>>

(* ------------------------------- a scrape ----------------------------- *)

\* Mutant: the age is taken the wrong way round.
TakeSnapshotBackwards ==
  /\ scrape = "idle"
  /\ scrape' = "aged" /\ aged' = clock
  /\ view' = [snapshot |-> snapshot, age |-> IF snapshot.at = 0 THEN 0 ELSE snapshot.at - clock]
  /\ UNCHANGED <<clock, ahead, cluster, collection, snapshot, written>>

\* metricsHandler takes the snapshot and writes its age.
TakeSnapshot ==
  /\ scrape = "idle"
  /\ scrape' = "aged" /\ aged' = clock
  /\ view' = [snapshot |-> snapshot, age |-> IF snapshot.at = 0 THEN 0 ELSE clock - snapshot.at]
  /\ UNCHANGED <<clock, ahead, cluster, collection, snapshot, written>>

\* writeJobMetrics looks at the clock again, and the page is written.
WritePage ==
  /\ scrape = "aged"
  /\ scrape' = "written" /\ written' = clock
  /\ UNCHANGED <<clock, ahead, cluster, collection, snapshot, view, aged>>

Reply ==
  /\ scrape = "written"
  /\ scrape' = "idle" /\ view' = NoView /\ aged' = 0 /\ written' = 0
  /\ UNCHANGED <<clock, ahead, cluster, collection, snapshot>>

-----------------------------------------------------------------------------
Next ==
  \/ Tick \/ Open \/ SourceReturns \/ SourceFails \/ Publish
  \/ TakeSnapshot \/ WritePage \/ Reply
  \/ \E j \in Jobs : Dispatch(j) \/ Finish(j) \/ Requeue(j) \/ Read(j)

Spec == Init /\ [][Next]_vars

-----------------------------------------------------------------------------
\* What the properties read the page with.

Data    == view.snapshot.data
\* now.Unix() of writeJobMetrics: the exporter's clock, cut to its second.
Now     == Second(written + ahead)
ThePage == IF scrape = "written" THEN Page(Data, Now) ELSE {}

JobSamples ==
  IF scrape # "written" THEN {}
  ELSE UNION {JobSeries(<<"job", i>>, Data.jobs[i], Now) : i \in 1..Len(Data.jobs)}

\* The lsf_job_info and lsf_jobs_total samples of the page.
Infos  == IF scrape # "written" THEN {}
          ELSE UNION {JobInfo(<<"job", i>>, Data.jobs[i]) : i \in DOMAIN Data.jobs}
Totals == IF scrape # "written" THEN {} ELSE StatusTotals(Data.jobs)

\* A job's runtime on the page, 0 if it is not there.
ShownRunTime(i) ==
  LET shown == {s \in JobSeries(<<"job", i>>, Data.jobs[i], Now) :
                  s.name = "lsf_job_runtime_seconds"}
  IN  IF shown = {} THEN 0 ELSE (CHOOSE s \in shown : TRUE).value

\* How long LSF would have said, when the page was written, that the run that
\* began then had lasted.
TrueRunTime(j, start) ==
  LET ends == {r.end : r \in {r \in over : r.job = j /\ r.start = start /\ r.end < Second(written)}}
  IN  (IF ends = {} THEN Second(written) ELSE CHOOSE e \in ends : TRUE) - start

\* Prometheus reads a label value up to the first quote that is not escaped.
ReadPiece(r, c) ==
  CASE r.closed \/ ~r.ok -> [r EXCEPT !.ok = FALSE]
    [] ~r.closed /\ r.ok /\ r.escaped ->
         [r EXCEPT !.escaped = FALSE, !.ok = c \in {"n", Backslash, Quote},
                   !.text = Append(@, IF c = "n" THEN Newline ELSE c)]
    [] ~r.closed /\ r.ok /\ ~r.escaped ->
         IF c = Backslash THEN [r EXCEPT !.escaped = TRUE]
         ELSE IF c = Quote THEN [r EXCEPT !.closed = TRUE]
         ELSE [r EXCEPT !.text = Append(@, c), !.ok = c # Newline]

ReadLabel(label) ==
  FoldLeft(ReadPiece, [text |-> <<>>, escaped |-> FALSE, closed |-> FALSE, ok |-> TRUE],
           label \o <<Quote>>)

ReadsBackAs(label, text) ==
  LET r == ReadLabel(label) IN r.ok /\ r.closed /\ r.text = text

\* What a sample is about.
Subject(of) ==
  CASE of[1] = "job"      -> <<Data.jobs[of[2]].id>>
    [] of[1] = "queue"    -> <<Data.queues[of[2]].name>>
    [] of[1] = "host"     -> <<Data.hosts[of[2]].name>>
    [] of[1] = "license"  -> <<Data.licenses[of[2]].feature>>
    [] of[1] = "resource" -> <<Data.resources[of[2]].name, Data.resources[of[2]].location>>
    [] OTHER              -> of

-----------------------------------------------------------------------------
TypeOK ==
  /\ clock \in Nat /\ ahead \in Ahead
  /\ lsf \in [Jobs -> Life] /\ over \in SUBSET Run
  /\ phase \in {"idle", "reading", "returned"} /\ scrape \in {"idle", "aged", "written"}
  /\ began \in Nat /\ duration \in Nat /\ opened \in Nat /\ todo \in SUBSET Jobs
  /\ snapshot.at \in Nat /\ snapshot.took \in Nat /\ snapshot.gap \in Nat
  /\ snapshot.own \in 0..Len(snapshot.data.jobs)
  /\ view.age \in Nat /\ aged \in Nat /\ written \in Nat

\* A job on the page runs on until a collection has seen its end.  What a page
\* says of a runtime is too much by no more than the page itself admits, its
\* age and the duration of its collection, and four things it does not: the
\* time between collectOnce's two looks at the clock, the time from the age to
\* the runtime, the difference between the clocks, and the part of a second
\* that writeJobMetrics cuts off.  It is too little only for the last two, and
\* not at all if the exporter's clock is not behind.
RunTimeExcused ==
  scrape = "written" =>
    \A i \in 1..view.snapshot.own :
      LET job       == Data.jobs[i]
          actual    == TrueRunTime(job.id, job.start)
          admitted  == view.age + view.snapshot.took
          unseen    == view.snapshot.gap + (written - aged)
          cut       == SecondTicks - 1
      IN  job.start > 0 =>
            /\ ShownRunTime(i) <= actual + admitted + unseen + (IF ahead > 0 THEN ahead ELSE 0) + cut
            /\ ShownRunTime(i) >= actual + (IF ahead < 0 THEN ahead - cut ELSE 0)

\* Two samples of jobs are of one series only if a job has been described
\* twice, once at least by the external command: never for one record, and
\* never for the jobs of LSF.
JobSeriesApart ==
  \A s, t \in JobSamples :
    s.name = t.name /\ s # t /\ s.labels = t.labels =>
      /\ s.of # t.of /\ Data.jobs[s.of[2]].id = Data.jobs[t.of[2]].id
      /\ s.of[2] > view.snapshot.own \/ t.of[2] > view.snapshot.own

\* Of a series that comes twice on a page Prometheus keeps one sample and drops
\* the other.  That happens only if a thing has been described twice, never for
\* two things.
SeriesCollideOnlyForDuplicates ==
  /\ JobSeriesApart
  /\ \A s, t \in ThePage :
       s.name = t.name /\ s # t /\ s.labels = t.labels =>
         s.of[1] = t.of[1] /\ s.of # t.of /\ Subject(s.of) = Subject(t.of)

\* The page agrees with itself: the jobs by status add up to the size of the
\* snapshot, and are as many as there are lsf_job_info series of that status
\* unless a job has been described twice.
TotalsMatchInfo ==
  LET info(s) == {i.labels : i \in {i \in Infos : i.labels.status = s}}
      once    == \A i, k \in DOMAIN Data.jobs : i # k => Data.jobs[i].id # Data.jobs[k].id
  IN  /\ scrape = "written" => Len(Data.jobs) = FoldSet(LAMBDA t, sum : t.value + sum, 0, Totals)
      /\ \A t \in Totals :
           /\ Cardinality(info(t.labels.status)) <= t.value
           /\ once => Cardinality(info(t.labels.status)) = t.value

\* Whatever a label holds, Prometheus reads what was meant.
LabelsReadBack ==
  \A s \in Infos :
    LET job == Data.jobs[s.of[2]]
    IN  /\ ReadsBackAs(s.labels.user, job.user)
        /\ ReadsBackAs(s.labels.queue, job.queue)
        /\ ReadsBackAs(s.labels.status, job.status)
        /\ ReadsBackAs(s.labels.job_name, job.name)
        /\ ReadsBackAs(s.labels.project, job.project)
        /\ ReadsBackAs(s.labels.application, job.application)
        /\ ReadsBackAs(s.labels.execution_host, job.execution_host)

\* A host is named once in execution_host, with as many slots as the job has
\* there, in whatever order LSF lists them.
SlotsCounted ==
  \A s \in Infos :
    LET job   == Data.jobs[s.of[2]]
        text  == job.execution_host
        hosts == lsf[job.id].hosts
    IN  s.of[2] <= view.snapshot.own /\ lsf[job.id].start = job.start =>
          \A h \in ToSet(hosts) \ {NoText} :
            LET slots == Cardinality({k \in DOMAIN hosts : hosts[k] = h})
                at    == {i \in DOMAIN text : <<text[i]>> = h}
            IN  /\ Cardinality(at) = 1
                /\ \A i \in at :
                     IF slots = 1 THEN i = 1 \/ text[i - 1] = Comma
                     ELSE text[i - 1] = Times /\ text[i - 2] = Numeral(slots)
=============================================================================
