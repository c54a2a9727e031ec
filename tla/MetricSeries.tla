---------------------------- MODULE MetricSeries ----------------------------
(***************************************************************************)
(* The series /metrics writes for a snapshot: writeJobMetrics and its      *)
(* siblings for queues, hosts, the cluster, licenses and custom resources, *)
(* with the escaping of label values.                                      *)
(*                                                                         *)
(* A page is a set of samples: Go's maps give several of them in any       *)
(* order.  Numbers are integers.  A *bool is the set of the values it      *)
(* points to, a *Cluster likewise: empty for nil.                          *)
(***************************************************************************)
EXTENDS JobRecord

\* A Data, and the length of its parts on the page.
NoData == [jobs |-> <<>>, queues |-> <<>>, hosts |-> <<>>, cluster |-> {},
           licenses |-> <<>>, resources |-> <<>>]

\* The texts of a job that are on the page.
JobTexts == {"user", "queue", "status", "name", "project", "application", "execution_host"}

\* These parts of a record are texts, or lists.
Texts(record, fields) == \A f \in fields : IsSeq(record[f])

\* What a pointer points to is one value.
Pointer(p) == \A x, y \in p : x = y

\* The texts and pointers in a Data, as far as the page shows them.
DataType(data) ==
  /\ Texts(data, {"jobs", "queues", "hosts", "licenses", "resources"})
  /\ \A job \in ToSet(data.jobs) : Texts(job, JobTexts)
  /\ \A q \in ToSet(data.queues) :
       Texts(q, {"name", "status"}) /\ Pointer(q.open) /\ Pointer(q.active)
  /\ \A h \in ToSet(data.hosts) :
       Texts(h, {"name", "status"}) /\ Pointer(h.closed) /\ \A r \in DOMAIN h.load : IsSeq(r)
  /\ Pointer(data.cluster)
  /\ \A c \in data.cluster : Texts(c, {"name", "master", "status"}) /\ Pointer(c.masterUp)
  /\ \A l \in ToSet(data.licenses) : Texts(l, {"feature"})
  /\ \A r \in ToSet(data.resources) : Texts(r, {"name", "type", "location"})

-----------------------------------------------------------------------------
\* strings.ReplaceAll for a character.
Substitute(text, old, new) ==
  FlattenSeq([i \in DOMAIN text |-> IF text[i] = old THEN new ELSE <<text[i]>>])

\* The characters that are escaped, by their names.
Backslash == "BACKSLASH"
Newline   == "NEWLINE"
Quote     == "QUOTE"

\* Mutant: the backslash goes last, and escapes the escapes.
EscapeBackslashLast(text) ==
  LET newlines == Substitute(text, Newline, <<Backslash, "n">>)
      quotes   == Substitute(newlines, Quote, <<Backslash, Quote>>)
  IN  Substitute(quotes, Backslash, <<Backslash, Backslash>>)

\* escapeLabel: the backslash goes first.
Escape(text) ==
  LET slashes  == Substitute(text, Backslash, <<Backslash, Backslash>>)
      newlines == Substitute(slashes, Newline, <<Backslash, "n">>)
  IN  Substitute(newlines, Quote, <<Backslash, Quote>>)

\* writeSample.  of, which is not on the page, is the part of the snapshot
\* the sample is about.
Gauge(of, name, labels, value) ==
  {[of |-> of, name |-> name, labels |-> labels, value |-> value]}

\* Written only if there is something to say.
Positive(of, name, labels, value) ==
  IF value > 0 THEN Gauge(of, name, labels, value) ELSE {}

\* boolFloat, of a *bool that is not nil.
Flag(of, name, labels, flag) ==
  UNION {Gauge(of, name, labels, IF b THEN 1 ELSE 0) : b \in flag}

-----------------------------------------------------------------------------
\* The figures of a job that are left out when they are not positive.
Figures(job) ==
  [lsf_job_cpu_time_seconds           |-> job.cpuTime,
   lsf_job_requested_cpu              |-> job.requestedCPU,
   lsf_job_memory_kilobytes           |-> job.memoryKB,
   lsf_job_requested_memory_kilobytes |-> job.requestedMemKB,
   lsf_job_swap_kilobytes             |-> job.swapKB,
   lsf_job_gpu_requested              |-> job.gpuRequested,
   lsf_job_gpu_used                   |-> job.gpuUsed]

\* Mutant: the runtime goes on after the job's end.
RunTimeOn(job, now) == IF job.start > 0 THEN now - job.start ELSE 0

\* lsf_job_runtime_seconds: up to now for a job that has no end.
RunTime(job, now) ==
  LET end == IF job.end > 0 THEN job.end ELSE now
  IN  IF job.start > 0 THEN end - job.start ELSE 0

\* job_id is a number, which has nothing to escape.
JobInfo(of, job) ==
  Gauge(of, "lsf_job_info",
        [job_id         |-> job.id,
         user           |-> Escape(job.user),
         queue          |-> Escape(job.queue),
         status         |-> Escape(job.status),
         job_name       |-> Escape(job.name),
         project        |-> Escape(job.project),
         application    |-> Escape(job.application),
         execution_host |-> Escape(job.execution_host)], 1)

JobLabels(job) == [job_id |-> job.id, status |-> Escape(job.status)]

JobFigures(of, job) ==
  UNION {Positive(of, name, JobLabels(job), Figures(job)[name]) : name \in DOMAIN Figures(job)}

JobRunTime(of, job, now) ==
  Positive(of, "lsf_job_runtime_seconds", JobLabels(job), RunTime(job, now))

JobExit(of, job) ==
  IF job.end > 0 \/ job.exit # 0
  THEN Gauge(of, "lsf_job_exit_status", JobLabels(job), job.exit) ELSE {}

JobSeries(of, job, now) ==
  JobInfo(of, job) \cup JobFigures(of, job) \cup JobRunTime(of, job, now) \cup JobExit(of, job)

\* Mutant: a job is counted under the first status seen with its id.
StatusTotalsOnce(jobs) ==
  LET counted == {i \in DOMAIN jobs : \A k \in 1..i - 1 : jobs[k].id # jobs[i].id}
      having(s) == {i \in counted : jobs[i].status = s}
  IN  UNION {Gauge(<<"status", s>>, "lsf_jobs_total", [status |-> Escape(s)],
                   Cardinality(having(s))) : s \in {jobs[i].status : i \in DOMAIN jobs}}

\* lsf_jobs_total: byStatus counts the records.
StatusTotals(jobs) ==
  LET having(s) == {i \in DOMAIN jobs : jobs[i].status = s}
  IN  UNION {Gauge(<<"status", s>>, "lsf_jobs_total", [status |-> Escape(s)],
                   Cardinality(having(s))) : s \in {jobs[i].status : i \in DOMAIN jobs}}

-----------------------------------------------------------------------------
\* Mutant: the samples of a queue's jobs lose their state label.
QueueSeriesStateless(of, q) ==
  LET labels == [queue |-> Escape(q.name)]
  IN  Gauge(of, "lsf_queue_info", [queue |-> Escape(q.name), status |-> Escape(q.status)], 1)
      \cup Gauge(of, "lsf_queue_priority", labels, q.priority)
      \cup (UNION {Gauge(of, "lsf_queue_jobs", labels, q[state]) :
                    state \in {"total", "pending", "running", "suspended"}})
      \cup Positive(of, "lsf_queue_max_jobs", labels, q.maxJobs)
      \cup Flag(of, "lsf_queue_open", labels, q.open)
      \cup Flag(of, "lsf_queue_active", labels, q.active)

QueueSeries(of, q) ==
  LET labels == [queue |-> Escape(q.name)]
  IN  Gauge(of, "lsf_queue_info", [queue |-> Escape(q.name), status |-> Escape(q.status)], 1)
      \cup Gauge(of, "lsf_queue_priority", labels, q.priority)
      \cup (UNION {Gauge(of, "lsf_queue_jobs", [queue |-> Escape(q.name), state |-> state], q[state]) :
                    state \in {"total", "pending", "running", "suspended"}})
      \cup Positive(of, "lsf_queue_max_jobs", labels, q.maxJobs)
      \cup Flag(of, "lsf_queue_open", labels, q.open)
      \cup Flag(of, "lsf_queue_active", labels, q.active)

\* Load is a function from the names of load indices.
HostSeries(of, h) ==
  LET labels == [host |-> Escape(h.name)]
  IN  Gauge(of, "lsf_host_info", [host |-> Escape(h.name), status |-> Escape(h.status)], 1)
      \cup (UNION {Gauge(of, "lsf_host_jobs", [host |-> Escape(h.name), state |-> state], h[state]) :
                    state \in {"total", "running", "suspended"}})
      \cup Positive(of, "lsf_host_max_jobs", labels, h.maxJobs)
      \cup Flag(of, "lsf_host_closed", labels, h.closed)
      \cup (UNION {Gauge(of, "lsf_host_load", [host |-> Escape(h.name), resource |-> Escape(r)],
                        h.load[r]) : r \in DOMAIN h.load})

ClusterSeries(of, c) ==
  Gauge(of, "lsf_cluster_info",
        [cluster |-> Escape(c.name), master |-> Escape(c.master), status |-> Escape(c.status)], 1)
  \cup Flag(of, "lsf_cluster_master_up",
            [cluster |-> Escape(c.name), master |-> Escape(c.master)], c.masterUp)

LicenseSeries(of, l) ==
  LET labels == [feature |-> Escape(l.feature)]
  IN  Gauge(of, "lsf_license_total", labels, l.total)
      \cup Gauge(of, "lsf_license_used", labels, l.used)
      \cup Gauge(of, "lsf_license_free", labels, l.free)

ResourceSeries(of, r) ==
  LET labels == [resource |-> Escape(r.name), type |-> Escape(r.type),
                 location |-> Escape(r.location)]
  IN  Gauge(of, "lsf_custom_resource_total", labels, r.total)
      \cup Gauge(of, "lsf_custom_resource_used", labels, r.used)
      \cup Gauge(of, "lsf_custom_resource_free", labels, r.free)

Each(kind, entries, Series(_, _)) ==
  UNION {Series(<<kind, i>>, entries[i]) : i \in DOMAIN entries}

\* metricsHandler, from the sizes of the snapshot on; now is what its second
\* look at the clock shows, the one writeJobMetrics takes.
Page(data, now) ==
  Gauge(<<"page">>, "lsf_exporter_snapshot_jobs", <<>>, Len(data.jobs))
  \cup Gauge(<<"page">>, "lsf_exporter_snapshot_queues", <<>>, Len(data.queues))
  \cup Gauge(<<"page">>, "lsf_exporter_snapshot_hosts", <<>>, Len(data.hosts))
  \cup Gauge(<<"page">>, "lsf_exporter_snapshot_licenses", <<>>, Len(data.licenses))
  \cup Gauge(<<"page">>, "lsf_exporter_snapshot_custom_resources", <<>>, Len(data.resources))
  \cup Each("job", data.jobs, LAMBDA of, job : JobSeries(of, job, now))
  \cup StatusTotals(data.jobs)
  \cup Each("queue", data.queues, QueueSeries)
  \cup Each("host", data.hosts, HostSeries)
  \cup (UNION {ClusterSeries(<<"cluster">>, c) : c \in data.cluster})
  \cup Each("license", data.licenses, LicenseSeries)
  \cup Each("resource", data.resources, ResourceSeries)
=============================================================================
