------------------------------ MODULE JobQuery ------------------------------
(***************************************************************************)
(* collector.JobQueryService and the two HTTP handlers in front of it,     *)
(* /all-jobs and /finished-jobs.  Every request is a goroutine of its own; *)
(* an action is one access to state the goroutines share (an atomic, the   *)
(* snapshot under its RWMutex, the clock, the call into LSF) with the      *)
(* local work up to the next one.                                          *)
(***************************************************************************)
EXTENDS Timestamps, FiniteSets

CONSTANTS
  Requests,       \* HTTP requests that may be in service at one time
  Jobs,           \* the jobs an ALL_JOB query finds
  Finished,       \* those of them whose status is DONE or EXIT
  MinInterval,    \* cfg.MinInterval, in ticks
  Boot,           \* wall clock when the process starts
  MaxTime,        \* bound: the clock stops here
  MaxQueries      \* bound: no refresh arrives that could begin one query more

ASSUME JobQueryAssumption ==
  /\ Finished \subseteq Jobs
  /\ MinInterval \in Int
  /\ Boot \in Nat /\ MaxTime \in Nat /\ MaxQueries \in Nat

VARIABLES
  native,       \* FALSE: NewJobQueryService got a nil source and returned nil
  wall,         \* time.Now()
  running,      \* s.running
  lastAttempt,  \* s.lastAttempt, as the instant time.Unix makes of it
  cache,        \* s.snapshot
  pc,           \* where each request is
  ask,          \* what it asked for: the scope, and whether to refresh
  now,          \* its local now
  snap,         \* its local snap
  answer,       \* the HTTP status and the refreshed flag it will send
  \* History: not in the code, read by the properties only.
  queries,      \* queries begun so far; a query's number is its rank
  lastNow,      \* the now of the attempt that stored lastAttempt last
  delivered,    \* the newest query any reply sent so far has shown
  floor         \* per request: queries and delivered when it arrived

env     == <<native, wall>>
server  == <<running, lastAttempt, cache>>
locals  == <<pc, ask, now, snap, answer>>
history == <<queries, lastNow, delivered, floor>>
vars    == <<env, server, locals, history>>

-----------------------------------------------------------------------------
Scopes == {"all_jobs", "finished_jobs"}
Params == {"", "true", "false", "junk"}

Labels == {"idle", "read", "sample", "gate", "cas", "stamp", "querying",
           "publish", "release", "fallback", "answer", "replied"}

\* A Snapshot, reduced to the query it came from.
Snapshot == [query : Nat, failed : BOOLEAN, jobs : SUBSET Jobs]
NoData   == [query |-> 0, failed |-> FALSE, jobs |-> {}]

Answer   == [status : {0, 200, 400, 409, 429, 500, 503}, refreshed : BOOLEAN]
NoAnswer == [status |-> 0, refreshed |-> FALSE]
NoAsk    == [scope |-> "all_jobs", refresh |-> FALSE]
NoFloor  == [queries |-> 0, delivered |-> 0]

\* refreshRequested: refresh wins over trigger when it is not empty.
RefreshRequested(refresh, trigger) ==
  LET raw == IF refresh # "" THEN refresh ELSE trigger
  IN  CASE raw = "true"        -> "yes"
        [] raw \in {"", "false"} -> "no"
        [] OTHER               -> "invalid"

\* finishedJobs, on a snapshot: a new slice, the cached one is not touched.
FinishedOnly(s) == [s EXCEPT !.jobs = @ \cap Finished]

\* The test at the head of CollectAllJobs.  last.IsZero() is never true of a
\* time.Unix value a process can hold, so that conjunct always passes.
TooSoon(t, last) == MinInterval > 0 /\ t - last < MinInterval

Busy   == {"stamp", "querying", "publish", "release"}
Owners == {r \in Requests : pc[r] \in Busy}

-----------------------------------------------------------------------------
Init ==
  /\ native \in BOOLEAN
  /\ wall = Boot
  /\ running = FALSE
  /\ lastAttempt = 0
  /\ cache = NoData
  /\ pc = [r \in Requests |-> "idle"]
  /\ ask = [r \in Requests |-> NoAsk]
  /\ now = [r \in Requests |-> 0]
  /\ snap = [r \in Requests |-> NoData]
  /\ answer = [r \in Requests |-> NoAnswer]
  /\ queries = 0
  /\ lastNow = 0
  /\ delivered = 0
  /\ floor = [r \in Requests |-> NoFloor]

Goto(r, label) == pc' = [pc EXCEPT ![r] = label]
Say(r, status, refreshed) ==
  answer' = [answer EXCEPT ![r] = [status |-> status, refreshed |-> refreshed]]

(* ------------------------- the HTTP handlers -------------------------- *)

\* The native collector is disabled: svc == nil.
Disabled(r) ==
  /\ pc[r] = "idle" /\ ~native
  /\ Say(r, 503, FALSE)
  /\ Goto(r, "replied")
  /\ UNCHANGED <<env, server, ask, now, snap, history>>

\* The refresh parameter is not a boolean.
BadRequest(r) ==
  /\ pc[r] = "idle" /\ native
  /\ \E refresh, trigger \in Params :
       RefreshRequested(refresh, trigger) = "invalid"
  /\ Say(r, 400, FALSE)
  /\ Goto(r, "replied")
  /\ UNCHANGED <<env, server, ask, now, snap, history>>

\* Bound: every refresh in service could still begin a query.
RoomForQuery ==
  queries + Cardinality({s \in Requests : ask[s].refresh}) < MaxQueries

Accept(r) ==
  /\ pc[r] = "idle" /\ native
  /\ \E scope \in Scopes, refresh, trigger \in Params :
       /\ RefreshRequested(refresh, trigger) # "invalid"
       /\ RefreshRequested(refresh, trigger) = "yes" => RoomForQuery
       /\ ask' = [ask EXCEPT ![r] =
            [scope   |-> scope,
             refresh |-> RefreshRequested(refresh, trigger) = "yes"]]
  /\ floor' = [floor EXCEPT ![r] = [queries |-> queries, delivered |-> delivered]]
  /\ Goto(r, "read")
  /\ UNCHANGED <<env, server, now, snap, answer, queries, lastNow, delivered>>

\* Mutant: the lock of the snapshot is held across the whole query.
ReadCacheLocked(r) ==
  /\ pc[r] = "read" /\ ~running
  /\ snap' = [snap EXCEPT ![r] = cache]
  /\ Say(r, 200, FALSE)
  /\ Goto(r, IF ask[r].refresh THEN "sample" ELSE "answer")
  /\ UNCHANGED <<env, server, ask, now, history>>

\* snap := svc.Snapshot(), always, before any refresh.
ReadCache(r) ==
  /\ pc[r] = "read"
  /\ snap' = [snap EXCEPT ![r] = cache]
  /\ Say(r, 200, FALSE)
  /\ Goto(r, IF ask[r].refresh THEN "sample" ELSE "answer")
  /\ UNCHANGED <<env, server, ask, now, history>>

\* Mutant: finishedJobs filters into the slice it was given.
ReplyFilteringInPlace(r) ==
  /\ pc[r] = "answer"
  /\ IF ask[r].scope = "finished_jobs"
     THEN /\ snap' = [snap EXCEPT ![r] = FinishedOnly(@)]
          /\ cache' = IF cache.query = snap[r].query THEN FinishedOnly(cache) ELSE cache
     ELSE UNCHANGED <<snap, cache>>
  /\ delivered' = IF snap[r].query > delivered THEN snap[r].query ELSE delivered
  /\ Goto(r, "replied")
  /\ UNCHANGED <<env, running, lastAttempt, ask, now, answer, queries, lastNow, floor>>

Reply(r) ==
  /\ pc[r] = "answer"
  /\ snap' = [snap EXCEPT ![r] =
       IF ask[r].scope = "finished_jobs" THEN FinishedOnly(@) ELSE @]
  /\ delivered' = IF snap[r].query > delivered THEN snap[r].query ELSE delivered
  /\ Goto(r, "replied")
  /\ UNCHANGED <<env, server, ask, now, answer, queries, lastNow, floor>>

\* The connection is free for another request.
Leave(r) ==
  /\ pc[r] = "replied"
  /\ Goto(r, "idle")
  /\ ask' = [ask EXCEPT ![r] = NoAsk]
  /\ now' = [now EXCEPT ![r] = 0]
  /\ snap' = [snap EXCEPT ![r] = NoData]
  /\ answer' = [answer EXCEPT ![r] = NoAnswer]
  /\ floor' = [floor EXCEPT ![r] = NoFloor]
  /\ UNCHANGED <<env, server, queries, lastNow, delivered>>

(* --------------------------- CollectAllJobs --------------------------- *)

Sample(r) ==
  /\ pc[r] = "sample"
  /\ now' = [now EXCEPT ![r] = wall]
  /\ Goto(r, "gate")
  /\ UNCHANGED <<env, server, ask, snap, answer, history>>

\* Mutant: a refused refresh tries again instead of answering.
RefuseByRetrying(r, status) == Goto(r, "sample") /\ UNCHANGED answer

Refuse(r, status) == Say(r, status, FALSE) /\ Goto(r, "fallback")

\* Mutant: the wrong 4xx status for a refresh that comes too soon.
RefuseTooEarly(r) ==
  /\ pc[r] = "gate" /\ TooSoon(now[r], lastAttempt)
  /\ Refuse(r, 425)
  /\ UNCHANGED <<env, server, ask, now, snap, history>>

\* lastAttempt is loaded, and now.Sub(last) compared with the minimum.
RefuseTooSoon(r) ==
  /\ pc[r] = "gate" /\ TooSoon(now[r], lastAttempt)
  /\ Refuse(r, 429)
  /\ UNCHANGED <<env, server, ask, now, snap, history>>

\* Mutant: the gate lets everybody through.
PassAnyGate(r) ==
  /\ pc[r] = "gate"
  /\ Goto(r, "cas")
  /\ UNCHANGED <<env, server, ask, now, snap, answer, history>>

PassGate(r) ==
  /\ pc[r] = "gate" /\ ~TooSoon(now[r], lastAttempt)
  /\ Goto(r, "cas")
  /\ UNCHANGED <<env, server, ask, now, snap, answer, history>>

\* running.CompareAndSwap(false, true).
RefuseConflict(r) ==
  /\ pc[r] = "cas" /\ running
  /\ Refuse(r, 409)
  /\ UNCHANGED <<env, server, ask, now, snap, history>>

\* Mutant: running.Store(true) in place of the compare-and-swap.
AcquireUnchecked(r) ==
  /\ pc[r] = "cas"
  /\ running' = TRUE
  /\ Goto(r, "stamp")
  /\ UNCHANGED <<env, lastAttempt, cache, ask, now, snap, answer, history>>

Acquire(r) ==
  /\ pc[r] = "cas" /\ ~running
  /\ running' = TRUE
  /\ Goto(r, "stamp")
  /\ UNCHANGED <<env, lastAttempt, cache, ask, now, snap, answer, history>>

\* Both refusals return s.Snapshot(), read afresh.
Fallback(r) ==
  /\ pc[r] = "fallback"
  /\ snap' = [snap EXCEPT ![r] = cache]
  /\ Goto(r, "answer")
  /\ UNCHANGED <<env, server, ask, now, answer, history>>

\* lastAttempt.Store(now.Unix()), then the call s.source.CollectJobs(true).
Stamp(r) ==
  /\ pc[r] = "stamp"
  /\ lastAttempt' = Second(now[r])
  /\ lastNow' = now[r]
  /\ queries' = queries + 1
  /\ Goto(r, "querying")
  /\ UNCHANGED <<env, running, cache, ask, now, snap, answer, delivered, floor>>

\* Mutant: on an error the old snapshot is served, still as a refreshed one.
QueryFailsOver(r) ==
  /\ pc[r] = "querying"
  /\ \E failed \in BOOLEAN :
       /\ snap' = [snap EXCEPT ![r] =
            IF failed THEN cache
            ELSE [query |-> queries, failed |-> FALSE, jobs |-> Jobs]]
       /\ Say(r, 200, TRUE)
  /\ Goto(r, "publish")
  /\ UNCHANGED <<env, server, ask, now, history>>

\* Mutant: running is lowered as soon as the query has returned.
QueryReleasesFirst(r) ==
  /\ pc[r] = "querying"
  /\ snap' = [snap EXCEPT ![r] = [query |-> queries, failed |-> FALSE, jobs |-> Jobs]]
  /\ Say(r, 200, TRUE)
  /\ running' = FALSE
  /\ Goto(r, "publish")
  /\ UNCHANGED <<env, lastAttempt, cache, ask, now, history>>

\* Mutant: an error returns at once, and nothing was deferred.
QueryFailsWithoutRelease(r) ==
  /\ pc[r] = "querying"
  /\ \E failed \in BOOLEAN :
       /\ snap' = [snap EXCEPT ![r] =
            [query |-> queries, failed |-> failed, jobs |-> {}]]
       /\ Say(r, IF failed THEN 500 ELSE 200, TRUE)
       /\ Goto(r, IF failed THEN "answer" ELSE "publish")
  /\ UNCHANGED <<env, server, ask, now, history>>

\* CollectJobs returns, with the jobs or with an error and no data; the
\* handler will turn the error into its status.
QueryReturns(r) ==
  /\ pc[r] = "querying"
  /\ \E failed \in BOOLEAN :
       /\ snap' = [snap EXCEPT ![r] =
            [query  |-> queries,
             failed |-> failed,
             jobs   |-> IF failed THEN {} ELSE Jobs]]
       /\ Say(r, IF failed THEN 500 ELSE 200, TRUE)
  /\ Goto(r, "publish")
  /\ UNCHANGED <<env, server, ask, now, history>>

\* Mutant: a failed query leaves the last good snapshot in place.
PublishSuccessOnly(r) ==
  /\ pc[r] = "publish"
  /\ cache' = IF snap[r].failed THEN cache ELSE snap[r]
  /\ Goto(r, "release")
  /\ UNCHANGED <<env, running, lastAttempt, ask, now, snap, answer, history>>

Publish(r) ==
  /\ pc[r] = "publish"
  /\ cache' = snap[r]
  /\ Goto(r, "release")
  /\ UNCHANGED <<env, running, lastAttempt, ask, now, snap, answer, history>>

\* The deferred running.Store(false).
Release(r) ==
  /\ pc[r] = "release"
  /\ running' = FALSE
  /\ Goto(r, "answer")
  /\ UNCHANGED <<env, lastAttempt, cache, ask, now, snap, answer, history>>

-----------------------------------------------------------------------------
Advance ==
  /\ wall < MaxTime
  /\ wall' = wall + 1
  /\ UNCHANGED <<native, server, locals, history>>

\* What the exporter's own goroutine does for a request it has accepted.
Handle(r) ==
  \/ ReadCache(r) \/ Reply(r)
  \/ Sample(r) \/ RefuseTooSoon(r) \/ PassGate(r)
  \/ RefuseConflict(r) \/ Acquire(r) \/ Fallback(r)
  \/ Stamp(r) \/ Publish(r) \/ Release(r)

Client(r) == Disabled(r) \/ BadRequest(r) \/ Accept(r) \/ Leave(r)

Next == Advance \/ \E r \in Requests : Client(r) \/ Handle(r) \/ QueryReturns(r)

Spec == Init /\ [][Next]_vars

\* The Go scheduler runs every goroutine that can run.  LSF may hang in a
\* query for ever: its C calls cannot be interrupted.
Fairness == \A r \in Requests : WF_vars(Handle(r))

HungSpec == Spec /\ Fairness

-----------------------------------------------------------------------------
TypeOK ==
  /\ native \in BOOLEAN /\ wall \in Nat /\ running \in BOOLEAN /\ lastAttempt \in Int
  /\ cache \in Snapshot
  /\ pc \in [Requests -> Labels]
  /\ ask \in [Requests -> [scope : Scopes, refresh : BOOLEAN]]
  /\ now \in [Requests -> Nat]
  /\ snap \in [Requests -> Snapshot]
  /\ answer \in [Requests -> Answer]
  /\ queries \in Nat /\ lastNow \in Nat /\ delivered \in Nat
  /\ floor \in [Requests -> [queries : Nat, delivered : Nat]]

\* One query at a time: the running flag is up exactly while one request is
\* between its compare-and-swap and its deferred Store(false), however the
\* requests interleave (job_query_service.go, s.running).
SingleFlightInv ==
  /\ \A r, s \in Owners : r = s
  /\ running <=> Owners # {}

\* No reply goes back in time: the query a reply shows is at least as new as
\* the newest one shown by any reply that had been sent when the request
\* arrived, on every path (cached, 409, 429, refreshed, failed).
RepliesNeverGoBack ==
  \A r \in Requests : pc[r] = "replied" /\ answer[r].status \notin {400, 503} =>
     snap[r].query >= floor[r].delivered

\* "refreshed": true is the truth: the snapshot in such a reply comes from a
\* query begun after the request arrived, and it is the failed one exactly
\* when the status is 500.
RefreshedMeansNew ==
  \A r \in Requests : pc[r] = "replied" /\ answer[r].refreshed =>
     /\ snap[r].query > floor[r].queries
     /\ answer[r].status = IF snap[r].failed THEN 500 ELSE 200

\* Filtering for /finished-jobs never leaks into the cache the two endpoints
\* share: the cache holds all a query found (nothing if it failed), and a
\* reply is that, or its finished part, according to the endpoint.
FilterLeavesCacheWhole ==
  LET Whole(s) == IF s.query = 0 \/ s.failed THEN {} ELSE Jobs
  IN  /\ cache.jobs = Whole(cache)
      /\ \A r \in Requests : pc[r] = "replied" /\ answer[r].status \notin {400, 503} =>
           snap[r].jobs = IF ask[r].scope = "finished_jobs"
                          THEN Whole(snap[r]) \cap Finished
                          ELSE Whole(snap[r])

\* The service keeps the promise of SingleFlight.
Flights == INSTANCE SingleFlight WITH
             Callers  <- Requests,
             inFlight <- {r \in Requests : pc[r] \in {"querying", "publish"}},
             begun    <- queries,
             shown    <- cache.query
ImplementsSingleFlight == Flights!Spec

\* A refresh that arrives after an attempt was made keeps the minimum
\* interval from it, but for the fraction of a second Unix() cut from that
\* attempt.  Refreshes in service together are not held to it: the gate is
\* read before the running flag is taken.
RefreshesSpaced ==
  [][\A r \in Requests :
       pc[r] = "stamp" /\ queries' # queries /\ pc'[r] # "stamp" /\
       queries > 0 /\ floor[r].queries = queries =>
         lastNow' - lastNow >= MinInterval - (SecondTicks - 1)]_vars

InService(r) == pc[r] \notin {"idle", "replied"}

\* LSF returns from every query.
LsfReturns == \A r \in Requests : []<>(pc[r] # "querying")

\* Every request is answered, provided LSF returns from its queries.
EveryRequestAnswered ==
  LsfReturns => \A r \in Requests : InService(r) ~> pc[r] = "replied"

\* A query that fails does not wedge the service: whoever takes the running
\* flag gives it back, so that later refreshes are let in.
NeverWedged == LsfReturns => (running ~> ~running)

\* A hung query holds up nobody but the request that runs it: every other
\* one, refresh or read, is still answered.
HungQueryBlocksNobodyElse ==
  \A r \in Requests : InService(r) ~> pc[r] \in {"replied", "querying"}
=============================================================================
