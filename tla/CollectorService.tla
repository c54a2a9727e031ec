-------------------------- MODULE CollectorService --------------------------
(***************************************************************************)
(* collector.Service: the background collection loop, the atomics and the  *)
(* snapshot it publishes, and the HTTP handlers that read them (/metrics   *)
(* and the JSON views).  An action is one access to state the goroutines   *)
(* share, with the local work up to the next one.                          *)
(***************************************************************************)
EXTENDS Timestamps, FiniteSets

CONSTANTS
  Loop,         \* the goroutine main starts with go svc.Run(ctx)
  Testers,      \* goroutines that call CollectNowForTest
  Readers,      \* HTTP requests that may be in service at one time
  Interval,     \* cfg.Interval, in ticks
  MinInterval,  \* cfg.MinInterval, in ticks
  Boot,         \* wall clock when the process starts
  Offsets,      \* what the wall clock may be set off by while the process runs
  MaxUptime,    \* bound: time stops here
  MaxCalls      \* bound: no tester calls collectOnce after so many calls

\* time.NewTicker panics on an interval that is not positive.  No clock is set
\* back to the first second of 1970.
ASSUME CollectorServiceAssumption ==
  /\ IsFiniteSet(Testers) /\ Loop \notin Testers
  /\ Interval \in Nat \ {0} /\ MinInterval \in Int
  /\ Boot \in Nat /\ Offsets \subseteq Int
  /\ Boot >= SecondTicks /\ \A o \in Offsets : Boot + o >= SecondTicks
  /\ MaxUptime \in Nat /\ MaxCalls \in Nat

VARIABLES
  wall,         \* the wall clock
  uptime,       \* the monotonic clock
  stopping,     \* ctx is done
  tick,         \* ticker.C, one slot: empty, or a tick that fired while no
                \* collection ran ("idle") or while one did ("busy")
  due,          \* ticks until the ticker fires; 0 while there is no ticker
  running,      \* s.running
  lastAttempt,  \* s.lastAttempt, as the instant time.Unix makes of it
  lastSuccess,  \* s.lastSuccess, likewise; 0 before the first success
  collections, errors, skipped,   \* the counters
  snapshot,     \* s.snapshot
  pc,           \* where each caller of collectOnce is
  now,          \* its local now: a time.Time carries both clocks
  draft,        \* its local snap
  rpc,          \* where each reader is
  view,         \* what it has read
  \* History: not in the code, read by the properties only.
  calls,        \* calls of collectOnce
  begun,        \* collections begun; a collection's number is its rank
  lastNow,      \* the now of the attempt that stored lastAttempt last
  cause         \* the tick that brought the loop to its present call

clock    == <<wall, uptime>>
schedule == <<stopping, tick, due, cause>>
counters == <<collections, errors, skipped, lastSuccess>>
callers  == <<pc, now, draft>>
readers  == <<rpc, view>>
history  == <<calls, begun, lastNow>>
vars     == <<clock, schedule, running, lastAttempt, counters, snapshot,
              callers, readers, history>>

-----------------------------------------------------------------------------
Callers == {Loop} \cup Testers

Labels == {"idle", "sample", "gate", "cas", "stamp", "collecting", "count",
           "tally", "publish", "release", "ticker", "select", "done"}
ReaderLabels == {"idle", "lastSuccess", "collections", "errors", "skipped", "reply",
                 "json"}
Ticks == {"none", "idle", "busy"}

Time == [wall : Int, up : Nat]

\* A Snapshot, reduced to the collection it came from; errs is history, the
\* failures counted up to and including that collection.
Snapshot == [gen : Nat, failed : BOOLEAN, at : Int, errs : Nat]
NoData   == [gen |-> 0, failed |-> FALSE, at |-> 0, errs |-> 0]

\* What a reader holds: a snapshot and, for /metrics, the Stats.
View == [snap : Snapshot, lastSuccess : Int, collections : Nat, errors : Nat,
         skipped : Nat]
NoView == [snap |-> NoData, lastSuccess |-> 0, collections |-> 0, errors |-> 0,
           skipped |-> 0]

\* last.IsZero() is never true of a time.Unix value a process can hold, and
\* Sub takes the wall clock, last having no monotonic reading.
TooSoon(t, last) == t.wall - last < MinInterval

\* The lsf_exporter_up gauge for a snapshot.
Up(snap) == IF snap.failed THEN 0 ELSE 1

Busy   == {"stamp", "collecting", "count", "tally", "publish", "release"}
Owners == {c \in Callers : pc[c] \in Busy}

\* Calls of collectOnce that have not been counted in a counter yet.
Uncounted == {c \in Callers :
                pc[c] \in {"sample", "gate", "cas", "stamp", "collecting", "count"}}

-----------------------------------------------------------------------------
Init ==
  /\ wall = Boot /\ uptime = 0
  /\ stopping = FALSE /\ tick = "none" /\ due = 0 /\ cause = "none"
  /\ running = FALSE /\ lastAttempt = 0
  /\ collections = 0 /\ errors = 0 /\ skipped = 0 /\ lastSuccess = 0
  /\ snapshot = NoData
  /\ pc = [c \in Callers |-> IF c = Loop THEN "sample" ELSE "idle"]
  /\ now = [c \in Callers |-> [wall |-> 0, up |-> 0]]
  /\ draft = [c \in Callers |-> NoData]
  /\ rpc = [r \in Readers |-> "idle"]
  /\ view = [r \in Readers |-> NoView]
  /\ calls = 1 /\ begun = 0
  /\ lastNow = [wall |-> 0, up |-> 0]

Goto(c, label) == pc' = [pc EXCEPT ![c] = label]

\* collectOnce returns: to Run, which makes its ticker after the first call,
\* or to the tester.
Return(c) == Goto(c, IF c # Loop THEN "idle"
                     ELSE IF due = 0 THEN "ticker" ELSE "select")

(* ---------------------------- collectOnce ----------------------------- *)

Sample(c) ==
  /\ pc[c] = "sample"
  /\ now' = [now EXCEPT ![c] = [wall |-> wall, up |-> uptime]]
  /\ Goto(c, "gate")
  /\ UNCHANGED <<clock, schedule, running, lastAttempt, counters, snapshot,
                 draft, readers, history>>

Skip(c) ==
  /\ skipped' = skipped + 1
  /\ Return(c)
  /\ UNCHANGED <<clock, schedule, running, lastAttempt, collections, errors,
                 lastSuccess, snapshot, now, draft, readers, history>>

SkipTooSoon(c) ==
  pc[c] = "gate" /\ TooSoon(now[c], lastAttempt) /\ Skip(c)

\* Mutant: the gate lets everybody through.
PassAnyGate(c) ==
  /\ pc[c] = "gate"
  /\ Goto(c, "cas")
  /\ UNCHANGED <<clock, schedule, running, lastAttempt, counters, snapshot,
                 now, draft, readers, history>>

PassGate(c) ==
  /\ pc[c] = "gate" /\ ~TooSoon(now[c], lastAttempt)
  /\ Goto(c, "cas")
  /\ UNCHANGED <<clock, schedule, running, lastAttempt, counters, snapshot,
                 now, draft, readers, history>>

\* Mutant: a call that finds a collection running returns without a trace.
SkipRunningSilently(c) ==
  /\ pc[c] = "cas" /\ running
  /\ Return(c)
  /\ UNCHANGED <<clock, schedule, running, lastAttempt, counters, snapshot,
                 now, draft, readers, history>>

\* running.CompareAndSwap(false, true).
SkipRunning(c) ==
  pc[c] = "cas" /\ running /\ Skip(c)

\* Mutant: running.Store(true) in place of the compare-and-swap.
AcquireUnchecked(c) ==
  /\ pc[c] = "cas"
  /\ running' = TRUE
  /\ Goto(c, "stamp")
  /\ UNCHANGED <<clock, schedule, lastAttempt, counters, snapshot,
                 now, draft, readers, history>>

Acquire(c) ==
  /\ pc[c] = "cas" /\ ~running
  /\ running' = TRUE
  /\ Goto(c, "stamp")
  /\ UNCHANGED <<clock, schedule, lastAttempt, counters, snapshot,
                 now, draft, readers, history>>

\* Mutant: the attempt is stored rounded up to the next second.
StampRoundedUp(c) ==
  /\ pc[c] = "stamp"
  /\ lastAttempt' = Second(now[c].wall) + SecondTicks
  /\ lastNow' = now[c]
  /\ begun' = begun + 1
  /\ draft' = [draft EXCEPT ![c] = [NoData EXCEPT !.gen = begun + 1]]
  /\ Goto(c, "collecting")
  /\ UNCHANGED <<clock, schedule, running, counters, snapshot, now, readers, calls>>

\* lastAttempt.Store(now.Unix()), then the call s.source.Collect().
Stamp(c) ==
  /\ pc[c] = "stamp"
  /\ lastAttempt' = Second(now[c].wall)
  /\ lastNow' = now[c]
  /\ begun' = begun + 1
  /\ draft' = [draft EXCEPT ![c] = [NoData EXCEPT !.gen = begun + 1]]
  /\ Goto(c, "collecting")
  /\ UNCHANGED <<clock, schedule, running, counters, snapshot, now, readers, calls>>

\* Mutant: running is lowered as soon as Collect has returned.
CollectReleasesFirst(c) ==
  /\ pc[c] = "collecting"
  /\ \E failed \in BOOLEAN : draft' = [draft EXCEPT ![c].failed = failed]
  /\ running' = FALSE
  /\ Goto(c, "count")
  /\ UNCHANGED <<clock, schedule, lastAttempt, counters, snapshot,
                 now, readers, history>>

\* Mutant: what Collect returned is published before it is counted.
CollectPublishesAtOnce(c) ==
  /\ pc[c] = "collecting"
  /\ \E failed \in BOOLEAN :
       /\ draft' = [draft EXCEPT ![c].failed = failed]
       /\ snapshot' = [draft[c] EXCEPT !.failed = failed]
  /\ Goto(c, "count")
  /\ UNCHANGED <<clock, schedule, running, lastAttempt, counters, now, readers, history>>

\* Collect returns, with or without an error.
CollectReturns(c) ==
  /\ pc[c] = "collecting"
  /\ \E failed \in BOOLEAN : draft' = [draft EXCEPT ![c].failed = failed]
  /\ Goto(c, "count")
  /\ UNCHANGED <<clock, schedule, running, lastAttempt, counters, snapshot,
                 now, readers, history>>

\* collections.Add(1); CollectedAt is read right after.
Count(c) ==
  /\ pc[c] = "count"
  /\ collections' = collections + 1
  /\ draft' = [draft EXCEPT ![c].at = wall]
  /\ Goto(c, "tally")
  /\ UNCHANGED <<clock, schedule, running, lastAttempt, errors, skipped,
                 lastSuccess, snapshot, now, readers, history>>

\* errors.Add(1), or lastSuccess.Store(CollectedAt.Unix()).
Tally(c) ==
  /\ pc[c] = "tally"
  /\ \/ draft[c].failed /\ errors' = errors + 1 /\ UNCHANGED lastSuccess
     \/ ~draft[c].failed /\ lastSuccess' = Second(draft[c].at) /\ UNCHANGED errors
  /\ draft' = [draft EXCEPT ![c].errs = errors']
  /\ Goto(c, "publish")
  /\ UNCHANGED <<clock, schedule, running, lastAttempt, collections, skipped,
                 snapshot, now, readers, history>>

\* Mutant: a failed collection leaves the last good snapshot in place.
PublishSuccessOnly(c) ==
  /\ pc[c] = "publish"
  /\ snapshot' = IF draft[c].failed THEN snapshot ELSE draft[c]
  /\ Goto(c, "release")
  /\ UNCHANGED <<clock, schedule, running, lastAttempt, counters, now, draft,
                 readers, history>>

Publish(c) ==
  /\ pc[c] = "publish"
  /\ snapshot' = draft[c]
  /\ Goto(c, "release")
  /\ UNCHANGED <<clock, schedule, running, lastAttempt, counters, now, draft,
                 readers, history>>

\* The deferred running.Store(false).
Release(c) ==
  /\ pc[c] = "release"
  /\ running' = FALSE
  /\ Return(c)
  /\ UNCHANGED <<clock, schedule, lastAttempt, counters, snapshot, now, draft,
                 readers, history>>

(* ------------------------------- Run ---------------------------------- *)

\* Mutant: the ticker is made with the two intervals added up.
StartTickerLate ==
  /\ pc[Loop] = "ticker"
  /\ due' = Interval + MinInterval
  /\ Goto(Loop, "select")
  /\ UNCHANGED <<clock, stopping, tick, cause, running, lastAttempt, counters,
                 snapshot, now, draft, readers, history>>

StartTicker ==
  /\ pc[Loop] = "ticker"
  /\ due' = Interval
  /\ Goto(Loop, "select")
  /\ UNCHANGED <<clock, stopping, tick, cause, running, lastAttempt, counters,
                 snapshot, now, draft, readers, history>>

Call(c) == Goto(c, "sample") /\ calls' = calls + 1

\* case <-ticker.C
TakeTick ==
  /\ pc[Loop] = "select" /\ tick # "none"
  /\ tick' = "none" /\ cause' = tick
  /\ Call(Loop)
  /\ UNCHANGED <<clock, stopping, due, running, lastAttempt, counters, snapshot,
                 now, draft, readers, begun, lastNow>>

\* Mutant: the loop looks at ctx only when a tick wakes it.
LeaveLoopOnTick ==
  /\ pc[Loop] = "select" /\ stopping /\ tick # "none"
  /\ tick' = "none" /\ due' = 0
  /\ Goto(Loop, "done")
  /\ UNCHANGED <<clock, stopping, cause, running, lastAttempt, counters, snapshot,
                 now, draft, readers, history>>

\* case <-ctx.Done(), and the deferred ticker.Stop().
LeaveLoop ==
  /\ pc[Loop] = "select" /\ stopping
  /\ tick' = "none" /\ due' = 0
  /\ Goto(Loop, "done")
  /\ UNCHANGED <<clock, stopping, cause, running, lastAttempt, counters, snapshot,
                 now, draft, readers, history>>

CollectNowForTest(c) ==
  /\ c # Loop /\ pc[c] = "idle" /\ calls < MaxCalls
  /\ Call(c)
  /\ UNCHANGED <<clock, schedule, running, lastAttempt, counters, snapshot,
                 now, draft, readers, begun, lastNow>>

(* ---------------------------- the readers ----------------------------- *)

RGoto(r, label) == rpc' = [rpc EXCEPT ![r] = label]

ServiceUnchanged == UNCHANGED <<clock, schedule, running, lastAttempt, counters,
                                snapshot, callers, history>>

\* /metrics: snap := svc.Snapshot(), before svc.Stats().
ReadSnapshot(r) ==
  /\ rpc[r] = "idle"
  /\ view' = [view EXCEPT ![r].snap = snapshot]
  /\ RGoto(r, "lastSuccess")
  /\ ServiceUnchanged

\* The four loads of Stats(), in the order they are written.
LoadLastSuccess(r) ==
  /\ rpc[r] = "lastSuccess"
  /\ view' = [view EXCEPT ![r].lastSuccess = lastSuccess]
  /\ RGoto(r, "collections")
  /\ ServiceUnchanged

LoadCollections(r) ==
  /\ rpc[r] = "collections"
  /\ view' = [view EXCEPT ![r].collections = collections]
  /\ RGoto(r, "errors")
  /\ ServiceUnchanged

LoadErrors(r) ==
  /\ rpc[r] = "errors"
  /\ view' = [view EXCEPT ![r].errors = errors]
  /\ RGoto(r, "skipped")
  /\ ServiceUnchanged

LoadSkipped(r) ==
  /\ rpc[r] = "skipped"
  /\ view' = [view EXCEPT ![r].skipped = skipped]
  /\ RGoto(r, "reply")
  /\ ServiceUnchanged

\* /snapshot, /jobs, /queues, /hosts, /cluster, /licenses and /resources go
\* from svc.Snapshot() to their response; they load no counter.
ReadView(r) ==
  /\ rpc[r] = "idle"
  /\ view' = [view EXCEPT ![r].snap = snapshot]
  /\ RGoto(r, "json")
  /\ ServiceUnchanged

\* The response is written and the connection free for the next request.
Respond(r) ==
  /\ rpc[r] \in {"reply", "json"}
  /\ view' = [view EXCEPT ![r] = NoView]
  /\ RGoto(r, "idle")
  /\ ServiceUnchanged

(* --------------------------- the environment -------------------------- *)

\* A ticker fires on time; a tick that finds the slot taken is dropped.
Advance ==
  /\ uptime < MaxUptime
  /\ uptime' = uptime + 1 /\ wall' = wall + 1
  /\ due' = IF due = 1 THEN Interval ELSE IF due = 0 THEN 0 ELSE due - 1
  /\ tick' = IF due = 1 /\ tick = "none"
             THEN IF running THEN "busy" ELSE "idle"
             ELSE tick
  /\ UNCHANGED <<stopping, cause, running, lastAttempt, counters, snapshot,
                 callers, readers, history>>

\* The wall clock is set; the monotonic one is not.
SetClock ==
  /\ \E o \in Offsets : wall' = Boot + uptime + o
  /\ UNCHANGED <<uptime, schedule, running, lastAttempt, counters, snapshot,
                 callers, readers, history>>

\* signal.NotifyContext cancels ctx.
Cancel ==
  /\ ~stopping
  /\ stopping' = TRUE
  /\ UNCHANGED <<clock, tick, due, cause, running, lastAttempt, counters, snapshot,
                 callers, readers, history>>

-----------------------------------------------------------------------------
Collect(c) ==
  \/ Sample(c) \/ SkipTooSoon(c) \/ PassGate(c) \/ SkipRunning(c) \/ Acquire(c)
  \/ Stamp(c) \/ Count(c) \/ Tally(c) \/ Publish(c) \/ Release(c)

Read(r) ==
  \/ LoadLastSuccess(r) \/ LoadCollections(r) \/ LoadErrors(r) \/ LoadSkipped(r)
  \/ Respond(r)

Next ==
  \/ \E c \in Callers : Collect(c) \/ CollectReturns(c) \/ CollectNowForTest(c)
  \/ StartTicker \/ TakeTick \/ LeaveLoop
  \/ \E r \in Readers : ReadSnapshot(r) \/ ReadView(r) \/ Read(r)
  \/ Advance \/ SetClock \/ Cancel

Spec == Init /\ [][Next]_vars

\* The Go scheduler runs every goroutine that can run; a select with several
\* ready cases picks one at random, so that none is passed over for ever.
Fairness ==
  /\ \A c \in Callers : WF_vars(Collect(c))
  /\ \A r \in Readers : WF_vars(Read(r))
  /\ WF_vars(StartTicker) /\ SF_vars(TakeTick) /\ SF_vars(LeaveLoop)

\* LSF may hang in a collection for ever.
HungSpec == Spec /\ Fairness

-----------------------------------------------------------------------------
TypeOK ==
  /\ wall \in Int /\ uptime \in Nat
  /\ stopping \in BOOLEAN /\ tick \in Ticks /\ cause \in Ticks /\ due \in 0..Interval
  /\ running \in BOOLEAN /\ lastAttempt \in Int /\ lastSuccess \in Int
  /\ collections \in Nat /\ errors \in Nat /\ skipped \in Nat
  /\ snapshot \in Snapshot
  /\ pc \in [Callers -> Labels]
  /\ now \in [Callers -> Time]
  /\ draft \in [Callers -> Snapshot]
  /\ rpc \in [Readers -> ReaderLabels]
  /\ view \in [Readers -> View]
  /\ calls \in Nat /\ begun \in Nat /\ lastNow \in Time

\* One collection at a time: the running flag is up exactly while one caller
\* is between its compare-and-swap and its deferred Store(false).
SingleFlightInv ==
  /\ \A c, d \in Owners : c = d
  /\ running <=> Owners # {}

\* Every call of collectOnce ends up in exactly one of collections_total and
\* collect_skipped_total, and those still under way in neither.
EveryCallCounted == calls = collections + skipped + Cardinality(Uncounted)

\* What a scrape says of the counters covers the snapshot it shows: handler
\* reads the snapshot first, collectOnce publishes it last.
ScrapeCoversSnapshot ==
  \A r \in Readers : rpc[r] = "reply" =>
    /\ view[r].collections >= view[r].snap.gen
    /\ view[r].errors >= view[r].snap.errs
    /\ view[r].snap.gen > 0 /\ ~view[r].snap.failed => view[r].lastSuccess > 0

\* The service keeps the promise of SingleFlight.
Flights == INSTANCE SingleFlight WITH
             Callers  <- Callers,
             inFlight <- {c \in Callers : pc[c] \in {"collecting", "count", "tally", "publish"}},
             begun    <- begun,
             shown    <- snapshot.gen
ImplementsSingleFlight == Flights!Spec

\* Two attempts that were both let through are MinInterval apart by the wall
\* clock, but for the fraction of a second Unix() cut from the first one.
\* This is the loop's own guarantee: with testers the check and the
\* compare-and-swap of two callers interleave.
AttemptsSpaced ==
  [][begun > 0 /\ begun' # begun =>
       lastNow'.wall - lastNow.wall >= MinInterval - (SecondTicks - 1)]_vars

\* The gate turns no call away that comes MinInterval or more after the last
\* attempt by the wall clock, and none while there has been no attempt.
SkipsOnlyWhenRecent ==
  [][\A c \in Callers : pc[c] = "gate" /\ skipped' # skipped /\ pc'[c] # "gate" =>
       begun > 0 /\ now[c].wall - lastNow.wall < MinInterval]_vars

\* docs/lsf-exporter-design.md: "If a collection is still running, the next
\* scheduled run is skipped".
MissedRunIsSkipped == pc[Loop] = "collecting" => cause # "busy"

\* LSF returns from every collection.
LsfReturns == \A c \in Callers : []<>(pc[c] # "collecting")

\* What was collected is shown: a collection that has begun is published, or a
\* newer one is, provided LSF returns.
EveryCollectionShown ==
  LsfReturns => \A g \in 1..MaxUptime : begun >= g ~> snapshot.gen >= g

\* After SIGTERM the loop ends, whatever ticks are pending, provided LSF
\* returns.
StopEndsLoop == LsfReturns => (stopping ~> pc[Loop] = "done")
=============================================================================
