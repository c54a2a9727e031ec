--------------------------- MODULE JobQueryProofs ---------------------------
(***************************************************************************)
(* Proofs about JobQuery, for any set of requests and any values of the    *)
(* constants: the safety properties its runs check, and that it implements *)
(* SingleFlight.                                                           *)
(***************************************************************************)
EXTENDS JobQuery, TLAPS

InFlight == {r \in Requests : pc[r] \in {"querying", "publish"}}

\* A query that has landed is in the cache; one that has not is newer.
CacheCurrent ==
  /\ InFlight = {} => cache.query = queries
  /\ InFlight # {} => cache.query < queries
  /\ delivered <= cache.query

\* What a request carries: the query it runs, or something read from the
\* cache since it arrived.
SnapCurrent ==
  \A r \in Requests :
    /\ floor[r].delivered <= delivered
    /\ floor[r].queries <= queries
    /\ pc[r] = "querying" => floor[r].queries < queries
    /\ IF pc[r] = "publish" THEN snap[r].query = queries
                            ELSE snap[r].query <= cache.query
    /\ \/ pc[r] \in {"idle", "read"}
       \/ pc[r] = "replied" /\ answer[r].status \in {400, 503}
       \/ floor[r].delivered <= snap[r].query

\* The refreshed flag is up only on a query of the request's own.
RefreshedOwn ==
  \A r \in Requests : answer[r].refreshed =>
    /\ pc[r] \notin {"idle", "fallback"}
    /\ snap[r].query > floor[r].queries
    /\ answer[r].status = IF snap[r].failed THEN 500 ELSE 200

\* No job is missing from the cache or from a snapshot a request works on.
JobsWhole ==
  /\ cache.jobs = IF cache.query = 0 \/ cache.failed THEN {} ELSE Jobs
  /\ \A r \in Requests : pc[r] # "replied" =>
       snap[r].jobs = IF snap[r].query = 0 \/ snap[r].failed THEN {} ELSE Jobs

\* Nor from a reply, but for those the endpoint filters out.
RepliesWhole ==
  \A r \in Requests :
    pc[r] = "replied" /\ answer[r].status \notin {400, 503} =>
      snap[r].jobs = IF snap[r].query = 0 \/ snap[r].failed THEN {}
                     ELSE IF ask[r].scope = "finished_jobs" THEN Finished
                     ELSE Jobs

IInv ==
  /\ TypeOK
  /\ SingleFlightInv
  /\ CacheCurrent
  /\ SnapCurrent
  /\ RefreshedOwn
  /\ JobsWhole
  /\ RepliesWhole
-----------------------------------------------------------------------------
(* Each conjunct of IInv is preserved by every step, given the ones before  *)
(* it: one lemma per conjunct, one step per action.                         *)

\* The instant that survives Unix() and time.Unix is a whole number of ticks.
LEMMA SecondIsInt == ASSUME NEW t \in Int PROVE Second(t) \in Int
BY SecondTicksAssumption DEF Second

\* Every step keeps the variables in their types.
LEMMA StepType ==
  ASSUME TypeOK, [Next]_vars
  PROVE  TypeOK'
<1> USE JobQueryAssumption DEF TypeOK, vars, env, server, locals, history, Goto, Say,
        Refuse
<1>1. ASSUME UNCHANGED vars PROVE TypeOK'
  BY <1>1
<1>2. ASSUME Advance PROVE TypeOK'
  BY <1>2 DEF Advance
<1>3. ASSUME NEW r \in Requests, Disabled(r) PROVE TypeOK'
  BY <1>3 DEF Disabled, Labels, Answer
<1>4. ASSUME NEW r \in Requests, BadRequest(r) PROVE TypeOK'
  BY <1>4 DEF BadRequest, Labels, Answer
<1>5. ASSUME NEW r \in Requests, Accept(r) PROVE TypeOK'
  BY <1>5 DEF Accept, Labels, Scopes, NoFloor
<1>6. ASSUME NEW r \in Requests, Leave(r) PROVE TypeOK'
  BY <1>6 DEF Leave, Labels, NoAsk, NoData, NoAnswer, NoFloor, Snapshot, Answer, Scopes
<1>7. ASSUME NEW r \in Requests, ReadCache(r) PROVE TypeOK'
  BY <1>7 DEF ReadCache, Labels, Answer
<1>8. ASSUME NEW r \in Requests, Reply(r) PROVE TypeOK'
  BY <1>8 DEF Reply, Labels, Snapshot, FinishedOnly
<1>9. ASSUME NEW r \in Requests, Sample(r) PROVE TypeOK'
  BY <1>9 DEF Sample, Labels
<1>10. ASSUME NEW r \in Requests, RefuseTooSoon(r) PROVE TypeOK'
  BY <1>10 DEF RefuseTooSoon, Labels, Answer
<1>11. ASSUME NEW r \in Requests, PassGate(r) PROVE TypeOK'
  BY <1>11 DEF PassGate, Labels
<1>12. ASSUME NEW r \in Requests, RefuseConflict(r) PROVE TypeOK'
  BY <1>12 DEF RefuseConflict, Labels, Answer
<1>13. ASSUME NEW r \in Requests, Acquire(r) PROVE TypeOK'
  BY <1>13 DEF Acquire, Labels
<1>14. ASSUME NEW r \in Requests, Fallback(r) PROVE TypeOK'
  BY <1>14 DEF Fallback, Labels
<1>15. ASSUME NEW r \in Requests, Stamp(r) PROVE TypeOK'
  BY <1>15, SecondIsInt DEF Stamp, Labels
<1>16. ASSUME NEW r \in Requests, QueryReturns(r) PROVE TypeOK'
  BY <1>16 DEF QueryReturns, Labels, Snapshot, Answer
<1>17. ASSUME NEW r \in Requests, Publish(r) PROVE TypeOK'
  BY <1>17 DEF Publish, Labels
<1>18. ASSUME NEW r \in Requests, Release(r) PROVE TypeOK'
  BY <1>18 DEF Release, Labels
<1> QED
  BY <1>1, <1>2, <1>3, <1>4, <1>5, <1>6, <1>7, <1>8, <1>9, <1>10, <1>11, <1>12,
     <1>13, <1>14, <1>15, <1>16, <1>17, <1>18 DEF Next, Client, Handle

\* Only Acquire lets a request in, and only when the flag is down.
LEMMA StepSingleFlight ==
  ASSUME TypeOK, SingleFlightInv, [Next]_vars
  PROVE  SingleFlightInv'
<1> USE DEF TypeOK, SingleFlightInv, Owners, Busy, vars, env, server, locals, history,
        Goto, Say, Refuse
<1>1. ASSUME UNCHANGED vars PROVE SingleFlightInv'
  BY <1>1
<1>2. ASSUME Advance PROVE SingleFlightInv'
  BY <1>2 DEF Advance
<1>3. ASSUME NEW r \in Requests, Disabled(r) PROVE SingleFlightInv'
  BY <1>3 DEF Disabled
<1>4. ASSUME NEW r \in Requests, BadRequest(r) PROVE SingleFlightInv'
  BY <1>4 DEF BadRequest
<1>5. ASSUME NEW r \in Requests, Accept(r) PROVE SingleFlightInv'
  BY <1>5 DEF Accept
<1>6. ASSUME NEW r \in Requests, Leave(r) PROVE SingleFlightInv'
  BY <1>6 DEF Leave
<1>7. ASSUME NEW r \in Requests, ReadCache(r) PROVE SingleFlightInv'
  BY <1>7 DEF ReadCache
<1>8. ASSUME NEW r \in Requests, Reply(r) PROVE SingleFlightInv'
  BY <1>8 DEF Reply
<1>9. ASSUME NEW r \in Requests, Sample(r) PROVE SingleFlightInv'
  BY <1>9 DEF Sample
<1>10. ASSUME NEW r \in Requests, RefuseTooSoon(r) PROVE SingleFlightInv'
  BY <1>10 DEF RefuseTooSoon
<1>11. ASSUME NEW r \in Requests, PassGate(r) PROVE SingleFlightInv'
  BY <1>11 DEF PassGate
<1>12. ASSUME NEW r \in Requests, RefuseConflict(r) PROVE SingleFlightInv'
  BY <1>12 DEF RefuseConflict
<1>13. ASSUME NEW r \in Requests, Acquire(r) PROVE SingleFlightInv'
  BY <1>13 DEF Acquire
<1>14. ASSUME NEW r \in Requests, Fallback(r) PROVE SingleFlightInv'
  BY <1>14 DEF Fallback
<1>15. ASSUME NEW r \in Requests, Stamp(r) PROVE SingleFlightInv'
  BY <1>15 DEF Stamp
<1>16. ASSUME NEW r \in Requests, QueryReturns(r) PROVE SingleFlightInv'
  BY <1>16 DEF QueryReturns
<1>17. ASSUME NEW r \in Requests, Publish(r) PROVE SingleFlightInv'
  BY <1>17 DEF Publish
<1>18. ASSUME NEW r \in Requests, Release(r) PROVE SingleFlightInv'
  BY <1>18 DEF Release
<1> QED
  BY <1>1, <1>2, <1>3, <1>4, <1>5, <1>6, <1>7, <1>8, <1>9, <1>10, <1>11, <1>12,
     <1>13, <1>14, <1>15, <1>16, <1>17, <1>18 DEF Next, Client, Handle

\* A query begins behind the cache and its publication catches it up.
LEMMA StepCacheCurrent ==
  ASSUME TypeOK, SingleFlightInv, CacheCurrent, SnapCurrent, [Next]_vars
  PROVE  CacheCurrent'
<1> USE DEF TypeOK, SingleFlightInv, Owners, Busy, CacheCurrent, SnapCurrent,
           InFlight, Snapshot, vars, env, server, locals, history, Goto, Say, Refuse
<1>1. ASSUME UNCHANGED vars PROVE CacheCurrent'
  BY <1>1
<1>2. ASSUME Advance PROVE CacheCurrent'
  BY <1>2 DEF Advance
<1>3. ASSUME NEW r \in Requests, Disabled(r) PROVE CacheCurrent'
  BY <1>3 DEF Disabled
<1>4. ASSUME NEW r \in Requests, BadRequest(r) PROVE CacheCurrent'
  BY <1>4 DEF BadRequest
<1>5. ASSUME NEW r \in Requests, Accept(r) PROVE CacheCurrent'
  BY <1>5 DEF Accept
<1>6. ASSUME NEW r \in Requests, Leave(r) PROVE CacheCurrent'
  BY <1>6 DEF Leave
<1>7. ASSUME NEW r \in Requests, ReadCache(r) PROVE CacheCurrent'
  BY <1>7 DEF ReadCache
<1>8. ASSUME NEW r \in Requests, Reply(r) PROVE CacheCurrent'
  BY <1>8 DEF Reply
<1>9. ASSUME NEW r \in Requests, Sample(r) PROVE CacheCurrent'
  BY <1>9 DEF Sample
<1>10. ASSUME NEW r \in Requests, RefuseTooSoon(r) PROVE CacheCurrent'
  BY <1>10 DEF RefuseTooSoon
<1>11. ASSUME NEW r \in Requests, PassGate(r) PROVE CacheCurrent'
  BY <1>11 DEF PassGate
<1>12. ASSUME NEW r \in Requests, RefuseConflict(r) PROVE CacheCurrent'
  BY <1>12 DEF RefuseConflict
<1>13. ASSUME NEW r \in Requests, Acquire(r) PROVE CacheCurrent'
  BY <1>13 DEF Acquire
<1>14. ASSUME NEW r \in Requests, Fallback(r) PROVE CacheCurrent'
  BY <1>14 DEF Fallback
<1>15. ASSUME NEW r \in Requests, Stamp(r) PROVE CacheCurrent'
  BY <1>15 DEF Stamp
<1>16. ASSUME NEW r \in Requests, QueryReturns(r) PROVE CacheCurrent'
  BY <1>16 DEF QueryReturns
<1>17. ASSUME NEW r \in Requests, Publish(r) PROVE CacheCurrent'
  BY <1>17 DEF Publish
<1>18. ASSUME NEW r \in Requests, Release(r) PROVE CacheCurrent'
  BY <1>18 DEF Release
<1> QED
  BY <1>1, <1>2, <1>3, <1>4, <1>5, <1>6, <1>7, <1>8, <1>9, <1>10, <1>11, <1>12,
     <1>13, <1>14, <1>15, <1>16, <1>17, <1>18 DEF Next, Client, Handle

\* What a request carries is its own query or a read made since it arrived.
LEMMA StepSnapCurrent ==
  ASSUME TypeOK, SingleFlightInv, CacheCurrent, SnapCurrent, [Next]_vars
  PROVE  SnapCurrent'
<1> USE DEF TypeOK, SingleFlightInv, Owners, Busy, CacheCurrent, SnapCurrent,
           InFlight, Snapshot, vars, env, server, locals, history, Goto, Say, Refuse
<1>1. ASSUME UNCHANGED vars PROVE SnapCurrent'
  BY <1>1
<1>2. ASSUME Advance PROVE SnapCurrent'
  BY <1>2 DEF Advance
<1>3. ASSUME NEW r \in Requests, Disabled(r) PROVE SnapCurrent'
  BY <1>3 DEF Disabled
<1>4. ASSUME NEW r \in Requests, BadRequest(r) PROVE SnapCurrent'
  BY <1>4 DEF BadRequest
<1>5. ASSUME NEW r \in Requests, Accept(r) PROVE SnapCurrent'
  BY <1>5 DEF Accept
<1>6. ASSUME NEW r \in Requests, Leave(r) PROVE SnapCurrent'
  BY <1>6 DEF Leave, NoData, NoFloor
<1>7. ASSUME NEW r \in Requests, ReadCache(r) PROVE SnapCurrent'
  BY <1>7 DEF ReadCache
<1>8. ASSUME NEW r \in Requests, Reply(r) PROVE SnapCurrent'
  BY <1>8 DEF Reply, FinishedOnly
<1>9. ASSUME NEW r \in Requests, Sample(r) PROVE SnapCurrent'
  BY <1>9 DEF Sample
<1>10. ASSUME NEW r \in Requests, RefuseTooSoon(r) PROVE SnapCurrent'
  BY <1>10 DEF RefuseTooSoon
<1>11. ASSUME NEW r \in Requests, PassGate(r) PROVE SnapCurrent'
  BY <1>11 DEF PassGate
<1>12. ASSUME NEW r \in Requests, RefuseConflict(r) PROVE SnapCurrent'
  BY <1>12 DEF RefuseConflict
<1>13. ASSUME NEW r \in Requests, Acquire(r) PROVE SnapCurrent'
  BY <1>13 DEF Acquire
<1>14. ASSUME NEW r \in Requests, Fallback(r) PROVE SnapCurrent'
  BY <1>14 DEF Fallback
<1>15. ASSUME NEW r \in Requests, Stamp(r) PROVE SnapCurrent'
  BY <1>15 DEF Stamp
<1>16. ASSUME NEW r \in Requests, QueryReturns(r) PROVE SnapCurrent'
  BY <1>16 DEF QueryReturns
<1>17. ASSUME NEW r \in Requests, Publish(r) PROVE SnapCurrent'
  BY <1>17 DEF Publish
<1>18. ASSUME NEW r \in Requests, Release(r) PROVE SnapCurrent'
  BY <1>18 DEF Release
<1> QED
  BY <1>1, <1>2, <1>3, <1>4, <1>5, <1>6, <1>7, <1>8, <1>9, <1>10, <1>11, <1>12,
     <1>13, <1>14, <1>15, <1>16, <1>17, <1>18 DEF Next, Client, Handle

\* The refreshed flag goes up with the request's own query only.
LEMMA StepRefreshedOwn ==
  ASSUME TypeOK, SnapCurrent, RefreshedOwn, [Next]_vars
  PROVE  RefreshedOwn'
<1> USE DEF TypeOK, SnapCurrent, RefreshedOwn, Snapshot, vars, env, server, locals,
        history, Goto, Say, Refuse
<1>1. ASSUME UNCHANGED vars PROVE RefreshedOwn'
  BY <1>1
<1>2. ASSUME Advance PROVE RefreshedOwn'
  BY <1>2 DEF Advance
<1>3. ASSUME NEW r \in Requests, Disabled(r) PROVE RefreshedOwn'
  BY <1>3 DEF Disabled
<1>4. ASSUME NEW r \in Requests, BadRequest(r) PROVE RefreshedOwn'
  BY <1>4 DEF BadRequest
<1>5. ASSUME NEW r \in Requests, Accept(r) PROVE RefreshedOwn'
  BY <1>5 DEF Accept
<1>6. ASSUME NEW r \in Requests, Leave(r) PROVE RefreshedOwn'
  BY <1>6 DEF Leave, NoAnswer
<1>7. ASSUME NEW r \in Requests, ReadCache(r) PROVE RefreshedOwn'
  BY <1>7 DEF ReadCache
<1>8. ASSUME NEW r \in Requests, Reply(r) PROVE RefreshedOwn'
  BY <1>8 DEF Reply, FinishedOnly
<1>9. ASSUME NEW r \in Requests, Sample(r) PROVE RefreshedOwn'
  BY <1>9 DEF Sample
<1>10. ASSUME NEW r \in Requests, RefuseTooSoon(r) PROVE RefreshedOwn'
  BY <1>10 DEF RefuseTooSoon
<1>11. ASSUME NEW r \in Requests, PassGate(r) PROVE RefreshedOwn'
  BY <1>11 DEF PassGate
<1>12. ASSUME NEW r \in Requests, RefuseConflict(r) PROVE RefreshedOwn'
  BY <1>12 DEF RefuseConflict
<1>13. ASSUME NEW r \in Requests, Acquire(r) PROVE RefreshedOwn'
  BY <1>13 DEF Acquire
<1>14. ASSUME NEW r \in Requests, Fallback(r) PROVE RefreshedOwn'
  BY <1>14 DEF Fallback
<1>15. ASSUME NEW r \in Requests, Stamp(r) PROVE RefreshedOwn'
  BY <1>15 DEF Stamp
<1>16. ASSUME NEW r \in Requests, QueryReturns(r) PROVE RefreshedOwn'
  BY <1>16 DEF QueryReturns
<1>17. ASSUME NEW r \in Requests, Publish(r) PROVE RefreshedOwn'
  BY <1>17 DEF Publish
<1>18. ASSUME NEW r \in Requests, Release(r) PROVE RefreshedOwn'
  BY <1>18 DEF Release
<1> QED
  BY <1>1, <1>2, <1>3, <1>4, <1>5, <1>6, <1>7, <1>8, <1>9, <1>10, <1>11, <1>12,
     <1>13, <1>14, <1>15, <1>16, <1>17, <1>18 DEF Next, Client, Handle

\* No step before the reply drops a job.
LEMMA StepJobsWhole ==
  ASSUME TypeOK, SnapCurrent, JobsWhole, [Next]_vars
  PROVE  JobsWhole'
<1> USE DEF TypeOK, JobsWhole, vars, env, server, locals, history, Goto, Say, Refuse
<1>1. ASSUME UNCHANGED vars PROVE JobsWhole'
  BY <1>1
<1>2. ASSUME Advance PROVE JobsWhole'
  BY <1>2 DEF Advance
<1>3. ASSUME NEW r \in Requests, Disabled(r) PROVE JobsWhole'
  BY <1>3 DEF Disabled
<1>4. ASSUME NEW r \in Requests, BadRequest(r) PROVE JobsWhole'
  BY <1>4 DEF BadRequest
<1>5. ASSUME NEW r \in Requests, Accept(r) PROVE JobsWhole'
  BY <1>5 DEF Accept
<1>6. ASSUME NEW r \in Requests, Leave(r) PROVE JobsWhole'
  BY <1>6 DEF Leave, NoData
<1>7. ASSUME NEW r \in Requests, ReadCache(r) PROVE JobsWhole'
  BY <1>7 DEF ReadCache
<1>8. ASSUME NEW r \in Requests, Reply(r) PROVE JobsWhole'
  BY <1>8 DEF Reply, FinishedOnly, Snapshot
<1>9. ASSUME NEW r \in Requests, Sample(r) PROVE JobsWhole'
  BY <1>9 DEF Sample
<1>10. ASSUME NEW r \in Requests, RefuseTooSoon(r) PROVE JobsWhole'
  BY <1>10 DEF RefuseTooSoon
<1>11. ASSUME NEW r \in Requests, PassGate(r) PROVE JobsWhole'
  BY <1>11 DEF PassGate
<1>12. ASSUME NEW r \in Requests, RefuseConflict(r) PROVE JobsWhole'
  BY <1>12 DEF RefuseConflict
<1>13. ASSUME NEW r \in Requests, Acquire(r) PROVE JobsWhole'
  BY <1>13 DEF Acquire
<1>14. ASSUME NEW r \in Requests, Fallback(r) PROVE JobsWhole'
  BY <1>14 DEF Fallback
<1>15. ASSUME NEW r \in Requests, Stamp(r) PROVE JobsWhole'
  BY <1>15 DEF Stamp
<1>16. ASSUME NEW r \in Requests, QueryReturns(r) PROVE JobsWhole'
  BY <1>16 DEF QueryReturns, SnapCurrent
<1>17. ASSUME NEW r \in Requests, Publish(r) PROVE JobsWhole'
  BY <1>17 DEF Publish
<1>18. ASSUME NEW r \in Requests, Release(r) PROVE JobsWhole'
  BY <1>18 DEF Release
<1> QED
  BY <1>1, <1>2, <1>3, <1>4, <1>5, <1>6, <1>7, <1>8, <1>9, <1>10, <1>11, <1>12,
     <1>13, <1>14, <1>15, <1>16, <1>17, <1>18 DEF Next, Client, Handle

\* The reply drops exactly the jobs its endpoint filters out.
LEMMA StepRepliesWhole ==
  ASSUME TypeOK, JobsWhole, RepliesWhole, [Next]_vars
  PROVE  RepliesWhole'
<1> USE DEF TypeOK, RepliesWhole, vars, env, server, locals, history, Goto, Say, Refuse
<1>1. ASSUME UNCHANGED vars PROVE RepliesWhole'
  BY <1>1
<1>2. ASSUME Advance PROVE RepliesWhole'
  BY <1>2 DEF Advance
<1>3. ASSUME NEW r \in Requests, Disabled(r) PROVE RepliesWhole'
  BY <1>3 DEF Disabled
<1>4. ASSUME NEW r \in Requests, BadRequest(r) PROVE RepliesWhole'
  BY <1>4 DEF BadRequest
<1>5. ASSUME NEW r \in Requests, Accept(r) PROVE RepliesWhole'
  BY <1>5 DEF Accept
<1>6. ASSUME NEW r \in Requests, Leave(r) PROVE RepliesWhole'
  BY <1>6 DEF Leave
<1>7. ASSUME NEW r \in Requests, ReadCache(r) PROVE RepliesWhole'
  BY <1>7 DEF ReadCache
<1>8. ASSUME NEW r \in Requests, Reply(r) PROVE RepliesWhole'
  <2>1. CASE ask[r].scope = "finished_jobs"
    <3> DEFINE all == IF snap[r].query = 0 \/ snap[r].failed THEN {} ELSE Jobs
    <3>1. all \cap Finished = IF snap[r].query = 0 \/ snap[r].failed THEN {} ELSE Finished
      BY JobQueryAssumption
    <3>2. snap' = [snap EXCEPT ![r] = [snap[r] EXCEPT !.jobs = all \cap Finished]]
      BY <1>8, <2>1 DEF Reply, FinishedOnly, JobsWhole
    <3>3. /\ snap'[r].jobs = IF snap'[r].query = 0 \/ snap'[r].failed THEN {} ELSE Finished
          /\ \A q \in Requests : q # r => snap'[q] = snap[q]
      BY <3>1, <3>2 DEF Snapshot
    <3> QED
      BY <1>8, <2>1, <3>3 DEF Reply
  <2>2. CASE ask[r].scope # "finished_jobs"
    <3>1. snap' = snap
      BY <1>8, <2>2 DEF Reply
    <3> QED
      BY <1>8, <2>2, <3>1 DEF Reply, JobsWhole
  <2> QED
    BY <2>1, <2>2
<1>9. ASSUME NEW r \in Requests, Sample(r) PROVE RepliesWhole'
  BY <1>9 DEF Sample
<1>10. ASSUME NEW r \in Requests, RefuseTooSoon(r) PROVE RepliesWhole'
  BY <1>10 DEF RefuseTooSoon
<1>11. ASSUME NEW r \in Requests, PassGate(r) PROVE RepliesWhole'
  BY <1>11 DEF PassGate
<1>12. ASSUME NEW r \in Requests, RefuseConflict(r) PROVE RepliesWhole'
  BY <1>12 DEF RefuseConflict
<1>13. ASSUME NEW r \in Requests, Acquire(r) PROVE RepliesWhole'
  BY <1>13 DEF Acquire
<1>14. ASSUME NEW r \in Requests, Fallback(r) PROVE RepliesWhole'
  BY <1>14 DEF Fallback
<1>15. ASSUME NEW r \in Requests, Stamp(r) PROVE RepliesWhole'
  BY <1>15 DEF Stamp
<1>16. ASSUME NEW r \in Requests, QueryReturns(r) PROVE RepliesWhole'
  BY <1>16 DEF QueryReturns
<1>17. ASSUME NEW r \in Requests, Publish(r) PROVE RepliesWhole'
  BY <1>17 DEF Publish
<1>18. ASSUME NEW r \in Requests, Release(r) PROVE RepliesWhole'
  BY <1>18 DEF Release
<1> QED
  BY <1>1, <1>2, <1>3, <1>4, <1>5, <1>6, <1>7, <1>8, <1>9, <1>10, <1>11, <1>12,
     <1>13, <1>14, <1>15, <1>16, <1>17, <1>18 DEF Next, Client, Handle

-----------------------------------------------------------------------------
(* The inductive invariant. *)

\* The first states satisfy the invariant.
LEMMA InitInv == Init => IInv
<1> SUFFICES ASSUME Init PROVE IInv
  OBVIOUS
<1> USE JobQueryAssumption DEF Init
<1>1. TypeOK
  <2>1. native \in BOOLEAN /\ running \in BOOLEAN
    OBVIOUS
  <2>2. cache \in Snapshot /\ snap \in [Requests -> Snapshot]
    BY DEF Snapshot, NoData
  <2>3. pc \in [Requests -> Labels]
    BY DEF Labels
  <2>4. ask \in [Requests -> [scope : Scopes, refresh : BOOLEAN]]
    BY DEF NoAsk, Scopes
  <2>5. answer \in [Requests -> Answer]
    BY DEF NoAnswer, Answer
  <2>6. floor \in [Requests -> [queries : Nat, delivered : Nat]]
    BY DEF NoFloor
  <2>7. wall \in Nat /\ lastAttempt \in Int /\ now \in [Requests -> Nat]
        /\ queries \in Nat /\ lastNow \in Nat /\ delivered \in Nat
    OBVIOUS
  <2> QED
    BY <2>1, <2>2, <2>3, <2>4, <2>5, <2>6, <2>7 DEF TypeOK
<1>2. SingleFlightInv
  BY DEF SingleFlightInv, Owners, Busy
<1>3. CacheCurrent
  BY DEF CacheCurrent, InFlight, NoData
<1>4. SnapCurrent
  BY DEF SnapCurrent, NoData, NoFloor
<1>5. RefreshedOwn
  BY DEF RefreshedOwn, NoAnswer
<1>6. JobsWhole
  BY DEF JobsWhole, NoData
<1>7. RepliesWhole
  BY DEF RepliesWhole
<1> QED
  BY <1>1, <1>2, <1>3, <1>4, <1>5, <1>6, <1>7 DEF IInv

\* Every step keeps it.
LEMMA StepInv == ASSUME IInv, [Next]_vars PROVE IInv'
BY StepType, StepSingleFlight, StepCacheCurrent, StepSnapCurrent, StepRefreshedOwn,
   StepJobsWhole, StepRepliesWhole DEF IInv

\* It holds in every state that is reached.
LEMMA Inductive == Spec => []IInv
BY InitInv, StepInv, PTL DEF Spec

-----------------------------------------------------------------------------
\* The variables never leave their types.
THEOREM TypeCorrect == Spec => []TypeOK
<1>1. IInv => TypeOK
  BY DEF IInv
<1> QED
  BY <1>1, Inductive, PTL

\* At most one request is between its compare-and-swap and its deferred
\* Store(false), and the running flag is up exactly then.
THEOREM OneQueryAtATime == Spec => []SingleFlightInv
<1>1. IInv => SingleFlightInv
  BY DEF IInv
<1> QED
  BY <1>1, Inductive, PTL

\* On every path through the handlers the snapshot a reply shows is at least
\* as new as any reply sent before the request arrived.
THEOREM NoReplyGoesBack == Spec => []RepliesNeverGoBack
<1>1. IInv => RepliesNeverGoBack
  BY DEF IInv, SnapCurrent, RepliesNeverGoBack
<1> QED
  BY <1>1, Inductive, PTL

\* A reply that says refreshed shows a query begun after the request arrived,
\* and its status tells whether that query failed.
THEOREM RefreshedIsNew == Spec => []RefreshedMeansNew
<1>1. IInv => RefreshedMeansNew
  BY DEF IInv, RefreshedOwn, RefreshedMeansNew
<1> QED
  BY <1>1, Inductive, PTL

\* The cache the two endpoints share keeps every job, and a reply holds what
\* its endpoint promises.
THEOREM CacheStaysWhole == Spec => []FilterLeavesCacheWhole
<1>1. IInv => FilterLeavesCacheWhole
  <2> SUFFICES ASSUME IInv PROVE FilterLeavesCacheWhole
    OBVIOUS
  <2>1. cache.jobs = IF cache.query = 0 \/ cache.failed THEN {} ELSE Jobs
    BY DEF IInv, JobsWhole
  <2>2. ASSUME NEW r \in Requests, pc[r] = "replied", answer[r].status \notin {400, 503},
               ask[r].scope = "finished_jobs"
        PROVE  snap[r].jobs = (IF snap[r].query = 0 \/ snap[r].failed THEN {} ELSE Jobs)
                                \cap Finished
    <3>1. snap[r].jobs = IF snap[r].query = 0 \/ snap[r].failed THEN {} ELSE Finished
      BY <2>2 DEF IInv, RepliesWhole
    <3> QED
      BY <3>1, JobQueryAssumption
  <2>3. ASSUME NEW r \in Requests, pc[r] = "replied", answer[r].status \notin {400, 503},
               ask[r].scope # "finished_jobs"
        PROVE  snap[r].jobs = IF snap[r].query = 0 \/ snap[r].failed THEN {} ELSE Jobs
    BY <2>3 DEF IInv, RepliesWhole
  <2> QED
    BY <2>1, <2>2, <2>3, Zenon DEF FilterLeavesCacheWhole
<1> QED
  BY <1>1, Inductive, PTL

-----------------------------------------------------------------------------
(* What the gate guarantees.                                                *)

\* The instant t cut to its second is at most a second older.
LEMMA SecondBounds ==
  ASSUME NEW t \in Int
  PROVE  Second(t) \in Int /\ Second(t) <= t /\ t - Second(t) <= SecondTicks - 1
BY SecondTicksAssumption DEF Second

\* Where a request has taken its time, and where it has passed the gate.
Sampled == {"gate", "cas", "stamp"}
Passed  == {"cas", "stamp"}

\* lastAttempt is the last attempt's now, cut to its second.  A request that
\* has seen no query begin since it arrived took its own now after that one,
\* and what the gate found of the two still holds.
GateHolds ==
  /\ lastNow <= wall
  /\ queries > 0 => lastAttempt = Second(lastNow)
  /\ \A r \in Requests :
       /\ pc[r] \in Sampled => now[r] <= wall
       /\ pc[r] \in Sampled /\ floor[r].queries = queries => now[r] >= lastNow
       /\ pc[r] \in Passed /\ floor[r].queries = queries /\ MinInterval > 0 =>
            now[r] - lastAttempt >= MinInterval

\* Every step keeps what the gate has found.
LEMMA StepGateHolds ==
  ASSUME TypeOK, SnapCurrent, GateHolds, [Next]_vars
  PROVE  GateHolds'
<1> USE JobQueryAssumption DEF TypeOK, GateHolds, Sampled, Passed, vars, env, server,
        locals, history, Goto, Say, Refuse
<1>1. ASSUME UNCHANGED vars PROVE GateHolds'
  BY <1>1
<1>2. ASSUME Advance PROVE GateHolds'
  BY <1>2 DEF Advance
<1>3. ASSUME NEW r \in Requests, Disabled(r) PROVE GateHolds'
  BY <1>3 DEF Disabled
<1>4. ASSUME NEW r \in Requests, BadRequest(r) PROVE GateHolds'
  BY <1>4 DEF BadRequest
<1>5. ASSUME NEW r \in Requests, Accept(r) PROVE GateHolds'
  BY <1>5 DEF Accept
<1>6. ASSUME NEW r \in Requests, Leave(r) PROVE GateHolds'
  BY <1>6 DEF Leave
<1>7. ASSUME NEW r \in Requests, ReadCache(r) PROVE GateHolds'
  BY <1>7 DEF ReadCache
<1>8. ASSUME NEW r \in Requests, Reply(r) PROVE GateHolds'
  BY <1>8 DEF Reply
<1>9. ASSUME NEW r \in Requests, Sample(r) PROVE GateHolds'
  BY <1>9 DEF Sample
<1>10. ASSUME NEW r \in Requests, RefuseTooSoon(r) PROVE GateHolds'
  BY <1>10 DEF RefuseTooSoon
<1>11. ASSUME NEW r \in Requests, PassGate(r) PROVE GateHolds'
  BY <1>11 DEF PassGate, TooSoon
<1>12. ASSUME NEW r \in Requests, RefuseConflict(r) PROVE GateHolds'
  BY <1>12 DEF RefuseConflict
<1>13. ASSUME NEW r \in Requests, Acquire(r) PROVE GateHolds'
  BY <1>13 DEF Acquire
<1>14. ASSUME NEW r \in Requests, Fallback(r) PROVE GateHolds'
  BY <1>14 DEF Fallback
<1>15. ASSUME NEW r \in Requests, Stamp(r) PROVE GateHolds'
  BY <1>15 DEF Stamp, SnapCurrent
<1>16. ASSUME NEW r \in Requests, QueryReturns(r) PROVE GateHolds'
  BY <1>16 DEF QueryReturns
<1>17. ASSUME NEW r \in Requests, Publish(r) PROVE GateHolds'
  BY <1>17 DEF Publish
<1>18. ASSUME NEW r \in Requests, Release(r) PROVE GateHolds'
  BY <1>18 DEF Release
<1> QED
  BY <1>1, <1>2, <1>3, <1>4, <1>5, <1>6, <1>7, <1>8, <1>9, <1>10, <1>11, <1>12,
     <1>13, <1>14, <1>15, <1>16, <1>17, <1>18 DEF Next, Client, Handle

\* What RefreshesSpaced says of one step.
Spaced ==
  \A r \in Requests :
    pc[r] = "stamp" /\ queries' # queries /\ pc'[r] # "stamp" /\
    queries > 0 /\ floor[r].queries = queries =>
      lastNow' - lastNow >= MinInterval - (SecondTicks - 1)

\* So scans keep their distance.
LEMMA StepSpaced ==
  ASSUME TypeOK, GateHolds, [Next]_vars
  PROVE  [Spaced]_vars
<1> USE DEF TypeOK, Spaced, vars, env, server, locals, history, Goto, Say, Refuse
<1>1. ASSUME UNCHANGED vars PROVE [Spaced]_vars
  BY <1>1
<1>2. ASSUME Advance PROVE [Spaced]_vars
  BY <1>2 DEF Advance
<1>3. ASSUME NEW r \in Requests, Disabled(r) PROVE [Spaced]_vars
  BY <1>3 DEF Disabled
<1>4. ASSUME NEW r \in Requests, BadRequest(r) PROVE [Spaced]_vars
  BY <1>4 DEF BadRequest
<1>5. ASSUME NEW r \in Requests, Accept(r) PROVE [Spaced]_vars
  BY <1>5 DEF Accept
<1>6. ASSUME NEW r \in Requests, Leave(r) PROVE [Spaced]_vars
  BY <1>6 DEF Leave
<1>7. ASSUME NEW r \in Requests, ReadCache(r) PROVE [Spaced]_vars
  BY <1>7 DEF ReadCache
<1>8. ASSUME NEW r \in Requests, Reply(r) PROVE [Spaced]_vars
  BY <1>8 DEF Reply
<1>9. ASSUME NEW r \in Requests, Sample(r) PROVE [Spaced]_vars
  BY <1>9 DEF Sample
<1>10. ASSUME NEW r \in Requests, RefuseTooSoon(r) PROVE [Spaced]_vars
  BY <1>10 DEF RefuseTooSoon
<1>11. ASSUME NEW r \in Requests, PassGate(r) PROVE [Spaced]_vars
  BY <1>11 DEF PassGate
<1>12. ASSUME NEW r \in Requests, RefuseConflict(r) PROVE [Spaced]_vars
  BY <1>12 DEF RefuseConflict
<1>13. ASSUME NEW r \in Requests, Acquire(r) PROVE [Spaced]_vars
  BY <1>13 DEF Acquire
<1>14. ASSUME NEW r \in Requests, Fallback(r) PROVE [Spaced]_vars
  BY <1>14 DEF Fallback
<1>15. ASSUME NEW r \in Requests, Stamp(r) PROVE [Spaced]_vars
  BY <1>15, SecondBounds, JobQueryAssumption, SecondTicksAssumption
  DEF Stamp, GateHolds, Sampled, Passed
<1>16. ASSUME NEW r \in Requests, QueryReturns(r) PROVE [Spaced]_vars
  BY <1>16 DEF QueryReturns
<1>17. ASSUME NEW r \in Requests, Publish(r) PROVE [Spaced]_vars
  BY <1>17 DEF Publish
<1>18. ASSUME NEW r \in Requests, Release(r) PROVE [Spaced]_vars
  BY <1>18 DEF Release
<1> QED
  BY <1>1, <1>2, <1>3, <1>4, <1>5, <1>6, <1>7, <1>8, <1>9, <1>10, <1>11, <1>12,
     <1>13, <1>14, <1>15, <1>16, <1>17, <1>18 DEF Next, Client, Handle

\* A refresh that arrives after an attempt keeps the minimum interval from it,
\* but for less than a second, whatever other requests do meanwhile.
THEOREM RefreshesKeepTheInterval == Spec => RefreshesSpaced
<1>1. Init => GateHolds
  BY JobQueryAssumption DEF Init, GateHolds, Sampled, Passed
<1>2. IInv /\ GateHolds /\ [Next]_vars => GateHolds'
  BY StepGateHolds DEF IInv
<1>3. IInv /\ GateHolds /\ [Next]_vars => [Spaced]_vars
  BY StepSpaced DEF IInv
<1> QED
  BY <1>1, <1>2, <1>3, Inductive, PTL DEF Spec, RefreshesSpaced, Spaced

-----------------------------------------------------------------------------
(* What a refusal says.                                                     *)

\* A clock of today is later than the minimum interval after 1970, where
\* lastAttempt starts.
ClockIsLate == Boot >= MinInterval

NowIsLate ==
  /\ wall >= MinInterval
  /\ queries = 0 => lastAttempt = 0
  /\ \A r \in Requests : pc[r] = "gate" => now[r] >= MinInterval

\* A clock that is late stays late.
LEMMA StepNowIsLate ==
  ASSUME ClockIsLate, TypeOK, NowIsLate, [Next]_vars
  PROVE  NowIsLate'
<1> USE JobQueryAssumption DEF ClockIsLate, TypeOK, NowIsLate, vars, env, server,
        locals, history, Goto, Say, Refuse
<1>1. ASSUME UNCHANGED vars PROVE NowIsLate'
  BY <1>1
<1>2. ASSUME Advance PROVE NowIsLate'
  BY <1>2 DEF Advance
<1>3. ASSUME NEW r \in Requests, Disabled(r) PROVE NowIsLate'
  BY <1>3 DEF Disabled
<1>4. ASSUME NEW r \in Requests, BadRequest(r) PROVE NowIsLate'
  BY <1>4 DEF BadRequest
<1>5. ASSUME NEW r \in Requests, Accept(r) PROVE NowIsLate'
  BY <1>5 DEF Accept
<1>6. ASSUME NEW r \in Requests, Leave(r) PROVE NowIsLate'
  BY <1>6 DEF Leave
<1>7. ASSUME NEW r \in Requests, ReadCache(r) PROVE NowIsLate'
  BY <1>7 DEF ReadCache
<1>8. ASSUME NEW r \in Requests, Reply(r) PROVE NowIsLate'
  BY <1>8 DEF Reply
<1>9. ASSUME NEW r \in Requests, Sample(r) PROVE NowIsLate'
  BY <1>9 DEF Sample
<1>10. ASSUME NEW r \in Requests, RefuseTooSoon(r) PROVE NowIsLate'
  BY <1>10 DEF RefuseTooSoon
<1>11. ASSUME NEW r \in Requests, PassGate(r) PROVE NowIsLate'
  BY <1>11 DEF PassGate
<1>12. ASSUME NEW r \in Requests, RefuseConflict(r) PROVE NowIsLate'
  BY <1>12 DEF RefuseConflict
<1>13. ASSUME NEW r \in Requests, Acquire(r) PROVE NowIsLate'
  BY <1>13 DEF Acquire
<1>14. ASSUME NEW r \in Requests, Fallback(r) PROVE NowIsLate'
  BY <1>14 DEF Fallback
<1>15. ASSUME NEW r \in Requests, Stamp(r) PROVE NowIsLate'
  BY <1>15 DEF Stamp
<1>16. ASSUME NEW r \in Requests, QueryReturns(r) PROVE NowIsLate'
  BY <1>16 DEF QueryReturns
<1>17. ASSUME NEW r \in Requests, Publish(r) PROVE NowIsLate'
  BY <1>17 DEF Publish
<1>18. ASSUME NEW r \in Requests, Release(r) PROVE NowIsLate'
  BY <1>18 DEF Release
<1> QED
  BY <1>1, <1>2, <1>3, <1>4, <1>5, <1>6, <1>7, <1>8, <1>9, <1>10, <1>11, <1>12,
     <1>13, <1>14, <1>15, <1>16, <1>17, <1>18 DEF Next, Client, Handle

\* A refresh is refused as too soon if a query has begun less than the minimum
\* interval before, and for a conflict if another request holds the flag.
RefusedForCause ==
  \A r \in Requests : pc[r] # "fallback" /\ pc'[r] = "fallback" =>
    \/ /\ answer'[r].status = 429
       /\ queries > 0 /\ now[r] - lastNow < MinInterval
    \/ /\ answer'[r].status = 409
       /\ \E s \in Owners : s # r
RefusalsMeanIt == [][RefusedForCause]_vars

\* A refusal has the cause its status names.
LEMMA StepRefused ==
  ASSUME TypeOK, SingleFlightInv, GateHolds, NowIsLate, [Next]_vars
  PROVE  [RefusedForCause]_vars
<1> USE DEF TypeOK, RefusedForCause, vars, env, server, locals, history, Goto, Say, Refuse
<1>1. ASSUME UNCHANGED vars PROVE [RefusedForCause]_vars
  BY <1>1
<1>2. ASSUME Advance PROVE [RefusedForCause]_vars
  BY <1>2 DEF Advance
<1>3. ASSUME NEW r \in Requests, Disabled(r) PROVE [RefusedForCause]_vars
  BY <1>3 DEF Disabled
<1>4. ASSUME NEW r \in Requests, BadRequest(r) PROVE [RefusedForCause]_vars
  BY <1>4 DEF BadRequest
<1>5. ASSUME NEW r \in Requests, Accept(r) PROVE [RefusedForCause]_vars
  BY <1>5 DEF Accept
<1>6. ASSUME NEW r \in Requests, Leave(r) PROVE [RefusedForCause]_vars
  BY <1>6 DEF Leave
<1>7. ASSUME NEW r \in Requests, ReadCache(r) PROVE [RefusedForCause]_vars
  BY <1>7 DEF ReadCache
<1>8. ASSUME NEW r \in Requests, Reply(r) PROVE [RefusedForCause]_vars
  BY <1>8 DEF Reply
<1>9. ASSUME NEW r \in Requests, Sample(r) PROVE [RefusedForCause]_vars
  BY <1>9 DEF Sample
<1>10. ASSUME NEW r \in Requests, RefuseTooSoon(r) PROVE [RefusedForCause]_vars
  <2>1. now[r] - lastAttempt < MinInterval /\ MinInterval > 0 /\ pc[r] = "gate"
    BY <1>10 DEF RefuseTooSoon, TooSoon
  <2>2. queries > 0
    BY <2>1, JobQueryAssumption DEF NowIsLate
  <2>3. now[r] - lastNow < MinInterval
    BY <2>1, <2>2, SecondBounds, JobQueryAssumption DEF GateHolds
  <2>4. answer'[r].status = 429 /\ \A s \in Requests \ {r} : pc'[s] = pc[s]
    BY <1>10 DEF RefuseTooSoon, Answer
  <2> QED
    BY <2>2, <2>3, <2>4
<1>11. ASSUME NEW r \in Requests, PassGate(r) PROVE [RefusedForCause]_vars
  BY <1>11 DEF PassGate
<1>12. ASSUME NEW r \in Requests, RefuseConflict(r) PROVE [RefusedForCause]_vars
  <2>1. running /\ pc[r] = "cas"
    BY <1>12 DEF RefuseConflict
  <2>2. \E s \in Owners : s # r
    BY <2>1 DEF SingleFlightInv, Owners, Busy
  <2>3. answer'[r].status = 409 /\ \A s \in Requests \ {r} : pc'[s] = pc[s]
    BY <1>12 DEF RefuseConflict, Answer
  <2> QED
    BY <2>2, <2>3
<1>13. ASSUME NEW r \in Requests, Acquire(r) PROVE [RefusedForCause]_vars
  BY <1>13 DEF Acquire
<1>14. ASSUME NEW r \in Requests, Fallback(r) PROVE [RefusedForCause]_vars
  BY <1>14 DEF Fallback
<1>15. ASSUME NEW r \in Requests, Stamp(r) PROVE [RefusedForCause]_vars
  BY <1>15 DEF Stamp
<1>16. ASSUME NEW r \in Requests, QueryReturns(r) PROVE [RefusedForCause]_vars
  BY <1>16 DEF QueryReturns
<1>17. ASSUME NEW r \in Requests, Publish(r) PROVE [RefusedForCause]_vars
  BY <1>17 DEF Publish
<1>18. ASSUME NEW r \in Requests, Release(r) PROVE [RefusedForCause]_vars
  BY <1>18 DEF Release
<1> QED
  BY <1>1, <1>2, <1>3, <1>4, <1>5, <1>6, <1>7, <1>8, <1>9, <1>10, <1>11, <1>12,
     <1>13, <1>14, <1>15, <1>16, <1>17, <1>18 DEF Next, Client, Handle

\* No refresh is refused without the cause its status names: 429 only within the
\* minimum interval of an attempt, and never the first one after the start, 409
\* only while another request is between taking the flag and giving it back
\* (CollectAllJobs and the statuses allJobsHandler makes of its errors).
THEOREM RefusalsHaveTheirCause == ClockIsLate => (Spec => RefusalsMeanIt)
<1> SUFFICES ASSUME ClockIsLate PROVE Spec => RefusalsMeanIt
  OBVIOUS
<1>1. Init => GateHolds /\ NowIsLate
  BY JobQueryAssumption DEF ClockIsLate, Init, GateHolds, NowIsLate, Sampled, Passed
<1>2. IInv /\ GateHolds /\ NowIsLate /\ [Next]_vars => GateHolds' /\ NowIsLate'
  BY StepGateHolds, StepNowIsLate DEF IInv
<1>3. IInv /\ GateHolds /\ NowIsLate /\ [Next]_vars => [RefusedForCause]_vars
  BY StepRefused DEF IInv
<1> QED
  BY <1>1, <1>2, <1>3, Inductive, PTL DEF Spec, RefusalsMeanIt

-----------------------------------------------------------------------------
(* JobQuery implements SingleFlight: Stamp begins a scan, Publish lands it, *)
(* every other step stutters.                                               *)

\* The first states are first states of SingleFlight.
LEMMA InitFlight == Init => Flights!Init
BY DEF Init, Flights!Init, NoData

\* Every step is one of SingleFlight's, or none.
LEMMA StepFlight ==
  ASSUME IInv, [Next]_vars
  PROVE  [Flights!Next]_Flights!vars
<1> USE DEF IInv, TypeOK, Flights!vars, vars, env, server, locals, history, Goto, Say,
        Refuse
<1>1. ASSUME UNCHANGED vars PROVE [Flights!Next]_Flights!vars
  BY <1>1
<1>2. ASSUME Advance PROVE [Flights!Next]_Flights!vars
  BY <1>2 DEF Advance
<1>3. ASSUME NEW r \in Requests, Disabled(r) PROVE [Flights!Next]_Flights!vars
  <2>1. InFlight' = InFlight
    BY <1>3 DEF Disabled, InFlight
  <2> QED
    BY <1>3, <2>1 DEF Disabled, InFlight
<1>4. ASSUME NEW r \in Requests, BadRequest(r) PROVE [Flights!Next]_Flights!vars
  <2>1. InFlight' = InFlight
    BY <1>4 DEF BadRequest, InFlight
  <2> QED
    BY <1>4, <2>1 DEF BadRequest, InFlight
<1>5. ASSUME NEW r \in Requests, Accept(r) PROVE [Flights!Next]_Flights!vars
  <2>1. InFlight' = InFlight
    BY <1>5 DEF Accept, InFlight
  <2> QED
    BY <1>5, <2>1 DEF Accept, InFlight
<1>6. ASSUME NEW r \in Requests, Leave(r) PROVE [Flights!Next]_Flights!vars
  <2>1. InFlight' = InFlight
    BY <1>6 DEF Leave, InFlight
  <2> QED
    BY <1>6, <2>1 DEF Leave, InFlight
<1>7. ASSUME NEW r \in Requests, ReadCache(r) PROVE [Flights!Next]_Flights!vars
  <2>1. InFlight' = InFlight
    BY <1>7 DEF ReadCache, InFlight
  <2> QED
    BY <1>7, <2>1 DEF ReadCache, InFlight
<1>8. ASSUME NEW r \in Requests, Reply(r) PROVE [Flights!Next]_Flights!vars
  <2>1. InFlight' = InFlight
    BY <1>8 DEF Reply, InFlight
  <2> QED
    BY <1>8, <2>1 DEF Reply, InFlight
<1>9. ASSUME NEW r \in Requests, Sample(r) PROVE [Flights!Next]_Flights!vars
  <2>1. InFlight' = InFlight
    BY <1>9 DEF Sample, InFlight
  <2> QED
    BY <1>9, <2>1 DEF Sample, InFlight
<1>10. ASSUME NEW r \in Requests, RefuseTooSoon(r) PROVE [Flights!Next]_Flights!vars
  <2>1. InFlight' = InFlight
    BY <1>10 DEF RefuseTooSoon, InFlight
  <2> QED
    BY <1>10, <2>1 DEF RefuseTooSoon, InFlight
<1>11. ASSUME NEW r \in Requests, PassGate(r) PROVE [Flights!Next]_Flights!vars
  <2>1. InFlight' = InFlight
    BY <1>11 DEF PassGate, InFlight
  <2> QED
    BY <1>11, <2>1 DEF PassGate, InFlight
<1>12. ASSUME NEW r \in Requests, RefuseConflict(r) PROVE [Flights!Next]_Flights!vars
  <2>1. InFlight' = InFlight
    BY <1>12 DEF RefuseConflict, InFlight
  <2> QED
    BY <1>12, <2>1 DEF RefuseConflict, InFlight
<1>13. ASSUME NEW r \in Requests, Acquire(r) PROVE [Flights!Next]_Flights!vars
  <2>1. InFlight' = InFlight
    BY <1>13 DEF Acquire, InFlight
  <2> QED
    BY <1>13, <2>1 DEF Acquire, InFlight
<1>14. ASSUME NEW r \in Requests, Fallback(r) PROVE [Flights!Next]_Flights!vars
  <2>1. InFlight' = InFlight
    BY <1>14 DEF Fallback, InFlight
  <2> QED
    BY <1>14, <2>1 DEF Fallback, InFlight
<1>15. ASSUME NEW r \in Requests, Stamp(r) PROVE [Flights!Next]_Flights!vars
  <2>1. InFlight = {} /\ InFlight' = {r}
    BY <1>15 DEF Stamp, InFlight, SingleFlightInv, Owners, Busy
  <2>2. Flights!Begin(r)
    BY <1>15, <2>1 DEF Stamp, InFlight, Flights!Begin
  <2> QED
    BY <2>2 DEF Flights!Next
<1>16. ASSUME NEW r \in Requests, QueryReturns(r) PROVE [Flights!Next]_Flights!vars
  <2>1. InFlight' = InFlight
    BY <1>16 DEF QueryReturns, InFlight
  <2> QED
    BY <1>16, <2>1 DEF QueryReturns, InFlight
<1>17. ASSUME NEW r \in Requests, Publish(r) PROVE [Flights!Next]_Flights!vars
  <2>1. InFlight = {r} /\ InFlight' = {}
    BY <1>17 DEF Publish, InFlight, SingleFlightInv, Owners, Busy
  <2>2. Flights!Land(r)
    BY <1>17, <2>1 DEF Publish, InFlight, SnapCurrent, Flights!Land
  <2> QED
    BY <2>2 DEF Flights!Next
<1>18. ASSUME NEW r \in Requests, Release(r) PROVE [Flights!Next]_Flights!vars
  <2>1. InFlight' = InFlight
    BY <1>18 DEF Release, InFlight
  <2> QED
    BY <1>18, <2>1 DEF Release, InFlight
<1> QED
  BY <1>1, <1>2, <1>3, <1>4, <1>5, <1>6, <1>7, <1>8, <1>9, <1>10, <1>11, <1>12,
     <1>13, <1>14, <1>15, <1>16, <1>17, <1>18 DEF Next, Client, Handle

\* The service keeps the promise of SingleFlight, for any number of requests.
THEOREM JobQueryImplementsSingleFlight == Spec => ImplementsSingleFlight
BY InitFlight, StepFlight, Inductive, PTL DEF Spec, Flights!Spec, ImplementsSingleFlight
=============================================================================
