----------------------- MODULE CollectorServiceProofs -----------------------
(***************************************************************************)
(* Proofs about CollectorService, for any set of testers and readers and   *)
(* any values of the constants: the safety properties its runs check, that *)
(* it implements SingleFlight, and what the gate guarantees.               *)
(***************************************************************************)
EXTENDS CollectorService, FiniteSetTheorems, TLAPS

Flying == {c \in Callers : pc[c] \in {"collecting", "count", "tally", "publish"}}

\* The numbers of collections: begun, counted, shown.
GenCurrent ==
  /\ Flying = {} => snapshot.gen = begun
  /\ Flying # {} => snapshot.gen < begun
  /\ \A c \in Flying : draft[c].gen = begun
  /\ collections <= begun
  /\ begun - collections <= 1
  /\ \A c \in Callers : pc[c] \in {"tally", "publish"} => collections = begun
  /\ Flying = {} => collections = begun
  /\ \A c \in Callers : pc[c] \in {"collecting", "count"} => collections < begun

\* The counters cover a snapshot s: everything it says has been counted.
\* (lastSuccess is never cleared, only overwritten by a later success.)
Covers(s) ==
  /\ s.gen <= collections
  /\ s.errs <= errors
  /\ s.gen > 0 /\ ~s.failed => lastSuccess > 0

\* The published snapshot is covered, and so is one about to be published.
SnapshotCovered ==
  /\ wall >= SecondTicks
  /\ \A c \in Callers : pc[c] = "tally" => draft[c].at >= SecondTicks
  /\ \A c \in Callers : pc[c] = "publish" => Covers(draft[c])
  /\ Covers(snapshot)

\* What a scrape has read stays covered, by the counters it has still to load
\* and by those it has loaded.
ViewCovered ==
  \A r \in Readers :
    /\ rpc[r] \in {"lastSuccess", "collections", "errors", "skipped", "reply"} =>
         Covers(view[r].snap)
    /\ rpc[r] \in {"collections", "errors", "skipped", "reply"} =>
         (view[r].snap.gen > 0 /\ ~view[r].snap.failed => view[r].lastSuccess > 0)
    /\ rpc[r] \in {"errors", "skipped", "reply"} =>
         view[r].snap.gen <= view[r].collections
    /\ rpc[r] \in {"skipped", "reply"} =>
         view[r].snap.errs <= view[r].errors

\* lastAttempt is the last attempt's own sample, cut to its second.
AttemptStored == begun > 0 => lastAttempt = Second(lastNow.wall)

IInv ==
  /\ TypeOK
  /\ SingleFlightInv
  /\ GenCurrent
  /\ SnapshotCovered
  /\ ViewCovered
  /\ AttemptStored

-----------------------------------------------------------------------------

\* What Unix() and time.Unix make of an instant: the start of its second.
LEMMA SecondBounds ==
  ASSUME NEW t \in Int
  PROVE  /\ Second(t) \in Int
         /\ Second(t) <= t
         /\ t - Second(t) <= SecondTicks - 1
         /\ t >= SecondTicks => Second(t) > 0
BY SecondTicksAssumption DEF Second

\* Every step keeps the types.
LEMMA StepType ==
  ASSUME TypeOK, [Next]_vars
  PROVE  TypeOK'
<1> USE CollectorServiceAssumption DEF TypeOK, vars, clock, schedule, counters,
        callers, readers, history, ServiceUnchanged, Goto, RGoto, Return, Call,
        Skip
<1>1. ASSUME UNCHANGED vars PROVE TypeOK'
  BY <1>1
<1>2. ASSUME NEW c \in Callers, Sample(c) PROVE TypeOK'
  BY <1>2 DEF Sample, Labels, Time, Callers
<1>3. ASSUME NEW c \in Callers, SkipTooSoon(c) PROVE TypeOK'
  BY <1>3 DEF SkipTooSoon, Labels
<1>4. ASSUME NEW c \in Callers, PassGate(c) PROVE TypeOK'
  BY <1>4 DEF PassGate, Labels
<1>5. ASSUME NEW c \in Callers, SkipRunning(c) PROVE TypeOK'
  BY <1>5 DEF SkipRunning, Labels
<1>6. ASSUME NEW c \in Callers, Acquire(c) PROVE TypeOK'
  BY <1>6 DEF Acquire, Labels
<1>7. ASSUME NEW c \in Callers, Stamp(c) PROVE TypeOK'
  <2>1. [NoData EXCEPT !.gen = begun + 1] \in Snapshot
    <3>1. NoData \in Snapshot
      BY DEF NoData, Snapshot
    <3>2. begun + 1 \in Nat
      OBVIOUS
    <3> QED
      BY <3>1, <3>2 DEF Snapshot
  <2>2. lastAttempt' \in Int
    BY <1>7, SecondBounds DEF Stamp, Time
  <2> QED
    BY <1>7, <2>1, <2>2 DEF Stamp, Labels
<1>8. ASSUME NEW c \in Callers, CollectReturns(c) PROVE TypeOK'
  BY <1>8 DEF CollectReturns, Labels, Snapshot
<1>9. ASSUME NEW c \in Callers, Count(c) PROVE TypeOK'
  BY <1>9 DEF Count, Labels, Snapshot
<1>10. ASSUME NEW c \in Callers, Tally(c) PROVE TypeOK'
  BY <1>10, SecondBounds DEF Tally, Labels, Snapshot
<1>11. ASSUME NEW c \in Callers, Publish(c) PROVE TypeOK'
  BY <1>11 DEF Publish, Labels
<1>12. ASSUME NEW c \in Callers, Release(c) PROVE TypeOK'
  BY <1>12 DEF Release, Labels
<1>13. ASSUME NEW c \in Callers, CollectNowForTest(c) PROVE TypeOK'
  BY <1>13 DEF CollectNowForTest, Labels
<1>14. ASSUME StartTicker PROVE TypeOK'
  BY <1>14 DEF StartTicker, Labels, Callers
<1>15. ASSUME TakeTick PROVE TypeOK'
  BY <1>15 DEF TakeTick, Labels, Ticks, Callers
<1>16. ASSUME LeaveLoop PROVE TypeOK'
  BY <1>16 DEF LeaveLoop, Labels, Ticks, Callers
<1>17. ASSUME NEW r \in Readers, ReadSnapshot(r) PROVE TypeOK'
  BY <1>17 DEF ReadSnapshot, ReaderLabels, View
<1>18. ASSUME NEW r \in Readers, ReadView(r) PROVE TypeOK'
  BY <1>18 DEF ReadView, ReaderLabels, View
<1>19. ASSUME NEW r \in Readers, LoadLastSuccess(r) PROVE TypeOK'
  BY <1>19 DEF LoadLastSuccess, ReaderLabels, View
<1>20. ASSUME NEW r \in Readers, LoadCollections(r) PROVE TypeOK'
  BY <1>20 DEF LoadCollections, ReaderLabels, View
<1>21. ASSUME NEW r \in Readers, LoadErrors(r) PROVE TypeOK'
  BY <1>21 DEF LoadErrors, ReaderLabels, View
<1>22. ASSUME NEW r \in Readers, LoadSkipped(r) PROVE TypeOK'
  BY <1>22 DEF LoadSkipped, ReaderLabels, View
<1>23. ASSUME NEW r \in Readers, Respond(r) PROVE TypeOK'
  BY <1>23 DEF Respond, ReaderLabels, NoView, NoData, View, Snapshot
<1>24. ASSUME Advance PROVE TypeOK'
  BY <1>24 DEF Advance, Ticks
<1>25. ASSUME SetClock PROVE TypeOK'
  BY <1>25 DEF SetClock
<1>26. ASSUME Cancel PROVE TypeOK'
  BY <1>26 DEF Cancel
<1> QED
  BY <1>1, <1>2, <1>3, <1>4, <1>5, <1>6, <1>7, <1>8, <1>9, <1>10, <1>11, <1>12,
     <1>13, <1>14, <1>15, <1>16, <1>17, <1>18, <1>19, <1>20, <1>21, <1>22, <1>23,
     <1>24, <1>25, <1>26 DEF Next, Collect, Read

\* Every step keeps to one scan at a time.
LEMMA StepSingleFlight ==
  ASSUME TypeOK, SingleFlightInv, [Next]_vars
  PROVE  SingleFlightInv'
<1> USE DEF TypeOK, SingleFlightInv, Owners, Busy, Callers, vars, clock, schedule,
        counters, callers, readers, history, ServiceUnchanged, Goto, RGoto,
        Return, Call, Skip
<1>1. ASSUME UNCHANGED vars PROVE SingleFlightInv'
  BY <1>1
<1>2. ASSUME NEW c \in Callers, Sample(c) PROVE SingleFlightInv'
  BY <1>2 DEF Sample
<1>3. ASSUME NEW c \in Callers, SkipTooSoon(c) PROVE SingleFlightInv'
  BY <1>3 DEF SkipTooSoon
<1>4. ASSUME NEW c \in Callers, PassGate(c) PROVE SingleFlightInv'
  BY <1>4 DEF PassGate
<1>5. ASSUME NEW c \in Callers, SkipRunning(c) PROVE SingleFlightInv'
  BY <1>5 DEF SkipRunning
<1>6. ASSUME NEW c \in Callers, Acquire(c) PROVE SingleFlightInv'
  BY <1>6 DEF Acquire
<1>7. ASSUME NEW c \in Callers, Stamp(c) PROVE SingleFlightInv'
  BY <1>7 DEF Stamp
<1>8. ASSUME NEW c \in Callers, CollectReturns(c) PROVE SingleFlightInv'
  BY <1>8 DEF CollectReturns
<1>9. ASSUME NEW c \in Callers, Count(c) PROVE SingleFlightInv'
  BY <1>9 DEF Count
<1>10. ASSUME NEW c \in Callers, Tally(c) PROVE SingleFlightInv'
  BY <1>10 DEF Tally
<1>11. ASSUME NEW c \in Callers, Publish(c) PROVE SingleFlightInv'
  BY <1>11 DEF Publish
<1>12. ASSUME NEW c \in Callers, Release(c) PROVE SingleFlightInv'
  BY <1>12 DEF Release
<1>13. ASSUME NEW c \in Callers, CollectNowForTest(c) PROVE SingleFlightInv'
  BY <1>13 DEF CollectNowForTest
<1>14. ASSUME StartTicker PROVE SingleFlightInv'
  BY <1>14 DEF StartTicker
<1>15. ASSUME TakeTick PROVE SingleFlightInv'
  BY <1>15 DEF TakeTick
<1>16. ASSUME LeaveLoop PROVE SingleFlightInv'
  BY <1>16 DEF LeaveLoop
<1>17. ASSUME NEW r \in Readers, ReadSnapshot(r) PROVE SingleFlightInv'
  BY <1>17 DEF ReadSnapshot
<1>18. ASSUME NEW r \in Readers, ReadView(r) PROVE SingleFlightInv'
  BY <1>18 DEF ReadView
<1>19. ASSUME NEW r \in Readers, LoadLastSuccess(r) PROVE SingleFlightInv'
  BY <1>19 DEF LoadLastSuccess
<1>20. ASSUME NEW r \in Readers, LoadCollections(r) PROVE SingleFlightInv'
  BY <1>20 DEF LoadCollections
<1>21. ASSUME NEW r \in Readers, LoadErrors(r) PROVE SingleFlightInv'
  BY <1>21 DEF LoadErrors
<1>22. ASSUME NEW r \in Readers, LoadSkipped(r) PROVE SingleFlightInv'
  BY <1>22 DEF LoadSkipped
<1>23. ASSUME NEW r \in Readers, Respond(r) PROVE SingleFlightInv'
  BY <1>23 DEF Respond
<1>24. ASSUME Advance PROVE SingleFlightInv'
  BY <1>24 DEF Advance
<1>25. ASSUME SetClock PROVE SingleFlightInv'
  BY <1>25 DEF SetClock
<1>26. ASSUME Cancel PROVE SingleFlightInv'
  BY <1>26 DEF Cancel
<1> QED
  BY <1>1, <1>2, <1>3, <1>4, <1>5, <1>6, <1>7, <1>8, <1>9, <1>10, <1>11, <1>12,
     <1>13, <1>14, <1>15, <1>16, <1>17, <1>18, <1>19, <1>20, <1>21, <1>22, <1>23,
     <1>24, <1>25, <1>26 DEF Next, Collect, Read

\* Every step keeps the snapshot at the last collection that has ended.
LEMMA StepGenCurrent ==
  ASSUME TypeOK, SingleFlightInv, GenCurrent, [Next]_vars
  PROVE  GenCurrent'
<1> USE DEF TypeOK, SingleFlightInv, GenCurrent, Owners, Busy, Flying,
           Snapshot, Callers, vars, clock, schedule, counters, callers, readers, history, ServiceUnchanged, Goto, RGoto, Return, Call, Skip
<1>1. ASSUME UNCHANGED vars PROVE GenCurrent'
  BY <1>1
<1>2. ASSUME NEW c \in Callers, Sample(c) PROVE GenCurrent'
  BY <1>2 DEF Sample
<1>3. ASSUME NEW c \in Callers, SkipTooSoon(c) PROVE GenCurrent'
  BY <1>3 DEF SkipTooSoon
<1>4. ASSUME NEW c \in Callers, PassGate(c) PROVE GenCurrent'
  BY <1>4 DEF PassGate
<1>5. ASSUME NEW c \in Callers, SkipRunning(c) PROVE GenCurrent'
  BY <1>5 DEF SkipRunning
<1>6. ASSUME NEW c \in Callers, Acquire(c) PROVE GenCurrent'
  BY <1>6 DEF Acquire
<1>7. ASSUME NEW c \in Callers, Stamp(c) PROVE GenCurrent'
  BY <1>7 DEF Stamp, NoData
<1>8. ASSUME NEW c \in Callers, CollectReturns(c) PROVE GenCurrent'
  BY <1>8 DEF CollectReturns
<1>9. ASSUME NEW c \in Callers, Count(c) PROVE GenCurrent'
  BY <1>9 DEF Count
<1>10. ASSUME NEW c \in Callers, Tally(c) PROVE GenCurrent'
  BY <1>10 DEF Tally
<1>11. ASSUME NEW c \in Callers, Publish(c) PROVE GenCurrent'
  BY <1>11 DEF Publish
<1>12. ASSUME NEW c \in Callers, Release(c) PROVE GenCurrent'
  BY <1>12 DEF Release
<1>13. ASSUME NEW c \in Callers, CollectNowForTest(c) PROVE GenCurrent'
  BY <1>13 DEF CollectNowForTest
<1>14. ASSUME StartTicker PROVE GenCurrent'
  BY <1>14 DEF StartTicker
<1>15. ASSUME TakeTick PROVE GenCurrent'
  BY <1>15 DEF TakeTick
<1>16. ASSUME LeaveLoop PROVE GenCurrent'
  BY <1>16 DEF LeaveLoop
<1>17. ASSUME NEW r \in Readers, ReadSnapshot(r) PROVE GenCurrent'
  BY <1>17 DEF ReadSnapshot
<1>18. ASSUME NEW r \in Readers, ReadView(r) PROVE GenCurrent'
  BY <1>18 DEF ReadView
<1>19. ASSUME NEW r \in Readers, LoadLastSuccess(r) PROVE GenCurrent'
  BY <1>19 DEF LoadLastSuccess
<1>20. ASSUME NEW r \in Readers, LoadCollections(r) PROVE GenCurrent'
  BY <1>20 DEF LoadCollections
<1>21. ASSUME NEW r \in Readers, LoadErrors(r) PROVE GenCurrent'
  BY <1>21 DEF LoadErrors
<1>22. ASSUME NEW r \in Readers, LoadSkipped(r) PROVE GenCurrent'
  BY <1>22 DEF LoadSkipped
<1>23. ASSUME NEW r \in Readers, Respond(r) PROVE GenCurrent'
  BY <1>23 DEF Respond
<1>24. ASSUME Advance PROVE GenCurrent'
  BY <1>24 DEF Advance
<1>25. ASSUME SetClock PROVE GenCurrent'
  BY <1>25 DEF SetClock
<1>26. ASSUME Cancel PROVE GenCurrent'
  BY <1>26 DEF Cancel
<1> QED
  BY <1>1, <1>2, <1>3, <1>4, <1>5, <1>6, <1>7, <1>8, <1>9, <1>10, <1>11, <1>12,
     <1>13, <1>14, <1>15, <1>16, <1>17, <1>18, <1>19, <1>20, <1>21, <1>22, <1>23,
     <1>24, <1>25, <1>26 DEF Next, Collect, Read

\* Every snapshot is covered by the counters.
LEMMA StepSnapshotCovered ==
  ASSUME TypeOK, SingleFlightInv, GenCurrent, SnapshotCovered, [Next]_vars
  PROVE  SnapshotCovered'
<1> USE CollectorServiceAssumption, SecondTicksAssumption DEF TypeOK,
        SnapshotCovered, Covers,
           Snapshot, Callers, vars, clock, schedule, counters, callers, readers, history, ServiceUnchanged, Goto, RGoto, Return, Call, Skip
<1>1. ASSUME UNCHANGED vars PROVE SnapshotCovered'
  BY <1>1
<1>2. ASSUME NEW c \in Callers, Sample(c) PROVE SnapshotCovered'
  BY <1>2 DEF Sample
<1>3. ASSUME NEW c \in Callers, SkipTooSoon(c) PROVE SnapshotCovered'
  BY <1>3 DEF SkipTooSoon
<1>4. ASSUME NEW c \in Callers, PassGate(c) PROVE SnapshotCovered'
  BY <1>4 DEF PassGate
<1>5. ASSUME NEW c \in Callers, SkipRunning(c) PROVE SnapshotCovered'
  BY <1>5 DEF SkipRunning
<1>6. ASSUME NEW c \in Callers, Acquire(c) PROVE SnapshotCovered'
  BY <1>6 DEF Acquire
<1>7. ASSUME NEW c \in Callers, Stamp(c) PROVE SnapshotCovered'
  BY <1>7 DEF Stamp, NoData
<1>8. ASSUME NEW c \in Callers, CollectReturns(c) PROVE SnapshotCovered'
  BY <1>8 DEF CollectReturns
<1>9. ASSUME NEW c \in Callers, Count(c) PROVE SnapshotCovered'
  BY <1>9 DEF Count
<1>10. ASSUME NEW c \in Callers, Tally(c) PROVE SnapshotCovered'
  BY <1>10, SecondBounds DEF Tally, GenCurrent, SingleFlightInv, Owners, Busy, Flying
<1>11. ASSUME NEW c \in Callers, Publish(c) PROVE SnapshotCovered'
  BY <1>11 DEF Publish
<1>12. ASSUME NEW c \in Callers, Release(c) PROVE SnapshotCovered'
  BY <1>12 DEF Release
<1>13. ASSUME NEW c \in Callers, CollectNowForTest(c) PROVE SnapshotCovered'
  BY <1>13 DEF CollectNowForTest
<1>14. ASSUME StartTicker PROVE SnapshotCovered'
  BY <1>14 DEF StartTicker
<1>15. ASSUME TakeTick PROVE SnapshotCovered'
  BY <1>15 DEF TakeTick
<1>16. ASSUME LeaveLoop PROVE SnapshotCovered'
  BY <1>16 DEF LeaveLoop
<1>17. ASSUME NEW r \in Readers, ReadSnapshot(r) PROVE SnapshotCovered'
  BY <1>17 DEF ReadSnapshot
<1>18. ASSUME NEW r \in Readers, ReadView(r) PROVE SnapshotCovered'
  BY <1>18 DEF ReadView
<1>19. ASSUME NEW r \in Readers, LoadLastSuccess(r) PROVE SnapshotCovered'
  BY <1>19 DEF LoadLastSuccess
<1>20. ASSUME NEW r \in Readers, LoadCollections(r) PROVE SnapshotCovered'
  BY <1>20 DEF LoadCollections
<1>21. ASSUME NEW r \in Readers, LoadErrors(r) PROVE SnapshotCovered'
  BY <1>21 DEF LoadErrors
<1>22. ASSUME NEW r \in Readers, LoadSkipped(r) PROVE SnapshotCovered'
  BY <1>22 DEF LoadSkipped
<1>23. ASSUME NEW r \in Readers, Respond(r) PROVE SnapshotCovered'
  BY <1>23 DEF Respond
<1>24. ASSUME Advance PROVE SnapshotCovered'
  BY <1>24 DEF Advance
<1>25. ASSUME SetClock PROVE SnapshotCovered'
  BY <1>25 DEF SetClock
<1>26. ASSUME Cancel PROVE SnapshotCovered'
  BY <1>26 DEF Cancel
<1> QED
  BY <1>1, <1>2, <1>3, <1>4, <1>5, <1>6, <1>7, <1>8, <1>9, <1>10, <1>11, <1>12,
     <1>13, <1>14, <1>15, <1>16, <1>17, <1>18, <1>19, <1>20, <1>21, <1>22, <1>23,
     <1>24, <1>25, <1>26 DEF Next, Collect, Read

\* So is what a scrape has read.
LEMMA StepViewCovered ==
  ASSUME TypeOK, SnapshotCovered, ViewCovered, [Next]_vars
  PROVE  ViewCovered'
<1> USE DEF TypeOK, ViewCovered, Covers,
           Snapshot, View, Callers, vars, clock, schedule, counters, callers, readers, history, ServiceUnchanged, Goto, RGoto, Return, Call, Skip
<1>1. ASSUME UNCHANGED vars PROVE ViewCovered'
  BY <1>1
<1>2. ASSUME NEW c \in Callers, Sample(c) PROVE ViewCovered'
  BY <1>2 DEF Sample
<1>3. ASSUME NEW c \in Callers, SkipTooSoon(c) PROVE ViewCovered'
  BY <1>3 DEF SkipTooSoon
<1>4. ASSUME NEW c \in Callers, PassGate(c) PROVE ViewCovered'
  BY <1>4 DEF PassGate
<1>5. ASSUME NEW c \in Callers, SkipRunning(c) PROVE ViewCovered'
  BY <1>5 DEF SkipRunning
<1>6. ASSUME NEW c \in Callers, Acquire(c) PROVE ViewCovered'
  BY <1>6 DEF Acquire
<1>7. ASSUME NEW c \in Callers, Stamp(c) PROVE ViewCovered'
  BY <1>7 DEF Stamp
<1>8. ASSUME NEW c \in Callers, CollectReturns(c) PROVE ViewCovered'
  BY <1>8 DEF CollectReturns
<1>9. ASSUME NEW c \in Callers, Count(c) PROVE ViewCovered'
  BY <1>9 DEF Count
<1>10. ASSUME NEW c \in Callers, Tally(c) PROVE ViewCovered'
  BY <1>10, SecondBounds DEF Tally, SnapshotCovered
<1>11. ASSUME NEW c \in Callers, Publish(c) PROVE ViewCovered'
  BY <1>11 DEF Publish
<1>12. ASSUME NEW c \in Callers, Release(c) PROVE ViewCovered'
  BY <1>12 DEF Release
<1>13. ASSUME NEW c \in Callers, CollectNowForTest(c) PROVE ViewCovered'
  BY <1>13 DEF CollectNowForTest
<1>14. ASSUME StartTicker PROVE ViewCovered'
  BY <1>14 DEF StartTicker
<1>15. ASSUME TakeTick PROVE ViewCovered'
  BY <1>15 DEF TakeTick
<1>16. ASSUME LeaveLoop PROVE ViewCovered'
  BY <1>16 DEF LeaveLoop
<1>17. ASSUME NEW r \in Readers, ReadSnapshot(r) PROVE ViewCovered'
  BY <1>17 DEF ReadSnapshot, SnapshotCovered
<1>18. ASSUME NEW r \in Readers, ReadView(r) PROVE ViewCovered'
  BY <1>18 DEF ReadView
<1>19. ASSUME NEW r \in Readers, LoadLastSuccess(r) PROVE ViewCovered'
  BY <1>19 DEF LoadLastSuccess
<1>20. ASSUME NEW r \in Readers, LoadCollections(r) PROVE ViewCovered'
  BY <1>20 DEF LoadCollections
<1>21. ASSUME NEW r \in Readers, LoadErrors(r) PROVE ViewCovered'
  BY <1>21 DEF LoadErrors
<1>22. ASSUME NEW r \in Readers, LoadSkipped(r) PROVE ViewCovered'
  BY <1>22 DEF LoadSkipped
<1>23. ASSUME NEW r \in Readers, Respond(r) PROVE ViewCovered'
  BY <1>23 DEF Respond, NoView, NoData
<1>24. ASSUME Advance PROVE ViewCovered'
  BY <1>24 DEF Advance
<1>25. ASSUME SetClock PROVE ViewCovered'
  BY <1>25 DEF SetClock
<1>26. ASSUME Cancel PROVE ViewCovered'
  BY <1>26 DEF Cancel
<1> QED
  BY <1>1, <1>2, <1>3, <1>4, <1>5, <1>6, <1>7, <1>8, <1>9, <1>10, <1>11, <1>12,
     <1>13, <1>14, <1>15, <1>16, <1>17, <1>18, <1>19, <1>20, <1>21, <1>22, <1>23,
     <1>24, <1>25, <1>26 DEF Next, Collect, Read

\* The attempt that is stored is the last one.
LEMMA StepAttemptStored ==
  ASSUME TypeOK, AttemptStored, [Next]_vars
  PROVE  AttemptStored'
<1> USE DEF TypeOK, AttemptStored, vars, clock, schedule, counters, callers,
        readers, history, ServiceUnchanged, Goto, RGoto, Return, Call, Skip
<1>1. ASSUME UNCHANGED vars PROVE AttemptStored'
  BY <1>1
<1>2. ASSUME NEW c \in Callers, Sample(c) PROVE AttemptStored'
  BY <1>2 DEF Sample
<1>3. ASSUME NEW c \in Callers, SkipTooSoon(c) PROVE AttemptStored'
  BY <1>3 DEF SkipTooSoon
<1>4. ASSUME NEW c \in Callers, PassGate(c) PROVE AttemptStored'
  BY <1>4 DEF PassGate
<1>5. ASSUME NEW c \in Callers, SkipRunning(c) PROVE AttemptStored'
  BY <1>5 DEF SkipRunning
<1>6. ASSUME NEW c \in Callers, Acquire(c) PROVE AttemptStored'
  BY <1>6 DEF Acquire
<1>7. ASSUME NEW c \in Callers, Stamp(c) PROVE AttemptStored'
  BY <1>7 DEF Stamp
<1>8. ASSUME NEW c \in Callers, CollectReturns(c) PROVE AttemptStored'
  BY <1>8 DEF CollectReturns
<1>9. ASSUME NEW c \in Callers, Count(c) PROVE AttemptStored'
  BY <1>9 DEF Count
<1>10. ASSUME NEW c \in Callers, Tally(c) PROVE AttemptStored'
  BY <1>10 DEF Tally
<1>11. ASSUME NEW c \in Callers, Publish(c) PROVE AttemptStored'
  BY <1>11 DEF Publish
<1>12. ASSUME NEW c \in Callers, Release(c) PROVE AttemptStored'
  BY <1>12 DEF Release
<1>13. ASSUME NEW c \in Callers, CollectNowForTest(c) PROVE AttemptStored'
  BY <1>13 DEF CollectNowForTest
<1>14. ASSUME StartTicker PROVE AttemptStored'
  BY <1>14 DEF StartTicker
<1>15. ASSUME TakeTick PROVE AttemptStored'
  BY <1>15 DEF TakeTick
<1>16. ASSUME LeaveLoop PROVE AttemptStored'
  BY <1>16 DEF LeaveLoop
<1>17. ASSUME NEW r \in Readers, ReadSnapshot(r) PROVE AttemptStored'
  BY <1>17 DEF ReadSnapshot
<1>18. ASSUME NEW r \in Readers, ReadView(r) PROVE AttemptStored'
  BY <1>18 DEF ReadView
<1>19. ASSUME NEW r \in Readers, LoadLastSuccess(r) PROVE AttemptStored'
  BY <1>19 DEF LoadLastSuccess
<1>20. ASSUME NEW r \in Readers, LoadCollections(r) PROVE AttemptStored'
  BY <1>20 DEF LoadCollections
<1>21. ASSUME NEW r \in Readers, LoadErrors(r) PROVE AttemptStored'
  BY <1>21 DEF LoadErrors
<1>22. ASSUME NEW r \in Readers, LoadSkipped(r) PROVE AttemptStored'
  BY <1>22 DEF LoadSkipped
<1>23. ASSUME NEW r \in Readers, Respond(r) PROVE AttemptStored'
  BY <1>23 DEF Respond
<1>24. ASSUME Advance PROVE AttemptStored'
  BY <1>24 DEF Advance
<1>25. ASSUME SetClock PROVE AttemptStored'
  BY <1>25 DEF SetClock
<1>26. ASSUME Cancel PROVE AttemptStored'
  BY <1>26 DEF Cancel
<1> QED
  BY <1>1, <1>2, <1>3, <1>4, <1>5, <1>6, <1>7, <1>8, <1>9, <1>10, <1>11, <1>12,
     <1>13, <1>14, <1>15, <1>16, <1>17, <1>18, <1>19, <1>20, <1>21, <1>22, <1>23,
     <1>24, <1>25, <1>26 DEF Next, Collect, Read

-----------------------------------------------------------------------------
(* The inductive invariant. *)

\* The first states satisfy the invariant.
LEMMA InitInv == Init => IInv
<1> SUFFICES ASSUME Init PROVE IInv
  OBVIOUS
<1> USE CollectorServiceAssumption, SecondTicksAssumption DEF Init
<1>1. TypeOK
  <2>1. snapshot \in Snapshot /\ draft \in [Callers -> Snapshot]
    BY DEF Snapshot, NoData
  <2>2. pc \in [Callers -> Labels] /\ rpc \in [Readers -> ReaderLabels]
    BY DEF Labels, ReaderLabels
  <2>3. view \in [Readers -> View]
    BY DEF View, NoView, NoData, Snapshot
  <2>4. now \in [Callers -> Time] /\ lastNow \in Time
    BY DEF Time
  <2>5. running \in BOOLEAN /\ stopping \in BOOLEAN /\ tick \in Ticks /\ cause \in Ticks
    BY DEF Ticks
  <2> QED
    BY <2>1, <2>2, <2>3, <2>4, <2>5 DEF TypeOK
<1>2. SingleFlightInv
  BY DEF SingleFlightInv, Owners, Busy
<1>3. GenCurrent
  BY DEF GenCurrent, Flying, NoData
<1>4. SnapshotCovered
  BY DEF SnapshotCovered, Covers, NoData
<1>5. ViewCovered
  BY DEF ViewCovered
<1>6. AttemptStored
  BY DEF AttemptStored
<1> QED
  BY <1>1, <1>2, <1>3, <1>4, <1>5, <1>6 DEF IInv

\* Every step keeps it.
LEMMA StepInv == ASSUME IInv, [Next]_vars PROVE IInv'
BY StepType, StepSingleFlight, StepGenCurrent, StepSnapshotCovered, StepViewCovered,
   StepAttemptStored DEF IInv

\* It holds in every state that is reached.
LEMMA Inductive == Spec => []IInv
BY InitInv, StepInv, PTL DEF Spec

-----------------------------------------------------------------------------
\* The variables never leave their types.
THEOREM TypeCorrect == Spec => []TypeOK
<1>1. IInv => TypeOK
  BY DEF IInv
<1> QED
  BY <1>1, Inductive, PTL

\* At most one caller is between its compare-and-swap and its deferred
\* Store(false), and the running flag is up exactly then.
THEOREM OneCollectionAtATime == Spec => []SingleFlightInv
<1>1. IInv => SingleFlightInv
  BY DEF IInv
<1> QED
  BY <1>1, Inductive, PTL

\* Every scrape of /metrics shows counters that include the collection whose
\* snapshot it shows, however its loads interleave with collections.
THEOREM ScrapesCoverTheirSnapshot == Spec => []ScrapeCoversSnapshot
<1>1. IInv => ScrapeCoversSnapshot
  BY DEF IInv, ViewCovered, ScrapeCoversSnapshot
<1> QED
  BY <1>1, Inductive, PTL

-----------------------------------------------------------------------------
(* Every call is counted once. *)

\* A caller that joins a set, or leaves it, moves its cardinality by one.
LEMMA CountChange ==
  ASSUME NEW S \in SUBSET Callers, NEW c \in Callers
  PROVE  /\ c \notin S => Cardinality(S \cup {c}) = Cardinality(S) + 1
         /\ c \in S => Cardinality(S \ {c}) = Cardinality(S) - 1
         /\ Cardinality(S) \in Nat
<1>1. IsFiniteSet(Callers)
  BY CollectorServiceAssumption, FS_AddElement DEF Callers
<1>2. IsFiniteSet(S)
  BY <1>1, FS_Subset
<1> QED
  BY <1>2, FS_AddElement, FS_RemoveElement, FS_CardinalityType

\* A call leaves Uncounted in the step that bumps its counter.
LEMMA StepCounted ==
  ASSUME TypeOK, EveryCallCounted, [Next]_vars
  PROVE  EveryCallCounted'
<1> USE DEF TypeOK, EveryCallCounted, vars, clock, schedule, counters, callers,
        readers, history, ServiceUnchanged, Goto, RGoto, Return, Call, Skip
<1>0. Uncounted \in SUBSET Callers
  BY DEF Uncounted
<1>1. ASSUME UNCHANGED vars PROVE EveryCallCounted'
  <2>1. Uncounted' = Uncounted
    BY <1>1 DEF Uncounted
  <2> QED
    BY <1>1, <2>1
<1>2. ASSUME NEW c \in Callers, Sample(c) PROVE EveryCallCounted'
  <2>1. Uncounted' = Uncounted
    BY <1>2 DEF Sample, Uncounted
  <2> QED
    BY <1>2, <2>1 DEF Sample
<1>3. ASSUME NEW c \in Callers, SkipTooSoon(c) PROVE EveryCallCounted'
  <2>1. c \in Uncounted /\ Uncounted' = Uncounted \ {c}
    BY <1>3 DEF SkipTooSoon, Uncounted, Callers
  <2> QED
    BY <1>3, <2>1, CountChange, <1>0 DEF SkipTooSoon
<1>4. ASSUME NEW c \in Callers, PassGate(c) PROVE EveryCallCounted'
  <2>1. Uncounted' = Uncounted
    BY <1>4 DEF PassGate, Uncounted
  <2> QED
    BY <1>4, <2>1 DEF PassGate
<1>5. ASSUME NEW c \in Callers, SkipRunning(c) PROVE EveryCallCounted'
  <2>1. c \in Uncounted /\ Uncounted' = Uncounted \ {c}
    BY <1>5 DEF SkipRunning, Uncounted, Callers
  <2> QED
    BY <1>5, <2>1, CountChange, <1>0 DEF SkipRunning
<1>6. ASSUME NEW c \in Callers, Acquire(c) PROVE EveryCallCounted'
  <2>1. Uncounted' = Uncounted
    BY <1>6 DEF Acquire, Uncounted
  <2> QED
    BY <1>6, <2>1 DEF Acquire
<1>7. ASSUME NEW c \in Callers, Stamp(c) PROVE EveryCallCounted'
  <2>1. Uncounted' = Uncounted
    BY <1>7 DEF Stamp, Uncounted
  <2> QED
    BY <1>7, <2>1 DEF Stamp
<1>8. ASSUME NEW c \in Callers, CollectReturns(c) PROVE EveryCallCounted'
  <2>1. Uncounted' = Uncounted
    BY <1>8 DEF CollectReturns, Uncounted
  <2> QED
    BY <1>8, <2>1 DEF CollectReturns
<1>9. ASSUME NEW c \in Callers, Count(c) PROVE EveryCallCounted'
  <2>1. c \in Uncounted /\ Uncounted' = Uncounted \ {c}
    BY <1>9 DEF Count, Uncounted, Callers
  <2> QED
    BY <1>9, <2>1, CountChange, <1>0 DEF Count
<1>10. ASSUME NEW c \in Callers, Tally(c) PROVE EveryCallCounted'
  <2>1. Uncounted' = Uncounted
    BY <1>10 DEF Tally, Uncounted
  <2> QED
    BY <1>10, <2>1 DEF Tally
<1>11. ASSUME NEW c \in Callers, Publish(c) PROVE EveryCallCounted'
  <2>1. Uncounted' = Uncounted
    BY <1>11 DEF Publish, Uncounted
  <2> QED
    BY <1>11, <2>1 DEF Publish
<1>12. ASSUME NEW c \in Callers, Release(c) PROVE EveryCallCounted'
  <2>1. Uncounted' = Uncounted
    BY <1>12 DEF Release, Uncounted
  <2> QED
    BY <1>12, <2>1 DEF Release
<1>13. ASSUME NEW c \in Callers, CollectNowForTest(c) PROVE EveryCallCounted'
  <2>1. c \notin Uncounted /\ Uncounted' = Uncounted \cup {c}
    BY <1>13 DEF CollectNowForTest, Uncounted, Callers
  <2> QED
    BY <1>13, <2>1, CountChange, <1>0 DEF CollectNowForTest
<1>14. ASSUME StartTicker PROVE EveryCallCounted'
  <2>1. Uncounted' = Uncounted
    BY <1>14 DEF StartTicker, Uncounted
  <2> QED
    BY <1>14, <2>1 DEF StartTicker
<1>15. ASSUME TakeTick PROVE EveryCallCounted'
  <2>1. Loop \notin Uncounted /\ Uncounted' = Uncounted \cup {Loop}
    BY <1>15 DEF TakeTick, Uncounted, Callers
  <2>2. /\ Loop \in Callers /\ calls' = calls + 1
        /\ collections' = collections /\ skipped' = skipped
    BY <1>15 DEF TakeTick, Callers
  <2>3. /\ Cardinality(Uncounted \cup {Loop}) = Cardinality(Uncounted) + 1
        /\ Cardinality(Uncounted) \in Nat
    BY <1>0, <2>1, <2>2, CountChange
  <2> QED
    BY <2>1, <2>2, <2>3
<1>16. ASSUME LeaveLoop PROVE EveryCallCounted'
  <2>1. Uncounted' = Uncounted
    BY <1>16 DEF LeaveLoop, Uncounted
  <2> QED
    BY <1>16, <2>1 DEF LeaveLoop
<1>17. ASSUME NEW r \in Readers, ReadSnapshot(r) PROVE EveryCallCounted'
  <2>1. Uncounted' = Uncounted
    BY <1>17 DEF ReadSnapshot, Uncounted
  <2> QED
    BY <1>17, <2>1 DEF ReadSnapshot
<1>18. ASSUME NEW r \in Readers, ReadView(r) PROVE EveryCallCounted'
  <2>1. Uncounted' = Uncounted
    BY <1>18 DEF ReadView, Uncounted
  <2> QED
    BY <1>18, <2>1 DEF ReadView
<1>19. ASSUME NEW r \in Readers, LoadLastSuccess(r) PROVE EveryCallCounted'
  <2>1. Uncounted' = Uncounted
    BY <1>19 DEF LoadLastSuccess, Uncounted
  <2> QED
    BY <1>19, <2>1 DEF LoadLastSuccess
<1>20. ASSUME NEW r \in Readers, LoadCollections(r) PROVE EveryCallCounted'
  <2>1. Uncounted' = Uncounted
    BY <1>20 DEF LoadCollections, Uncounted
  <2> QED
    BY <1>20, <2>1 DEF LoadCollections
<1>21. ASSUME NEW r \in Readers, LoadErrors(r) PROVE EveryCallCounted'
  <2>1. Uncounted' = Uncounted
    BY <1>21 DEF LoadErrors, Uncounted
  <2> QED
    BY <1>21, <2>1 DEF LoadErrors
<1>22. ASSUME NEW r \in Readers, LoadSkipped(r) PROVE EveryCallCounted'
  <2>1. Uncounted' = Uncounted
    BY <1>22 DEF LoadSkipped, Uncounted
  <2> QED
    BY <1>22, <2>1 DEF LoadSkipped
<1>23. ASSUME NEW r \in Readers, Respond(r) PROVE EveryCallCounted'
  <2>1. Uncounted' = Uncounted
    BY <1>23 DEF Respond, Uncounted
  <2> QED
    BY <1>23, <2>1 DEF Respond
<1>24. ASSUME Advance PROVE EveryCallCounted'
  <2>1. Uncounted' = Uncounted
    BY <1>24 DEF Advance, Uncounted
  <2> QED
    BY <1>24, <2>1 DEF Advance
<1>25. ASSUME SetClock PROVE EveryCallCounted'
  <2>1. Uncounted' = Uncounted
    BY <1>25 DEF SetClock, Uncounted
  <2> QED
    BY <1>25, <2>1 DEF SetClock
<1>26. ASSUME Cancel PROVE EveryCallCounted'
  <2>1. Uncounted' = Uncounted
    BY <1>26 DEF Cancel, Uncounted
  <2> QED
    BY <1>26, <2>1 DEF Cancel
<1> QED
  BY <1>1, <1>2, <1>3, <1>4, <1>5, <1>6, <1>7, <1>8, <1>9, <1>10, <1>11, <1>12,
     <1>13, <1>14, <1>15, <1>16, <1>17, <1>18, <1>19, <1>20, <1>21, <1>22, <1>23,
     <1>24, <1>25, <1>26 DEF Next, Collect, Read

\* Every call of collectOnce ends up in exactly one of the two counters.
THEOREM EveryCallIsCounted == Spec => []EveryCallCounted
<1>1. Init => EveryCallCounted
  <2> SUFFICES ASSUME Init PROVE EveryCallCounted
    OBVIOUS
  <2>1. Uncounted = {Loop}
    BY CollectorServiceAssumption DEF Init, Uncounted, Callers
  <2> QED
    BY <2>1, FS_Singleton DEF Init, EveryCallCounted
<1>2. TypeOK /\ EveryCallCounted /\ [Next]_vars => EveryCallCounted'
  BY StepCounted
<1> QED
  BY <1>1, <1>2, TypeCorrect, PTL DEF Spec

-----------------------------------------------------------------------------
(* What the counters say together. *)

\* Every collection that was counted has its outcome counted, too.
Settled == \A c \in Callers : pc[c] # "tally"

\* The collections whose outcome has been counted.
Tallied == IF Settled THEN collections ELSE collections - 1

\* No more errors than collections; and the time of the last success is missing
\* from a page exactly as long as every collection has failed, but for the one
\* that has been counted and its outcome has not.
CountersAgree ==
  /\ errors <= Tallied
  /\ lastSuccess > 0 <=> errors < Tallied

\* The three counters are stored one after the other, by one caller.
LEMMA StepCountersAgree ==
  ASSUME IInv, CountersAgree, [Next]_vars
  PROVE  CountersAgree'
<1> USE DEF TypeOK
<1> DEFINE Kept == UNCHANGED <<Settled, collections, errors, lastSuccess>>
<1>1. Kept => CountersAgree'
  BY DEF CountersAgree, Tallied
<1>2. ASSUME UNCHANGED vars PROVE Kept
  BY <1>2 DEF vars, callers, counters, Settled
<1>3. ASSUME NEW c \in Callers, Count(c) PROVE CountersAgree'
  <2>1. Settled
    BY <1>3 DEF Count, IInv, SingleFlightInv, Owners, Busy, Settled
  <2>2. ~Settled'
    BY <1>3 DEF Count, Goto, IInv, Settled
  <2>3. collections' = collections + 1 /\ UNCHANGED <<errors, lastSuccess>>
    BY <1>3 DEF Count
  <2>4. Tallied' = Tallied
    BY <2>1, <2>2, <2>3 DEF Tallied, IInv
  <2> QED
    BY <2>3, <2>4 DEF CountersAgree
<1>4. ASSUME NEW c \in Callers, Tally(c) PROVE CountersAgree'
  <2>1. ~Settled
    BY <1>4 DEF Tally, Settled
  <2>2. Settled'
    BY <1>4 DEF Tally, Goto, IInv, SingleFlightInv, Owners, Busy, Settled
  <2>3. Tallied \in Int /\ Tallied' = Tallied + 1
    BY <1>4, <2>1, <2>2 DEF Tally, Tallied, IInv
  <2>4. CASE draft[c].failed
    BY <1>4, <2>3, <2>4 DEF Tally, CountersAgree, IInv
  <2>5. CASE ~draft[c].failed
    <3>1. draft[c].at \in Int /\ draft[c].at >= SecondTicks
      BY <1>4 DEF Tally, IInv, SnapshotCovered, Snapshot
    <3>2. lastSuccess' > 0 /\ errors' = errors
      BY <1>4, <2>5, <3>1, SecondBounds, SecondTicksAssumption DEF Tally
    <3> QED
      BY <2>3, <3>2 DEF CountersAgree, IInv
  <2> QED
    BY <2>4, <2>5
<1> USE DEF IInv, Settled, clock, schedule, counters, callers, readers, history,
        ServiceUnchanged, Goto, RGoto, Return, Call, Skip
<1>5. ASSUME NEW c \in Callers, Sample(c) PROVE Kept
  BY <1>5 DEF Sample
<1>6. ASSUME NEW c \in Callers, SkipTooSoon(c) PROVE Kept
  BY <1>6 DEF SkipTooSoon
<1>7. ASSUME NEW c \in Callers, PassGate(c) PROVE Kept
  BY <1>7 DEF PassGate
<1>8. ASSUME NEW c \in Callers, SkipRunning(c) PROVE Kept
  BY <1>8 DEF SkipRunning
<1>9. ASSUME NEW c \in Callers, Acquire(c) PROVE Kept
  BY <1>9 DEF Acquire
<1>10. ASSUME NEW c \in Callers, Stamp(c) PROVE Kept
  BY <1>10 DEF Stamp
<1>11. ASSUME NEW c \in Callers, CollectReturns(c) PROVE Kept
  BY <1>11 DEF CollectReturns
<1>12. ASSUME NEW c \in Callers, Publish(c) PROVE Kept
  BY <1>12 DEF Publish
<1>13. ASSUME NEW c \in Callers, Release(c) PROVE Kept
  BY <1>13 DEF Release
<1>14. ASSUME NEW c \in Callers, CollectNowForTest(c) PROVE Kept
  BY <1>14 DEF CollectNowForTest
<1>15. ASSUME StartTicker PROVE Kept
  BY <1>15 DEF StartTicker
<1>16. ASSUME TakeTick PROVE Kept
  BY <1>16 DEF TakeTick
<1>17. ASSUME LeaveLoop PROVE Kept
  BY <1>17 DEF LeaveLoop
<1>18. ASSUME NEW r \in Readers, ReadSnapshot(r) PROVE Kept
  BY <1>18 DEF ReadSnapshot
<1>19. ASSUME NEW r \in Readers, ReadView(r) PROVE Kept
  BY <1>19 DEF ReadView
<1>20. ASSUME NEW r \in Readers, LoadLastSuccess(r) PROVE Kept
  BY <1>20 DEF LoadLastSuccess
<1>21. ASSUME NEW r \in Readers, LoadCollections(r) PROVE Kept
  BY <1>21 DEF LoadCollections
<1>22. ASSUME NEW r \in Readers, LoadErrors(r) PROVE Kept
  BY <1>22 DEF LoadErrors
<1>23. ASSUME NEW r \in Readers, LoadSkipped(r) PROVE Kept
  BY <1>23 DEF LoadSkipped
<1>24. ASSUME NEW r \in Readers, Respond(r) PROVE Kept
  BY <1>24 DEF Respond
<1>25. ASSUME Advance PROVE Kept
  BY <1>25 DEF Advance
<1>26. ASSUME SetClock PROVE Kept
  BY <1>26 DEF SetClock
<1>27. ASSUME Cancel PROVE Kept
  BY <1>27 DEF Cancel
<1> QED
  BY <1>1, <1>2, <1>3, <1>4, <1>5, <1>6, <1>7, <1>8, <1>9, <1>10, <1>11, <1>12,
     <1>13, <1>14, <1>15, <1>16, <1>17, <1>18, <1>19, <1>20, <1>21, <1>22,
     <1>23, <1>24, <1>25, <1>26, <1>27
     DEF Next, Collect, Read

\* The counters never contradict one another: lsf_exporter_collect_errors_total
\* never overtakes lsf_exporter_collections_total, and Stats has a LastSuccess if
\* and only if some collection has not failed (collectOnce).
THEOREM CountersTellOneStory == Spec => []CountersAgree
<1>1. Init => CountersAgree
  BY DEF Init, CountersAgree, Tallied, Settled, Callers
<1>2. IInv /\ CountersAgree /\ [Next]_vars => CountersAgree'
  BY StepCountersAgree
<1> QED
  BY <1>1, <1>2, Inductive, PTL DEF Spec

-----------------------------------------------------------------------------
(* What the gate guarantees. *)

\* With the loop alone nobody stores lastAttempt between a caller's check and
\* its own store.
GatePassed ==
  \A c \in Callers : pc[c] \in {"cas", "stamp"} => now[c].wall - lastAttempt >= MinInterval

\* Who has passed the gate stays entitled to.
LEMMA StepGatePassed ==
  ASSUME Testers = {}, TypeOK, GatePassed, [Next]_vars
  PROVE  GatePassed'
<1> USE CollectorServiceAssumption DEF TypeOK, GatePassed, Time, Callers, vars,
        clock, schedule, counters, callers, readers, history, ServiceUnchanged,
        Goto, RGoto, Return, Call, Skip
<1>1. ASSUME UNCHANGED vars PROVE GatePassed'
  BY <1>1
<1>2. ASSUME NEW c \in Callers, Sample(c) PROVE GatePassed'
  BY <1>2 DEF Sample
<1>3. ASSUME NEW c \in Callers, SkipTooSoon(c) PROVE GatePassed'
  BY <1>3 DEF SkipTooSoon
<1>4. ASSUME NEW c \in Callers, PassGate(c) PROVE GatePassed'
  BY <1>4 DEF PassGate, TooSoon
<1>5. ASSUME NEW c \in Callers, SkipRunning(c) PROVE GatePassed'
  BY <1>5 DEF SkipRunning
<1>6. ASSUME NEW c \in Callers, Acquire(c) PROVE GatePassed'
  BY <1>6 DEF Acquire
<1>7. ASSUME NEW c \in Callers, Stamp(c) PROVE GatePassed'
  BY <1>7 DEF Stamp
<1>8. ASSUME NEW c \in Callers, CollectReturns(c) PROVE GatePassed'
  BY <1>8 DEF CollectReturns
<1>9. ASSUME NEW c \in Callers, Count(c) PROVE GatePassed'
  BY <1>9 DEF Count
<1>10. ASSUME NEW c \in Callers, Tally(c) PROVE GatePassed'
  BY <1>10 DEF Tally
<1>11. ASSUME NEW c \in Callers, Publish(c) PROVE GatePassed'
  BY <1>11 DEF Publish
<1>12. ASSUME NEW c \in Callers, Release(c) PROVE GatePassed'
  BY <1>12 DEF Release
<1>13. ASSUME NEW c \in Callers, CollectNowForTest(c) PROVE GatePassed'
  BY <1>13 DEF CollectNowForTest
<1>14. ASSUME StartTicker PROVE GatePassed'
  BY <1>14 DEF StartTicker
<1>15. ASSUME TakeTick PROVE GatePassed'
  BY <1>15 DEF TakeTick
<1>16. ASSUME LeaveLoop PROVE GatePassed'
  BY <1>16 DEF LeaveLoop
<1>17. ASSUME NEW r \in Readers, ReadSnapshot(r) PROVE GatePassed'
  BY <1>17 DEF ReadSnapshot
<1>18. ASSUME NEW r \in Readers, ReadView(r) PROVE GatePassed'
  BY <1>18 DEF ReadView
<1>19. ASSUME NEW r \in Readers, LoadLastSuccess(r) PROVE GatePassed'
  BY <1>19 DEF LoadLastSuccess
<1>20. ASSUME NEW r \in Readers, LoadCollections(r) PROVE GatePassed'
  BY <1>20 DEF LoadCollections
<1>21. ASSUME NEW r \in Readers, LoadErrors(r) PROVE GatePassed'
  BY <1>21 DEF LoadErrors
<1>22. ASSUME NEW r \in Readers, LoadSkipped(r) PROVE GatePassed'
  BY <1>22 DEF LoadSkipped
<1>23. ASSUME NEW r \in Readers, Respond(r) PROVE GatePassed'
  BY <1>23 DEF Respond
<1>24. ASSUME Advance PROVE GatePassed'
  BY <1>24 DEF Advance
<1>25. ASSUME SetClock PROVE GatePassed'
  BY <1>25 DEF SetClock
<1>26. ASSUME Cancel PROVE GatePassed'
  BY <1>26 DEF Cancel
<1> QED
  BY <1>1, <1>2, <1>3, <1>4, <1>5, <1>6, <1>7, <1>8, <1>9, <1>10, <1>11, <1>12,
     <1>13, <1>14, <1>15, <1>16, <1>17, <1>18, <1>19, <1>20, <1>21, <1>22, <1>23,
     <1>24, <1>25, <1>26 DEF Next, Collect, Read

\* So scans keep their distance.
LEMMA StepSpaced ==
  ASSUME TypeOK, AttemptStored, GatePassed, [Next]_vars
  PROVE  [begun > 0 /\ begun' # begun =>
            lastNow'.wall - lastNow.wall >= MinInterval - (SecondTicks - 1)]_vars
<1> DEFINE Spaced == begun > 0 /\ begun' # begun =>
                       lastNow'.wall - lastNow.wall >= MinInterval - (SecondTicks - 1)
<1> USE DEF TypeOK, vars, clock, schedule, counters, callers, readers, history,
        ServiceUnchanged, Goto, RGoto, Return, Call, Skip
<1>1. ASSUME UNCHANGED vars PROVE [Spaced]_vars
  BY <1>1
<1>2. ASSUME NEW c \in Callers, Sample(c) PROVE [Spaced]_vars
  BY <1>2 DEF Sample
<1>3. ASSUME NEW c \in Callers, SkipTooSoon(c) PROVE [Spaced]_vars
  BY <1>3 DEF SkipTooSoon
<1>4. ASSUME NEW c \in Callers, PassGate(c) PROVE [Spaced]_vars
  BY <1>4 DEF PassGate
<1>5. ASSUME NEW c \in Callers, SkipRunning(c) PROVE [Spaced]_vars
  BY <1>5 DEF SkipRunning
<1>6. ASSUME NEW c \in Callers, Acquire(c) PROVE [Spaced]_vars
  BY <1>6 DEF Acquire
<1>7. ASSUME NEW c \in Callers, Stamp(c) PROVE [Spaced]_vars
  BY <1>7, SecondBounds, CollectorServiceAssumption, SecondTicksAssumption DEF
     Stamp, AttemptStored, GatePassed, Time
<1>8. ASSUME NEW c \in Callers, CollectReturns(c) PROVE [Spaced]_vars
  BY <1>8 DEF CollectReturns
<1>9. ASSUME NEW c \in Callers, Count(c) PROVE [Spaced]_vars
  BY <1>9 DEF Count
<1>10. ASSUME NEW c \in Callers, Tally(c) PROVE [Spaced]_vars
  BY <1>10 DEF Tally
<1>11. ASSUME NEW c \in Callers, Publish(c) PROVE [Spaced]_vars
  BY <1>11 DEF Publish
<1>12. ASSUME NEW c \in Callers, Release(c) PROVE [Spaced]_vars
  BY <1>12 DEF Release
<1>13. ASSUME NEW c \in Callers, CollectNowForTest(c) PROVE [Spaced]_vars
  BY <1>13 DEF CollectNowForTest
<1>14. ASSUME StartTicker PROVE [Spaced]_vars
  BY <1>14 DEF StartTicker
<1>15. ASSUME TakeTick PROVE [Spaced]_vars
  BY <1>15 DEF TakeTick
<1>16. ASSUME LeaveLoop PROVE [Spaced]_vars
  BY <1>16 DEF LeaveLoop
<1>17. ASSUME NEW r \in Readers, ReadSnapshot(r) PROVE [Spaced]_vars
  BY <1>17 DEF ReadSnapshot
<1>18. ASSUME NEW r \in Readers, ReadView(r) PROVE [Spaced]_vars
  BY <1>18 DEF ReadView
<1>19. ASSUME NEW r \in Readers, LoadLastSuccess(r) PROVE [Spaced]_vars
  BY <1>19 DEF LoadLastSuccess
<1>20. ASSUME NEW r \in Readers, LoadCollections(r) PROVE [Spaced]_vars
  BY <1>20 DEF LoadCollections
<1>21. ASSUME NEW r \in Readers, LoadErrors(r) PROVE [Spaced]_vars
  BY <1>21 DEF LoadErrors
<1>22. ASSUME NEW r \in Readers, LoadSkipped(r) PROVE [Spaced]_vars
  BY <1>22 DEF LoadSkipped
<1>23. ASSUME NEW r \in Readers, Respond(r) PROVE [Spaced]_vars
  BY <1>23 DEF Respond
<1>24. ASSUME Advance PROVE [Spaced]_vars
  BY <1>24 DEF Advance
<1>25. ASSUME SetClock PROVE [Spaced]_vars
  BY <1>25 DEF SetClock
<1>26. ASSUME Cancel PROVE [Spaced]_vars
  BY <1>26 DEF Cancel
<1> QED
  BY <1>1, <1>2, <1>3, <1>4, <1>5, <1>6, <1>7, <1>8, <1>9, <1>10, <1>11, <1>12,
     <1>13, <1>14, <1>15, <1>16, <1>17, <1>18, <1>19, <1>20, <1>21, <1>22, <1>23,
     <1>24, <1>25, <1>26 DEF Next, Collect, Read

\* In production, where the loop is the only caller, two attempts are never
\* nearer to each other than MinInterval less the second's fraction Unix()
\* drops, by the wall clock and however it is set meanwhile.
THEOREM LoopAttemptsSpaced == Testers = {} => (Spec => AttemptsSpaced)
<1> SUFFICES ASSUME Testers = {} PROVE Spec => AttemptsSpaced
  OBVIOUS
<1>1. Init => GatePassed
  BY DEF Init, GatePassed
<1>2. TypeOK /\ GatePassed /\ [Next]_vars => GatePassed'
  BY StepGatePassed
<1>3. TypeOK /\ AttemptStored /\ GatePassed /\ [Next]_vars =>
        [begun > 0 /\ begun' # begun =>
           lastNow'.wall - lastNow.wall >= MinInterval - (SecondTicks - 1)]_vars
  BY StepSpaced
<1>4. IInv => TypeOK /\ AttemptStored
  BY DEF IInv
<1> QED
  BY <1>1, <1>2, <1>3, <1>4, Inductive, PTL DEF Spec, AttemptsSpaced

\* The clocks a process of today can see are later than the minimum interval
\* after 1970, where lastAttempt starts.
ClockIsLate == Boot >= MinInterval /\ \A o \in Offsets : Boot + o >= MinInterval

NowIsLate ==
  /\ wall >= MinInterval
  /\ begun = 0 => lastAttempt = 0
  /\ \A c \in Callers : pc[c] = "gate" => now[c].wall >= MinInterval

\* A clock that is late stays late.
LEMMA StepNowIsLate ==
  ASSUME ClockIsLate, TypeOK, NowIsLate, [Next]_vars
  PROVE  NowIsLate'
<1> USE CollectorServiceAssumption DEF ClockIsLate, TypeOK, NowIsLate, Time, Callers,
        vars, clock, schedule, counters, callers, readers, history,
        ServiceUnchanged, Goto, RGoto, Return, Call, Skip
<1>1. ASSUME UNCHANGED vars PROVE NowIsLate'
  BY <1>1
<1>2. ASSUME NEW c \in Callers, Sample(c) PROVE NowIsLate'
  BY <1>2 DEF Sample
<1>3. ASSUME NEW c \in Callers, SkipTooSoon(c) PROVE NowIsLate'
  BY <1>3 DEF SkipTooSoon
<1>4. ASSUME NEW c \in Callers, PassGate(c) PROVE NowIsLate'
  BY <1>4 DEF PassGate
<1>5. ASSUME NEW c \in Callers, SkipRunning(c) PROVE NowIsLate'
  BY <1>5 DEF SkipRunning
<1>6. ASSUME NEW c \in Callers, Acquire(c) PROVE NowIsLate'
  BY <1>6 DEF Acquire
<1>7. ASSUME NEW c \in Callers, Stamp(c) PROVE NowIsLate'
  BY <1>7 DEF Stamp
<1>8. ASSUME NEW c \in Callers, CollectReturns(c) PROVE NowIsLate'
  BY <1>8 DEF CollectReturns
<1>9. ASSUME NEW c \in Callers, Count(c) PROVE NowIsLate'
  BY <1>9 DEF Count
<1>10. ASSUME NEW c \in Callers, Tally(c) PROVE NowIsLate'
  BY <1>10 DEF Tally
<1>11. ASSUME NEW c \in Callers, Publish(c) PROVE NowIsLate'
  BY <1>11 DEF Publish
<1>12. ASSUME NEW c \in Callers, Release(c) PROVE NowIsLate'
  BY <1>12 DEF Release
<1>13. ASSUME NEW c \in Callers, CollectNowForTest(c) PROVE NowIsLate'
  BY <1>13 DEF CollectNowForTest
<1>14. ASSUME StartTicker PROVE NowIsLate'
  BY <1>14 DEF StartTicker
<1>15. ASSUME TakeTick PROVE NowIsLate'
  BY <1>15 DEF TakeTick
<1>16. ASSUME LeaveLoop PROVE NowIsLate'
  BY <1>16 DEF LeaveLoop
<1>17. ASSUME NEW r \in Readers, ReadSnapshot(r) PROVE NowIsLate'
  BY <1>17 DEF ReadSnapshot
<1>18. ASSUME NEW r \in Readers, ReadView(r) PROVE NowIsLate'
  BY <1>18 DEF ReadView
<1>19. ASSUME NEW r \in Readers, LoadLastSuccess(r) PROVE NowIsLate'
  BY <1>19 DEF LoadLastSuccess
<1>20. ASSUME NEW r \in Readers, LoadCollections(r) PROVE NowIsLate'
  BY <1>20 DEF LoadCollections
<1>21. ASSUME NEW r \in Readers, LoadErrors(r) PROVE NowIsLate'
  BY <1>21 DEF LoadErrors
<1>22. ASSUME NEW r \in Readers, LoadSkipped(r) PROVE NowIsLate'
  BY <1>22 DEF LoadSkipped
<1>23. ASSUME NEW r \in Readers, Respond(r) PROVE NowIsLate'
  BY <1>23 DEF Respond
<1>24. ASSUME Advance PROVE NowIsLate'
  BY <1>24 DEF Advance
<1>25. ASSUME SetClock PROVE NowIsLate'
  BY <1>25 DEF SetClock
<1>26. ASSUME Cancel PROVE NowIsLate'
  BY <1>26 DEF Cancel
<1> QED
  BY <1>1, <1>2, <1>3, <1>4, <1>5, <1>6, <1>7, <1>8, <1>9, <1>10, <1>11, <1>12,
     <1>13, <1>14, <1>15, <1>16, <1>17, <1>18, <1>19, <1>20, <1>21, <1>22, <1>23,
     <1>24, <1>25, <1>26 DEF Next, Collect, Read

\* What SkipsOnlyWhenRecent says of one step.
RefusedForCause ==
  \A c \in Callers : pc[c] = "gate" /\ skipped' # skipped /\ pc'[c] # "gate" =>
    begun > 0 /\ now[c].wall - lastNow.wall < MinInterval

\* A refusal has its cause.
LEMMA StepRefusedForCause ==
  ASSUME TypeOK, AttemptStored, NowIsLate, [Next]_vars
  PROVE  [RefusedForCause]_vars
<1> USE DEF TypeOK, RefusedForCause, vars, clock, schedule, counters, callers, readers,
        history, ServiceUnchanged, Goto, RGoto, Return, Call, Skip
<1>1. ASSUME UNCHANGED vars PROVE [RefusedForCause]_vars
  BY <1>1
<1>2. ASSUME NEW c \in Callers, Sample(c) PROVE [RefusedForCause]_vars
  BY <1>2 DEF Sample
<1>3. ASSUME NEW c \in Callers, SkipTooSoon(c) PROVE [RefusedForCause]_vars
  <2>1. now[c].wall - lastAttempt < MinInterval /\ pc[c] = "gate"
    BY <1>3 DEF SkipTooSoon, TooSoon
  <2>2. now[c].wall \in Int /\ lastNow.wall \in Int
    BY <1>3 DEF Time
  <2>3. now[c].wall >= MinInterval
    BY <1>3, <2>1 DEF NowIsLate
  <2>4. begun > 0
    BY <2>1, <2>2, <2>3, CollectorServiceAssumption DEF NowIsLate
  <2>5. now[c].wall - lastNow.wall < MinInterval
    BY <2>1, <2>2, <2>4, SecondBounds, CollectorServiceAssumption DEF AttemptStored
  <2>6. \A d \in Callers \ {c} : pc'[d] = pc[d]
    BY <1>3 DEF SkipTooSoon
  <2> QED
    BY <2>4, <2>5, <2>6
<1>4. ASSUME NEW c \in Callers, PassGate(c) PROVE [RefusedForCause]_vars
  BY <1>4 DEF PassGate
<1>5. ASSUME NEW c \in Callers, SkipRunning(c) PROVE [RefusedForCause]_vars
  BY <1>5 DEF SkipRunning
<1>6. ASSUME NEW c \in Callers, Acquire(c) PROVE [RefusedForCause]_vars
  BY <1>6 DEF Acquire
<1>7. ASSUME NEW c \in Callers, Stamp(c) PROVE [RefusedForCause]_vars
  BY <1>7 DEF Stamp
<1>8. ASSUME NEW c \in Callers, CollectReturns(c) PROVE [RefusedForCause]_vars
  BY <1>8 DEF CollectReturns
<1>9. ASSUME NEW c \in Callers, Count(c) PROVE [RefusedForCause]_vars
  BY <1>9 DEF Count
<1>10. ASSUME NEW c \in Callers, Tally(c) PROVE [RefusedForCause]_vars
  BY <1>10 DEF Tally
<1>11. ASSUME NEW c \in Callers, Publish(c) PROVE [RefusedForCause]_vars
  BY <1>11 DEF Publish
<1>12. ASSUME NEW c \in Callers, Release(c) PROVE [RefusedForCause]_vars
  BY <1>12 DEF Release
<1>13. ASSUME NEW c \in Callers, CollectNowForTest(c) PROVE [RefusedForCause]_vars
  BY <1>13 DEF CollectNowForTest
<1>14. ASSUME StartTicker PROVE [RefusedForCause]_vars
  BY <1>14 DEF StartTicker
<1>15. ASSUME TakeTick PROVE [RefusedForCause]_vars
  BY <1>15 DEF TakeTick
<1>16. ASSUME LeaveLoop PROVE [RefusedForCause]_vars
  BY <1>16 DEF LeaveLoop
<1>17. ASSUME NEW r \in Readers, ReadSnapshot(r) PROVE [RefusedForCause]_vars
  BY <1>17 DEF ReadSnapshot
<1>18. ASSUME NEW r \in Readers, ReadView(r) PROVE [RefusedForCause]_vars
  BY <1>18 DEF ReadView
<1>19. ASSUME NEW r \in Readers, LoadLastSuccess(r) PROVE [RefusedForCause]_vars
  BY <1>19 DEF LoadLastSuccess
<1>20. ASSUME NEW r \in Readers, LoadCollections(r) PROVE [RefusedForCause]_vars
  BY <1>20 DEF LoadCollections
<1>21. ASSUME NEW r \in Readers, LoadErrors(r) PROVE [RefusedForCause]_vars
  BY <1>21 DEF LoadErrors
<1>22. ASSUME NEW r \in Readers, LoadSkipped(r) PROVE [RefusedForCause]_vars
  BY <1>22 DEF LoadSkipped
<1>23. ASSUME NEW r \in Readers, Respond(r) PROVE [RefusedForCause]_vars
  BY <1>23 DEF Respond
<1>24. ASSUME Advance PROVE [RefusedForCause]_vars
  BY <1>24 DEF Advance
<1>25. ASSUME SetClock PROVE [RefusedForCause]_vars
  BY <1>25 DEF SetClock
<1>26. ASSUME Cancel PROVE [RefusedForCause]_vars
  BY <1>26 DEF Cancel
<1> QED
  BY <1>1, <1>2, <1>3, <1>4, <1>5, <1>6, <1>7, <1>8, <1>9, <1>10, <1>11, <1>12,
     <1>13, <1>14, <1>15, <1>16, <1>17, <1>18, <1>19, <1>20, <1>21, <1>22, <1>23,
     <1>24, <1>25, <1>26 DEF Next, Collect, Read

\* The gate turns a call away only for an attempt that is less than MinInterval
\* old by the wall clock: never the first one, and never because of the second
\* the attempt was cut to, for any number of callers and however the clock is
\* set.
THEOREM RefusalsHaveACause == ClockIsLate => (Spec => SkipsOnlyWhenRecent)
<1> SUFFICES ASSUME ClockIsLate PROVE Spec => SkipsOnlyWhenRecent
  OBVIOUS
<1>1. Init => NowIsLate
  BY CollectorServiceAssumption DEF ClockIsLate, Init, NowIsLate, Callers
<1>2. IInv /\ NowIsLate /\ [Next]_vars => NowIsLate'
  BY StepNowIsLate DEF IInv
<1>3. IInv /\ NowIsLate /\ [Next]_vars => [RefusedForCause]_vars
  BY StepRefusedForCause DEF IInv
<1> QED
  BY <1>1, <1>2, <1>3, Inductive, PTL DEF Spec, SkipsOnlyWhenRecent, RefusedForCause

-----------------------------------------------------------------------------
(* CollectorService implements SingleFlight: Stamp begins a scan, Publish   *)
(* lands it, every other step stutters.                                     *)

\* The first states are first states of SingleFlight.
LEMMA InitFlight == Init => Flights!Init
BY DEF Init, Flights!Init, NoData

\* Every step is one of SingleFlight's, or none.
LEMMA StepFlight ==
  ASSUME IInv, [Next]_vars
  PROVE  [Flights!Next]_Flights!vars
<1> USE DEF IInv, TypeOK, Flights!vars, vars, clock, schedule, counters, callers,
        readers, history, ServiceUnchanged, Goto, RGoto, Return, Call, Skip
<1>1. ASSUME UNCHANGED vars PROVE [Flights!Next]_Flights!vars
  BY <1>1
<1>2. ASSUME NEW c \in Callers, Sample(c) PROVE [Flights!Next]_Flights!vars
  <2>1. Flying' = Flying
    BY <1>2 DEF Sample, Flying, Callers
  <2> QED
    BY <1>2, <2>1 DEF Sample, Flying
<1>3. ASSUME NEW c \in Callers, SkipTooSoon(c) PROVE [Flights!Next]_Flights!vars
  <2>1. Flying' = Flying
    BY <1>3 DEF SkipTooSoon, Flying, Callers
  <2> QED
    BY <1>3, <2>1 DEF SkipTooSoon, Flying
<1>4. ASSUME NEW c \in Callers, PassGate(c) PROVE [Flights!Next]_Flights!vars
  <2>1. Flying' = Flying
    BY <1>4 DEF PassGate, Flying, Callers
  <2> QED
    BY <1>4, <2>1 DEF PassGate, Flying
<1>5. ASSUME NEW c \in Callers, SkipRunning(c) PROVE [Flights!Next]_Flights!vars
  <2>1. Flying' = Flying
    BY <1>5 DEF SkipRunning, Flying, Callers
  <2> QED
    BY <1>5, <2>1 DEF SkipRunning, Flying
<1>6. ASSUME NEW c \in Callers, Acquire(c) PROVE [Flights!Next]_Flights!vars
  <2>1. Flying' = Flying
    BY <1>6 DEF Acquire, Flying, Callers
  <2> QED
    BY <1>6, <2>1 DEF Acquire, Flying
<1>7. ASSUME NEW c \in Callers, Stamp(c) PROVE [Flights!Next]_Flights!vars
  <2>1. Flying = {} /\ Flying' = {c}
    BY <1>7 DEF Stamp, Flying, SingleFlightInv, Owners, Busy
  <2>2. Flights!Begin(c)
    BY <1>7, <2>1 DEF Stamp, Flying, Flights!Begin
  <2> QED
    BY <2>2 DEF Flights!Next
<1>8. ASSUME NEW c \in Callers, CollectReturns(c) PROVE [Flights!Next]_Flights!vars
  <2>1. Flying' = Flying
    BY <1>8 DEF CollectReturns, Flying, Callers
  <2> QED
    BY <1>8, <2>1 DEF CollectReturns, Flying
<1>9. ASSUME NEW c \in Callers, Count(c) PROVE [Flights!Next]_Flights!vars
  <2>1. Flying' = Flying
    BY <1>9 DEF Count, Flying, Callers
  <2> QED
    BY <1>9, <2>1 DEF Count, Flying
<1>10. ASSUME NEW c \in Callers, Tally(c) PROVE [Flights!Next]_Flights!vars
  <2>1. Flying' = Flying
    BY <1>10 DEF Tally, Flying, Callers
  <2> QED
    BY <1>10, <2>1 DEF Tally, Flying
<1>11. ASSUME NEW c \in Callers, Publish(c) PROVE [Flights!Next]_Flights!vars
  <2>1. Flying = {c} /\ Flying' = {}
    BY <1>11 DEF Publish, Flying, SingleFlightInv, Owners, Busy
  <2>2. Flights!Land(c)
    BY <1>11, <2>1 DEF Publish, Flying, GenCurrent, Flights!Land
  <2> QED
    BY <2>2 DEF Flights!Next
<1>12. ASSUME NEW c \in Callers, Release(c) PROVE [Flights!Next]_Flights!vars
  <2>1. Flying' = Flying
    BY <1>12 DEF Release, Flying, Callers
  <2> QED
    BY <1>12, <2>1 DEF Release, Flying
<1>13. ASSUME NEW c \in Callers, CollectNowForTest(c) PROVE [Flights!Next]_Flights!vars
  <2>1. Flying' = Flying
    BY <1>13 DEF CollectNowForTest, Flying, Callers
  <2> QED
    BY <1>13, <2>1 DEF CollectNowForTest, Flying
<1>14. ASSUME StartTicker PROVE [Flights!Next]_Flights!vars
  <2>1. Flying' = Flying
    BY <1>14 DEF StartTicker, Flying, Callers
  <2> QED
    BY <1>14, <2>1 DEF StartTicker, Flying
<1>15. ASSUME TakeTick PROVE [Flights!Next]_Flights!vars
  <2>1. Flying' = Flying
    BY <1>15 DEF TakeTick, Flying, Callers
  <2> QED
    BY <1>15, <2>1 DEF TakeTick, Flying
<1>16. ASSUME LeaveLoop PROVE [Flights!Next]_Flights!vars
  <2>1. Flying' = Flying
    BY <1>16 DEF LeaveLoop, Flying, Callers
  <2> QED
    BY <1>16, <2>1 DEF LeaveLoop, Flying
<1>17. ASSUME NEW r \in Readers, ReadSnapshot(r) PROVE [Flights!Next]_Flights!vars
  <2>1. Flying' = Flying
    BY <1>17 DEF ReadSnapshot, Flying, Callers
  <2> QED
    BY <1>17, <2>1 DEF ReadSnapshot, Flying
<1>18. ASSUME NEW r \in Readers, ReadView(r) PROVE [Flights!Next]_Flights!vars
  <2>1. Flying' = Flying
    BY <1>18 DEF ReadView, Flying, Callers
  <2> QED
    BY <1>18, <2>1 DEF ReadView, Flying
<1>19. ASSUME NEW r \in Readers, LoadLastSuccess(r) PROVE [Flights!Next]_Flights!vars
  <2>1. Flying' = Flying
    BY <1>19 DEF LoadLastSuccess, Flying, Callers
  <2> QED
    BY <1>19, <2>1 DEF LoadLastSuccess, Flying
<1>20. ASSUME NEW r \in Readers, LoadCollections(r) PROVE [Flights!Next]_Flights!vars
  <2>1. Flying' = Flying
    BY <1>20 DEF LoadCollections, Flying, Callers
  <2> QED
    BY <1>20, <2>1 DEF LoadCollections, Flying
<1>21. ASSUME NEW r \in Readers, LoadErrors(r) PROVE [Flights!Next]_Flights!vars
  <2>1. Flying' = Flying
    BY <1>21 DEF LoadErrors, Flying, Callers
  <2> QED
    BY <1>21, <2>1 DEF LoadErrors, Flying
<1>22. ASSUME NEW r \in Readers, LoadSkipped(r) PROVE [Flights!Next]_Flights!vars
  <2>1. Flying' = Flying
    BY <1>22 DEF LoadSkipped, Flying, Callers
  <2> QED
    BY <1>22, <2>1 DEF LoadSkipped, Flying
<1>23. ASSUME NEW r \in Readers, Respond(r) PROVE [Flights!Next]_Flights!vars
  <2>1. Flying' = Flying
    BY <1>23 DEF Respond, Flying, Callers
  <2> QED
    BY <1>23, <2>1 DEF Respond, Flying
<1>24. ASSUME Advance PROVE [Flights!Next]_Flights!vars
  <2>1. Flying' = Flying
    BY <1>24 DEF Advance, Flying, Callers
  <2> QED
    BY <1>24, <2>1 DEF Advance, Flying
<1>25. ASSUME SetClock PROVE [Flights!Next]_Flights!vars
  <2>1. Flying' = Flying
    BY <1>25 DEF SetClock, Flying, Callers
  <2> QED
    BY <1>25, <2>1 DEF SetClock, Flying
<1>26. ASSUME Cancel PROVE [Flights!Next]_Flights!vars
  <2>1. Flying' = Flying
    BY <1>26 DEF Cancel, Flying, Callers
  <2> QED
    BY <1>26, <2>1 DEF Cancel, Flying
<1> QED
  BY <1>1, <1>2, <1>3, <1>4, <1>5, <1>6, <1>7, <1>8, <1>9, <1>10, <1>11, <1>12,
     <1>13, <1>14, <1>15, <1>16, <1>17, <1>18, <1>19, <1>20, <1>21, <1>22, <1>23,
     <1>24, <1>25, <1>26 DEF Next, Collect, Read

\* The service keeps the promise of SingleFlight, for any number of testers
\* and readers.
THEOREM CollectorServiceImplementsSingleFlight == Spec => ImplementsSingleFlight
BY InitFlight, StepFlight, Inductive, PTL DEF Spec, Flights!Spec, ImplementsSingleFlight
=============================================================================
