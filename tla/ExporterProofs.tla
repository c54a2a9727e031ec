--------------------------- MODULE ExporterProofs ---------------------------
(***************************************************************************)
(* Proofs about Exporter, for any number of requests, any contents of the  *)
(* EnvironmentFile and any durations with ShutdownTimeout below            *)
(* StopTimeout.                                                            *)
(***************************************************************************)
EXTENDS Exporter, TLAPS

\* systemd restarts only what has exited and was not told to stop, and
\* nothing is signalled before main listens to signals.
UnitFollowsMain ==
  /\ unit = "restarting" => main = "exited" /\ ~signalled
  /\ main = "init" => ~signalled

\* Requests exist only while main serves or drains, and not before the
\* listener is bound.
ServedWhileListening ==
  /\ main # "serve" => listen = "closed"
  /\ listen \in {"binding", "failed"} => InService = {}
  /\ main \in {"init", "exited"} => InService = {}

\* The loop runs in a process whose configuration was not refused, and has a
\* ticker only if the interval allows for one.
ConfiguredFirst ==
  /\ main \in {"serve", "shutdown"} => ~Refused(environment)
  /\ loop # "off" => main \in {"serve", "shutdown"}
  /\ due # 0 => loop # "off" /\ config.interval > 0

\* The time since SIGTERM and what is left of the timeout add up.
Countdown ==
  /\ main = "serve" /\ signalled => stopAge = 0
  /\ main = "shutdown" => signalled /\ stopAge + deadline = ShutdownTimeout

\* The inductive invariant.
IInv ==
  /\ TypeOK
  /\ UnitFollowsMain
  /\ ServedWhileListening
  /\ ConfiguredFirst
  /\ Countdown
  /\ DroppedForCause

-----------------------------------------------------------------------------
\* What config.Load returns has the types of its fields.
LEMMA ConfigType ==
  ASSUME environment \in Environments, ~Refused(environment)
  PROVE  config.interval \in Int /\ config.minInterval \in Int
<1>1. environment \in Environment
  BY ExporterAssumption
<1>2. /\ environment.interval \in Int \cup {Unset}
      /\ environment.minInterval \in Int \cup {Unset}
  BY <1>1 DEF Environment, Raw, Refused
<1> QED
  BY <1>2, DefaultsAssumption DEF config, Load, OrDefault

\* The first states satisfy it.
LEMMA InitIInv == Init => IInv
<1> SUFFICES ASSUME Init PROVE IInv
  OBVIOUS
<1>1. InService = {}
  BY DEF Init, InService
<1>2. request \in [Requests -> {"none", "handler", "admitted", "query", "reply"}]
  BY DEF Init
<1>3. /\ 0 \in 0..RestartSec /\ 0 \in 0..ShutdownTimeout /\ 0 \in Nat
      /\ Horizon \in 0..Horizon /\ 0 \in 0..StopTimeout
  BY ExporterAssumption
<1>4. TypeOK
  BY <1>2, <1>3 DEF Init, TypeOK
<1> QED
  BY <1>1, <1>4
  DEF Init, IInv, UnitFollowsMain, ServedWhileListening, ConfiguredFirst,
      Countdown, DroppedForCause

\* The exit leaves well-typed timers, and no request.
LEMMA ExitTypeOK ==
  ASSUME TypeOK, NEW status \in {0, 1, 2}, Exit(status)
  PROVE  TypeOK'
<1> USE DEF TypeOK, Exit
<1>1. request' \in [Requests -> {"none", "handler", "admitted", "query", "reply"}]
  OBVIOUS
<1>2. dropped' \in SUBSET Requests
  BY DEF InService
<1>3. due' \in Nat /\ restartIn' \in 0..RestartSec
  BY ExporterAssumption
<1>4. unit' \in {"up", "restarting", "stopped"}
  OBVIOUS
<1>5. main' = "exited" /\ code' \in {0, 1, 2} /\ listen' = "closed" /\ loop' = "off"
      /\ tick' = FALSE
  OBVIOUS
<1>6. UNCHANGED <<environment, signalled, deadline, loopAge, queryAge, scanAge,
                  scanner, stopAge>>
  OBVIOUS
<1>7. left' = listen
  OBVIOUS
<1> HIDE DEF Exit
<1> QED
  BY <1>1, <1>2, <1>3, <1>4, <1>5, <1>6, <1>7

\* Every step keeps the types.
LEMMA StepTypeOK ==
  ASSUME TypeOK, ConfiguredFirst, [Next]_vars
  PROVE  TypeOK'
<1> USE ExporterAssumption DEF TypeOK, systemd, process, ticker, history, InService
<1>1. CASE UNCHANGED vars
  BY <1>1 DEF vars
<1>2. CASE Start
  BY <1>2 DEF Start
<1>3. CASE StartFails
  BY <1>3, ExitTypeOK DEF StartFails
<1>4. CASE ListenFailed
  BY <1>4, ExitTypeOK DEF ListenFailed
<1>5. CASE Stop
  BY <1>5 DEF Stop
<1>6. CASE ShutdownDone
  BY <1>6, ExitTypeOK DEF ShutdownDone
<1>7. CASE ShutdownTimesOut
  BY <1>7, ExitTypeOK DEF ShutdownTimesOut
<1>8. CASE Bind
  BY <1>8 DEF Bind
<1>9. CASE Restart
  BY <1>9 DEF Restart
<1>10. CASE StopUnit
  BY <1>10 DEF StopUnit
<1>11. CASE BeginCollection
  BY <1>11 DEF BeginCollection
<1>12. CASE ToSelect
  <2>1. config.interval \in Int
    BY <1>12, ConfigType DEF ToSelect, Collected, ConfiguredFirst
  <2>2. due' \in Nat
    BY <1>12, <2>1 DEF ToSelect
  <2> QED
    BY <1>12, <2>2 DEF ToSelect
<1>13. CASE TakeTick
  BY <1>13 DEF TakeTick
<1>14. CASE LeaveLoop
  <2>1. due' \in Nat
    BY <1>14 DEF LeaveLoop
  <2> QED
    BY <1>14, <2>1 DEF LeaveLoop
<1>15. CASE TickerPanics
  BY <1>15, ExitTypeOK DEF TickerPanics
<1>16. ASSUME NEW r \in Requests, Arrive(r) PROVE TypeOK'
  BY <1>16 DEF Arrive, Goto
<1>17. ASSUME NEW r \in Requests, BeginQuery(r) PROVE TypeOK'
  BY <1>17 DEF BeginQuery, Goto
<1>18. ASSUME NEW r \in Requests, QueryReturns(r) PROVE TypeOK'
  BY <1>18 DEF QueryReturns, Goto
<1>19. ASSUME NEW r \in Requests, Reply(r) PROVE TypeOK'
  BY <1>19 DEF Reply, Goto
<1>20. CASE Advance
  <2>1. due' \in Nat
    <3>1. CASE due = 1
      <4>1. config.interval \in Int /\ config.interval > 0
        BY <3>1, ConfigType DEF ConfiguredFirst
      <4> QED
        BY <1>20, <3>1, <4>1 DEF Advance
    <3>2. CASE due # 1
      BY <1>20, <3>2 DEF Advance, Remaining
    <3> QED
      BY <3>1, <3>2
  <2> QED
    BY <1>20, <2>1 DEF Advance, Overdue, Elapsed, Remaining
<1>21. CASE ConfigurationError
  BY <1>21, ExitTypeOK DEF ConfigurationError
<1>22. ASSUME NEW r \in Requests, PassGate(r) PROVE TypeOK'
  BY <1>22 DEF PassGate, Goto
<1>23. CASE StopEarly
  BY <1>23 DEF StopEarly
<1>24. CASE AcceptFails
  BY <1>24 DEF AcceptFails
<1> QED
  BY <1>1, <1>2, <1>3, <1>4, <1>5, <1>6, <1>7, <1>8, <1>9, <1>10, <1>11, <1>12, <1>13, <1>14, <1>15, <1>16, <1>17, <1>18, <1>19, <1>20, <1>21,
     <1>22, <1>23, <1>24 DEF Next, Main, Loop

\* Every step keeps systemd in line with main.
LEMMA StepUnit ==
  ASSUME UnitFollowsMain, [Next]_vars
  PROVE  UnitFollowsMain'
<1> USE ExporterAssumption DEF UnitFollowsMain, systemd, process, ticker, history
<1>1. CASE UNCHANGED vars
  BY <1>1 DEF vars
<1>2. CASE Start
  BY <1>2 DEF Start
<1>3. CASE StartFails
  BY <1>3 DEF StartFails, Exit
<1>4. CASE ListenFailed
  BY <1>4 DEF ListenFailed, Exit
<1>5. CASE Stop
  BY <1>5 DEF Stop
<1>6. CASE ShutdownDone
  BY <1>6 DEF ShutdownDone, Exit
<1>7. CASE ShutdownTimesOut
  BY <1>7 DEF ShutdownTimesOut, Exit
<1>8. CASE Bind
  BY <1>8 DEF Bind
<1>9. CASE Restart
  <2>1. ~signalled
    BY <1>9 DEF Restart
  <2>2. signalled' = signalled
    BY <1>9 DEF Restart
  <2>3. unit' = "up"
    BY <1>9 DEF Restart
  <2> QED
    BY <2>1, <2>2, <2>3
<1>10. CASE StopUnit
  BY <1>10 DEF StopUnit
<1>11. CASE BeginCollection
  BY <1>11 DEF BeginCollection
<1>12. CASE ToSelect
  BY <1>12 DEF ToSelect
<1>13. CASE TakeTick
  BY <1>13 DEF TakeTick
<1>14. CASE LeaveLoop
  BY <1>14 DEF LeaveLoop
<1>15. CASE TickerPanics
  BY <1>15 DEF TickerPanics, Exit
<1>16. ASSUME NEW r \in Requests, Arrive(r) PROVE UnitFollowsMain'
  BY <1>16 DEF Arrive, Goto
<1>17. ASSUME NEW r \in Requests, BeginQuery(r) PROVE UnitFollowsMain'
  BY <1>17 DEF BeginQuery, Goto
<1>18. ASSUME NEW r \in Requests, QueryReturns(r) PROVE UnitFollowsMain'
  BY <1>18 DEF QueryReturns, Goto
<1>19. ASSUME NEW r \in Requests, Reply(r) PROVE UnitFollowsMain'
  BY <1>19 DEF Reply, Goto
<1>20. CASE Advance
  BY <1>20 DEF Advance, Overdue, Elapsed, Remaining
<1>21. CASE ConfigurationError
  BY <1>21 DEF ConfigurationError, Exit
<1>22. ASSUME NEW r \in Requests, PassGate(r) PROVE UnitFollowsMain'
  BY <1>22 DEF PassGate, Goto
<1>23. CASE StopEarly
  BY <1>23 DEF StopEarly
<1>24. CASE AcceptFails
  BY <1>24 DEF AcceptFails
<1> QED
  BY <1>1, <1>2, <1>3, <1>4, <1>5, <1>6, <1>7, <1>8, <1>9, <1>10, <1>11, <1>12, <1>13, <1>14, <1>15, <1>16, <1>17, <1>18, <1>19, <1>20, <1>21,
     <1>22, <1>23, <1>24 DEF Next, Main, Loop

\* A process works with the configuration it has loaded.
LEMMA StepConfigured ==
  ASSUME TypeOK, UnitFollowsMain, ConfiguredFirst, [Next]_vars
  PROVE  ConfiguredFirst'
<1> USE ExporterAssumption DEF TypeOK, UnitFollowsMain, ConfiguredFirst, config, systemd, process, ticker, history
<1>1. CASE UNCHANGED vars
  BY <1>1 DEF vars
<1>2. CASE Start
  BY <1>2 DEF Start
<1>3. CASE StartFails
  BY <1>3 DEF StartFails, Exit
<1>4. CASE ListenFailed
  BY <1>4 DEF ListenFailed, Exit
<1>5. CASE Stop
  BY <1>5 DEF Stop
<1>6. CASE ShutdownDone
  BY <1>6 DEF ShutdownDone, Exit
<1>7. CASE ShutdownTimesOut
  BY <1>7 DEF ShutdownTimesOut, Exit
<1>8. CASE Bind
  BY <1>8 DEF Bind
<1>9. CASE Restart
  <2>1. main = "exited"
    BY <1>9 DEF Restart
  <2>2. loop' = "off" /\ due' = 0 /\ main' = "init"
    BY <1>9, <2>1 DEF Restart
  <2> QED
    BY <2>2
<1>10. CASE StopUnit
  BY <1>10 DEF StopUnit
<1>11. CASE BeginCollection
  BY <1>11 DEF BeginCollection
<1>12. CASE ToSelect
  <2>1. due' # 0 => Load(environment).interval > 0
    BY <1>12 DEF ToSelect
  <2> QED
    BY <1>12, <2>1 DEF ToSelect, Collected
<1>13. CASE TakeTick
  BY <1>13 DEF TakeTick
<1>14. CASE LeaveLoop
  BY <1>14 DEF LeaveLoop
<1>15. CASE TickerPanics
  BY <1>15 DEF TickerPanics, Exit
<1>16. ASSUME NEW r \in Requests, Arrive(r) PROVE ConfiguredFirst'
  BY <1>16 DEF Arrive, Goto
<1>17. ASSUME NEW r \in Requests, BeginQuery(r) PROVE ConfiguredFirst'
  BY <1>17 DEF BeginQuery, Goto
<1>18. ASSUME NEW r \in Requests, QueryReturns(r) PROVE ConfiguredFirst'
  BY <1>18 DEF QueryReturns, Goto
<1>19. ASSUME NEW r \in Requests, Reply(r) PROVE ConfiguredFirst'
  BY <1>19 DEF Reply, Goto
<1>20. CASE Advance
  <2>1. due' # 0 => due # 0
    BY <1>20 DEF Advance, Remaining
  <2> QED
    BY <1>20, <2>1 DEF Advance
<1>21. CASE ConfigurationError
  BY <1>21 DEF ConfigurationError, Exit
<1>22. ASSUME NEW r \in Requests, PassGate(r) PROVE ConfiguredFirst'
  BY <1>22 DEF PassGate, Goto
<1>23. CASE StopEarly
  BY <1>23 DEF StopEarly
<1>24. CASE AcceptFails
  BY <1>24 DEF AcceptFails
<1> QED
  BY <1>1, <1>2, <1>3, <1>4, <1>5, <1>6, <1>7, <1>8, <1>9, <1>10, <1>11, <1>12, <1>13, <1>14, <1>15, <1>16, <1>17, <1>18, <1>19, <1>20, <1>21,
     <1>22, <1>23, <1>24 DEF Next, Main, Loop

\* A request arrives while main serves, and is gone when the process is.
LEMMA StepServed ==
  ASSUME TypeOK, UnitFollowsMain, ServedWhileListening, [Next]_vars
  PROVE  ServedWhileListening'
<1> USE ExporterAssumption DEF TypeOK, ServedWhileListening, InService, systemd, process, ticker, history
<1>1. CASE UNCHANGED vars
  BY <1>1 DEF vars
<1>2. CASE Start
  BY <1>2 DEF Start
<1>3. CASE StartFails
  BY <1>3 DEF StartFails, Exit
<1>4. CASE ListenFailed
  BY <1>4 DEF ListenFailed, Exit
<1>5. CASE Stop
  BY <1>5 DEF Stop
<1>6. CASE ShutdownDone
  BY <1>6 DEF ShutdownDone, Exit
<1>7. CASE ShutdownTimesOut
  BY <1>7 DEF ShutdownTimesOut, Exit
<1>8. CASE Bind
  BY <1>8 DEF Bind
<1>9. CASE Restart
  <2>1. main = "exited"
    BY <1>9 DEF Restart, UnitFollowsMain
  <2> QED
    BY <1>9, <2>1 DEF Restart
<1>10. CASE StopUnit
  BY <1>10 DEF StopUnit
<1>11. CASE BeginCollection
  BY <1>11 DEF BeginCollection
<1>12. CASE ToSelect
  BY <1>12 DEF ToSelect
<1>13. CASE TakeTick
  BY <1>13 DEF TakeTick
<1>14. CASE LeaveLoop
  BY <1>14 DEF LeaveLoop
<1>15. CASE TickerPanics
  BY <1>15 DEF TickerPanics, Exit
<1>16. ASSUME NEW r \in Requests, Arrive(r) PROVE ServedWhileListening'
  BY <1>16 DEF Arrive, Goto
<1>17. ASSUME NEW r \in Requests, BeginQuery(r) PROVE ServedWhileListening'
  BY <1>17 DEF BeginQuery, Goto
<1>18. ASSUME NEW r \in Requests, QueryReturns(r) PROVE ServedWhileListening'
  BY <1>18 DEF QueryReturns, Goto
<1>19. ASSUME NEW r \in Requests, Reply(r) PROVE ServedWhileListening'
  BY <1>19 DEF Reply, Goto
<1>20. CASE Advance
  BY <1>20 DEF Advance, Overdue, Elapsed, Remaining
<1>21. CASE ConfigurationError
  BY <1>21 DEF ConfigurationError, Exit
<1>22. ASSUME NEW r \in Requests, PassGate(r) PROVE ServedWhileListening'
  BY <1>22 DEF PassGate, Goto
<1>23. CASE StopEarly
  BY <1>23 DEF StopEarly, UnitFollowsMain
<1>24. CASE AcceptFails
  BY <1>24 DEF AcceptFails
<1> QED
  BY <1>1, <1>2, <1>3, <1>4, <1>5, <1>6, <1>7, <1>8, <1>9, <1>10, <1>11, <1>12, <1>13, <1>14, <1>15, <1>16, <1>17, <1>18, <1>19, <1>20, <1>21,
     <1>22, <1>23, <1>24 DEF Next, Main, Loop

\* Time passes in both timers at once, and not while main is due.
LEMMA StepCountdown ==
  ASSUME TypeOK, UnitFollowsMain, Countdown, [Next]_vars
  PROVE  Countdown'
<1> USE ExporterAssumption DEF TypeOK, UnitFollowsMain, Countdown, systemd, process, ticker, history
<1>1. CASE UNCHANGED vars
  BY <1>1 DEF vars
<1>2. CASE Start
  BY <1>2 DEF Start
<1>3. CASE StartFails
  BY <1>3 DEF StartFails, Exit
<1>4. CASE ListenFailed
  BY <1>4 DEF ListenFailed, Exit
<1>5. CASE Stop
  BY <1>5 DEF Stop
<1>6. CASE ShutdownDone
  BY <1>6 DEF ShutdownDone, Exit
<1>7. CASE ShutdownTimesOut
  BY <1>7 DEF ShutdownTimesOut, Exit
<1>8. CASE Bind
  BY <1>8 DEF Bind
<1>9. CASE Restart
  BY <1>9 DEF Restart
<1>10. CASE StopUnit
  BY <1>10 DEF StopUnit
<1>11. CASE BeginCollection
  BY <1>11 DEF BeginCollection
<1>12. CASE ToSelect
  BY <1>12 DEF ToSelect
<1>13. CASE TakeTick
  BY <1>13 DEF TakeTick
<1>14. CASE LeaveLoop
  BY <1>14 DEF LeaveLoop
<1>15. CASE TickerPanics
  BY <1>15 DEF TickerPanics, Exit
<1>16. ASSUME NEW r \in Requests, Arrive(r) PROVE Countdown'
  BY <1>16 DEF Arrive, Goto
<1>17. ASSUME NEW r \in Requests, BeginQuery(r) PROVE Countdown'
  BY <1>17 DEF BeginQuery, Goto
<1>18. ASSUME NEW r \in Requests, QueryReturns(r) PROVE Countdown'
  BY <1>18 DEF QueryReturns, Goto
<1>19. ASSUME NEW r \in Requests, Reply(r) PROVE Countdown'
  BY <1>19 DEF Reply, Goto
<1>20. CASE Advance
  BY <1>20 DEF Advance, Overdue, Elapsed, Remaining
<1>21. CASE ConfigurationError
  BY <1>21 DEF ConfigurationError, Exit
<1>22. ASSUME NEW r \in Requests, PassGate(r) PROVE Countdown'
  BY <1>22 DEF PassGate, Goto
<1>23. CASE StopEarly
  BY <1>23 DEF StopEarly
<1>24. CASE AcceptFails
  BY <1>24 DEF AcceptFails
<1> QED
  BY <1>1, <1>2, <1>3, <1>4, <1>5, <1>6, <1>7, <1>8, <1>9, <1>10, <1>11, <1>12, <1>13, <1>14, <1>15, <1>16, <1>17, <1>18, <1>19, <1>20, <1>21,
     <1>22, <1>23, <1>24 DEF Next, Main, Loop

\* Only a timeout, a broken listener or a panic cuts a request off.
LEMMA StepDropped ==
  ASSUME IInv, [Next]_vars
  PROVE  DroppedForCause'
<1> USE ExporterAssumption DEF IInv, TypeOK, ConfiguredFirst, config, UnitFollowsMain, ServedWhileListening, Countdown, DroppedForCause, InService, systemd, process, ticker, history
<1>1. CASE UNCHANGED vars
  BY <1>1 DEF vars
<1>2. CASE Start
  BY <1>2 DEF Start
<1>3. CASE StartFails
  BY <1>3 DEF StartFails, Exit
<1>4. CASE ListenFailed
  BY <1>4 DEF ListenFailed, Exit
<1>5. CASE Stop
  BY <1>5 DEF Stop
<1>6. CASE ShutdownDone
  BY <1>6 DEF ShutdownDone, Exit
<1>7. CASE ShutdownTimesOut
  BY <1>7 DEF ShutdownTimesOut, Exit
<1>8. CASE Bind
  BY <1>8 DEF Bind
<1>9. CASE Restart
  BY <1>9 DEF Restart
<1>10. CASE StopUnit
  BY <1>10 DEF StopUnit
<1>11. CASE BeginCollection
  BY <1>11 DEF BeginCollection
<1>12. CASE ToSelect
  BY <1>12 DEF ToSelect
<1>13. CASE TakeTick
  BY <1>13 DEF TakeTick
<1>14. CASE LeaveLoop
  BY <1>14 DEF LeaveLoop
<1>15. CASE TickerPanics
  BY <1>15 DEF TickerPanics, Collected, Exit
<1>16. ASSUME NEW r \in Requests, Arrive(r) PROVE DroppedForCause'
  BY <1>16 DEF Arrive, Goto
<1>17. ASSUME NEW r \in Requests, BeginQuery(r) PROVE DroppedForCause'
  BY <1>17 DEF BeginQuery, Goto
<1>18. ASSUME NEW r \in Requests, QueryReturns(r) PROVE DroppedForCause'
  BY <1>18 DEF QueryReturns, Goto
<1>19. ASSUME NEW r \in Requests, Reply(r) PROVE DroppedForCause'
  BY <1>19 DEF Reply, Goto
<1>20. CASE Advance
  BY <1>20 DEF Advance, Overdue, Elapsed, Remaining
<1>21. CASE ConfigurationError
  BY <1>21 DEF ConfigurationError, Exit
<1>22. ASSUME NEW r \in Requests, PassGate(r) PROVE DroppedForCause'
  BY <1>22 DEF PassGate, Goto
<1>23. CASE StopEarly
  BY <1>23 DEF StopEarly
<1>24. CASE AcceptFails
  BY <1>24 DEF AcceptFails
<1> QED
  BY <1>1, <1>2, <1>3, <1>4, <1>5, <1>6, <1>7, <1>8, <1>9, <1>10, <1>11, <1>12, <1>13, <1>14, <1>15, <1>16, <1>17, <1>18, <1>19, <1>20, <1>21,
     <1>22, <1>23, <1>24 DEF Next, Main, Loop

\* Every step keeps it.
LEMMA Inductive == IInv /\ [Next]_vars => IInv'
<1> SUFFICES ASSUME IInv, [Next]_vars PROVE IInv'
  OBVIOUS
<1>1. TypeOK' /\ UnitFollowsMain' /\ ServedWhileListening'
  BY StepTypeOK, StepUnit, StepServed DEF IInv
<1>3. ConfiguredFirst'
  BY StepConfigured DEF IInv
<1>2. Countdown' /\ DroppedForCause'
  BY StepCountdown, StepDropped DEF IInv
<1> QED
  BY <1>1, <1>2, <1>3 DEF IInv

\* It holds in every state that is reached.
THEOREM Invariance == Spec => []IInv
  BY InitIInv, Inductive, PTL DEF Spec

-----------------------------------------------------------------------------
\* Every variable keeps its type.
THEOREM TypeCorrect == Spec => []TypeOK
<1>1. IInv => TypeOK
  BY DEF IInv
<1> QED
  BY Invariance, <1>1, PTL

\* No request is cut off but by a shutdown that has used up its timeout, by a
\* listener that has served and then fails for good, or by the panic of
\* time.NewTicker (main.go, Shutdown, the error of ListenAndServe, and the os.Exit
\* after either).
THEOREM RequestsGetTheirGrace == Spec => []DroppedForCause
<1>1. IInv => DroppedForCause
  BY DEF IInv
<1> QED
  BY Invariance, <1>1, PTL

\* With the shutdown timeout below the unit's TimeoutStopSec, the process has
\* exited before systemd kills it, whatever LSF and the clients do.
THEOREM ExitsBeforeTheKill == Spec => []StopsInTime
<1>1. IInv => StopsInTime
  <2> SUFFICES ASSUME IInv, signalled, main # "exited" PROVE stopAge < StopTimeout
    BY DEF StopsInTime
  <2>1. main \in {"serve", "shutdown"}
    BY DEF IInv, TypeOK, UnitFollowsMain
  <2>2. CASE main = "serve"
    BY <2>2, ExporterAssumption DEF IInv, Countdown
  <2>3. CASE main = "shutdown"
    BY <2>3, ExporterAssumption DEF IInv, Countdown, TypeOK
  <2> QED
    BY <2>1, <2>2, <2>3
<1> QED
  BY Invariance, <1>1, PTL

-----------------------------------------------------------------------------
\* The unit is up as long as its process is there, and down for good only on
\* request: no process exits with status 0 that was not told to.
StoppedOnRequest ==
  /\ unit = "up" <=> main # "exited"
  /\ unit = "stopped" => signalled

\* The running flag of JobQueryService lets one request at a time through.
OneQuery == \A r, s \in Querying : r = s

\* A process that exits unasked fails, and is restarted.
LEMMA StepStopped ==
  ASSUME IInv, StoppedOnRequest, [Next]_vars
  PROVE  StoppedOnRequest'
<1> USE DEF IInv, TypeOK, StoppedOnRequest, UnitFollowsMain, ConfiguredFirst, Countdown, systemd, process, ticker, history
<1>1. CASE UNCHANGED vars
  BY <1>1 DEF vars
<1>2. CASE Start
  BY <1>2 DEF Start
<1>3. CASE StartFails
  BY <1>3 DEF StartFails, Exit
<1>4. CASE ListenFailed
  BY <1>4 DEF ListenFailed, Exit
<1>5. CASE Stop
  BY <1>5 DEF Stop
<1>6. CASE ShutdownDone
  BY <1>6 DEF ShutdownDone, Exit
<1>7. CASE ShutdownTimesOut
  BY <1>7 DEF ShutdownTimesOut, Exit
<1>8. CASE Bind
  BY <1>8 DEF Bind
<1>9. CASE Restart
  BY <1>9 DEF Restart
<1>10. CASE StopUnit
  BY <1>10 DEF StopUnit
<1>11. CASE BeginCollection
  BY <1>11 DEF BeginCollection
<1>12. CASE ToSelect
  BY <1>12 DEF ToSelect
<1>13. CASE TakeTick
  BY <1>13 DEF TakeTick
<1>14. CASE LeaveLoop
  BY <1>14 DEF LeaveLoop
<1>15. CASE TickerPanics
  BY <1>15 DEF TickerPanics, Exit, Collected
<1>16. ASSUME NEW r \in Requests, Arrive(r) PROVE StoppedOnRequest'
  BY <1>16 DEF Arrive, Goto
<1>17. ASSUME NEW r \in Requests, BeginQuery(r) PROVE StoppedOnRequest'
  BY <1>17 DEF BeginQuery, Goto
<1>18. ASSUME NEW r \in Requests, QueryReturns(r) PROVE StoppedOnRequest'
  BY <1>18 DEF QueryReturns, Goto
<1>19. ASSUME NEW r \in Requests, Reply(r) PROVE StoppedOnRequest'
  BY <1>19 DEF Reply, Goto
<1>20. CASE Advance
  BY <1>20 DEF Advance
<1>21. CASE ConfigurationError
  BY <1>21 DEF ConfigurationError, Exit
<1>22. ASSUME NEW r \in Requests, PassGate(r) PROVE StoppedOnRequest'
  BY <1>22 DEF PassGate, Goto
<1>23. CASE StopEarly
  BY <1>23 DEF StopEarly
<1>24. CASE AcceptFails
  BY <1>24 DEF AcceptFails
<1> QED
  BY <1>1, <1>2, <1>3, <1>4, <1>5, <1>6, <1>7, <1>8, <1>9, <1>10, <1>11, <1>12,
     <1>13, <1>14, <1>15, <1>16, <1>17, <1>18, <1>19, <1>20, <1>21,
     <1>22, <1>23, <1>24 DEF Next, Main, Loop

\* A query begins where there is none.
LEMMA StepOneQuery ==
  ASSUME TypeOK, OneQuery, [Next]_vars
  PROVE  OneQuery'
<1> USE DEF TypeOK, OneQuery, Querying, systemd, process, ticker, history
<1>1. CASE UNCHANGED vars
  BY <1>1 DEF vars
<1>2. CASE Start
  BY <1>2 DEF Start
<1>3. CASE StartFails
  BY <1>3 DEF StartFails, Exit
<1>4. CASE ListenFailed
  BY <1>4 DEF ListenFailed, Exit
<1>5. CASE Stop
  BY <1>5 DEF Stop
<1>6. CASE ShutdownDone
  BY <1>6 DEF ShutdownDone, Exit
<1>7. CASE ShutdownTimesOut
  BY <1>7 DEF ShutdownTimesOut, Exit
<1>8. CASE Bind
  BY <1>8 DEF Bind
<1>9. CASE Restart
  BY <1>9 DEF Restart
<1>10. CASE StopUnit
  BY <1>10 DEF StopUnit
<1>11. CASE BeginCollection
  BY <1>11 DEF BeginCollection
<1>12. CASE ToSelect
  BY <1>12 DEF ToSelect
<1>13. CASE TakeTick
  BY <1>13 DEF TakeTick
<1>14. CASE LeaveLoop
  BY <1>14 DEF LeaveLoop
<1>15. CASE TickerPanics
  BY <1>15 DEF TickerPanics, Exit, Collected
<1>16. ASSUME NEW r \in Requests, Arrive(r) PROVE OneQuery'
  BY <1>16 DEF Arrive, Goto
<1>17. ASSUME NEW r \in Requests, BeginQuery(r) PROVE OneQuery'
  <2>1. request' = [request EXCEPT ![r] = "query"] /\ Querying = {}
    BY <1>17 DEF BeginQuery, Goto
  <2>2. \A s \in Requests : s # r => request'[s] # "query"
    BY <2>1
  <2> QED
    BY <2>2
<1>18. ASSUME NEW r \in Requests, QueryReturns(r) PROVE OneQuery'
  BY <1>18 DEF QueryReturns, Goto
<1>19. ASSUME NEW r \in Requests, Reply(r) PROVE OneQuery'
  BY <1>19 DEF Reply, Goto
<1>20. CASE Advance
  BY <1>20 DEF Advance
<1>21. CASE ConfigurationError
  BY <1>21 DEF ConfigurationError, Exit
<1>22. ASSUME NEW r \in Requests, PassGate(r) PROVE OneQuery'
  BY <1>22 DEF PassGate, Goto
<1>23. CASE StopEarly
  BY <1>23 DEF StopEarly
<1>24. CASE AcceptFails
  BY <1>24 DEF AcceptFails
<1> QED
  BY <1>1, <1>2, <1>3, <1>4, <1>5, <1>6, <1>7, <1>8, <1>9, <1>10, <1>11, <1>12,
     <1>13, <1>14, <1>15, <1>16, <1>17, <1>18, <1>19, <1>20, <1>21,
     <1>22, <1>23, <1>24 DEF Next, Main, Loop

\* The exporter is down exactly if it was stopped and has exited.
DownIfStopped == unit = "stopped" <=> signalled /\ main = "exited"

\* systemd gives up no process that was not told to stop, and restarts none that
\* was: main.go's exit statuses against the unit's Restart=on-failure.
THEOREM DownOnlyOnRequest == Spec => []DownIfStopped
<1>1. Init => StoppedOnRequest
  BY DEF Init, StoppedOnRequest
<1>2. IInv /\ StoppedOnRequest /\ [Next]_vars => StoppedOnRequest'
  BY StepStopped
<1>3. IInv /\ StoppedOnRequest => DownIfStopped
  BY DEF IInv, TypeOK, UnitFollowsMain, StoppedOnRequest, DownIfStopped
<1> QED
  BY Invariance, <1>1, <1>2, <1>3, PTL DEF Spec

\* Of three scans under way two are the same.
TwoScansAtMost == \A s, t, u \in Scans : s = t \/ t = u \/ s = u

\* The running flags of the two services are unaware of each other, and LSF may be
\* scanned twice at once, but never more: OneScanAtATime fails by a collection and
\* a query, and by nothing else.
THEOREM ScansArePaired == Spec => []TwoScansAtMost
<1>1. Init => OneQuery
  BY DEF Init, OneQuery, Querying
<1>2. IInv /\ OneQuery /\ [Next]_vars => OneQuery'
  BY StepOneQuery DEF IInv
<1>3. OneQuery => TwoScansAtMost
  BY DEF OneQuery, TwoScansAtMost, Scans
<1> QED
  BY Invariance, <1>1, <1>2, <1>3, PTL DEF Spec

-----------------------------------------------------------------------------
\* The time since the last scan is the loop's own if the loop began it, and covers
\* the restart timer if no service of this process did.
LastScanKnown ==
  /\ scanner = "collection" => scanAge >= loopAge
  /\ main # "exited" /\ scanner = "none" => scanAge = Horizon \/ scanAge >= RestartSec
  /\ unit = "restarting" => scanAge = Horizon \/ scanAge + restartIn >= RestartSec

\* A scan sets the age of its service back together with that of all scans, and
\* a restart takes its time.
LEMMA StepLastScan ==
  ASSUME IInv, LastScanKnown, [Next]_vars
  PROVE  LastScanKnown'
<1> USE ExporterAssumption
    DEF IInv, TypeOK, LastScanKnown, UnitFollowsMain, systemd, process, ticker, history
<1>1. CASE UNCHANGED vars
  BY <1>1 DEF vars
<1>2. CASE Start
  BY <1>2 DEF Start
<1>3. CASE StartFails
  BY <1>3 DEF StartFails, Exit
<1>4. CASE ListenFailed
  BY <1>4 DEF ListenFailed, Exit
<1>5. CASE Stop
  BY <1>5 DEF Stop
<1>6. CASE ShutdownDone
  BY <1>6 DEF ShutdownDone, Exit
<1>7. CASE ShutdownTimesOut
  BY <1>7 DEF ShutdownTimesOut, Exit
<1>8. CASE Bind
  BY <1>8 DEF Bind
<1>9. CASE Restart
  BY <1>9 DEF Restart
<1>10. CASE StopUnit
  BY <1>10 DEF StopUnit
<1>11. CASE StopEarly
  BY <1>11 DEF StopEarly
<1>12. CASE BeginCollection
  BY <1>12 DEF BeginCollection, ConfiguredFirst
<1>13. CASE ToSelect
  BY <1>13 DEF ToSelect, Collected
<1>14. CASE TakeTick
  BY <1>14 DEF TakeTick
<1>15. CASE LeaveLoop
  BY <1>15 DEF LeaveLoop
<1>16. CASE TickerPanics
  BY <1>16 DEF TickerPanics, Exit, Collected
<1>17. CASE ConfigurationError
  BY <1>17 DEF ConfigurationError, Exit
<1>18. CASE Advance
  BY <1>18 DEF Advance, Elapsed, Remaining
<1>19. ASSUME NEW r \in Requests, Arrive(r) PROVE LastScanKnown'
  BY <1>19 DEF Arrive, Goto
<1>20. ASSUME NEW r \in Requests, PassGate(r) PROVE LastScanKnown'
  BY <1>20 DEF PassGate, Goto
<1>21. ASSUME NEW r \in Requests, BeginQuery(r) PROVE LastScanKnown'
  BY <1>21 DEF BeginQuery, Goto, ServedWhileListening, InService
<1>22. ASSUME NEW r \in Requests, QueryReturns(r) PROVE LastScanKnown'
  BY <1>22 DEF QueryReturns, Goto
<1>23. ASSUME NEW r \in Requests, Reply(r) PROVE LastScanKnown'
  BY <1>23 DEF Reply, Goto
<1>24. CASE AcceptFails
  BY <1>24 DEF AcceptFails
<1> QED
  BY <1>1, <1>2, <1>3, <1>4, <1>5, <1>6, <1>7, <1>8, <1>9, <1>10, <1>11, <1>12,
     <1>13, <1>14, <1>15, <1>16, <1>17, <1>18, <1>19, <1>20, <1>21, <1>22, <1>23, <1>24
  DEF Next, Main, Loop

\* No other step begins a background scan.
LEMMA OnlyBeginScans ==
  ASSUME [Next]_vars, loop # "scan", loop' = "scan"
  PROVE  BeginCollection
<1> USE DEF systemd, process, ticker, history
<1> SUFFICES ASSUME ~BeginCollection PROVE FALSE
  OBVIOUS
<1>1. CASE UNCHANGED vars
  BY <1>1 DEF vars
<1>2. CASE Start
  BY <1>2 DEF Start
<1>3. CASE StartFails
  BY <1>3 DEF StartFails, Exit
<1>4. CASE ListenFailed
  BY <1>4 DEF ListenFailed, Exit
<1>5. CASE Stop
  BY <1>5 DEF Stop
<1>6. CASE ShutdownDone
  BY <1>6 DEF ShutdownDone, Exit
<1>7. CASE ShutdownTimesOut
  BY <1>7 DEF ShutdownTimesOut, Exit
<1>8. CASE Bind
  BY <1>8 DEF Bind
<1>9. CASE Restart
  BY <1>9 DEF Restart
<1>10. CASE StopUnit
  BY <1>10 DEF StopUnit
<1>11. CASE StopEarly
  BY <1>11 DEF StopEarly
<1>12. CASE BeginCollection
  BY <1>12
<1>13. CASE ToSelect
  BY <1>13 DEF ToSelect, Collected
<1>14. CASE TakeTick
  BY <1>14 DEF TakeTick
<1>15. CASE LeaveLoop
  BY <1>15 DEF LeaveLoop
<1>16. CASE TickerPanics
  BY <1>16 DEF TickerPanics, Exit, Collected
<1>17. CASE ConfigurationError
  BY <1>17 DEF ConfigurationError, Exit
<1>18. CASE Advance
  BY <1>18 DEF Advance, Elapsed, Remaining
<1>19. ASSUME NEW r \in Requests, Arrive(r) PROVE FALSE
  BY <1>19 DEF Arrive, Goto
<1>20. ASSUME NEW r \in Requests, PassGate(r) PROVE FALSE
  BY <1>20 DEF PassGate, Goto
<1>21. ASSUME NEW r \in Requests, BeginQuery(r) PROVE FALSE
  BY <1>21 DEF BeginQuery, Goto
<1>22. ASSUME NEW r \in Requests, QueryReturns(r) PROVE FALSE
  BY <1>22 DEF QueryReturns, Goto
<1>23. ASSUME NEW r \in Requests, Reply(r) PROVE FALSE
  BY <1>23 DEF Reply, Goto
<1>24. CASE AcceptFails
  BY <1>24 DEF AcceptFails
<1> QED
  BY <1>1, <1>2, <1>3, <1>4, <1>5, <1>6, <1>7, <1>8, <1>9, <1>10, <1>11, <1>12,
     <1>13, <1>14, <1>15, <1>16, <1>17, <1>18, <1>19, <1>20, <1>21, <1>22, <1>23, <1>24
  DEF Next, Main, Loop

\* What is left of ScansSpaced: however often the exporter is restarted, with
\* whatever configuration, its loop scans LSF MinInterval after its own last scan
\* or later, and RestartSec after one of a process before it (main.go, which starts
\* the loop before the server, and the unit's RestartSec).
THEOREM BackgroundScansKeepApart == Spec => BackgroundSpaced
<1>1. Init => LastScanKnown
  BY ExporterAssumption DEF Init, LastScanKnown
<1>2. IInv /\ LastScanKnown /\ [Next]_vars => LastScanKnown'
  BY StepLastScan
<1>3. ASSUME IInv, LastScanKnown, [Next]_vars
      PROVE  [config.native /\ loop # "scan" /\ loop' = "scan" =>
                \/ scanAge >= config.minInterval
                \/ scanner = "refresh"
                \/ scanner = "none" /\ scanAge >= RestartSec]_vars
  <2> SUFFICES ASSUME config.native, loop # "scan", loop' = "scan"
               PROVE  \/ scanAge >= config.minInterval
                      \/ scanner = "refresh"
                      \/ scanner = "none" /\ scanAge >= RestartSec
    OBVIOUS
  <2>1. BeginCollection
    BY <1>3, OnlyBeginScans
  <2>2. loopAge >= config.minInterval /\ main # "exited" /\ ~Refused(environment)
    BY <1>3, <2>1 DEF BeginCollection, IInv, ConfiguredFirst
  <2>3. config.minInterval \in Int
    BY <1>3, <2>2, ConfigType DEF IInv, TypeOK
  <2> QED
    BY <1>3, <2>2, <2>3, ExporterAssumption DEF LastScanKnown, IInv, TypeOK
<1> QED
  BY Invariance, <1>1, <1>2, <1>3, PTL DEF Spec, BackgroundSpaced
=============================================================================
