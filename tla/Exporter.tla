------------------------------ MODULE Exporter ------------------------------
(***************************************************************************)
(* The exporter as a process: main, from its start to its exit, with the   *)
(* background collection, the HTTP server and the requests in it, under    *)
(* the systemd unit that restarts it with the EnvironmentFile as it is by  *)
(* then.  Everything in memory dies with the process.                      *)
(*                                                                         *)
(* Both collection services appear as what CollectorService and JobQuery   *)
(* show them to be: one scan at a time each, and a gate that closes for    *)
(* MinInterval after the service's own last one.  An attempt counts from   *)
(* the scan it begins.                                                     *)
(* Timers count down, and ages up to the value they are compared with.     *)
(***************************************************************************)
EXTENDS Config

CONSTANTS
  Requests,         \* HTTP requests that may be in service at one time
  Environments,     \* what the EnvironmentFile may hold
  Horizon,          \* ages count up to here; no minimum interval is longer
  ShutdownTimeout,  \* what main gives httpServer.Shutdown
  StopTimeout,      \* the unit's TimeoutStopSec
  RestartSec        \* the unit's RestartSec

ASSUME ExporterAssumption ==
  /\ Environments \subseteq Environment /\ Environments # {}
  /\ Horizon \in Nat
  /\ \A e \in Environments : ~Refused(e) => Load(e).minInterval <= Horizon
  /\ ShutdownTimeout \in Nat /\ RestartSec \in Nat
  /\ StopTimeout \in Nat /\ ShutdownTimeout < StopTimeout

VARIABLES
  environment, \* the process's, read by config.Load
  unit,        \* systemd: "up", "restarting" or "stopped"
  restartIn,   \* systemd: time left until the restart
  main,        \* where main is
  code,        \* the exit status
  signalled,   \* SIGTERM has come: ctx is done
  deadline,    \* time left of shutdownCtx
  listen,      \* the listener: ListenAndServe is in its goroutine
  loop,        \* the goroutine of svc.Run
  due,         \* time until its ticker fires; 0 while there is no ticker
  tick,        \* ticker.C holds a tick
  loopAge,     \* time since the lastAttempt of collector.Service
  request,     \* what each request is doing
  queryAge,    \* time since the lastAttempt of collector.JobQueryService
  \* History: not in the code, read by the properties only.
  scanAge,     \* time since a scan of LSF began, by whichever process
  scanner,     \* the service of this process that began its last scan
  stopAge,     \* time since SIGTERM
  dropped,     \* the requests in service when the process exited
  left         \* the listener at that time

systemd == <<unit, restartIn>>
process == <<environment, main, code, signalled, deadline, listen>>
ticker  == <<due, tick>>
history == <<scanAge, scanner, stopAge, dropped, left>>
vars    == <<systemd, process, loop, ticker, loopAge, request, queryAge, history>>

-----------------------------------------------------------------------------
\* A request runs its handler and then replies; in between it may run an
\* ALL_JOB query.
InService == {r \in Requests : request[r] # "none"}
Querying  == {r \in Requests : request[r] = "query"}

\* cfg of a process that has one.
config == Load(environment)

\* Scans of LSF under way.  Without the native source a collection is none.
Scans == Querying \cup (IF loop = "scan" /\ config.native THEN {"background"} ELSE {})

Elapsed(age, limit) == IF age < limit THEN age + 1 ELSE age
Remaining(timer)    == IF timer = 0 THEN 0 ELSE timer - 1

-----------------------------------------------------------------------------
Init ==
  /\ environment \in Environments
  /\ unit = "up" /\ restartIn = 0
  /\ main = "init" /\ code = 0 /\ signalled = FALSE /\ deadline = 0
  /\ listen = "closed"
  /\ loop = "off" /\ due = 0 /\ tick = FALSE
  /\ loopAge = Horizon /\ queryAge = Horizon
  /\ request = [r \in Requests |-> "none"]
  /\ scanAge = Horizon /\ scanner = "none" /\ stopAge = 0
  /\ dropped = {} /\ left = "closed"

(* -------------------------------- main -------------------------------- *)

\* Mutant: RestartPreventExitStatus=2 in the unit.
ExitRestartingFailures(status) ==
  /\ main' = "exited" /\ code' = status
  /\ listen' = "closed" /\ loop' = "off" /\ due' = 0 /\ tick' = FALSE
  /\ dropped' = InService /\ left' = listen
  /\ request' = [r \in Requests |-> "none"]
  /\ unit' = IF status = 1 /\ ~signalled THEN "restarting" ELSE "stopped"
  /\ restartIn' = IF status = 1 /\ ~signalled THEN RestartSec ELSE 0
  /\ UNCHANGED <<environment, signalled, deadline, loopAge, queryAge, scanAge,
                 scanner, stopAge>>

\* The process exits, with every goroutine in it.  Restart=on-failure; what
\* systemd has stopped stays stopped.
Exit(status) ==
  /\ main' = "exited" /\ code' = status
  /\ listen' = "closed" /\ loop' = "off" /\ due' = 0 /\ tick' = FALSE
  /\ dropped' = InService /\ left' = listen
  /\ request' = [r \in Requests |-> "none"]
  /\ unit' = IF status # 0 /\ ~signalled THEN "restarting" ELSE "stopped"
  /\ restartIn' = IF status # 0 /\ ~signalled THEN RestartSec ELSE 0
  /\ UNCHANGED <<environment, signalled, deadline, loopAge, queryAge, scanAge,
                 scanner, stopAge>>

\* config.Load returns an error.
ConfigurationError == main = "init" /\ Refused(environment) /\ Exit(2)

\* The configuration is in order, and lsb_init succeeds or is not called: the
\* loop is started first, the server next.
Start ==
  /\ main = "init" /\ ~Refused(environment)
  /\ main' = "serve" /\ loop' = "enter" /\ listen' = "binding"
  /\ UNCHANGED <<systemd, environment, code, signalled, deadline, ticker, loopAge,
                 request, queryAge, history>>

\* lsb_init fails.
StartFails ==
  /\ main = "init" /\ ~Refused(environment) /\ config.native
  /\ Exit(1)

Bind ==
  /\ listen = "binding"
  /\ listen' \in {"listening", "failed"}
  /\ UNCHANGED <<systemd, environment, main, code, signalled, deadline, loop, ticker,
                 loopAge, request, queryAge, history>>

\* Accept fails for good, and ListenAndServe returns with requests in service.
AcceptFails ==
  /\ listen = "listening"
  /\ listen' = "broken"
  /\ UNCHANGED <<systemd, environment, main, code, signalled, deadline, loop, ticker,
                 loopAge, request, queryAge, history>>

\* case err := <-errCh, which the select may choose when ctx is done as well.
ListenFailed == main = "serve" /\ listen \in {"failed", "broken"} /\ Exit(1)

\* Mutant: main waits for the loop before it shuts the server down.
StopAfterLoop ==
  /\ main = "serve" /\ signalled /\ loop = "done"
  /\ main' = "shutdown" /\ deadline' = ShutdownTimeout
  /\ listen' = "closed"
  /\ UNCHANGED <<systemd, environment, code, signalled, loop, ticker, loopAge, request,
                 queryAge, history>>

\* Mutant: the timeout of the shutdown is the one systemd has.
StopTooPatiently ==
  /\ main = "serve" /\ signalled
  /\ main' = "shutdown" /\ deadline' = StopTimeout
  /\ listen' = "closed"
  /\ UNCHANGED <<systemd, environment, code, signalled, loop, ticker, loopAge, request,
                 queryAge, history>>

\* case <-ctx.Done(): Shutdown closes the listener.
Stop ==
  /\ main = "serve" /\ signalled
  /\ main' = "shutdown" /\ deadline' = ShutdownTimeout
  /\ listen' = "closed"
  /\ UNCHANGED <<systemd, environment, code, signalled, loop, ticker, loopAge, request,
                 queryAge, history>>

\* Mutant: httpServer.Close() in place of Shutdown.
CloseServer == main = "shutdown" /\ Exit(0)

\* Shutdown returns nil: no request is in service.  The loop is not waited for.
ShutdownDone == main = "shutdown" /\ InService = {} /\ Exit(0)

\* shutdownCtx expires before Shutdown has seen the server idle.
ShutdownTimesOut == main = "shutdown" /\ deadline = 0 /\ Exit(1)

(* ------------------------------- systemd ------------------------------ *)

\* A new process, in whose memory both attempts are 0.  The EnvironmentFile may
\* have been edited since the last one.
Restart ==
  /\ unit = "restarting" /\ restartIn = 0
  /\ environment' \in Environments
  /\ unit' = "up" /\ main' = "init" /\ code' = 0
  /\ dropped' = {} /\ left' = "closed" /\ scanner' = "none"
  /\ loopAge' = Horizon /\ queryAge' = Horizon
  /\ UNCHANGED <<restartIn, signalled, deadline, listen, loop, ticker, request,
                 scanAge, stopAge>>

\* systemctl stop: systemd sends SIGTERM.
StopUnit ==
  /\ unit = "up" /\ main = "serve" /\ ~signalled
  /\ signalled' = TRUE /\ stopAge' = 0
  /\ UNCHANGED <<systemd, environment, main, code, deadline, listen, loop, ticker,
                 loopAge, request, queryAge, scanAge, scanner, dropped, left>>

\* systemctl stop while the unit waits to restart the exporter, or before main
\* has asked for SIGTERM, which then ends the process.
StopEarly ==
  /\ unit = "restarting" \/ main = "init"
  /\ unit' = "stopped" /\ restartIn' = 0 /\ main' = "exited"
  /\ signalled' = TRUE /\ stopAge' = 0
  /\ UNCHANGED <<environment, code, deadline, listen, loop, ticker, loopAge, request,
                 queryAge, scanAge, scanner, dropped, left>>

(* --------------------------- the collection --------------------------- *)

\* Mutant: the minimum interval is left to the ticker.
CollectAtOnce ==
  /\ loop = "enter"
  /\ loop' = "scan" /\ loopAge' = 0
  /\ scanAge' = IF config.native THEN 0 ELSE scanAge
  /\ scanner' = IF config.native THEN "collection" ELSE scanner
  /\ UNCHANGED <<systemd, process, ticker, request, queryAge, stopAge, dropped, left>>

BeginCollection ==
  /\ loop = "enter" /\ loopAge >= config.minInterval
  /\ loop' = "scan" /\ loopAge' = 0
  /\ scanAge' = IF config.native THEN 0 ELSE scanAge
  /\ scanner' = IF config.native THEN "collection" ELSE scanner
  /\ UNCHANGED <<systemd, process, ticker, request, queryAge, stopAge, dropped, left>>

\* collectOnce returns, the gate closed or the collection done.
Collected ==
  \/ loop = "enter" /\ loopAge < config.minInterval
  \/ loop = "scan"

\* Run makes its ticker the first time.
ToSelect ==
  /\ Collected
  /\ due # 0 \/ config.interval > 0
  /\ loop' = "select"
  /\ due' = IF due = 0 THEN config.interval ELSE due
  /\ UNCHANGED <<systemd, process, tick, loopAge, request, queryAge, history>>

\* time.NewTicker panics on an interval that is not positive.  Nothing recovers
\* from it, and the process ends with all its goroutines.
TickerPanics ==
  /\ Collected
  /\ due = 0 /\ config.interval <= 0
  /\ Exit(2)

TakeTick ==
  /\ loop = "select" /\ tick
  /\ loop' = "enter" /\ tick' = FALSE
  /\ UNCHANGED <<systemd, process, due, loopAge, request, queryAge, history>>

LeaveLoop ==
  /\ loop = "select" /\ signalled
  /\ loop' = "done" /\ due' = 0 /\ tick' = FALSE
  /\ UNCHANGED <<systemd, process, loopAge, request, queryAge, history>>

(* ---------------------------- the requests ---------------------------- *)

Goto(r, label) == request' = [request EXCEPT ![r] = label]

\* A connection that is kept alive brings requests after the listener has failed.
Arrive(r) ==
  /\ listen \in {"listening", "broken"} /\ request[r] = "none"
  /\ Goto(r, "handler")
  /\ UNCHANGED <<systemd, process, loop, ticker, loopAge, queryAge, history>>

\* A refresh that is turned away neither with 503 nor with 429.
PassGate(r) ==
  /\ request[r] = "handler"
  /\ config.native /\ queryAge >= config.minInterval
  /\ Goto(r, "admitted")
  /\ UNCHANGED <<systemd, process, loop, ticker, loopAge, queryAge, history>>

\* It takes the running flag.  Refreshes that have been admitted together may do
\* so one right after the other.
BeginQuery(r) ==
  /\ request[r] = "admitted" /\ Querying = {}
  /\ queryAge' = 0 /\ scanAge' = 0 /\ scanner' = "refresh"
  /\ Goto(r, "query")
  /\ UNCHANGED <<systemd, process, loop, ticker, loopAge, stopAge, dropped, left>>

QueryReturns(r) ==
  /\ request[r] = "query"
  /\ Goto(r, "reply")
  /\ UNCHANGED <<systemd, process, loop, ticker, loopAge, queryAge, history>>

\* Whatever was not let in for a query replies at once, with 409 behind the gate.
Reply(r) ==
  /\ \/ request[r] \in {"handler", "reply"}
     \/ request[r] = "admitted" /\ Querying # {}
  /\ Goto(r, "none")
  /\ UNCHANGED <<systemd, process, loop, ticker, loopAge, queryAge, history>>

(* -------------------------------- time -------------------------------- *)

\* main and systemd act on what has expired before the next tick.
Overdue ==
  \/ main = "init"
  \/ (main = "serve" /\ signalled)
  \/ (main = "shutdown" /\ deadline = 0)
  \/ (unit = "restarting" /\ restartIn = 0)

Advance ==
  /\ ~Overdue
  /\ restartIn' = Remaining(restartIn)
  /\ deadline' = Remaining(deadline)
  /\ due' = IF due = 1 THEN config.interval ELSE Remaining(due)
  /\ tick' = (tick \/ due = 1)
  /\ loopAge' = Elapsed(loopAge, Horizon)
  /\ queryAge' = Elapsed(queryAge, Horizon)
  /\ scanAge' = Elapsed(scanAge, Horizon)
  /\ stopAge' = IF signalled THEN Elapsed(stopAge, StopTimeout) ELSE stopAge
  /\ UNCHANGED <<unit, environment, main, code, signalled, listen, loop, request,
                 scanner, dropped, left>>

-----------------------------------------------------------------------------
Main == \/ ConfigurationError \/ Start \/ StartFails \/ ListenFailed
        \/ Stop \/ ShutdownDone \/ ShutdownTimesOut

Loop == BeginCollection \/ ToSelect \/ TickerPanics \/ TakeTick \/ LeaveLoop

Next ==
  \/ Main \/ Bind \/ AcceptFails
  \/ Restart \/ StopUnit \/ StopEarly
  \/ Loop
  \/ \E r \in Requests : \/ Arrive(r) \/ PassGate(r) \/ BeginQuery(r) \/ QueryReturns(r)
                       \/ Reply(r)
  \/ Advance

Spec == Init /\ [][Next]_vars

\* main and the listener's goroutine are scheduled, systemd does what the unit
\* says and time passes; nothing is assumed of LSF or of clients.
HungSpec ==
  /\ Spec
  /\ WF_vars(Main) /\ WF_vars(Bind) /\ WF_vars(Restart) /\ WF_vars(Advance)

-----------------------------------------------------------------------------
TypeOK ==
  /\ unit \in {"up", "restarting", "stopped"} /\ restartIn \in 0..RestartSec
  /\ main \in {"init", "serve", "shutdown", "exited"}
  /\ environment \in Environments
  /\ code \in {0, 1, 2} /\ signalled \in BOOLEAN /\ deadline \in 0..ShutdownTimeout
  /\ {listen, left} \subseteq {"closed", "binding", "listening", "failed", "broken"}
  /\ loop \in {"off", "enter", "scan", "select", "done"}
  /\ due \in Nat /\ tick \in BOOLEAN
  /\ loopAge \in 0..Horizon /\ queryAge \in 0..Horizon
  /\ request \in [Requests -> {"none", "handler", "admitted", "query", "reply"}]
  /\ scanAge \in 0..Horizon /\ scanner \in {"none", "collection", "refresh"}
  /\ stopAge \in 0..StopTimeout
  /\ dropped \in SUBSET Requests

\* A request that is in service is cut off only by a shutdown that has given
\* it all of its ten seconds, by a listener that has served and fails for good,
\* or by the panic of an interval that config.Load has let through; the exit
\* status tells the last from the others.
DroppedForCause ==
  dropped # {} =>
    \/ code = 1 /\ signalled /\ stopAge >= ShutdownTimeout
    \/ code = 1 /\ left = "broken"
    \/ code = 2 /\ ~Refused(environment) /\ config.interval <= 0

\* The shutdown is over before systemd would kill the process: main.go's
\* timeout against the unit's TimeoutStopSec, with scans that may hang.
StopsInTime == signalled /\ main # "exited" => stopAge < StopTimeout

\* SIGTERM stops the exporter for good, whether or not LSF ever returns.
StopIsFinal == signalled ~> [](unit = "stopped")

\* Once the file is in order and stays so, the library initialises and the listener
\* does not fail, the exporter comes to serve and goes on serving until it is
\* stopped, whatever it went through before and whether or not LSF returns.
InOrder(e) == ~Refused(e) /\ Load(e).interval > 0
Troubled   == \/ main = "exited" /\ main' = "init" /\ ~InOrder(environment')
              \/ StartFails
              \/ listen' \in {"failed", "broken"}
HealsOnceInOrder ==
  <>[][~Troubled]_vars => <>[](signalled \/ listen = "listening")

\* docs/lsf-exporter-design.md: "Only one LSF collection can run at a time."
OneScanAtATime == \A s, t \in Scans : s = t

\* README: LSF_EXPORTER_MIN_INTERVAL is the "minimum allowed interval between
\* LSF API scans".
ScansSpaced == [][Scans' \ Scans # {} => scanAge >= config.minInterval]_vars

\* What is left of it: the background collection keeps the minimum interval from
\* the last scan, unless that was a refresh of the same process, or was begun by
\* a process before it.  Then it began RestartSec ago or more: a crash loop
\* scans LSF no more often than that.
BackgroundSpaced ==
  [][config.native /\ loop # "scan" /\ loop' = "scan" =>
       \/ scanAge >= config.minInterval
       \/ scanner = "refresh"
       \/ scanner = "none" /\ scanAge >= RestartSec]_vars
=============================================================================
