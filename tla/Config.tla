------------------------------- MODULE Config -------------------------------
(***************************************************************************)
(* config.Load as a function of the process's environment.  A variable is  *)
(* Unset (absent or blank), Unparsable, or has the value it parses to;     *)
(* durations are integers, and the defaults are parameters so that an      *)
(* instance can choose the unit.  Names and texts that are passed on as    *)
(* they are, the listen address among them, are left out.                  *)
(***************************************************************************)
EXTENDS Integers

CONSTANTS
  Unset, Unparsable,       \* what else a variable can be
  DefaultInterval,         \* 30 s
  DefaultMinInterval,      \* 10 s
  DefaultTimeout           \* 20 s for a collection, 10 s for the command

ASSUME DefaultsAssumption ==
  /\ DefaultInterval \in Int /\ DefaultMinInterval \in Int
  /\ DefaultMinInterval <= DefaultInterval
  /\ DefaultTimeout \in [collect : Int, command : Int]

Raw(T) == T \cup {Unset, Unparsable}

Levels == {"debug", "info", "warn", "error"}

Environment ==
  [interval : Raw(Int), minInterval : Raw(Int), timeout : Raw(Int),
   commandTimeout : Raw(Int), level : Raw(Levels),
   disableNative : Raw(BOOLEAN), allJobs : Raw(BOOLEAN), jobID : Raw(Int)]

\* env and durationEnv, where an unparsable value does not come this far.
OrDefault(raw, default) == IF raw = Unset THEN default ELSE raw

\* boolEnv and int64Env: an unparsable value is the same as none.
OrElse(raw, default) == IF raw \in {Unset, Unparsable} THEN default ELSE raw

\* Load returns an error.
Refused(e) ==
  \/ Unparsable \in {e.interval, e.minInterval, e.timeout, e.commandTimeout}
  \/ e.level = Unparsable
  \/ OrDefault(e.interval, DefaultInterval)
       < OrDefault(e.minInterval, DefaultMinInterval)

\* The configuration it returns otherwise.
Load(e) ==
  [interval       |-> OrDefault(e.interval, DefaultInterval),
   minInterval    |-> OrDefault(e.minInterval, DefaultMinInterval),
   timeout        |-> OrDefault(e.timeout, DefaultTimeout.collect),
   commandTimeout |-> OrDefault(e.commandTimeout, DefaultTimeout.command),
   level          |-> OrDefault(e.level, "info"),
   native         |-> ~OrElse(e.disableNative, FALSE),
   allJobs        |-> OrElse(e.allJobs, FALSE),
   jobID          |-> OrElse(e.jobID, 0)]
=============================================================================
