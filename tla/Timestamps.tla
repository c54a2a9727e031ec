----------------------------- MODULE Timestamps -----------------------------
(***************************************************************************)
(* Wall-clock instants are integers counted in ticks, SecondTicks of them  *)
(* to the second.  Both services keep the time of their last attempt in an *)
(* atomic.Int64 of whole Unix seconds (now.Unix()) and turn it back with   *)
(* time.Unix(s, 0): what survives is the instant cut to its second.        *)
(***************************************************************************)
EXTENDS Integers

CONSTANT SecondTicks    \* ticks in one second

ASSUME SecondTicksAssumption == SecondTicks \in Nat \ {0}

\* time.Unix(t.Unix(), 0): the start of the second t lies in, in ticks.
Second(t) == t - (t % SecondTicks)
=============================================================================
