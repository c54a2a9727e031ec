---------------------------- MODULE SingleFlight ----------------------------
(***************************************************************************)
(* What both collection services promise, whatever they do inside: at most *)
(* one scan of LSF is in flight, a scan that lands is the newest one ever  *)
(* begun, and the snapshot readers see only moves by a scan landing.       *)
(*                                                                         *)
(* collector.Service and collector.JobQueryService are each shown to       *)
(* implement this specification.                                           *)
(***************************************************************************)
EXTENDS Naturals

CONSTANT Callers      \* goroutines that may ask for a scan

VARIABLES
  inFlight,   \* callers whose scan is running or has not been published yet
  begun,      \* how many scans have begun
  shown       \* the number of the scan whose result readers see, 0 for none

vars == <<inFlight, begun, shown>>

Init == inFlight = {} /\ begun = 0 /\ shown = 0

Begin(c) ==
  /\ inFlight = {}
  /\ inFlight' = {c}
  /\ begun' = begun + 1
  /\ UNCHANGED shown

Land(c) ==
  /\ inFlight = {c}
  /\ inFlight' = {}
  /\ shown' = begun
  /\ UNCHANGED begun

Next == \E c \in Callers : Begin(c) \/ Land(c)

Spec == Init /\ [][Next]_vars
=============================================================================
