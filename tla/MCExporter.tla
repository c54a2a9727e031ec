----------------------------- MODULE MCExporter -----------------------------
EXTENDS Exporter, TLC

\* Five seconds to the tick: 30 s and 10 s by default, and what can go wrong.
TickTimeouts == [collect |-> 4, command |-> 2]

Default ==
  [interval |-> Unset, minInterval |-> Unset, timeout |-> Unset,
   commandTimeout |-> Unset, level |-> Unset, disableNative |-> Unset,
   allJobs |-> Unset, jobID |-> Unset]

Mistyped    == [Default EXCEPT !.level = Unparsable]
TooShort    == [Default EXCEPT !.interval = 1]
NotPositive == [Default EXCEPT !.interval = 0, !.minInterval = 0]
NoNative    == [Default EXCEPT !.disableNative = TRUE, !.minInterval = 1]
NotABoolean == [Default EXCEPT !.disableNative = Unparsable]

AnyFile    == {Default, Mistyped, TooShort, NotPositive, NoNative, NotABoolean}
UsualFile  == {Default}
=============================================================================
