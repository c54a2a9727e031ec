----------------------------- MODULE JobRecord -----------------------------
(***************************************************************************)
(* What fill_job and lsfSource.collect make of a record of the LSF library *)
(* (jobInfoEnt), with formatExecutionHosts and requestedMemoryKB.          *)
(*                                                                         *)
(* A text is a sequence of pieces: the characters some code tells apart,   *)
(* and the runs of characters between them.  NULL in C and the empty       *)
(* string in Go are both the empty text: C.GoString(NULL) is "".           *)
(***************************************************************************)
EXTENDS Integers, Sequences, FiniteSets, SequencesExt

CONSTANTS
  WordLimit,   \* the first number an int64 does not hold
  WordResults  \* what this build's conversion makes of a float64 from there on

NoText == <<>>

\* The sequences over any set.
IsSeq(s) == s \in Seq(ToSet(s))

\* status_text: the first of these bits that is set.
StatusBits == <<"PEND", "RUN", "PSUSP", "USUSP", "SSUSP", "DONE", "EXIT", "UNKWN", "WAIT">>

StatusText(bits) ==
  LET first == SelectInSeq(StatusBits, LAMBDA b : b \in bits)
  IN  IF first = 0 THEN <<"UNKNOWN">> ELSE <<StatusBits[first]>>

-----------------------------------------------------------------------------
\* The pieces around the names of hosts.
Numeral(n) == ToString(n)
Comma == ","
Times == " * "

\* What formatExecutionHosts writes for a host that has so many slots.
HostText(host, slots) ==
  IF slots > 1 THEN <<Numeral(slots), Times>> \o host ELSE host

\* Mutant: a host is counted only as long as it is repeated without a break.
FormatRuns(hosts) ==
  LET slots(h) == Cardinality({i \in DOMAIN hosts : hosts[i] = h})
      again(i) == i > 1 /\ hosts[i - 1] = hosts[i]
  IN  FlattenSeq([i \in DOMAIN hosts |->
        IF again(i) \/ hosts[i] = NoText THEN <<>>
        ELSE (IF i = 1 THEN <<>> ELSE <<Comma>>) \o HostText(hosts[i], slots(hosts[i]))])

\* join_hosts leaves out what is NULL and formatExecutionHosts what is blank;
\* each host is written once, where it comes first, with its number of slots.
FormatExecutionHosts(hosts) ==
  LET slots(h)  == Cardinality({i \in DOMAIN hosts : hosts[i] = h})
      before(i) == {hosts[k] : k \in 1..i - 1} \ {NoText}
  IN  FlattenSeq([i \in DOMAIN hosts |->
        IF hosts[i] \in before(i) \cup {NoText} THEN <<>>
        ELSE (IF before(i) = {} THEN <<>> ELSE <<Comma>>) \o HostText(hosts[i], slots(hosts[i]))])

\* requestedMemoryKB.  A request is the sequence of its rusage sections, a
\* section the sequence of its "mem=" values in tenths of a megabyte.  The
\* pattern takes the first section that has one, and the last value in it; a
\* float64 beyond int64 becomes what the processor makes of it.
RequestedMemoryKB(request) ==
  LET first == SelectInSeq(request, LAMBDA s : s # <<>>)
      kb    == (Last(request[first]) * 1024) \div 10
  IN  CASE first = 0                     -> {0}
        [] first # 0 /\ kb < WordLimit   -> {kb}
        [] first # 0 /\ kb >= WordLimit  -> WordResults

\* The Job of a record: entry is what was submitted, state what LSF knows of
\* the job now, kb the requested memory.  The texts only the JSON views show
\* are left out; a text dupstr has no memory for is an empty one.
JobOf(id, entry, state, kb) ==
  [id             |-> id,
   status         |-> StatusText(state.bits),
   user           |-> entry.user,
   queue          |-> entry.queue,
   name           |-> entry.name,
   project        |-> entry.project,
   application    |-> entry.application,
   execution_host |-> FormatExecutionHosts(state.hosts),
   start          |-> state.start,
   end            |-> state.end,
   exit           |-> state.exit,
   requestedCPU   |-> entry.slots,
   requestedMemKB |-> kb,
   cpuTime        |-> state.cpu,
   memoryKB       |-> state.maxMem * 1024,
   swapKB         |-> state.swap,
   gpuRequested   |-> 0,
   gpuUsed        |-> 0]
=============================================================================
