------------------------------ MODULE Sources ------------------------------
(***************************************************************************)
(* What one collection runs through: compositeSource asks the sources main *)
(* has given it one after the other and merges what they return, and       *)
(* externalSource runs a command under a timeout and decodes its output.   *)
(*                                                                         *)
(* The processes of the command are external: a shell, and what the shell  *)
(* has started and has handed its output to.                               *)
(***************************************************************************)
EXTENDS Naturals, Sequences

VARIABLES
  sources,   \* what main passes to NewCompositeSource
  pos,       \* the source Collect is at; 0 between two collections
  out,       \* its local out
  errs,      \* its local errs, as the sources that failed
  run,       \* externalSource.Collect: "idle", "running" or "waited"
  shell,     \* the shell of the command
  helper,    \* a process of the command holds its output open besides the shell
  output,    \* what the command has written so far
  data,      \* what the source at pos returned, and whether it failed
  \* History: not in the code, read by the properties only.
  returned   \* what each source returned in this collection

command == <<shell, helper, output>>
vars    == <<sources, pos, out, errs, run, command, data, returned>>

-----------------------------------------------------------------------------
Names == {"native", "stub", "external", "noop"}

\* main: NewLSFSource unless it is disabled, which in a build without the lsf
\* tag is a stub; the external source if it has a command; and when there is
\* neither, an external source that does nothing.
SourceList(tagged, disabled, hasCommand) ==
  LET library == IF tagged THEN "native" ELSE "stub"
  IN  CASE ~disabled /\ hasCommand  -> <<library, "external">>
        [] ~disabled /\ ~hasCommand -> <<library>>
        [] disabled /\ hasCommand   -> <<"external">>
        [] disabled /\ ~hasCommand  -> <<"noop">>

Configurations ==
  {SourceList(tagged, disabled, hasCommand) :
     tagged \in BOOLEAN, disabled \in BOOLEAN, hasCommand \in BOOLEAN}

\* A Data, reduced to the sources its parts come from; resources stands for
\* queues, hosts, licenses and custom resources.
Data    == [jobs : SUBSET Names, resources : SUBSET Names, cluster : Names \cup {"none"}]
NoData  == [jobs |-> {}, resources |-> {}, cluster |-> "none"]
Outcome == [ready : BOOLEAN, failed : BOOLEAN, data : Data]
Pending == [ready |-> FALSE, failed |-> FALSE, data |-> NoData]
Failed  == [ready |-> TRUE, failed |-> TRUE, data |-> NoData]

\* What a source can find; the native one knows jobs only.
Found(name) ==
  {[jobs |-> j, resources |-> q, cluster |-> c] :
     j \in {{}, {name}},
     q \in IF name = "external" THEN {{}, {name}} ELSE {{}},
     c \in IF name = "external" THEN {"none", name} ELSE {"none"}}

\* Mutant: an absent cluster is merged as an empty one.
MergeAbsentCluster(dst, src) ==
  [jobs      |-> dst.jobs \cup src.jobs,
   resources |-> dst.resources \cup src.resources,
   cluster   |-> IF src.cluster = "none" THEN "empty" ELSE src.cluster]

\* mergeData.
Merge(dst, src) ==
  [jobs      |-> dst.jobs \cup src.jobs,
   resources |-> dst.resources \cup src.resources,
   cluster   |-> IF src.cluster = "none" THEN dst.cluster ELSE src.cluster]

At(name) == pos \in DOMAIN sources /\ sources[pos] = name /\ ~data.ready

-----------------------------------------------------------------------------
Init ==
  /\ sources \in Configurations
  /\ pos = 0 /\ out = NoData /\ errs = {}
  /\ run = "idle" /\ shell = "none" /\ helper = FALSE /\ output = "none"
  /\ data = Pending
  /\ returned = [s \in Names |-> Pending]

(* ------------------------- compositeSource.Collect -------------------- *)

Begin ==
  /\ pos = 0
  /\ pos' = 1 /\ out' = NoData /\ errs' = {}
  /\ returned' = [s \in Names |-> Pending]
  /\ UNCHANGED <<sources, run, command, data>>

\* Mutant: the first error ends the collection.
NextSourceUnlessFailed ==
  /\ data.ready
  /\ errs' = IF data.failed THEN errs \cup {sources[pos]} ELSE errs
  /\ out' = Merge(out, data.data)
  /\ returned' = [returned EXCEPT ![sources[pos]] = data]
  /\ data' = Pending
  /\ pos' = IF data.failed THEN Len(sources) + 1 ELSE pos + 1
  /\ UNCHANGED <<sources, run, command>>

\* The source at pos has returned: its error is kept, its data merged.
NextSource ==
  /\ data.ready
  /\ errs' = IF data.failed THEN errs \cup {sources[pos]} ELSE errs
  /\ out' = Merge(out, data.data)
  /\ returned' = [returned EXCEPT ![sources[pos]] = data]
  /\ data' = Pending
  /\ pos' = pos + 1
  /\ UNCHANGED <<sources, run, command>>

\* Collect returns out and the joined errors.
Finish ==
  /\ pos = Len(sources) + 1
  /\ pos' = 0
  /\ UNCHANGED <<sources, out, errs, run, command, data, returned>>

Return(outcome) == data' = outcome /\ UNCHANGED <<sources, pos, out, errs, returned>>

\* stubSource.Collect: an error, always.
StubReturns ==
  /\ At("stub")
  /\ Return(Failed)
  /\ UNCHANGED <<run, command>>

\* lsfSource.Collect: the jobs, or an error and no data.
NativeReturns ==
  /\ At("native")
  /\ \E failed \in BOOLEAN, d \in Found("native") :
       Return(IF failed THEN Failed ELSE [ready |-> TRUE, failed |-> FALSE, data |-> d])
  /\ UNCHANGED <<run, command>>

(* ------------------------ externalSource.Collect ---------------------- *)

\* The command is empty.
NoCommand ==
  /\ At("noop")
  /\ Return([ready |-> TRUE, failed |-> FALSE, data |-> NoData])
  /\ UNCHANGED <<run, command>>

StartCommand ==
  /\ At("external") /\ run = "idle"
  /\ run' = "running" /\ shell' = "running" /\ output' = "none"
  /\ UNCHANGED <<sources, pos, out, errs, helper, data, returned>>

\* The shell cannot be started.
StartFails ==
  /\ At("external") /\ run = "idle"
  /\ Return(Failed)
  /\ UNCHANGED <<run, command>>

\* Mutant: exec.Command in place of exec.CommandContext.
ExpireKillsNothing ==
  /\ run = "running" /\ shell = "exited"
  /\ shell' = "killed"
  /\ UNCHANGED <<sources, pos, out, errs, run, helper, output, data, returned>>

\* The context expires: the shell is killed, and only the shell.
Expire ==
  /\ run = "running" /\ shell = "running"
  /\ shell' = "killed"
  /\ UNCHANGED <<sources, pos, out, errs, run, helper, output, data, returned>>

\* Mutant: cmd.Start and cmd.Process.Wait in place of cmd.Run.
WaitForShell ==
  /\ run = "running" /\ shell # "running"
  /\ run' = "waited"
  /\ UNCHANGED <<sources, pos, out, errs, command, data, returned>>

\* cmd.Run has the shell's exit status, but it also waits until nobody can
\* write to the pipes behind cmd.Stdout and cmd.Stderr any more.
WaitReturns ==
  /\ run = "running" /\ shell # "running" /\ ~helper
  /\ run' = "waited"
  /\ UNCHANGED <<sources, pos, out, errs, command, data, returned>>

\* cmd.Run's error, the decoder's error, or the data.
Decode ==
  /\ run = "waited"
  /\ run' = "idle" /\ shell' = "none"
  /\ IF shell = "exited" /\ output = "valid"
     THEN \E d \in Found("external") :
            Return([ready |-> TRUE, failed |-> FALSE, data |-> d])
     ELSE Return(Failed)
  /\ UNCHANGED <<helper, output>>

(* ----------------------- the command's processes ---------------------- *)

\* The shell starts a process that inherits its output.
Spawn ==
  /\ shell = "running" /\ ~helper
  /\ helper' = TRUE
  /\ UNCHANGED <<sources, pos, out, errs, run, shell, output, data, returned>>

HelperExits ==
  /\ helper
  /\ helper' = FALSE
  /\ UNCHANGED <<sources, pos, out, errs, run, shell, output, data, returned>>

\* The first JSON value is complete, with known fields only, or it is not.
Write ==
  /\ shell = "running" \/ helper
  /\ output' \in {"broken", "valid"}
  /\ UNCHANGED <<sources, pos, out, errs, run, shell, helper, data, returned>>

\* The shell exits with 0, or with something else.
ShellExits ==
  /\ shell = "running"
  /\ shell' \in {"exited", "failed"}
  /\ UNCHANGED <<sources, pos, out, errs, run, helper, output, data, returned>>

-----------------------------------------------------------------------------
Exporter == \/ Begin \/ NextSource \/ Finish \/ NoCommand \/ StubReturns
            \/ StartCommand \/ WaitReturns \/ Decode

Next ==
  \/ Exporter \/ NativeReturns \/ StartFails \/ Expire
  \/ Spawn \/ HelperExits \/ Write \/ ShellExits

Spec == Init /\ [][Next]_vars

\* The exporter runs, its timer expires and LSF returns; nothing is assumed
\* of the command.
FairSpec == Spec /\ WF_vars(Exporter) /\ WF_vars(Expire) /\ WF_vars(NativeReturns)

-----------------------------------------------------------------------------
TypeOK ==
  /\ sources \in Configurations
  /\ pos \in 0..Len(sources) + 1
  /\ out \in Data /\ errs \in SUBSET Names
  /\ run \in {"idle", "running", "waited"}
  /\ shell \in {"none", "running", "exited", "failed", "killed"}
  /\ helper \in BOOLEAN
  /\ output \in {"none", "broken", "valid"}
  /\ data \in Outcome /\ returned \in [Names -> Outcome]

Collected == pos = Len(sources) + 1

\* A source that fails costs its own data and no other's: when the collection
\* ends, every source has been asked, the collection has failed exactly if
\* one of them did, and it carries all that the others returned.
OthersSurvive ==
  Collected =>
    LET Asked == {sources[i] : i \in DOMAIN sources}
    IN  /\ \A s \in Asked : returned[s].ready
        /\ errs = {s \in Asked : returned[s].failed}
        /\ out.jobs = UNION {returned[s].data.jobs : s \in Asked}
        /\ out.resources = UNION {returned[s].data.resources : s \in Asked}
        /\ out.cluster = "none" => \A s \in Asked : returned[s].data.cluster = "none"

\* What the decoder reads is what the command has left: between the return of
\* cmd.Run and the decoder's verdict nothing is written, whoever was killed, and
\* no process is left to write into the buffer of a later command.
OutputIsFinal == [][run = "waited" => run' = "idle" /\ output' = output /\ ~helper']_vars

\* A collection ends, unless a process of the command outlives the timeout
\* with the command's output in its hands.
TimeoutEndsCommand == pos # 0 ~> pos = 0 \/ helper

\* README: LSF_EXPORTER_EXTERNAL_RESOURCE_TIMEOUT is the "timeout for the
\* external resource command".
TimeoutBoundsCollection == pos # 0 ~> pos = 0
=============================================================================
