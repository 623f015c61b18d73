----------------------------- MODULE GhidraExec -----------------------------
(***************************************************************************)
(* utils/ghidra.rs: several instances of the cwe_checker, each of which    *)
(* runs Ghidra as a child process and reads its output through a named     *)
(* pipe in the temporary folder all instances share.                       *)
(*                                                                         *)
(* An instance has a main thread, a thread that waits for the Ghidra       *)
(* process, and the Ghidra process itself with the PcodeExtractor script.  *)
(* Both threads end when one of them ends the instance; the Ghidra process *)
(* goes on.                                                                *)
(***************************************************************************)
EXTENDS Naturals, FiniteSets

CONSTANTS
  Instances,     \* the running cwe_checkers
  Timestamps,    \* the millisecond timestamps pipes are named after
  NoPath

ASSUME NoPathAssumption == NoPath \notin Timestamps

VARIABLES
  status,    \* of the instance: running, or how it ended
  main,      \* where the main thread is
  waiter,    \* the thread that runs the Ghidra command
  ghidra,    \* the Ghidra process
  output,    \* what Ghidra wrote into the pipe so far
  path,      \* the name of the instance's pipe
  fifos,     \* the pipes that exist in the temporary folder
  debugRaw,  \* the instances that print the raw P-Code and exit
  verbose,   \* the instances started with --verbose
  utf8       \* the instances whose Ghidra only prints valid UTF-8

settings == <<debugRaw, verbose, utf8>>
vars == <<status, main, waiter, ghidra, output, path, fifos, settings>>

Statuses == {"running", "ok", "error", "panicked", "aborted", "debugged"}
MainStates == {"start", "opening", "reading", "parsing", "joining", "removing", "end"}
WaiterStates == {"none", "starting", "waiting", "returned", "panicked"}
GhidraStates == {"none", "analysing", "opening", "writing", "written", "succeeded", "failed"}
Outputs == {"none", "partial", "malformed", "complete"}

TypeOK ==
  /\ status \in [Instances -> Statuses]
  /\ main \in [Instances -> MainStates]
  /\ waiter \in [Instances -> WaiterStates]
  /\ ghidra \in [Instances -> GhidraStates]
  /\ output \in [Instances -> Outputs]
  /\ path \in [Instances -> Timestamps \cup {NoPath}]
  /\ fifos \subseteq Timestamps
  /\ debugRaw \subseteq Instances
  /\ verbose \subseteq Instances
  /\ utf8 \subseteq Instances

Init ==
  /\ status = [i \in Instances |-> "running"]
  /\ main = [i \in Instances |-> "start"]
  /\ waiter = [i \in Instances |-> "none"]
  /\ ghidra = [i \in Instances |-> "none"]
  /\ output = [i \in Instances |-> "none"]
  /\ path = [i \in Instances |-> NoPath]
  /\ fifos = {}
  /\ debugRaw \in SUBSET Instances
  /\ verbose \in SUBSET Instances
  /\ utf8 \in SUBSET Instances

\* A step of the main thread of a running instance.
MainStep(i, from, to) ==
  /\ status[i] = "running"
  /\ main[i] = from
  /\ main' = [main EXCEPT ![i] = to]

EndInstance(i, how) == status' = [status EXCEPT ![i] = how]

-----------------------------------------------------------------------------
(* The main thread.                                                        *)

\* get_tmp_folder or generate_ghidra_call_command returns an error.
CommandError(i) ==
  /\ MainStep(i, "start", "end")
  /\ EndInstance(i, "error")
  /\ UNCHANGED <<waiter, ghidra, output, path, fifos, settings>>

\* Mutant: an existing pipe is taken over.
CreateFifoOrReuse(i, t) ==
  /\ MainStep(i, "start", "opening")
  /\ path' = [path EXCEPT ![i] = t]
  /\ fifos' = fifos \cup {t}
  /\ waiter' = [waiter EXCEPT ![i] = "starting"]
  /\ UNCHANGED <<status, ghidra, output, settings>>

\* mkfifo fails if the path exists; then the thread is spawned.
CreateFifo(i, t) ==
  /\ t \notin fifos
  /\ MainStep(i, "start", "opening")
  /\ path' = [path EXCEPT ![i] = t]
  /\ fifos' = fifos \cup {t}
  /\ waiter' = [waiter EXCEPT ![i] = "starting"]
  /\ UNCHANGED <<status, ghidra, output, settings>>

CreateFifoError(i, t) ==
  /\ t \in fifos
  /\ MainStep(i, "start", "end")
  /\ path' = [path EXCEPT ![i] = t]
  /\ EndInstance(i, "error")
  /\ UNCHANGED <<waiter, ghidra, output, fifos, settings>>

\* Mutant: the pipe is opened with O_NONBLOCK, which does not wait for a writer.
ConnectNonBlocking(i) ==
  /\ MainStep(i, "opening", "reading")
  /\ UNCHANGED <<status, waiter, ghidra, output, path, fifos, settings>>

\* Opening the pipe blocks both sides until the other one opens it.
Connect(i) ==
  /\ MainStep(i, "opening", "reading")
  /\ ghidra[i] = "opening"
  /\ ghidra' = [ghidra EXCEPT ![i] = "writing"]
  /\ UNCHANGED <<status, waiter, output, path, fifos, settings>>

\* read_to_string returns when the writing side is closed.  Printing the raw
\* output is a cancellation point of the debug settings.
ReadToEnd(i) ==
  /\ ghidra[i] # "writing"
  /\ IF i \in debugRaw
     THEN MainStep(i, "reading", "end") /\ EndInstance(i, "debugged")
     ELSE MainStep(i, "reading", "parsing") /\ UNCHANGED status
  /\ UNCHANGED <<waiter, ghidra, output, path, fifos, settings>>

Parse(i) ==
  /\ output[i] = "complete"
  /\ MainStep(i, "parsing", "joining")
  /\ UNCHANGED <<status, waiter, ghidra, output, path, fifos, settings>>

\* expect("Failed to parse plugin output."), or the output is not valid UTF-8.
ParsePanics(i) ==
  /\ output[i] # "complete"
  /\ MainStep(i, "parsing", "end")
  /\ EndInstance(i, "panicked")
  /\ UNCHANGED <<waiter, ghidra, output, path, fifos, settings>>

\* Mutant: the result is returned without waiting for the thread.
JoinWithoutWaiting(i) ==
  /\ MainStep(i, "joining", "removing")
  /\ UNCHANGED <<status, waiter, ghidra, output, path, fifos, settings>>

Join(i) ==
  /\ waiter[i] = "returned"
  /\ MainStep(i, "joining", "removing")
  /\ UNCHANGED <<status, waiter, ghidra, output, path, fifos, settings>>

\* expect("The Ghidra thread to be joined has panicked!")
JoinPanics(i) ==
  /\ waiter[i] = "panicked"
  /\ MainStep(i, "joining", "end")
  /\ EndInstance(i, "panicked")
  /\ UNCHANGED <<waiter, ghidra, output, path, fifos, settings>>

RemoveFifo(i) ==
  /\ MainStep(i, "removing", "end")
  /\ fifos' = fifos \ {path[i]}
  /\ EndInstance(i, "ok")
  /\ UNCHANGED <<waiter, ghidra, output, path, settings>>

-----------------------------------------------------------------------------
(* The waiting thread.                                                     *)

StartGhidra(i) ==
  /\ status[i] = "running"
  /\ waiter[i] = "starting"
  /\ waiter' = [waiter EXCEPT ![i] = "waiting"]
  /\ ghidra' = [ghidra EXCEPT ![i] = "analysing"]
  /\ UNCHANGED <<status, main, output, path, fifos, settings>>

GhidraNotExecutable(i) ==
  /\ status[i] = "running"
  /\ waiter[i] = "starting"
  /\ EndInstance(i, "aborted")
  /\ UNCHANGED <<main, waiter, ghidra, output, path, fifos, settings>>

GhidraSucceeded(i) ==
  /\ status[i] = "running"
  /\ waiter[i] = "waiting"
  /\ ghidra[i] = "succeeded"
  /\ waiter' = [waiter EXCEPT ![i] = "returned"]
  /\ UNCHANGED <<status, main, ghidra, output, path, fifos, settings>>

\* The process failed, or its success message is not found because stdout is
\* not valid UTF-8.
SeenAsFailed(i) ==
  /\ status[i] = "running"
  /\ waiter[i] = "waiting"
  /\ ghidra[i] = "failed" \/ (ghidra[i] = "succeeded" /\ i \notin utf8)

\* process::exit(101), wherever the main thread is.
GhidraFailed(i) ==
  /\ SeenAsFailed(i)
  /\ EndInstance(i, "aborted")
  /\ UNCHANGED <<main, waiter, ghidra, output, path, fifos, settings>>

\* With --verbose the thread converts the output to a string and unwraps.
WaiterPanics(i) ==
  /\ SeenAsFailed(i)
  /\ i \in verbose \ utf8
  /\ waiter' = [waiter EXCEPT ![i] = "panicked"]
  /\ UNCHANGED <<status, main, ghidra, output, path, fifos, settings>>

-----------------------------------------------------------------------------
(* The Ghidra process with the PcodeExtractor script.                      *)

GhidraStep(i, from, to) ==
  /\ ghidra[i] = from
  /\ ghidra' = [ghidra EXCEPT ![i] = to]
  /\ UNCHANGED <<status, main, waiter, path, fifos, settings>>

OpenWriter(i) == GhidraStep(i, "analysing", "opening") /\ UNCHANGED output

\* toJson, flush, close; the reader may not understand what was written.
WriteJson(i, what) ==
  /\ GhidraStep(i, "writing", "written")
  /\ output' = [output EXCEPT ![i] = what]

\* Import, analysis or the script failed before the pipe was opened.
GhidraFailsEarly(i) == GhidraStep(i, "analysing", "failed") /\ UNCHANGED output

GhidraDiesWriting(i) ==
  /\ GhidraStep(i, "writing", "failed")
  /\ output' = [output EXCEPT ![i] = "partial"]

\* The success message is printed last.
ReportSuccess(i) == GhidraStep(i, "written", "succeeded") /\ UNCHANGED output

GhidraFailsLate(i) == GhidraStep(i, "written", "failed") /\ UNCHANGED output

-----------------------------------------------------------------------------
MainNext(i) ==
  \/ CommandError(i)
  \/ \E t \in Timestamps : CreateFifo(i, t) \/ CreateFifoError(i, t)
  \/ Connect(i) \/ ReadToEnd(i)
  \/ Parse(i) \/ ParsePanics(i) \/ Join(i) \/ JoinPanics(i) \/ RemoveFifo(i)

WaiterNext(i) ==
  \/ StartGhidra(i) \/ GhidraNotExecutable(i)
  \/ GhidraSucceeded(i) \/ GhidraFailed(i) \/ WaiterPanics(i)

GhidraNext(i) ==
  \/ OpenWriter(i) \/ GhidraFailsEarly(i) \/ GhidraDiesWriting(i)
  \/ \E what \in {"malformed", "complete"} : WriteJson(i, what)
  \/ ReportSuccess(i) \/ GhidraFailsLate(i)

Next == \E i \in Instances : MainNext(i) \/ WaiterNext(i) \/ GhidraNext(i)

Spec == Init /\ [][Next]_vars

\* The threads are scheduled and Ghidra makes progress: its analysis has a
\* timeout of one hour and the script does a bounded amount of work.
FairSpec ==
  /\ Spec
  /\ \A i \in Instances :
       WF_vars(MainNext(i)) /\ WF_vars(WaiterNext(i)) /\ WF_vars(GhidraNext(i))

-----------------------------------------------------------------------------
(* Properties.                                                             *)

\* "This function will abort the program if the Ghidra execution does not
\* succeed": a project is returned only if Ghidra wrote all of it and then
\* ended successfully, although it is parsed before Ghidra has ended.
OkMeansGhidraSucceeded ==
  \A i \in Instances :
    status[i] = "ok" => output[i] = "complete" /\ ghidra[i] = "succeeded"

UsesPipe(i) == status[i] = "running" /\ main[i] \in MainStates \ {"start", "end"}

\* Two instances that work at the same time, even with the same timestamp, use
\* different pipes, and nobody removes a pipe that is in use.
PipesNotShared ==
  /\ \A i, j \in Instances : i # j /\ UsesPipe(i) /\ UsesPipe(j) => path[i] # path[j]
  /\ \A i \in Instances : UsesPipe(i) => path[i] \in fifos

\* Neither the open() nor the join() of the main thread blocks for ever: an
\* instance ends whatever happens to Ghidra, if the waiting thread can print
\* its error report.
InstanceEnds == \A i \in Instances : i \notin verbose \ utf8 ~> status[i] # "running"

\* No Ghidra process is left behind waiting for a reader of its pipe.
NoGhidraLeftBlocked ==
  \A i \in Instances : ghidra[i] = "opening" ~> ghidra[i] # "opening"

\* Nobody waits for ever: every instance ends (InstanceEnds) and no Ghidra
\* process is left behind at its pipe (NoGhidraLeftBlocked).
NobodyWaitsForever == InstanceEnds /\ NoGhidraLeftBlocked
=============================================================================
