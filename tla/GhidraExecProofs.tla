-------------------------- MODULE GhidraExecProofs --------------------------
(***************************************************************************)
(* For any number of instances and timestamps: type correctness, that no   *)
(* two working instances share a pipe, and that a project is returned only *)
(* after a complete output of a successful Ghidra process.                 *)
(***************************************************************************)
EXTENDS GhidraExec, TLAPS

\* What the output and the Ghidra process can be while the main thread is at
\* a given place: this makes OkMeansGhidraSucceeded inductive.
OutputKnown ==
  \A i \in Instances :
    /\ ghidra[i] \in {"written", "succeeded"} => output[i] \in {"malformed", "complete"}
    /\ main[i] \in {"joining", "removing"} =>
         output[i] = "complete" /\ ghidra[i] \in {"written", "succeeded", "failed"}
    /\ waiter[i] = "returned" => ghidra[i] = "succeeded"
    /\ main[i] = "removing" => waiter[i] = "returned"
    /\ main[i] = "parsing" => ghidra[i] \in {"written", "succeeded", "failed"}
    /\ main[i] = "reading" => ghidra[i] \in {"writing", "written", "succeeded", "failed"}
    /\ main[i] = "start" => waiter[i] = "none"
    /\ waiter[i] \in {"none", "starting"} => ghidra[i] = "none"
    /\ status[i] = "ok" => main[i] = "end"

Inv == TypeOK /\ PipesNotShared /\ OutputKnown /\ OkMeansGhidraSucceeded

LEMMA InitInv == Init => Inv
  BY NoPathAssumption
  DEF Init, Inv, TypeOK, PipesNotShared, UsesPipe, OutputKnown, OkMeansGhidraSucceeded,
      Statuses, MainStates, WaiterStates, GhidraStates, Outputs

\* The steps of the main thread, one by one.
LEMMA MainStepInv ==
  ASSUME Inv, NEW i \in Instances, MainNext(i)
  PROVE  Inv'
<1> USE DEF Inv, TypeOK, PipesNotShared, UsesPipe, OutputKnown, OkMeansGhidraSucceeded,
        Statuses, MainStates, WaiterStates, GhidraStates, Outputs,
        MainStep, EndInstance, settings
<1>1. CASE CommandError(i)
  BY <1>1 DEF CommandError
<1>2. CASE \E t \in Timestamps : CreateFifo(i, t)
  BY <1>2 DEF CreateFifo
<1>3. CASE \E t \in Timestamps : CreateFifoError(i, t)
  BY <1>3 DEF CreateFifoError
<1>4. CASE Connect(i)
  BY <1>4 DEF Connect
<1>5. CASE ReadToEnd(i)
  BY <1>5 DEF ReadToEnd
<1>6. CASE Parse(i)
  BY <1>6 DEF Parse
<1>7. CASE ParsePanics(i)
  BY <1>7 DEF ParsePanics
<1>8. CASE Join(i)
  BY <1>8 DEF Join
<1>9. CASE JoinPanics(i)
  BY <1>9 DEF JoinPanics
<1>10. CASE RemoveFifo(i)
  BY <1>10 DEF RemoveFifo
<1> QED
  BY <1>1, <1>2, <1>3, <1>4, <1>5, <1>6, <1>7, <1>8, <1>9, <1>10 DEF MainNext

LEMMA WaiterStepInv ==
  ASSUME Inv, NEW i \in Instances, WaiterNext(i)
  PROVE  Inv'
  BY DEF Inv, TypeOK, PipesNotShared, UsesPipe, OutputKnown, OkMeansGhidraSucceeded,
         Statuses, MainStates, WaiterStates, GhidraStates, Outputs, EndInstance, settings,
         WaiterNext, StartGhidra, GhidraNotExecutable, GhidraSucceeded, GhidraFailed,
         WaiterPanics, SeenAsFailed

LEMMA GhidraStepInv ==
  ASSUME Inv, NEW i \in Instances, GhidraNext(i)
  PROVE  Inv'
  BY DEF Inv, TypeOK, PipesNotShared, UsesPipe, OutputKnown, OkMeansGhidraSucceeded,
         Statuses, MainStates, WaiterStates, GhidraStates, Outputs, settings, GhidraStep,
         GhidraNext, OpenWriter, WriteJson, GhidraFailsEarly, GhidraDiesWriting,
         ReportSuccess, GhidraFailsLate

\* Inv is an inductive invariant of the instances and their Ghidra processes.
THEOREM Invariance == Spec => []Inv
<1>1. Inv /\ [Next]_vars => Inv'
  <2> SUFFICES ASSUME Inv, [Next]_vars PROVE Inv'
    OBVIOUS
  <2>1. CASE Next
    BY <2>1, MainStepInv, WaiterStepInv, GhidraStepInv DEF Next
  <2>2. CASE UNCHANGED vars
    BY <2>2 DEF vars, settings, Inv, TypeOK, PipesNotShared, UsesPipe, OutputKnown,
      OkMeansGhidraSucceeded
  <2> QED BY <2>1, <2>2
<1> QED BY <1>1, InitInv, PTL DEF Spec

\* Every variable of every instance stays in its type.
THEOREM TypeCorrect == Spec => []TypeOK
  BY Invariance, PTL DEF Inv

\* Instances working at the same time never share a pipe, and the pipe of a
\* working instance is not removed: mkfifo is the only arbiter.
THEOREM PipesAreNotShared == Spec => []PipesNotShared
  BY Invariance, PTL DEF Inv

\* execute_ghidra returns a project only if Ghidra wrote all of it and ended
\* successfully, whatever the interleaving of reading, parsing and waiting.
THEOREM SuccessIsReal == Spec => []OkMeansGhidraSucceeded
  BY Invariance, PTL DEF Inv
=============================================================================
