------------------------ MODULE ProcessRuntimeProofs ------------------------
(***************************************************************************)
(* Proofs about ProcessRuntime, for any input, any output and any size of  *)
(* the pipes between parent and child.                                     *)
(***************************************************************************)
EXTENDS ProcessRuntime, TLAPS

\* The two flags, for each step of start and stop.
FlagsInv ==
    /\ IF owner = "live" THEN live = TRUE ELSE live = FALSE
    /\ IF owner = "stopped" THEN stopped = TRUE ELSE stopped = FALSE

\* How far a call has come says when it began, and whether there is a child.
CallInv ==
    /\ result # "none" => pc = "returned"
    /\ pc = "idle" => began # "stopped"
    /\ pc \in {"idle", "refused", "spawn"} => child = "none"
    /\ pc \in {"spawn", "write", "collect", "wait"} \/ child # "none" => began = "live"
    /\ began = "stopped" => owner = "stopped" /\ result \in {"none", "Stopped"}
    /\ result = "Stopped" => owner = "stopped"
    /\ pc = "refused" \/ result \in {"NotStarted", "Stopped"} => began # "live"

\* Every byte the child wrote is captured or in a pipe.
OutputInv ==
    /\ \A s \in Outputs : captured[s] + pipe[s] = produced[s]
    /\ child \in Outputs => produced[child] < MaxOutput

\* What has been done when a call has come to a point.
ProgressInv ==
    /\ pc \in {"idle", "refused", "spawn"} => written = 0
    /\ pc = "write" => stdin # NoStdin /\ written <= stdin
    /\ pc \in {"collect", "wait"} /\ stdin # NoStdin => written = stdin
    /\ pc = "wait" => parentEnd = {} /\ \A s \in Outputs : pipe[s] = 0

Inv == TypeOK /\ FlagsInv /\ CallInv /\ OutputInv /\ ProgressInv /\ OkIsComplete
-----------------------------------------------------------------------------
\* No call was made, and there is no child.
LEMMA InitInv == Init => Inv
<1> SUFFICES ASSUME Init PROVE Inv
  OBVIOUS
<1>1. /\ captured \in [Outputs -> 0..MaxOutput] /\ produced \in [Outputs -> 0..MaxOutput]
      /\ pipe \in [Pipes -> 0..Capacity]
  BY BoundsAssumption DEF Init
<1>2. stdin \in 0..NoStdin /\ written \in 0..MaxInput
  BY BoundsAssumption DEF Init
<1>3. TypeOK
  BY <1>1, <1>2 DEF Init, TypeOK
<1>4. FlagsInv /\ CallInv /\ OkIsComplete
  BY DEF Init, FlagsInv, CallInv, OkIsComplete
<1>5. OutputInv
  BY BoundsAssumption DEF Init, OutputInv, Outputs, Pipes
<1>6. ProgressInv
  BY DEF Init, ProgressInv
<1> QED
  BY <1>3, <1>4, <1>5, <1>6 DEF Inv

\* start moves the flags.
LEMMA StartInv ==
  ASSUME Inv, StartClearsStopped \/ StartSetsLive
  PROVE  Inv'
<1>1. /\ \/ owner = "created" /\ owner' = "starting" /\ live' = live /\ stopped' = FALSE
         \/ owner = "starting" /\ owner' = "live" /\ live' = TRUE /\ stopped' = stopped
      /\ UNCHANGED <<pc, began, result, stdin, written, captured, pipe,
         parentEnd, child, childEnd, produced>>
  BY DEF StartClearsStopped, StartSetsLive, Lifecycle, callVars, pipeVars, childVars
<1>2. TypeOK'
  <2>1. owner' \in {"created", "starting", "live", "stopping", "stopped"}
    BY <1>1
  <2>2. live' \in BOOLEAN /\ stopped' \in BOOLEAN
    BY <1>1 DEF Inv, TypeOK
  <2> QED
    BY <1>1, <2>1, <2>2 DEF Inv, TypeOK
<1>3. OutputInv' /\ ProgressInv' /\ OkIsComplete'
  BY <1>1 DEF Inv, OutputInv, ProgressInv, OkIsComplete
<1>4. FlagsInv'
  BY <1>1 DEF Inv, FlagsInv
<1>5. CallInv'
  BY <1>1 DEF Inv, CallInv
<1> QED
  BY <1>2, <1>3, <1>4, <1>5 DEF Inv

\* stop moves them back, and nothing began after it.
LEMMA StopInv ==
  ASSUME Inv, StopClearsLive \/ StopSetsStopped
  PROVE  Inv'
<1>1. /\ \/ owner = "live" /\ owner' = "stopping" /\ live' = FALSE /\ stopped' = stopped
         \/ owner = "stopping" /\ owner' = "stopped" /\ live' = live /\ stopped' = TRUE
      /\ UNCHANGED <<pc, began, result, stdin, written, captured, pipe,
         parentEnd, child, childEnd, produced>>
  BY DEF StopClearsLive, StopSetsStopped, Lifecycle, callVars, pipeVars, childVars
<1>2. TypeOK'
  <2>1. owner' \in {"created", "starting", "live", "stopping", "stopped"}
    BY <1>1
  <2>2. live' \in BOOLEAN /\ stopped' \in BOOLEAN
    BY <1>1 DEF Inv, TypeOK
  <2> QED
    BY <1>1, <2>1, <2>2 DEF Inv, TypeOK
<1>3. OutputInv' /\ ProgressInv' /\ OkIsComplete'
  BY <1>1 DEF Inv, OutputInv, ProgressInv, OkIsComplete
<1>4. FlagsInv'
  BY <1>1 DEF Inv, FlagsInv
<1>5. CallInv'
  BY <1>1 DEF Inv, CallInv
<1> QED
  BY <1>2, <1>3, <1>4, <1>5 DEF Inv

\* A call begins, in the phase it finds.
LEMMA EnsureLiveInv ==
  ASSUME Inv, EnsureLive
  PROVE  Inv'
<1>1. /\ pc = "idle" /\ began' = owner
      /\ pc' = IF live THEN "spawn" ELSE "refused"
      /\ UNCHANGED <<owner, live, stopped, result, stdin, written, captured,
         pipe, parentEnd, child, childEnd, produced>>
  BY DEF EnsureLive, flagVars, callVars, pipeVars, childVars
<1>2. TypeOK'
  BY <1>1 DEF Inv, TypeOK
<1>3. FlagsInv' /\ OutputInv' /\ OkIsComplete'
  BY <1>1 DEF Inv, FlagsInv, OutputInv, OkIsComplete
<1>4. CallInv'
  BY <1>1 DEF Inv, CallInv, FlagsInv
<1>5. ProgressInv'
  BY <1>1 DEF Inv, ProgressInv
<1> QED
  BY <1>2, <1>3, <1>4, <1>5 DEF Inv

\* A call is refused, as stopped when it began after stop.
LEMMA RefusedInv ==
  ASSUME Inv, EnsureLiveFails
  PROVE  Inv'
<1>1. /\ pc = "refused" /\ pc' = "returned"
      /\ result' = IF stopped THEN "Stopped" ELSE "NotStarted"
      /\ UNCHANGED <<owner, live, stopped, began, stdin, written, captured,
         pipe, parentEnd, child, childEnd, produced>>
  BY DEF EnsureLiveFails, Return, flagVars, callVars, pipeVars, childVars
<1>2. TypeOK'
  BY <1>1 DEF Inv, TypeOK
<1>3. FlagsInv' /\ OutputInv'
  BY <1>1 DEF Inv, FlagsInv, OutputInv
<1>4. CallInv'
  BY <1>1 DEF Inv, CallInv, FlagsInv
<1>5. ProgressInv'
  BY <1>1 DEF Inv, ProgressInv
<1>6. OkIsComplete'
  BY <1>1 DEF Inv, OkIsComplete
<1> QED
  BY <1>2, <1>3, <1>4, <1>5, <1>6 DEF Inv

\* There is no child after all.
LEMMA SpawnFailsInv ==
  ASSUME Inv, SpawnFails
  PROVE  Inv'
<1>1. /\ pc = "spawn" /\ pc' = "returned" /\ result' = "SpawnFailed"
      /\ UNCHANGED <<owner, live, stopped, began, stdin, written, captured,
         pipe, parentEnd, child, childEnd, produced>>
  BY DEF SpawnFails, Return, flagVars, callVars, pipeVars, childVars
<1>2. TypeOK'
  BY <1>1 DEF Inv, TypeOK
<1>3. FlagsInv' /\ OutputInv'
  BY <1>1 DEF Inv, FlagsInv, OutputInv
<1>4. CallInv'
  BY <1>1 DEF Inv, CallInv
<1>5. ProgressInv'
  BY <1>1 DEF Inv, ProgressInv
<1>6. OkIsComplete'
  BY <1>1 DEF Inv, OkIsComplete
<1> QED
  BY <1>2, <1>3, <1>4, <1>5, <1>6 DEF Inv

\* The child starts with every pipe empty.
LEMMA SpawnInv ==
  ASSUME Inv, Spawn
  PROVE  Inv'
<1>1. /\ pc = "spawn" /\ child' = "running" /\ childEnd' = Pipes
      /\ \/ stdin = NoStdin /\ pc' = "collect" /\ parentEnd' = Outputs
         \/ stdin # NoStdin /\ pc' = "write" /\ parentEnd' = Pipes
      /\ UNCHANGED <<owner, live, stopped, began, result, stdin, written,
         captured, pipe, produced>>
  BY DEF Spawn, flagVars
<1>2. TypeOK'
  BY <1>1 DEF Inv, TypeOK, Outputs, Pipes
<1>3. FlagsInv'
  BY <1>1 DEF Inv, FlagsInv
<1>4. CallInv'
  BY <1>1 DEF Inv, CallInv
<1>5. OutputInv'
  BY <1>1 DEF Inv, OutputInv, Outputs, Pipes
<1>6. ProgressInv'
  BY <1>1, BoundsAssumption DEF Inv, ProgressInv, TypeOK
<1>7. OkIsComplete'
  BY <1>1 DEF Inv, OkIsComplete, CallInv, OutputInv, ProgressInv
<1> QED
  BY <1>2, <1>3, <1>4, <1>5, <1>6, <1>7 DEF Inv

\* A byte of stdin is written.
LEMMA WriteInv ==
  ASSUME Inv, Write
  PROVE  Inv'
<1>1. /\ pc = "write" /\ written < stdin /\ pipe["stdin"] < Capacity
      /\ written' = written + 1
      /\ pipe' = [pipe EXCEPT !["stdin"] = @ + 1]
      /\ UNCHANGED <<owner, live, stopped, pc, began, result, stdin, captured,
         parentEnd, child, childEnd, produced>>
  BY DEF Write, flagVars, callVars, pipeVars, childVars
<1>2. TypeOK'
  <2>1. /\ (captured \in [Outputs -> 0..MaxOutput])'
        /\ (produced \in [Outputs -> 0..MaxOutput])'
        /\ (pipe \in [Pipes -> 0..Capacity])'
    BY <1>1, BoundsAssumption DEF Inv, TypeOK, Outputs, Pipes
  <2>2. written' \in 0..MaxInput
    BY <1>1, BoundsAssumption DEF Inv, TypeOK, ProgressInv, NoStdin
  <2> QED
    BY <1>1, <2>1, <2>2 DEF Inv, TypeOK
<1>3. FlagsInv' /\ CallInv'
  BY <1>1 DEF Inv, FlagsInv, CallInv
<1>4. OutputInv'
  BY <1>1 DEF Inv, OutputInv, Outputs, Pipes
<1>5. ProgressInv'
  BY <1>1, BoundsAssumption DEF Inv, ProgressInv, TypeOK
<1>6. OkIsComplete'
  BY <1>1 DEF Inv, OkIsComplete, CallInv, OutputInv, ProgressInv
<1> QED
  BY <1>2, <1>3, <1>4, <1>5, <1>6 DEF Inv

\* The call gives up, and lets go of the pipes.
LEMMA WriteFailsInv ==
  ASSUME Inv, WriteFails
  PROVE  Inv'
<1>1. /\ pc = "write" /\ pc' = "returned" /\ result' = "StdinWriteFailed"
      /\ parentEnd' = {}
      /\ UNCHANGED <<owner, live, stopped, began, stdin, written, captured,
         pipe, child, childEnd, produced>>
  BY DEF WriteFails, Return, flagVars, callVars, pipeVars, childVars
<1>2. TypeOK'
  BY <1>1 DEF Inv, TypeOK
<1>3. FlagsInv' /\ OutputInv'
  BY <1>1 DEF Inv, FlagsInv, OutputInv
<1>4. CallInv'
  BY <1>1 DEF Inv, CallInv
<1>5. ProgressInv'
  BY <1>1 DEF Inv, ProgressInv
<1>6. OkIsComplete'
  BY <1>1 DEF Inv, OkIsComplete
<1> QED
  BY <1>2, <1>3, <1>4, <1>5, <1>6 DEF Inv

\* All of stdin is written.
LEMMA WriteReturnsInv ==
  ASSUME Inv, WriteReturns
  PROVE  Inv'
<1>1. /\ pc = "write" /\ written = stdin /\ pc' = "collect"
      /\ parentEnd' = parentEnd \ {"stdin"}
      /\ UNCHANGED <<owner, live, stopped, began, result, stdin, written,
         captured, pipe, child, childEnd, produced>>
  BY DEF WriteReturns, flagVars, callVars, pipeVars, childVars
<1>2. TypeOK'
  BY <1>1 DEF Inv, TypeOK
<1>3. FlagsInv' /\ OutputInv' /\ OkIsComplete'
  BY <1>1 DEF Inv, FlagsInv, OutputInv, OkIsComplete
<1>4. CallInv'
  BY <1>1 DEF Inv, CallInv
<1>5. ProgressInv'
  BY <1>1 DEF Inv, ProgressInv
<1> QED
  BY <1>2, <1>3, <1>4, <1>5 DEF Inv

\* What was in a pipe is captured.
LEMMA CollectInv ==
  ASSUME Inv, NEW s \in Outputs, Collect(s)
  PROVE  Inv'
<1>1. /\ pc = "collect"
      /\ captured' = [captured EXCEPT ![s] = @ + pipe[s]]
      /\ pipe' = [pipe EXCEPT ![s] = 0]
      /\ UNCHANGED <<owner, live, stopped, pc, began, result, stdin, written,
         parentEnd, child, childEnd, produced>>
  BY DEF Collect, flagVars, callVars, pipeVars, childVars
<1>2. TypeOK'
  <2>1. /\ (captured \in [Outputs -> 0..MaxOutput])'
        /\ (produced \in [Outputs -> 0..MaxOutput])'
        /\ (pipe \in [Pipes -> 0..Capacity])'
    BY <1>1, BoundsAssumption DEF Inv, TypeOK, OutputInv, Outputs, Pipes
  <2> QED
    BY <1>1, <2>1, BoundsAssumption DEF Inv, TypeOK, NoStdin, Outputs, Pipes
<1>3. FlagsInv' /\ CallInv'
  BY <1>1 DEF Inv, FlagsInv, CallInv
<1>4. OutputInv'
  BY <1>1 DEF Inv, OutputInv, TypeOK, Outputs, Pipes
<1>5. ProgressInv'
  BY <1>1 DEF Inv, ProgressInv
<1>6. OkIsComplete'
  BY <1>1 DEF Inv, OkIsComplete, CallInv, OutputInv, ProgressInv
<1> QED
  BY <1>2, <1>3, <1>4, <1>5, <1>6 DEF Inv

\* Both outputs are at their ends.
LEMMA CollectedInv ==
  ASSUME Inv, Collected
  PROVE  Inv'
<1>1. /\ pc = "collect" /\ pc' = "wait" /\ parentEnd' = {}
      /\ \A s \in Outputs : pipe[s] = 0
      /\ UNCHANGED <<owner, live, stopped, began, result, stdin, written,
         captured, pipe, child, childEnd, produced>>
  BY DEF Collected, AtEnd, flagVars, callVars, pipeVars, childVars
<1>2. TypeOK'
  BY <1>1 DEF Inv, TypeOK
<1>3. FlagsInv' /\ OutputInv' /\ OkIsComplete'
  BY <1>1 DEF Inv, FlagsInv, OutputInv, OkIsComplete
<1>4. CallInv'
  BY <1>1 DEF Inv, CallInv
<1>5. ProgressInv'
  BY <1>1 DEF Inv, ProgressInv
<1> QED
  BY <1>2, <1>3, <1>4, <1>5 DEF Inv

\* The child is reaped.
LEMMA WaitInv ==
  ASSUME Inv, Wait \/ WaitFails
  PROVE  Inv'
<1>1. /\ pc = "wait" /\ pc' = "returned" /\ child = "exited" /\ child' = "reaped"
      /\ result' \in {"Ok", "SpawnFailed", "WaitFailed"}
      /\ UNCHANGED <<owner, live, stopped, began, stdin, written, captured,
         pipe, parentEnd, childEnd, produced>>
  BY DEF Wait, WaitFails, Return, flagVars, callVars, pipeVars, childVars
<1>2. TypeOK'
  BY <1>1 DEF Inv, TypeOK
<1>3. FlagsInv'
  BY <1>1 DEF Inv, FlagsInv
<1>4. CallInv'
  BY <1>1 DEF Inv, CallInv
<1>5. OutputInv'
  BY <1>1 DEF Inv, OutputInv, Outputs, Pipes
<1>6. ProgressInv'
  BY <1>1 DEF Inv, ProgressInv
<1>7. OkIsComplete'
  BY <1>1 DEF Inv, OkIsComplete, CallInv, OutputInv, ProgressInv, TypeOK
<1> QED
  BY <1>2, <1>3, <1>4, <1>5, <1>6, <1>7 DEF Inv

\* The child chooses an operation, within its bounds.
LEMMA ChildPicksInv ==
  ASSUME Inv, ChildPicks
  PROVE  Inv'
<1>1. /\ child = "running"
      /\ \/ child' = "stdin"
         \/ \E s \in Outputs : produced[s] < MaxOutput /\ child' = s
      /\ UNCHANGED <<owner, live, stopped, pc, began, result, stdin, written,
         captured, pipe, parentEnd, childEnd, produced>>
  BY DEF ChildPicks, flagVars, callVars, pipeVars, childVars
<1>2. TypeOK'
  <2>1. /\ (captured \in [Outputs -> 0..MaxOutput])'
        /\ (produced \in [Outputs -> 0..MaxOutput])'
        /\ (pipe \in [Pipes -> 0..Capacity])'
    BY <1>1, BoundsAssumption DEF Inv, TypeOK, Outputs, Pipes
  <2> QED
    BY <1>1, <2>1, BoundsAssumption DEF Inv, TypeOK, NoStdin, Outputs, Pipes
<1>3. FlagsInv' /\ ProgressInv'
  BY <1>1 DEF Inv, FlagsInv, ProgressInv
<1>4. CallInv'
  BY <1>1 DEF Inv, CallInv
<1>5. OutputInv'
  BY <1>1 DEF Inv, OutputInv, Outputs, Pipes
<1>6. OkIsComplete'
  BY <1>1 DEF Inv, OkIsComplete
<1> QED
  BY <1>2, <1>3, <1>4, <1>5, <1>6 DEF Inv

\* The child takes a byte of its input.
LEMMA ChildReadsInv ==
  ASSUME Inv, ChildReads
  PROVE  Inv'
<1>1. /\ child = "stdin" /\ child' = "running" /\ pipe["stdin"] > 0
      /\ pipe' = [pipe EXCEPT !["stdin"] = @ - 1]
      /\ UNCHANGED <<owner, live, stopped, pc, began, result, stdin, written,
         captured, parentEnd, childEnd, produced>>
  BY DEF ChildReads, flagVars, callVars, pipeVars, childVars
<1>2. TypeOK'
  BY <1>1, BoundsAssumption DEF Inv, TypeOK
<1>3. FlagsInv'
  BY <1>1 DEF Inv, FlagsInv
<1>4. CallInv'
  BY <1>1 DEF Inv, CallInv
<1>5. OutputInv'
  BY <1>1 DEF Inv, OutputInv, Outputs, Pipes
<1>6. ProgressInv'
  BY <1>1 DEF Inv, ProgressInv
<1>7. OkIsComplete'
  BY <1>1 DEF Inv, OkIsComplete
<1> QED
  BY <1>2, <1>3, <1>4, <1>5, <1>6, <1>7 DEF Inv

\* The child has done with its input.
LEMMA ChildClosesInv ==
  ASSUME Inv, ChildClosesStdin
  PROVE  Inv'
<1>1. /\ child \in {"running", "stdin"} /\ child' = "running"
      /\ childEnd' = childEnd \ {"stdin"}
      /\ UNCHANGED <<owner, live, stopped, pc, began, result, stdin, written,
         captured, pipe, parentEnd, produced>>
  BY DEF ChildClosesStdin, flagVars, callVars, pipeVars, childVars
<1>2. TypeOK'
  BY <1>1 DEF Inv, TypeOK
<1>3. FlagsInv' /\ ProgressInv'
  BY <1>1 DEF Inv, FlagsInv, ProgressInv
<1>4. CallInv'
  BY <1>1 DEF Inv, CallInv
<1>5. OutputInv'
  BY <1>1 DEF Inv, OutputInv, Outputs, Pipes
<1>6. OkIsComplete'
  BY <1>1 DEF Inv, OkIsComplete
<1> QED
  BY <1>2, <1>3, <1>4, <1>5, <1>6 DEF Inv

\* The child writes a byte to a pipe that is still read.
LEMMA ChildWritesInv ==
  ASSUME Inv, NEW s \in Outputs, ChildWrites(s)
  PROVE  Inv'
<1>1. /\ child = s /\ child' = "running" /\ s \in parentEnd /\ pipe[s] < Capacity
      /\ pipe' = [pipe EXCEPT ![s] = @ + 1]
      /\ produced' = [produced EXCEPT ![s] = @ + 1]
      /\ UNCHANGED <<owner, live, stopped, pc, began, result, stdin, written,
         captured, parentEnd, childEnd>>
  BY DEF ChildWrites, flagVars, callVars, pipeVars, childVars
<1>2. TypeOK'
  <2>1. /\ (captured \in [Outputs -> 0..MaxOutput])'
        /\ (produced \in [Outputs -> 0..MaxOutput])'
        /\ (pipe \in [Pipes -> 0..Capacity])'
    BY <1>1, BoundsAssumption DEF Inv, TypeOK, OutputInv, Outputs, Pipes
  <2> QED
    BY <1>1, <2>1, BoundsAssumption DEF Inv, TypeOK, NoStdin, Outputs, Pipes
<1>3. FlagsInv'
  BY <1>1 DEF Inv, FlagsInv
<1>4. CallInv'
  BY <1>1 DEF Inv, CallInv, Outputs
<1>5. OutputInv'
  BY <1>1 DEF Inv, OutputInv, TypeOK, Outputs, Pipes
<1>6. ProgressInv'
  BY <1>1 DEF Inv, ProgressInv
<1>7. OkIsComplete'
  BY <1>1 DEF Inv, OkIsComplete, Outputs
<1> QED
  BY <1>2, <1>3, <1>4, <1>5, <1>6, <1>7 DEF Inv

\* The child ends.
LEMMA ChildExitsInv ==
  ASSUME Inv, ChildExits
  PROVE  Inv'
<1>1. /\ child \in Outputs \cup {"running"} /\ child' = "exited" /\ childEnd' = {}
      /\ UNCHANGED <<owner, live, stopped, pc, began, result, stdin, written,
         captured, pipe, parentEnd, produced>>
  BY DEF ChildExits, flagVars, callVars, pipeVars, childVars
<1>2. TypeOK'
  BY <1>1 DEF Inv, TypeOK
<1>3. FlagsInv' /\ ProgressInv'
  BY <1>1 DEF Inv, FlagsInv, ProgressInv
<1>4. CallInv'
  BY <1>1 DEF Inv, CallInv, Outputs
<1>5. OutputInv'
  BY <1>1 DEF Inv, OutputInv, Outputs, Pipes
<1>6. OkIsComplete'
  BY <1>1 DEF Inv, OkIsComplete, Outputs
<1> QED
  BY <1>2, <1>3, <1>4, <1>5, <1>6 DEF Inv

\* Every step preserves the invariant.
LEMMA NextInv == Inv /\ [Next]_vars => Inv'
<1> SUFFICES ASSUME Inv, [Next]_vars PROVE Inv'
  OBVIOUS
<1>1. CASE UNCHANGED vars
  BY <1>1 DEF vars, Inv, TypeOK, FlagsInv, CallInv, OutputInv, ProgressInv, OkIsComplete
<1>2. CASE EnsureLive \/ Execute
  BY <1>2, EnsureLiveInv, RefusedInv, SpawnFailsInv, SpawnInv, WriteInv, WriteFailsInv,
     WriteReturnsInv, CollectInv, CollectedInv, WaitInv DEF Execute
<1>3. CASE Child
  BY <1>3, ChildPicksInv, ChildReadsInv, ChildClosesInv, ChildWritesInv, ChildExitsInv
     DEF Child
<1> QED
  BY <1>1, <1>2, <1>3, StartInv, StopInv DEF Next
-----------------------------------------------------------------------------
\* The invariant holds in every reachable state.
THEOREM Invariance == Spec => []Inv
<1> QED
  BY InitInv, NextInv, PTL DEF Spec

\* Every variable keeps its type, and no pipe takes more than it holds.
THEOREM TypeCorrect == Spec => []TypeOK
<1> QED
  BY Invariance, PTL DEF Inv

\* An outcome that is reported is complete: all input written, all output captured.
THEOREM OutcomeIsComplete == Spec => []OkIsComplete
<1> QED
  BY Invariance, PTL DEF Inv

\* A refusal names the phase of the runtime in which the call began.
THEOREM RefusalsNamePhase == Spec => []RefusalNamesPhase
<1>1. Inv => RefusalNamesPhase
  BY DEF Inv, CallInv, TypeOK, RefusalNamesPhase
<1> QED
  BY <1>1, Invariance, PTL
-----------------------------------------------------------------------------
(* Who waits for whom: which pipes are open where, as the call and the child go on. *)

\* What was written to the child is in its pipe or was read.
InputInv == pipe["stdin"] <= written

\* The call holds the pipes it is about to use, and waits for a child that has ended.
ParentInv ==
    /\ pc = "write" => parentEnd = Pipes
    /\ pc = "collect" => parentEnd = Outputs
    /\ pc = "wait" => child = "exited"

\* From spawn on there is a child, with both of its outputs open until it ends.
ChildInv ==
    /\ pc \in {"write", "collect", "wait"} => child \in Pipes \cup {"running", "exited"}
    /\ child \in Pipes \cup {"running"} => Outputs \subseteq childEnd
    /\ child = "exited" => childEnd = {}

WaitingInv == InputInv /\ ParentInv /\ ChildInv

LEMMA InitWaiting == Init => WaitingInv
BY DEF Init, WaitingInv, InputInv, ParentInv, ChildInv, Outputs, Pipes

\* Start, stop and the refusals have nothing to do with a child.
LEMMA FlagsWaiting ==
  ASSUME WaitingInv,
         \/ StartClearsStopped \/ StartSetsLive \/ StopClearsLive \/ StopSetsStopped
         \/ EnsureLive \/ EnsureLiveFails \/ SpawnFails
  PROVE  WaitingInv'
<1>1. /\ UNCHANGED <<written, pipeVars, childVars>>
      /\ pc' = pc \/ pc' \in {"spawn", "refused", "returned"}
  BY DEF StartClearsStopped, StartSetsLive, StopClearsLive, StopSetsStopped, Lifecycle,
     EnsureLive, EnsureLiveFails, SpawnFails, Return, callVars
<1> QED
  BY <1>1 DEF WaitingInv, InputInv, ParentInv, ChildInv, pipeVars, childVars

\* spawn opens every pipe; without stdin the call begins with the outputs.
LEMMA SpawnWaiting ==
  ASSUME WaitingInv, Spawn
  PROVE  WaitingInv'
<1>1. /\ child' = "running" /\ childEnd' = Pipes
      /\ \/ pc' = "collect" /\ parentEnd' = Outputs
         \/ pc' = "write" /\ parentEnd' = Pipes
      /\ UNCHANGED <<written, pipe>>
  BY DEF Spawn
<1> QED
  BY <1>1 DEF WaitingInv, InputInv, ParentInv, ChildInv, Pipes

\* Writing adds to both sides, and gives up or closes the child's stdin.
LEMMA WriteWaiting ==
  ASSUME Inv, WaitingInv, Write \/ WriteFails \/ WriteReturns
  PROVE  WaitingInv'
<1>1. CASE Write
  <2>1. /\ pipe' = [pipe EXCEPT !["stdin"] = @ + 1] /\ written' = written + 1
        /\ UNCHANGED <<pc, parentEnd, child, childEnd>>
    BY <1>1 DEF Write, childVars
  <2>2. InputInv'
    BY <2>1, BoundsAssumption DEF Inv, TypeOK, WaitingInv, InputInv, Pipes
  <2> QED
    BY <2>1, <2>2 DEF WaitingInv, ParentInv, ChildInv
<1>2. CASE WriteFails
  <2>1. pc' = "returned" /\ UNCHANGED <<written, pipe, childEnd, child>>
    BY <1>2 DEF WriteFails, Return, childVars
  <2> QED
    BY <2>1 DEF WaitingInv, InputInv, ParentInv, ChildInv
<1>3. CASE WriteReturns
  <2>1. /\ pc = "write" /\ pc' = "collect" /\ parentEnd' = parentEnd \ {"stdin"}
        /\ UNCHANGED <<written, pipe, childEnd, child>>
    BY <1>3 DEF WriteReturns, childVars
  <2>2. parentEnd' = Outputs
    BY <2>1 DEF WaitingInv, ParentInv, Outputs, Pipes
  <2> QED
    BY <2>1, <2>2 DEF WaitingInv, InputInv, ParentInv, ChildInv
<1> QED
  BY <1>1, <1>2, <1>3

\* Both outputs are at their end only when the child has ended, and it stays so.
LEMMA CollectWaiting ==
  ASSUME Inv, WaitingInv,
         (\E s \in Outputs : Collect(s)) \/ Collected \/ Wait \/ WaitFails
  PROVE  WaitingInv'
<1>1. CASE \E s \in Outputs : Collect(s)
  <2>1. PICK s \in Outputs : Collect(s)
    BY <1>1
  <2>2. /\ pipe' = [pipe EXCEPT ![s] = 0]
        /\ UNCHANGED <<pc, written, parentEnd, childEnd, child>>
    BY <2>1 DEF Collect, childVars
  <2>3. pipe'["stdin"] = pipe["stdin"]
    BY <2>2 DEF Inv, TypeOK, Outputs, Pipes
  <2> QED
    BY <2>2, <2>3 DEF WaitingInv, InputInv, ParentInv, ChildInv
<1>2. CASE Collected
  <2>1. /\ pc = "collect" /\ \A s \in Outputs : s \notin childEnd
        /\ pc' = "wait"
        /\ UNCHANGED <<written, pipe, childEnd, child>>
    BY <1>2 DEF Collected, AtEnd, childVars
  <2>2. child = "exited"
    BY <2>1 DEF WaitingInv, ChildInv, Outputs
  <2> QED
    BY <2>1, <2>2 DEF WaitingInv, InputInv, ParentInv, ChildInv
<1>3. CASE Wait \/ WaitFails
  <2>1. /\ child' = "reaped" /\ pc' = "returned"
        /\ UNCHANGED <<written, pipe, childEnd>>
    BY <1>3 DEF Wait, WaitFails, Return, pipeVars
  <2> QED
    BY <2>1 DEF WaitingInv, InputInv, ParentInv, ChildInv, Pipes, Outputs
<1> QED
  BY <1>1, <1>2, <1>3

\* The child reads what is there, and closes its outputs only by ending.
LEMMA ChildWaiting ==
  ASSUME Inv, WaitingInv, Child
  PROVE  WaitingInv'
<1>1. CASE ChildPicks
  <2>1. /\ child = "running" /\ child' \in Pipes
        /\ UNCHANGED <<pc, written, pipe, parentEnd, childEnd>>
    BY <1>1 DEF ChildPicks, callVars, pipeVars, Pipes
  <2> QED
    BY <2>1 DEF WaitingInv, InputInv, ParentInv, ChildInv, Pipes, Outputs
<1>2. CASE ChildReads
  <2>1. /\ child = "stdin" /\ child' = "running" /\ pipe["stdin"] > 0
        /\ pipe' = [pipe EXCEPT !["stdin"] = @ - 1]
        /\ UNCHANGED <<pc, written, parentEnd, childEnd>>
    BY <1>2 DEF ChildReads, callVars
  <2>2. InputInv'
    BY <2>1, BoundsAssumption DEF Inv, TypeOK, WaitingInv, InputInv, Pipes
  <2> QED
    BY <2>1, <2>2 DEF WaitingInv, ParentInv, ChildInv, Pipes
<1>3. CASE ChildClosesStdin
  <2>1. /\ child \in {"stdin", "running"} /\ child' = "running"
        /\ childEnd' = childEnd \ {"stdin"}
        /\ UNCHANGED <<pc, written, pipe, parentEnd>>
    BY <1>3 DEF ChildClosesStdin, callVars
  <2> QED
    BY <2>1 DEF WaitingInv, InputInv, ParentInv, ChildInv, Pipes, Outputs
<1>4. CASE ChildExits
  <2>1. /\ child \in Outputs \cup {"running"} /\ child' = "exited" /\ childEnd' = {}
        /\ UNCHANGED <<pc, written, pipe, parentEnd>>
    BY <1>4 DEF ChildExits, callVars
  <2> QED
    BY <2>1 DEF WaitingInv, InputInv, ParentInv, ChildInv, Pipes, Outputs
<1>5. CASE \E s \in Outputs : ChildWrites(s)
  <2>1. PICK s \in Outputs : ChildWrites(s)
    BY <1>5
  <2>2. /\ child = s /\ child' = "running"
        /\ pipe' = [pipe EXCEPT ![s] = @ + 1]
        /\ UNCHANGED <<pc, written, parentEnd, childEnd>>
    BY <2>1 DEF ChildWrites, callVars
  <2>3. pipe'["stdin"] = pipe["stdin"]
    BY <2>2 DEF Inv, TypeOK, Outputs, Pipes
  <2> QED
    BY <2>2, <2>3 DEF WaitingInv, InputInv, ParentInv, ChildInv, Pipes, Outputs
<1> QED
  BY <1>1, <1>2, <1>3, <1>4, <1>5 DEF Child

LEMMA NextWaiting == Inv /\ WaitingInv /\ [Next]_vars => WaitingInv'
<1> SUFFICES ASSUME Inv, WaitingInv, [Next]_vars PROVE WaitingInv'
  OBVIOUS
<1>1. CASE UNCHANGED vars
  BY <1>1 DEF vars, WaitingInv, InputInv, ParentInv, ChildInv
<1>2. CASE Next
  BY <1>2, FlagsWaiting, SpawnWaiting, WriteWaiting, CollectWaiting, ChildWaiting
     DEF Next, Execute
<1> QED
  BY <1>1, <1>2

\* At each point of the call, what keeps both from going on.
LEMMA BlockedWriting ==
  Inv /\ WaitingInv => BlocksOnlyOnFullPipes
<1> SUFFICES ASSUME Inv, WaitingInv, pc \in {"write", "collect", "wait"},
                    ~CallGoesOn, ~ChildGoesOn
             PROVE  /\ pc = "write" /\ Capacity < stdin
                    /\ pipe["stdin"] = Capacity
                    /\ \E s \in Outputs : child = s /\ pipe[s] = Capacity
  BY DEF BlocksOnlyOnFullPipes
<1>t. pipe \in [Pipes -> 0..Capacity] /\ written \in Nat /\ stdin \in Nat /\ Capacity \in Nat
  BY BoundsAssumption DEF Inv, TypeOK, NoStdin
<1>1. child \in Pipes \cup {"exited"}
  BY DEF WaitingInv, ChildInv, ChildGoesOn
<1>2. pc # "wait"
  BY DEF WaitingInv, ParentInv, CallGoesOn
<1>3. \A s \in Outputs : child = s => s \in parentEnd /\ pipe[s] = Capacity
  BY <1>t DEF ChildGoesOn, Outputs, Pipes
\* Collecting empties the pipes a child could be blocked on, and ends with the child.
<1>4. pc # "collect"
  <2> SUFFICES ASSUME pc = "collect" PROVE FALSE
    OBVIOUS
  <2>1. \A s \in Outputs : pipe[s] = 0
    BY <1>t DEF CallGoesOn, Outputs, Pipes
  <2>2. child \notin Outputs
    BY <1>3, <2>1, BoundsAssumption
  <2>3. child # "stdin"
    BY DEF ChildGoesOn, WaitingInv, ParentInv, Outputs
  <2>4. child # "exited"
    BY <2>1 DEF CallGoesOn, WaitingInv, ChildInv, AtEnd
  <2> QED
    BY <1>1, <2>2, <2>3, <2>4 DEF Pipes
<1>5. pc = "write"
  BY <1>2, <1>4
<1>6. written # stdin /\ "stdin" \in childEnd /\ pipe["stdin"] = Capacity
  BY <1>t, <1>5 DEF CallGoesOn, Pipes
<1>7. child # "exited" /\ child # "stdin"
  BY <1>6, BoundsAssumption DEF WaitingInv, ChildInv, ChildGoesOn
<1>8. child \in Outputs
  BY <1>1, <1>7 DEF Pipes
<1>9. Capacity < stdin
  BY <1>t, <1>5, <1>6 DEF Inv, ProgressInv, WaitingInv, InputInv
<1> QED
  BY <1>3, <1>5, <1>6, <1>8, <1>9

\* The call and the child wait for each other only over a full stdin and a full output.
THEOREM OnlyFullPipesBlock == Spec => []BlocksOnlyOnFullPipes
<1>1. Spec => []WaitingInv
  BY InitWaiting, NextWaiting, Invariance, PTL DEF Spec
<1> QED
  BY <1>1, Invariance, BlockedWriting, PTL
=============================================================================
