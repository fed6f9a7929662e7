---------------------------- MODULE ProcessRuntime ----------------------------
(***************************************************************************)
(* The local realization of ProcessRuntime                                 *)
(* (packages/execution/process-runtime): one call of execute(), the owner  *)
(* that starts and stops the runtime around it, and the child process at   *)
(* the other end of three pipes.                                           *)
(*                                                                         *)
(* Bytes are counted.  The child is any program that ends once its pipes   *)
(* are served: it chooses what to read and write, and blocks in what it    *)
(* chose.                                                                  *)
(***************************************************************************)
EXTENDS Naturals

CONSTANTS
    MaxInput,   \* bound: bytes passed as stdin
    MaxOutput,  \* bound: bytes the child writes to each of its outputs
    Capacity    \* bytes a pipe holds

ASSUME BoundsAssumption ==
    MaxInput \in Nat /\ MaxOutput \in Nat /\ Capacity \in Nat \ {0}

VARIABLES
    owner,     \* lifecycle: "created", "starting", "live", "stopping", "stopped"
    live,      \* LocalProcessRuntimeState.live
    stopped,   \* LocalProcessRuntimeState.stopped
    pc,        \* where execute() is
    began,     \* history: `owner` when execute() was called
    result,    \* "Ok", a ProcessExecutionErrorKind, or "none"
    stdin,     \* the invocation: bytes to write, or NoStdin
    written,   \* bytes of stdin written so far
    captured,  \* bytes of each output read so far
    pipe,      \* bytes in each pipe
    parentEnd, \* the pipes whose end here is open
    child,     \* "none", "running", "exited", "reaped", or the pipe it is busy with
    childEnd,  \* the pipes whose end in the child is open
    produced   \* the child: bytes it has written to each output

Outputs == {"stdout", "stderr"}
Pipes == Outputs \cup {"stdin"}
NoStdin == MaxInput + 1

flagVars  == <<owner, live, stopped>>
callVars  == <<pc, began, result, stdin, written, captured>>
pipeVars  == <<pipe, parentEnd, childEnd>>
childVars == <<child, produced>>
vars == <<owner, live, stopped, pc, began, result, stdin, written, captured, pipe,
          parentEnd, child, childEnd, produced>>

Init ==
    /\ owner = "created"
    /\ live = FALSE
    /\ stopped = FALSE
    /\ pc = "idle"
    /\ began = "created"
    /\ result = "none"
    /\ stdin \in 0..NoStdin
    /\ written = 0
    /\ captured = [s \in Outputs |-> 0]
    /\ pipe = [s \in Pipes |-> 0]
    /\ parentEnd = {}
    /\ child = "none"
    /\ childEnd = {}
    /\ produced = [s \in Outputs |-> 0]
-----------------------------------------------------------------------------
(* Lifecycle start and stop: two stores each. *)

Lifecycle(from, to, l, s) ==
    /\ owner = from
    /\ owner' = to
    /\ live' = l
    /\ stopped' = s
    /\ UNCHANGED <<callVars, pipeVars, childVars>>

StartClearsStopped == Lifecycle("created", "starting", live, FALSE)
StartSetsLive == Lifecycle("starting", "live", TRUE, stopped)
StopClearsLive == Lifecycle("live", "stopping", FALSE, stopped)

\* Mutant of StopSetsStopped: stop only clears `live`.
StopForgetsStopped == Lifecycle("stopping", "stopped", live, stopped)

StopSetsStopped == Lifecycle("stopping", "stopped", live, TRUE)
-----------------------------------------------------------------------------
(* execute(), up to the child. *)

Return(r) == pc' = "returned" /\ result' = r

\* ensure_live(): `live`, and `stopped` one step later if it was not set.
EnsureLive ==
    /\ pc = "idle"
    /\ began' = owner
    /\ pc' = IF live THEN "spawn" ELSE "refused"
    /\ UNCHANGED <<flagVars, result, stdin, written, captured, pipeVars, childVars>>

EnsureLiveFails ==
    /\ pc = "refused"
    /\ Return(IF stopped THEN "Stopped" ELSE "NotStarted")
    /\ UNCHANGED <<flagVars, began, stdin, written, captured, pipeVars, childVars>>

SpawnFails ==
    /\ pc = "spawn"
    /\ Return("SpawnFailed")
    /\ UNCHANGED <<flagVars, began, stdin, written, captured, pipeVars, childVars>>

\* With stdin the three pipes; without it the child gets an input that is at its
\* end, and output() goes on to collect at once.
Spawn ==
    /\ pc = "spawn"
    /\ child' = "running"
    /\ childEnd' = Pipes
    /\ IF stdin = NoStdin
       THEN pc' = "collect" /\ parentEnd' = Outputs
       ELSE pc' = "write" /\ parentEnd' = Pipes
    /\ UNCHANGED <<flagVars, began, result, stdin, written, captured, pipe, produced>>
-----------------------------------------------------------------------------
(* write_all() to the child's stdin. *)

Write ==
    /\ pc = "write" /\ written < stdin
    /\ "stdin" \in childEnd
    /\ pipe["stdin"] < Capacity
    /\ written' = written + 1
    /\ pipe' = [pipe EXCEPT !["stdin"] = @ + 1]
    /\ UNCHANGED <<flagVars, pc, began, result, stdin, captured, parentEnd, childEnd,
                   childVars>>

\* Mutant of WriteFails: the child's handle is leaked, its pipes with it.
WriteFailsLeaking ==
    /\ pc = "write" /\ written < stdin
    /\ "stdin" \notin childEnd
    /\ Return("StdinWriteFailed")
    /\ UNCHANGED <<flagVars, began, stdin, written, captured, pipeVars, childVars>>

\* EPIPE: `?` drops the child, which closes every pipe and does not wait for it.
WriteFails ==
    /\ pc = "write" /\ written < stdin
    /\ "stdin" \notin childEnd
    /\ Return("StdinWriteFailed")
    /\ parentEnd' = {}
    /\ UNCHANGED <<flagVars, began, stdin, written, captured, pipe, childEnd, childVars>>

\* Mutant of WriteReturns: the handle outlives the write, so that the child waits
\* for more input.
WriteKeepsStdin ==
    /\ pc = "write" /\ written = stdin
    /\ pc' = "collect"
    /\ UNCHANGED <<flagVars, began, result, stdin, written, captured, pipeVars, childVars>>

\* child_stdin goes out of scope.
WriteReturns ==
    /\ pc = "write" /\ written = stdin
    /\ pc' = "collect"
    /\ parentEnd' = parentEnd \ {"stdin"}
    /\ UNCHANGED <<flagVars, began, result, stdin, written, captured, pipe, childEnd,
                   childVars>>
-----------------------------------------------------------------------------
(* wait_with_output(): both outputs to their ends, whichever has something,  *)
(* then the exit status.                                                     *)

Collect(s) ==
    /\ pc = "collect"
    /\ pipe[s] > 0
    /\ captured' = [captured EXCEPT ![s] = @ + pipe[s]]
    /\ pipe' = [pipe EXCEPT ![s] = 0]
    /\ UNCHANGED <<flagVars, pc, began, result, stdin, written, parentEnd, childEnd,
                   childVars>>

AtEnd(s) == pipe[s] = 0 /\ s \notin childEnd

\* Mutant of Collected: the child has exited, what is left in the pipes is not read.
CollectedHasty ==
    /\ pc = "collect"
    /\ \A s \in Outputs : s \notin childEnd
    /\ pc' = "wait"
    /\ parentEnd' = {}
    /\ UNCHANGED <<flagVars, began, result, stdin, written, captured, pipe, childEnd,
                   childVars>>

Collected ==
    /\ pc = "collect"
    /\ \A s \in Outputs : AtEnd(s)
    /\ pc' = "wait"
    /\ parentEnd' = {}
    /\ UNCHANGED <<flagVars, began, result, stdin, written, captured, pipe, childEnd,
                   childVars>>

Wait ==
    /\ pc = "wait"
    /\ child = "exited"
    /\ child' = "reaped"
    /\ Return("Ok")
    /\ UNCHANGED <<flagVars, began, stdin, written, captured, pipeVars, produced>>

\* waitpid fails: another part of the process has reaped the child. The same
\* failure has another name where output() reports it.
WaitFails ==
    /\ pc = "wait"
    /\ child = "exited"
    /\ child' = "reaped"
    /\ Return(IF stdin = NoStdin THEN "SpawnFailed" ELSE "WaitFailed")
    /\ UNCHANGED <<flagVars, began, stdin, written, captured, pipeVars, produced>>
-----------------------------------------------------------------------------
(* The child, external: it picks an operation and is blocked until it is done. *)

ChildPicks ==
    /\ child = "running"
    /\ \/ "stdin" \in childEnd /\ child' = "stdin"
       \/ \E s \in Outputs : produced[s] < MaxOutput /\ child' = s
    /\ UNCHANGED <<flagVars, callVars, pipeVars, produced>>

ChildReads ==
    /\ child = "stdin"
    /\ pipe["stdin"] > 0
    /\ pipe' = [pipe EXCEPT !["stdin"] = @ - 1]
    /\ child' = "running"
    /\ UNCHANGED <<flagVars, callVars, parentEnd, childEnd, produced>>

\* The child reads the end of its input, or closes it before.
ChildClosesStdin ==
    /\ \/ child = "stdin" /\ pipe["stdin"] = 0 /\ "stdin" \notin parentEnd
       \/ child = "running" /\ "stdin" \in childEnd
    /\ childEnd' = childEnd \ {"stdin"}
    /\ child' = "running"
    /\ UNCHANGED <<flagVars, callVars, pipe, parentEnd, produced>>

ChildWrites(s) ==
    /\ child = s
    /\ s \in parentEnd
    /\ pipe[s] < Capacity
    /\ pipe' = [pipe EXCEPT ![s] = @ + 1]
    /\ produced' = [produced EXCEPT ![s] = @ + 1]
    /\ child' = "running"
    /\ UNCHANGED <<flagVars, callVars, parentEnd, childEnd>>

\* It ends by itself, or by SIGPIPE when nobody reads what it writes.
ChildExits ==
    /\ child = "running" \/ child \in Outputs \ parentEnd
    /\ child' = "exited"
    /\ childEnd' = {}
    /\ UNCHANGED <<flagVars, callVars, pipe, parentEnd, produced>>

Execute ==
    \/ EnsureLiveFails \/ Spawn \/ SpawnFails \/ Write \/ WriteFails \/ WriteReturns
    \/ (\E s \in Outputs : Collect(s)) \/ Collected \/ Wait \/ WaitFails

Child ==
    \/ ChildPicks \/ ChildReads \/ ChildClosesStdin \/ ChildExits
    \/ \E s \in Outputs : ChildWrites(s)

Next ==
    \/ StartClearsStopped \/ StartSetsLive \/ StopClearsLive \/ StopSetsStopped
    \/ EnsureLive \/ Execute \/ Child

Spec == Init /\ [][Next]_vars

(***************************************************************************)
(* A call in progress and a child go on when they can. The child's choices *)
(* are bounded, so that fairness makes it end unless a pipe blocks it: a   *)
(* child that runs for ever by itself is outside of what execute() is for. *)
(***************************************************************************)
FairSpec == Spec /\ WF_vars(Execute) /\ WF_vars(Child)
-----------------------------------------------------------------------------
(* Properties. *)

\* Every variable has its type; no pipe holds more than it can.
TypeOK ==
    /\ owner \in {"created", "starting", "live", "stopping", "stopped"}
    /\ began \in {"created", "starting", "live", "stopping", "stopped"}
    /\ live \in BOOLEAN /\ stopped \in BOOLEAN
    /\ pc \in {"idle", "refused", "spawn", "write", "collect", "wait", "returned"}
    /\ result \in {"none", "Ok", "NotStarted", "Stopped", "SpawnFailed",
                   "StdinWriteFailed", "WaitFailed"}
    /\ stdin \in 0..NoStdin
    /\ written \in 0..MaxInput
    /\ captured \in [Outputs -> 0..MaxOutput]
    /\ pipe \in [Pipes -> 0..Capacity]
    /\ parentEnd \in SUBSET Pipes /\ childEnd \in SUBSET Pipes
    /\ child \in Pipes \cup {"none", "running", "exited", "reaped"}
    /\ produced \in [Outputs -> 0..MaxOutput]

\* "completed process outcome": Ok means that the child has ended and is reaped,
\* that all of stdin was written, and that every byte it wrote was captured.
OkIsComplete ==
    result = "Ok" =>
        /\ child = "reaped"
        /\ stdin # NoStdin => written = stdin
        /\ captured = produced

\* What a call is told although `live` and `stopped` are stored and loaded one by one.
\* It is told Stopped only once stop is complete, and always when it was made after
\* that; NotStarted only when it was made before start, or while start or stop was
\* between its stores; a call made on a started runtime is told neither, however
\* stop overtakes it, and no other gets as far as a child.
RefusalNamesPhase ==
    /\ result = "Stopped" => owner = "stopped" /\ began # "live"
    /\ result = "NotStarted" => began \in {"created", "starting", "stopping"}
    /\ began = "stopped" => result \in {"none", "Stopped"}
    /\ child # "none" => began = "live"

\* What a call with a child, and the child, can go on with.
CallGoesOn ==
    \/ pc = "write" /\ (written = stdin \/ "stdin" \notin childEnd
                          \/ pipe["stdin"] < Capacity)
    \/ pc = "collect" /\ ((\E s \in Outputs : pipe[s] > 0)
                            \/ \A s \in Outputs : AtEnd(s))
    \/ pc = "wait" /\ child = "exited"

ChildGoesOn ==
    \/ child = "running"
    \/ child = "stdin" /\ (pipe["stdin"] > 0 \/ "stdin" \notin parentEnd)
    \/ \E s \in Outputs : child = s /\ (s \notin parentEnd \/ pipe[s] < Capacity)

\* Nothing but two full pipes, the input of a child that is writing its output, can
\* leave the call and the child waiting for each other; with input that fits a pipe
\* they never do, nor once the input is written.
BlocksOnlyOnFullPipes ==
    (pc \in {"write", "collect", "wait"} /\ ~CallGoesOn /\ ~ChildGoesOn) =>
        /\ pc = "write" /\ Capacity < stdin
        /\ pipe["stdin"] = Capacity
        /\ \E s \in Outputs : child = s /\ pipe[s] = Capacity

\* Input that fits a pipe cannot block the caller: execute() returns whatever the
\* child reads and writes, and in whatever order.
FittingInputReturns ==
    (pc \in {"write", "collect", "wait"} /\ (stdin = NoStdin \/ stdin <= Capacity))
        ~> (pc = "returned")

\* A child that execute() gave up on is not left blocked on a pipe nobody serves.
AbandonedChildEnds ==
    (pc = "returned" /\ child # "none") ~> (child \in {"exited", "reaped"})

\* "run one local OS process to completion and return its completed outcome"
\* (README.md): the call of a child that ends once it is served returns.
RunsToCompletion == (pc = "spawn") ~> (pc = "returned")
=============================================================================
