--------------------------- MODULE ProcessRunner ---------------------------
(***************************************************************************)
(* runProcess of process-runner.mjs: one child process, started detached   *)
(* in a process group of its own, and the promise of one typed result.     *)
(*                                                                         *)
(* The operating system is part of the model because the code asks it      *)
(* questions: a process is alive, a zombie that nobody has reaped yet, or  *)
(* gone; it belongs to the group or has left it (setsid); it holds the     *)
(* write ends of the output pipes or has closed them.  The node events     *)
(* (data, exit, close, error, the timer, the abort) are actions of their   *)
(* own and arrive in any order the runtime allows.  Output is counted in   *)
(* chunks, the two streams together.                                       *)
(***************************************************************************)
EXTENDS Naturals, FiniteSets

CONSTANTS Leader,       \* the child that spawn starts
          Descendants,  \* the processes it may fork, directly or not
          MaxOutput,    \* maxOutputBytes, in chunks
          MaxWritten    \* bound: chunks one run may write

ASSUME ProcessAssumption == /\ Leader \notin Descendants
                            /\ MaxOutput \in Nat /\ MaxWritten \in Nat

Procs == {Leader} \cup Descendants
Reasons == {"spawn-error", "output-ceiling", "timeout", "cancelled", "signal",
            "exit", "surviving-descendant"}
VARIABLES proc,      \* operating system: what each process is
          group,     \* members of the child's group, zombies included
          pipes,     \* live processes that hold the write ends of stdout or stderr
          unread,    \* chunks in the pipes that node has not delivered
          captured,  \* chunks appended to stdout and stderr
          wait,      \* how the leader ended, for the parent to collect
          flags,     \* the booleans of the call that are set
          exitEvent, \* exitCode and exitSignal, once the exit event told them
          timer,     \* the timeout
          abort,     \* the caller's AbortSignal
          promise    \* the result

osVars == <<proc, group, pipes, wait>>
callVars == <<unread, captured, flags, exitEvent, timer, abort, promise>>
procVars == <<osVars, callVars>>

ProcInit == /\ proc = [p \in Procs |-> "unborn"]
            /\ group = {} /\ pipes = {} /\ unread = 0 /\ captured = 0
            /\ wait = "running" /\ flags = {} /\ exitEvent = "none"
            /\ timer = "none" /\ abort = "none" /\ promise = "idle"

Alive(p) == proc[p] = "alive"
Open == promise = "open"

(* kill(-pgid, 0) succeeds while any member, even a zombie, is left. *)
groupAlive == group # {}

(* SIGKILL reaches every live member of the group, and nobody else. *)
Victims == {p \in group : Alive(p)}
killGroup == /\ proc' = [p \in Procs |-> IF p \in Victims THEN "zombie" ELSE proc[p]]
             /\ pipes' = pipes \ Victims
             /\ wait' = IF Leader \in Victims THEN "signal" ELSE wait
             /\ UNCHANGED group

-----------------------------------------------------------------------------
(* A spawn that throws settles the promise at once; one that fails later   *)
(* reports through the error event; an aborted signal cancels in the next  *)
(* microtask.  The pipes are new ones, and so are the processes: what is   *)
(* left of an earlier run is out of the model.                             *)
runProcess ==
  /\ wait' = "running" /\ unread' = 0 /\ captured' = 0 /\ exitEvent' = "none"
  /\ flags' = {}
  /\ \/ /\ promise' = "spawn-error" /\ timer' = "none" /\ abort' = "none"
        /\ UNCHANGED <<proc, group, pipes>>
     \/ /\ promise' = "open" /\ timer' = "armed"
        /\ abort' \in {"none", "listening", "queued"}
        /\ \E spawned \in {"failed", "alive"} :
             LET born == IF spawned = "alive" THEN {Leader} ELSE {}
             IN /\ proc' = [p \in Procs |-> IF p = Leader THEN spawned ELSE "unborn"]
                /\ group' = born /\ pipes' = born

(* What finalize reports, in the order of BLOCK_REASONS. *)
CleanExit(f, e) ==
  f \cap {"spawnErr", "truncated", "timedOut", "cancelled"} = {} /\ e = "zero"
\* Mutant: what killed the child is not told apart from how it then ended.
ReasonOfFirstError(f, e, survivor) ==
  CASE e = "signal" -> "signal"
    [] e # "zero" -> "exit"
    [] survivor -> "surviving-descendant"
    [] OTHER -> "ok"
Reason(f, e, survivor) ==
  CASE "spawnErr" \in f -> "spawn-error"
    [] "truncated" \in f -> "output-ceiling"
    [] "timedOut" \in f -> "timeout"
    [] "cancelled" \in f -> "cancelled"
    [] e = "signal" -> "signal"
    [] e # "zero" -> "exit"
    [] survivor -> "surviving-descendant"
    [] OTHER -> "ok"

(* Every path ends by killing what is left of the group.                   *)
\* Mutant: the group is killed only when the child did not end well.
finalizeKillingUnclean(f) ==
  /\ promise' = Reason(f, exitEvent, CleanExit(f, exitEvent) /\ groupAlive)
  /\ timer' = "none" /\ abort' = "none"
  /\ IF groupAlive /\ ~CleanExit(f, exitEvent)
     THEN killGroup /\ flags' = f \cup {"killed"}
     ELSE flags' = f /\ UNCHANGED osVars
  /\ UNCHANGED <<unread, captured, exitEvent>>
finalize(f) ==
  /\ promise' = Reason(f, exitEvent, CleanExit(f, exitEvent) /\ groupAlive)
  /\ timer' = "none" /\ abort' = "none"
  /\ IF groupAlive THEN killGroup /\ flags' = f \cup {"killed"}
                   ELSE flags' = f /\ UNCHANGED osVars
  /\ UNCHANGED <<unread, captured, exitEvent>>

(* Node events wait for the microtask of a signal that was already aborted. *)
Turn == Open /\ abort # "queued"

onAbort ==
  /\ Open /\ abort \in {"listening", "queued"}
  /\ abort' = "none" /\ flags' = flags \cup {"cancelled", "killed"} /\ killGroup
  /\ UNCHANGED <<unread, captured, exitEvent, timer, promise>>

\* Mutant: the timeout is noted and nothing is killed.
onTimeoutMarking ==
  /\ Turn /\ timer = "armed"
  /\ timer' = "fired" /\ flags' = flags \cup {"timedOut", "killed"}
  /\ UNCHANGED <<osVars, unread, captured, exitEvent, abort, promise>>
onTimeout ==
  /\ Turn /\ timer = "armed"
  /\ timer' = "fired" /\ flags' = flags \cup {"timedOut", "killed"} /\ killGroup
  /\ UNCHANGED <<unread, captured, exitEvent, abort, promise>>

(* A chunk arrives; the first to pass the ceiling truncates and kills. *)
onData ==
  /\ Turn /\ unread > 0
  /\ unread' = unread - 1 /\ captured' = captured + 1
  /\ IF captured + 1 > MaxOutput /\ "truncated" \notin flags
     THEN flags' = flags \cup {"truncated", "killed"} /\ killGroup
     ELSE UNCHANGED <<flags, osVars>>
  /\ UNCHANGED <<exitEvent, timer, abort, promise>>

onError ==
  /\ Open /\ proc[Leader] = "failed"
  /\ finalize(flags \cup {"spawnErr"})

(* Node reaps the leader and emits exit. *)
onExit ==
  /\ Turn /\ proc[Leader] = "zombie"
  /\ proc' = [proc EXCEPT ![Leader] = "gone"] /\ group' = group \ {Leader}
  /\ exitEvent' = wait
  /\ UNCHANGED <<pipes, wait, unread, captured, flags, timer, abort, promise>>

(* close follows exit once both output pipes have reached their end. *)
onClose == /\ Turn /\ exitEvent # "none" /\ pipes = {} /\ unread = 0
           /\ finalize(flags)

-----------------------------------------------------------------------------
(* What the processes do. *)
fork(p, d) ==
  /\ Alive(p) /\ proc[d] = "unborn"
  /\ proc' = [proc EXCEPT ![d] = "alive"]
  /\ group' = IF p \in group THEN group \cup {d} ELSE group
  /\ pipes' = IF p \in pipes THEN pipes \cup {d} ELSE pipes
  /\ UNCHANGED <<wait, callVars>>

leave(d) == /\ Alive(d) /\ d \in group \ {Leader}
            /\ group' = group \ {d} /\ UNCHANGED <<proc, pipes, wait, callVars>>

closePipes(p) == /\ Alive(p) /\ p \in pipes
                 /\ pipes' = pipes \ {p} /\ UNCHANGED <<proc, group, wait, callVars>>

writeChunk(p) == /\ Open /\ p \in pipes /\ unread + captured < MaxWritten
            /\ unread' = unread + 1
            /\ UNCHANGED <<osVars, captured, flags, exitEvent, timer, abort, promise>>

exit(p, status) ==
  /\ Alive(p)
  /\ proc' = [proc EXCEPT ![p] = "zombie"] /\ pipes' = pipes \ {p}
  /\ wait' = IF p = Leader THEN status ELSE wait
  /\ UNCHANGED <<group, callVars>>

(* A dead descendant is collected by its parent or by init. *)
reap(d) == /\ proc[d] = "zombie"
           /\ proc' = [proc EXCEPT ![d] = "gone"] /\ group' = group \ {d}
           /\ UNCHANGED <<pipes, wait, callVars>>

NodeEvents == onAbort \/ onTimeout \/ onData \/ onError \/ onExit \/ onClose
World == \/ \E p \in Procs, d \in Descendants : fork(p, d)
         \/ \E d \in Descendants : leave(d) \/ reap(d)
         \/ \E p \in Procs : closePipes(p) \/ writeChunk(p)
         \/ \E p \in Procs, status \in {"zero", "nonzero", "signal"} : exit(p, status)

-----------------------------------------------------------------------------
(* A process that left the group keeps an output pipe of the call open: no *)
(* kill reaches it, and close waits for it.                                *)
EscapedHolder == pipes \ group # {}
=============================================================================
