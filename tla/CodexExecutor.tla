--------------------------- MODULE CodexExecutor ---------------------------
(***************************************************************************)
(* runCodexTask and preflightCodex of codex-executor.mjs: the version, the *)
(* help and the task itself are three runs of runProcess in a row, and the *)
(* answer is read from the file the last one was told to write.            *)
(*                                                                         *)
(* What codex prints is an outcome.  The output file is on disk before the *)
(* call (a file of an earlier attempt may be there), and any process of    *)
(* this call that is alive may write it, one that left the group also      *)
(* after the call is answered.                                             *)
(***************************************************************************)
EXTENDS ProcessRunner

VARIABLES stage,   \* how far the call is
          output,  \* the file at outputLastMessage
          writer,  \* who wrote it last (history)
          message, \* what the call read from it
          task     \* the result of the call

codexVars == <<stage, output, writer, message, task>>
execVars == <<procVars, codexVars>>

Contents == {"absent", "unreadable", "malformed", "offschema", "valid"}
ExecInit == /\ ProcInit
            /\ stage = "idle" /\ task = "none"
            /\ output \in {"absent", "valid"} /\ writer = "earlier" /\ message = "none"

(* processMeta and the typed blocked result: the call is over. *)
blocked(reason) == /\ stage' = "done" /\ task' = reason
                   /\ UNCHANGED <<procVars, output, writer>>
early(reason) == blocked(reason) /\ UNCHANGED message
nextRun(s) == stage' = s /\ UNCHANGED <<output, writer, message, task>> /\ runProcess

-----------------------------------------------------------------------------
(* What buildCodexArgv tells apart: the sandbox tiers, one of them known    *)
(* only to be forbidden, and for each of the three paths whether it is     *)
(* absolute, climbs with "..", or holds a character of SHELL_META.  Every  *)
(* value passes into an argv, so no forbidden flag can appear in it.       *)
Tiers == {"read-only", "workspace-write", "danger-full-access"}
Shapes == {"absolute", "relative", "climbing", "unsafe", "dashed"}
buildCodexArgv(sandbox, paths) == sandbox # "danger-full-access" /\ paths = {"absolute"}

(* An empty prompt or an argument that buildCodexArgv refuses ends the     *)
(* call before any process; a caller that has vouched for the binary skips *)
(* the preflight.                                                          *)
runCodexTask(prompt, sandbox, paths) ==
  /\ stage = "idle"
  /\ IF prompt = "empty" \/ ~buildCodexArgv(sandbox, paths)
       THEN early("usage")
       ELSE nextRun("version") \/ nextRun("exec")

(* A run that did not end ok blocks the preflight; one that did is judged  *)
(* by what it printed.                                                     *)
preflightVersion ==
  /\ stage = "version" /\ promise \notin {"idle", "open"}
  /\ IF promise # "ok" THEN early("preflight-unavailable")
     ELSE early("preflight-version") \/ nextRun("help")

preflightFlags ==
  /\ stage = "help" /\ promise \notin {"idle", "open"}
  /\ IF promise # "ok" THEN early("preflight-unavailable")
     ELSE early("preflight-flags") \/ nextRun("exec")

(* A blocked run is surfaced as it is; after an ok one the file must be    *)
(* there, readable, JSON, and of the engineer-output shape.                *)
validateEngineerOutput(c) ==
  CASE c \in {"absent", "unreadable"} -> "missing-final-output"
    [] c = "malformed" -> "malformed-json"
    [] c = "valid" -> "ok"
    [] OTHER -> "schema-invalid"
readFinalOutput ==
  /\ stage = "exec" /\ promise \notin {"idle", "open"}
  /\ IF promise # "ok" THEN early(promise)
     ELSE blocked(validateEngineerOutput(output)) /\ message' = output

(* codex writes its final message, whole or not; a process that got away   *)
(* can do so whenever it likes.                                            *)
writeOutput(p, c) ==
  /\ stage \in {"exec", "done"} /\ Alive(p) /\ c # "absent"
  /\ output' = c /\ writer' = IF p \in group THEN "group" ELSE "escaped"
  /\ UNCHANGED <<procVars, stage, message, task>>

Running == NodeEvents \/ World
ExecNext ==
  \/ \E prompt \in {"empty", "text"}, sandbox \in Tiers, paths \in SUBSET Shapes \ {{}} :
       runCodexTask(prompt, sandbox, paths)
  \/ preflightVersion \/ preflightFlags \/ readFinalOutput
  \/ \E p \in Procs, c \in Contents : writeOutput(p, c)
  \/ Running /\ UNCHANGED codexVars

(* The event loop delivers what is due, the clock reaches the timeout, and *)
(* init collects the dead.  The processes themselves owe nothing.          *)
ExecFairness ==
  /\ WF_execVars(NodeEvents /\ UNCHANGED codexVars)
  /\ WF_execVars(onTimeout /\ UNCHANGED codexVars)
  /\ WF_execVars(onExit /\ UNCHANGED codexVars)
  /\ WF_execVars(preflightVersion \/ preflightFlags \/ readFinalOutput)

ExecSpec == ExecInit /\ [][ExecNext]_execVars /\ ExecFairness

-----------------------------------------------------------------------------
(* Whatever the result, no process of the group is alive when the caller   *)
(* has it: a worktree that the coordinator commits or removes next has no  *)
(* agent left in it, except one that left the group on purpose.            *)
AgentsDieWithTheirRun ==
  promise \notin {"idle", "open"} => \A p \in group : ~Alive(p)

(* An ok task is one whose child ended by itself with status zero, that    *)
(* nothing was killed for, whose output stayed under the ceiling, and      *)
(* whose file - written by this call or left by an earlier attempt - was   *)
(* read when it was whole and of the right shape.  That file still says    *)
(* what the call read, unless a process that left the group wrote it after *)
(* the answer.                                                             *)
OkIsEarned ==
  task = "ok" =>
    /\ wait = "zero" /\ exitEvent = "zero" /\ flags = {}
    /\ captured <= MaxOutput /\ unread = 0
    /\ message = "valid" /\ (output # message => writer = "escaped")

(* Every call is answered, as each of its runs is bounded in time, unless  *)
(* a process left the group with a pipe of the run in its hands.           *)
EveryTaskIsAnswered == stage \notin {"idle", "done"} ~> stage = "done" \/ EscapedHolder
=============================================================================
