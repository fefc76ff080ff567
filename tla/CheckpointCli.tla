---------------------------- MODULE CheckpointCli ----------------------------
(***************************************************************************)
(* checkpoint.mjs: the commands that put the operations of CheckpointStore *)
(* behind a command line, which is how skills, agents and the legacy       *)
(* workflow write the document; beside them what the coordinator stamps.   *)
(* A command that is refused, by the parser or by the store, leaves the    *)
(* document alone and is no step.                                          *)
(*                                                                         *)
(* What follows an option is not given, dangling (the end of the line or   *)
(* another option) or a text; of a text only what it parses to matters.    *)
(***************************************************************************)
EXTENDS CheckpointStore

CONSTANT Recipes   \* launch descriptors that init may be given

Given == {"absent", "dangling", "text"}

\* opt: a dangling option ends the command.
opt(how) == how # "dangling"

\* csv: entries are trimmed and empty ones dropped, so no option is an empty list.
csv(how, list, none) == IF how = "text" THEN list ELSE none

\* validateLaunch: an object with a script path, and with arguments that are an object.
validateLaunch(recipe) == recipe \in {"coordinator", "resumeless", "workflow"}

\* init needs a task; everything else is optional, and --launch is judged before any
\* file is touched.
initCommand(task, ids, initial, phasesOpt, required, validated, launch, recipe) ==
  /\ task = "text" /\ opt(ids) /\ opt(phasesOpt) /\ opt(launch)
  /\ launch = "text" => validateLaunch(recipe)
  /\ init(csv(ids, initial, {}), csv(phasesOpt, required, {}), validated)

\* --deps replaces the list, also by an empty one; without it the list stays.
unitCommand(u, to, deps, list) ==
  /\ to \in UnitStates /\ opt(deps)
  /\ unit(u, to, csv(deps, list, dependsOn[u]))

phaseCommand(p, to) == to \in PhaseStates[p] /\ phase(p, to)

\* item takes one finding or an array of them.
itemCommand(json, f) == json = "text" /\ item(f)

\* resolve takes --ids or, failing that, --json.
resolveCommand(ids, json, f) ==
  /\ opt(ids)
  /\ ids = "absent" => json = "text"
  /\ resolve(f)

\* pass and ok are green, fail is red, any other word is refused.
Colour == [green |-> "green", pass |-> "green", ok |-> "green", red |-> "red", fail |-> "red"]
validationCommand(word, note) ==
  /\ word \in DOMAIN Colour /\ opt(note)
  /\ validation(Colour[word])

finalizeCommand(to, note) == opt(note) /\ finalize(to)

\* get --summary.
unitsIn(s) == {u \in registered : units[u] = s}
summary == [status |-> runStatus, total |-> Cardinality(registered),
            done |-> Cardinality(unitsIn("done")),
            open |-> [s \in {"blocked", "dep_blocked", "in_progress"} |-> unitsIn(s)]]

-----------------------------------------------------------------------------
CliNext ==
  \/ \E how \in Given, recipe \in Recipes, validated \in BOOLEAN :
       \E initial \in IF how = "text" THEN SUBSET Units ELSE {{}}, required \in RequiredLists :
         initCommand("text", how, initial, how, required, validated, how, recipe)
  \/ \E u \in Units, to \in UnitStates, deps \in Given : \E list \in DepLists[u] :
       unitCommand(u, to, deps, list)
  \/ \E p \in Phases : \E to \in PhaseStates[p] : phaseCommand(p, to)
  \/ \E f \in Findings : itemCommand("text", f) \/ resolveCommand("absent", "text", f)
  \/ \E word \in {"pass", "red", "blue"} : validationCommand(word, "absent")
  \/ \E p \in Pipelines : stampMeta(p)
  \/ statusPrepared \/ statusHalted \/ statusStamped
  \/ \E to \in {"done", "needs_attention", "aborted"}, note \in {"absent", "dangling"} : finalizeCommand(to, note)

CliSpec == StoreInit /\ [][CliNext]_storeVars
=============================================================================
