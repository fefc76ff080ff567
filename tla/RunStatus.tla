------------------------------ MODULE RunStatus ------------------------------
(***************************************************************************)
(* run-status.mjs: the read-only report over the document of a run.  It    *)
(* codes the resume set a second time, counts the units into buckets, and  *)
(* ends with what a reader should do next.  Colours, times and the wording *)
(* are left out; the overlay of running agents is WorkflowJournal.         *)
(***************************************************************************)
EXTENDS CheckpointCli

\* resumeSet.  The places in the list of d at which something stands that is not done.
finished == {u \in registered : units[u] = "done"}
missingDeps(d) ==
  {k \in IF d \in registered THEN DOMAIN dependsOn[d] ELSE {} : dependsOn[d][k] \notin finished}
firstMissing(d) == dependsOn[d][Min(missingDeps(d))]

\* A round of the loop: from the id it stands at on to the first that one misses.  It
\* ends at an id it has stood at before, or at one that misses nothing.
ended(w) == w.root \in w.seen \/ missingDeps(w.root) = {}
onward(w) ==
  IF ended(w) THEN w ELSE [root |-> firstMissing(w.root), seen |-> w.seen \cup {w.root}]

\* Where the loop stands after as many rounds as there are ids.
loop(first) ==
  LET rounds[n \in 0..Cardinality(Ids)] ==
        IF n = 0 THEN [root |-> first, seen |-> {}] ELSE onward(rounds[n - 1])
  IN rounds[Cardinality(Ids)]

\* Mutant: an if in the place of the while.
rootFoundEarly(u) == onward([root |-> firstMissing(u), seen |-> {}]).root
rootFound(u) == loop(firstMissing(u)).root

resumeSet ==
  [skip |-> finished,
   eligible |-> {u \in registered \ finished : missingDeps(u) = {}},
   dep_blocked |-> {<<u, rootFound(u)>> : u \in {v \in registered \ finished : missingDeps(v) # {}}}]

\* What the launch descriptor in the document authorizes.
classifyLaunch(recipe) ==
  CASE recipe = "coordinator" -> "codex-cli"
    [] recipe \in {"resumeless", "workflow"} -> "legacy-workflow"
    [] OTHER -> "no-launch"
resumeDescriptor(recipe) ==
  [runnable |-> classifyLaunch(recipe) = "codex-cli", kind |-> classifyLaunch(recipe),
   resumeSet |-> resumeSet]

buckets == [s \in {"pending", "in_progress", "done", "blocked", "dep_blocked"} |-> unitsIn(s)]

\* The closing line.
isLive == runStatus \in {"running", "needs_attention", "initializing"}
hasOpen == isLive \/ \E s \in {"blocked", "dep_blocked", "pending", "in_progress"} :
                       buckets[s] # {}
footer(recipe) ==
  CASE runStatus = "done" -> "done"
    [] runStatus = "aborted" -> "aborted"
    [] runStatus \notin {"done", "aborted"} /\ hasOpen ->
         (CASE resumeDescriptor(recipe).runnable -> "resume"
            [] classifyLaunch(recipe) = "legacy-workflow" -> "migration-only"
            [] OTHER -> "non-runnable")
    [] OTHER -> "complete"

\* render: the counts of the bar and of the chips, the register, the verdict.
render(recipe) ==
  [done |-> Cardinality(buckets["done"]), total |-> Cardinality(registered),
   chips |-> [s \in {"in_progress", "blocked", "dep_blocked", "pending"} |->
                Cardinality(buckets[s])],
   open |-> Cardinality(openItems), resolved |-> Cardinality(resolvedItems),
   final |-> finalValidation, footer |-> footer(recipe)]

-----------------------------------------------------------------------------
\* The report and the store describe one run: both codings of the resume set skip,
\* offer and block the same units and point triage at the same roots, no unit is left
\* out of the counts or counted twice, get --summary counts the same, and a run is closed
\* with "nothing pending" only while it waits for an operator, every unit of it done.
StatusAgrees ==
  runStatus # Absent =>
    LET set == resumeSet
    IN /\ set.eligible = eligible /\ {b[1] : b \in set.dep_blocked} = depBlocked
       /\ \A b \in set.dep_blocked : b[2] = rootOf(b[1])
       /\ registered = set.skip \cup eligible \cup depBlocked
       /\ \A recipe \in {"coordinator", "workflow", "none"} :
            LET seen == render(recipe)
            IN /\ seen.done = Cardinality(set.skip) /\ summary.done = seen.done
               /\ seen.total = seen.done + seen.chips["in_progress"] + seen.chips["blocked"]
                                + seen.chips["dep_blocked"] + seen.chips["pending"]
               /\ seen.footer = "complete" =>
                    /\ runStatus \in {"prepared", "awaiting_authorization"}
                    /\ \A u \in registered : units[u] = "done"
=============================================================================
