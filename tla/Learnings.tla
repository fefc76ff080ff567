----------------------------- MODULE Learnings -----------------------------
(***************************************************************************)
(* auto-learn's router, route-learnings.mjs: the learnings of a run are    *)
(* judged, merged by id, and written into the generated block of the       *)
(* nearest AGENTS.md.                                                      *)
(*                                                                         *)
(* The block is the router's only memory: a later run reads back the lines *)
(* of an earlier one, merges its own into them and writes the block anew.  *)
(* One run is at work at a time; it may die between two files or in the    *)
(* write of one, which empties the file before it fills it, and people     *)
(* edit the files between two runs.  Ids, rules, evidence and verification *)
(* are names; of their wording two things matter: whether it breaks the    *)
(* line it stands in, and whether replace takes it for a pattern.  A text  *)
(* that imitates the punctuation of a line, or the marks of the block, and *)
(* the doubled dollar sign, of which replace keeps one, are left out.      *)
(***************************************************************************)
EXTENDS Naturals, Sequences, FiniteSets

CONSTANTS
  Dirs, Root,      \* directories of the project
  parentDir,       \* directory -> the one above it; the root is its own
  Inputs,          \* what the router can be given: sequences of records
  Multiline,       \* the texts that hold a line break
  Patterns,        \* the texts that hold a pattern of replace: $&, $`, $'
  MaxSurvivors,    \* MAX_SURVIVORS, five in the code
  MaxRoutes, MaxHumanEdits    \* bounds on the runs, on the edits by people

VARIABLES
  agentsMd,        \* directory -> its AGENTS.md, or NoFile
  patches,         \* file of the run at work -> learnings still to write there
  rewriting,       \* the write under way: one or none
  applies,         \* whether that run was given --apply
  routes, humanEdits

learnVars == <<agentsMd, patches, rewriting, applies, routes, humanEdits>>

NoBlock == <<>>
NoPatches == <<>>
File(text, block) == [text |-> text, block |-> block]
NoFile == File("absent", NoBlock)

LearnInit ==
  /\ agentsMd = [d \in Dirs |-> NoFile]
  /\ patches = NoPatches /\ rewriting = {} /\ applies = FALSE
  /\ routes = 0 /\ humanEdits = 0

-----------------------------------------------------------------------------
\* What a record can have against it; whether its scope exists is looked up.
Flaws == {"malformed", "missing_field", "machine_defect", "missing_evidence", "unverified",
          "secret", "path_traversal"}

Accepted(rec) == rec.flaws \cap Flaws = {} /\ rec.scope \in Dirs

\* One survivor per id: the words of the first record, the evidence of all.
survivors(input) ==
  LET accepted == {i \in DOMAIN input : Accepted(input[i])}
      same(i) == {j \in accepted : input[j].id = input[i].id}
  IN  {[id |-> input[i].id, rule |-> input[i].rule, scope |-> input[i].scope,
        verification |-> input[i].verification,
        evidence |-> UNION {input[j].evidence : j \in same(i)}] :
         i \in {k \in accepted : \A j \in same(k) : k <= j}}

tooMany(input) == Cardinality(survivors(input)) > MaxSurvivors

\* The nearest file at or above the scope, or the one the root will get.
targetFor(scope) ==
  LET above[d \in Dirs] == IF agentsMd[d] # NoFile \/ d = Root THEN d ELSE above[parentDir[d]]
  IN  above[scope]

groups(input) ==
  [d \in {targetFor(s.scope) : s \in survivors(input)} |->
     {s \in survivors(input) : targetFor(s.scope) = d}]

-----------------------------------------------------------------------------
texts(i, line) == {i, line.rule, line.verification} \cup line.evidence

\* A line is one learning again only when it is one line.
OneLine(i, line) == texts(i, line) \cap Multiline = {}

parseBlock(block) == [i \in {j \in DOMAIN block : OneLine(j, block[j])} |-> block[i]]

lineFor(s, evidence) ==
  [rule |-> s.rule, evidence |-> evidence, verification |-> s.verification]

\* Mutant: the block is built from this run alone.
buildBlockAfresh(block, group) ==
  [i \in {s.id : s \in group} |->
     LET s == CHOOSE x \in group : x.id = i IN lineFor(s, s.evidence)]

\* Seeded from the block that is there: new words replace the old ones, evidence
\* adds up.
buildBlock(block, group) ==
  LET prior == parseBlock(block)
  IN  [i \in DOMAIN prior \cup {s.id : s \in group} |->
         IF \A s \in group : s.id # i
           THEN prior[i]
           ELSE LET s == CHOOSE x \in group : x.id = i
                IN  lineFor(s, s.evidence \cup
                                 (IF i \in DOMAIN prior THEN prior[i].evidence ELSE {}))]

\* A new block goes over an old one by replace, which expands the patterns in it.
expands(file, block) ==
  DOMAIN file.block # {} /\ \E i \in DOMAIN block : texts(i, block[i]) \cap Patterns # {}

\* What that leaves: the old block, or what stood around it, in the middle of a line.
\* Lines behind it are lost, and old ones back.
expansions(old, block) ==
  {[i \in new \cup back |-> IF i \in back THEN old[i] ELSE block[i]] :
     new \in SUBSET DOMAIN block, back \in SUBSET DOMAIN old}

\* What stands outside the block stays; a file that is not there is created.
splices(file, group) ==
  LET block == buildBlock(file.block, group)
      text == IF file = NoFile THEN "none" ELSE file.text
  IN  {File(text, b) : b \in IF expands(file, block) THEN expansions(file.block, block)
                                                     ELSE {block}}

-----------------------------------------------------------------------------
\* A run judges its input and groups the survivors, or refuses all of them.
route(input, apply) ==
  /\ patches = NoPatches /\ routes < MaxRoutes
  /\ routes' = routes + 1 /\ applies' = apply
  /\ patches' = IF tooMany(input) THEN NoPatches ELSE groups(input)
  /\ UNCHANGED <<agentsMd, rewriting, humanEdits>>

done(d) == patches' = [e \in DOMAIN patches \ {d} |-> patches[e]]

\* One file is patched: writeFileSync empties it first.  A dry run, and a file that is
\* up to date, write nothing.
patch(d) ==
  /\ d \in DOMAIN patches /\ rewriting = {}
  /\ \E after \in splices(agentsMd[d], patches[d]) :
       IF applies /\ after # agentsMd[d]
         THEN /\ rewriting' = {[dir |-> d, before |-> agentsMd[d], after |-> after,
                                expands |-> expands(agentsMd[d],
                                                    buildBlock(agentsMd[d].block, patches[d]))]}
              /\ agentsMd' = [agentsMd EXCEPT ![d] = File("none", NoBlock)]
              /\ UNCHANGED patches
         ELSE done(d) /\ UNCHANGED <<agentsMd, rewriting>>
  /\ UNCHANGED <<applies, routes, humanEdits>>

\* The write is complete.
written(d) ==
  /\ \E w \in rewriting : w.dir = d /\ agentsMd' = [agentsMd EXCEPT ![d] = w.after]
  /\ rewriting' = {} /\ done(d)
  /\ UNCHANGED <<applies, routes, humanEdits>>

\* The run dies, in a write with what got into the file by then: a block that is cut
\* has no end, and is none.
dieRouting ==
  /\ patches # NoPatches /\ patches' = NoPatches /\ rewriting' = {}
  /\ \/ UNCHANGED agentsMd
     \/ \E w \in rewriting, t \in {"none", "human"}, b \in BOOLEAN :
          /\ t \in {"none", w.after.text}
          /\ agentsMd' = [agentsMd EXCEPT ![w.dir] =
                            File(t, IF b THEN w.after.block ELSE NoBlock)]
  /\ UNCHANGED <<applies, routes, humanEdits>>

\* People write outside of the block, and add files nearer to the code.
humanEdit(d) ==
  /\ patches = NoPatches /\ humanEdits < MaxHumanEdits
  /\ humanEdits' = humanEdits + 1
  /\ agentsMd' = [agentsMd EXCEPT ![d] =
                    File("human", agentsMd[d].block)]
  /\ UNCHANGED <<patches, rewriting, applies, routes>>

LearnNext ==
  \/ \E input \in Inputs, apply \in BOOLEAN : route(input, apply)
  \/ \E d \in Dirs : patch(d) \/ written(d) \/ humanEdit(d)
  \/ dieRouting

-----------------------------------------------------------------------------
\* A file that is being written counts as what it was before.
contentOf(d) ==
  IF \E w \in rewriting : w.dir = d THEN (CHOOSE w \in rewriting : w.dir = d).before
                                    ELSE agentsMd[d]

\* The two ways in which a write can lose what stood there: the run dies in it, or the
\* new block holds a pattern.
Lossy(d) == \E w \in rewriting : w.dir = d /\ (w.expands \/ dieRouting)

\* Every other step keeps what a file has learned in one line, with all its evidence,
\* and what people wrote around it: whatever later runs bring, reword, refuse or leave
\* half done.
OneLinersAreKept ==
  [][ \A d \in Dirs : ~Lossy(d) =>
        /\ \A i \in DOMAIN contentOf(d).block : OneLine(i, contentOf(d).block[i]) =>
             /\ i \in DOMAIN contentOf(d)'.block
             /\ contentOf(d).block[i].evidence \subseteq contentOf(d)'.block[i].evidence
        /\ contentOf(d).text = "human" => contentOf(d)'.text = "human" ]_learnVars

\* Claimed by auto-learn/SKILL.md:134: prior learnings are merged forward, never
\* dropped.  Not even by a write that is complete and has no pattern in it.
NeverDropped ==
  [][ \A d \in Dirs : ~Lossy(d) =>
        DOMAIN contentOf(d).block \subseteq DOMAIN contentOf(d)'.block ]_learnVars
=============================================================================
