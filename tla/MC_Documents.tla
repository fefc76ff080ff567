---------------------------- MODULE MC_Documents ----------------------------
(***************************************************************************)
(* What is written down before and during a run, and what is read from it. *)
(* The parts share no state, so a behaviour follows one of them:           *)
(*  - "command": every line of up to three tokens behind a command;        *)
(*  - "judge": plans right and wrong in scope, shape, order and write      *)
(*    scopes, judged with and without an intake;                           *)
(*  - "scope": two captures of three drafts, one incident, and a plan that *)
(*    is approved, edited once and driven;                                 *)
(*  - "capability": one operator, two consumers, one irreversible action;  *)
(*  - "checkpoint": one unit, a required phase, an optional one and one    *)
(*    of another name, one finding, receipts right and wrong, all by the   *)
(*    command line, and what the coordinator stamps;                       *)
(*  - "graph": three units, whose lists can form a chain, a fork and a     *)
(*    cycle;                                                               *)
(*  - "log": two keys that have a value or none, up to four lines, so that *)
(*    a crash, a repair and two further appends fit in one log;            *)
(*  - "journal": two workflows of one agent, two lines each.               *)
(***************************************************************************)
EXTENDS RunStatus, EventLog, WorkflowJournal, Authorization, PlanGate, PipelineCli

CONSTANTS op, c1, c2, a, b, c, x, i1, i2, key1, key2, v1

MCOperators == {op}
MCConsumers == {c1, c2}
MCActions == {"ship"}

\* Consumers are told apart by nothing.
Interchangeable == Permutations(MCConsumers)

UpTo(S, n) == UNION {[1..k -> S] : k \in 0..n}

MCTokens == {Flag("json"), FlagIs("json", "id"), Flag("run"), FlagIs("run", "id"),
             FlagIs("action", "action"), FlagIs("plan", "path"), Flag("config"),
             Word("path"), Word("id"), FlagIs("action", "empty")}
MCCommandLines ==
  {<<>>} \cup {<<first>> \o rest :
                 first \in {Command("approve"), Command("status"), Command("authorize"), Word("id")},
                 rest \in UpTo(MCTokens, 3)}

X(text) == Item("x", "plain", text)
Y == Item("y", "plain", "a")
Z == Item("z", "dotted", "a")
L == Item("l", "long", "a")
Selected == <<X("a"), Y>>
MCDrafts == {Selected, <<X("a")>>, <<X("a"), X("b")>>}

src == {<<"src">>}
docs == {<<"doc">>}
Names(ids) == [k \in 1..Len(ids) |-> Named(ids[k])]
One(t, ids) == Task(t, "plain", Names(ids), {}, IF t = "t1" THEN src ELSE docs)
Drops == {<<>>, <<Drop("x", TRUE, TRUE), Drop("x", TRUE, TRUE)>>}
         \cup {<<Drop(i, r, ack)>> : i \in {"x", "y", "w"}, r \in BOOLEAN, ack \in BOOLEAN}
ScopePlans ==
  {Plan(<<One("t1", m1), One("t2", m2)>>, <<<<"t1", "t2">>>>, scope, drops) :
     m1 \in UpTo({"x", "y", "w"}, 2), m2 \in {<<>>, <<"y">>},
     scope \in UpTo({X("a"), X("b"), Y, Z}, 2), drops \in Drops}

\* An item named by a list, and an extra one with an id only the validator takes.
OddPlans ==
  {Plan(<<Task("t1", "plain", entries, {}, src)>>, <<<<"t1">>>>, Selected \o more, <<>>) :
     entries \in UpTo({Named("x"), Named("y"), Named("l"), InAList("x"), InAList("y")}, 2),
     more \in {<<>>, <<L>>}}

Entries == {<<"src">>, <<"src", "">>, <<".", "src", "api">>, <<".">>, <<"..", "src">>,
            <<"", "src">>, <<"srcs">>}
Graph(d1, d2, w1, w2, layers) ==
  Plan(<<Task("t1", "plain", Names(<<"x">>), d1, w1), Task("t2", "plain", Names(<<"y">>), d2, w2)>>,
       layers, Selected, <<>>)
GraphPlans ==
  {Graph(d1, d2, src, docs, layers) :
     d1 \in SUBSET {"t1", "t2"}, d2 \in SUBSET {"t1", "t2", "w"},
     layers \in UpTo(UpTo({"t1", "t2"}, 2), 2)}
  \cup {Graph({}, {}, {e1}, {e2}, layers) :
          e1 \in Entries, e2 \in Entries,
          layers \in {<<<<"t1", "t2">>>>, <<<<"t1">>, <<"t2">>>>}}
MCEdits ==
  {Graph({}, {"t1"}, src, {<<"src", "api">>}, <<<<"t1">>, <<"t2">>>>),
   Plan(<<One("t1", <<"x">>)>>, <<<<"t1">>>>, Selected, <<Drop("y", TRUE, TRUE)>>),
   Plan(<<One("t1", <<"x">>)>>, <<<<"t1">>>>, <<X("a")>>, <<>>),
   Plan(<<One("t1", <<"x", "y">>)>>, <<<<"t1">>>>, <<X("b"), Y>>, <<>>)}
Twins == Plan(<<One("t1", <<"x">>), One("t1", <<"x", "y">>)>>, <<<<"t1">>>>, Selected, <<>>)
MCPlans == ScopePlans \cup OddPlans \cup GraphPlans \cup MCEdits \cup {Twins}
MCChangedPaths == Entries \cup {<<"src", "api">>, <<"src", "api", "v1">>, <<"srcs", "a">>}
APlan == Plan(<<One("t1", <<"x">>)>>, <<<<"t1">>>>, <<X("a")>>, <<>>)

MCUnits == {a, b, c}
MCUnknown == {x}
MCUnitStates == {"pending", "in_progress", "done"}
MCPhaseStates == [review |-> {"done"}, simplify |-> {"blocked", "skipped"}, audit |-> {"blocked", "done"}]
MCDepLists == (a :> {<<b, c>>}) @@ (b :> {<<c, x>>}) @@ (c :> {<<a>>})
MCRequired == {"review"}
MCOptional == {"simplify"}
MCOthers == {"audit"}
MCRequiredLists == {{}, {"review"}, {"simplify", "audit"}}
MCFindings == {"f1"}
MCRecipes == {"coordinator", "invalid"}

receipt(total, covered, dropped, uncovered) ==
  [total |-> total, covered |-> covered, dropped |-> dropped, uncovered |-> uncovered,
   errors |-> 0]
block(path, r) == [path |-> path, wellFormed |-> TRUE, intake |-> <<i1, i2>>, receipt |-> r]
MCPipelines == {block(TRUE, receipt(2, <<i1>>, <<i2>>, <<>>)),
                block(FALSE, receipt(2, <<i1>>, <<i2>>, <<>>)),
                block(TRUE, receipt(2, <<i1, i2>>, <<i2>>, <<>>))}

MCKeys == {key1, key2}
MCValues == {v1}

VARIABLE focus
others == <<storeVars, logVars, journalVars>>
allVars == <<focus, vars, gateVars, cliVars, others>>
AnEvent == CHOOSE e \in Events : TRUE

MCInit ==
  /\ focus \in {"command", "judge", "scope", "capability", "checkpoint", "graph", "log",
             "journal"}
  /\ Init /\ StoreInit /\ JournalInit
  /\ event = AnEvent /\ snapshotFile \in (IF focus = "log" THEN Docs \cup {NoDoc} ELSE {NoDoc}) /\ LogInit
  /\ CASE focus = "judge" -> dirFsync = TRUE
       [] focus = "scope" -> plan \in MCEdits
       [] OTHER -> dirFsync = TRUE /\ plan = APlan
  /\ PlanInit
  /\ IF focus = "command" THEN CliInit ELSE argv = <<>> /\ answer = Waiting

\* A snapshot that a capture left before the plan is judged.
Seed == /\ intakeFile = Missing
        /\ \E d \in {Selected, <<Z>>} : intakeFile' = Regular(d)
        /\ UNCHANGED <<durable, dirFsync, at, draft, captured, edited, incidents, planVars>>

MCNext ==
  /\ UNCHANGED focus
  /\ \/ focus = "command" /\ main /\ UNCHANGED <<vars, gateVars, others>>
     \/ focus = "judge" /\ (Seed \/ approve \/ drive) /\ UNCHANGED <<vars, cliVars, others>>
     \/ focus = "scope" /\ PlanNext /\ UNCHANGED <<vars, cliVars, others>>
     \/ focus = "capability" /\ Next /\ UNCHANGED <<gateVars, cliVars, others>>
     \/ focus \in {"checkpoint", "graph"} /\ CliNext
        /\ (focus = "checkpoint" => dependsOn' = dependsOn /\ units'[b] = Absent /\ units'[c] = Absent)
        /\ (focus = "graph" => UNCHANGED <<phases, openItems, finalValidation, pipeline, gating>>
                              /\ runStatus' \notin {"prepared", "awaiting_authorization"})
        /\ UNCHANGED <<vars, gateVars, cliVars, logVars, journalVars>>
     \/ focus = "log" /\ LogNext
        /\ UNCHANGED <<vars, gateVars, cliVars, storeVars, journalVars>>
     \/ focus = "journal" /\ JournalNext
        /\ UNCHANGED <<vars, gateVars, cliVars, storeVars, logVars>>
MCSpec == MCInit /\ [][MCNext]_allVars
=============================================================================
