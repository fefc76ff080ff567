--------------------------- MODULE ReviewWorkflow ---------------------------
(***************************************************************************)
(* review-workflow.js: one reviewer per lens over a diff, their findings   *)
(* merged by place, a panel of skeptics for each place, and a verdict over *)
(* the whole.  A reviewer or a skeptic that still answers nothing after    *)
(* its retries is dead; that is an outcome here.                           *)
(***************************************************************************)
EXTENDS Naturals, Sequences, FiniteSets, SequencesExt

CONSTANTS Lenses,      \* DIMENSIONS, a sequence
          Places,      \* dedup keys: file, line and start of the issue
          Severities,  \* that reviewers use, of the four
          MaxFindings, \* bound: of one reviewer
          Panel,       \* N_SKEPTICS
          Silent       \* no answer: the reviewer died

rank == [blocker |-> 0, concern |-> 1, nit |-> 2, fyi |-> 3]
Findings == [place : Places, severity : Severities]
Answers == {Silent} \cup UNION {[1..n -> Findings] : n \in 0..MaxFindings}

ASSUME ReviewAssumption ==
  /\ Lenses \in Seq(ToSet(Lenses)) /\ Lenses # <<>>
  /\ Severities \subseteq DOMAIN rank /\ MaxFindings \in Nat /\ Panel \in Nat \ {0}

VARIABLES answers,   \* lens -> its findings, or Silent when the reviewer died
          places,    \* what the merge kept: place -> severity
          panels,    \* place -> the votes of its panel
          report     \* the verdict, once given

reviewVars == <<answers, places, panels, report>>

ReviewInit == answers = <<>> /\ places = <<>> /\ panels = <<>> /\ report = "none"

gaps == {k \in DOMAIN answers : answers[k] = Silent}
raw == FlattenSeq([k \in DOMAIN answers |-> IF k \in gaps THEN <<>> ELSE answers[k]])

(* The highest severity is kept for a place. *)
\* Mutant: the last one written wins.
keepLast(kept, f) == [p \in DOMAIN kept \cup {f.place} |->
                        IF p = f.place THEN f.severity ELSE kept[p]]
keep(kept, f) ==
  [p \in DOMAIN kept \cup {f.place} |->
     IF p = f.place /\ (p \in DOMAIN kept => rank[f.severity] < rank[kept[p]])
     THEN f.severity ELSE kept[p]]
dedup(found) ==
  LET byKey[k \in 0..Len(found)] == IF k = 0 THEN <<>> ELSE keep(byKey[k - 1], found[k])
  IN byKey[Len(found)]

(* Blockers get two skeptics more. *)
panelSize(severity) == IF severity = "blocker" THEN Panel + 2 ELSE Panel

(* Half the panel, rounded up, must have voted for a verdict; a tie, or    *)
(* one refuter with a counterexample it is sure of, rejects.               *)
quorum(v) == v.confirms + v.refutes >= (v.of + 1) \div 2
verdictOf(v) ==
  IF ~quorum(v) THEN "unverified"
  ELSE IF v.confirms > v.refutes /\ ~v.hardRefute THEN "confirmed" ELSE "rejected"

-----------------------------------------------------------------------------
review(answer) ==
  /\ report = "none" /\ Len(answers) < Len(Lenses)
  /\ answers' = Append(answers, answer)
  /\ UNCHANGED <<places, panels, report>>

merge == /\ report = "none" /\ Len(answers) = Len(Lenses)
         /\ places' = dedup(raw) /\ report' = "verifying"
         /\ UNCHANGED <<answers, panels>>

verify(p) ==
  /\ report = "verifying" /\ p \in DOMAIN places \ DOMAIN panels
  /\ LET n == panelSize(places[p])
     IN \E confirms, refutes \in 0..n, hard \in BOOLEAN :
          /\ confirms + refutes <= n
          /\ hard => refutes > 0
          /\ panels' = [q \in DOMAIN panels \cup {p} |->
               IF q = p THEN [of |-> n, confirms |-> confirms, refutes |-> refutes,
                              hardRefute |-> hard]
               ELSE panels[q]]
  /\ UNCHANGED <<answers, places, report>>

clean == /\ gaps = {}
         /\ \A p \in DOMAIN places : verdictOf(panels[p]) = "rejected"
conclude == /\ report = "verifying" /\ DOMAIN panels = DOMAIN places
            /\ report' = IF clean THEN "clean" ELSE "open"
            /\ UNCHANGED <<answers, places, panels>>

ReviewNext == \/ \E a \in Answers : review(a)
              \/ merge \/ conclude
              \/ \E p \in Places : verify(p)

ReviewSpec == ReviewInit /\ [][ReviewNext]_reviewVars

-----------------------------------------------------------------------------
(* A diff is called clean only when every lens has answered and everything *)
(* any of them reported was rejected by a panel of the size its worst      *)
(* report calls for, at least half of which voted, and not most of whom    *)
(* confirmed it unless one had a counterexample.                           *)
CleanIsEarned ==
  report = "clean" =>
    /\ \A k \in DOMAIN Lenses : answers[k] # Silent
    /\ \A k \in DOMAIN Lenses : \A i \in DOMAIN answers[k] :
         LET f == answers[k][i]
             v == panels[f.place]
         IN /\ v.of >= panelSize(f.severity)
            /\ 2 * (v.confirms + v.refutes) >= v.of
            /\ v.refutes >= v.confirms \/ v.hardRefute
=============================================================================
