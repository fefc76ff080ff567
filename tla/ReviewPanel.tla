---------------------------- MODULE ReviewPanel ----------------------------
(***************************************************************************)
(* review-panel.mjs: one review, from the dispatch of the dimensions to    *)
(* the register of findings.                                               *)
(*                                                                         *)
(* The panel is sequential and its steps are separated by the awaits on    *)
(* its agents and by its writes to the checkpoint.  The ledger appears as  *)
(* what the panel sees of it: a reservation is refused once the budget has *)
(* stopped, and may be refused for any limit before (BudgetLedger).        *)
(***************************************************************************)
EXTENDS Naturals, Sequences, FiniteSets

CONSTANTS
  Dimensions,    \* sequence of [name, required]
  Outputs,       \* what a dimension can report: sets of [finding, severity]
  VerifierPanel, \* sequence of [id, origin]: the declared skeptics
  Findings,      \* findings, by stable id
  Reported,      \* sets of findings the register can hold before, from the build's panels
  MaxRefusals,   \* bound on the checkpoint writes that are refused
  Dead           \* answer of an agent that threw or returned no valid output

IsList(s) == s \in Seq({s[i] : i \in DOMAIN s})

ASSUME PanelAssumption ==
  /\ IsList(Dimensions) /\ IsList(VerifierPanel)
  /\ \A out \in Outputs : \A r \in out : r.finding \in Findings
  /\ Len(Dimensions) > 0 /\ Reported \subseteq SUBSET Findings
  /\ MaxRefusals \in Nat /\ Dead \notin Outputs

VARIABLES
  panel,         \* step of the panel
  dim,           \* next dimension
  coverage,      \* dimensions that reported
  blockedReasons,   \* required dimensions that did not
  rawFindings,   \* reports: [dimension, finding, severity]
  subject, turn, \* finding before the skeptics, next of the panel
  votes,         \* finding -> ballots [verifier, refuted]
  verdict,       \* finding -> disposition, "none" before
  openItems, resolvedItems,   \* the register in the checkpoint
  held,          \* open reservations
  stopped,       \* the budget has stopped
  refusals

reviewVars == <<dim, coverage, blockedReasons, rawFindings, subject, turn, votes, verdict>>
registerVars == <<openItems, resolvedItems>>
panelVars == <<panel, reviewVars, registerVars, held, stopped, refusals>>

PanelInit ==
  /\ panel = "idle"
  /\ dim = 1 /\ coverage = {} /\ blockedReasons = {} /\ rawFindings = {}
  /\ subject = "none" /\ turn = 1
  /\ votes = [f \in Findings |-> {}] /\ verdict = [f \in Findings |-> "none"]
  /\ openItems \in Reported /\ resolvedItems = {}
  /\ held = 0 /\ stopped = FALSE /\ refusals = 0

\* Nothing of a review but the register outlives the call.
forgetReview ==
  /\ dim' = 1 /\ coverage' = {} /\ blockedReasons' = {} /\ rawFindings' = {}
  /\ subject' = "none" /\ turn' = 1
  /\ votes' = [f \in Findings |-> {}] /\ verdict' = [f \in Findings |-> "none"]

\* A write to the checkpoint is accepted, or refused while the bound allows.
accepted(ok) ==
  /\ ok \/ refusals < MaxRefusals
  /\ refusals' = IF ok THEN refusals ELSE refusals + 1

-----------------------------------------------------------------------------
\* Dimensions.  A required one that does not report is a reason to block.
isMissing(d) == IF Dimensions[d].required THEN {Dimensions[d].name} ELSE {}

\* It has no function, or the ledger refuses its reservation.
skipDimension ==
  /\ panel = "dimensions" /\ dim <= Len(Dimensions)
  /\ dim' = dim + 1
  /\ blockedReasons' = blockedReasons \cup isMissing(dim)
  /\ UNCHANGED <<panel, coverage, rawFindings, subject, turn, votes, verdict, registerVars,
                 held, stopped, refusals>>

dispatchDimension ==
  /\ panel = "dimensions" /\ dim <= Len(Dimensions)
  /\ ~stopped
  /\ panel' = "dimension" /\ held' = held + 1
  /\ UNCHANGED <<reviewVars, registerVars, stopped, refusals>>

dimensionReturns(out) ==
  LET name == Dimensions[dim].name
  IN  /\ panel = "dimension"
      /\ panel' = "dimensions" /\ held' = held - 1 /\ dim' = dim + 1
      /\ IF out = Dead
           THEN /\ blockedReasons' = blockedReasons \cup isMissing(dim)
                /\ UNCHANGED <<coverage, rawFindings>>
           ELSE /\ coverage' = coverage \cup {name}
                /\ rawFindings' = rawFindings \cup
                     {[dimension |-> name, finding |-> r.finding, severity |-> r.severity] : r \in out}
                /\ UNCHANGED blockedReasons
      /\ UNCHANGED <<subject, turn, votes, verdict, registerVars, stopped, refusals>>

\* dedupFindings: one finding an id, with every origin and the worst severity.
findings == {r.finding : r \in rawFindings}
origins(f) == {r.dimension : r \in {x \in rawFindings : x.finding = f}}
isBlocker(f) == [finding |-> f, severity |-> "blocker"] \in
                  {[finding |-> r.finding, severity |-> r.severity] : r \in rawFindings}

-----------------------------------------------------------------------------
\* Verdicts, one finding after the other.
undecided == {f \in findings : verdict[f] = "none"}
deciding == panel = "dimensions" /\ dim > Len(Dimensions)

\* Only evidence the coordinator observed resolves, without a vote.
coordinatorEvidence(f) ==
  /\ deciding /\ f \in undecided
  /\ verdict' = [verdict EXCEPT ![f] = "resolved"]
  /\ UNCHANGED <<panel, dim, coverage, blockedReasons, rawFindings, subject, turn, votes,
                 registerVars, held, stopped, refusals>>

verifyFinding(f) ==
  /\ deciding /\ f \in undecided
  /\ panel' = "verify" /\ subject' = f /\ turn' = 1
  /\ UNCHANGED <<dim, coverage, blockedReasons, rawFindings, votes, verdict, registerVars,
                 held, stopped, refusals>>

seen == {b.verifier : b \in votes[subject]}

\* Mutant: a skeptic may judge what its own dimension reported.
mayVoteOnItsOwn(v) == v.id \notin seen

\* A skeptic is independent of the finding and has one ballot.
mayVote(v) == v.origin \notin origins(subject) /\ v.id \notin seen

\* Not independent, a duplicate, or refused by the ledger.
passOver ==
  /\ panel = "verify" /\ turn <= Len(VerifierPanel)
  /\ turn' = turn + 1
  /\ UNCHANGED <<panel, dim, coverage, blockedReasons, rawFindings, subject, votes, verdict,
                 registerVars, held, stopped, refusals>>

callVerifier ==
  /\ panel = "verify" /\ turn <= Len(VerifierPanel)
  /\ mayVote(VerifierPanel[turn])
  /\ ~stopped
  /\ panel' = "vote" /\ held' = held + 1
  /\ UNCHANGED <<reviewVars, registerVars, stopped, refusals>>

verifierReturns(vote) ==
  /\ panel = "vote"
  /\ panel' = "verify" /\ held' = held - 1 /\ turn' = turn + 1
  /\ votes' = IF vote = Dead THEN votes
              ELSE [votes EXCEPT ![subject] =
                      @ \cup {[verifier |-> VerifierPanel[turn].id, refuted |-> vote]}]
  /\ UNCHANGED <<dim, coverage, blockedReasons, rawFindings, subject, verdict, registerVars,
                 stopped, refusals>>

\* Half of the declared panel, rounded up: dead and excluded skeptics count in it.
quorumFloor == IF Len(VerifierPanel) = 0 THEN 1 ELSE (Len(VerifierPanel) + 1) \div 2

tally ==
  LET ballots == votes[subject]
      refutes == Cardinality({b \in ballots : b.refuted})
      confirms == Cardinality(ballots) - refutes
      outcome == IF Cardinality(ballots) < quorumFloor \/ refutes = confirms THEN "unverified"
                 ELSE IF refutes > confirms THEN "refuted" ELSE "confirmed"
  IN  /\ panel = "verify" /\ turn > Len(VerifierPanel)
      /\ panel' = "dimensions" /\ subject' = "none" /\ turn' = 1
      /\ verdict' = [verdict EXCEPT ![subject] = outcome]
      /\ UNCHANGED <<dim, coverage, blockedReasons, rawFindings, votes, registerVars, held,
                     stopped, refusals>>

-----------------------------------------------------------------------------
\* The register: blocking findings are opened, cleared ones pass through it.
blocking == {f \in findings : \/ verdict[f] = "unverified"
                              \/ verdict[f] = "confirmed" /\ isBlocker(f)}
cleared == {f \in findings : verdict[f] \in {"resolved", "refuted"}}

\* item and resolve of the store.  A write that is refused ends the review.
register(ok) ==
  /\ deciding /\ undecided = {}
  /\ blocking # {} \/ ok
  /\ accepted(ok)
  /\ panel' = IF ok THEN "clear" ELSE "threw"
  /\ openItems' = IF ok THEN openItems \cup blocking ELSE openItems
  /\ UNCHANGED <<reviewVars, resolvedItems, held, stopped>>

clear(ok) ==
  /\ panel = "clear"
  /\ cleared # {} \/ ok
  /\ accepted(ok)
  /\ panel' = IF ok THEN "resolve" ELSE "threw"
  /\ openItems' = IF ok THEN openItems \cup cleared ELSE openItems
  /\ UNCHANGED <<reviewVars, resolvedItems, held, stopped>>

resolveCleared(ok) ==
  /\ panel = "resolve"
  /\ cleared # {} \/ ok
  /\ accepted(ok)
  /\ panel' = IF ok THEN "reviewed" ELSE "threw"
  /\ openItems' = IF ok THEN openItems \ cleared ELSE openItems
  /\ resolvedItems' = IF ok THEN resolvedItems \cup cleared ELSE resolvedItems
  /\ UNCHANGED <<reviewVars, held, stopped>>

canAdvanceShipPrep == panel = "reviewed" /\ blockedReasons = {} /\ blocking = {}

PanelNext ==
  \/ skipDimension
  \/ dispatchDimension
  \/ \E out \in Outputs \cup {Dead} : dimensionReturns(out)
  \/ \E f \in Findings : coordinatorEvidence(f) \/ verifyFinding(f)
  \/ passOver
  \/ callVerifier
  \/ \E vote \in BOOLEAN \cup {Dead} : verifierReturns(vote)
  \/ tally
  \/ \E ok \in BOOLEAN : register(ok) \/ clear(ok) \/ resolveCleared(ok)
=============================================================================
