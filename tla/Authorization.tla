---------------------------- MODULE Authorization ----------------------------
(***************************************************************************)
(* The capability files of one run and the checkpoint fields they are      *)
(* bound to: authorization.mjs.                                            *)
(*                                                                         *)
(* A capability of a kind lives in one of four files, told apart by their  *)
(* suffix; O_EXCL creation and rename are atomic, everything else is read, *)
(* decided on, and acted on later.  Operators mint and revoke, consumers   *)
(* (start for the plan, the shipper for an action) verify, consume and     *)
(* act; the checkpoint is written under the checkpoint lock, which nobody  *)
(* holds while a capability is minted or consumed.                         *)
(*                                                                         *)
(* Hashes of the plan, the config and the intake are one input, which an   *)
(* edit may change; a checkpoint revision is the number of state-bearing   *)
(* changes.  Nonces, file modes and symbolic links are left out.           *)
(***************************************************************************)
EXTENDS Naturals, FiniteSets

CONSTANTS
  Operators,    \* processes that mint
  Consumers,    \* processes that consume and act
  Actions,      \* irreversible actions: ship, deploy, publish, remote-merge
  MaxChanges,   \* bound on the state-bearing changes of the checkpoint
  MaxEdits,     \* bound on the edits of plan, config or intake
  None

Kinds == {"plan"} \cup Actions

ASSUME AuthorizationAssumption ==
  /\ "plan" \notin Actions /\ None \notin Kinds
  /\ None \notin [bound : Nat, expired : BOOLEAN] /\ None \notin [kind : Kinds, bound : Nat]
  /\ MaxChanges \in Nat /\ MaxEdits \in Nat

VARIABLES
  status, live,      \* run status; an executor is active
  changes, input,    \* revision of the checkpoint, version of plan + config + intake
  pending,           \* pendingAuthorization: [kind, bound], or None
  file,              \* file[kind][suffix]: a capability or None
  oppc, request,     \* where each operator is, and what it is about to write
  cpc, present,      \* where each consumer is, and what it presents
  readDone,          \* an authorize is past its read of a done run
  uses               \* history: how often each kind was consumed

ckVars == <<status, live, changes, pending>>
vars == <<ckVars, input, file, oppc, request, cpc, present, readDone, uses>>

FileSuffixes == {"issued", "consumed", "completed", "revoked"}
Init ==
  /\ status = "prepared" /\ live = FALSE /\ changes = 0 /\ input = 0
  /\ pending = None
  /\ file = [k \in Kinds |-> [s \in FileSuffixes |-> None]]
  /\ oppc = [p \in Operators |-> "idle"] /\ request = [p \in Operators |-> None]
  /\ cpc = [c \in Consumers |-> "idle"] /\ present = [c \in Consumers |-> None]
  /\ readDone = FALSE /\ uses = [k \in Kinds |-> 0]

locate(kind) == {s \in FileSuffixes : file[kind][s] # None}
requireStatus(kind) == IF kind = "plan" THEN "prepared" ELSE "awaiting_authorization"

\* What a plan approval is bound to, and what an action capability is bound to.
bindings(kind) == IF kind = "plan" THEN input ELSE pending.bound

-----------------------------------------------------------------------------
\* issuePlanApproval, issueActionCapability: the checks on the checkpoint, and
\* the bindings read from it.
issue(p, kind) ==
  /\ oppc[p] = "idle"
  /\ ~live
  /\ status = requireStatus(kind)
  /\ kind \in Actions => pending # None /\ pending.kind = kind
  /\ request' = [request EXCEPT ![p] = [kind |-> kind, bound |-> bindings(kind)]]
  /\ oppc' = [oppc EXCEPT ![p] = "locate"]
  /\ UNCHANGED <<ckVars, input, file, cpc, present, uses, readDone>>

\* "ONE per key": no capability of this kind in any stage of its life.
missing(kind) == locate(kind) = {}

issueLocate(p) ==
  /\ oppc[p] = "locate"
  /\ oppc' = [oppc EXCEPT ![p] = IF missing(request[p].kind) THEN "create" ELSE "idle"]
  /\ UNCHANGED <<ckVars, input, file, request, cpc, present, uses, readDone>>

\* The O_EXCL write: it fails when an issued file is there by now.
issueCreate(p) ==
  LET kind == request[p].kind
      cap == [bound |-> request[p].bound, expired |-> FALSE]
  IN  /\ oppc[p] = "create"
      /\ oppc' = [oppc EXCEPT ![p] = "idle"]
      /\ file' = IF file[kind]["issued"] = None
                   THEN [file EXCEPT ![kind]["issued"] = cap]
                   ELSE file
      /\ UNCHANGED <<ckVars, input, request, cpc, present, uses, readDone>>

\* Time passes the expiry of an issued capability.
expire(kind) ==
  /\ file[kind]["issued"] # None
  /\ file' = [file EXCEPT ![kind]["issued"].expired = TRUE]
  /\ UNCHANGED <<ckVars, input, oppc, request, cpc, present, uses, readDone>>

revokeCapability(kind) ==
  /\ file[kind]["issued"] # None
  /\ file' = [file EXCEPT ![kind]["issued"] = None,
                          ![kind]["revoked"] = file[kind]["issued"]]
  /\ UNCHANGED <<ckVars, input, oppc, request, cpc, present, uses, readDone>>

-----------------------------------------------------------------------------
\* consumePlanApproval recomputes the hashes of its input; consumeActionCapability
\* reads a checkpoint halted for the action and recomputes its revision.
consume(c, kind) ==
  /\ cpc[c] = "idle"
  /\ kind = "plan" => status = "prepared"
  /\ kind \in Actions => /\ status = "awaiting_authorization"
                         /\ pending # None /\ pending.kind = kind
  /\ present' = [present EXCEPT ![c] =
                   [kind |-> kind, bound |-> IF kind = "plan" THEN input ELSE changes]]
  /\ cpc' = [cpc EXCEPT ![c] = "verify"]
  /\ UNCHANGED <<ckVars, input, file, oppc, request, uses, readDone>>

\* Mutant: the digest is not compared.
verifiesAnyDigest(cap, presented) == cap # None /\ ~cap.expired

\* verifyCapability: issued, not expired, digest of the bindings presented.
verifies(cap, presented) == cap # None /\ ~cap.expired /\ cap.bound = presented.bound

verifyCapability(c) ==
  /\ cpc[c] = "verify"
  /\ cpc' = [cpc EXCEPT ![c] =
               IF verifies(file[present[c].kind]["issued"], present[c]) THEN "rename" ELSE "idle"]
  /\ UNCHANGED <<ckVars, input, file, oppc, request, present, uses, readDone>>

\* Mutant: the consumed file is written next to the issued one.
copied(f, kind) == [f EXCEPT ![kind]["consumed"] = f[kind]["issued"]]

\* renameSync issued -> consumed.
renamed(f, kind) ==
  [f EXCEPT ![kind]["issued"] = None, ![kind]["consumed"] = f[kind]["issued"]]

\* Mutant: the rename is replaced by a write that cannot fail.
consumeWithoutRename(c) ==
  LET kind == present[c].kind
      cap == [bound |-> present[c].bound, expired |-> FALSE]
  IN  /\ cpc[c] = "rename"
      /\ file' = [file EXCEPT ![kind]["consumed"] = cap, ![kind]["issued"] = None]
      /\ uses' = [uses EXCEPT ![kind] = @ + 1]
      /\ cpc' = [cpc EXCEPT ![c] = "act"]
      /\ UNCHANGED <<ckVars, input, oppc, request, present, readDone>>

\* The single-winner rename: whoever finds no issued file is refused.
consumeRename(c) ==
  LET kind == present[c].kind
  IN  /\ cpc[c] = "rename"
      /\ IF file[kind]["issued"] # None
           THEN /\ file' = renamed(file, kind)
                /\ uses' = [uses EXCEPT ![kind] = @ + 1]
                /\ cpc' = [cpc EXCEPT ![c] = "act"]
           ELSE /\ cpc' = [cpc EXCEPT ![c] = "idle"]
                /\ UNCHANGED <<file, uses>>
      /\ UNCHANGED <<ckVars, input, oppc, request, present, readDone>>

\* What the capability was for: start stamps the run running, an action has its
\* effect outside the model.
act(c) ==
  /\ cpc[c] = "act"
  /\ IF present[c].kind = "plan"
       THEN status' = "running" /\ cpc' = [cpc EXCEPT ![c] = "idle"]
       ELSE UNCHANGED status /\ cpc' = [cpc EXCEPT ![c] = "complete"]
  /\ UNCHANGED <<live, changes, pending, input, file, oppc, request, present, uses, readDone>>

completeCapability(c) ==
  LET kind == present[c].kind
  IN  /\ cpc[c] = "complete"
      /\ file[kind]["issued"] = None /\ file[kind]["consumed"] # None
      /\ file' = [file EXCEPT ![kind]["consumed"] = None,
                              ![kind]["completed"] = file[kind]["consumed"]]
      /\ cpc' = [cpc EXCEPT ![c] = "idle"]
      /\ UNCHANGED <<ckVars, input, oppc, request, present, uses, readDone>>

\* The consumer dies: a capability it consumed stays outcome_unknown.
die(c) ==
  /\ cpc[c] \notin {"idle", "dead"}
  /\ cpc' = [cpc EXCEPT ![c] = "dead"]
  /\ UNCHANGED <<ckVars, input, file, oppc, request, present, uses, readDone>>

-----------------------------------------------------------------------------
authVars == <<input, file, oppc, request, cpc, present, readDone, uses>>

markPrepared ==
  /\ ~live
  /\ status' = "prepared"
  /\ UNCHANGED <<live, changes, pending, authVars>>

\* authorize goes on when it reads a done run.
authorize ==
  /\ status = "done" /\ ~readDone
  /\ readDone' = TRUE
  /\ UNCHANGED <<ckVars, input, file, oppc, request, cpc, present, uses>>

\* haltForAuthorization, under the lock: what authorize read may be old by now.
haltForAuthorization(kind) ==
  /\ readDone /\ readDone' = FALSE
  /\ ~live
  /\ status' = "awaiting_authorization"
  /\ pending' = [kind |-> kind, bound |-> changes]
  /\ UNCHANGED <<live, changes, input, file, oppc, request, cpc, present, uses>>

\* pipeline-engine.mjs, resume: any run that is not done and whose plan was
\* consumed goes on, a halted one included.
resume ==
  /\ status # "done"
  /\ file["plan"]["consumed"] # None
  /\ status' = "running"
  /\ UNCHANGED <<live, changes, pending, authVars>>

\* A unit is taken up or put down by the build, which changes the checkpoint.
work ==
  /\ status = "running"
  /\ changes < MaxChanges
  /\ changes' = changes + 1
  /\ live' = ~live
  /\ UNCHANGED <<status, pending, authVars>>

finish ==
  /\ status = "running" /\ ~live
  /\ status' = "done"
  /\ UNCHANGED <<live, changes, pending, authVars>>

\* Someone edits the plan, the config or the intake.
edit ==
  /\ input < MaxEdits
  /\ input' = input + 1
  /\ UNCHANGED <<ckVars, file, oppc, request, cpc, present, uses, readDone>>

Next ==
  \/ \E p \in Operators : (\E k \in Kinds : issue(p, k)) \/ issueLocate(p) \/ issueCreate(p)
  \/ \E k \in Kinds : expire(k) \/ revokeCapability(k)
  \/ \E c \in Consumers : \/ \E k \in Kinds : consume(c, k)
                          \/ verifyCapability(c) \/ consumeRename(c)
                          \/ act(c) \/ completeCapability(c) \/ die(c)
  \/ markPrepared \/ authorize
  \/ \E k \in Actions : haltForAuthorization(k)
  \/ resume \/ work \/ finish \/ edit

Spec == Init /\ [][Next]_vars

-----------------------------------------------------------------------------
\* One-use: two starts, two shippers, a crash after the consume, a revocation or
\* a re-approval never let a capability of one kind be consumed twice.
ConsumedAtMostOnce == \A k \in Kinds : uses[k] <= 1

\* Once revoked, a capability is never consumed, even by a consumer that had
\* verified it before.
RevokedNeverConsumed ==
  [][ \A k \in Kinds : file[k]["revoked"] # None => uses'[k] = uses[k] ]_vars

\* What is acted on is what was approved: the capability consumed was bound to
\* exactly the inputs, or the checkpoint revision, its consumer presented.
ActsOnWhatWasApproved ==
  \A c \in Consumers :
    cpc[c] \in {"act", "complete"} /\ file[present[c].kind]["consumed"] # None
      => file[present[c].kind]["consumed"].bound = present[c].bound

\* The files of a kind as one token: where it stands is the suffix it is found under.
suffixOf(files) ==
  IF \A s \in FileSuffixes : files[s] = None
    THEN "none" ELSE CHOOSE s \in FileSuffixes : files[s] # None
paperOf(files) ==
  LET at == suffixOf(files) IN IF at = "none" THEN None ELSE files[at].bound

tokenBar == [k \in Kinds |-> suffixOf(file[k])]
paperBar == [k \in Kinds |-> paperOf(file[k])]
holdingBar ==
  [c \in Consumers |-> IF cpc[c] \in {"act", "complete"} THEN present[c] ELSE None]

\* Files, suffixes and single renames add up to tokens: each kind is granted once, taken
\* by one consumer at most and for what it was granted for, never after it was
\* withdrawn, and completed by nobody but its consumer.
Token == INSTANCE OneUseToken WITH token <- tokenBar, paper <- paperBar, holding <- holdingBar
ImplementsOneUseToken == Token!TokenSpec

=============================================================================
