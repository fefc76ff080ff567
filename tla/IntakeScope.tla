----------------------------- MODULE IntakeScope -----------------------------
(***************************************************************************)
(* intake-scope.mjs and capture-intake.mjs: the scope the user selected is *)
(* written once, before there is a plan, and read at every gate after it.  *)
(* Captures may race; a capturer may die between any two steps; the power  *)
(* may fail, which takes a link that no directory fsync has made durable;  *)
(* and somebody may edit or delete the file by hand.                       *)
(*                                                                         *)
(* A snapshot is the sequence of items it preserves.  The digest over it   *)
(* appears as what it is for: bytes that are not what a capture wrote do   *)
(* not parse ("damaged").  The run id and the user's words are left out.   *)
(***************************************************************************)
EXTENDS Naturals, Sequences, FiniteSets

CONSTANTS Capturers,    \* processes that run capture-intake
          Drafts,       \* drafts they are given
          MaxIncidents  \* bound: deaths, power failures and edits

(* The characters of an id are safe everywhere ("plain"), or for intake,   *)
(* engine and workflow only ("dotted": it has a dot), or nowhere           *)
(* ("unsafe").  A "long" one is plain but over the 128 characters that all *)
(* but validate-plan ask for.                                              *)
Item(id, form, text) == [id |-> id, form |-> form, text |-> text]
SafeId(entry) == entry.form \in {"plain", "dotted"}

IdsOf(items) == {items[i].id : i \in 1..Len(items)}
ItemsOf(items) == {items[i] : i \in 1..Len(items)}

ASSUME IntakeAssumption == /\ MaxIncidents \in Nat
                           /\ \A d \in Drafts : d \in Seq(ItemsOf(d))

(* normalizeSelectedScope and buildIntakeSnapshot: a draft is taken whole  *)
(* or not at all.                                                          *)
validDraft(items) == /\ items # <<>>
                     /\ \A i \in 1..Len(items) : SafeId(items[i]) /\ items[i].text # ""
                     /\ Cardinality(IdsOf(items)) = Len(items)

VARIABLES intakeFile, \* the directory entry of the snapshot and its inode
          durable,   \* the entry survives a power failure
          dirFsync,  \* the platform can fsync a directory
          at,        \* where each capturer is
          draft,     \* its draft, which its temporary file holds
          captured,  \* snapshots that captures answered with
          edited,    \* somebody touched the file by hand
          incidents

intakeVars == <<intakeFile, durable, dirFsync, at, draft, captured, edited, incidents>>

Missing == [state |-> "missing", items |-> <<>>]
Regular(items) == [state |-> "readable", items |-> items]
IntakeInit == /\ intakeFile = Missing /\ durable = FALSE /\ dirFsync \in BOOLEAN
              /\ at = [c \in Capturers |-> "idle"]
              /\ draft = [c \in Capturers |-> <<>>]
              /\ captured = {} /\ edited = FALSE /\ incidents = 0

goes(c, where) == at' = [at EXCEPT ![c] = where]

-----------------------------------------------------------------------------
(* readRegularFile and parseIntakeSnapshot: missing, not a read-only       *)
(* regular file, not what its digest says, or the snapshot.                *)
readable(f) == f.state = "readable" /\ validDraft(f.items)

(* The temporary file is complete, synced and read-only before it has a    *)
(* name anybody reads.                                                     *)
captureIntakeSnapshot(c, d) ==
  /\ at[c] = "idle" /\ validDraft(d)
  /\ draft' = [draft EXCEPT ![c] = d] /\ goes(c, "link")
  /\ UNCHANGED <<intakeFile, durable, dirFsync, captured, edited, incidents>>

(* A hard link creates the name or fails; a name that is there must be the *)
(* same bytes, or the capture is refused.                                  *)
\* Mutant: the name is taken whether or not it is there.
renameSync(c) ==
  /\ at[c] = "link"
  /\ intakeFile' = Regular(draft[c]) /\ durable' = FALSE /\ goes(c, "sync")
  /\ UNCHANGED <<dirFsync, draft, captured, edited, incidents>>
linkSync(c) ==
  /\ at[c] = "link"
  /\ IF intakeFile.state = "missing"
     THEN intakeFile' = Regular(draft[c]) /\ durable' = FALSE /\ goes(c, "sync")
     ELSE /\ IF intakeFile = Regular(draft[c]) THEN goes(c, "sync") ELSE goes(c, "idle")
          /\ UNCHANGED <<intakeFile, durable>>
  /\ UNCHANGED <<dirFsync, draft, captured, edited, incidents>>

(* The directory is synced by whoever gets here, the loser of a race       *)
(* included; the failure of the sync is swallowed.                         *)
fsyncDir(c) == /\ at[c] = "sync" /\ goes(c, "readback")
               /\ durable' = (durable \/ (dirFsync /\ intakeFile.state # "missing"))
               /\ UNCHANGED <<intakeFile, dirFsync, draft, captured, edited, incidents>>

(* The answer is what is read back, after the temporary file is gone.      *)
readBack(c) == /\ at[c] = "readback" /\ goes(c, "idle")
               /\ captured' = IF readable(intakeFile) THEN captured \cup {intakeFile.items} ELSE captured
               /\ UNCHANGED <<intakeFile, durable, dirFsync, draft, edited, incidents>>

-----------------------------------------------------------------------------
incident == incidents < MaxIncidents /\ incidents' = incidents + 1

dieCapturing(c) == /\ incident /\ at[c] # "idle" /\ goes(c, "idle")
                   /\ UNCHANGED <<intakeFile, durable, dirFsync, draft, captured, edited>>

powerFailure == /\ incident
                /\ at' = [c \in Capturers |-> "idle"]
                /\ \/ UNCHANGED intakeFile
                   \/ ~durable /\ intakeFile' = Missing
                /\ UNCHANGED <<durable, dirFsync, draft, captured, edited>>

(* An editor leaves the file writable or with another digest; a removal    *)
(* leaves nothing; and a patient hand writes a whole valid snapshot.       *)
editIntake == /\ incident /\ intakeFile.state # "missing" /\ edited' = TRUE
              /\ \/ intakeFile' = [intakeFile EXCEPT !.state = "writable"]
                 \/ intakeFile' = [intakeFile EXCEPT !.state = "damaged"]
                 \/ intakeFile' = Missing
                 \/ \E d \in Drafts : validDraft(d) /\ intakeFile' = Regular(d)
              /\ UNCHANGED <<durable, dirFsync, at, draft, captured>>

capture(c) == \/ \E d \in Drafts : captureIntakeSnapshot(c, d)
              \/ linkSync(c) \/ fsyncDir(c) \/ readBack(c)
IntakeNext == (\E c \in Capturers : capture(c) \/ dieCapturing(c))
              \/ powerFailure \/ editIntake
IntakeSpec == IntakeInit /\ [][IntakeNext]_intakeVars

-----------------------------------------------------------------------------
(* Write once: as long as nobody edits the file, every capture that was    *)
(* answered was answered with the same snapshot, through races, deaths and *)
(* power failures, and that snapshot is on disk.  It takes a platform that *)
(* syncs directories.                                                      *)
CapturedOnce ==
  dirFsync /\ ~edited /\ captured # {} => captured = {intakeFile.items} /\ durable

(* comparePlanToIntake: the plan's declaration against the snapshot.  Ids  *)
(* that are not safe are passed over; of a repeated one the first item     *)
(* counts, and that is an error.                                           *)
comparePlanToIntake(items, snapshot) ==
  LET safe == {i \in 1..Len(items) : SafeId(items[i])}
      again == {i \in safe : \E j \in safe : j < i /\ items[j].id = items[i].id}
      planById == {items[i] : i \in safe \ again}
      planIds == {entry.id : entry \in planById}
      authority == IdsOf(snapshot)
  IN [missing |-> authority \ planIds,
      changed |-> {entry.id : entry \in {e \in planById : e.id \in authority}
                                        \ ItemsOf(snapshot)},
      extra   |-> planIds \ authority,
      repeated |-> {items[i].id : i \in again}]
exactPlan(items, snapshot) ==
  LET diff == comparePlanToIntake(items, snapshot)
  IN diff.missing \cup diff.changed \cup diff.extra \cup diff.repeated = {}
=============================================================================
