---------------------------- MODULE RecurringJob ----------------------------
(***************************************************************************)
(* The gate in front of a recurring job, validate-job.mjs: a job is judged *)
(* by its schema, looked up among the jobs that exist, and registered when *)
(* the platform can and the caller may.                                    *)
(*                                                                         *)
(* The lookup and the write are two readings of one registry file with no  *)
(* lock around them, and the write empties the file before it fills it;    *)
(* one call is at work at a time here, and may die at each of these        *)
(* points.  A call that names no registry looks nothing up and leaves      *)
(* nothing behind.  What a field says is left out, but for the key: its    *)
(* blanks are trimmed when it is judged and stay when it is looked up and  *)
(* stored, so that two spellings are two keys.                             *)
(***************************************************************************)
EXTENDS Naturals, Sequences, FiniteSets

CONSTANTS
  Jobs,            \* what the job file can hold: [key, fields]
  MaxCreates, MaxTeardowns    \* bounds on the calls

VARIABLES
  registry,        \* the registry file: "absent", "garbled", or a list of records
  creating,        \* the records the call at work has still to persist: one, or none
  filling,         \* the registries that call is writing: one, or none
  told,            \* history: records a caller who named the registry was told of
  stacked,         \* history: one of them was told of a key that was told already
  creates, teardowns

jobVars == <<registry, creating, filling, told, stacked, creates, teardowns>>

Listed(records) == [form |-> "list", records |-> records]
NoRegistry == [form |-> "absent", records |-> <<>>]
Garbled == [form |-> "garbled", records |-> <<>>]

JobInit ==
  /\ registry = NoRegistry
  /\ creating = {} /\ filling = {} /\ told = {} /\ stacked = FALSE
  /\ creates = 0 /\ teardowns = 0

-----------------------------------------------------------------------------
Supported == {"RemoteTrigger", "CronCreate"}
Capabilities == Supported \cup {"none"}

\* Every field is there and says something, some cap on a run is positive, and the
\* prompt is not too thin: the fields for which that holds are given.
Required == {"repo", "cadence", "prompt", "dedup", "perRunCap", "reporting", "escalation", "teardown"}

\* SAFE_KEY looks at the trimmed key.
Safe(key) == key.name # "unsafe" /\ key.name # ""
validateJob(job) == Safe(job.key) /\ Required \subseteq job.fields

\* Mutant: the routine is looked up by its id, which names the capability.
duplicateById(job, cap) ==
  \E i \in DOMAIN registry.records :
    registry.records[i].key = job.key /\ registry.records[i].capability = cap

\* The key is looked up as it was written.
duplicate(job, cap) == \E i \in DOMAIN registry.records : registry.records[i].key = job.key

mint(job, cap) == [key |-> job.key, capability |-> cap]

\* create, up to the write: an invalid job, a registry that cannot be read, a
\* duplicate, a platform that cannot and a caller that may not all write nothing.
create(job, cap, authorize) ==
  /\ creating = {} /\ creates < MaxCreates
  /\ creates' = creates + 1
  /\ creating' = IF /\ validateJob(job) /\ registry.form # "garbled"
                    /\ ~duplicate(job, cap)
                    /\ cap \in Supported /\ authorize
                   THEN {mint(job, cap)} ELSE {}
  /\ UNCHANGED <<registry, filling, told, stacked, teardowns>>

\* Without --existing there is no registry to look the key up in or to write: the call
\* answers "created" to every job that is valid and allowed, each time it is made.
createUnlisted ==
  /\ creating = {} /\ creates < MaxCreates
  /\ creates' = creates + 1
  /\ UNCHANGED <<registry, creating, filling, told, stacked, teardowns>>

\* persistRegistry reads the registry again, and writeFileSync empties it first.
persistRegistry ==
  /\ registry.form # "garbled"
  /\ \E r \in creating : filling' = {Listed(Append(registry.records, r))}
  /\ registry' = Garbled
  /\ UNCHANGED <<creating, told, stacked, creates, teardowns>>

\* The file is complete, and the caller is told.
created ==
  /\ \E list \in filling : registry' = list
  /\ \E r \in creating : /\ told' = told \cup {r}
                        /\ stacked' = (stacked \/ \E t \in told : t.key = r.key)
  /\ creating' = {} /\ filling' = {}
  /\ UNCHANGED <<creates, teardowns>>

\* The call dies: before the write; in it, with what it wrote so far in the file; or
\* behind it, untold.  Or it finds a registry that it cannot read any more.
creationFails ==
  /\ creating # {} /\ creating' = {} /\ filling' = {}
  /\ registry' \in {registry} \cup filling
  /\ UNCHANGED <<told, stacked, creates, teardowns>>

\* Someone takes a routine down, or spoils the file, or takes it away; not within a
\* write, which is one call of the file system.
tearDown ==
  /\ filling = {} /\ teardowns < MaxTeardowns /\ teardowns' = teardowns + 1
  /\ \/ \E i \in DOMAIN registry.records :
          /\ registry' = Listed([j \in 1..(Len(registry.records) - 1) |->
                                   registry.records[IF j < i THEN j ELSE j + 1]])
          /\ told' = told \ {registry.records[i]}
     \/ registry' = Garbled /\ told' = told
     \/ registry' = NoRegistry /\ told' = {}
  /\ UNCHANGED <<creating, filling, stacked, creates>>

JobNext ==
  \/ \E job \in Jobs, cap \in Capabilities, authorize \in BOOLEAN : create(job, cap, authorize)
  \/ createUnlisted \/ persistRegistry \/ created \/ creationFails \/ tearDown

JobSpec == JobInit /\ [][JobNext]_jobVars

-----------------------------------------------------------------------------
\* Callers that name the registry are never told twice that a routine of one key, as it
\* was written, was created, and no key is in it twice, whatever capability they ask for,
\* unless someone took down that routine or the registry in between: what was told is in
\* the registry whenever it can be read, what a dead call left there untold counts, and a
\* write cut short leaves a file that nobody can read and every create refuses.
NeverStacked ==
  /\ ~stacked
  /\ \A i, j \in DOMAIN registry.records :
       registry.records[i].key = registry.records[j].key => i = j
  /\ registry.form # "garbled" => \A t \in told : \E i \in DOMAIN registry.records :
                                    registry.records[i] = t
=============================================================================
