----------------------------- MODULE WriteScopes -----------------------------
(***************************************************************************)
(* Write scopes, twice in the code: overlaps of validate-plan.mjs decides  *)
(* whether two entries may be given to tasks that run side by side, and    *)
(* inScope of git-workspaces.mjs decides whether a changed path belongs to *)
(* an entry.  Nothing but the wording ties the two together.               *)
(*                                                                         *)
(* A path is the sequence of what stands between its slashes, so "./src/"  *)
(* is <<".", "src", "">> and "/src" is <<"", "src">>; a string starts with *)
(* another and a slash exactly when the sequence properly extends it.      *)
(***************************************************************************)
EXTENDS Naturals, Sequences

(* normalizeRel and norm: one leading "./" goes, then all trailing slashes. *)
leadingDot(s) == IF Len(s) > 1 /\ s[1] = "." THEN Tail(s) ELSE s
lastName(s) == {i \in 1..Len(s) : s[i] # "" /\ \A j \in (i + 1)..Len(s) : s[j] = ""}
trailing(s) == IF \E i \in 1..Len(s) : s[i] # ""
               THEN SubSeq(s, 1, CHOOSE i \in lastName(s) : TRUE) ELSE <<"">>
normalizeRel(s) == trailing(leadingDot(s))

StartsWith(x, s) == Len(s) <= Len(x) /\ \A i \in 1..Len(s) : s[i] = x[i]

(* The plan validator: equal, or one is a directory above the other. *)
\* Mutant: only equal entries overlap.
overlapsAsText(a, b) == normalizeRel(a) = normalizeRel(b)
overlaps(a, b) == \/ StartsWith(normalizeRel(a), normalizeRel(b))
                  \/ StartsWith(normalizeRel(b), normalizeRel(a))

(* An entry grants nothing unless it is relative and inert. *)
safeScopeEntry(s) == /\ s # <<"">> /\ s[1] # ""
                     /\ \A i \in 1..Len(normalizeRel(s)) :
                          normalizeRel(s)[i] \notin {"..", ".git", ".", ""}

(* A changed path is in the scope of a task.                               *)
granted(path, entry) == /\ safeScopeEntry(entry)
                        /\ StartsWith(normalizeRel(path), normalizeRel(entry))
inScope(path, writeScope) == /\ normalizeRel(path) # <<"">>
                             /\ \E entry \in writeScope : granted(path, entry)
=============================================================================
