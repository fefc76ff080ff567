----------------------------- MODULE OneUseToken -----------------------------
(***************************************************************************)
(* What a capability promises to whoever approves something: a token, one  *)
(* of each kind and never a second.  It is granted for something, can be   *)
(* withdrawn until it is taken, and is taken by one consumer, who then     *)
(* holds exactly what it was granted for.  Only that consumer can say that *)
(* the effect was had; if it is lost before, nobody ever knows.            *)
(***************************************************************************)
EXTENDS Naturals

CONSTANTS Kinds, Consumers, None

VARIABLES
  token,      \* of each kind: "none", "issued", "consumed", "completed", "revoked"
  paper,      \* what the token of each kind was granted for, None before that
  holding     \* what each consumer has taken and not yet let go of, or None

tokenVars == <<token, paper, holding>>

TokenInit ==
  /\ token = [k \in Kinds |-> "none"] /\ paper = [k \in Kinds |-> None]
  /\ holding = [c \in Consumers |-> None]

\* For whatever the granter has in mind.
grant(k) ==
  /\ token[k] = "none"
  /\ token' = [token EXCEPT ![k] = "issued"]
  /\ paper'[k] \in Nat /\ paper' = [paper EXCEPT ![k] = paper'[k]]
  /\ UNCHANGED holding

withdraw(k) ==
  /\ token[k] = "issued"
  /\ token' = [token EXCEPT ![k] = "revoked"]
  /\ UNCHANGED <<paper, holding>>

take(c, k) ==
  /\ token[k] = "issued" /\ holding[c] = None
  /\ token' = [token EXCEPT ![k] = "consumed"]
  /\ holding' = [holding EXCEPT ![c] = [kind |-> k, bound |-> paper[k]]]
  /\ UNCHANGED paper

close(c) ==
  /\ holding[c] # None
  /\ token[holding[c].kind] = "consumed"
  /\ token' = [token EXCEPT ![holding[c].kind] = "completed"]
  /\ holding' = [holding EXCEPT ![c] = None]
  /\ UNCHANGED paper

letGo(c) ==
  /\ holding[c] # None
  /\ holding' = [holding EXCEPT ![c] = None]
  /\ UNCHANGED <<token, paper>>

\* Somebody looks, waits or dies, and no token knows of it.
elsewhere == UNCHANGED tokenVars

TokenNext ==
  \/ elsewhere
  \/ \E k \in Kinds : grant(k) \/ withdraw(k)
  \/ \E c \in Consumers : close(c) \/ letGo(c) \/ \E k \in Kinds : take(c, k)

TokenSpec == TokenInit /\ [][TokenNext]_tokenVars
=============================================================================
