------------------------ MODULE AuthorizationProofs ------------------------
(***************************************************************************)
(* Capabilities for any number of consumers and actions, and one operator: *)
(* with two of them a second capability can be created after the first was *)
(* consumed, as the search for one and the creation are two steps.  With   *)
(* one, a kind that has been issued is found in one of its files for ever, *)
(* so there is one capability of a kind and all that follows is about it.  *)
(* The last part shows that the files then implement OneUseToken.          *)
(***************************************************************************)
EXTENDS Authorization, TLAPS

Caps == [bound : Nat, expired : BOOLEAN]
Files == [Kinds -> [FileSuffixes -> Caps \cup {None}]]
Requests == [kind : Kinds, bound : Nat]

AuthTypes ==
  /\ changes \in Nat /\ input \in Nat
  /\ pending \in Requests \cup {None}
  /\ file \in Files
  /\ request \in [Operators -> Requests \cup {None}]
  /\ oppc \in [Operators -> {"idle", "locate", "create"}]
  /\ \A p \in Operators : oppc[p] # "idle" => request[p] \in Requests
  /\ present \in [Consumers -> Requests \cup {None}]
  /\ cpc \in [Consumers -> {"idle", "verify", "rename", "act", "complete", "dead"}]
  /\ \A c \in Consumers : cpc[c] \notin {"idle", "dead"} => present[c] \in Requests
  /\ uses \in [Kinds -> Nat]

\* A capability of the kind is or was there.
Issued(k) == \E s \in FileSuffixes : file[k][s] # None

\* The one capability of a kind is issued, or it is in one of its later files.
OneCapability ==
  /\ \A k \in Kinds : uses[k] = 0 \/ (uses[k] = 1 /\ file[k]["issued"] = None /\ Issued(k))
  /\ \A k \in Kinds : file[k]["revoked"] # None => file[k]["issued"] = None
  /\ \A p \in Operators : oppc[p] = "create" => ~ Issued(request[p].kind)

\* Whoever verified it finds that one or none, and whoever acts consumed that one.
SameAsVerified ==
  \A c \in Consumers :
    /\ cpc[c] = "rename" =>
         /\ Issued(present[c].kind)
         /\ file[present[c].kind]["issued"] # None
              => file[present[c].kind]["issued"].bound = present[c].bound
    /\ cpc[c] \in {"act", "complete"} =>
         /\ uses[present[c].kind] = 1
         /\ file[present[c].kind]["consumed"] # None
              => file[present[c].kind]["consumed"].bound = present[c].bound

AuthInv == AuthTypes /\ OneCapability /\ SameAsVerified

OneOperator == \A p, q \in Operators : p = q

LEMMA CapIsThere == \A cap \in Caps : cap # None
BY AuthorizationAssumption DEF Caps

LEMMA FourFiles ==
  /\ "issued" \in FileSuffixes /\ "consumed" \in FileSuffixes
  /\ "completed" \in FileSuffixes /\ "revoked" \in FileSuffixes
BY DEF FileSuffixes

LEMMA AuthInit == Init => AuthInv
BY DEF Init, AuthInv, AuthTypes, OneCapability, SameAsVerified, Files, FileSuffixes

-----------------------------------------------------------------------------
\* A step on the files of one kind, and what it leaves true of that kind.
StepOn(kind) ==
  /\ file' \in Files /\ \A k \in Kinds \ {kind} : file'[k] = file[k] /\ uses'[k] = uses[k]
  /\ UNCHANGED <<request, present>>
  /\ \A p \in Operators : oppc'[p] = "create" =>
       oppc[p] = "create" /\ (request[p].kind = kind => ~ Issued(kind)')
  /\ uses'[kind] = 0 \/ (uses'[kind] = 1 /\ file'[kind]["issued"] = None /\ Issued(kind)')
  /\ file'[kind]["revoked"] # None => file'[kind]["issued"] = None
  /\ \A c \in Consumers :
       /\ present[c].kind # kind /\ cpc'[c] \in {"rename", "act", "complete"} => cpc'[c] = cpc[c]
       /\ present[c].kind = kind /\ cpc'[c] = "rename" =>
            /\ Issued(kind)'
            /\ file'[kind]["issued"] # None => file'[kind]["issued"].bound = present[c].bound
       /\ present[c].kind = kind /\ cpc'[c] \in {"act", "complete"} =>
            /\ uses'[kind] = 1
            /\ file'[kind]["consumed"] # None => file'[kind]["consumed"].bound = present[c].bound

\* It leaves what is known of the others.
LEMMA OthersStay ==
  ASSUME AuthInv, NEW kind \in Kinds, StepOn(kind)
  PROVE  OneCapability' /\ SameAsVerified'
<1> USE DEF StepOn
<1>1. \A k \in Kinds \ {kind} : Issued(k)' <=> Issued(k)
  BY DEF Issued
<1>2. OneCapability'
  <2>1. \A k \in Kinds : uses'[k] = 0 \/ (uses'[k] = 1 /\ file'[k]["issued"] = None /\ Issued(k)')
    BY <1>1 DEF AuthInv, OneCapability
  <2>2. \A k \in Kinds : file'[k]["revoked"] # None => file'[k]["issued"] = None
    BY DEF AuthInv, OneCapability
  <2>3. ASSUME NEW p \in Operators, oppc'[p] = "create" PROVE ~ Issued(request[p].kind)'
    <3>1. request[p].kind \in Kinds
      BY <2>3 DEF AuthInv, AuthTypes, Requests
    <3> QED BY <1>1, <2>3, <3>1 DEF AuthInv, OneCapability
  <2> QED BY <2>1, <2>2, <2>3 DEF OneCapability
<1>3. SameAsVerified'
  <2> SUFFICES ASSUME NEW c \in Consumers, cpc'[c] \in {"rename", "act", "complete"}
      PROVE /\ cpc'[c] = "rename" =>
                 /\ Issued(present[c].kind)'
                 /\ file'[present[c].kind]["issued"] # None
                      => file'[present[c].kind]["issued"].bound = present[c].bound
            /\ cpc'[c] \in {"act", "complete"} =>
                 /\ uses'[present[c].kind] = 1
                 /\ file'[present[c].kind]["consumed"] # None
                      => file'[present[c].kind]["consumed"].bound = present[c].bound
    BY DEF SameAsVerified
  <2>1. CASE present[c].kind = kind
    BY <2>1
  <2>2. CASE present[c].kind # kind
    <3>1. cpc'[c] = cpc[c]
      BY <2>2
    <3>2. present[c].kind \in Kinds \ {kind}
      BY <2>2, <3>1 DEF AuthInv, AuthTypes, Requests
    <3> QED BY <1>1, <3>1, <3>2 DEF AuthInv, SameAsVerified
  <2> QED BY <2>1, <2>2
<1> QED BY <1>2, <1>3

-----------------------------------------------------------------------------
LEMMA IssueKeeps ==
  ASSUME AuthInv, OneOperator, NEW p \in Operators,
         (\E k \in Kinds : issue(p, k)) \/ issueLocate(p) \/ issueCreate(p)
  PROVE  AuthInv'
<1> USE DEF AuthInv, ckVars
<1>1. ASSUME NEW k \in Kinds, issue(p, k) PROVE AuthInv'
  <2>1. [kind |-> k, bound |-> bindings(k)] \in Requests
    BY <1>1, AuthorizationAssumption DEF issue, bindings, Requests, Kinds, AuthTypes
  <2> QED BY <1>1, <2>1 DEF issue, AuthTypes, OneCapability, SameAsVerified, Issued
<1>2. CASE issueLocate(p)
  BY <1>2 DEF issueLocate, missing, locate, AuthTypes, OneCapability, SameAsVerified, Issued
<1>3. CASE issueCreate(p)
  <2>0. request[p] \in Requests /\ oppc[p] = "create"
    BY <1>3 DEF issueCreate, AuthTypes
  <2> PICK kind \in Kinds : kind = request[p].kind
    BY <2>0 DEF Requests
  <2> PICK cap \in Caps : cap = [bound |-> request[p].bound, expired |-> FALSE]
    BY <2>0 DEF Requests, Caps
  <2>1. ~ Issued(kind)
    BY <2>0 DEF OneCapability
  <2>2. file[kind]["issued"] = None /\ file[kind]["revoked"] = None
    BY <2>1, FourFiles DEF Issued
  <2>3. /\ file' = [file EXCEPT ![kind]["issued"] = cap]
        /\ oppc' = [oppc EXCEPT ![p] = "idle"]
        /\ UNCHANGED <<ckVars, input, request, cpc, present, uses, readDone>>
    BY <1>3, <2>2 DEF issueCreate
  <2>4. /\ file' \in Files /\ file'[kind]["issued"] = cap
        /\ file'[kind]["revoked"] = None
        /\ \A k \in Kinds \ {kind} : file'[k] = file[k]
    BY <2>2, <2>3, FourFiles DEF AuthTypes, Files
  <2>5. AuthTypes'
    BY <2>3, <2>4 DEF AuthTypes
  <2>6. uses[kind] = 0
    BY <2>1 DEF OneCapability
  <2>7. \A c \in Consumers : cpc[c] \in {"rename", "act", "complete"} => present[c].kind # kind
    BY <2>1, <2>6 DEF SameAsVerified
  <2>8. \A q \in Operators : oppc'[q] # "create"
    BY <2>3 DEF OneOperator, AuthTypes
  <2>9. OneCapability' /\ SameAsVerified'
    <3>1. StepOn(kind)
      BY <2>1, <2>3, <2>4, <2>6, <2>7, <2>8 DEF StepOn
    <3> QED BY <3>1, OthersStay
  <2> QED BY <2>5, <2>9
<1> QED BY <1>1, <1>2, <1>3

-----------------------------------------------------------------------------
LEMMA FileKeeps ==
  ASSUME AuthInv, NEW k \in Kinds, expire(k) \/ revokeCapability(k)
  PROVE  AuthInv'
<1> USE DEF AuthInv, ckVars
<1>0. file[k]["issued"] \in Caps /\ file \in Files
  BY FourFiles DEF expire, revokeCapability, AuthTypes, Files
<1> PICK cap \in Caps : cap = file[k]["issued"]
  BY <1>0
<1>1. cap # None /\ file \in Files
  BY <1>0, CapIsThere
<1>3. uses[k] = 0 /\ file[k]["revoked"] = None
  BY <1>1 DEF OneCapability
<1>4. Issued(k)
  BY <1>1, FourFiles DEF Issued
<1>5. \A p \in Operators : oppc[p] = "create" => request[p].kind # k
  BY <1>4 DEF OneCapability
<1>6. \A c \in Consumers : cpc[c] \in {"act", "complete"} => present[c].kind # k
  BY <1>3 DEF SameAsVerified
<1>7. CASE expire(k)
  <2> PICK late \in Caps : late = [cap EXCEPT !.expired = TRUE]
    BY DEF Caps
  <2>1. late.bound = cap.bound
    BY DEF Caps
  <2>2. /\ file' = [file EXCEPT ![k]["issued"] = late]
        /\ UNCHANGED <<ckVars, input, oppc, request, cpc, present, uses, readDone>>
    BY <1>7 DEF expire
  <2>3. /\ file' \in Files /\ file'[k]["issued"] = late /\ file'[k]["revoked"] = None
        /\ \A j \in Kinds \ {k} : file'[j] = file[j]
    BY <1>1, <1>3, <2>2, FourFiles DEF Files
  <2>4. Issued(k)'
    BY <2>3, CapIsThere, FourFiles DEF Issued
  <2>5. AuthTypes'
    BY <2>2, <2>3 DEF AuthTypes
  <2>6. \A c \in Consumers : cpc[c] = "rename" /\ present[c].kind = k => cap.bound = present[c].bound
    BY <1>1 DEF SameAsVerified
  <2>7. OneCapability' /\ SameAsVerified'
    <3>1. StepOn(k)
      BY <1>3, <1>5, <1>6, <2>1, <2>2, <2>3, <2>4, <2>6 DEF StepOn
    <3> QED BY <3>1, OthersStay
  <2> QED BY <2>5, <2>7
<1>8. CASE revokeCapability(k)
  <2>1. /\ file' = [file EXCEPT ![k]["issued"] = None, ![k]["revoked"] = cap]
        /\ UNCHANGED <<ckVars, input, oppc, request, cpc, present, uses, readDone>>
    BY <1>8 DEF revokeCapability
  <2>2. /\ file' \in Files /\ file'[k]["issued"] = None /\ file'[k]["revoked"] = cap
        /\ \A j \in Kinds \ {k} : file'[j] = file[j]
    BY <1>1, <2>1, FourFiles DEF Files
  <2>3. Issued(k)'
    BY <2>2, CapIsThere, FourFiles DEF Issued
  <2>4. AuthTypes'
    BY <2>1, <2>2 DEF AuthTypes
  <2>5. OneCapability' /\ SameAsVerified'
    <3>1. StepOn(k)
      BY <1>3, <1>5, <1>6, <2>1, <2>2, <2>3 DEF StepOn
    <3> QED BY <3>1, OthersStay
  <2> QED BY <2>4, <2>5
<1> QED BY <1>7, <1>8

-----------------------------------------------------------------------------
LEMMA ConsumerKeeps ==
  ASSUME AuthInv, NEW c \in Consumers,
         \/ \E k \in Kinds : consume(c, k)
         \/ verifyCapability(c) \/ consumeRename(c)
         \/ act(c) \/ completeCapability(c) \/ die(c)
  PROVE  AuthInv'
<1> USE DEF AuthInv, ckVars
<1>1. ASSUME NEW k \in Kinds, consume(c, k) PROVE AuthInv'
  BY <1>1 DEF consume, Requests, AuthTypes, OneCapability, SameAsVerified, Issued
<1>2. CASE verifyCapability(c)
  BY <1>2, FourFiles DEF verifyCapability, verifies, AuthTypes, OneCapability, SameAsVerified, Issued
<1>3. CASE consumeRename(c)
  <2>1. present[c] \in Requests /\ cpc[c] = "rename" /\ file \in Files
    BY <1>3 DEF consumeRename, AuthTypes
  <2> PICK kind \in Kinds : kind = present[c].kind
    BY <2>1 DEF Requests
  <2>2. CASE file[kind]["issued"] # None
    <3> PICK cap \in Caps : cap = file[kind]["issued"]
      BY <2>1, <2>2, FourFiles DEF Files
    <3>2. uses[kind] = 0 /\ file[kind]["revoked"] = None /\ cap.bound = present[c].bound
      BY <2>1, <2>2 DEF OneCapability, SameAsVerified
    <3>3. /\ file' = [file EXCEPT ![kind]["issued"] = None, ![kind]["consumed"] = cap]
          /\ uses' = [uses EXCEPT ![kind] = 1]
          /\ cpc' = [cpc EXCEPT ![c] = "act"]
          /\ UNCHANGED <<ckVars, input, oppc, request, present, readDone>>
      BY <1>3, <2>2, <3>2 DEF consumeRename, renamed
    <3>4. \A d \in Consumers : cpc[d] \in {"act", "complete"} => present[d].kind # kind
      BY <3>2 DEF SameAsVerified
    <3>5. \A p \in Operators : oppc[p] = "create" => request[p].kind # kind
      BY <2>1, <2>2, FourFiles DEF OneCapability, Issued
    <3>6. \A d \in Consumers : cpc[d] = "rename" /\ present[d].kind = kind => cap.bound = present[d].bound
      BY <2>2 DEF SameAsVerified
    <3>7. /\ file' \in Files
          /\ file'[kind]["issued"] = None /\ file'[kind]["consumed"] = cap
          /\ file'[kind]["revoked"] = None
          /\ \A k \in Kinds \ {kind} : file'[k] = file[k]
      BY <2>1, <3>2, <3>3, FourFiles DEF Files
    <3>8. Issued(kind)'
      BY <3>7, CapIsThere, FourFiles DEF Issued
    <3>9. AuthTypes'
      BY <2>1, <3>3, <3>7 DEF AuthTypes
    <3>10. /\ uses'[kind] = 1 /\ \A k \in Kinds \ {kind} : uses'[k] = uses[k]
           /\ \A d \in Consumers : cpc'[d] = IF d = c THEN "act" ELSE cpc[d]
      BY <2>1, <3>3 DEF AuthTypes
    <3>11. OneCapability' /\ SameAsVerified'
      <4>1. \A d \in Consumers : present[d].kind = kind /\ cpc'[d] \in {"act", "complete"} => d = c
        BY <3>4, <3>10
      <4>2. \A d \in Consumers : cpc'[d] = cpc[d] \/ present[d].kind = kind
        BY <3>10
      <4>3. StepOn(kind)
        BY <3>2, <3>3, <3>5, <3>6, <3>7, <3>8, <3>10, <4>1, <4>2 DEF StepOn
      <4> QED BY <4>3, OthersStay
    <3> QED BY <3>9, <3>11
  <2>3. CASE file[kind]["issued"] = None
    BY <1>3, <2>3 DEF consumeRename, AuthTypes, OneCapability, SameAsVerified, Issued
  <2> QED BY <2>2, <2>3
<1>4. CASE act(c)
  BY <1>4 DEF act, AuthTypes, OneCapability, SameAsVerified, Issued
<1>5. CASE completeCapability(c)
  <2>0. present[c] \in Requests /\ cpc[c] = "complete" /\ file \in Files
    BY <1>5 DEF completeCapability, AuthTypes
  <2> PICK kind \in Kinds : kind = present[c].kind
    BY <2>0 DEF Requests
  <2>1. file[kind]["consumed"] # None
    BY <1>5 DEF completeCapability
  <2> PICK cap \in Caps : cap = file[kind]["consumed"]
    BY <2>0, <2>1, FourFiles DEF Files
  <2>3. /\ file' = [file EXCEPT ![kind]["consumed"] = None, ![kind]["completed"] = cap]
        /\ cpc' = [cpc EXCEPT ![c] = "idle"]
        /\ UNCHANGED <<ckVars, input, oppc, request, present, uses, readDone>>
    BY <1>5 DEF completeCapability
  <2>4. uses[kind] = 1 /\ file[kind]["issued"] = None
    BY <2>0 DEF SameAsVerified, OneCapability
  <2>5. \A p \in Operators : oppc[p] = "create" => request[p].kind # kind
    BY <2>1, FourFiles DEF OneCapability, Issued
  <2>6. /\ file' \in Files
        /\ file'[kind]["consumed"] = None /\ file'[kind]["completed"] = cap
        /\ file'[kind]["issued"] = None
        /\ \A k \in Kinds \ {kind} : file'[k] = file[k]
    BY <2>0, <2>3, <2>4, FourFiles DEF Files
  <2>7. Issued(kind)'
    BY <2>6, CapIsThere, FourFiles DEF Issued
  <2>8. AuthTypes'
    BY <2>3, <2>6 DEF AuthTypes
  <2>9. \A d \in Consumers : cpc'[d] # "idle" => cpc'[d] = cpc[d]
    BY <2>3 DEF AuthTypes
  <2>10. \A d \in Consumers : cpc[d] \in {"act", "complete"} => uses[present[d].kind] = 1
    BY DEF SameAsVerified
  <2>11. OneCapability' /\ SameAsVerified'
    <3>1. StepOn(kind)
      BY <2>1, <2>3, <2>4, <2>5, <2>6, <2>7, <2>9, <2>10 DEF StepOn
    <3> QED BY <3>1, OthersStay
  <2> QED BY <2>8, <2>11
<1>6. CASE die(c)
  BY <1>6 DEF die, AuthTypes, OneCapability, SameAsVerified, Issued
<1> QED BY <1>1, <1>2, <1>3, <1>4, <1>5, <1>6

-----------------------------------------------------------------------------
LEMMA CheckpointKeeps ==
  ASSUME AuthInv,
         \/ markPrepared \/ authorize \/ \E k \in Actions : haltForAuthorization(k)
         \/ resume \/ work \/ finish \/ edit \/ UNCHANGED vars
  PROVE  AuthInv'
<1> USE DEF AuthInv, AuthTypes, OneCapability, SameAsVerified, ckVars, authVars, Issued
<1>1. CASE markPrepared \/ authorize \/ resume \/ work \/ finish \/ edit \/ UNCHANGED vars
  BY <1>1 DEF markPrepared, authorize, resume, work, finish, edit, vars
<1>2. ASSUME NEW k \in Actions, haltForAuthorization(k) PROVE AuthInv'
  BY <1>2 DEF haltForAuthorization, Requests, Kinds
<1> QED BY <1>1, <1>2

LEMMA AuthNext == OneOperator /\ AuthInv /\ [Next]_vars => AuthInv'
BY IssueKeeps, FileKeeps, ConsumerKeeps, CheckpointKeeps DEF Next

LEMMA AuthAlways == ASSUME OneOperator PROVE Spec => []AuthInv
<1>1. AuthInv /\ [Next]_vars => AuthInv'
  BY AuthNext
<1> QED BY <1>1, AuthInit, PTL DEF Spec

\* With one operator no kind of capability is ever consumed twice, however many
\* consumers race for it.
THEOREM OneUse == ASSUME OneOperator PROVE Spec => []ConsumedAtMostOnce
<1>1. AuthInv => ConsumedAtMostOnce
  BY DEF AuthInv, AuthTypes, OneCapability, ConsumedAtMostOnce
<1> QED BY <1>1, AuthAlways, PTL

\* With one operator, what a consumer acts on has the bindings it presented, also
\* when the capability expired or was revoked between verification and rename.
THEOREM ActsAsApproved == ASSUME OneOperator PROVE Spec => []ActsOnWhatWasApproved
<1>1. AuthInv => ActsOnWhatWasApproved
  BY DEF AuthInv, SameAsVerified, ActsOnWhatWasApproved
<1> QED BY <1>1, AuthAlways, PTL

\* With one operator, no step consumes a kind that has a revoked capability.
THEOREM RevokedIsDead == ASSUME OneOperator PROVE Spec => RevokedNeverConsumed
<1>1. ASSUME AuthInv, [Next]_vars
      PROVE  \A k \in Kinds : file[k]["revoked"] # None => uses'[k] = uses[k]
  <2> SUFFICES ASSUME NEW k \in Kinds, file[k]["revoked"] # None PROVE uses'[k] = uses[k]
    OBVIOUS
  <2>1. file[k]["issued"] = None
    BY <1>1 DEF AuthInv, OneCapability
  <2>2. ASSUME NEW c \in Consumers, consumeRename(c) PROVE uses'[k] = uses[k]
    BY <1>1, <2>1, <2>2 DEF consumeRename, AuthInv, AuthTypes
  <2>3. (\E c \in Consumers : consumeRename(c)) \/ UNCHANGED uses
    BY <1>1 DEF Next, vars, issue, issueLocate, issueCreate, expire, revokeCapability, consume,
       verifyCapability, act, completeCapability, die, markPrepared, authorize,
       haltForAuthorization, resume, work, finish, edit, authVars
  <2> QED BY <2>2, <2>3
<1> QED BY <1>1, AuthAlways, PTL DEF Spec, RevokedNeverConsumed
-----------------------------------------------------------------------------
(***************************************************************************)
(* The files as one token of each kind.  On top of what is known, a kind   *)
(* lies under one suffix at most, and who acts on it is the only one that  *)
(* does.  Then each rename is one step of OneUseToken, and everything that *)
(* happens to the checkpoint is none.                                      *)
(***************************************************************************)
Acting == {"act", "complete"}
Card == [FileSuffixes -> Caps \cup {None}]

Lone(files) == \A s, t \in FileSuffixes : files[s] # None /\ files[t] # None => s = t

TokenInv ==
  /\ \A k \in Kinds : Lone(file[k])
  /\ \A c \in Consumers : cpc[c] \in Acting => file[present[c].kind]["consumed"] # None
  /\ \A c, d \in Consumers :
       cpc[c] \in Acting /\ cpc[d] \in Acting /\ present[c].kind = present[d].kind => c = d

\* Where a lone capability is, and what it says.
LEMMA WhereItIs ==
  ASSUME NEW files \in Card, Lone(files), NEW s \in FileSuffixes, files[s] # None
  PROVE  suffixOf(files) = s /\ paperOf(files) = files[s].bound /\ files[s] \in Caps
<1>1. suffixOf(files) = s
  BY DEF suffixOf, Lone
<1>2. s # "none"
  BY DEF FileSuffixes
<1> QED BY <1>1, <1>2 DEF paperOf, Card

LEMMA NowhereYet ==
  ASSUME NEW files \in Card, \A s \in FileSuffixes : files[s] = None
  PROVE  suffixOf(files) = "none" /\ paperOf(files) = None
BY DEF suffixOf, paperOf

\* A capability that has gone from one suffix to another.
LEMMA LoneMove ==
  ASSUME NEW files \in Card, Lone(files), NEW s \in FileSuffixes, NEW t \in FileSuffixes, s # t,
         files[s] # None
  PROVE  LET moved == [files EXCEPT ![s] = None, ![t] = files[s]]
         IN  /\ moved \in Card /\ Lone(moved) /\ moved[t] # None
             /\ suffixOf(files) = s /\ suffixOf(moved) = t /\ paperOf(moved) = paperOf(files)
<1> DEFINE moved == [files EXCEPT ![s] = None, ![t] = files[s]]
<1>1. /\ moved \in Card /\ moved[t] = files[s] /\ moved[s] = None
      /\ \A u \in FileSuffixes \ {s, t} : moved[u] = files[u]
  BY DEF Card
<1>2. \A u \in FileSuffixes : u # s => files[u] = None
  BY DEF Lone
<1>3. Lone(moved)
  BY <1>1, <1>2 DEF Lone
<1> HIDE DEF moved
<1>4. /\ suffixOf(moved) = t /\ paperOf(moved) = moved[t].bound
      /\ suffixOf(files) = s /\ paperOf(files) = files[s].bound
  BY <1>1, <1>3, WhereItIs
<1> QED BY <1>1, <1>3, <1>4 DEF moved

\* The capability of kind k goes from one suffix to another.
Moves(k, s, t) ==
  /\ file[k][s] # None
  /\ file' = [file EXCEPT ![k] = [file[k] EXCEPT ![s] = None, ![t] = file[k][s]]]

LEMMA MoveKeeps ==
  ASSUME AuthInv, TokenInv, NEW k \in Kinds, NEW s \in FileSuffixes, NEW t \in FileSuffixes, s # t,
         Moves(k, s, t)
  PROVE  /\ \A j \in Kinds : Lone(file'[j])
         /\ \A j \in Kinds \ {k} : file'[j] = file[j]
         /\ file'[k][t] # None
         /\ tokenBar[k] = s /\ tokenBar' = [tokenBar EXCEPT ![k] = t]
         /\ paperBar' = paperBar
<1>1. file \in Files /\ file[k] \in Card /\ Lone(file[k])
  BY DEF AuthInv, AuthTypes, Files, Card, TokenInv
<1> DEFINE moved == [file[k] EXCEPT ![s] = None, ![t] = file[k][s]]
<1>2. file' = [file EXCEPT ![k] = moved] /\ file[k][s] # None
  BY DEF Moves
<1>3. /\ moved \in Card /\ Lone(moved) /\ moved[t] # None
      /\ suffixOf(file[k]) = s /\ suffixOf(moved) = t /\ paperOf(moved) = paperOf(file[k])
  BY <1>1, <1>2, LoneMove
<1> HIDE DEF moved
<1>4. file'[k] = moved /\ \A j \in Kinds \ {k} : file'[j] = file[j]
  BY <1>1, <1>2 DEF Files
<1>5. \A j \in Kinds : Lone(file'[j])
  BY <1>3, <1>4 DEF TokenInv
<1>6. tokenBar' = [j \in Kinds |-> suffixOf(file'[j])] /\ paperBar' = [j \in Kinds |-> paperOf(file'[j])]
  BY DEF tokenBar, paperBar, suffixOf, paperOf
<1>7. tokenBar = [j \in Kinds |-> suffixOf(file[j])] /\ paperBar = [j \in Kinds |-> paperOf(file[j])]
  BY Zenon DEF tokenBar, paperBar
<1>8. /\ \A j \in Kinds : suffixOf(file'[j]) = IF j = k THEN t ELSE suffixOf(file[j])
      /\ \A j \in Kinds : paperOf(file'[j]) = paperOf(file[j])
  <2> SUFFICES ASSUME NEW j \in Kinds
               PROVE  /\ suffixOf(file'[j]) = IF j = k THEN t ELSE suffixOf(file[j])
                      /\ paperOf(file'[j]) = paperOf(file[j])
    OBVIOUS
  <2>1. CASE j = k
    BY <1>3, <1>4, <2>1
  <2>2. CASE j # k
    <3>1. file'[j] = file[j]
      BY <1>4, <2>2
    <3> QED BY <2>2, <3>1
  <2> QED BY <2>1, <2>2
<1>9. tokenBar[k] = s /\ tokenBar' = [tokenBar EXCEPT ![k] = t]
  BY <1>3, <1>6, <1>7, <1>8
<1>10. paperBar' = paperBar
  BY <1>6, <1>7, <1>8
<1> QED BY <1>3, <1>4, <1>5, <1>9, <1>10

\* Who acts or does not, and for what.
LEMMA HoldingIs ==
  /\ holdingBar = [c \in Consumers |-> IF cpc[c] \in Acting THEN present[c] ELSE None]
  /\ holdingBar' = [c \in Consumers |-> IF cpc'[c] \in Acting THEN present'[c] ELSE None]
BY DEF holdingBar, Acting

\* A step that moves no file, makes nobody act, and lets at most one consumer go.
LEMMA LettingGo ==
  ASSUME AuthInv, TokenInv, UNCHANGED <<file, present>>, NEW c \in Consumers,
         \A d \in Consumers \ {c} : cpc'[d] \in Acting <=> cpc[d] \in Acting,
         cpc'[c] \in Acting => cpc[c] \in Acting
  PROVE  TokenInv' /\ (Token!letGo(c) \/ UNCHANGED <<tokenBar, paperBar, holdingBar>>)
<1>1. TokenInv'
  BY DEF TokenInv, Lone
<1>2. UNCHANGED <<tokenBar, paperBar>>
  BY DEF tokenBar, paperBar, suffixOf, paperOf
<1>3. CASE cpc[c] \in Acting /\ cpc'[c] \notin Acting
  <2>1. holdingBar[c] # None
    <3>1. present[c] \in Requests
      BY <1>3 DEF AuthInv, AuthTypes, Acting
    <3> QED BY <1>3, <3>1, HoldingIs, AuthorizationAssumption DEF Requests
  <2>2. holdingBar' = [holdingBar EXCEPT ![c] = None]
    BY <1>3, HoldingIs
  <2> QED BY <1>1, <1>2, <2>1, <2>2 DEF Token!letGo
<1>4. CASE ~ (cpc[c] \in Acting /\ cpc'[c] \notin Acting)
  <2>1. UNCHANGED holdingBar
    BY <1>4, HoldingIs
  <2> QED BY <1>1, <1>2, <2>1
<1> QED BY <1>3, <1>4

LEMMA TokenStart == Init => TokenInv /\ Token!TokenInit
<1> SUFFICES ASSUME Init PROVE TokenInv /\ Token!TokenInit
  OBVIOUS
<1>1. \A k \in Kinds : file[k] \in Card /\ \A s \in FileSuffixes : file[k][s] = None
  BY DEF Init, Card
<1>2. TokenInv
  BY <1>1 DEF Init, TokenInv, Lone, Acting
<1>3. \A k \in Kinds : suffixOf(file[k]) = "none" /\ paperOf(file[k]) = None
  BY <1>1, NowhereYet
<1>4. holdingBar = [c \in Consumers |-> None]
  BY DEF Init, holdingBar
<1> QED BY <1>2, <1>3, <1>4 DEF Token!TokenInit, tokenBar, paperBar

\* The files of one operator: a creation is the grant.
LEMMA OperatorSteps ==
  ASSUME AuthInv, AuthInv', TokenInv, NEW p \in Operators,
         (\E k \in Kinds : issue(p, k)) \/ issueLocate(p) \/ issueCreate(p)
  PROVE  TokenInv' /\ [Token!TokenNext]_(Token!tokenVars)
<1>1. CASE (\E k \in Kinds : issue(p, k)) \/ issueLocate(p)
  <2>1. UNCHANGED <<file, present, cpc>>
    BY <1>1 DEF issue, issueLocate
  <2>2. TokenInv' /\ UNCHANGED <<tokenBar, paperBar, holdingBar>>
    BY <2>1 DEF TokenInv, Lone, tokenBar, paperBar, holdingBar, suffixOf, paperOf
  <2> QED BY <2>2 DEF Token!tokenVars
<1>2. CASE issueCreate(p)
  <2>1. request[p] \in Requests /\ oppc[p] = "create"
    BY <1>2 DEF issueCreate, AuthInv, AuthTypes
  <2> PICK kind \in Kinds : kind = request[p].kind
    BY <2>1 DEF Requests
  <2> PICK cap \in Caps : cap = [bound |-> request[p].bound, expired |-> FALSE]
    BY <2>1 DEF Requests, Caps
  <2>2. ~ Issued(kind) /\ file \in Files
    BY <2>1 DEF AuthInv, AuthTypes, OneCapability
  <2>3. /\ file' = [file EXCEPT ![kind]["issued"] = cap]
        /\ UNCHANGED <<cpc, present>>
    BY <1>2, <2>2, FourFiles DEF issueCreate, Issued
  <2>4. \A s \in FileSuffixes : file[kind][s] = None
    BY <2>2 DEF Issued
  <2> DEFINE there == [file[kind] EXCEPT !["issued"] = cap]
  <2>5. /\ file[kind] \in Card /\ there \in Card /\ there["issued"] = cap
        /\ \A s \in FileSuffixes : there[s] # None => s = "issued"
    BY <2>2, <2>4, FourFiles DEF Files, Card
  <2>6. file'[kind] = there /\ \A j \in Kinds \ {kind} : file'[j] = file[j]
    BY <2>2, <2>3 DEF Files
  <2> HIDE DEF there
  <2>7. Lone(there) /\ cap # None /\ cap.bound \in Nat
    BY <2>5, CapIsThere DEF Lone, Caps
  <2>8. suffixOf(there) = "issued" /\ paperOf(there) = cap.bound
    BY <2>5, <2>7, FourFiles, WhereItIs
  <2>9. suffixOf(file[kind]) = "none" /\ paperOf(file[kind]) = None
    BY <2>4, <2>5, NowhereYet
  <2>10. /\ tokenBar' = [j \in Kinds |-> suffixOf(file'[j])]
         /\ paperBar' = [j \in Kinds |-> paperOf(file'[j])]
         /\ tokenBar = [j \in Kinds |-> suffixOf(file[j])]
         /\ paperBar = [j \in Kinds |-> paperOf(file[j])]
    BY DEF tokenBar, paperBar, suffixOf, paperOf
  <2>11. /\ tokenBar[kind] = "none" /\ tokenBar' = [tokenBar EXCEPT ![kind] = "issued"]
         /\ paperBar' = [paperBar EXCEPT ![kind] = cap.bound]
    BY <2>6, <2>8, <2>9, <2>10
  <2>12. UNCHANGED holdingBar
    BY <2>3, HoldingIs
  <2>13. Token!grant(kind)
    BY <2>7, <2>10, <2>11, <2>12 DEF Token!grant
  <2>14. \A c \in Consumers : cpc[c] \in Acting => present[c].kind \in Kinds \ {kind}
    BY <2>4, FourFiles DEF TokenInv, AuthInv, AuthTypes, Requests, Acting
  <2>15. TokenInv'
    BY <2>3, <2>6, <2>7, <2>14 DEF TokenInv
  <2> QED BY <2>13, <2>15 DEF Token!TokenNext
<1> QED BY <1>1, <1>2

\* Time does not move a capability, and a revocation withdraws it.
LEMMA FileSteps ==
  ASSUME AuthInv, AuthInv', TokenInv, NEW k \in Kinds, expire(k) \/ revokeCapability(k)
  PROVE  TokenInv' /\ [Token!TokenNext]_(Token!tokenVars)
<1>1. /\ file \in Files /\ file[k]["issued"] # None /\ file[k]["issued"] \in Caps
      /\ UNCHANGED <<cpc, present>>
  BY FourFiles DEF expire, revokeCapability, AuthInv, AuthTypes, Files
<1>2. \A c \in Consumers : cpc[c] \in Acting => present[c].kind \in Kinds \ {k}
  <2> SUFFICES ASSUME NEW c \in Consumers, cpc[c] \in Acting PROVE present[c].kind \in Kinds \ {k}
    OBVIOUS
  <2>1. present[c].kind \in Kinds /\ uses[present[c].kind] = 1
    BY DEF AuthInv, AuthTypes, SameAsVerified, Requests, Acting
  <2>2. uses[k] = 0
    BY <1>1 DEF AuthInv, OneCapability
  <2> QED BY <2>1, <2>2
<1>3. UNCHANGED holdingBar
  BY <1>1, HoldingIs
<1>4. CASE expire(k)
  <2> PICK late \in Caps : late = [file[k]["issued"] EXCEPT !.expired = TRUE]
    BY <1>1 DEF Caps
  <2> DEFINE aged == [file[k] EXCEPT !["issued"] = late]
  <2>1. file' = [file EXCEPT ![k] = aged] /\ file[k] \in Card /\ Lone(file[k])
    BY <1>1, <1>4 DEF expire, Files, Card, TokenInv
  <2>2. /\ aged \in Card /\ aged["issued"] = late /\ late.bound = file[k]["issued"].bound
        /\ \A s \in FileSuffixes : s # "issued" => aged[s] = file[k][s]
    BY <1>1, <2>1, FourFiles DEF Card, Caps
  <2>3. late # None
    BY CapIsThere
  <2> HIDE DEF aged
  <2>4. Lone(aged)
    BY <1>1, <2>1, <2>2, <2>3, FourFiles DEF Lone
  <2>5. /\ suffixOf(aged) = "issued" /\ suffixOf(file[k]) = "issued"
        /\ paperOf(aged) = paperOf(file[k])
    <3>1. suffixOf(aged) = "issued" /\ paperOf(aged) = aged["issued"].bound
      <4>1. aged["issued"] # None
        BY <2>2, <2>3
      <4> QED BY <2>2, <2>4, <4>1, FourFiles, WhereItIs
    <3>2. suffixOf(file[k]) = "issued" /\ paperOf(file[k]) = file[k]["issued"].bound
      BY <1>1, <2>1, FourFiles, WhereItIs
    <3> QED BY <2>2, <3>1, <3>2
  <2>6. file'[k] = aged /\ \A j \in Kinds \ {k} : file'[j] = file[j]
    BY <1>1, <2>1 DEF Files
  <2>7. \A j \in Kinds : suffixOf(file'[j]) = suffixOf(file[j]) /\ paperOf(file'[j]) = paperOf(file[j])
    BY <2>5, <2>6, Zenon
  <2>8. UNCHANGED <<tokenBar, paperBar>>
    <3>1. /\ tokenBar' = [j \in Kinds |-> suffixOf(file'[j])]
          /\ paperBar' = [j \in Kinds |-> paperOf(file'[j])]
      BY DEF tokenBar, paperBar, suffixOf, paperOf
    <3> QED BY <2>7, <3>1, Zenon DEF tokenBar, paperBar
  <2>9. TokenInv'
    BY <1>1, <1>2, <2>4, <2>6 DEF TokenInv
  <2> QED BY <1>3, <2>8, <2>9 DEF Token!tokenVars
<1>5. CASE revokeCapability(k)
  <2>1. file' = [file EXCEPT ![k]["issued"] = None, ![k]["revoked"] = file[k]["issued"]]
    BY <1>5 DEF revokeCapability
  <2>2. /\ \A j \in Kinds : Lone(file'[j])
        /\ \A j \in Kinds \ {k} : file'[j] = file[j]
        /\ tokenBar[k] = "issued" /\ tokenBar' = [tokenBar EXCEPT ![k] = "revoked"]
        /\ paperBar' = paperBar
    <3>1. Moves(k, "issued", "revoked")
      BY <1>1, <2>1, FourFiles DEF Moves, Files
    <3>2. "issued" # "revoked"
      OBVIOUS
    <3> QED BY <3>1, <3>2, FourFiles, MoveKeeps
  <2>3. Token!withdraw(k)
    BY <1>3, <2>2 DEF Token!withdraw
  <2>4. TokenInv'
    BY <1>1, <1>2, <2>2 DEF TokenInv
  <2> QED BY <2>3, <2>4 DEF Token!TokenNext
<1> QED BY <1>4, <1>5

\* The rename takes the token, and completing it is its consumer's.
LEMMA ConsumerSteps ==
  ASSUME AuthInv, AuthInv', TokenInv, NEW c \in Consumers,
         \/ \E k \in Kinds : consume(c, k)
         \/ verifyCapability(c) \/ consumeRename(c)
         \/ act(c) \/ completeCapability(c) \/ die(c)
  PROVE  TokenInv' /\ [Token!TokenNext]_(Token!tokenVars)
<1>1. CASE (\E k \in Kinds : consume(c, k))
  <2>1. /\ cpc[c] = "idle" /\ cpc' = [cpc EXCEPT ![c] = "verify"] /\ UNCHANGED file
        /\ \A d \in Consumers \ {c} : present'[d] = present[d]
    BY <1>1 DEF consume, AuthInv, AuthTypes
  <2>2. /\ cpc'[c] \notin Acting /\ cpc[c] \notin Acting
        /\ \A d \in Consumers \ {c} : cpc'[d] = cpc[d]
    BY <2>1 DEF AuthInv, AuthTypes, Acting
  <2>3. UNCHANGED holdingBar
    BY <2>1, <2>2, HoldingIs
  <2>4. UNCHANGED <<tokenBar, paperBar>>
    BY <2>1 DEF tokenBar, paperBar, suffixOf, paperOf
  <2>5. TokenInv'
    BY <2>1, <2>2 DEF TokenInv, Lone
  <2> QED BY <2>3, <2>4, <2>5 DEF Token!tokenVars
<1>2. CASE verifyCapability(c) \/ act(c) \/ die(c)
                \/ (consumeRename(c) /\ file[present[c].kind]["issued"] = None)
  <2>1. UNCHANGED <<file, present>>
    BY <1>2 DEF verifyCapability, act, die, consumeRename
  <2>2. \A d \in Consumers \ {c} : cpc'[d] = cpc[d]
    BY <1>2 DEF verifyCapability, act, die, consumeRename, AuthInv, AuthTypes
  <2>3. cpc'[c] \in Acting => cpc[c] \in Acting
    BY <1>2 DEF verifyCapability, act, die, consumeRename, AuthInv, AuthTypes, Acting
  <2>4. TokenInv' /\ (Token!letGo(c) \/ UNCHANGED <<tokenBar, paperBar, holdingBar>>)
    BY <2>1, <2>2, <2>3, LettingGo
  <2> QED BY <2>4 DEF Token!TokenNext, Token!tokenVars
<1>3. CASE consumeRename(c) /\ file[present[c].kind]["issued"] # None
  <2>1. present[c] \in Requests /\ cpc[c] = "rename"
    BY <1>3 DEF consumeRename, AuthInv, AuthTypes
  <2> PICK kind \in Kinds : kind = present[c].kind
    BY <2>1 DEF Requests
  <2>2. /\ file' = [file EXCEPT ![kind]["issued"] = None, ![kind]["consumed"] = file[kind]["issued"]]
        /\ cpc' = [cpc EXCEPT ![c] = "act"] /\ UNCHANGED present
    BY <1>3 DEF consumeRename, renamed
  <2>3. /\ \A j \in Kinds : Lone(file'[j])
        /\ \A j \in Kinds \ {kind} : file'[j] = file[j]
        /\ file'[kind]["consumed"] # None
        /\ tokenBar[kind] = "issued" /\ tokenBar' = [tokenBar EXCEPT ![kind] = "consumed"]
        /\ paperBar' = paperBar
    <3>1. file \in Files
      BY DEF AuthInv, AuthTypes
    <3>2. Moves(kind, "issued", "consumed")
      BY <1>3, <2>2, <3>1, FourFiles DEF Moves, Files
    <3>3. "issued" # "consumed"
      OBVIOUS
    <3> QED BY <3>2, <3>3, FourFiles, MoveKeeps
  <2>4. cpc'[c] \in Acting /\ cpc[c] \notin Acting /\ \A d \in Consumers \ {c} : cpc'[d] = cpc[d]
    BY <2>1, <2>2 DEF AuthInv, AuthTypes, Acting
  <2>5. \A d \in Consumers : cpc[d] \in Acting => present[d].kind \in Kinds \ {kind}
    <3> SUFFICES ASSUME NEW d \in Consumers, cpc[d] \in Acting
                 PROVE  present[d].kind \in Kinds \ {kind}
      OBVIOUS
    <3>1. present[d].kind \in Kinds /\ uses[present[d].kind] = 1
      BY DEF AuthInv, AuthTypes, SameAsVerified, Requests, Acting
    <3>2. uses[kind] = 0
      BY <1>3 DEF AuthInv, OneCapability
    <3> QED BY <3>1, <3>2
  <2>6. present[c] = [kind |-> kind, bound |-> paperBar[kind]]
    <3>1. file[kind] \in Card /\ Lone(file[kind])
      BY DEF AuthInv, AuthTypes, TokenInv, Files, Card
    <3>2. paperBar[kind] = file[kind]["issued"].bound
      BY <1>3, <3>1, FourFiles, WhereItIs DEF paperBar
    <3>3. file[kind]["issued"].bound = present[c].bound
      BY <1>3, <2>1 DEF AuthInv, SameAsVerified
    <3> QED BY <2>1, <3>2, <3>3 DEF Requests
  <2>7. holdingBar[c] = None /\ holdingBar' = [holdingBar EXCEPT ![c] = present[c]]
    BY <2>2, <2>4, HoldingIs
  <2>8. Token!take(c, kind)
    BY <2>3, <2>6, <2>7 DEF Token!take
  <2>9. TokenInv'
    <3>1. ASSUME NEW d \in Consumers, cpc'[d] \in Acting
          PROVE  /\ file'[present'[d].kind]["consumed"] # None
                 /\ d = c \/ (cpc[d] \in Acting /\ present'[d].kind # kind)
      <4>1. CASE d = c
        BY <2>2, <2>3, <4>1
      <4>2. CASE d # c
        <5>1. cpc[d] \in Acting
          BY <2>4, <3>1, <4>2
        <5>2. present[d].kind \in Kinds \ {kind} /\ file[present[d].kind]["consumed"] # None
          BY <2>5, <5>1 DEF TokenInv
        <5> QED BY <2>2, <2>3, <5>1, <5>2
      <4> QED BY <4>1, <4>2
    <3>2. \A d, e \in Consumers :
            cpc'[d] \in Acting /\ cpc'[e] \in Acting /\ present'[d].kind = present'[e].kind => d = e
      BY <2>2, <3>1 DEF TokenInv
    <3> QED BY <2>3, <3>1, <3>2 DEF TokenInv
  <2> QED BY <2>8, <2>9 DEF Token!TokenNext
<1>4. CASE completeCapability(c)
  <2>1. present[c] \in Requests /\ cpc[c] = "complete"
    BY <1>4 DEF completeCapability, AuthInv, AuthTypes
  <2> PICK kind \in Kinds : kind = present[c].kind
    BY <2>1 DEF Requests
  <2>2. /\ file[kind]["consumed"] # None
        /\ file' = [file EXCEPT ![kind]["consumed"] = None, ![kind]["completed"] = file[kind]["consumed"]]
        /\ cpc' = [cpc EXCEPT ![c] = "idle"] /\ UNCHANGED present
    BY <1>4 DEF completeCapability
  <2>3. /\ \A j \in Kinds : Lone(file'[j])
        /\ \A j \in Kinds \ {kind} : file'[j] = file[j]
        /\ tokenBar[kind] = "consumed" /\ tokenBar' = [tokenBar EXCEPT ![kind] = "completed"]
        /\ paperBar' = paperBar
    <3>1. file \in Files
      BY DEF AuthInv, AuthTypes
    <3>2. Moves(kind, "consumed", "completed")
      BY <2>2, <3>1, FourFiles DEF Moves, Files
    <3>3. "consumed" # "completed"
      OBVIOUS
    <3> QED BY <3>2, <3>3, FourFiles, MoveKeeps
  <2>4. cpc'[c] \notin Acting /\ cpc[c] \in Acting /\ \A d \in Consumers \ {c} : cpc'[d] = cpc[d]
    BY <2>1, <2>2 DEF AuthInv, AuthTypes, Acting
  <2>5. \A d \in Consumers \ {c} : cpc[d] \in Acting => present[d].kind \in Kinds \ {kind}
    BY <2>4 DEF TokenInv, AuthInv, AuthTypes, Requests, Acting
  <2>6. holdingBar[c] = present[c] /\ holdingBar' = [holdingBar EXCEPT ![c] = None]
    BY <2>2, <2>4, HoldingIs
  <2>7. present[c] # None
    BY <2>1, AuthorizationAssumption DEF Requests
  <2>8. Token!close(c)
    BY <2>3, <2>6, <2>7 DEF Token!close
  <2>9. TokenInv'
    <3>1. ASSUME NEW d \in Consumers, cpc'[d] \in Acting
          PROVE  cpc[d] \in Acting /\ file'[present'[d].kind]["consumed"] # None
      <4>1. d # c /\ cpc[d] \in Acting
        BY <2>4, <3>1
      <4>2. present[d].kind \in Kinds \ {kind} /\ file[present[d].kind]["consumed"] # None
        BY <2>5, <4>1 DEF TokenInv
      <4> QED BY <2>2, <2>3, <4>1, <4>2
    <3>2. \A d, e \in Consumers :
            cpc'[d] \in Acting /\ cpc'[e] \in Acting /\ present'[d].kind = present'[e].kind => d = e
      BY <2>2, <3>1 DEF TokenInv
    <3> QED BY <2>3, <3>1, <3>2 DEF TokenInv
  <2> QED BY <2>8, <2>9 DEF Token!TokenNext
<1> QED BY <1>1, <1>2, <1>3, <1>4

LEMMA OtherSteps ==
  ASSUME TokenInv, UNCHANGED <<file, cpc, present>>
  PROVE  TokenInv' /\ UNCHANGED Token!tokenVars
BY DEF TokenInv, Lone, tokenBar, paperBar, holdingBar, suffixOf, paperOf, Token!tokenVars

\* With one operator, authorization.mjs keeps its promise, for any consumers and actions:
\* behind the files, their suffixes and the races for them is one token of each kind.
THEOREM FilesAreTokens == ASSUME OneOperator PROVE Spec => ImplementsOneUseToken
<1>1. AuthInv /\ AuthInv' /\ TokenInv /\ [Next]_vars
        => TokenInv' /\ [Token!TokenNext]_(Token!tokenVars)
  <2> SUFFICES ASSUME AuthInv, AuthInv', TokenInv, [Next]_vars
               PROVE  TokenInv' /\ [Token!TokenNext]_(Token!tokenVars)
    OBVIOUS
  <2>1. CASE \/ markPrepared \/ authorize \/ \E k \in Actions : haltForAuthorization(k)
             \/ resume \/ work \/ finish \/ edit \/ UNCHANGED vars
    <3>1. UNCHANGED <<file, cpc, present>>
      BY <2>1 DEF markPrepared, authorize, haltForAuthorization, resume, work, finish, edit,
         authVars, vars
    <3> QED BY <3>1, OtherSteps
  <2> QED BY <2>1, OperatorSteps, FileSteps, ConsumerSteps DEF Next
<1>2. Init => Token!TokenInit /\ TokenInv
  BY TokenStart
<1> QED BY <1>1, <1>2, AuthAlways, PTL DEF Spec, ImplementsOneUseToken, Token!TokenSpec

=============================================================================
