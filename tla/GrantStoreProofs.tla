-------------------------- MODULE GrantStoreProofs --------------------------
(***************************************************************************)
(* Theorems of the authorization store and their proofs.                   *)
(***************************************************************************)
EXTENDS GrantStore, TLAPS

-----------------------------------------------------------------------------
(* Operators on a store.                                                   *)

\* The smaller of two numbers.
LEMMA MinOfTwo ==
    ASSUME NEW a \in Nat, NEW b \in Nat
    PROVE  Min({a, b}) \in Nat /\ Min({a, b}) <= a /\ Min({a, b}) <= b
<1>1. \E x \in {a, b} : \A y \in {a, b} : x <= y
    <2>1. CASE a <= b
        BY <2>1
    <2>2. CASE ~(a <= b)
        BY <2>2
    <2> QED BY <2>1, <2>2
<1>2. Min({a, b}) \in {a, b} /\ \A y \in {a, b} : Min({a, b}) <= y
    BY <1>1 DEF Min
<1> QED BY <1>2

\* The longest life of a grant of each kind.
Longest(scope) == IF scope = "admin" THEN AdminTtl ELSE PrintTtl

\* grant_ttl never grants more than the longest life of the kind.
LEMMA LifeIsCapped ==
    ASSUME NEW scope \in Scope, NEW ttl \in Nat
    PROVE  GrantTtl(scope, ttl) \in Nat /\ GrantTtl(scope, ttl) <= Longest(scope)
<1>1. Longest(scope) \in Nat
    BY GrantAssumption DEF Longest
<1>2. GrantTtl(scope, ttl) = Min({ttl, Longest(scope)})
    BY DEF GrantTtl, Longest
<1> QED BY <1>1, <1>2, MinOfTwo

\* The names of requests, commands and changes are not Nothing.
LEMMA NamesAreThings ==
    /\ \A r \in Request : r # Nothing
    /\ \A x \in Command : x # Nothing
BY GrantAssumption

\* A store stays well formed when a grant of the right age is put into it.
LEMMA GrantPut ==
    ASSUME NEW s, NEW t \in Nat, StoreOK(s, t), NEW g \in Request, NEW grant \in Grant,
           grant.expires <= t + Longest(grant.scope)
    PROVE  StoreOK([s EXCEPT !.grants[g] = grant], t)
<1> DEFINE new == [s EXCEPT !.grants[g] = grant]
<1>1. /\ new.pairing = s.pairing /\ new.approval = s.approval
      /\ new.grants = [s.grants EXCEPT ![g] = grant]
      /\ new \in [grants   : [Request -> Grant \cup {NoGrant}],
                  pairing  : Pairing \cup {NoPairing},
                  approval : Approval \cup {NoApproval}]
    BY DEF StoreOK
<1>2. \A h \in Request : new.grants[h].expires <= t + Longest(new.grants[h].scope)
    BY <1>1 DEF StoreOK, Longest
<1> HIDE DEF new
<1>3. StoreOK(new, t)
    BY <1>1, <1>2 DEF StoreOK, Longest
<1> QED BY <1>3 DEF new

\* A store stays well formed when an approval of the right age is put into it.
LEMMA ApprovalPut ==
    ASSUME NEW s, NEW t \in Nat, StoreOK(s, t), NEW a \in Approval,
           a.expires <= t + ApprovalTtl
    PROVE  StoreOK([s EXCEPT !.approval = a], t)
BY DEF StoreOK

\* A store stays well formed when a code of the right age is put into it.
LEMMA PairingPut ==
    ASSUME NEW s, NEW t \in Nat, StoreOK(s, t), NEW p \in Pairing \cup {NoPairing},
           p.expires <= t + PairTtl
    PROVE  StoreOK([s EXCEPT !.pairing = p], t)
BY DEF StoreOK

\* issue, rotate, revoke, and the forgetting of a code keep a store well formed.
LEMMA StoreChanges ==
    ASSUME NEW s, now \in Nat, StoreOK(s, now)
    PROVE  /\ StoreOK(Unpaired(s), now)
           /\ \A r \in Request, scope \in Scope, ttl \in Nat :
                StoreOK(Issued(s, r, scope, ttl), now)
           /\ \A g \in Request : Known(s, g) =>
                /\ StoreOK(Revoked(s, g), now)
                /\ \A token \in Token, ttl \in Nat : StoreOK(Rotated(s, g, token, ttl), now)
<1>1. StoreOK(Unpaired(s), now)
    <2>1. NoPairing.expires <= now + PairTtl
        BY GrantAssumption DEF NoPairing
    <2> QED BY <2>1, PairingPut DEF Unpaired
<1>2. ASSUME NEW r \in Request, NEW scope \in Scope, NEW ttl \in Nat
      PROVE  StoreOK(Issued(s, r, scope, ttl), now)
    <2> DEFINE grant == [scope |-> scope, token |-> r,
                         expires |-> now + GrantTtl(scope, ttl), revoked |-> FALSE]
    <2>1. GrantTtl(scope, ttl) \in Nat /\ GrantTtl(scope, ttl) <= Longest(scope)
        BY LifeIsCapped
    <2>2. Longest(scope) \in Nat
        BY GrantAssumption DEF Longest
    <2>3. grant \in Grant /\ grant.expires <= now + Longest(grant.scope)
        BY <2>1, <2>2 DEF Grant, Token
    <2> QED BY <2>3, GrantPut DEF Issued
<1>3. ASSUME NEW g \in Request, Known(s, g)
      PROVE  StoreOK(Revoked(s, g), now)
    <2> DEFINE grant == [s.grants[g] EXCEPT !.revoked = TRUE]
    <2>1. s.grants[g] \in Grant /\ s.grants[g].expires <= now + Longest(s.grants[g].scope)
        BY <1>3 DEF StoreOK, Known, Longest
    <2>2. grant \in Grant /\ grant.expires <= now + Longest(grant.scope)
        BY <2>1 DEF Grant
    <2>3. Revoked(s, g) = [s EXCEPT !.grants[g] = grant]
        BY <2>1 DEF Revoked, StoreOK
    <2> HIDE DEF grant
    <2>4. StoreOK([s EXCEPT !.grants[g] = grant], now)
        BY <2>2, GrantPut
    <2> QED BY <2>3, <2>4
<1>4. ASSUME NEW g \in Request, Known(s, g), NEW token \in Token, NEW ttl \in Nat
      PROVE  StoreOK(Rotated(s, g, token, ttl), now)
    <2> DEFINE life  == GrantTtl(s.grants[g].scope, ttl)
               grant == [scope |-> s.grants[g].scope, token |-> token,
                         expires |-> now + life, revoked |-> FALSE]
    <2>1. s.grants[g] \in Grant
        BY <1>4 DEF StoreOK, Known
    <2>2. s.grants[g].scope \in Scope
        BY <2>1 DEF Grant
    <2>3. life \in Nat /\ life <= Longest(s.grants[g].scope)
        BY <2>2, LifeIsCapped
    <2>4. Longest(s.grants[g].scope) \in Nat
        BY GrantAssumption DEF Longest
    <2> HIDE DEF life
    <2>5. grant \in Grant
        BY <2>2, <2>3 DEF Grant
    <2>6. grant.expires = now + life /\ grant.scope = s.grants[g].scope
        OBVIOUS
    <2>7. Rotated(s, g, token, ttl) = [s EXCEPT !.grants[g] = grant]
        BY DEF Rotated, life
    <2> HIDE DEF grant
    <2>8. grant.expires <= now + Longest(grant.scope)
        BY <2>3, <2>4, <2>6
    <2>9. StoreOK([s EXCEPT !.grants[g] = grant], now)
        BY <2>5, <2>8, GrantPut
    <2> QED BY <2>7, <2>9
<1> QED BY <1>1, <1>2, <1>3, <1>4

\* prepare, approve and consume keep a store well formed.
LEMMA ApprovalChanges ==
    ASSUME NEW s, now \in Nat, StoreOK(s, now), grantOf \in [Request -> Request \cup {Nothing}]
    PROVE  /\ \A r \in Request, change \in Change : grantOf[r] \in Request =>
                /\ StoreOK(Requested(s, r, change), now)
                /\ Requested(s, r, change).approval \in Approval
           /\ s.approval.id # Nothing =>
                /\ StoreOK(Approved(s), now)
                /\ StoreOK([s EXCEPT !.approval.consumed = TRUE], now)
<1>1. ASSUME NEW r \in Request, NEW change \in Change, grantOf[r] \in Request
      PROVE  /\ StoreOK(Requested(s, r, change), now)
             /\ Requested(s, r, change).approval \in Approval
    <2> DEFINE a == [id |-> r, grant |-> grantOf[r], change |-> change,
                     expires |-> now + ApprovalTtl, approved |-> FALSE, consumed |-> FALSE]
    <2>1. a \in Approval /\ a.expires <= now + ApprovalTtl
        BY <1>1, GrantAssumption DEF Approval
    <2>2. Requested(s, r, change) = [s EXCEPT !.approval = a]
        BY DEF Requested
    <2> HIDE DEF a
    <2>3. [s EXCEPT !.approval = a].approval = a
        BY DEF StoreOK
    <2> QED BY <2>1, <2>2, <2>3, ApprovalPut
<1>2. ASSUME s.approval.id # Nothing
      PROVE  /\ StoreOK(Approved(s), now)
             /\ StoreOK([s EXCEPT !.approval.consumed = TRUE], now)
    <2>1. s.approval \in Approval /\ s.approval.expires <= now + ApprovalTtl
        BY <1>2 DEF StoreOK, NoApproval
    <2> DEFINE a == [s.approval EXCEPT !.approved = TRUE]
               b == [s.approval EXCEPT !.consumed = TRUE]
    <2>2. /\ a \in Approval /\ a.expires <= now + ApprovalTtl
          /\ b \in Approval /\ b.expires <= now + ApprovalTtl
        BY <2>1 DEF Approval
    <2>3. Approved(s) = [s EXCEPT !.approval = a]
        BY DEF Approved
    <2>4. [s EXCEPT !.approval.consumed = TRUE] = [s EXCEPT !.approval = b]
        OBVIOUS
    <2> HIDE DEF a, b
    <2>5. StoreOK([s EXCEPT !.approval = a], now) /\ StoreOK([s EXCEPT !.approval = b], now)
        BY <2>2, ApprovalPut
    <2> QED BY <2>3, <2>4, <2>5
<1> QED BY <1>1, <1>2

\* A store does not become too old by waiting.
LEMMA StoreAges ==
    ASSUME NEW s, NEW t \in Nat, StoreOK(s, t)
    PROVE  StoreOK(s, t + 1)
<1>1. \A g \in Request : s.grants[g].expires \in Nat
    BY DEF StoreOK, Grant, NoGrant
<1>2. s.pairing.expires \in Nat /\ s.approval.expires \in Nat
    BY DEF StoreOK, Pairing, NoPairing, Approval, NoApproval
<1> QED BY <1>1, <1>2, GrantAssumption DEF StoreOK

\* The empty store is well formed.
LEMMA EmptyOK ==
    ASSUME NEW t \in Nat
    PROVE  StoreOK(Empty, t)
BY GrantAssumption DEF StoreOK, Empty, NoGrant, NoPairing, NoApproval
-----------------------------------------------------------------------------
(* Type correctness.                                                       *)

\* A request that has been authorized acts for a grant.
Authorized == \A r \in Request : stage[r] \in Operation => grantOf[r] \in Request

TypeInv == GrantTypeOK /\ Authorized

\* The variables that are not copies of the store.
RestOK ==
    /\ now \in 0..MaxTime /\ restarts \in 0..MaxRestarts /\ overlap \in BOOLEAN
    /\ stage \in [Request -> Operation \cup {"idle", "done"}]
    /\ grantOf \in [Request -> Request \cup {Nothing}]
    /\ cmd \in [Command -> {"idle", "loaded", "done"}]
    /\ told \subseteq Token /\ ended \subseteq Token /\ confirmed \subseteq Request
    /\ prepared \in [Request -> Approval \cup {NoApproval}]
    /\ exchanged \subseteq Command \X Request
    /\ Authorized

\* The copies of the store.
StoresOK ==
    /\ StoreOK(file, now) /\ StoreOK(memory, now)
    /\ \A x \in Command : StoreOK(copy[x], now)
    /\ copy = [x \in Command |-> copy[x]]

LEMMA TypeInvParts == TypeInv <=> RestOK /\ StoresOK
BY DEF TypeInv, GrantTypeOK, RestOK, StoresOK

\* Time is a number.
LEMMA TimeIsNatural == RestOK => now \in Nat
BY GrantAssumption DEF RestOK

\* The first state is well typed.
LEMMA TypeInit == Init => TypeInv
<1> SUFFICES ASSUME Init PROVE RestOK /\ StoresOK
    BY TypeInvParts
<1>1. RestOK
    <2>1. now \in 0..MaxTime /\ restarts \in 0..MaxRestarts
        <3>1. now = 0 /\ restarts = 0
            BY DEF Init
        <3>2. MaxTime \in Nat /\ MaxRestarts \in Nat
            BY GrantAssumption
        <3> QED BY <3>1, <3>2
    <2>4. overlap \in BOOLEAN
        BY DEF Init
    <2>2. /\ stage \in [Request -> Operation \cup {"idle", "done"}] /\ Authorized
          /\ grantOf \in [Request -> Request \cup {Nothing}]
          /\ cmd \in [Command -> {"idle", "loaded", "done"}]
        BY DEF Init, Authorized, Operation
    <2>3. /\ told \subseteq Token /\ ended \subseteq Token /\ confirmed \subseteq Request
          /\ prepared \in [Request -> Approval \cup {NoApproval}]
          /\ exchanged \subseteq Command \X Request
        BY DEF Init
    <2> QED BY <2>1, <2>2, <2>3, <2>4 DEF RestOK
<1>2. StoreOK(Empty, 0)
    BY EmptyOK
<1>3. StoresOK
    BY <1>2 DEF Init, StoresOK
<1> QED BY <1>1, <1>3

\* Pairing keeps the types.
LEMMA TypePair ==
    ASSUME RestOK, StoresOK, NEW r \in Request, NEW scope \in Scope, NEW code \in Command,
           Pair(r, scope, code)
    PROVE  RestOK' /\ StoresOK'
<1> DEFINE life == IF scope = "admin" THEN AdminTtl ELSE PairedTtl
           issued == Issued(Unpaired(file), r, scope, life)
<1>1. now \in Nat /\ life \in Nat /\ now' = now /\ copy' = copy
    BY TimeIsNatural, GrantAssumption DEF Pair, commandVars
<1>2. StoreOK(file, now) /\ StoreOK(Unpaired(file), now)
    BY <1>1, StoreChanges DEF StoresOK
<1>3. StoreOK(issued, now)
    BY <1>1, <1>2, StoreChanges
<1> HIDE DEF issued
<1>4. file' \in {file, Unpaired(file), issued} /\ memory' \in {file, Unpaired(file), issued}
    BY DEF Pair, Persist, issued
<1>5. StoresOK'
    BY <1>1, <1>2, <1>3, <1>4 DEF StoresOK
<1>6. RestOK'
    <2>1. exchanged' \in {exchanged, exchanged \cup {<<code, r>>}}
          /\ told' \in {told, told \cup {r}}
        BY DEF Pair
    <2>2. exchanged' \subseteq Command \X Request /\ told' \subseteq Token
        BY <2>1 DEF RestOK, Token
    <2>3. /\ stage' \in [Request -> Operation \cup {"idle", "done"}]
          /\ Authorized'
        BY DEF Pair, RestOK, Authorized, Operation
    <2>4. UNCHANGED <<now, restarts, overlap, grantOf, cmd, ended, confirmed, prepared>>
        BY DEF Pair, commandVars
    <2> QED BY <2>2, <2>3, <2>4 DEF RestOK
<1> QED BY <1>5, <1>6

\* Authorization keeps the types.
LEMMA TypeAuthorize ==
    ASSUME RestOK, StoresOK, NEW r \in Request, NEW op \in Operation, NEW token \in Token,
           Authorize(r, op, token)
    PROVE  RestOK' /\ StoresOK'
<1>1. RestOK'
    BY DEF Authorize, Authenticates, RestOK, Authorized, Operation, commandVars, historyVars
<1>2. StoresOK'
    BY DEF Authorize, StoresOK, commandVars
<1> QED BY <1>1, <1>2

\* The handlers keep the types.
LEMMA TypeHandlers ==
    ASSUME RestOK, StoresOK, NEW r \in Request,
           \/ Unknown(r)
           \/ \E ttl \in Ttl : Rotate(r, ttl)
           \/ Revoke(r)
           \/ \E change \in Change : Prepare(r, change)
           \/ \E id \in Request, change \in Change : Configure(r, id, change)
    PROVE  RestOK' /\ StoresOK'
<1>1. now \in Nat
    BY TimeIsNatural
<1>2. StoreOK(file, now) /\ StoreOK(memory, now)
    BY DEF StoresOK
<1>3. CASE Unknown(r)
    <2>1. RestOK'
        BY <1>3 DEF Unknown, Handled, RestOK, Authorized, Operation, commandVars
    <2>2. StoresOK'
        BY <1>3 DEF Unknown, Handled, StoresOK, commandVars
    <2> QED BY <2>1, <2>2
<1>4. ASSUME NEW ttl \in Ttl, Rotate(r, ttl)
      PROVE  RestOK' /\ StoresOK'
    <2>1. ttl \in Nat /\ grantOf[r] \in Request /\ r \in Token
        BY <1>4, GrantAssumption DEF Rotate, Handled, RestOK, Authorized, Operation, Token
    <2>2. memory.grants[grantOf[r]].token \in Token
        BY <1>2, <1>4, <2>1 DEF Rotate, Known, StoreOK, Grant
    <2>3. StoreOK(Rotated(memory, grantOf[r], r, ttl), now)
        BY <1>1, <1>2, <1>4, <2>1, StoreChanges DEF Rotate
    <2>4. StoresOK'
        BY <1>2, <1>4, <2>3 DEF Rotate, Handled, Persist, StoresOK, commandVars
    <2>5. RestOK'
        BY <1>4, <2>1, <2>2 DEF Rotate, Handled, RestOK, Authorized, Operation, commandVars
    <2> QED BY <2>4, <2>5
<1>5. CASE Revoke(r)
    <2>1. grantOf[r] \in Request
        BY <1>5 DEF Revoke, Handled, RestOK, Authorized, Operation
    <2>2. memory.grants[grantOf[r]].token \in Token
        BY <1>2, <1>5, <2>1 DEF Revoke, Known, StoreOK, Grant
    <2>3. StoreOK(Revoked(memory, grantOf[r]), now)
        BY <1>1, <1>2, <1>5, <2>1, StoreChanges DEF Revoke
    <2>4. StoresOK'
        BY <1>2, <1>5, <2>3 DEF Revoke, Handled, Persist, StoresOK, commandVars
    <2>5. RestOK'
        BY <1>5, <2>2 DEF Revoke, Handled, RestOK, Authorized, Operation, commandVars
    <2> QED BY <2>4, <2>5
<1>6. ASSUME NEW change \in Change, Prepare(r, change)
      PROVE  RestOK' /\ StoresOK'
    <2>1. grantOf[r] \in Request /\ grantOf \in [Request -> Request \cup {Nothing}]
        BY <1>6 DEF Prepare, Handled, RestOK, Authorized, Operation
    <2>2. /\ StoreOK(Requested(memory, r, change), now)
          /\ Requested(memory, r, change).approval \in Approval
        BY <1>1, <1>2, <2>1, ApprovalChanges
    <2>3. StoresOK'
        BY <1>2, <1>6, <2>2 DEF Prepare, Handled, Persist, StoresOK, commandVars
    <2>4. RestOK'
        BY <1>6, <2>2 DEF Prepare, Handled, RestOK, Authorized, Operation, commandVars
    <2> QED BY <2>3, <2>4
<1>7. ASSUME NEW id \in Request, NEW change \in Change, Configure(r, id, change)
      PROVE  RestOK' /\ StoresOK'
    <2> DEFINE used == [file EXCEPT !.approval.consumed = TRUE]
    <2>1. Consumable(file, id, r, change) => StoreOK(used, now)
        BY <1>1, <1>2, ApprovalChanges, NamesAreThings DEF Consumable, RestOK
    <2> HIDE DEF used
    <2>2. StoresOK'
        <3>1. /\ now' = now /\ copy' = copy
              /\ \/ memory' = file /\ file' = file
                 \/ /\ Consumable(file, id, r, change)
                    /\ memory' = used /\ file' \in {file, used}
            BY <1>7 DEF Configure, Handled, Persist, commandVars, used
        <3> QED BY <1>2, <2>1, <3>1 DEF StoresOK
    <2>3. RestOK'
        BY <1>7 DEF Configure, Handled, RestOK, Authorized, Operation, commandVars
    <2> QED BY <2>2, <2>3
<1> QED BY <1>3, <1>4, <1>5, <1>6, <1>7

\* The commands keep the types.
LEMMA TypeCommands ==
    ASSUME RestOK, StoresOK, NEW x \in Command, Run(x)
    PROVE  RestOK' /\ StoresOK'
<1>1. now \in Nat /\ StoreOK(copy[x], now) /\ StoreOK(Empty, now)
    BY TimeIsNatural, EmptyOK DEF StoresOK
<1>2. ASSUME NEW s, NEW ok \in Persisted, StoreOK(s, now), Write(x, s, ok)
      PROVE  StoresOK'
    <2>1. /\ now' = now /\ memory' = memory /\ file' \in {s, file}
          /\ copy' = [copy EXCEPT ![x] = Empty]
        BY <1>2 DEF Write, Persist, serviceVars
    <2> QED BY <1>1, <1>2, <2>1 DEF StoresOK
<1>3. ASSUME NEW s, NEW ok \in Persisted, Write(x, s, ok),
             told' \subseteq Token, confirmed' \subseteq Request
      PROVE  RestOK'
    BY <1>3 DEF Write, RestOK, Authorized, Persisted, serviceVars
<1>4. CASE Load(x)
    <2>1. RestOK'
        BY <1>4 DEF Load, RestOK, Authorized, serviceVars, historyVars
    <2>2. StoresOK'
        BY <1>4 DEF Load, StoresOK, serviceVars
    <2> QED BY <2>1, <2>2
<1>5. ASSUME NEW scope \in Scope, NEW ttl \in Ttl, BeginPairing(x, scope, ttl)
      PROVE  RestOK' /\ StoresOK'
    <2> DEFINE p == [code |-> x, scope |-> scope, expires |-> now + Min({ttl, PairTtl})]
    <2>1. Min({ttl, PairTtl}) \in Nat /\ Min({ttl, PairTtl}) <= PairTtl
        BY MinOfTwo, GrantAssumption
    <2>2. p \in Pairing /\ p.expires <= now + PairTtl
        BY <1>1, <2>1, GrantAssumption DEF Pairing
    <2>3. PICK ok \in Persisted : Write(x, [copy[x] EXCEPT !.pairing = p], ok)
        BY <1>5 DEF BeginPairing
    <2> HIDE DEF p
    <2>4. StoreOK([copy[x] EXCEPT !.pairing = p], now)
        BY <1>1, <2>2, PairingPut
    <2>5. told' = told /\ confirmed' = confirmed
        BY <1>5 DEF BeginPairing
    <2> QED BY <1>2, <1>3, <2>3, <2>4, <2>5 DEF RestOK
<1>6. ASSUME NEW g \in Request, RevokeCommand(x, g)
      PROVE  RestOK' /\ StoresOK'
    <2>1. StoreOK(Revoked(copy[x], g), now)
        BY <1>1, <1>6, StoreChanges DEF RevokeCommand
    <2>2. /\ \E ok \in Persisted : Write(x, Revoked(copy[x], g), ok)
          /\ told' = told /\ confirmed' = confirmed
        BY <1>6 DEF RevokeCommand
    <2> QED BY <1>2, <1>3, <2>1, <2>2 DEF RestOK
<1>7. ASSUME NEW g \in Request, NEW ttl \in Ttl, RotateCommand(x, g, ttl)
      PROVE  RestOK' /\ StoresOK'
    <2>1. StoreOK(Rotated(copy[x], g, x, ttl), now)
        BY <1>1, <1>7, StoreChanges, GrantAssumption DEF RotateCommand, Token
    <2>2. /\ \E ok \in Persisted : Write(x, Rotated(copy[x], g, x, ttl), ok)
          /\ told' \subseteq told \cup {x} /\ confirmed' = confirmed
        BY <1>7 DEF RotateCommand
    <2> QED BY <1>2, <1>3, <2>1, <2>2 DEF RestOK, Token
<1>8. CASE Approve(x)
    <2>1. StoreOK(Approved(copy[x]), now)
        <3>1. copy[x].approval.id # Nothing
            BY <1>8 DEF Approve, Approvable
        <3> QED BY <1>1, <3>1, ApprovalChanges DEF RestOK
    <2>2. copy[x].approval.id \in Request
        BY <1>1, <1>8 DEF Approve, Approvable, StoreOK, Approval, NoApproval
    <2>3. /\ \E ok \in Persisted : Write(x, Approved(copy[x]), ok)
          /\ told' = told /\ confirmed' = confirmed \cup {copy[x].approval.id}
        BY <1>8 DEF Approve
    <2> QED BY <1>2, <1>3, <2>1, <2>2, <2>3 DEF RestOK
<1> QED BY <1>4, <1>5, <1>6, <1>7, <1>8 DEF Run

\* Every step keeps the types.
LEMMA TypeNext == TypeInv /\ [Next]_vars => TypeInv'
<1> SUFFICES ASSUME RestOK, StoresOK, [Next]_vars PROVE RestOK' /\ StoresOK'
    BY TypeInvParts DEF TypeInv, GrantTypeOK, RestOK, StoresOK
<1>1. ASSUME NEW r \in Request, Serve(r) PROVE RestOK' /\ StoresOK'
    BY <1>1, TypePair, TypeAuthorize, TypeHandlers DEF Serve
<1>2. ASSUME NEW x \in Command, Run(x) PROVE RestOK' /\ StoresOK'
    BY <1>2, TypeCommands
<1>3. CASE Restart
    <2>1. RestOK'
        BY <1>3, GrantAssumption
           DEF Restart, RestOK, Authorized, Operation, commandVars, historyVars
    <2>2. StoresOK'
        BY <1>3 DEF Restart, StoresOK, commandVars
    <2> QED BY <2>1, <2>2
<1>4. CASE Tick
    <2>1. RestOK'
        BY <1>4, GrantAssumption DEF Tick, RestOK, Authorized, serviceVars, commandVars, historyVars
    <2>2. now \in Nat /\ now' = now + 1
        BY <1>4, TimeIsNatural DEF Tick
    <2>3. StoresOK'
        BY <1>4, <2>2, StoreAges DEF Tick, StoresOK, serviceVars, commandVars
    <2> QED BY <2>1, <2>3
<1>5. CASE UNCHANGED vars
    BY <1>5 DEF vars, RestOK, StoresOK, Authorized, serviceVars, commandVars, historyVars
<1> QED BY <1>1, <1>2, <1>3, <1>4, <1>5 DEF Next

\* Every copy of the store stays well formed and no grant, code or approval in
\* it outlives the longest life of its kind (src/auth.rs), for any number of
\* requests and commands.
THEOREM GrantTypeCorrect == Spec => []GrantTypeOK
<1>1. TypeInv => GrantTypeOK
    BY DEF TypeInv
<1> QED BY <1>1, TypeInit, TypeNext, PTL DEF Spec

-----------------------------------------------------------------------------
(* Changes are applied as approved.                                        *)

\* Approval a is of a request that is over, says what it was prepared for, and
\* is only marked as approved if a person confirmed it.
Traced(a, st, prep, conf) ==
    a.id # Nothing =>
      /\ st[a.id] = "done"
      /\ prep[a.id].grant = a.grant /\ prep[a.id].change = a.change
      /\ prep[a.id].expires = a.expires
      /\ a.approved => a.id \in conf

\* So are the approvals of all copies of the store.
TraceInv ==
    /\ Traced(file.approval, stage, prepared, confirmed)
    /\ Traced(memory.approval, stage, prepared, confirmed)
    /\ \A x \in Command : Traced(copy[x].approval, stage, prepared, confirmed)

\* What was applied was approved, and its approval cannot be prepared again.
AppliedInv ==
    \A a \in applied :
      /\ a.id \in Request /\ stage[a.id] = "done"
      /\ a.id \in confirmed
      /\ prepared[a.id].change = a.change /\ prepared[a.id].grant = a.grant
      /\ a.at <= prepared[a.id].expires

ApprovedInv == TypeInv /\ TraceInv /\ AppliedInv

\* A request that is over stays over with what it prepared, and nobody takes a
\* confirmation back.
LEMMA HistoryStands ==
    ASSUME RestOK, [Next]_vars
    PROVE  /\ \A r \in Request : stage[r] = "done" =>
                stage'[r] = "done" /\ prepared'[r] = prepared[r]
           /\ confirmed \subseteq confirmed'
<1>1. ASSUME NEW q \in Request, Serve(q)
      PROVE  /\ \A r \in Request : stage[r] = "done" =>
                  stage'[r] = "done" /\ prepared'[r] = prepared[r]
             /\ confirmed' = confirmed
    <2>1. ASSUME NEW scope \in Scope, NEW code \in Command, Pair(q, scope, code)
          PROVE  /\ stage[q] = "idle" /\ stage' = [stage EXCEPT ![q] = "done"]
                 /\ prepared' = prepared /\ confirmed' = confirmed
        BY <2>1 DEF Pair
    <2>2. ASSUME NEW op \in Operation, NEW token \in Token, Authorize(q, op, token)
          PROVE  /\ stage[q] = "idle" /\ stage' = [stage EXCEPT ![q] = op]
                 /\ prepared' = prepared /\ confirmed' = confirmed
        BY <2>2 DEF Authorize, historyVars
    <2>3. CASE \/ Unknown(q)
               \/ \E ttl \in Ttl : Rotate(q, ttl)
               \/ Revoke(q)
               \/ \E change \in Change : Prepare(q, change)
               \/ \E id \in Request, change \in Change : Configure(q, id, change)
        <3>1. /\ stage[q] # "done" /\ stage' = [stage EXCEPT ![q] = "done"]
              /\ confirmed' = confirmed
            BY <2>3 DEF Unknown, Rotate, Revoke, Prepare, Configure, Handled
        <3>2. prepared' = prepared \/ prepared' = [prepared EXCEPT ![q] = memory'.approval]
            BY <2>3 DEF Unknown, Rotate, Revoke, Prepare, Configure
        <3> QED BY <3>1, <3>2 DEF RestOK
    <2> QED BY <1>1, <2>1, <2>2, <2>3 DEF Serve, RestOK
<1>2. ASSUME NEW x \in Command, Run(x)
      PROVE  stage' = stage /\ prepared' = prepared /\ confirmed \subseteq confirmed'
    BY <1>2 DEF Run, Load, BeginPairing, RevokeCommand, RotateCommand, Approve, Write,
                serviceVars, historyVars
<1>3. CASE Restart
    BY <1>3 DEF Restart, historyVars
<1>4. CASE Tick \/ UNCHANGED vars
    BY <1>4 DEF Tick, vars, serviceVars, historyVars
<1> QED BY <1>1, <1>2, <1>3, <1>4 DEF Next

\* An approval that says what it was prepared for goes on doing so.
LEMMA TraceStands ==
    ASSUME RestOK, [Next]_vars, NEW s, StoreOK(s, now),
           Traced(s.approval, stage, prepared, confirmed)
    PROVE  Traced(s.approval, stage', prepared', confirmed')
<1>1. s.approval.id = Nothing \/ s.approval.id \in Request
    BY DEF StoreOK, Approval, NoApproval
<1> QED BY <1>1, HistoryStands DEF Traced

\* issue, rotate, revoke and the forgetting of a code leave the approval alone.
LEMMA ApprovalLeft ==
    ASSUME NEW s, NEW t \in Nat, StoreOK(s, t), NEW g \in Request
    PROVE  /\ Unpaired(s).approval = s.approval
           /\ Revoked(s, g).approval = s.approval
           /\ \A scope, ttl : Issued(Unpaired(s), g, scope, ttl).approval = s.approval
           /\ \A token, ttl : Rotated(s, g, token, ttl).approval = s.approval
BY DEF StoreOK, Unpaired, Revoked, Issued, Rotated

\* A step of the service keeps all approvals traceable.
LEMMA TraceServe ==
    ASSUME RestOK, StoresOK, TraceInv, NEW r \in Request, Serve(r)
    PROVE  TraceInv'
<1> DEFINE OK(s) == Traced(s.approval, stage', prepared', confirmed')
<1>1. now \in Nat /\ StoreOK(file, now) /\ StoreOK(memory, now)
    BY TimeIsNatural DEF StoresOK
<1>2. OK(file) /\ OK(memory) /\ \A x \in Command : OK(copy[x])
    BY TraceStands DEF Next, TraceInv, StoresOK
<1>3. copy' = copy
    BY DEF Serve, Pair, Authorize, Unknown, Rotate, Revoke, Prepare, Configure, Handled,
           commandVars
<1>4. SUFFICES OK(file') /\ OK(memory')
    BY <1>2, <1>3 DEF TraceInv
<1>5. ASSUME NEW scope \in Scope, NEW code \in Command, Pair(r, scope, code)
      PROVE  file'.approval = file.approval /\ memory'.approval = file.approval
    <2> DEFINE issued == Issued(Unpaired(file), r, scope,
                                IF scope = "admin" THEN AdminTtl ELSE PairedTtl)
    <2>1. Unpaired(file).approval = file.approval /\ issued.approval = file.approval
        BY <1>1, ApprovalLeft
    <2>2. file' \in {file, Unpaired(file), issued} /\ memory' \in {file, Unpaired(file), issued}
        BY <1>5 DEF Pair, Persist
    <2> HIDE DEF issued
    <2> QED BY <2>1, <2>2
<1>6. ASSUME \/ \E op \in Operation, token \in Token : Authorize(r, op, token)
             \/ Unknown(r)
      PROVE  file' = file /\ memory' = memory
    BY <1>6 DEF Authorize, Unknown
<1>7. ASSUME \/ \E ttl \in Ttl : Rotate(r, ttl)
             \/ Revoke(r)
      PROVE  /\ memory'.approval = memory.approval
             /\ file' \in {file, memory'}
    <2>1. grantOf[r] \in Request
        BY <1>7 DEF Rotate, Revoke, Handled, RestOK, Authorized, Operation
    <2> QED BY <1>1, <1>7, <2>1, ApprovalLeft DEF Rotate, Revoke, Persist
<1>8. ASSUME NEW change \in Change, Prepare(r, change)
      PROVE  OK(file') /\ OK(memory')
    <2>1. CASE file' = file /\ memory' = memory
        BY <1>2, <2>1
    <2>2. CASE /\ memory' = Requested(memory, r, change)
               /\ prepared' = [prepared EXCEPT ![r] = memory'.approval]
               /\ file' \in {file, memory'}
        <3>1. /\ memory'.approval.id = r /\ memory'.approval.approved = FALSE
            BY <1>1, <2>2 DEF Requested, StoreOK
        <3>2. prepared'[r] = memory'.approval /\ stage'[r] = "done"
            BY <1>8, <2>2 DEF Prepare, Handled, RestOK
        <3>3. OK(memory')
            BY <3>1, <3>2 DEF Traced
        <3> QED BY <1>2, <2>2, <3>3
    <2> QED BY <1>8, <2>1, <2>2 DEF Prepare, Persist
<1>9. ASSUME NEW id \in Request, NEW change \in Change, Configure(r, id, change)
      PROVE  OK(file') /\ OK(memory')
    <2> DEFINE used == [file EXCEPT !.approval.consumed = TRUE]
    <2>1. CASE memory' = file /\ file' = file
        BY <1>2, <2>1
    <2>2. CASE /\ Consumable(file, id, r, change)
               /\ memory' = used /\ file' \in {file, used}
        <3>1. file.approval \in Approval
            BY <1>1, <2>2, NamesAreThings DEF Consumable, StoreOK, NoApproval
        <3>2. /\ used.approval.id = file.approval.id
              /\ used.approval.grant = file.approval.grant
              /\ used.approval.change = file.approval.change
              /\ used.approval.expires = file.approval.expires
              /\ used.approval.approved = file.approval.approved
            BY <1>1, <3>1 DEF StoreOK, Approval
        <3> HIDE DEF used
        <3>3. OK(used)
            BY <1>2, <3>2 DEF Traced
        <3> QED BY <1>2, <2>2, <3>3
    <2> QED BY <1>9, <2>1, <2>2 DEF Configure, Persist
<1> HIDE DEF OK
<1>10. \A s, t : s.approval = t.approval /\ OK(t) => OK(s)
    BY DEF OK
<1>11. CASE \E scope \in Scope, code \in Command : Pair(r, scope, code)
    BY <1>2, <1>5, <1>10, <1>11
<1>12. CASE (\E op \in Operation, token \in Token : Authorize(r, op, token)) \/ Unknown(r)
    BY <1>2, <1>6, <1>12
<1>13. CASE (\E ttl \in Ttl : Rotate(r, ttl)) \/ Revoke(r)
    BY <1>2, <1>7, <1>10, <1>13
<1> QED BY <1>8, <1>9, <1>11, <1>12, <1>13 DEF Serve

\* A step of a command keeps all approvals traceable.
LEMMA TraceRun ==
    ASSUME RestOK, StoresOK, TraceInv, NEW x \in Command, Run(x)
    PROVE  TraceInv'
<1> DEFINE OK(s) == Traced(s.approval, stage', prepared', confirmed')
<1>1. now \in Nat /\ StoreOK(copy[x], now)
    BY TimeIsNatural DEF StoresOK
<1>2. OK(file) /\ OK(memory) /\ \A y \in Command : OK(copy[y])
    BY TraceStands DEF Next, TraceInv, StoresOK
<1>3. memory' = memory
    BY DEF Run, Load, BeginPairing, RevokeCommand, RotateCommand, Approve, Write, serviceVars
<1>4. OK(Empty)
    BY DEF Traced, Empty, NoApproval
<1>5. CASE Load(x)
    <2>1. file' = file /\ copy' = [copy EXCEPT ![x] = file]
        BY <1>5 DEF Load
    <2>2. \A y \in Command : OK(copy'[y])
        BY <1>2, <2>1 DEF StoresOK
    <2> QED BY <1>2, <1>3, <2>1, <2>2 DEF TraceInv
<1>6. ASSUME NEW s, NEW ok \in Persisted, Write(x, s, ok), OK(s)
      PROVE  TraceInv'
    <2>1. file' \in {file, s} /\ copy' = [copy EXCEPT ![x] = Empty]
        BY <1>6 DEF Write, Persist
    <2> HIDE DEF OK
    <2>2. OK(file') /\ OK(memory')
        BY <1>2, <1>3, <1>6, <2>1
    <2>3. \A y \in Command : OK(copy'[y])
        BY <1>2, <1>4, <2>1 DEF StoresOK
    <2> QED BY <2>2, <2>3 DEF TraceInv, OK
<1>7. ASSUME NEW scope \in Scope, NEW ttl \in Ttl, BeginPairing(x, scope, ttl)
      PROVE  TraceInv'
    <2>1. PICK ok \in Persisted :
            Write(x, [copy[x] EXCEPT !.pairing = [code |-> x, scope |-> scope,
                          expires |-> now + Min({ttl, PairTtl})]], ok)
        BY <1>7 DEF BeginPairing
    <2>2. [copy[x] EXCEPT !.pairing = [code |-> x, scope |-> scope,
                 expires |-> now + Min({ttl, PairTtl})]].approval = copy[x].approval
        BY <1>1 DEF StoreOK
    <2> QED BY <1>2, <1>6, <2>1, <2>2
<1>8. ASSUME NEW g \in Request, RevokeCommand(x, g)
      PROVE  TraceInv'
    <2>1. PICK ok \in Persisted : Write(x, Revoked(copy[x], g), ok)
        BY <1>8 DEF RevokeCommand
    <2>2. Revoked(copy[x], g).approval = copy[x].approval
        BY <1>1, ApprovalLeft
    <2> QED BY <1>2, <1>6, <2>1, <2>2
<1>9. ASSUME NEW g \in Request, NEW ttl \in Ttl, RotateCommand(x, g, ttl)
      PROVE  TraceInv'
    <2>1. PICK ok \in Persisted : Write(x, Rotated(copy[x], g, x, ttl), ok)
        BY <1>9 DEF RotateCommand
    <2>2. Rotated(copy[x], g, x, ttl).approval = copy[x].approval
        BY <1>1, ApprovalLeft
    <2> QED BY <1>2, <1>6, <2>1, <2>2
<1>10. CASE Approve(x)
    <2>1. PICK ok \in Persisted : Write(x, Approved(copy[x]), ok)
        BY <1>10 DEF Approve
    <2>2. copy[x].approval \in Approval /\ copy[x].approval.id \in confirmed'
        BY <1>1, <1>10 DEF Approve, Approvable, StoreOK, NoApproval
    <2>3. /\ Approved(copy[x]).approval.id = copy[x].approval.id
          /\ Approved(copy[x]).approval.grant = copy[x].approval.grant
          /\ Approved(copy[x]).approval.change = copy[x].approval.change
          /\ Approved(copy[x]).approval.expires = copy[x].approval.expires
        BY <1>1, <2>2 DEF Approved, StoreOK, Approval
    <2>4. OK(Approved(copy[x]))
        BY <1>2, <2>2, <2>3 DEF Traced
    <2> QED BY <1>6, <2>1, <2>4
<1> QED BY <1>5, <1>7, <1>8, <1>9, <1>10 DEF Run

\* Every step keeps all approvals traceable.
LEMMA TraceNext ==
    ASSUME RestOK, StoresOK, TraceInv, [Next]_vars
    PROVE  TraceInv'
<1>1. CASE Restart
    <2>1. /\ Traced(file.approval, stage', prepared', confirmed')
          /\ \A x \in Command : Traced(copy[x].approval, stage', prepared', confirmed')
        BY TraceStands DEF TraceInv, StoresOK
    <2>2. file' = file /\ memory' = file /\ copy' = copy
        BY <1>1 DEF Restart, commandVars
    <2> QED BY <2>1, <2>2 DEF TraceInv
<1>2. CASE Tick \/ UNCHANGED vars
    BY <1>2 DEF Tick, vars, TraceInv, serviceVars, commandVars, historyVars
<1> QED BY <1>1, <1>2, TraceServe, TraceRun DEF Next

\* What is applied now has just been found approved in the file; what was
\* applied earlier stays approved.
LEMMA AppliedNext ==
    ASSUME RestOK, StoresOK, TraceInv, AppliedInv, [Next]_vars
    PROVE  AppliedInv'
<1>1. ASSUME NEW a \in applied
      PROVE  /\ a.id \in Request /\ stage'[a.id] = "done"
             /\ a.id \in confirmed'
             /\ prepared'[a.id].change = a.change /\ prepared'[a.id].grant = a.grant
             /\ a.at <= prepared'[a.id].expires
    BY HistoryStands DEF AppliedInv
<1>2. ASSUME NEW r \in Request, NEW id \in Request, NEW change \in Change,
             Configure(r, id, change)
      PROVE  AppliedInv'
    <2> DEFINE new == [by |-> r, id |-> id, grant |-> grantOf[r],
                       change |-> change, at |-> now]
    <2>1. \/ applied' = applied
          \/ Consumable(file, id, r, change) /\ applied' = applied \cup {new}
        BY <1>2 DEF Configure
    <2>2. ASSUME Consumable(file, id, r, change)
          PROVE  /\ id \in Request /\ stage'[id] = "done" /\ id \in confirmed'
                 /\ prepared'[id].change = change /\ prepared'[id].grant = grantOf[r]
                 /\ now <= prepared'[id].expires
        <3>1. /\ file.approval.id = id /\ file.approval.change = change
              /\ file.approval.grant = grantOf[r] /\ file.approval.approved
              /\ ~(file.approval.expires < now) /\ id # Nothing
            BY <2>2, NamesAreThings DEF Consumable, Expired
        <3>2. now \in Nat /\ file.approval.expires \in Nat
            BY TimeIsNatural DEF StoresOK, StoreOK, Approval, NoApproval
        <3>3. /\ stage[id] = "done" /\ id \in confirmed
              /\ prepared[id].change = change /\ prepared[id].grant = grantOf[r]
              /\ prepared[id].expires = file.approval.expires
            BY <3>1 DEF TraceInv, Traced
        <3> QED BY <3>1, <3>2, <3>3, HistoryStands
    <2>3. ASSUME Consumable(file, id, r, change)
          PROVE  /\ new.id \in Request /\ stage'[new.id] = "done"
                 /\ new.id \in confirmed'
                 /\ prepared'[new.id].change = new.change
                 /\ prepared'[new.id].grant = new.grant
                 /\ new.at <= prepared'[new.id].expires
        BY <2>2, <2>3
    <2> HIDE DEF new
    <2> QED BY <1>1, <2>1, <2>3 DEF AppliedInv
<1>3. ASSUME NEW r \in Request, Serve(r),
             ~ \E id \in Request, change \in Change : Configure(r, id, change)
      PROVE  applied' = applied
    BY <1>3 DEF Serve, Pair, Authorize, Unknown, Rotate, Revoke, Prepare, historyVars
<1>4. ASSUME NEW x \in Command, Run(x)
      PROVE  applied' = applied
    BY <1>4 DEF Run, Load, BeginPairing, RevokeCommand, RotateCommand, Approve, Write,
                historyVars
<1>5. CASE Restart \/ Tick \/ UNCHANGED vars
    BY <1>1, <1>5 DEF Restart, Tick, vars, historyVars, AppliedInv
<1>6. ASSUME applied' = applied PROVE AppliedInv'
    BY <1>1, <1>6 DEF AppliedInv
<1> QED BY <1>2, <1>3, <1>4, <1>5, <1>6 DEF Next

\* Whatever is sent to the printer is the change a person confirmed, under the
\* grant it was prepared for and within the approval's time
\* (consume_wifi_approval), for any number of requests, commands, failing saves,
\* restarts and overwritten files.
THEOREM ChangesAsApproved == Spec => []AppliedAsApproved
<1>1. Init => ApprovedInv
    <2>1. Init => TraceInv
        BY DEF Init, TraceInv, Traced, Empty, NoApproval
    <2>2. Init => AppliedInv
        BY DEF Init, AppliedInv
    <2> QED BY <2>1, <2>2, TypeInit DEF ApprovedInv
<1>2. ApprovedInv /\ [Next]_vars => ApprovedInv'
    <2> SUFFICES ASSUME ApprovedInv, [Next]_vars PROVE ApprovedInv'
        OBVIOUS
    <2>1. RestOK /\ StoresOK
        BY TypeInvParts DEF ApprovedInv
    <2> QED BY <2>1, TypeNext, TraceNext, AppliedNext DEF ApprovedInv
<1>3. ApprovedInv => AppliedAsApproved
    BY DEF ApprovedInv, AppliedInv, AppliedAsApproved
<1> QED BY <1>1, <1>2, <1>3, PTL DEF Spec

-----------------------------------------------------------------------------
(* What the authorization store does once, and what it does not take back, as  *)
(* long as no command writes over what it has not read: a code is exchanged    *)
(* once, an approval is used once, an ended token stays ended.                 *)

-----------------------------------------------------------------------------
(* What the steps do to the store's fields.                                *)

\* s2 is s but for the token of grant g.
Retokened(s, s2, g, token) ==
    \A h \in Request : IF h = g THEN s2.grants[h].token = token
                                ELSE s2.grants[h] = s.grants[h]

\* s2 is s but for the mark of a revoked grant g.
RevokedIn(s, s2, g) ==
    \A h \in Request : /\ s2.grants[h].token = s.grants[h].token
                       /\ IF h = g THEN s2.grants[h].revoked ELSE s2.grants[h] = s.grants[h]

LEMMA FieldChanges ==
    ASSUME NEW s, NEW t \in Nat, StoreOK(s, t), NEW g \in Request
    PROVE  /\ Unpaired(s).pairing = NoPairing /\ Unpaired(s).grants = s.grants
           /\ Revoked(s, g).pairing = s.pairing
           /\ Known(s, g) => RevokedIn(s, Revoked(s, g), g)
           /\ \A scope, ttl : /\ Issued(s, g, scope, ttl).pairing = s.pairing
                              /\ Retokened(s, Issued(s, g, scope, ttl), g, g)
           /\ \A token, ttl : /\ Rotated(s, g, token, ttl).pairing = s.pairing
                              /\ Retokened(s, Rotated(s, g, token, ttl), g, token)
<1>1. Unpaired(s).pairing = NoPairing /\ Unpaired(s).grants = s.grants
    BY DEF StoreOK, Unpaired
<1>2. Revoked(s, g).pairing = s.pairing
    BY DEF StoreOK, Revoked
<1>3. ASSUME Known(s, g)
      PROVE  RevokedIn(s, Revoked(s, g), g)
    <2>1. s.grants \in [Request -> Grant \cup {NoGrant}] /\ s.grants[g] \in Grant
        BY <1>3 DEF StoreOK, Known
    <2>2. Revoked(s, g).grants = [s.grants EXCEPT ![g] = [s.grants[g] EXCEPT !.revoked = TRUE]]
        BY <2>1 DEF Revoked, StoreOK
    <2>3. [s.grants[g] EXCEPT !.revoked = TRUE].token = s.grants[g].token
          /\ [s.grants[g] EXCEPT !.revoked = TRUE].revoked
        BY <2>1 DEF Grant
    <2> QED BY <2>1, <2>2, <2>3 DEF RevokedIn
<1>4. ASSUME NEW scope, NEW ttl
      PROVE  /\ Issued(s, g, scope, ttl).pairing = s.pairing
             /\ Retokened(s, Issued(s, g, scope, ttl), g, g)
    BY DEF StoreOK, Issued, Retokened
<1>5. ASSUME NEW token, NEW ttl
      PROVE  /\ Rotated(s, g, token, ttl).pairing = s.pairing
             /\ Retokened(s, Rotated(s, g, token, ttl), g, token)
    BY DEF StoreOK, Rotated, Retokened
<1> QED BY <1>1, <1>2, <1>3, <1>4, <1>5

\* What a request's step does to codes and grants.
Moved(s) == s.pairing \in {file.pairing, memory.pairing, NoPairing}

\* A code is exchanged: file and memory forget it, a grant may come of it.
ExchangeStep(r) ==
    /\ stage[r] = "idle" /\ stage'[r] = "done" /\ ended' = ended
    /\ file'.pairing = NoPairing /\ memory'.pairing = NoPairing
    /\ file.pairing.code # Nothing
    /\ exchanged' = exchanged \cup {<<file.pairing.code, r>>}
    /\ Retokened(file, memory', r, r)
    /\ file' = memory' \/ file'.grants = file.grants

\* Codes and grants only move between file and memory.
PlainStep ==
    /\ Moved(file') /\ Moved(memory') /\ exchanged' = exchanged /\ ended' = ended
    /\ file'.grants \in {file.grants, memory.grants}
    /\ memory'.grants \in {file.grants, memory.grants}

\* A grant of the service's copy gets a new token, or is revoked; its token is
\* ended when that is saved.
EndStep(r) ==
    /\ stage[r] \in {"rotate", "revoke"} /\ stage'[r] = "done" /\ Known(memory, grantOf[r])
    /\ memory'.pairing = memory.pairing /\ exchanged' = exchanged
    /\ \/ Retokened(memory, memory', grantOf[r], r)
       \/ RevokedIn(memory, memory', grantOf[r])
    /\ \/ file' = file /\ ended' = ended
       \/ file' = memory' /\ ended' = ended \cup {memory.grants[grantOf[r]].token}

LEMMA ServeFields ==
    ASSUME RestOK, StoresOK, NEW r \in Request, Serve(r)
    PROVE  /\ cmd' = cmd /\ copy' = copy /\ overlap' = overlap
           /\ \A q \in Request : stage[q] = "done" => stage'[q] = "done"
           /\ PlainStep \/ ExchangeStep(r) \/ EndStep(r)
<1>1. now \in Nat /\ StoreOK(file, now) /\ StoreOK(memory, now)
    BY TimeIsNatural DEF StoresOK
<1>2. cmd' = cmd /\ copy' = copy /\ overlap' = overlap
    BY DEF Serve, Pair, Authorize, Unknown, Rotate, Revoke, Prepare, Configure, Handled, commandVars
<1>3. \A q \in Request : stage[q] = "done" => stage'[q] = "done"
    BY HistoryStands DEF Next
<1>4. ASSUME NEW scope \in Scope, NEW code \in Command, Pair(r, scope, code)
      PROVE  PlainStep \/ ExchangeStep(r)
    <2> DEFINE u == Unpaired(file)
               issued == Issued(u, r, scope, IF scope = "admin" THEN AdminTtl ELSE PairedTtl)
    <2>1. StoreOK(u, now) /\ u.pairing = NoPairing /\ u.grants = file.grants
        BY <1>1, StoreChanges, FieldChanges
    <2>2. issued.pairing = NoPairing /\ Retokened(file, issued, r, r)
        <3>1. issued.pairing = u.pairing /\ Retokened(u, issued, r, r)
            BY <1>1, <2>1, FieldChanges
        <3> QED BY <2>1, <3>1 DEF Retokened
    <2>3. ended' = ended /\ stage[r] = "idle" /\ stage'[r] = "done"
        BY <1>4 DEF Pair, RestOK
    <2>4. \/ memory' \in {file, u} /\ file' \in {file, u} /\ exchanged' = exchanged
          \/ /\ memory' = issued /\ file' \in {issued, u} /\ file.pairing.code = code
             /\ exchanged' = exchanged \cup {<<code, r>>}
        BY <1>4 DEF Pair, Persist
    <2> HIDE DEF u, issued
    <2>5. CASE memory' \in {file, u} /\ file' \in {file, u} /\ exchanged' = exchanged
        BY <2>1, <2>3, <2>5 DEF PlainStep, Moved
    <2>6. CASE /\ memory' = issued /\ file' \in {issued, u} /\ file.pairing.code = code
               /\ exchanged' = exchanged \cup {<<code, r>>}
        BY <2>1, <2>2, <2>3, <2>6, NamesAreThings DEF ExchangeStep
    <2> QED BY <2>4, <2>5, <2>6
<1>5. ASSUME (\E op \in Operation, token \in Token : Authorize(r, op, token)) \/ Unknown(r)
      PROVE  PlainStep
    BY <1>5 DEF Authorize, Unknown, Handled, historyVars, PlainStep, Moved
<1>6. ASSUME (\E ttl \in Ttl : Rotate(r, ttl)) \/ Revoke(r)
      PROVE  EndStep(r)
    <2>1. /\ stage[r] \in {"rotate", "revoke"} /\ stage'[r] = "done" /\ exchanged' = exchanged
          /\ Known(memory, grantOf[r])
        BY <1>6 DEF Rotate, Revoke, Handled, RestOK
    <2>2. grantOf[r] \in Request
        BY <2>1 DEF RestOK, Authorized, Operation
    <2>3. /\ memory'.pairing = memory.pairing
          /\ \/ Retokened(memory, memory', grantOf[r], r)
             \/ RevokedIn(memory, memory', grantOf[r])
        BY <1>1, <1>6, <2>1, <2>2, FieldChanges DEF Rotate, Revoke
    <2>4. \/ file' = file /\ ended' = ended
          \/ file' = memory' /\ ended' = ended \cup {memory.grants[grantOf[r]].token}
        BY <1>6 DEF Rotate, Revoke, Persist
    <2> QED BY <2>1, <2>3, <2>4 DEF EndStep
<1>7. ASSUME NEW change \in Change, Prepare(r, change)
      PROVE  PlainStep
    <2>1. Requested(memory, r, change).pairing = memory.pairing
          /\ Requested(memory, r, change).grants = memory.grants
        BY <1>1 DEF Requested, StoreOK
    <2>2. memory' \in {memory, Requested(memory, r, change)} /\ file' \in {file, memory'}
          /\ exchanged' = exchanged /\ ended' = ended
        BY <1>7 DEF Prepare, Handled, Persist
    <2> QED BY <2>1, <2>2 DEF PlainStep, Moved
<1>8. ASSUME NEW id \in Request, NEW change \in Change, Configure(r, id, change)
      PROVE  PlainStep
    <2> DEFINE used == [file EXCEPT !.approval.consumed = TRUE]
    <2>1. used.pairing = file.pairing /\ used.grants = file.grants
        BY <1>1 DEF StoreOK
    <2>2. memory' \in {file, used} /\ file' \in {file, used}
          /\ exchanged' = exchanged /\ ended' = ended
        BY <1>8 DEF Configure, Handled, Persist
    <2> HIDE DEF used
    <2> QED BY <2>1, <2>2 DEF PlainStep, Moved
<1> QED BY <1>2, <1>3, <1>4, <1>5, <1>6, <1>7, <1>8 DEF Serve

\* What a command's step does to them: it loads the file, or writes what it
\* loaded with one thing changed.
Rewritten(x, s) ==
    \/ s.pairing.code = x /\ s.grants = copy[x].grants
    \/ s.pairing = copy[x].pairing /\ s.grants = copy[x].grants
    \/ s.pairing = copy[x].pairing /\ \E g \in Request : RevokedIn(copy[x], s, g)
    \/ s.pairing = copy[x].pairing /\ \E g \in Request : Retokened(copy[x], s, g, x)

WriteStep(x) ==
    /\ cmd[x] = "loaded" /\ cmd'[x] = "done"
    /\ copy' = [copy EXCEPT ![x] = Empty]
    /\ \E s : Rewritten(x, s) /\ (file' = file \/ (file' = s /\ overlap' = (overlap \/ file # copy[x])))
    /\ overlap => overlap'

LoadStep(x) ==
    /\ cmd[x] = "idle" /\ cmd'[x] = "loaded" /\ file' = file
    /\ copy' = [copy EXCEPT ![x] = file] /\ overlap' = overlap

LEMMA RunFields ==
    ASSUME RestOK, StoresOK, NEW x \in Command, Run(x)
    PROVE  /\ memory' = memory /\ stage' = stage /\ exchanged' = exchanged /\ applied' = applied
           /\ ended' = ended
           /\ \A y \in Command : y # x => cmd'[y] = cmd[y]
           /\ LoadStep(x) \/ WriteStep(x)
<1>1. now \in Nat /\ StoreOK(copy[x], now)
    BY TimeIsNatural DEF StoresOK
<1>2. /\ memory' = memory /\ stage' = stage /\ exchanged' = exchanged /\ applied' = applied
      /\ ended' = ended
    BY DEF Run, Load, BeginPairing, RevokeCommand, RotateCommand, Approve, Write, serviceVars,
           historyVars
<1>3. \A y \in Command : y # x => cmd'[y] = cmd[y]
    BY DEF Run, Load, BeginPairing, RevokeCommand, RotateCommand, Approve, Write, RestOK
<1>4. ASSUME Load(x) PROVE LoadStep(x)
    BY <1>4 DEF Load, LoadStep, RestOK
<1>5. ASSUME NEW s, NEW ok \in Persisted, Write(x, s, ok), Rewritten(x, s)
      PROVE  WriteStep(x)
    <2>1. /\ cmd[x] = "loaded" /\ cmd'[x] = "done" /\ copy' = [copy EXCEPT ![x] = Empty]
          /\ file' = IF ok THEN s ELSE file
          /\ overlap' = (overlap \/ (ok /\ file # copy[x]))
        BY <1>5 DEF Write, Persist, RestOK
    <2>2. ok \in BOOLEAN
        BY DEF Persisted
    <2>3. file' = file \/ (file' = s /\ overlap' = (overlap \/ file # copy[x]))
        BY <2>1, <2>2
    <2>4. overlap => overlap'
        BY <2>1
    <2> QED BY <1>5, <2>1, <2>3, <2>4 DEF WriteStep
<1>6. ASSUME NEW scope \in Scope, NEW ttl \in Ttl, BeginPairing(x, scope, ttl)
      PROVE  WriteStep(x)
    <2> DEFINE s == [copy[x] EXCEPT !.pairing = [code |-> x, scope |-> scope,
                                                 expires |-> now + Min({ttl, PairTtl})]]
    <2>1. PICK ok \in Persisted : Write(x, s, ok)
        BY <1>6 DEF BeginPairing
    <2>2. Rewritten(x, s)
        BY <1>1 DEF Rewritten, StoreOK
    <2> QED BY <1>5, <2>1, <2>2
<1>7. ASSUME NEW g \in Request, RevokeCommand(x, g)
      PROVE  WriteStep(x)
    <2>1. PICK ok \in Persisted : Write(x, Revoked(copy[x], g), ok) /\ Known(copy[x], g)
        BY <1>7 DEF RevokeCommand
    <2>2. Rewritten(x, Revoked(copy[x], g))
        BY <1>1, <2>1, FieldChanges DEF Rewritten
    <2> QED BY <1>5, <2>1, <2>2
<1>8. ASSUME NEW g \in Request, NEW ttl \in Ttl, RotateCommand(x, g, ttl)
      PROVE  WriteStep(x)
    <2>1. PICK ok \in Persisted : Write(x, Rotated(copy[x], g, x, ttl), ok)
        BY <1>8 DEF RotateCommand
    <2>2. Rewritten(x, Rotated(copy[x], g, x, ttl))
        BY <1>1, FieldChanges DEF Rewritten
    <2> QED BY <1>5, <2>1, <2>2
<1>9. ASSUME Approve(x)
      PROVE  WriteStep(x)
    <2>1. PICK ok \in Persisted : Write(x, Approved(copy[x]), ok)
        BY <1>9 DEF Approve
    <2>2. Rewritten(x, Approved(copy[x]))
        BY <1>1 DEF Rewritten, Approved, StoreOK
    <2> QED BY <1>5, <2>1, <2>2
<1> QED BY <1>2, <1>3, <1>4, <1>6, <1>7, <1>8, <1>9 DEF Run

-----------------------------------------------------------------------------
(* A code is exchanged once.                                               *)

\* Whoever has a code knows of a command that is over.
CodeKnown(s) == s.pairing.code # Nothing => s.pairing.code \in Command /\ cmd[s.pairing.code] = "done"

CodesInv ==
    /\ CodeKnown(file) /\ CodeKnown(memory) /\ \A x \in Command : CodeKnown(copy[x])
    /\ \A e \in exchanged : cmd[e[1]] = "done"

\* What has been exchanged is gone from the file and from the service's copy.
Gone(s) == \A e \in exchanged : s.pairing.code # e[1]

ExchangeInv == ~overlap => Gone(file) /\ Gone(memory) /\ \A a, b \in exchanged : a[1] = b[1] => a = b

PairedInv == TypeInv /\ CodesInv /\ ExchangeInv

LEMMA PairedServe ==
    ASSUME RestOK, StoresOK, CodesInv, ExchangeInv, NEW r \in Request, Serve(r)
    PROVE  CodesInv' /\ ExchangeInv'
<1>1. cmd' = cmd /\ copy' = copy /\ overlap' = overlap
      /\ (PlainStep \/ ExchangeStep(r) \/ EndStep(r))
    BY ServeFields
<1>2. NoPairing.code = Nothing /\ \A e \in exchanged : e[1] \in Command /\ e[1] # Nothing
    BY NamesAreThings DEF NoPairing, RestOK
<1>3. CASE PlainStep
    BY <1>1, <1>2, <1>3 DEF PlainStep, Moved, CodesInv, CodeKnown, ExchangeInv, Gone
<1>4. CASE EndStep(r)
    BY <1>1, <1>2, <1>4 DEF EndStep, CodesInv, CodeKnown, ExchangeInv, Gone
<1>5. CASE ExchangeStep(r)
    <2> DEFINE new == <<file.pairing.code, r>>
    <2>1. /\ exchanged' = exchanged \cup {new} /\ new[1] = file.pairing.code
          /\ file'.pairing.code = Nothing /\ memory'.pairing.code = Nothing
        BY <1>2, <1>5 DEF ExchangeStep
    <2>2. new[1] \in Command /\ new[1] # Nothing /\ cmd[new[1]] = "done"
        BY <1>5, NamesAreThings DEF ExchangeStep, CodesInv, CodeKnown
    <2>3. ~overlap => \A e \in exchanged : e[1] # new[1]
        BY <2>1 DEF ExchangeInv, Gone
    <2> HIDE DEF new
    <2>4. CodesInv'
        BY <1>1, <2>1, <2>2 DEF CodesInv, CodeKnown
    <2>5. ExchangeInv'
        BY <1>1, <1>2, <2>1, <2>2, <2>3 DEF ExchangeInv, Gone
    <2> QED BY <2>4, <2>5
<1> QED BY <1>1, <1>3, <1>4, <1>5

LEMMA PairedRun ==
    ASSUME RestOK, StoresOK, CodesInv, ExchangeInv, NEW x \in Command, Run(x)
    PROVE  CodesInv' /\ ExchangeInv'
<1>1. memory' = memory /\ exchanged' = exchanged /\ (\A y \in Command : y # x => cmd'[y] = cmd[y])
      /\ (LoadStep(x) \/ WriteStep(x))
    BY RunFields
<1>2. \A y \in Command : cmd[y] = "done" => cmd'[y] = "done"
    BY <1>1 DEF LoadStep, WriteStep
<1>3. CASE LoadStep(x)
    <2>1. /\ file' = file /\ overlap' = overlap
          /\ \A y \in Command : copy'[y] = IF y = x THEN file ELSE copy[y]
        BY <1>3 DEF LoadStep, StoresOK
    <2>2. CodeKnown(file)' /\ CodeKnown(memory)' /\ \A y \in Command : CodeKnown(copy[y])'
        BY <1>1, <1>2, <2>1 DEF CodesInv, CodeKnown
    <2> QED BY <1>1, <1>2, <2>1, <2>2 DEF CodesInv, ExchangeInv, Gone, RestOK
<1>4. CASE WriteStep(x)
    <2>1. PICK s : /\ Rewritten(x, s)
                   /\ file' = file \/ (file' = s /\ overlap' = (overlap \/ file # copy[x]))
        BY <1>4 DEF WriteStep
    <2>2. /\ cmd[x] = "loaded" /\ cmd'[x] = "done"
          /\ \A y \in Command : copy'[y] = IF y = x THEN Empty ELSE copy[y]
        BY <1>4 DEF WriteStep, StoresOK
    <2>3. s.pairing.code = x \/ s.pairing = copy[x].pairing
        BY <2>1 DEF Rewritten
    <2>4. CodeKnown(file)'
        BY <1>2, <2>1, <2>2, <2>3 DEF CodesInv, CodeKnown
    <2>5. CodeKnown(memory)' /\ \A y \in Command : CodeKnown(copy[y])'
        BY <1>1, <1>2, <2>2 DEF CodesInv, CodeKnown, Empty, NoPairing
    <2>6. CodesInv'
        BY <1>1, <1>2, <2>4, <2>5 DEF CodesInv, RestOK
    <2>7. ASSUME ~overlap'
          PROVE  Gone(file)'
        <3>1. ~overlap
            BY <1>4, <2>7 DEF WriteStep
        <3>2. \A e \in exchanged : e[1] # x
            BY <2>2 DEF CodesInv
        <3>3. CASE file' = file
            BY <1>1, <3>1, <3>3 DEF ExchangeInv, Gone
        <3>4. CASE file' = s /\ file = copy[x]
            BY <1>1, <2>3, <3>1, <3>2, <3>4 DEF ExchangeInv, Gone
        <3> QED BY <2>1, <2>7, <3>3, <3>4
    <2>8. ExchangeInv'
        BY <1>1, <1>4, <2>7 DEF WriteStep, ExchangeInv, Gone
    <2> QED BY <2>6, <2>8
<1> QED BY <1>1, <1>3, <1>4

\* A pairing code issues one grant, whatever requests, saves that fail, restarts
\* and commands interleave, unless a command writes over what it has not read
\* (exchange_for).
THEOREM CodesPairOnce == Spec => []PairedOnce
<1>1. Init => PairedInv
    BY TypeInit DEF Init, PairedInv, CodesInv, CodeKnown, ExchangeInv, Gone, Empty, NoPairing
<1>2. PairedInv /\ [Next]_vars => PairedInv'
    <2> SUFFICES ASSUME PairedInv, [Next]_vars PROVE CodesInv' /\ ExchangeInv'
        BY TypeNext DEF PairedInv
    <2>1. RestOK /\ StoresOK
        BY TypeInvParts DEF PairedInv
    <2>2. CASE Restart
        BY <2>2 DEF Restart, commandVars, historyVars, PairedInv, CodesInv, CodeKnown, ExchangeInv, Gone
    <2>3. CASE Tick \/ UNCHANGED vars
        BY <2>3 DEF Tick, vars, serviceVars, commandVars, historyVars, PairedInv, CodesInv,
                    CodeKnown, ExchangeInv, Gone
    <2> QED BY <2>1, <2>2, <2>3, PairedServe, PairedRun DEF Next, PairedInv
<1>3. PairedInv => PairedOnce
    BY DEF PairedInv, ExchangeInv, PairedOnce
<1> QED BY <1>1, <1>2, <1>3, PTL DEF Spec

-----------------------------------------------------------------------------
(* An ended token stays ended.                                             *)

\* A token was made for a request or a command that is over.
Spent(token, st, cm) ==
    \/ token \in Request /\ st[token] = "done"
    \/ token \in Command /\ cm[token] = "done"

\* A copy of the store has a token under one grant only, the token's home.
AtHome(home, s, st, cm) ==
    \A g \in Request : s.grants[g].token # Nothing =>
        Spent(s.grants[g].token, st, cm) /\ home[s.grants[g].token] = g

AllAtHome(home) ==
    /\ AtHome(home, file, stage, cmd) /\ AtHome(home, memory, stage, cmd)
    /\ \A x \in Command : AtHome(home, copy[x], stage, cmd)

HomeInv ==
    /\ \E home \in [Token -> Request \cup {Nothing}] : AllAtHome(home)
    /\ \A t \in ended : Spent(t, stage, cmd)

\* Whatever still has an ended token is revoked.
Dead(s) == \A g \in Request : s.grants[g].token \in ended => s.grants[g].revoked

DeadInv == ~overlap => Dead(file) /\ Dead(memory)

EndedInv == TypeInv /\ HomeInv /\ DeadInv

\* What is over stays over.
LEMMA SpentStays ==
    ASSUME RestOK, StoresOK, [Next]_vars, NEW t, Spent(t, stage, cmd)
    PROVE  Spent(t, stage', cmd')
<1>1. \A x \in Command : Run(x) => \A y \in Command : cmd[y] = "done" => cmd'[y] = "done"
    BY RunFields DEF LoadStep, WriteStep
<1>2. \A r \in Request : Serve(r) => cmd' = cmd
    BY ServeFields
<1>3. \A y \in Command : cmd[y] = "done" => cmd'[y] = "done"
    BY <1>1, <1>2 DEF Next, Restart, Tick, vars, commandVars
<1> QED BY <1>3, HistoryStands DEF Spent

\* A copy that is at home stays so, also when a fresh token gets a home.
LEMMA HomeStays ==
    ASSUME RestOK, StoresOK, [Next]_vars, NEW home \in [Token -> Request \cup {Nothing}], NEW s,
           AtHome(home, s, stage, cmd)
    PROVE  /\ AtHome(home, s, stage', cmd')
           /\ \A token \in Token, g \in Request : ~Spent(token, stage, cmd) =>
                  AtHome([home EXCEPT ![token] = g], s, stage', cmd')
<1>1. \A t : Spent(t, stage, cmd) => t \in Token /\ Spent(t, stage', cmd')
    BY SpentStays DEF Spent, Token
<1> QED BY <1>1 DEF AtHome

\* The copy that gets it is at home too.
LEMMA HomeGained ==
    ASSUME RestOK, StoresOK, [Next]_vars, NEW home \in [Token -> Request \cup {Nothing}], NEW s, NEW s2,
           AtHome(home, s, stage, cmd), NEW g \in Request, NEW token \in Token,
           Retokened(s, s2, g, token), ~Spent(token, stage, cmd), Spent(token, stage', cmd')
    PROVE  AtHome([home EXCEPT ![token] = g], s2, stage', cmd')
<1> DEFINE home2 == [home EXCEPT ![token] = g]
<1>1. AtHome(home2, s, stage', cmd')
    BY HomeStays
<1>2. home2[token] = g
    OBVIOUS
<1> HIDE DEF home2
<1>3. AtHome(home2, s2, stage', cmd')
    BY <1>1, <1>2 DEF AtHome, Retokened
<1> QED BY <1>3 DEF home2

\* A step that moves grants between copies, or revokes one, needs no new home.
LEMMA HomeCopied ==
    ASSUME NEW home, NEW s, NEW s2, NEW st, NEW cm, AtHome(home, s, st, cm),
           s2.grants = s.grants \/ \E g \in Request : RevokedIn(s, s2, g)
    PROVE  AtHome(home, s2, st, cm)
BY DEF AtHome, RevokedIn

\* A step of the service keeps tokens at home.
LEMMA HomeServe ==
    ASSUME RestOK, StoresOK, HomeInv, NEW r \in Request, Serve(r)
    PROVE  HomeInv'
<1>1. cmd' = cmd /\ copy' = copy /\ (PlainStep \/ ExchangeStep(r) \/ EndStep(r))
    BY ServeFields
<1>2. Next
    BY DEF Next
<1>3. PICK home \in [Token -> Request \cup {Nothing}] : AllAtHome(home)
    BY DEF HomeInv
<1>4. \A t \in ended : Spent(t, stage', cmd')
    BY <1>2, SpentStays DEF HomeInv
<1>5. /\ AtHome(home, file, stage', cmd') /\ AtHome(home, memory, stage', cmd')
      /\ \A x \in Command : AtHome(home, copy[x], stage', cmd')
    BY <1>2, <1>3, HomeStays DEF AllAtHome
<1>6. ASSUME NEW g \in Request, stage[r] # "done", stage'[r] = "done"
      PROVE  LET home2 == [home EXCEPT ![r] = g] IN
             /\ home2 \in [Token -> Request \cup {Nothing}]
             /\ AtHome(home2, file, stage', cmd') /\ AtHome(home2, memory, stage', cmd')
             /\ \A x \in Command : AtHome(home2, copy[x], stage', cmd')
             /\ \A s2 : Retokened(file, s2, g, r) => AtHome(home2, s2, stage', cmd')
             /\ \A s2 : Retokened(memory, s2, g, r) => AtHome(home2, s2, stage', cmd')
    <2> DEFINE home2 == [home EXCEPT ![r] = g]
    <2>1. r \in Token /\ ~Spent(r, stage, cmd) /\ Spent(r, stage', cmd')
        BY <1>6, GrantAssumption DEF Spent, Token
    <2>2. home2 \in [Token -> Request \cup {Nothing}]
        BY <2>1
    <2>3. /\ AtHome(home2, file, stage', cmd') /\ AtHome(home2, memory, stage', cmd')
          /\ \A x \in Command : AtHome(home2, copy[x], stage', cmd')
        BY <1>2, <1>3, <2>1, HomeStays DEF AllAtHome
    <2>4. /\ \A s2 : Retokened(file, s2, g, r) => AtHome(home2, s2, stage', cmd')
          /\ \A s2 : Retokened(memory, s2, g, r) => AtHome(home2, s2, stage', cmd')
        BY <1>2, <1>3, <2>1, HomeGained DEF AllAtHome
    <2> QED BY <2>2, <2>3, <2>4
<1>7. CASE PlainStep
    <2>1. AtHome(home, file', stage', cmd') /\ AtHome(home, memory', stage', cmd')
        BY <1>5, <1>7, HomeCopied DEF PlainStep
    <2> QED BY <1>1, <1>3, <1>4, <1>5, <1>7, <2>1 DEF PlainStep, HomeInv, AllAtHome
<1>8. CASE ExchangeStep(r)
    <2> DEFINE home2 == [home EXCEPT ![r] = r]
    <2>1. /\ home2 \in [Token -> Request \cup {Nothing}]
          /\ AtHome(home2, file, stage', cmd') /\ AtHome(home2, memory', stage', cmd')
          /\ \A x \in Command : AtHome(home2, copy[x], stage', cmd')
        BY <1>6, <1>8 DEF ExchangeStep
    <2> HIDE DEF home2
    <2>2. AtHome(home2, file', stage', cmd')
        BY <1>8, <2>1, HomeCopied DEF ExchangeStep
    <2> QED BY <1>1, <1>4, <1>8, <2>1, <2>2 DEF ExchangeStep, HomeInv, AllAtHome
<1>9. CASE EndStep(r)
    <2>1. grantOf[r] \in Request /\ Known(memory, grantOf[r])
        BY <1>9 DEF EndStep, RestOK, Authorized, Operation
    <2>2. Spent(memory.grants[grantOf[r]].token, stage', cmd')
        <3>1. memory.grants[grantOf[r]].token # Nothing
            BY <2>1, NamesAreThings DEF Known, StoresOK, StoreOK, Grant, Token
        <3> QED BY <1>5, <2>1, <3>1 DEF AtHome
    <2>3. \A t \in ended' : Spent(t, stage', cmd')
        BY <1>4, <1>9, <2>2 DEF EndStep
    <2>4. CASE RevokedIn(memory, memory', grantOf[r])
        <3>1. AtHome(home, memory', stage', cmd')
            BY <1>5, <2>1, <2>4, HomeCopied
        <3> QED BY <1>1, <1>3, <1>5, <1>9, <2>3, <3>1 DEF EndStep, HomeInv, AllAtHome
    <2>5. CASE Retokened(memory, memory', grantOf[r], r)
        <3> DEFINE home2 == [home EXCEPT ![r] = grantOf[r]]
        <3>1. /\ home2 \in [Token -> Request \cup {Nothing}]
              /\ AtHome(home2, file, stage', cmd') /\ AtHome(home2, memory', stage', cmd')
              /\ \A x \in Command : AtHome(home2, copy[x], stage', cmd')
            BY <1>6, <1>9, <2>1, <2>5 DEF EndStep
        <3> HIDE DEF home2
        <3> QED BY <1>1, <1>9, <2>3, <3>1 DEF EndStep, HomeInv, AllAtHome
    <2> QED BY <1>9, <2>4, <2>5 DEF EndStep
<1> QED BY <1>1, <1>7, <1>8, <1>9

\* So does a step of a command.
LEMMA HomeRun ==
    ASSUME RestOK, StoresOK, HomeInv, NEW x \in Command, Run(x)
    PROVE  HomeInv'
<1>1. memory' = memory /\ stage' = stage /\ ended' = ended /\ (LoadStep(x) \/ WriteStep(x))
    BY RunFields
<1>2. Next
    BY DEF Next
<1>3. PICK home \in [Token -> Request \cup {Nothing}] : AllAtHome(home)
    BY DEF HomeInv
<1>4. \A t \in ended : Spent(t, stage', cmd')
    BY <1>2, SpentStays DEF HomeInv
<1>5. /\ AtHome(home, file, stage', cmd') /\ AtHome(home, memory, stage', cmd')
      /\ \A y \in Command : AtHome(home, copy[y], stage', cmd')
    BY <1>2, <1>3, HomeStays DEF AllAtHome
<1>6. CASE LoadStep(x)
    <2>1. file' = file /\ \A y \in Command : copy'[y] = IF y = x THEN file ELSE copy[y]
        BY <1>6 DEF LoadStep, StoresOK
    <2> QED BY <1>1, <1>3, <1>4, <1>5, <2>1 DEF HomeInv, AllAtHome
<1>7. CASE WriteStep(x)
    <2>1. PICK s : Rewritten(x, s) /\ file' \in {file, s}
        BY <1>7 DEF WriteStep
    <2>2. /\ cmd[x] = "loaded" /\ cmd'[x] = "done"
          /\ \A y \in Command : copy'[y] = IF y = x THEN Empty ELSE copy[y]
        BY <1>7 DEF WriteStep, StoresOK
    <2>3. \A h : AtHome(h, Empty, stage', cmd')
        BY DEF AtHome, Empty, NoGrant
    <2>4. CASE s.grants = copy[x].grants \/ \E g \in Request : RevokedIn(copy[x], s, g)
        <3>1. AtHome(home, s, stage', cmd')
            BY <1>5, <2>4, HomeCopied
        <3>2. AtHome(home, file', stage', cmd')
            BY <1>5, <2>1, <3>1
        <3>3. \A y \in Command : AtHome(home, copy'[y], stage', cmd')
            BY <1>5, <2>2, <2>3
        <3> QED BY <1>1, <1>3, <1>4, <1>5, <3>2, <3>3 DEF HomeInv, AllAtHome
    <2>5. ASSUME NEW g \in Request, Retokened(copy[x], s, g, x)
          PROVE  HomeInv'
        <3> DEFINE home2 == [home EXCEPT ![x] = g]
        <3>1. x \in Token /\ ~Spent(x, stage, cmd) /\ Spent(x, stage', cmd')
            BY <2>2, GrantAssumption DEF Spent, Token
        <3>2. home2 \in [Token -> Request \cup {Nothing}]
            BY <3>1
        <3>3. /\ AtHome(home2, file, stage', cmd') /\ AtHome(home2, memory, stage', cmd')
              /\ \A y \in Command : AtHome(home2, copy[y], stage', cmd')
            BY <1>2, <1>3, <3>1, HomeStays DEF AllAtHome
        <3>4. AtHome(home2, s, stage', cmd')
            BY <1>2, <1>3, <2>5, <3>1, HomeGained DEF AllAtHome
        <3> HIDE DEF home2
        <3>5. AtHome(home2, file', stage', cmd')
            BY <2>1, <3>3, <3>4
        <3>6. \A y \in Command : AtHome(home2, copy'[y], stage', cmd')
            BY <2>2, <2>3, <3>3
        <3> QED BY <1>1, <1>4, <3>2, <3>3, <3>5, <3>6 DEF HomeInv, AllAtHome
    <2> QED BY <2>1, <2>4, <2>5 DEF Rewritten
<1> QED BY <1>1, <1>6, <1>7

\* The service ends a token in every copy it saves.
LEMMA DeadServe ==
    ASSUME RestOK, StoresOK, HomeInv, DeadInv, NEW r \in Request, Serve(r)
    PROVE  DeadInv'
<1>1. cmd' = cmd /\ overlap' = overlap /\ (PlainStep \/ ExchangeStep(r) \/ EndStep(r))
    BY ServeFields
<1>2. stage[r] # "done" => r \notin ended
    BY GrantAssumption DEF HomeInv, Spent
<1>3. CASE PlainStep
    BY <1>1, <1>3 DEF PlainStep, DeadInv, Dead
<1>4. CASE ExchangeStep(r)
    <2>1. ~overlap => Dead(memory)'
        BY <1>1, <1>2, <1>4 DEF ExchangeStep, DeadInv, Dead, Retokened
    <2>2. ~overlap => Dead(file)'
        BY <1>1, <1>4, <2>1 DEF ExchangeStep, DeadInv, Dead
    <2> QED BY <1>1, <2>1, <2>2 DEF DeadInv
<1>5. CASE EndStep(r)
    <2> DEFINE g == grantOf[r]
               t == memory.grants[g].token
    <2>1. g \in Request /\ Known(memory, g) /\ r \notin ended /\ stage[r] # "done"
        BY <1>2, <1>5 DEF EndStep, RestOK, Authorized, Operation
    <2>2. t # Nothing
        BY <2>1, NamesAreThings DEF Known, StoresOK, StoreOK, Grant, Token
    <2>3. t # r /\ \A h \in Request : h # g => memory.grants[h].token # t
        <3>1. PICK home \in [Token -> Request \cup {Nothing}] : AtHome(home, memory, stage, cmd)
            BY DEF HomeInv, AllAtHome
        <3>2. Spent(t, stage, cmd) /\ home[t] = g
            BY <2>1, <2>2, <3>1 DEF AtHome
        <3>3. t # r
            BY <2>1, <3>2, GrantAssumption DEF Spent
        <3>4. \A h \in Request : memory.grants[h].token = t => home[t] = h
            BY <2>2, <3>1 DEF AtHome
        <3> QED BY <3>2, <3>3, <3>4
    <2>4. ended' \in {ended, ended \cup {t}}
        BY <1>5 DEF EndStep
    <2>5. ~overlap => Dead(memory)'
        <3> SUFFICES ASSUME ~overlap, NEW h \in Request, memory'.grants[h].token \in ended'
                     PROVE  memory'.grants[h].revoked
            BY DEF Dead
        <3>0. Dead(memory)
            BY DEF DeadInv
        <3>1. CASE h # g
            <4>1. memory'.grants[h] = memory.grants[h]
                BY <1>5, <3>1 DEF EndStep, Retokened, RevokedIn
            <4> QED BY <2>3, <2>4, <3>0, <3>1, <4>1 DEF Dead
        <3>2. CASE h = g
            <4>1. memory'.grants[g].token = r \/ memory'.grants[g].revoked
                BY <1>5, <2>1 DEF EndStep, Retokened, RevokedIn
            <4> QED BY <2>1, <2>3, <2>4, <3>2, <4>1
        <3> QED BY <3>1, <3>2
    <2>6. ~overlap => Dead(file)'
        BY <1>1, <1>5, <2>5 DEF EndStep, DeadInv, Dead
    <2> QED BY <1>1, <2>5, <2>6 DEF DeadInv
<1> QED BY <1>1, <1>3, <1>4, <1>5

\* A command brings none back that it has read.
LEMMA DeadRun ==
    ASSUME RestOK, StoresOK, HomeInv, DeadInv, NEW x \in Command, Run(x)
    PROVE  DeadInv'
<1>1. memory' = memory /\ ended' = ended /\ (LoadStep(x) \/ WriteStep(x))
    BY RunFields
<1>2. CASE LoadStep(x)
    BY <1>1, <1>2 DEF LoadStep, DeadInv, Dead
<1>3. CASE WriteStep(x)
    <2>1. PICK s : /\ Rewritten(x, s)
                   /\ file' = file \/ (file' = s /\ overlap' = (overlap \/ file # copy[x]))
        BY <1>3 DEF WriteStep
    <2>2. x \notin ended
        BY <1>3, GrantAssumption DEF WriteStep, HomeInv, Spent
    <2>3. Dead(copy[x]) => Dead(s)
        BY <2>1, <2>2 DEF Rewritten, Dead, RevokedIn, Retokened
    <2>4. ~overlap' => ~overlap
        BY <1>3 DEF WriteStep
    <2>5. ~overlap' => file' = file \/ (file' = s /\ file = copy[x])
        BY <2>1
    <2>6. ~overlap' => Dead(file) /\ Dead(memory) /\ (file' = s => file' = file \/ Dead(s))
        BY <2>3, <2>4, <2>5 DEF DeadInv
    <2>7. ~overlap' => Dead(file')
        BY <2>5, <2>6
    <2> QED BY <1>1, <2>6, <2>7 DEF DeadInv, Dead
<1> QED BY <1>1, <1>2, <1>3

\* A token the service answered to have ended never authenticates again, also
\* after a restart, unless a command writes over what it has not read
\* (rotate, revoke).
THEOREM EndedForGood == Spec => []EndedStays
<1>1. Init => EndedInv
    <2>1. Init => HomeInv
        <3> SUFFICES ASSUME Init PROVE HomeInv
            OBVIOUS
        <3>1. Empty.grants = [r \in Request |-> NoGrant] /\ NoGrant.token = Nothing
            BY DEF Empty, NoGrant
        <3>2. \A home : AllAtHome(home)
            BY <3>1 DEF Init, AllAtHome, AtHome
        <3>3. [t \in Token |-> Nothing] \in [Token -> Request \cup {Nothing}]
            OBVIOUS
        <3> QED BY <3>2, <3>3 DEF Init, HomeInv
    <2> QED BY <2>1, TypeInit DEF Init, EndedInv, DeadInv, Dead
<1>2. EndedInv /\ [Next]_vars => EndedInv'
    <2> SUFFICES ASSUME EndedInv, [Next]_vars PROVE HomeInv' /\ DeadInv'
        BY TypeNext DEF EndedInv
    <2>1. RestOK /\ StoresOK
        BY TypeInvParts DEF EndedInv
    <2>2. CASE Restart
        <3>1. HomeInv'
            <4>1. PICK home \in [Token -> Request \cup {Nothing}] : AllAtHome(home)
                BY DEF EndedInv, HomeInv
            <4>2. AllAtHome(home)'
                BY <2>1, <2>2, <4>1, HomeStays DEF Restart, AllAtHome, commandVars
            <4> QED BY <2>1, <2>2, <4>2, SpentStays DEF Restart, HomeInv, EndedInv, historyVars
        <3> QED BY <2>2, <3>1 DEF Restart, EndedInv, DeadInv, Dead, historyVars
    <2>3. CASE Tick \/ UNCHANGED vars
        BY <2>3 DEF Tick, vars, serviceVars, commandVars, historyVars, EndedInv, HomeInv, AllAtHome,
                    DeadInv, Dead
    <2> QED BY <2>1, <2>2, <2>3, HomeServe, HomeRun, DeadServe, DeadRun DEF Next, EndedInv
<1>3. EndedInv => EndedStays
    BY DEF EndedInv, DeadInv, Dead, EndedStays, Live
<1> QED BY <1>1, <1>2, <1>3, PTL DEF Spec

-----------------------------------------------------------------------------
(* An approval is used once.                                               *)

\* Where an approval in the file or in the service's copy comes from, after a
\* step of request r: it was there, is a new one, or is used now.
NewApproval(r, s) == s.approval.id = r
UsedApproval(s)   == s.approval.id = file.approval.id /\ s.approval.consumed

LEMMA ServeApproval ==
    ASSUME RestOK, StoresOK, NEW r \in Request, Serve(r)
    PROVE  /\ overlap' = overlap
           /\ \/ /\ applied' = applied
                 /\ \A s \in {file', memory'} :
                        \/ s.approval \in {file.approval, memory.approval}
                        \/ NewApproval(r, s) /\ stage[r] # "done"
                        \/ UsedApproval(s)
              \/ \E a : /\ applied' = applied \cup {a}
                        /\ a.id = file.approval.id /\ ~file.approval.consumed
                        /\ UsedApproval(file') /\ UsedApproval(memory')
<1>1. now \in Nat /\ StoreOK(file, now) /\ StoreOK(memory, now)
    BY TimeIsNatural DEF StoresOK
<1>2. overlap' = overlap
    BY ServeFields
<1>3. ASSUME NEW scope \in Scope, NEW code \in Command, Pair(r, scope, code)
      PROVE  /\ applied' = applied
             /\ file'.approval = file.approval /\ memory'.approval = file.approval
    <2> DEFINE issued == Issued(Unpaired(file), r, scope,
                                IF scope = "admin" THEN AdminTtl ELSE PairedTtl)
    <2>1. Unpaired(file).approval = file.approval /\ issued.approval = file.approval
        BY <1>1, ApprovalLeft
    <2>2. /\ applied' = applied
          /\ file' \in {file, Unpaired(file), issued} /\ memory' \in {file, Unpaired(file), issued}
        BY <1>3 DEF Pair, Persist
    <2> HIDE DEF issued
    <2> QED BY <2>1, <2>2
<1>4. ASSUME (\E op \in Operation, token \in Token : Authorize(r, op, token)) \/ Unknown(r)
      PROVE  applied' = applied /\ file' = file /\ memory' = memory
    BY <1>4 DEF Authorize, Unknown, historyVars
<1>5. ASSUME (\E ttl \in Ttl : Rotate(r, ttl)) \/ Revoke(r)
      PROVE  applied' = applied /\ memory'.approval = memory.approval /\ file' \in {file, memory'}
    <2>1. grantOf[r] \in Request
        BY <1>5 DEF Rotate, Revoke, Handled, RestOK, Authorized, Operation
    <2> QED BY <1>1, <1>5, <2>1, ApprovalLeft DEF Rotate, Revoke, Persist
<1>6. ASSUME NEW change \in Change, Prepare(r, change)
      PROVE  /\ applied' = applied /\ stage[r] # "done" /\ file' \in {file, memory'}
             /\ memory' = memory \/ NewApproval(r, memory')
    <2>1. Requested(memory, r, change).approval.id = r
        BY <1>1 DEF Requested, StoreOK
    <2> QED BY <1>6, <2>1 DEF Prepare, Handled, Persist, NewApproval
<1>7. ASSUME NEW id \in Request, NEW change \in Change, Configure(r, id, change),
             ~Consumable(file, id, r, change)
      PROVE  applied' = applied /\ memory' = file /\ file' = file
    BY <1>7 DEF Configure
<1>8. ASSUME NEW id \in Request, NEW change \in Change, Configure(r, id, change),
             Consumable(file, id, r, change)
      PROVE  /\ UsedApproval(memory')
             /\ \/ file' = file /\ applied' = applied
                \/ file' = memory' /\ \E a : applied' = applied \cup {a} /\ a.id = file.approval.id
             /\ ~file.approval.consumed
    <2> DEFINE used == [file EXCEPT !.approval.consumed = TRUE]
    <2>1. file.approval \in Approval /\ file.approval.id = id /\ ~file.approval.consumed
        BY <1>1, <1>8, NamesAreThings DEF Consumable, StoreOK, NoApproval
    <2>2. used.approval.id = file.approval.id /\ used.approval.consumed
        BY <1>1, <2>1 DEF StoreOK, Approval
    <2>3. /\ memory' = used
          /\ \/ file' = file /\ applied' = applied
             \/ file' = used /\ applied' = applied \cup {[by |-> r, id |-> id,
                                   grant |-> grantOf[r], change |-> change, at |-> now]}
        BY <1>8 DEF Configure, Persist
    <2> HIDE DEF used
    <2>4. [by |-> r, id |-> id, grant |-> grantOf[r], change |-> change, at |-> now].id
              = file.approval.id
        BY <2>1
    <2> QED BY <2>1, <2>2, <2>3, <2>4 DEF UsedApproval
<1>9. CASE \E id \in Request, change \in Change : Configure(r, id, change)
    BY <1>2, <1>7, <1>8, <1>9
<1>10. CASE \E change \in Change : Prepare(r, change)
    BY <1>2, <1>6, <1>10
<1>11. CASE (\E ttl \in Ttl : Rotate(r, ttl)) \/ Revoke(r)
    BY <1>2, <1>5, <1>11
<1>12. CASE (\E op \in Operation, token \in Token : Authorize(r, op, token)) \/ Unknown(r)
    BY <1>2, <1>4, <1>12
<1> QED BY <1>2, <1>3, <1>9, <1>10, <1>11, <1>12 DEF Serve

\* A command writes the approval it has loaded, perhaps marked as approved.
LEMMA RunApproval ==
    ASSUME RestOK, StoresOK, NEW x \in Command, Run(x)
    PROVE  /\ memory' = memory /\ applied' = applied
           /\ overlap => overlap'
           /\ \/ file' = file
              \/ /\ file'.approval.id = copy[x].approval.id
                 /\ file'.approval.consumed = copy[x].approval.consumed
                 /\ overlap' = (overlap \/ file # copy[x])
<1>1. now \in Nat /\ StoreOK(copy[x], now)
    BY TimeIsNatural DEF StoresOK
<1>2. memory' = memory /\ applied' = applied /\ (overlap => overlap')
    BY RunFields DEF LoadStep, WriteStep
<1>3. ASSUME NEW s, NEW ok \in Persisted, Write(x, s, ok),
             s.approval.id = copy[x].approval.id, s.approval.consumed = copy[x].approval.consumed
      PROVE  \/ file' = file
             \/ /\ file'.approval.id = copy[x].approval.id
                /\ file'.approval.consumed = copy[x].approval.consumed
                /\ overlap' = (overlap \/ file # copy[x])
    <2>1. ok \in BOOLEAN
        BY DEF Persisted
    <2> QED BY <1>3, <2>1 DEF Write, Persist
<1>4. CASE Load(x)
    BY <1>2, <1>4 DEF Load
<1>5. CASE \E scope \in Scope, ttl \in Ttl : BeginPairing(x, scope, ttl)
    <2>1. PICK scope \in Scope, ttl \in Ttl, ok \in Persisted :
              Write(x, [copy[x] EXCEPT !.pairing = [code |-> x, scope |-> scope,
                            expires |-> now + Min({ttl, PairTtl})]], ok)
        BY <1>5 DEF BeginPairing
    <2>2. [copy[x] EXCEPT !.pairing = [code |-> x, scope |-> scope,
                 expires |-> now + Min({ttl, PairTtl})]].approval = copy[x].approval
        BY <1>1 DEF StoreOK
    <2> QED BY <1>2, <1>3, <2>1, <2>2
<1>6. CASE \E g \in Request : RevokeCommand(x, g)
    <2>1. PICK g \in Request, ok \in Persisted : Write(x, Revoked(copy[x], g), ok)
        BY <1>6 DEF RevokeCommand
    <2> QED BY <1>1, <1>2, <1>3, <2>1, ApprovalLeft
<1>7. CASE \E g \in Request, ttl \in Ttl : RotateCommand(x, g, ttl)
    <2>1. PICK g \in Request, ttl \in Ttl, ok \in Persisted : Write(x, Rotated(copy[x], g, x, ttl), ok)
        BY <1>7 DEF RotateCommand
    <2> QED BY <1>1, <1>2, <1>3, <2>1, ApprovalLeft
<1>8. CASE Approve(x)
    <2>1. PICK ok \in Persisted : Write(x, Approved(copy[x]), ok)
        BY <1>8 DEF Approve
    <2>2. copy[x].approval \in Approval
        BY <1>1, <1>8 DEF Approve, Approvable, StoreOK, NoApproval
    <2>3. /\ Approved(copy[x]).approval.id = copy[x].approval.id
          /\ Approved(copy[x]).approval.consumed = copy[x].approval.consumed
        BY <1>1, <2>2 DEF Approved, StoreOK, Approval
    <2> QED BY <1>2, <1>3, <2>1, <2>3
<1> QED BY <1>2, <1>4, <1>5, <1>6, <1>7, <1>8 DEF Run

\* Whatever still has an approval that was used says so.
Used(s) == \A a \in applied : s.approval.id = a.id => s.approval.consumed

UsedInv == ~overlap => Used(file) /\ Used(memory) /\ \A a, b \in applied : a.id = b.id => a = b

LEMMA UsedServe ==
    ASSUME RestOK, StoresOK, AppliedInv, UsedInv, NEW r \in Request, Serve(r)
    PROVE  UsedInv'
<1>1. overlap' = overlap
    BY ServeApproval
<1> SUFFICES ASSUME ~overlap PROVE UsedInv'
    BY <1>1 DEF UsedInv
<1>2. Used(file) /\ Used(memory) /\ \A a, b \in applied : a.id = b.id => a = b
    BY DEF UsedInv
<1>3. CASE /\ applied' = applied
           /\ \A s \in {file', memory'} :
                  \/ s.approval \in {file.approval, memory.approval}
                  \/ NewApproval(r, s) /\ stage[r] # "done"
                  \/ UsedApproval(s)
    <2>1. ASSUME NEW s \in {file', memory'}, NEW a \in applied, s.approval.id = a.id
          PROVE  s.approval.consumed
        <3>1. stage[a.id] = "done"
            BY DEF AppliedInv
        <3> QED BY <1>2, <1>3, <2>1, <3>1 DEF Used, NewApproval, UsedApproval
    <2> QED BY <1>1, <1>2, <1>3, <2>1 DEF UsedInv, Used
<1>4. ASSUME NEW a, applied' = applied \cup {a}, a.id = file.approval.id, ~file.approval.consumed,
             UsedApproval(file'), UsedApproval(memory')
      PROVE  UsedInv'
    <2>1. \A b \in applied : b.id # a.id
        BY <1>2, <1>4 DEF Used
    <2> QED BY <1>1, <1>2, <1>4, <2>1 DEF UsedInv, Used, UsedApproval
<1> QED BY <1>3, <1>4, ServeApproval

LEMMA UsedRun ==
    ASSUME RestOK, StoresOK, UsedInv, NEW x \in Command, Run(x)
    PROVE  UsedInv'
<1> SUFFICES ASSUME ~overlap' PROVE UsedInv'
    BY DEF UsedInv
<1>1. ~overlap /\ memory' = memory /\ applied' = applied
    BY RunApproval
<1>2. \/ file' = file
      \/ file'.approval.id = file.approval.id /\ file'.approval.consumed = file.approval.consumed
    BY <1>1, RunApproval
<1> QED BY <1>1, <1>2 DEF UsedInv, Used

\* An approval lets one change through, whatever requests, saves that fail,
\* restarts and commands interleave, unless a command writes over what it has
\* not read (consume_wifi_approval).
THEOREM ApprovalsApplyOnce == Spec => []AppliedOnce
<1> DEFINE Inv == ApprovedInv /\ UsedInv
<1>1. Init => Inv
    <2>1. Init => TraceInv /\ AppliedInv /\ UsedInv
        BY DEF Init, TraceInv, Traced, Empty, NoApproval, AppliedInv, UsedInv, Used
    <2> QED BY <2>1, TypeInit DEF ApprovedInv
<1>2. Inv /\ [Next]_vars => Inv'
    <2> SUFFICES ASSUME Inv, [Next]_vars PROVE Inv'
        OBVIOUS
    <2>1. RestOK /\ StoresOK
        BY TypeInvParts DEF ApprovedInv
    <2>2. ApprovedInv'
        BY <2>1, TypeNext, TraceNext, AppliedNext DEF ApprovedInv
    <2>3. ASSUME Restart \/ Tick \/ UNCHANGED vars PROVE UsedInv'
        BY <2>3 DEF Restart, Tick, vars, serviceVars, historyVars, UsedInv, Used
    <2>4. UsedInv'
        BY <2>1, <2>3, UsedServe, UsedRun DEF Next, ApprovedInv
    <2> QED BY <2>2, <2>4
<1>3. Inv => AppliedOnce
    BY DEF UsedInv, AppliedOnce
<1> QED BY <1>1, <1>2, <1>3, PTL DEF Spec
=============================================================================
