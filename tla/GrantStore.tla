----------------------------- MODULE GrantStore -----------------------------
(***************************************************************************)
(* The authorization store (src/auth.rs): pairing codes, bearer grants and *)
(* one-time approvals of wireless changes.  The service keeps the store in *)
(* memory behind a read-write lock and "mb-printer service" commands load  *)
(* it, change it and write it back; both replace the whole file.           *)
(*                                                                         *)
(* A grant and an approval are named by the request that created them, a   *)
(* pairing code by the command that printed it, a bearer token by the      *)
(* request or command that it was made for.  Seconds are ticks of now.     *)
(***************************************************************************)
EXTENDS Integers, FiniteSets, FiniteSetsExt

CONSTANTS
    Command,       \* executions of "mb-printer service ..."
    Request,       \* HTTP requests to the service
    Change,        \* wireless settings for one connection, as fingerprinted
    Nothing,       \* no request, command or change
    OriginOf,      \* Request -> the Origin header it carries
    Ttl,           \* lifetimes a client or a command may ask for
    PairedTtl,     \* what /v1/pair asks for a print grant (30 days)
    PairTtl,       \* longest life of a pairing code (600 s)
    PrintTtl,      \* longest life of a print grant (a year)
    AdminTtl,      \* longest life of an administrator grant (600 s)
    ApprovalTtl,   \* life of an approval (120 s)
    MaxTime,       \* bound on the clock
    PersistFaults, \* persisting may fail
    MaxRestarts    \* bound on restarts of the service

ASSUME GrantAssumption ==
    /\ Nothing \notin Request \cup Command \cup Change
    /\ Request \cap Command = {}
    /\ DOMAIN OriginOf = Request
    /\ Ttl \subseteq Nat
    /\ {PairedTtl, PairTtl, PrintTtl, AdminTtl, ApprovalTtl} \subseteq Nat
    /\ MaxTime \in Nat /\ MaxRestarts \in Nat /\ PersistFaults \in BOOLEAN

VARIABLES
    now,        \* the clock all processes read
    file,       \* grants.json
    memory,     \* the service's AuthStore
    stage,      \* where each request is
    grantOf,    \* the grant a request was authorized under
    cmd,        \* where each command is
    copy,       \* the AuthStore a command has loaded
    told,       \* tokens a client or a terminal was given
    restarts,
    \* history
    exchanged,  \* <<code, request>>: exchanges that issued a grant
    prepared,   \* what each approval was prepared for
    confirmed,  \* approvals a person confirmed
    applied,    \* wireless changes sent to the printer
    ended,      \* tokens the service answered to have revoked or replaced
    overlap     \* a command overwrote what it had not read

serviceVars == <<memory, stage, grantOf>>
commandVars == <<cmd, copy>>
historyVars == <<exchanged, prepared, confirmed, applied, ended>>
vars == <<now, file, serviceVars, commandVars, told, restarts, historyVars, overlap>>

-----------------------------------------------------------------------------
Scope == {"print", "admin"}
Token == Request \cup Command

Grant    == [scope : Scope, token : Token, expires : Nat, revoked : BOOLEAN]
NoGrant  == [scope |-> "print", token |-> Nothing, expires |-> 0, revoked |-> TRUE]
Pairing  == [code : Command, scope : Scope, expires : Nat]
NoPairing == [code |-> Nothing, scope |-> "print", expires |-> 0]
Approval == [id : Request, grant : Request, change : Change, expires : Nat,
             approved : BOOLEAN, consumed : BOOLEAN]
NoApproval == [id |-> Nothing, grant |-> Nothing, change |-> Nothing,
               expires |-> 0, approved |-> FALSE, consumed |-> FALSE]

Empty == [grants   |-> [r \in Request |-> NoGrant],
          pairing  |-> NoPairing,
          approval |-> NoApproval]

\* Everything is still valid in the second in which it expires.
Expired(x) == x.expires < now

Allows(scope, required) == scope = "admin" \/ required = "print"

\* Mutant of GrantTtl: the lifetime asked for is granted.
GrantTtl_Asked(scope, ttl) == ttl

GrantTtl(scope, ttl) == Min({ttl, IF scope = "admin" THEN AdminTtl ELSE PrintTtl})

Issued(s, r, scope, ttl) ==
    [s EXCEPT !.grants[r] = [scope   |-> scope, token |-> r,
                             expires |-> now + GrantTtl(scope, ttl),
                             revoked |-> FALSE]]

\* Mutant of Rotated: only the lifetime is renewed.
Rotated_SameToken(s, g, token, ttl) ==
    [s EXCEPT !.grants[g] = [@ EXCEPT !.expires = now + GrantTtl(s.grants[g].scope, ttl),
                                      !.revoked = FALSE]]

Rotated(s, g, token, ttl) ==
    [s EXCEPT !.grants[g] = [scope   |-> s.grants[g].scope, token |-> token,
                             expires |-> now + GrantTtl(s.grants[g].scope, ttl),
                             revoked |-> FALSE]]

Revoked(s, g) == [s EXCEPT !.grants[g].revoked = TRUE]

\* AuthStore::prepare_wifi_approval: a new approval takes the place of any other.
Requested(s, r, change) ==
    [s EXCEPT !.approval = [id |-> r, grant |-> grantOf[r], change |-> change,
                            expires |-> now + ApprovalTtl,
                            approved |-> FALSE, consumed |-> FALSE]]

\* AuthStore::approve_wifi_approval
Approvable(s) == s.approval.id # Nothing /\ ~Expired(s.approval) /\ ~s.approval.consumed
Approved(s)   == [s EXCEPT !.approval.approved = TRUE]

Live(s, g) == ~s.grants[g].revoked /\ ~Expired(s.grants[g])

\* AuthStore::authenticate_scoped
Authenticates(s, token, r, required) ==
    {g \in Request : /\ s.grants[g].token = token
                     /\ OriginOf[g] = OriginOf[r]
                     /\ Live(s, g)
                     /\ Allows(s.grants[g].scope, required)}

\* AuthStore::grant_allows_admin
AllowsAdmin(s, g, r) ==
    OriginOf[g] = OriginOf[r] /\ Live(s, g) /\ s.grants[g].scope = "admin"

\* Outcomes of AuthStore::persist, which replaces the file or leaves it.
Persisted == IF PersistFaults THEN BOOLEAN ELSE {TRUE}
Persist(s, ok) == file' = IF ok THEN s ELSE file

-----------------------------------------------------------------------------
Init ==
    /\ now = 0
    /\ file = Empty /\ memory = Empty
    /\ stage = [r \in Request |-> "idle"] /\ grantOf = [r \in Request |-> Nothing]
    /\ cmd = [x \in Command |-> "idle"] /\ copy = [x \in Command |-> Empty]
    /\ told = {} /\ restarts = 0
    /\ exchanged = {} /\ applied = {} /\ confirmed = {} /\ ended = {}
    /\ prepared = [r \in Request |-> NoApproval]
    /\ overlap = FALSE

-----------------------------------------------------------------------------
(* Requests.  pair and pair_admin do everything under the write lock; the  *)
(* other handlers authorize under the read lock, and change the store      *)
(* later under the write lock.                                             *)

\* Mutant of Unpaired: the code stays in the store.
Unpaired_Kept(s) == s

\* exchange_for forgets the code it accepts, or finds expired.
Unpaired(s) == [s EXCEPT !.pairing = NoPairing]

Pair(r, scope, code) ==
    /\ stage[r] = "idle"
    /\ stage' = [stage EXCEPT ![r] = "done"]
    /\ \/ /\ file.pairing.code = Nothing
          /\ memory' = file
          /\ UNCHANGED <<file, told, exchanged>>
       \/ /\ file.pairing.code # Nothing /\ Expired(file.pairing)
          /\ memory' = Unpaired(file)
          /\ \E ok \in Persisted : Persist(memory', ok)
          /\ UNCHANGED <<told, exchanged>>
       \/ /\ file.pairing.code # Nothing /\ ~Expired(file.pairing)
          /\ file.pairing.code # code \/ file.pairing.scope # scope
          /\ memory' = file
          /\ UNCHANGED <<file, told, exchanged>>
       \/ /\ file.pairing.code = code /\ file.pairing.scope = scope
          /\ ~Expired(file.pairing)
          /\ \/ /\ FALSE \in Persisted
                /\ memory' = Unpaired(file)
                /\ UNCHANGED <<file, told, exchanged>>
             \/ /\ memory' = Issued(Unpaired(file), r, scope,
                                    IF scope = "admin" THEN AdminTtl ELSE PairedTtl)
                /\ exchanged' = exchanged \cup {<<code, r>>}
                /\ \E ok \in Persisted :
                     /\ file' = IF ok THEN memory' ELSE Unpaired(file)
                     /\ told' = IF ok THEN told \cup {r} ELSE told
    /\ UNCHANGED <<now, grantOf, commandVars, restarts, prepared, confirmed,
                   applied, ended, overlap>>

Operation == {"rotate", "revoke", "prepare", "configure"}
Required(op) == IF op \in {"prepare", "configure"} THEN "admin" ELSE "print"

\* authorize, authorize_admin: the read lock is given back before the handler
\* takes the write lock.
Authorize(r, op, token) ==
    /\ stage[r] = "idle" /\ token \in told
    /\ \E g \in Authenticates(memory, token, r, Required(op)) :
         grantOf' = [grantOf EXCEPT ![r] = g]
    /\ stage' = [stage EXCEPT ![r] = op]
    /\ UNCHANGED <<now, file, memory, commandVars, told, restarts, historyVars, overlap>>

Handled(r, op) ==
    /\ stage[r] = op
    /\ stage' = [stage EXCEPT ![r] = "done"]
    /\ UNCHANGED <<now, grantOf, commandVars, restarts, exchanged, confirmed, overlap>>

\* rotate and revoke find a grant by its id, whatever it is by then.
Known(s, g) == s.grants[g] # NoGrant

Unknown(r) ==
    /\ \E op \in {"rotate", "revoke"} : Handled(r, op)
    /\ ~Known(memory, grantOf[r])
    /\ UNCHANGED <<file, memory, told, prepared, applied, ended>>

Rotate(r, ttl) ==
    /\ Handled(r, "rotate") /\ Known(memory, grantOf[r])
    /\ memory' = Rotated(memory, grantOf[r], r, ttl)
    /\ \E ok \in Persisted :
         /\ Persist(memory', ok)
         /\ told'  = IF ok THEN told \cup {r} ELSE told
         /\ ended' = IF ok THEN ended \cup {memory.grants[grantOf[r]].token} ELSE ended
    /\ UNCHANGED <<prepared, applied>>

Revoke(r) ==
    /\ Handled(r, "revoke") /\ Known(memory, grantOf[r])
    /\ memory' = Revoked(memory, grantOf[r])
    /\ \E ok \in Persisted :
         /\ Persist(memory', ok)
         /\ ended' = IF ok THEN ended \cup {memory.grants[grantOf[r]].token} ELSE ended
    /\ UNCHANGED <<told, prepared, applied>>

Prepare(r, change) ==
    /\ Handled(r, "prepare")
    /\ \/ /\ ~AllowsAdmin(memory, grantOf[r], r)
          /\ UNCHANGED <<file, memory, prepared>>
       \/ /\ AllowsAdmin(memory, grantOf[r], r)
          /\ memory' = Requested(memory, r, change)
          /\ prepared' = [prepared EXCEPT ![r] = memory'.approval]
          /\ \E ok \in Persisted : Persist(memory', ok)
    /\ UNCHANGED <<told, applied, ended>>

\* Mutants of Consumable: the binding to the change, or the mark of an earlier
\* use, is not looked at.
Consumable_AnyChange(s, id, r, change) ==
    /\ AllowsAdmin(s, grantOf[r], r)
    /\ s.approval.id = id /\ s.approval.grant = grantOf[r]
    /\ ~Expired(s.approval) /\ s.approval.approved /\ ~s.approval.consumed
Consumable_Again(s, id, r, change) ==
    /\ AllowsAdmin(s, grantOf[r], r)
    /\ s.approval.id = id /\ s.approval.grant = grantOf[r]
    /\ s.approval.change = change
    /\ ~Expired(s.approval) /\ s.approval.approved

\* AuthStore::consume_wifi_approval
Consumable(s, id, r, change) ==
    /\ AllowsAdmin(s, grantOf[r], r)
    /\ s.approval.id = id
    /\ s.approval.grant = grantOf[r] /\ OriginOf[id] = OriginOf[r]
    /\ s.approval.change = change
    /\ ~Expired(s.approval)
    /\ s.approval.approved /\ ~s.approval.consumed

\* The store is read anew; the printer is only touched once the mark is saved.
Configure(r, id, change) ==
    /\ Handled(r, "configure")
    /\ \/ /\ ~Consumable(file, id, r, change)
          /\ memory' = file
          /\ UNCHANGED <<file, applied>>
       \/ /\ Consumable(file, id, r, change)
          /\ memory' = [file EXCEPT !.approval.consumed = TRUE]
          /\ \E ok \in Persisted :
               /\ Persist(memory', ok)
               /\ applied' = IF ok
                    THEN applied \cup {[by |-> r, id |-> id, grant |-> grantOf[r],
                                        change |-> change, at |-> now]}
                    ELSE applied
    /\ UNCHANGED <<told, prepared, ended>>

\* The service stops, and runs again with what the file holds.
Restart ==
    /\ restarts < MaxRestarts
    /\ restarts' = restarts + 1
    /\ memory' = file
    /\ stage' = [r \in Request |-> IF stage[r] = "idle" THEN "idle" ELSE "done"]
    /\ UNCHANGED <<now, file, grantOf, commandVars, told, historyVars, overlap>>

-----------------------------------------------------------------------------
(* Commands: load the store, change it, write it.  Any time may pass in    *)
(* between: "wifi approve" waits for a person's answer.                    *)

Load(x) ==
    /\ cmd[x] = "idle"
    /\ cmd'  = [cmd EXCEPT ![x] = "loaded"]
    /\ copy' = [copy EXCEPT ![x] = file]
    /\ UNCHANGED <<now, file, serviceVars, told, restarts, historyVars, overlap>>

\* The command writes s in place of what it loaded.
Write(x, s, ok) ==
    /\ cmd[x] = "loaded"
    /\ cmd'  = [cmd EXCEPT ![x] = "done"]
    /\ copy' = [copy EXCEPT ![x] = Empty]
    /\ Persist(s, ok)
    /\ overlap' = (overlap \/ (ok /\ file # copy[x]))
    /\ UNCHANGED <<now, serviceVars, restarts, exchanged, prepared, applied, ended>>

BeginPairing(x, scope, ttl) ==
    /\ \E ok \in Persisted :
         Write(x, [copy[x] EXCEPT !.pairing = [code |-> x, scope |-> scope,
                       expires |-> now + Min({ttl, PairTtl})]], ok)
    /\ UNCHANGED <<told, confirmed>>

RevokeCommand(x, g) ==
    /\ Known(copy[x], g)
    /\ \E ok \in Persisted : Write(x, Revoked(copy[x], g), ok)
    /\ UNCHANGED <<told, confirmed>>

RotateCommand(x, g, ttl) ==
    /\ Known(copy[x], g)
    /\ \E ok \in Persisted :
         /\ Write(x, Rotated(copy[x], g, x, ttl), ok)
         /\ told' = IF ok THEN told \cup {x} ELSE told
    /\ UNCHANGED confirmed

\* "wifi approve" once the person has answered yes.
Approve(x) ==
    /\ Approvable(copy[x])
    /\ \E ok \in Persisted : Write(x, Approved(copy[x]), ok)
    /\ confirmed' = confirmed \cup {copy[x].approval.id}
    /\ UNCHANGED told

Tick ==
    /\ now < MaxTime
    /\ now' = now + 1
    /\ UNCHANGED <<file, serviceVars, commandVars, told, restarts, historyVars, overlap>>

-----------------------------------------------------------------------------
Serve(r) ==
    \/ \E scope \in Scope, code \in Command : Pair(r, scope, code)
    \/ \E op \in Operation, token \in Token : Authorize(r, op, token)
    \/ Unknown(r)
    \/ \E ttl \in Ttl : Rotate(r, ttl)
    \/ Revoke(r)
    \/ \E change \in Change : Prepare(r, change)
    \/ \E id \in Request, change \in Change : Configure(r, id, change)

Run(x) ==
    \/ Load(x)
    \/ \E scope \in Scope, ttl \in Ttl : BeginPairing(x, scope, ttl)
    \/ \E g \in Request : RevokeCommand(x, g)
    \/ \E g \in Request, ttl \in Ttl : RotateCommand(x, g, ttl)
    \/ Approve(x)

Next ==
    \/ \E r \in Request : Serve(r)
    \/ \E x \in Command : Run(x)
    \/ Restart
    \/ Tick

Spec == Init /\ [][Next]_vars

-----------------------------------------------------------------------------
(* Properties                                                              *)

\* At time t nothing outlives the longest life the code allows its kind.
StoreOK(s, t) ==
    /\ s \in [grants   : [Request -> Grant \cup {NoGrant}],
             pairing  : Pairing \cup {NoPairing},
             approval : Approval \cup {NoApproval}]
    /\ \A g \in Request :
         s.grants[g].expires <= t + (IF s.grants[g].scope = "admin" THEN AdminTtl
                                                                   ELSE PrintTtl)
    /\ s.pairing.expires <= t + PairTtl
    /\ s.approval.expires <= t + ApprovalTtl

\* Every copy of the store is well formed, and no grant, code or approval in
\* it outlives the longest life allowed to its kind (grant_ttl,
\* begin_pairing_for, prepare_wifi_approval).
GrantTypeOK ==
    /\ now \in 0..MaxTime /\ restarts \in 0..MaxRestarts /\ overlap \in BOOLEAN
    /\ StoreOK(file, now) /\ StoreOK(memory, now)
    /\ \A x \in Command : StoreOK(copy[x], now)
    /\ copy = [x \in Command |-> copy[x]]
    /\ stage \in [Request -> Operation \cup {"idle", "done"}]
    /\ grantOf \in [Request -> Request \cup {Nothing}]
    /\ cmd \in [Command -> {"idle", "loaded", "done"}]
    /\ told \subseteq Token /\ ended \subseteq Token /\ confirmed \subseteq Request
    /\ prepared \in [Request -> Approval \cup {NoApproval}]
    /\ exchanged \subseteq Command \X Request

\* A pairing code issues one grant (exchange_for), across requests, failing
\* saves, restarts and writes of a service that has not read the file, as long
\* as no command writes over what it has not read.
PairedOnce ==
    ~overlap => \A a, b \in exchanged : a[1] = b[1] => a = b

\* An approval is used for one change of the printer's settings
\* (consume_wifi_approval), under the same conditions.
AppliedOnce ==
    ~overlap => \A a, b \in applied : a.id = b.id => a = b

\* Whatever is sent to the printer is the change a person confirmed, under the
\* administrator grant it was prepared for, within the approval's time; also
\* when commands overwrite each other.
AppliedAsApproved ==
    \A a \in applied :
      /\ a.id \in confirmed
      /\ prepared[a.id].change = a.change /\ prepared[a.id].grant = a.grant
      /\ a.at <= prepared[a.id].expires

\* A token that the service answered to have revoked or replaced never again
\* authenticates in the service, also after a restart, as long as no command
\* writes over what it has not read.
EndedStays ==
    ~overlap => \A g \in Request : Live(memory, g) => memory.grants[g].token \notin ended

\* What docs/migration.md:13-14 says of "service grant rotate": once it has
\* printed the new token, the old one no longer authenticates.  (The service
\* goes on with its own copy until a request makes it read the file.)
RotationTakesEffect ==
    \A g \in Request :
      file.grants[g].token \in Command /\ Live(memory, g)
        => memory.grants[g].token = file.grants[g].token
=============================================================================
