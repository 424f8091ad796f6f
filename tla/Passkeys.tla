------------------------------- MODULE Passkeys -------------------------------
(***************************************************************************)
(* Passkeys: the credentials in each user's object (UserDO) and the index  *)
(* of credential ids in D1 (src/users/passkeys.ts, src/me/handlers.ts,     *)
(* src/admin/users.ts, src/interaction/passkey.ts).  A registration adds   *)
(* the passkey to the object, then claims its credential id in the index,  *)
(* and takes the passkey back when the claim fails; a removal goes the     *)
(* same way.  Around them run the ceremony of Self-service (an attempt     *)
(* limit and a single-use challenge on the object), assertions, which      *)
(* suspend on the signature between reading the passkey and advancing its  *)
(* counter, the reindex of a user and the deletion of one.                 *)
(* One step is one call to D1 or to an object, except verifyAssertion,     *)
(* which is two.  A process serves one request; `id` of a passkey is the   *)
(* process that registered it.                                             *)
(***************************************************************************)
EXTENDS Naturals, FiniteSets

CONSTANTS
    Procs,      \* requests
    Users,      \* users with an object
    Creds,      \* credential ids
    None,       \* null
    Origin,     \* the id of the passkeys there are at the start
    MaxPerUser,             \* setting `passkeys.max_per_user`
    PASSKEY_ATTEMPT_LIMIT,
    MaxCounter  \* bound: signature counters

ASSUME PasskeysAssumption ==
    /\ IsFiniteSet(Users) /\ IsFiniteSet(Creds)
    /\ MaxPerUser \in Nat /\ PASSKEY_ATTEMPT_LIMIT \in Nat \ {0} /\ MaxCounter \in Nat
    /\ Origin \notin Procs

VARIABLES
    object,         \* the UserDO of every user
    passkey_index,  \* D1 `passkey_index`: credential id -> user
    rows,           \* D1 `users`: the users with a row
    call,           \* the request of each process
    seen            \* history: what the properties speak of

vars == <<object, passkey_index, rows, call, seen>>

Optional(S) == S \union {None}

Ids == Procs \union {Origin}

(***************************************************************************)
(* The object                                                              *)
(***************************************************************************)
Passkey == [id: Ids, counter: 0..MaxCounter]

\* null is no user, credential, request or passkey.
ASSUME NoneAssumption == None \notin Users \union Creds \union Ids \union Passkey

\* `identity`: an upstream identity is linked.
UserObject == [live: BOOLEAN, passkeys: [Creds -> Optional(Passkey)], identity: BOOLEAN,
               challenge: Optional(Procs), attempts: 0..PASSKEY_ATTEMPT_LIMIT]

Empty == [live |-> FALSE, passkeys |-> [k \in Creds |-> None], identity |-> FALSE,
          challenge |-> None, attempts |-> 0]

hasPasskey(u, k, id) == object[u].passkeys[k] # None /\ object[u].passkeys[k].id = id

held(u) == {k \in Creds : object[u].passkeys[k] # None}

\* Mutant: off by one.
isLastLoginMethodOf(u) == Cardinality(held(u)) + (IF object[u].identity THEN 1 ELSE 0) = 0

\* isLastLoginMethod, of a method that is there.
isLastLoginMethod(u) == Cardinality(held(u)) + (IF object[u].identity THEN 1 ELSE 0) = 1

addable(u, k) == object[u].live /\ Cardinality(held(u)) < MaxPerUser /\ object[u].passkeys[k] = None

setPasskey(u, k, value) == [object EXCEPT ![u].passkeys[k] = value]

\* Mutant: an equal counter passes.
counterPolicyNotBelow(stored, observed) == observed >= stored

counterPolicy(stored, observed) == (stored = 0 /\ observed = 0) \/ observed > stored

(***************************************************************************)
(* Requests.  `pc` names the call made next.                               *)
(***************************************************************************)
Idle == [pc |-> "idle", op |-> "none", user |-> None, cred |-> None, id |-> None,
         challenge |-> None, counter |-> 0, creds |-> {}]

Steps == {"attempt", "putChallenge", "takeChallenge", "lookup", "add", "claim", "retry",
          "rollback", "remove", "release", "batch", "read", "advance", "destroy", "drop"}

Ops == {"options", "me", "register", "self", "admin", "unlink", "reindex", "assert", "index", "delete"}

Call == [pc: Steps \union {"idle", "done"}, op: Ops \union {"none"}, user: Optional(Users),
         cred: Optional(Creds), id: Optional(Ids), challenge: Optional(Procs),
         counter: 0..MaxCounter, creds: SUBSET Creds]

Active(c) == c.pc \notin {"idle", "done"}

\* A reindex or a deletion that overlaps another request may tear the index.
Sweeping(op) == op \in {"reindex", "delete"}

Overlaps(p, op) == \E q \in Procs \ {p} :
    Active(call[q]) /\ (Sweeping(op) \/ Sweeping(call[q].op))

Begin(p, pc, c) ==
    /\ call[p].pc = "idle"
    /\ call' = [call EXCEPT ![p] = [c EXCEPT !.pc = pc]]
    /\ seen' = [seen EXCEPT !.torn = @ \/ Overlaps(p, c.op)]

At(p, pc) == call[p].pc = pc

Goto(p, pc) == call' = [call EXCEPT ![p].pc = pc]

Respond(p) == call' = [call EXCEPT ![p] = [Idle EXCEPT !.pc = "done"]]

d1 == <<passkey_index, rows>>

(***************************************************************************)
(* Self-service: options and challenge (src/me/handlers.ts)                *)
(***************************************************************************)
passkeyOptionsHandler(p) == \E u \in Users :
    /\ object[u].live
    /\ Begin(p, "attempt", [Idle EXCEPT !.op = "options", !.user = u])
    /\ UNCHANGED <<object, d1>>

\* The response signs a challenge some options gave out.
registerPasskeyHandler(p) == \E u \in Users, k \in Creds, q \in seen.issued :
    /\ Begin(p, "attempt", [Idle EXCEPT !.op = "me", !.user = u, !.cred = k, !.challenge = q])
    /\ UNCHANGED <<object, d1>>

\* countPasskeyAttempt: refused at the limit, or the window is over and the
\* count starts afresh.
countPasskeyAttempt(p) == LET c == call[p] o == object[c.user] IN
    /\ At(p, "attempt")
    /\ \/ /\ o.live /\ o.attempts < PASSKEY_ATTEMPT_LIMIT
          /\ object' = [object EXCEPT ![c.user].attempts = @ + 1]
          /\ Goto(p, IF c.op = "options" THEN "putChallenge" ELSE "takeChallenge")
       \/ /\ o.live
          /\ object' = [object EXCEPT ![c.user].attempts = 1]
          /\ Goto(p, IF c.op = "options" THEN "putChallenge" ELSE "takeChallenge")
       \/ /\ o.live => o.attempts = PASSKEY_ATTEMPT_LIMIT
          /\ Respond(p)
          /\ UNCHANGED object
    /\ UNCHANGED <<d1, seen>>

\* putChallenge replaces any previous one; the options answer with it.
putChallenge(p) == LET u == call[p].user IN
    /\ At(p, "putChallenge")
    /\ IF object[u].live
       THEN /\ object' = [object EXCEPT ![u].challenge = p]
            /\ seen' = [seen EXCEPT !.issued = @ \union {p}]
       ELSE UNCHANGED <<object, seen>>
    /\ Respond(p)
    /\ UNCHANGED d1

\* Mutant: the challenge is read and left there.
readChallenge(p) == LET c == call[p] IN
    /\ At(p, "takeChallenge")
    /\ IF object[c.user].challenge = c.challenge
       THEN /\ call' = [call EXCEPT ![p].pc = "lookup", ![p].challenge = None]
            /\ seen' = [seen EXCEPT !.accepted = @ + 1]
       ELSE Respond(p) /\ UNCHANGED seen
    /\ UNCHANGED <<object, d1>>

\* takeChallenge, once: gone when it expired; the ceremony is verified against
\* the value taken.
takeChallenge(p) == LET c == call[p] IN
    /\ At(p, "takeChallenge")
    /\ object' = [object EXCEPT ![c.user].challenge = None]
    /\ \/ /\ object[c.user].live /\ object[c.user].challenge = c.challenge
          /\ call' = [call EXCEPT ![p].pc = "lookup", ![p].challenge = None]
          /\ seen' = [seen EXCEPT !.accepted = @ + 1]
       \/ Respond(p) /\ UNCHANGED seen
    /\ UNCHANGED d1

(***************************************************************************)
(* Registration (registerPasskey)                                          *)
(***************************************************************************)
\* From an interaction: a new user or a recovery; its challenge is module
\* Interaction's.
registerVerifyHandler(p) == \E u \in Users, k \in Creds :
    /\ object[u].live
    /\ Begin(p, "lookup", [Idle EXCEPT !.op = "register", !.user = u, !.cred = k])
    /\ UNCHANGED <<object, d1>>

lookupCredential(p) ==
    /\ At(p, "lookup")
    /\ IF passkey_index[call[p].cred] # None THEN Respond(p) ELSE Goto(p, "add")
    /\ UNCHANGED <<object, d1, seen>>

addPasskey(p) == LET c == call[p] IN
    /\ At(p, "add")
    /\ IF addable(c.user, c.cred)
       THEN object' = setPasskey(c.user, c.cred, [id |-> p, counter |-> 0]) /\ Goto(p, "claim")
       ELSE Respond(p) /\ UNCHANGED object
    /\ UNCHANGED <<d1, seen>>

\* Mutant: whether the row was inserted is not looked at.
claimCredentialBlindly(p) == LET c == call[p] IN
    /\ At(p, "claim") \/ At(p, "retry")
    /\ passkey_index' = IF passkey_index[c.cred] = None /\ c.user \in rows
                        THEN [passkey_index EXCEPT ![c.cred] = c.user] ELSE passkey_index
    /\ Respond(p)
    /\ UNCHANGED <<object, rows, seen>>

\* INSERT OR IGNORE, which needs the user's row: "claimed", "taken", or an error
\* that may hide a write that was made; an error is retried once.
claimCredential(p) == LET c == call[p]
                          free == passkey_index[c.cred] = None /\ c.user \in rows
                          claimed == [passkey_index EXCEPT ![c.cred] = c.user] IN
    /\ At(p, "claim") \/ At(p, "retry")
    /\ \/ free /\ passkey_index' = claimed /\ Respond(p)
       \/ passkey_index[c.cred] # None /\ Goto(p, "rollback") /\ UNCHANGED passkey_index
       \/ /\ Goto(p, IF c.pc = "claim" THEN "retry" ELSE "rollback")
          /\ passkey_index' \in {passkey_index} \union IF free THEN {claimed} ELSE {}
    /\ UNCHANGED <<object, rows, seen>>

\* removePasskey by id, as an administrator would: the last method goes too.
rollback(p) == LET c == call[p] IN
    /\ At(p, "rollback")
    /\ object' = IF hasPasskey(c.user, c.cred, p)
                 THEN setPasskey(c.user, c.cred, None) ELSE object
    /\ seen' = [seen EXCEPT !.stripped = @ \union {c.user}]
    /\ Respond(p)
    /\ UNCHANGED d1

(***************************************************************************)
(* Removal (unregisterOwnPasskey, unregisterPasskey, an identity unlinked) *)
(***************************************************************************)
\* The handlers list the passkeys to find the one with the id.
deletePasskeyHandler(p) == \E u \in Users, op \in {"self", "admin"} : \E k \in held(u) :
    /\ Begin(p, "remove", [Idle EXCEPT !.op = op, !.user = u, !.cred = k,
                                       !.id = object[u].passkeys[k].id])
    /\ UNCHANGED <<object, d1>>

removePasskey(p) == LET c == call[p] present == hasPasskey(c.user, c.cred, c.id) IN
    /\ At(p, "remove")
    /\ \/ /\ present /\ (c.op = "self" => ~isLastLoginMethod(c.user))
          /\ object' = setPasskey(c.user, c.cred, None)
          /\ Goto(p, "release")
          /\ seen' = [seen EXCEPT !.stripped = @ \union IF c.op = "admin" THEN {c.user} ELSE {},
                                  !.torn = @ \/ (c.id \in Procs /\ Active(call[c.id]))]
       \/ /\ present => c.op = "self" /\ isLastLoginMethod(c.user)
          /\ Respond(p)
          /\ UNCHANGED <<object, seen>>
    /\ UNCHANGED d1

\* By credential id, whoever has the row.
releaseCredential(p) == LET c == call[p] IN
    /\ At(p, "release")
    /\ passkey_index' = [passkey_index EXCEPT ![c.cred] = None]
    /\ Respond(p)
    /\ UNCHANGED <<object, rows, seen>>

\* DELETE /me/identities/{id}: removeIdentity under the same rule.
deleteIdentityHandler(p) == \E u \in Users :
    /\ At(p, "idle")
    /\ object[u].identity /\ ~isLastLoginMethod(u)
    /\ object' = [object EXCEPT ![u].identity = FALSE]
    /\ Respond(p)
    /\ UNCHANGED <<d1, seen>>

(***************************************************************************)
(* Assertions (passkeyVerifyHandler, UserDO.verifyAssertion)               *)
(***************************************************************************)
\* Routed by the user handle, or by the index.
passkeyVerifyHandler(p) == \E k \in Creds, n \in 0..MaxCounter, op \in {"assert", "index"}, u \in Users :
    /\ op = "index" => passkey_index[k] = u
    /\ Begin(p, "read", [Idle EXCEPT !.op = op, !.user = u, !.cred = k, !.counter = n])
    /\ UNCHANGED <<object, d1>>

\* The stored passkey is read and its signature awaited.  An index row without
\* a user behind it is released.
readAssertion(p) == LET c == call[p] o == object[c.user] IN
    /\ At(p, "read")
    /\ \/ o.live /\ o.passkeys[c.cred] # None /\ Goto(p, "advance")
       \/ ~o.live /\ c.op = "index" /\ Goto(p, "release")
       \/ /\ o.passkeys[c.cred] = None /\ ~(~o.live /\ c.op = "index")
          /\ Respond(p)
    /\ UNCHANGED <<object, d1, seen>>

\* The row is read again: the policy applies to its counter, not the first one.
advanceCounter(p) == LET c == call[p] row == object[c.user].passkeys[c.cred] IN
    /\ At(p, "advance")
    /\ IF row # None /\ (row # None => counterPolicy(row.counter, c.counter))
       THEN /\ object' = setPasskey(c.user, c.cred, [row EXCEPT !.counter = c.counter])
            /\ seen' = [seen EXCEPT !.asserted = @ \union {<<c.cred, row.id, c.counter>>},
                                    !.replayed = @ \/ (c.counter > 0 /\ <<c.cred, row.id, c.counter>> \in seen.asserted)]
       ELSE UNCHANGED <<object, seen>>
    /\ Respond(p)
    /\ UNCHANGED d1

(***************************************************************************)
(* Reindex and deletion                                                    *)
(***************************************************************************)
reindexUser(p) == \E u \in Users :
    /\ object[u].live
    /\ Begin(p, "batch", [Idle EXCEPT !.op = "reindex", !.user = u, !.creds = held(u)])
    /\ UNCHANGED <<object, d1>>

\* replacePasskeyIndexStatements: INSERT OR REPLACE takes rows of other users.
replacePasskeyIndex(p) == LET c == call[p] IN
    /\ At(p, "batch")
    /\ passkey_index' = IF c.user \notin rows THEN passkey_index
                        ELSE [k \in Creds |-> IF k \in c.creds THEN c.user
                                              ELSE IF passkey_index[k] = c.user THEN None
                                              ELSE passkey_index[k]]
    /\ Respond(p)
    /\ UNCHANGED <<object, rows, seen>>

deleteUserHandler(p) == \E u \in rows :
    /\ Begin(p, "destroy", [Idle EXCEPT !.op = "delete", !.user = u])
    /\ UNCHANGED <<object, d1>>

destroyUser(p) ==
    /\ At(p, "destroy")
    /\ object' = [object EXCEPT ![call[p].user] = Empty]
    /\ Goto(p, "drop")
    /\ UNCHANGED <<d1, seen>>

\* The index rows cascade.
deleteUserRow(p) == LET u == call[p].user IN
    /\ At(p, "drop")
    /\ rows' = rows \ {u}
    /\ passkey_index' = [k \in Creds |-> IF passkey_index[k] = u THEN None ELSE passkey_index[k]]
    /\ Respond(p)
    /\ UNCHANGED <<object, seen>>

\* A call threw or the isolate is gone.
Stop(p) ==
    /\ Active(call[p])
    /\ Respond(p)
    /\ seen' = [seen EXCEPT !.torn = TRUE]
    /\ UNCHANGED <<object, d1>>

(***************************************************************************)
(* The specification                                                       *)
(***************************************************************************)
\* Users with at least one login method and indexed passkeys.
Init ==
    /\ passkey_index \in [Creds -> Optional(Users)]
    /\ \E linked \in [Users -> BOOLEAN] :
         object = [u \in Users |->
                     [Empty EXCEPT !.live = TRUE, !.identity = linked[u],
                        !.passkeys = [k \in Creds |-> IF passkey_index[k] = u
                                                      THEN [id |-> Origin, counter |-> 0] ELSE None]]]
    /\ \A u \in Users : object[u].identity \/ held(u) # {}
    /\ rows = Users
    /\ call = [p \in Procs |-> Idle]
    /\ seen = [torn |-> FALSE, issued |-> {}, accepted |-> 0, stripped |-> {},
               asserted |-> {}, replayed |-> FALSE]

CeremonyNext(p) == passkeyOptionsHandler(p) \/ registerPasskeyHandler(p) \/ countPasskeyAttempt(p)
                   \/ putChallenge(p) \/ takeChallenge(p)

RegisterNext(p) == registerVerifyHandler(p) \/ lookupCredential(p) \/ addPasskey(p)
                   \/ claimCredential(p) \/ rollback(p)

RemoveNext(p) == deletePasskeyHandler(p) \/ removePasskey(p) \/ releaseCredential(p)
                 \/ deleteIdentityHandler(p)

AssertNext(p) == passkeyVerifyHandler(p) \/ readAssertion(p) \/ advanceCounter(p)

SweepNext(p) == reindexUser(p) \/ replacePasskeyIndex(p) \/ deleteUserHandler(p)
                \/ destroyUser(p) \/ deleteUserRow(p)

Next == \E p \in Procs : CeremonyNext(p) \/ RegisterNext(p) \/ RemoveNext(p) \/ AssertNext(p)
                         \/ SweepNext(p) \/ Stop(p)

Spec == Init /\ [][Next]_vars

(***************************************************************************)
(* Properties                                                              *)
(***************************************************************************)
\* The types of the variables.
TypeOK ==
    /\ object \in [Users -> UserObject]
    /\ passkey_index \in [Creds -> Optional(Users)]
    /\ rows \subseteq Users
    /\ call \in [Procs -> Call]

\* src/users/passkeys.ts:8, "the index never lacks a credential the DO holds for
\* long": a passkey no request under way is about is indexed to its user, and so
\* held by one user only, however registrations, removals and assertions of one
\* credential interleave and whatever a failed claim left behind.  Excepted are a
\* request that stopped, a reindex or a deletion during another request, and the
\* removal of a passkey whose registration is still under way.
HeldIsIndexed ==
    ~seen.torn => \A u \in Users : \A k \in held(u) :
        passkey_index[k] = u \/ \E p \in Procs : call[p].cred = k

\* TIO-PK-040 and TIO-FED-051: no order of a user's own removals leaves them
\* without a passkey or an identity; only an administrator's removal and the
\* rollback of a registration do.
OwnRemovalKeepsAMethod ==
    \A u \in Users : object[u].live /\ u \notin seen.stripped => object[u].identity \/ held(u) # {}

\* TIO-PK-030, "two concurrent assertions cannot both advance it": a signature
\* counter is accepted once for one passkey.
CounterAcceptedOnce == ~seen.replayed

\* TIO-PK-012, "single use, consumed before verification": no more registrations
\* of Self-service pass the challenge than options were answered.
ChallengeUsedOnce == seen.accepted <= Cardinality(seen.issued)
=============================================================================
