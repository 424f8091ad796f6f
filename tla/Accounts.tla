------------------------------ MODULE Accounts ------------------------------
(***************************************************************************)
(* Which users exist.  A user is a row of D1's `users` table and a Durable *)
(* Object (UserDO); the row claims the id, the verified email, the group   *)
(* memberships and, through identity_index, the upstream identities, and   *)
(* the object holds the content.  No transaction spans the two stores, so  *)
(* every operation is a sequence of calls between which other requests,    *)
(* the maintenance cron and failures may run:                              *)
(*   - creation by registration, federation, the Admin API, the import     *)
(*     (src/users/create.ts: claim, initialise, activate);                 *)
(*   - linking and unlinking an upstream identity;                         *)
(*   - disabling, enabling and deleting (src/users/admin.ts);              *)
(*   - invitations and the bootstrap of the first administrator;           *)
(*   - the cron, which repairs or drops rows left `creating` and finishes  *)
(*     rows left `deleting` (src/maintenance/run.ts).                      *)
(* One step is one call to D1 or to an object.  Emails are left out: a     *)
(* claim may always be refused because a verified email is taken.  Groups, *)
(* passkeys and the profile are the subject of Directory and Passkeys;     *)
(* here a row may claim the `admins` group.                                *)
(***************************************************************************)
EXTENDS Integers, FiniteSets, Functions

CONSTANTS
    Procs,          \* requests a Worker may be serving at once
    Uids,           \* user ids, in the order UuidV7 hands them out
    Pairs,          \* upstream identities, (issuer, subject)
    Invs,           \* ids of invitations
    None            \* null

ASSUME AccountsAssumption ==
    Uids # {} /\ Invs # {} /\ None \notin Uids /\ None \notin Pairs /\ None \notin Invs

VARIABLES
    users,          \* D1 `users` with the admins membership
    identity_index, \* D1 `identity_index`: pair -> user
    invitations,    \* D1 `invitations`
    bootstrapped,   \* D1 setting `bootstrapped_at` is set
    object,         \* the UserDO of every id
    call,           \* the request each process serves
    cron,           \* the maintenance run
    minted,         \* ids handed out so far
    seen            \* history: what the properties speak of

d1 == <<users, identity_index, invitations, bootstrapped>>
vars == <<d1, object, call, cron, minted, seen>>

(***************************************************************************)
(* Tables                                                                  *)
(***************************************************************************)
Optional(S) == S \union {None}

UserStatus == {"creating", "active", "disabled", "deleting"}

UserRow == [status: UserStatus \union {"absent"}, admin: BOOLEAN]

Absent == [status |-> "absent", admin |-> FALSE]

\* `closed`: used, expired, revoked or deleted, which registration tells apart
\* in its message only.  user_id is the target of a `recover` invitation.
InvitationRow == [state: {"none", "open", "closed"}, recover: BOOLEAN,
                  admin: BOOLEAN, user_id: Optional(Uids)]

NoInvitation == [state |-> "none", recover |-> FALSE, admin |-> FALSE,
                 user_id |-> None]

Closed == [NoInvitation EXCEPT !.state = "closed"]

\* `destroyed` is a field of the instance, not of its storage.
UserObject == [live: BOOLEAN, destroyed: BOOLEAN, disabled: BOOLEAN,
               identities: SUBSET Pairs]

Empty == [live |-> FALSE, destroyed |-> FALSE, disabled |-> FALSE,
          identities |-> {}]

\* Mutant: the row is visible from the start.
insertUserStatementActive(admin) == [status |-> "active", admin |-> admin]

insertUserStatement(admin) == [status |-> "creating", admin |-> admin]

\* UPDATE ... WHERE id = ?: a row that is gone stays gone.
setUserStatus(u, status) ==
    [users EXCEPT ![u] = IF @ = Absent THEN @ ELSE [@ EXCEPT !.status = status]]

\* GET by id hides a row that is still being created.
loadUser(u) == users[u].status \in {"active", "disabled", "deleting"}

\* DELETE FROM users cascades to identity_index and to bound invitations;
\* the invitations the user redeemed go in the same batch.
deleteUserRow(u) ==
    /\ users' = [users EXCEPT ![u] = Absent]
    /\ identity_index' = [x \in Pairs |-> IF identity_index[x] = u THEN None ELSE identity_index[x]]
    /\ invitations' = [i \in Invs |-> IF invitations[i].user_id = u THEN Closed ELSE invitations[i]]

\* By key, whoever holds the pair.
releaseIdentity(x) == [identity_index EXCEPT ![x] = None]

identitiesOfUser(u) == {x \in Pairs : identity_index[x] = u}

\* Mutant: the UPDATE without `used_at IS NULL`.
ConsumableTwice(i) == invitations[i] # NoInvitation /\ ~invitations[i].recover

\* The conditional UPDATE of consumeInvitation.
Consumable(i) == invitations[i].state = "open"

deleteInvitation(i) == [invitations EXCEPT ![i] = Closed]

(***************************************************************************)
(* The object                                                              *)
(***************************************************************************)
Guard(u) == object[u].live

\* init: refused after destroy(), idempotent when the object has its user.
InitOk(u) == ~object[u].destroyed

insertUser(u, identities) ==
    IF object[u].live
    THEN object
    ELSE [object EXCEPT ![u] = [Empty EXCEPT !.live = TRUE, !.identities = identities]]

destroy(u) == [object EXCEPT ![u] = [Empty EXCEPT !.destroyed = TRUE]]

setDisabled(u, disabled) ==
    IF Guard(u) THEN [object EXCEPT ![u].disabled = disabled] ELSE object

(***************************************************************************)
(* Requests, one for each process.  `pc` names the call a request makes    *)
(* next; one whose isolate is gone, or whose call threw, makes no other.   *)
(***************************************************************************)
Steps == {"claim", "init", "activate", "touch", "release", "email",
          "consume", "recover", "claimPair", "addIdentity",
          "releasePair", "remove", "setDisabled", "setStatus",
          "mark", "revoke", "destroy", "drop", "invite", "claimSetting", "withdraw"}

Ops == {"create", "register", "federate", "link", "unlink", "unlinkSelf",
        "disable", "enable", "delete", "bootstrap"}

Call == [pc: Steps \union {"idle", "done"}, op: Ops \union {"none"}, uid: Optional(Uids),
         pair: Optional(Pairs), inv: Optional(Invs), admin: BOOLEAN]

Idle == [pc |-> "idle", op |-> "none", uid |-> None, pair |-> None, inv |-> None,
         admin |-> FALSE]

\* What a request is about: a user, an upstream identity and an invitation,
\* whose groups were read with it.
Request(op, u, x, i) ==
    [Idle EXCEPT !.op = op, !.uid = u, !.pair = x, !.inv = i,
                 !.admin = i # None /\ invitations[i].admin]

\* The request of process p starts; c is what its first call leaves of it.
Begin(p, pc, c) ==
    /\ call[p].pc = "idle"
    /\ call' = [call EXCEPT ![p] = [c EXCEPT !.pc = pc]]

At(p, pc) == call[p].pc = pc

Goto(p, pc) == call' = [call EXCEPT ![p].pc = pc]

Respond(p) == call' = [call EXCEPT ![p] = [Idle EXCEPT !.pc = "done"]]

\* A step that touches D1 only, or objects only, of the things requests change.
OnlyD1 == UNCHANGED <<object, cron, minted>>
OnlyObject == UNCHANGED <<d1, cron, minted, seen>>

NextId == CHOOSE u \in Uids : u \notin minted

Mint == Uids # minted /\ minted' = minted \union {NextId}

(***************************************************************************)
(* Creation (src/users/create.ts)                                          *)
(***************************************************************************)
\* Mutant: INSERT OR REPLACE of the identities.
uniquenessFailureOfRows(c) == users[c.uid] # Absent

\* The primary keys refuse the batch.
uniquenessFailure(c) ==
    \/ users[c.uid] # Absent
    \/ c.pair # None /\ identity_index[c.pair] # None

\* Step 1: the row, its memberships and its identities in one batch, refused as
\* well when somebody else has the verified email.
claimStatements(p, c) ==
    /\ \/ Respond(p) /\ UNCHANGED <<d1, seen>>
       \/ /\ ~uniquenessFailure(c)
          /\ users' = [users EXCEPT ![c.uid] = insertUserStatement(c.admin)]
          /\ identity_index' = [x \in Pairs |-> IF x = c.pair THEN c.uid ELSE identity_index[x]]
          /\ seen' = [seen EXCEPT !.invited = @ \union ({c.inv} \ {None}) \X {c.uid}]
          /\ call' = [call EXCEPT ![p] = [Request(c.op, c.uid, c.pair, None) EXCEPT !.pc = "init"]]
          /\ UNCHANGED <<invitations, bootstrapped>>
    /\ UNCHANGED <<object, cron>>

createUsers(p) ==
    /\ At(p, "claim")
    /\ claimStatements(p, call[p])
    /\ UNCHANGED minted

\* POST /admin/users, and a line of POST /admin/import/users without an id:
\* nothing is read before the claim.
createUserHandler(p) == \E x \in Optional(Pairs) :
    /\ At(p, "idle") /\ Mint
    /\ claimStatements(p, Request("create", NextId, x, None))

\* POST /admin/import/users, a line with an id: one that names a row that is
\* not `creating` is only compared.
importUsersHandler(p) == \E x \in Optional(Pairs), u \in minted :
    /\ users[u].status \in {"absent", "creating"}
    /\ Begin(p, "claim", Request("create", u, x, None))
    /\ UNCHANGED <<d1, object, cron, minted, seen>>

\* Step 2: the object with its identities.
initialize(p) == LET c == call[p] IN
    /\ At(p, "init")
    /\ \/ /\ InitOk(c.uid)
          /\ object' = insertUser(c.uid, {c.pair} \ {None})
          /\ Goto(p, "activate")
       \/ /\ ~InitOk(c.uid)
          /\ Respond(p)
          /\ UNCHANGED object
    /\ OnlyObject

\* Step 3: the row becomes visible.  A line of an import may ask for the user
\* to be disabled and for an invitation.
activate(p) == LET c == call[p] IN
    /\ At(p, "activate")
    /\ users' = setUserStatus(c.uid, "active")
    /\ \/ c.op = "create" /\ \E pc \in {"setDisabled", "invite"} : Goto(p, pc)
       \/ Respond(p)
    /\ UNCHANGED <<identity_index, invitations, bootstrapped, seen>>
    /\ OnlyD1

(***************************************************************************)
(* Registration by passkey (src/interaction/register.ts)                   *)
(***************************************************************************)
\* With a `register` invitation or openly.  The options handler found the invitation alive.
registerVerifyHandler(p) ==
    /\ Mint
    /\ \/ /\ At(p, "idle")
          /\ claimStatements(p, Request("register", NextId, None, None))
       \/ \E i \in Invs : /\ Consumable(i) /\ ~invitations[i].recover
                          /\ Begin(p, "consume", Request("register", NextId, None, i))
                          /\ UNCHANGED <<d1, object, cron, seen>>

\* With a `recover` invitation, whose target was active.
recoverVerifyHandler(p) == \E i \in Invs :
    /\ Consumable(i) /\ invitations[i].recover
    /\ users[invitations[i].user_id].status = "active"
    /\ Begin(p, "consume", Request("register", invitations[i].user_id, None, i))
    /\ UNCHANGED <<d1, object, cron, minted, seen>>

\* UPDATE invitations SET used_at ... WHERE used_at IS NULL AND expires_at > now.
consumeInvitation(p) == LET c == call[p] IN
    /\ At(p, "consume")
    /\ \/ /\ Consumable(c.inv)
          /\ invitations' = [invitations EXCEPT ![c.inv] = Closed]
          /\ IF invitations[c.inv].recover
             THEN call' = [call EXCEPT ![p].pc = "recover", ![p].inv = None]
             ELSE Goto(p, "claim")
       \/ /\ ~Consumable(c.inv)
          /\ Respond(p)
          /\ UNCHANGED invitations
    /\ UNCHANGED <<users, identity_index, bootstrapped, seen>>
    /\ OnlyD1

\* Recovery reads the profile and ends every session; the new passkey is the
\* subject of module Passkeys.
recoverAccount(p) ==
    /\ At(p, "recover")
    /\ Respond(p)
    /\ UNCHANGED object
    /\ OnlyObject

(***************************************************************************)
(* Federated login (src/federation/callback.ts, resolveAccount)            *)
(***************************************************************************)
\* The holder of a creation in flight is not asked.
lookupIdentity(p, c) == LET holder == identity_index[c.pair] IN
    \/ holder = None /\ Begin(p, "email", c)
    \/ holder # None /\ users[holder].status # "creating" /\ Begin(p, "touch", [c EXCEPT !.uid = holder])

\* The upstream asserted the pair x; the leg may have been started with an
\* invitation.
resolveAccount(p) == \E x \in Pairs, i \in Optional(Invs) :
    /\ i # None => invitations[i] # NoInvitation
    /\ lookupIdentity(p, Request("federate", None, x, i))
    /\ UNCHANGED <<d1, object, cron, minted, seen>>

\* touchIdentity: the object confirms the pair, and the login is its user's.
touchIdentity(p) == LET c == call[p] IN
    /\ At(p, "touch")
    /\ IF Guard(c.uid) /\ c.pair \in object[c.uid].identities
       THEN Respond(p)
       ELSE call' = [call EXCEPT ![p].pc = "release", ![p].uid = None]
    /\ UNCHANGED object
    /\ OnlyObject

\* An index row the object does not confirm is deleted on discovery.
releaseUnconfirmed(p) ==
    /\ At(p, "release")
    /\ identity_index' = releaseIdentity(call[p].pair)
    /\ seen' = [seen EXCEPT !.freed = TRUE]
    /\ Goto(p, "email")
    /\ UNCHANGED <<users, invitations, bootstrapped>>
    /\ OnlyD1

\* findVerifiedUser: an owner of the email asserted is proposed for linking, or
\* the login is refused; else an account is created.
resolveByEmail(p) == LET c == call[p] IN
    /\ At(p, "email")
    /\ \/ Respond(p) /\ UNCHANGED minted
       \/ /\ c.inv = None
          /\ Mint
          /\ call' = [call EXCEPT ![p].pc = "claim", ![p].uid = NextId]
       \/ /\ c.inv # None /\ invitations[c.inv].state = "open"
          /\ Mint
          /\ call' = [call EXCEPT ![p].pc = "consume", ![p].uid = NextId,
                                  ![p].admin = invitations[c.inv].admin]
    /\ UNCHANGED <<d1, object, cron, seen>>

(***************************************************************************)
(* Linking and unlinking an upstream identity                              *)
(***************************************************************************)
\* linkIdentity (src/interaction/passkey.ts): the candidate proved to be u.
linkIdentity(p) == \E u \in Uids, x \in Pairs :
    /\ Guard(u)
    /\ Begin(p, "claimPair", Request("link", u, x, None))
    /\ UNCHANGED <<d1, object, cron, minted, seen>>

\* INSERT: refused by the primary key, or by the foreign key to users.
insertIdentityStatement(p) == LET c == call[p] IN
    /\ At(p, "claimPair")
    /\ IF identity_index[c.pair] = None /\ users[c.uid] # Absent
       THEN identity_index' = [identity_index EXCEPT ![c.pair] = c.uid] /\ Goto(p, "addIdentity")
       ELSE Respond(p) /\ UNCHANGED identity_index
    /\ UNCHANGED <<users, invitations, bootstrapped, seen>>
    /\ OnlyD1

addIdentity(p) == LET c == call[p] IN
    /\ At(p, "addIdentity")
    /\ IF Guard(c.uid) /\ c.pair \notin object[c.uid].identities
       THEN object' = [object EXCEPT ![c.uid].identities = @ \union {c.pair}] /\ Respond(p)
       ELSE Goto(p, "releasePair") /\ UNCHANGED object
    /\ OnlyObject

\* DELETE .../identities/{id} of the Admin API and of Self-service: the object
\* listed the pair.
deleteIdentityHandler(p) == \E u \in Uids, x \in Pairs, op \in {"unlink", "unlinkSelf"} :
    /\ Guard(u) /\ x \in object[u].identities
    /\ op = "unlink" => loadUser(u)
    /\ Begin(p, "remove", Request(op, u, x, None))
    /\ UNCHANGED <<d1, object, cron, minted, seen>>

\* A user's own removal is refused for the last login method, and goes on to
\* the index only when the object removed something; an administrator's always
\* does.
removeIdentity(p) == LET c == call[p] IN
    /\ At(p, "remove")
    /\ \/ /\ ~Guard(c.uid) \/ c.op = "unlinkSelf"
          /\ Respond(p)
          /\ UNCHANGED object
       \/ /\ Guard(c.uid)
          /\ c.op = "unlinkSelf" => c.pair \in object[c.uid].identities
          /\ object' = [object EXCEPT ![c.uid].identities = @ \ {c.pair}]
          /\ Goto(p, "releasePair")
    /\ OnlyObject

\* releaseIdentity after an unlink or a failed link.
releasePair(p) ==
    /\ At(p, "releasePair")
    /\ identity_index' = releaseIdentity(call[p].pair)
    /\ seen' = [seen EXCEPT !.freed = TRUE]
    /\ Respond(p)
    /\ UNCHANGED <<users, invitations, bootstrapped>>
    /\ OnlyD1

(***************************************************************************)
(* Disabling, enabling and deleting (src/users/admin.ts)                   *)
(***************************************************************************)
setDisabledHandler(p) == \E u \in Uids, op \in {"disable", "enable"} :
    /\ loadUser(u) /\ Guard(u)
    /\ Begin(p, "setDisabled", Request(op, u, None, None))
    /\ UNCHANGED <<d1, object, cron, minted, seen>>

\* setUserDisabled, the object first; a line of an import disables too.
setUserDisabled(p) == LET c == call[p] IN
    /\ At(p, "setDisabled")
    /\ object' = setDisabled(c.uid, c.op # "enable")
    /\ \/ Guard(c.uid) /\ Goto(p, "setStatus")
       \/ ~Guard(c.uid) /\ c.op = "create" /\ Goto(p, "invite")
       \/ ~Guard(c.uid) /\ Respond(p)
    /\ OnlyObject

\* setUserDisabled, the row, whatever its status is by now.
mirrorDisabled(p) == LET c == call[p] IN
    /\ At(p, "setStatus")
    /\ users' = setUserStatus(c.uid, IF c.op = "enable" THEN "active" ELSE "disabled")
    /\ \/ c.op = "create" /\ Goto(p, "invite")
       \/ Respond(p)
    /\ UNCHANGED <<identity_index, invitations, bootstrapped, seen>>
    /\ OnlyD1

deleteUserHandler(p) == \E u \in Uids :
    /\ loadUser(u)
    /\ Begin(p, "mark", Request("delete", u, None, None))
    /\ UNCHANGED <<d1, object, cron, minted, seen>>

\* deleteUser: the row goes to `deleting` ...
markDeleting(p) == LET u == call[p].uid IN
    /\ At(p, "mark")
    /\ users' = setUserStatus(u, "deleting")
    /\ seen' = [seen EXCEPT !.doomed = @ \union {u}]
    /\ Goto(p, "revoke")
    /\ UNCHANGED <<identity_index, invitations, bootstrapped>>
    /\ OnlyD1

\* ... the object is disabled, so that its sessions end ...
revokeDeleted(p) ==
    /\ At(p, "revoke")
    /\ object' = setDisabled(call[p].uid, TRUE)
    /\ Goto(p, "destroy")
    /\ OnlyObject

\* ... and destroyed ...
destroyDeleted(p) ==
    /\ At(p, "destroy")
    /\ object' = destroy(call[p].uid)
    /\ Goto(p, "drop")
    /\ OnlyObject

\* ... and the row goes with everything that references it.
dropDeleted(p) ==
    /\ At(p, "drop")
    /\ deleteUserRow(call[p].uid)
    /\ seen' = [seen EXCEPT !.freed = TRUE]
    /\ Respond(p)
    /\ UNCHANGED bootstrapped
    /\ OnlyD1

(***************************************************************************)
(* Invitations and bootstrap                                               *)
(***************************************************************************)
FreshInvitation == CHOOSE i \in Invs : invitations[i] = NoInvitation

\* createInvitation inserts one row; a recover invitation references its user.
createInvitation(recover, admin, u) == LET i == FreshInvitation IN
    /\ NoInvitation \in Range(invitations)
    /\ u # None => users[u] # Absent
    /\ invitations' = [invitations EXCEPT ![i] = [state |-> "open", recover |-> recover,
                          admin |-> admin, user_id |-> u]]

\* POST /admin/invitations.
createInvitationHandler(p) ==
    /\ At(p, "idle")
    /\ createInvitation(FALSE, FALSE, None)
    /\ Respond(p)
    /\ UNCHANGED <<users, identity_index, bootstrapped, seen>>
    /\ OnlyD1

\* POST /admin/users/{id}/recover: only for an active user.
createRecoverInvitationHandler(p) == \E u \in Uids :
    /\ At(p, "idle")
    /\ users[u].status = "active"
    /\ createInvitation(TRUE, FALSE, u)
    /\ Respond(p)
    /\ UNCHANGED <<users, identity_index, bootstrapped, seen>>
    /\ OnlyD1

\* The invitation of an imported user; without its row the insert fails.
inviteImported(p) == LET u == call[p].uid IN
    /\ At(p, "invite") /\ call[p].op = "create"
    /\ \/ createInvitation(TRUE, FALSE, u)
       \/ users[u] = Absent /\ UNCHANGED invitations
    /\ Respond(p)
    /\ UNCHANGED <<users, identity_index, bootstrapped, seen>>
    /\ OnlyD1

\* DELETE /admin/invitations/{id}, or expires_at passes.
deleteInvitationHandler(p) == \E i \in Invs :
    /\ At(p, "idle")
    /\ invitations[i].state = "open"
    /\ invitations' = deleteInvitation(i)
    /\ Respond(p)
    /\ UNCHANGED <<users, identity_index, bootstrapped, seen>>
    /\ OnlyD1

\* POST /admin/bootstrap: the cached settings may still show no bootstrap; the
\* admins group must have no member.
bootstrapHandler(p) ==
    /\ \A u \in Uids : ~users[u].admin
    /\ Begin(p, "invite", Request("bootstrap", None, None, None))
    /\ UNCHANGED <<d1, object, cron, minted, seen>>

bootstrapInvitation(p) ==
    /\ At(p, "invite") /\ call[p].op = "bootstrap"
    /\ createInvitation(FALSE, TRUE, None)
    /\ call' = [call EXCEPT ![p].pc = "claimSetting", ![p].inv = FreshInvitation]
    /\ UNCHANGED <<users, identity_index, bootstrapped, seen>>
    /\ OnlyD1

\* Mutant: the answer of claimSetting is not looked at.
claimBootstrapAnyway(p) ==
    /\ At(p, "claimSetting")
    /\ bootstrapped' = TRUE
    /\ Respond(p)
    /\ seen' = [seen EXCEPT !.handed = @ \union {call[p].inv}]
    /\ UNCHANGED <<users, identity_index, invitations>>
    /\ OnlyD1

\* claimSetting inserts once: the winner hands its invitation out.
claimBootstrap(p) ==
    /\ At(p, "claimSetting")
    /\ bootstrapped' = TRUE
    /\ IF bootstrapped
       THEN Goto(p, "withdraw") /\ UNCHANGED seen
       ELSE Respond(p) /\ seen' = [seen EXCEPT !.handed = @ \union {call[p].inv}]
    /\ UNCHANGED <<users, identity_index, invitations>>
    /\ OnlyD1

\* The loser deletes its own.
withdrawInvitation(p) ==
    /\ At(p, "withdraw")
    /\ invitations' = deleteInvitation(call[p].inv)
    /\ Respond(p)
    /\ UNCHANGED <<users, identity_index, bootstrapped, seen>>
    /\ OnlyD1

(***************************************************************************)
(* The maintenance run (src/maintenance/run.ts)                            *)
(***************************************************************************)
\* The rows of a listing are handled one by one; a run whose first call comes
\* late stands for one that had others to handle first.
CronIdle == [pc |-> "idle", uid |-> None, pairs |-> {}]

CronType == [pc: {"idle", "dropOld", "init", "link", "activate", "revoke", "destroy", "drop"},
             uid: Optional(Uids), pairs: SUBSET Pairs]

OnlyCron == UNCHANGED <<call, minted>>

\* listUsers({status: "creating", created_before}) and, for a row of it, the
\* choice between repairing and, past CREATING_DELETE_AFTER_SECONDS, dropping.
\* Creators may be slow: either limit may have passed at any time.
listCreating(pc) == \E u \in Uids :
    /\ cron = CronIdle
    /\ users[u].status = "creating"
    /\ cron' = [cron EXCEPT !.pc = pc, !.uid = u]
    /\ UNCHANGED <<d1, object, seen>>
    /\ OnlyCron

dropCreating ==
    /\ cron.pc = "dropOld"
    /\ deleteUserRow(cron.uid)
    /\ seen' = [seen EXCEPT !.freed = TRUE]
    /\ cron' = CronIdle
    /\ UNCHANGED <<bootstrapped, object>>
    /\ OnlyCron

\* repairCreating: the object is initialised from the row ...
repairInit ==
    /\ cron.pc = "init"
    /\ IF InitOk(cron.uid)
       THEN object' = insertUser(cron.uid, {}) /\ cron' = [cron EXCEPT !.pc = "link"]
       ELSE cron' = CronIdle /\ UNCHANGED object
    /\ UNCHANGED <<d1, seen>>
    /\ OnlyCron

\* ... the pairs the index claims for it are read ...
repairIdentities ==
    /\ cron.pc = "link"
    /\ cron' = [cron EXCEPT !.pc = "activate", !.pairs = identitiesOfUser(cron.uid)]
    /\ UNCHANGED <<d1, object, seen>>
    /\ OnlyCron

\* ... and linked, one by one; an object that refuses ends the repair ...
repairLink == \E x \in cron.pairs :
    /\ cron.pc = "activate"
    /\ IF Guard(cron.uid)
       THEN /\ object' = [object EXCEPT ![cron.uid].identities = @ \union {x}]
            /\ cron' = [cron EXCEPT !.pairs = @ \ {x}]
       ELSE cron' = CronIdle /\ UNCHANGED object
    /\ UNCHANGED <<d1, seen>>
    /\ OnlyCron

\* ... and the row is activated, whatever its status is by now.
repairActivate ==
    /\ cron.pc = "activate" /\ cron.pairs = {}
    /\ users' = setUserStatus(cron.uid, "active")
    /\ cron' = CronIdle
    /\ UNCHANGED <<identity_index, invitations, bootstrapped, object, seen>>
    /\ OnlyCron

\* listUsers({status: "deleting"}): a deletion left half way is finished as the
\* request would have.
listDeleting == \E u \in Uids :
    /\ cron = CronIdle
    /\ users[u].status = "deleting"
    /\ cron' = [cron EXCEPT !.pc = "revoke", !.uid = u]
    /\ UNCHANGED <<d1, object, seen>>
    /\ OnlyCron

finishRevoke ==
    /\ cron.pc = "revoke"
    /\ object' = setDisabled(cron.uid, TRUE)
    /\ cron' = [cron EXCEPT !.pc = "destroy"]
    /\ UNCHANGED <<d1, seen>>
    /\ OnlyCron

\* Mutant: the row is left behind.
finishDestroyOnly ==
    /\ cron.pc = "destroy"
    /\ object' = destroy(cron.uid)
    /\ cron' = CronIdle
    /\ UNCHANGED <<d1, seen>>
    /\ OnlyCron

finishDestroy ==
    /\ cron.pc = "destroy"
    /\ object' = destroy(cron.uid)
    /\ cron' = [cron EXCEPT !.pc = "drop"]
    /\ UNCHANGED <<d1, seen>>
    /\ OnlyCron

finishDrop ==
    /\ cron.pc = "drop"
    /\ deleteUserRow(cron.uid)
    /\ seen' = [seen EXCEPT !.freed = TRUE]
    /\ cron' = CronIdle
    /\ UNCHANGED <<bootstrapped, object>>
    /\ OnlyCron

(***************************************************************************)
(* The platform                                                            *)
(***************************************************************************)
\* The instance of an object is dropped from memory; its storage stays.
Evict == \E u \in Uids :
    /\ object[u].destroyed
    /\ object' = [object EXCEPT ![u].destroyed = FALSE]
    /\ UNCHANGED <<d1, call, cron, minted, seen>>

(***************************************************************************)
(* The specification                                                       *)
(***************************************************************************)
\* Nobody yet, or one active user with any login methods.
Init ==
    /\ \/ /\ users = [u \in Uids |-> Absent]
          /\ identity_index = [x \in Pairs |-> None]
          /\ object = [u \in Uids |-> Empty]
          /\ minted = {}
       \/ \E u \in {CHOOSE u \in Uids : TRUE}, held \in SUBSET Pairs :
          /\ users = [v \in Uids |-> IF v = u THEN [Absent EXCEPT !.status = "active"] ELSE Absent]
          /\ identity_index = [x \in Pairs |-> IF x \in held THEN u ELSE None]
          /\ object = [v \in Uids |-> IF v = u THEN [Empty EXCEPT !.live = TRUE, !.identities = held]
                                               ELSE Empty]
          /\ minted = {u}
    /\ \E first \in {NoInvitation, [NoInvitation EXCEPT !.state = "open"]} :
          invitations = [[i \in Invs |-> NoInvitation] EXCEPT ![CHOOSE i \in Invs : TRUE] = first]
    /\ bootstrapped = FALSE
    /\ call = [p \in Procs |-> Idle]
    /\ cron = CronIdle
    /\ seen = [invited |-> {}, handed |-> {}, doomed |-> {}, freed |-> FALSE]

CreateNext(p) == createUserHandler(p) \/ importUsersHandler(p) \/ createUsers(p)
                 \/ initialize(p) \/ activate(p) \/ inviteImported(p)

RegisterNext(p) == registerVerifyHandler(p) \/ recoverVerifyHandler(p) \/ consumeInvitation(p)
                   \/ recoverAccount(p)

FederateNext(p) == resolveAccount(p) \/ touchIdentity(p)
                   \/ releaseUnconfirmed(p) \/ resolveByEmail(p)

LinkNext(p) == linkIdentity(p) \/ insertIdentityStatement(p) \/ addIdentity(p)
               \/ deleteIdentityHandler(p) \/ removeIdentity(p) \/ releasePair(p)

AdminNext(p) == setDisabledHandler(p) \/ setUserDisabled(p) \/ mirrorDisabled(p)
                \/ deleteUserHandler(p) \/ markDeleting(p) \/ revokeDeleted(p)
                \/ destroyDeleted(p) \/ dropDeleted(p)

BootstrapNext(p) == bootstrapHandler(p) \/ bootstrapInvitation(p) \/ claimBootstrap(p)
                    \/ withdrawInvitation(p)

InvitationNext(p) == createInvitationHandler(p) \/ createRecoverInvitationHandler(p)
                     \/ deleteInvitationHandler(p)

runMaintenance == listCreating("init") \/ listCreating("dropOld") \/ dropCreating \/ repairInit \/ repairIdentities
                  \/ repairLink \/ repairActivate
                  \/ listDeleting \/ finishRevoke \/ finishDestroy \/ finishDrop

Next ==
    \/ \E p \in Procs : CreateNext(p) \/ RegisterNext(p) \/ FederateNext(p) \/ LinkNext(p)
                        \/ AdminNext(p) \/ BootstrapNext(p) \/ InvitationNext(p)
    \/ runMaintenance
    \/ Evict

\* The cron is scheduled for ever, and a row that stays `creating` grows old;
\* no request need ever finish.
Fairness == WF_vars(runMaintenance) /\ SF_vars(listCreating("dropOld"))

Spec == Init /\ [][Next]_vars /\ Fairness

(***************************************************************************)
(* Properties                                                              *)
(***************************************************************************)
\* The types of the variables.
TypeOK ==
    /\ users \in [Uids -> UserRow]
    /\ identity_index \in [Pairs -> Optional(Uids)]
    /\ invitations \in [Invs -> InvitationRow]
    /\ bootstrapped \in BOOLEAN
    /\ object \in [Uids -> UserObject]
    /\ call \in [Procs -> Call]
    /\ cron \in CronType
    /\ minted \subseteq Uids

\* TIO-REG-002: two concurrent registrations with the same invitation yield one
\* account, whichever of register/verify and the federation callback they come
\* through and wherever a request stops.
InvitationYieldsOneAccount ==
    \A i \in Invs : Cardinality({u \in Uids : <<i, u>> \in seen.invited}) <= 1

\* The order of src/users/create.ts and of the repair: a user the API shows has
\* an object behind it, unless a deletion of that user has begun.
VisibleUserHasObject ==
    \A u \in Uids : users[u].status \in {"active", "disabled"} /\ u \notin seen.doomed => object[u].live

\* TIO-ADMIN-010: of any number of concurrent bootstraps one answers 201 with
\* an invitation, and a loser withdraws an invitation that was not handed out.
BootstrapOnce ==
    /\ \A i, j \in seen.handed : i = j
    /\ \A p \in Procs : At(p, "withdraw") => bootstrapped /\ call[p].inv \notin seen.handed

\* TIO-FED-041, uniqueness claim first: creations, links and repairs of one
\* upstream identity, in any order, leave it with one account, as long as no
\* index row has been released or dropped.
PairHeldOnce ==
    ~seen.freed =>
        \A x \in Pairs : Cardinality({u \in Uids : x \in object[u].identities}) <= 1

\* src/maintenance/run.ts: no row stays `creating` or `deleting`; whatever
\* request left it, the cron repairs, drops or finishes it.
TransientSettles ==
    \A u \in Uids : users[u].status \in {"creating", "deleting"}
                        ~> users[u].status \in {"absent", "active", "disabled"}
=============================================================================
