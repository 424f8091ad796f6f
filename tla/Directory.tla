------------------------------ MODULE Directory ------------------------------
(***************************************************************************)
(* What a user's object says and what D1 says of it.  The object (UserDO)  *)
(* is authoritative for the groups and the verified email in the claims;   *)
(* D1 mirrors both, in group_members and in the users row, and owns the    *)
(* groups themselves (src/users/groups.ts, src/users/admin.ts,             *)
(* src/admin/groups.ts).  Every change writes the object first and the     *)
(* mirror in a later call, most of them after reading the object in an     *)
(* earlier one; renaming or deleting a group walks the objects of its      *)
(* members.  `reindex` rebuilds the mirror from the object.                *)
(* One step is one call to D1 or to an object.  A process serves one       *)
(* request.  `torn` collects the users the operator has to reindex: a      *)
(* request failed half way on them, or two requests overlapped on them.    *)
(***************************************************************************)
EXTENDS Naturals, FiniteSets, Functions

CONSTANTS
    Procs,      \* requests
    Users,      \* users, all of them active
    Gids,       \* ids of groups
    SystemGid,  \* the id of the system group
    Names,      \* group names
    Emails,     \* normalised emails
    PROPAGATION_LIMIT,
    None        \* null

VARIABLES
    groups,         \* D1 `groups`: id -> name, None when there is no row
    group_members,  \* D1 `group_members`
    mirror,         \* D1 `users`: the verified email of each row
    object,         \* the UserDO of every user
    call,           \* the request of each process
    torn            \* history: users whose mirror is not to be relied on

d1 == <<groups, group_members, mirror>>
vars == <<d1, object, call, torn>>

Optional(S) == S \union {None}

UserObject == [groups: SUBSET Names, email: Optional(Emails)]

(***************************************************************************)
(* Tables                                                                  *)
(***************************************************************************)
\* groupIdsByName and getGroupByName.
groupIdsByName(names) == {g \in Gids : groups[g] \in names}

memberUserIds(g) == {u \in Users : <<g, u>> \in group_members}

groupNamesOfUser(u) == {groups[g] : g \in {h \in Gids : <<h, u>> \in group_members}}

\* The inserts of replaceMembershipStatements and insertMembershipStatement
\* refer to rows of `groups`.
ForeignKey(ids) == \A g \in ids : groups[g] # None

replaceMembership(u, ids) ==
    {m \in group_members : m[2] # u} \union (ids \X {u})

\* The unique index on verified emails.
EmailFree(u, e) == e = None \/ \A v \in Users \ {u} : mirror[v] # e

(***************************************************************************)
(* Requests.  `pc` names the call made next; `list` and `email` are what a *)
(* request read or is to write, `todo` and `read` the members a            *)
(* propagation has still to read and to write, `clash` the users on whom   *)
(* another request overlapped.                                             *)
(***************************************************************************)
Idle == [pc |-> "idle", op |-> "none", user |-> None, gid |-> None, from |-> None,
         to |-> None, list |-> {}, ids |-> {}, email |-> None, todo |-> {},
         read |-> [u \in Users |-> None], clash |-> {}]

Steps == {"read", "setGroups", "mirrorOne", "replace", "ids", "holder", "updateProfile",
          "mirrorProfile", "members", "propagate"}

Ops == {"add", "remove", "patch", "reindex", "rename", "undo", "delete"}

Call == [pc: Steps \union {"idle", "done"}, op: Ops \union {"none"}, user: Optional(Users),
         gid: Optional(Gids), from: Optional(Names), to: Optional(Names),
         list: SUBSET Names, ids: SUBSET Gids, email: Optional(Emails), todo: SUBSET Users,
         read: [Users -> Optional(SUBSET Names)], clash: SUBSET Users]

Touches(c) == IF c.user = None THEN Users ELSE {c.user}

Active(c) == c.pc \notin {"idle", "done"}

\* A request begins: it and the ones under way overlap on the users both touch.
Begin(p, pc, c) ==
    /\ call[p].pc = "idle"
    /\ LET common(q) == IF q # p /\ Active(call[q]) THEN Touches(c) \intersect Touches(call[q]) ELSE {}
       IN  call' = [q \in Procs |->
                      IF q = p THEN [c EXCEPT !.pc = pc, !.clash = UNION {common(r) : r \in Procs}]
                               ELSE [call[q] EXCEPT !.clash = @ \union common(q)]]

At(p, pc) == call[p].pc = pc

Goto(p, pc) == call' = [call EXCEPT ![p].pc = pc]

Done == [Idle EXCEPT !.pc = "done"]

\* A request ends; `broken` are users on whom it failed.
End(p, broken) ==
    /\ call' = [call EXCEPT ![p] = Done]
    /\ torn' = torn \union call[p].clash \union broken

Respond(p) == End(p, {})

(***************************************************************************)
(* One user's memberships (addMembership, removeMembership)                *)
(***************************************************************************)
\* PUT and DELETE /admin/groups/{id}/members/{user_id}: the group is loaded.
membershipHandler(p) == \E u \in Users, g \in Gids, op \in {"add", "remove"} :
    /\ groups[g] # None
    /\ Begin(p, "read", [Idle EXCEPT !.op = op, !.user = u, !.gid = g, !.from = groups[g]])
    /\ UNCHANGED <<d1, object, torn>>

\* getProfile: the list the next one is computed from.
readList(p) == LET c == call[p] held == object[c.user].groups IN
    /\ At(p, "read")
    /\ call' = [call EXCEPT ![p].pc = IF (c.from \in held) = (c.op = "add") THEN "mirrorOne" ELSE "setGroups",
                            ![p].list = IF c.op = "add" THEN held \union {c.from} ELSE held \ {c.from}]
    /\ UNCHANGED <<d1, object, torn>>

\* UserDO.setGroups, for a membership and for PATCH /admin/users/{id}.
setGroups(p) == LET c == call[p] IN
    /\ At(p, "setGroups")
    /\ object' = [object EXCEPT ![c.user].groups = c.list]
    /\ call' = [call EXCEPT ![p].pc = IF c.op = "patch" THEN "replace" ELSE "mirrorOne", ![p].list = {}]
    /\ UNCHANGED <<d1, torn>>

\* insertMembershipStatement and deleteMembership.
mirrorMembership(p) == LET c == call[p] IN
    /\ At(p, "mirrorOne")
    /\ \/ /\ c.op = "add" /\ ForeignKey({c.gid})
          /\ group_members' = group_members \union {<<c.gid, c.user>>}
          /\ Respond(p)
       \/ /\ c.op = "add" /\ ~ForeignKey({c.gid})
          /\ End(p, {c.user})
          /\ UNCHANGED group_members
       \/ /\ c.op = "remove"
          /\ group_members' = group_members \ {<<c.gid, c.user>>}
          /\ Respond(p)
    /\ UNCHANGED <<groups, mirror, object>>

(***************************************************************************)
(* PATCH /admin/users/{id} (setUserGroups, then updateUserProfile)         *)
(***************************************************************************)
\* The names given are looked up; an unknown one is refused.
setUserGroups(p) == \E u \in Users, list \in SUBSET {groups[g] : g \in {h \in Gids : groups[h] # None}} :
    /\ Begin(p, "setGroups", [Idle EXCEPT !.op = "patch", !.user = u, !.list = list,
                                          !.ids = groupIdsByName(list)])
    /\ UNCHANGED <<d1, object, torn>>

\* replaceMembershipStatements, one batch; the profile may follow, even when the
\* batch failed.
replaceMemberships(p) == LET c == call[p]
                             broken == IF ForeignKey(c.ids) THEN {} ELSE {c.user} IN
    /\ At(p, "replace") /\ c.op = "patch"
    /\ group_members' = IF broken = {} THEN replaceMembership(c.user, c.ids) ELSE group_members
    /\ \/ End(p, broken)
       \/ \E e \in Optional(Emails) :
            /\ call' = [call EXCEPT ![p].pc = "holder", ![p].ids = {}, ![p].email = e]
            /\ torn' = torn \union broken
    /\ UNCHANGED <<groups, mirror, object>>

\* PATCH of the profile alone, by an administrator or by the user: `email` is
\* the verified email the profile will have.
patchProfileHandler(p) == \E u \in Users, e \in Optional(Emails) :
    /\ Begin(p, "holder", [Idle EXCEPT !.op = "patch", !.user = u, !.email = e])
    /\ UNCHANGED <<d1, object, torn>>

\* findVerifiedUser: the email of somebody else is refused.
findVerifiedUser(p) == LET c == call[p] IN
    /\ At(p, "holder")
    /\ IF EmailFree(c.user, c.email)
       THEN Goto(p, "updateProfile") /\ UNCHANGED torn
       ELSE Respond(p)
    /\ UNCHANGED <<d1, object>>

updateProfile(p) == LET c == call[p] IN
    /\ At(p, "updateProfile")
    /\ object' = [object EXCEPT ![c.user].email = c.email]
    /\ Goto(p, "mirrorProfile")
    /\ UNCHANGED <<d1, torn>>

\* Mutant: the failure of the second write is not reported.
mirrorProfileSilently(p) == LET c == call[p] IN
    /\ At(p, "mirrorProfile")
    /\ mirror' = IF EmailFree(c.user, c.email) THEN [mirror EXCEPT ![c.user] = c.email] ELSE mirror
    /\ Respond(p)
    /\ UNCHANGED <<groups, group_members, object>>

\* updateUserMirrorStatement: the unique index may refuse it.
mirrorProfile(p) == LET c == call[p] IN
    /\ At(p, "mirrorProfile")
    /\ IF EmailFree(c.user, c.email)
       THEN mirror' = [mirror EXCEPT ![c.user] = c.email] /\ Respond(p)
       ELSE End(p, {c.user}) /\ UNCHANGED mirror
    /\ UNCHANGED <<groups, group_members, object>>

(***************************************************************************)
(* POST /admin/users/{id}/reindex (reindexUser)                            *)
(***************************************************************************)
reindexUser(p) == \E u \in Users :
    /\ Begin(p, "ids", [Idle EXCEPT !.op = "reindex", !.user = u, !.list = object[u].groups,
                                    !.email = object[u].email])
    /\ UNCHANGED <<d1, object, torn>>

reindexIds(p) ==
    /\ At(p, "ids")
    /\ call' = [call EXCEPT ![p].pc = "replace", ![p].ids = groupIdsByName(call[p].list)]
    /\ UNCHANGED <<d1, object, torn>>

\* The batch.  The operator relies on the mirror again when nothing overlapped
\* and the report names no unknown group.
reindexBatch(p) == LET c == call[p] IN
    /\ At(p, "replace") /\ c.op = "reindex"
    /\ \/ /\ ForeignKey(c.ids) /\ EmailFree(c.user, c.email)
          /\ group_members' = replaceMembership(c.user, c.ids)
          /\ mirror' = [mirror EXCEPT ![c.user] = c.email]
          /\ call' = [call EXCEPT ![p] = Done]
          /\ torn' = IF c.clash = {} /\ Cardinality(c.ids) = Cardinality(c.list)
                     THEN torn \ {c.user} ELSE torn \union c.clash
       \/ /\ ~(ForeignKey(c.ids) /\ EmailFree(c.user, c.email))
          /\ End(p, {c.user})
          /\ UNCHANGED <<group_members, mirror>>
    /\ UNCHANGED <<groups, object>>

(***************************************************************************)
(* Groups (src/admin/groups.ts)                                            *)
(***************************************************************************)
\* POST /admin/groups: the unique index on names decides.
createGroupHandler(p) == \E g \in Gids, n \in Names :
    /\ At(p, "idle")
    /\ groups[g] = None
    /\ groups' = IF groupIdsByName({n}) = {} THEN [groups EXCEPT ![g] = n] ELSE groups
    /\ call' = [call EXCEPT ![p] = Done]
    /\ UNCHANGED <<group_members, mirror, object, torn>>

\* PATCH /admin/groups/{id} with a new name that no group has.
patchGroupHandler(p) == \E g \in Gids \ {SystemGid}, n \in Names :
    /\ groups[g] \notin {None, n}
    /\ groupIdsByName({n}) = {}
    /\ Begin(p, "members", [Idle EXCEPT !.op = "rename", !.gid = g, !.from = groups[g], !.to = n])
    /\ UNCHANGED <<d1, object, torn>>

\* DELETE /admin/groups/{id}.
deleteGroupHandler(p) == \E g \in Gids \ {SystemGid} :
    /\ groups[g] # None
    /\ Begin(p, "members", [Idle EXCEPT !.op = "delete", !.gid = g, !.from = groups[g]])
    /\ UNCHANGED <<d1, object, torn>>

rewrite(c, list) == IF c.from \in list THEN (list \ {c.from}) \union ({c.to} \ {None}) ELSE list

\* propagateToMembers: the members are listed ...
listMembers(p) == LET members == memberUserIds(call[p].gid) IN
    /\ At(p, "members")
    /\ IF Cardinality(members) > PROPAGATION_LIMIT
       THEN Respond(p)
       ELSE call' = [call EXCEPT ![p].pc = "propagate", ![p].todo = members] /\ UNCHANGED torn
    /\ UNCHANGED <<d1, object>>

\* ... each one's list is read, and left alone when nothing changes in it ...
readMember(p) == \E u \in call[p].todo : LET held == object[u].groups IN
    /\ At(p, "propagate")
    /\ call' = [call EXCEPT ![p].todo = @ \ {u},
                            ![p].read[u] = IF rewrite(call[p], held) = held THEN None ELSE held]
    /\ UNCHANGED <<d1, object, torn>>

\* ... and written; a member whose object fails is reported.
writeMember(p) == \E u \in {v \in Users : call[p].read[v] # None} :
    /\ At(p, "propagate")
    /\ call' = [call EXCEPT ![p].read[u] = None]
    /\ \/ /\ object' = [object EXCEPT ![u].groups = rewrite(call[p], call[p].read[u])]
          /\ UNCHANGED torn
       \/ /\ torn' = torn \union {u}
          /\ UNCHANGED object
    /\ UNCHANGED d1

Propagated(p) ==
    /\ At(p, "propagate")
    /\ call[p].todo = {} /\ \A u \in Users : call[p].read[u] = None

\* Mutant: a refused rename leaves the members with the new name.
updateGroupForward(p) == LET c == call[p] IN
    /\ Propagated(p) /\ c.op = "rename"
    /\ groups' = IF groups[c.gid] # None /\ groupIdsByName({c.to}) \ {c.gid} = {}
                 THEN [groups EXCEPT ![c.gid] = c.to] ELSE groups
    /\ Respond(p)
    /\ UNCHANGED <<group_members, mirror, object>>

\* updateGroup.  A name taken since the check sends the members their old name.
updateGroup(p) == LET c == call[p] IN
    /\ Propagated(p) /\ c.op = "rename"
    /\ \/ /\ groups[c.gid] # None /\ groupIdsByName({c.to}) \ {c.gid} = {}
          /\ groups' = [groups EXCEPT ![c.gid] = c.to]
          /\ Respond(p)
       \/ /\ groups[c.gid] # None /\ groupIdsByName({c.to}) \ {c.gid} # {}
          /\ call' = [call EXCEPT ![p].op = "undo", ![p].pc = "members", ![p].from = c.to, ![p].to = c.from]
          /\ UNCHANGED <<groups, torn>>
       \/ /\ groups[c.gid] = None
          /\ Respond(p)
          /\ UNCHANGED groups
    /\ UNCHANGED <<group_members, mirror, object>>

undone(p) ==
    /\ Propagated(p) /\ call[p].op = "undo"
    /\ Respond(p)
    /\ UNCHANGED <<d1, object>>

\* deleteGroup: the memberships cascade.
deleteGroup(p) == LET c == call[p] IN
    /\ Propagated(p) /\ c.op = "delete"
    /\ groups' = [groups EXCEPT ![c.gid] = None]
    /\ group_members' = {m \in group_members : m[1] # c.gid}
    /\ Respond(p)
    /\ UNCHANGED <<mirror, object>>

\* A call threw or the isolate is gone.
Stop(p) ==
    /\ Active(call[p])
    /\ End(p, Touches(call[p]))
    /\ UNCHANGED <<d1, object>>

(***************************************************************************)
(* The specification                                                       *)
(***************************************************************************)
\* The system group and others, and an id not yet used; any objects that name groups
\* and have no verified email in common.  The memberships D1 lists of one user
\* may have drifted.
Init ==
    /\ groups = CHOOSE f \in Injection(Gids, Optional(Names)) : f[SystemGid] # None /\ None \in Range(f)
    /\ object \in [Users -> [groups: SUBSET (Range(groups) \ {None}), email: Optional(Emails)]]
    /\ mirror = [u \in Users |-> object[u].email]
    /\ \A u, v \in Users : u # v => mirror[u] = None \/ mirror[u] # mirror[v]
    /\ \E u \in Users, ids \in SUBSET {g \in Gids : groups[g] # None} :
         group_members = {m \in Gids \X Users : IF m[2] = u THEN m[1] \in ids
                                                ELSE groups[m[1]] \in object[m[2]].groups}
    /\ call = [p \in Procs |-> Idle]
    /\ torn = {u \in Users : groupNamesOfUser(u) # object[u].groups}

UserNext(p) == membershipHandler(p) \/ readList(p) \/ setGroups(p) \/ mirrorMembership(p)
               \/ setUserGroups(p) \/ replaceMemberships(p) \/ patchProfileHandler(p)
               \/ findVerifiedUser(p) \/ updateProfile(p) \/ mirrorProfile(p)
               \/ reindexUser(p) \/ reindexIds(p) \/ reindexBatch(p)

GroupNext(p) == createGroupHandler(p) \/ patchGroupHandler(p) \/ deleteGroupHandler(p)
                \/ listMembers(p) \/ readMember(p) \/ writeMember(p) \/ updateGroup(p)
                \/ undone(p) \/ deleteGroup(p)

Next == \E p \in Procs : UserNext(p) \/ GroupNext(p) \/ Stop(p)

Spec == Init /\ [][Next]_vars

(***************************************************************************)
(* Properties                                                              *)
(***************************************************************************)
\* The types of the variables.
TypeOK ==
    /\ groups \in [Gids -> Optional(Names)]
    /\ group_members \subseteq Gids \X Users
    /\ mirror \in [Users -> Optional(Emails)]
    /\ object \in [Users -> UserObject]
    /\ call \in [Procs -> Call]
    /\ torn \subseteq Users

\* TIO-DATA-013 and TIO-DATA-027: for a user no unfinished request touches, and
\* on whom nothing failed or overlapped since an un-overlapped reindex, D1 lists
\* exactly the groups in the claims and the verified email of the object,
\* through any renames, refused renames and deletions of groups.
MirrorAgrees ==
    \A u \in Users : u \notin torn /\ (\A p \in Procs : Active(call[p]) => u \notin Touches(call[p])) =>
        /\ groupNamesOfUser(u) = object[u].groups
        /\ mirror[u] = object[u].email

\* TIO-DATA-006: two objects have the same verified email only while a request
\* is under way on one of them or after a failure the operator was told of,
\* however two updates race between the check and the unique index.
VerifiedEmailOnce ==
    \A u, v \in Users : u # v /\ object[u].email = object[v].email /\ object[u].email # None =>
        \/ {u, v} \intersect torn # {}
        \/ \E p \in Procs : Active(call[p]) /\ {u, v} \intersect Touches(call[p]) # {}
=============================================================================
