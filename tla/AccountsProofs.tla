--------------------------- MODULE AccountsProofs ---------------------------
(***************************************************************************)
(* Proofs about Accounts, for any number of requests, users, upstream      *)
(* identities and invitations.  The invariant has a part for each of the   *)
(* four properties:                                                        *)
(*   - InvitedInv: a request that is about to claim an account with an     *)
(*     invitation holds an invitation that is used, that yielded nothing   *)
(*     and that no other request holds;                                    *)
(*   - BootInv: a bootstrap holds an invitation of its own;                *)
(*   - VisibleInv: whoever is about to make a row visible has seen its     *)
(*     object, and whoever destroys an object has doomed its user;         *)
(*   - PairInv: while no index row was released, an identity is in an      *)
(*     object, or on its way there, only under its index row.              *)
(***************************************************************************)
EXTENDS Accounts, FiniteSetTheorems, TLAPS

SeenType == [invited: SUBSET (Optional(Invs) \X Optional(Uids)), handed: SUBSET Optional(Invs),
             doomed: SUBSET Optional(Uids), freed: BOOLEAN]

TypeInv == TypeOK /\ seen \in SeenType

-----------------------------------------------------------------------------
Claims(p, i) == call[p].pc = "claim" /\ call[p].inv = i

\* The invitation of a claim is used, and has yielded no account.
SpentOk(c) == c.pc = "claim" /\ c.inv \in Invs =>
    invitations[c.inv].state = "closed" /\ \A u \in Uids : <<c.inv, u>> \notin seen.invited

InvitedInv ==
    /\ \A i \in Invs, u, v \in Uids : <<i, u>> \in seen.invited /\ <<i, v>> \in seen.invited => u = v
    /\ \A i \in Invs, u \in Uids : <<i, u>> \in seen.invited => invitations[i].state = "closed"
    /\ \A p \in Procs : SpentOk(call[p])
    /\ \A p, q \in Procs, i \in Invs : Claims(p, i) /\ Claims(q, i) => p = q

-----------------------------------------------------------------------------
Holds(p, i) == call[p].pc \in {"claimSetting", "withdraw"} /\ call[p].inv = i

\* The invitation of a bootstrap is there, and has not been handed out.
BootOk(c) == c.pc \in {"claimSetting", "withdraw"} =>
    /\ c.inv \in Invs /\ invitations[c.inv].state # "none" /\ c.inv \notin seen.handed
    /\ c.pc = "withdraw" => bootstrapped

BootInv ==
    /\ \A i, j \in seen.handed : i = j
    /\ seen.handed # {} => bootstrapped
    /\ \A i \in seen.handed : i \in Invs /\ invitations[i].state # "none"
    /\ \A p \in Procs : BootOk(call[p])
    /\ \A p, q \in Procs, i \in Invs : Holds(p, i) /\ Holds(q, i) => p = q

-----------------------------------------------------------------------------
Safe(u) == u \in Uids => object[u].live \/ u \in seen.doomed

\* A request that makes a row visible, or that destroys.
VisibleOk(c) ==
    /\ c.pc \in {"activate", "setStatus"} => Safe(c.uid)
    /\ c.pc \in {"revoke", "destroy", "drop"} => c.uid \in seen.doomed

\* The same of the cron.
RepairOk(c) ==
    /\ c.pc \in {"link", "activate"} => Safe(c.uid)
    /\ c.pc \in {"revoke", "destroy", "drop"} => c.uid \in seen.doomed

VisibleInv ==
    /\ \A u \in Uids : users[u].status \in {"active", "disabled"} => Safe(u)
    /\ \A u \in Uids : users[u].status = "deleting" => u \in seen.doomed
    /\ \A p \in Procs : VisibleOk(call[p])
    /\ RepairOk(cron)

-----------------------------------------------------------------------------
Indexed(x, u) == seen.freed \/ identity_index[x] = u

\* A request about to put an identity into an object.
PairOk(c) ==
    /\ c.pc \in {"claimPair", "addIdentity"} => c.pair \in Pairs
    /\ c.pc \in {"init", "addIdentity"} /\ c.uid \in Uids /\ c.pair \in Pairs =>
           Indexed(c.pair, c.uid)

\* The cron about to do so.
PairsOk(c) == c.pc = "activate" /\ c.uid \in Uids => \A x \in c.pairs : Indexed(x, c.uid)

PairInv ==
    /\ \A u \in Uids, x \in Pairs : x \in object[u].identities => Indexed(x, u)
    /\ \A p \in Procs : PairOk(call[p])
    /\ PairsOk(cron)

Inv == TypeInv /\ InvitedInv /\ BootInv /\ VisibleInv /\ PairInv

-----------------------------------------------------------------------------
(* How a request moves.                                                    *)

\* Only the request of p moves.
Only(p) == call' \in [Procs -> Call] /\ \A q \in Procs : q # p => call'[q] = call[q]

\* A step the properties do not depend on.
Harmless(c) ==
    /\ c.pc \notin {"init", "activate", "setStatus", "revoke", "destroy", "drop", "addIdentity",
                    "claimSetting", "withdraw"}
    /\ c.pc = "claim" => c.inv = None
    /\ c.pc = "claimPair" => c.pair \in Pairs

\* A request ends.
LEMMA RespondMoves ==
    ASSUME TypeInv, NEW p \in Procs, Respond(p)
    PROVE  Only(p) /\ call'[p].pc = "done" /\ Harmless(call'[p])
<1>1. PICK d : d = [Idle EXCEPT !.pc = "done"]
  BY Zenon
<1>2. d = [pc |-> "done", op |-> "none", uid |-> None, pair |-> None, inv |-> None, admin |-> FALSE]
  BY Zenon, <1>1 DEF Idle
<1>3. d \in Call /\ d.pc = "done"
  BY <1>2 DEF Call, Optional
<1>4. call \in [Procs -> Call] /\ call' = [call EXCEPT ![p] = d]
  BY Zenon, <1>1 DEF Respond, TypeInv, TypeOK
<1>5. Only(p) /\ call'[p] = d
  BY Zenon, <1>3, <1>4 DEF Only
<1> QED  BY <1>3, <1>5 DEF Harmless

\* A request goes on to its next call.
LEMMA GotoMoves ==
    ASSUME TypeInv, NEW p \in Procs, NEW x \in Steps, Goto(p, x)
    PROVE  /\ Only(p) /\ call'[p].pc = x /\ call'[p].op = call[p].op
           /\ call'[p].uid = call[p].uid /\ call'[p].pair = call[p].pair
           /\ call'[p].inv = call[p].inv
<1>1. PICK d : d = [call[p] EXCEPT !.pc = x]
  BY Zenon
<1>2. call \in [Procs -> Call] /\ call[p] \in Call
  BY Zenon DEF TypeInv, TypeOK
<1>3. /\ d \in Call /\ d.pc = x /\ d.op = call[p].op /\ d.uid = call[p].uid
      /\ d.pair = call[p].pair /\ d.inv = call[p].inv
  BY <1>1, <1>2 DEF Call
<1>4. call' = [call EXCEPT ![p] = d]
  BY Zenon, <1>1 DEF Goto
<1>5. Only(p) /\ call'[p] = d
  BY Zenon, <1>2, <1>3, <1>4 DEF Only
<1> QED  BY Zenon, <1>3, <1>5

\* A request begins.
LEMMA BeginMoves ==
    ASSUME TypeInv, NEW p \in Procs, NEW x \in Steps, NEW c \in Call, Begin(p, x, c)
    PROVE  /\ Only(p) /\ call'[p].pc = x /\ call'[p].uid = c.uid /\ call'[p].pair = c.pair
           /\ call'[p].inv = c.inv
<1>1. PICK d : d = [c EXCEPT !.pc = x]
  BY Zenon
<1>2. call \in [Procs -> Call]
  BY Zenon DEF TypeInv, TypeOK
<1>3. d \in Call /\ d.pc = x /\ d.uid = c.uid /\ d.pair = c.pair /\ d.inv = c.inv
  BY <1>1 DEF Call
<1>4. call' = [call EXCEPT ![p] = d]
  BY Zenon, <1>1 DEF Begin
<1>5. Only(p) /\ call'[p] = d
  BY Zenon, <1>2, <1>3, <1>4 DEF Only
<1> QED  BY Zenon, <1>3, <1>5

\* The record of a request.
LEMMA RequestFields ==
    ASSUME TypeInv, NEW op \in Ops \union {"none"}, NEW u \in Optional(Uids), NEW x \in Optional(Pairs),
           NEW i \in Optional(Invs)
    PROVE  /\ Request(op, u, x, i) \in Call /\ Request(op, u, x, i).op = op
           /\ Request(op, u, x, i).uid = u
           /\ Request(op, u, x, i).pair = x /\ Request(op, u, x, i).inv = i
<1>1. PICK d : d = Request(op, u, x, i)
  OBVIOUS
<1>2. PICK b \in BOOLEAN : b = (i # None /\ invitations[i].admin)
  BY Zenon
<1>3. d = [pc |-> "idle", op |-> op, uid |-> u, pair |-> x, inv |-> i, admin |-> b]
  BY Zenon, <1>1, <1>2 DEF Request, Idle
<1>4. d \in Call /\ d.op = op /\ d.uid = u /\ d.pair = x /\ d.inv = i
  BY <1>3 DEF Call
<1> QED  BY Zenon, <1>1, <1>4

-----------------------------------------------------------------------------
(* What keeps each part of the invariant.                                  *)

\* Invitations only go from none to open to closed.
InvitationsKept ==
    /\ invitations' \in [Invs -> InvitationRow]
    /\ \A i \in Invs : invitations[i].state = "closed" => invitations'[i].state = "closed"
    /\ \A i \in Invs : invitations[i].state # "none" => invitations'[i].state # "none"

\* InvitedInv, when no request comes to claim with an invitation.
LEMMA InvitedKept ==
    ASSUME InvitedInv, InvitationsKept, seen'.invited = seen.invited,
           \A q \in Procs : call'[q] = call[q] \/ call'[q].pc # "claim" \/ call'[q].inv = None
    PROVE  InvitedInv'
<1>1. /\ \A i \in Invs, u, v \in Uids : <<i, u>> \in seen'.invited /\ <<i, v>> \in seen'.invited => u = v
      /\ \A i \in Invs, u \in Uids : <<i, u>> \in seen'.invited => invitations'[i].state = "closed"
  BY Zenon DEF InvitedInv, InvitationsKept
<1>2. None \notin Invs
  BY Zenon, AccountsAssumption
<1>3. \A q \in Procs, i \in Invs : Claims(q, i)' => Claims(q, i)
  BY Zenon, <1>2 DEF Claims
<1>4. ASSUME NEW q \in Procs PROVE SpentOk(call[q])'
  <2>1. SpentOk(call[q])
    BY Zenon DEF InvitedInv
  <2>2. CASE call'[q] = call[q]
    BY Zenon, <2>1, <2>2 DEF SpentOk, InvitationsKept
  <2>3. CASE call'[q].pc # "claim" \/ call'[q].inv = None
    BY Zenon, <1>2, <2>3 DEF SpentOk
  <2> QED  BY Zenon, <2>2, <2>3
<1>5. \A q, r \in Procs, i \in Invs : Claims(q, i)' /\ Claims(r, i)' => q = r
  BY Zenon, <1>3 DEF InvitedInv
<1> QED  BY Zenon, <1>1, <1>4, <1>5 DEF InvitedInv

\* BootInv, when no request comes to hold a bootstrap's invitation.
LEMMA BootKept ==
    ASSUME BootInv, InvitationsKept, seen'.handed = seen.handed, bootstrapped => bootstrapped',
           \A q \in Procs : call'[q] = call[q] \/ call'[q].pc \notin {"claimSetting", "withdraw"}
    PROVE  BootInv'
<1>1. /\ \A i, j \in seen'.handed : i = j
      /\ seen'.handed # {} => bootstrapped'
      /\ \A i \in seen'.handed : i \in Invs /\ invitations'[i].state # "none"
  BY Zenon DEF BootInv, InvitationsKept
<1>2. \A q \in Procs, i \in Invs : Holds(q, i)' => Holds(q, i)
  BY Zenon DEF Holds
<1>3. ASSUME NEW q \in Procs PROVE BootOk(call[q])'
  <2>1. BootOk(call[q])
    BY Zenon DEF BootInv
  <2>2. CASE call'[q] = call[q]
    BY Zenon, <2>1, <2>2 DEF BootOk, InvitationsKept
  <2>3. CASE call'[q].pc \notin {"claimSetting", "withdraw"}
    BY Zenon, <2>3 DEF BootOk
  <2> QED  BY Zenon, <2>2, <2>3
<1>4. \A q, r \in Procs, i \in Invs : Holds(q, i)' /\ Holds(r, i)' => q = r
  BY Zenon, <1>2 DEF BootInv
<1> QED  BY Zenon, <1>1, <1>3, <1>4 DEF BootInv

\* Users stay safe, and a row changes to what its user allows.
SafetyKept ==
    /\ \A u \in Uids : Safe(u) => Safe(u)'
    /\ seen.doomed \subseteq seen'.doomed

RowsKept == \A u \in Uids :
    \/ users'[u].status = users[u].status
    \/ users'[u].status \in {"absent", "creating"}
    \/ users'[u].status \in {"active", "disabled"} /\ Safe(u)'
    \/ users'[u].status = "deleting" /\ u \in seen'.doomed

\* VisibleInv.
LEMMA VisibleKept ==
    ASSUME VisibleInv, SafetyKept, RowsKept,
           \A q \in Procs : call'[q] = call[q] \/ VisibleOk(call[q])',
           cron' = cron \/ RepairOk(cron)'
    PROVE  VisibleInv'
<1>1. \A u : Safe(u) => Safe(u)'
  BY Zenon DEF SafetyKept, Safe
<1>2. \A q \in Procs : VisibleOk(call[q])'
  BY Zenon, <1>1 DEF VisibleOk, VisibleInv, SafetyKept
<1>3. RepairOk(cron)'
  BY Zenon, <1>1 DEF RepairOk, VisibleInv, SafetyKept
<1>4. ASSUME NEW u \in Uids
      PROVE  /\ users'[u].status \in {"active", "disabled"} => Safe(u)'
             /\ users'[u].status = "deleting" => u \in seen'.doomed
  <2>1. /\ users[u].status \in {"active", "disabled"} => Safe(u)
        /\ users[u].status = "deleting" => u \in seen.doomed
    BY Zenon DEF VisibleInv
  <2>2. CASE users'[u].status = users[u].status
    BY Zenon, <1>1, <2>1, <2>2 DEF SafetyKept
  <2>3. CASE users'[u].status # users[u].status
    BY Zenon, <2>3 DEF RowsKept
  <2> QED  BY Zenon, <2>2, <2>3
<1> QED  BY Zenon, <1>2, <1>3, <1>4 DEF VisibleInv

\* Index rows stay, and an identity comes into an object only under one.
PairsKept ==
    /\ \A x \in Pairs, u \in Uids : Indexed(x, u) => Indexed(x, u)'
    /\ \A x \in Pairs, u \in Uids : x \in object'[u].identities => x \in object[u].identities \/ Indexed(x, u)'

\* PairInv.
LEMMA PairKept ==
    ASSUME PairInv, PairsKept, cron \in CronType,
           \A q \in Procs : call'[q] = call[q] \/ PairOk(call[q])',
           cron' = cron \/ PairsOk(cron)'
    PROVE  PairInv'
<1>1. \A u \in Uids, x \in Pairs : x \in object'[u].identities => Indexed(x, u)'
  BY Zenon DEF PairInv, PairsKept
<1>2. \A q \in Procs : PairOk(call[q])'
  BY Zenon DEF PairOk, PairInv, PairsKept
<1>3. cron.pairs \subseteq Pairs
  BY DEF CronType
<1>4. PairsOk(cron)'
  BY Zenon, <1>3 DEF PairsOk, PairInv, PairsKept
<1> QED  BY Zenon, <1>1, <1>2, <1>4 DEF PairInv

\* What the moves of the calls must be for the parts that are not about them.
CallsQuiet ==
    /\ \A q \in Procs : call'[q] = call[q] \/ call'[q].pc # "claim" \/ call'[q].inv = None
    /\ \A q \in Procs : call'[q] = call[q] \/ call'[q].pc \notin {"claimSetting", "withdraw"}
    /\ \A q \in Procs : call'[q] = call[q] \/ VisibleOk(call[q])'
    /\ \A q \in Procs : call'[q] = call[q] \/ PairOk(call[q])'

\* A harmless move is one.
LEMMA HarmlessQuiet ==
    ASSUME NEW p \in Procs, Only(p), Harmless(call'[p])
    PROVE  CallsQuiet
<1>1. \A q \in Procs : call'[q] = call[q] \/ q = p
  BY Zenon DEF Only
<1>2. VisibleOk(call[p])' /\ PairOk(call[p])'
  BY Zenon DEF Harmless, VisibleOk, PairOk
<1>3. /\ call'[p].pc # "claim" \/ call'[p].inv = None
      /\ call'[p].pc \notin {"claimSetting", "withdraw"}
  BY Zenon DEF Harmless
<1> QED  BY Zenon, <1>1, <1>2, <1>3 DEF CallsQuiet

\* So are calls that stay.
LEMMA StillQuiet == ASSUME call' = call PROVE CallsQuiet
BY Zenon DEF CallsQuiet

CronQuiet == cron' = cron \/ (RepairOk(cron)' /\ PairsOk(cron)')

SeenQuiet == seen'.invited = seen.invited /\ seen'.handed = seen.handed

\* A step without a claim and without a bootstrap.
LEMMA StepKept ==
    ASSUME Inv, TypeInv', CallsQuiet, CronQuiet, SeenQuiet, InvitationsKept,
           bootstrapped => bootstrapped', SafetyKept, RowsKept, PairsKept
    PROVE  Inv'
<1>1. InvitedInv'
  BY Zenon, InvitedKept DEF Inv, CallsQuiet, SeenQuiet
<1>2. BootInv'
  BY Zenon, BootKept DEF Inv, CallsQuiet, SeenQuiet
<1>3. VisibleInv'
  BY Zenon, VisibleKept DEF Inv, CallsQuiet, CronQuiet
<1>4. PairInv'
  BY Zenon, PairKept DEF Inv, TypeInv, TypeOK, CallsQuiet, CronQuiet
<1> QED  BY Zenon, <1>1, <1>2, <1>3, <1>4 DEF Inv

-----------------------------------------------------------------------------
(* What stays when a variable stays.                                       *)

\* Invitations.
LEMMA InvitationsStay == ASSUME TypeInv, UNCHANGED invitations PROVE InvitationsKept
BY Zenon DEF InvitationsKept, TypeInv, TypeOK

\* Rows.
LEMMA RowsStay == ASSUME UNCHANGED users PROVE RowsKept
BY Zenon DEF RowsKept

\* Objects that keep their content, and users who are doomed no less.
LEMMA SafetyStays ==
    ASSUME \A u \in Uids : object'[u].live = object[u].live, seen.doomed \subseteq seen'.doomed
    PROVE  SafetyKept
BY Zenon DEF SafetyKept, Safe

\* The index, when nothing is released.
LEMMA PairsStay ==
    ASSUME UNCHANGED identity_index, seen'.freed = seen.freed,
           \A u \in Uids : object'[u].identities \subseteq object[u].identities
    PROVE  PairsKept
BY Zenon DEF PairsKept, Indexed

\* Nothing is asked of the index once something was released.
LEMMA PairsFreed == ASSUME seen'.freed PROVE PairsKept
BY Zenon DEF PairsKept, Indexed

\* The history of what was released.
LEMMA SeenFreed ==
    ASSUME TypeInv, seen' = [seen EXCEPT !.freed = TRUE]
    PROVE  seen' \in SeenType /\ SeenQuiet /\ seen'.doomed = seen.doomed /\ seen'.freed
BY Zenon DEF TypeInv, SeenType, SeenQuiet

\* The history that stays.
LEMMA SeenStays ==
    ASSUME TypeInv, UNCHANGED seen
    PROVE  seen' \in SeenType /\ SeenQuiet /\ seen'.doomed = seen.doomed /\ seen'.freed = seen.freed
BY Zenon DEF TypeInv, SeenQuiet

\* A step of a request that changes nothing but its call and the ids handed out.
LEMMA QuietKeeps ==
    ASSUME Inv, NEW p \in Procs, Only(p), Harmless(call'[p]), UNCHANGED <<d1, object, cron, seen>>,
           minted' \subseteq Uids
    PROVE  Inv'
<1>1. TypeInv /\ UNCHANGED <<users, identity_index, invitations, bootstrapped, object, cron, seen>>
  BY Zenon DEF Inv, d1
<1>2. TypeInv'
  BY Zenon, <1>1 DEF TypeInv, TypeOK, Only
<1>3. CallsQuiet /\ CronQuiet /\ SeenQuiet /\ InvitationsKept /\ RowsKept
  BY Zenon, <1>1, HarmlessQuiet, SeenStays, InvitationsStay, RowsStay DEF CronQuiet
<1>4. SafetyKept
  BY Zenon, <1>1, SafetyStays
<1>5. PairsKept
  BY Zenon, <1>1, PairsStay
<1> QED  BY Zenon, <1>1, <1>2, <1>3, <1>4, <1>5, StepKept

-----------------------------------------------------------------------------
(* What the statements and the methods do.                                 *)

\* UPDATE of a status.
LEMMA StatusSet ==
    ASSUME TypeInv, NEW u, NEW s \in UserStatus, users' = setUserStatus(u, s)
    PROVE  /\ users' \in [Uids -> UserRow]
           /\ \A v \in Uids : users'[v].status = users[v].status \/ (v = u /\ users'[v].status = s)
<1>1. users \in [Uids -> UserRow]
  BY Zenon DEF TypeInv, TypeOK
<1>2. PICK r : r = IF users[u] = Absent THEN users[u] ELSE [users[u] EXCEPT !.status = s]
  BY Zenon
<1>3. users' = [users EXCEPT ![u] = r]
  BY Zenon, <1>2 DEF setUserStatus
<1>4. CASE u \in Uids
  <2>1. r \in UserRow /\ (r.status = users[u].status \/ r.status = s)
    BY <1>1, <1>2, <1>4 DEF UserRow, UserStatus
  <2> QED  BY Zenon, <1>1, <1>3, <2>1
<1>5. CASE u \notin Uids
  BY Zenon, <1>1, <1>3, <1>5
<1> QED  BY Zenon, <1>4, <1>5

\* A closed invitation.
LEMMA ClosedRow == Closed \in InvitationRow /\ Closed.state = "closed"
<1>1. PICK n : n = NoInvitation
  OBVIOUS
<1>2. n \in InvitationRow
  BY <1>1 DEF InvitationRow, NoInvitation, Optional
<1>3. Closed = [n EXCEPT !.state = "closed"]
  BY Zenon, <1>1 DEF Closed
<1> QED  BY <1>2, <1>3 DEF InvitationRow

\* DELETE of a row.
LEMMA RowDropped ==
    ASSUME TypeInv, NEW u, deleteUserRow(u)
    PROVE  /\ users' \in [Uids -> UserRow] /\ identity_index' \in [Pairs -> Optional(Uids)]
           /\ RowsKept /\ InvitationsKept
<1>1. /\ users \in [Uids -> UserRow] /\ identity_index \in [Pairs -> Optional(Uids)]
      /\ invitations \in [Invs -> InvitationRow]
  BY Zenon DEF TypeInv, TypeOK
<1>2. Absent \in UserRow /\ Absent.status = "absent"
  BY DEF Absent, UserRow
<1>3. users' \in [Uids -> UserRow] /\ \A v \in Uids : users'[v] = Absent \/ users'[v] = users[v]
  BY Zenon, <1>1, <1>2 DEF deleteUserRow
<1>4. RowsKept
  BY Zenon, <1>2, <1>3 DEF RowsKept
<1>5. identity_index' \in [Pairs -> Optional(Uids)]
  BY Zenon, <1>1 DEF deleteUserRow, Optional
<1>7. Closed \in InvitationRow /\ Closed.state = "closed"
  BY Zenon, ClosedRow
<1>8. invitations' \in [Invs -> InvitationRow]
  BY Zenon, <1>1, <1>7 DEF deleteUserRow
<1>9. \A i \in Invs : invitations'[i] = Closed \/ invitations'[i] = invitations[i]
  BY Zenon DEF deleteUserRow
<1>10. InvitationsKept
  BY Zenon, <1>7, <1>8, <1>9 DEF InvitationsKept
<1> QED  BY Zenon, <1>3, <1>4, <1>5, <1>10

\* An invitation is closed.
LEMMA InvitationClosed ==
    ASSUME TypeInv, NEW i, invitations' = [invitations EXCEPT ![i] = Closed]
    PROVE  InvitationsKept /\ (i \in Invs => invitations'[i].state = "closed")
<1>1. invitations \in [Invs -> InvitationRow]
  BY Zenon DEF TypeInv, TypeOK
<1>3. Closed \in InvitationRow /\ Closed.state = "closed"
  BY Zenon, ClosedRow
<1>4. /\ invitations' \in [Invs -> InvitationRow]
      /\ \A j \in Invs : invitations'[j] = Closed \/ invitations'[j] = invitations[j]
      /\ i \in Invs => invitations'[i] = Closed
  BY Zenon, <1>1, <1>3
<1> QED  BY Zenon, <1>3, <1>4 DEF InvitationsKept

\* INSERT of an invitation: its id is a fresh one.
LEMMA InvitationCreated ==
    ASSUME TypeInv, NEW r \in BOOLEAN, NEW a \in BOOLEAN, NEW u \in Optional(Uids),
           createInvitation(r, a, u)
    PROVE  /\ InvitationsKept /\ FreshInvitation \in Invs
           /\ invitations[FreshInvitation].state = "none"
           /\ invitations'[FreshInvitation].state # "none"
<1>1. invitations \in [Invs -> InvitationRow]
  BY Zenon DEF TypeInv, TypeOK
<1>2. \E i \in Invs : invitations[i] = NoInvitation
  BY <1>1 DEF createInvitation, Range
<1>3. PICK i : i = FreshInvitation
  OBVIOUS
<1>4. i \in Invs /\ invitations[i] = NoInvitation
  BY Zenon, <1>2, <1>3 DEF FreshInvitation
<1>5. invitations[i].state = "none"
  BY <1>4 DEF NoInvitation
<1>6. PICK w : w = [state |-> "open", recover |-> r, admin |-> a, user_id |-> u]
  BY Zenon
<1>7. w \in InvitationRow /\ w.state = "open"
  BY <1>6 DEF InvitationRow
<1>8. invitations' = [invitations EXCEPT ![i] = w]
  BY Zenon, <1>3, <1>6 DEF createInvitation
<1>9. /\ invitations' \in [Invs -> InvitationRow] /\ invitations'[i] = w
      /\ \A j \in Invs : j # i => invitations'[j] = invitations[j]
  BY Zenon, <1>1, <1>4, <1>7, <1>8
<1>10. InvitationsKept
  BY Zenon, <1>5, <1>7, <1>9 DEF InvitationsKept
<1> QED  BY Zenon, <1>3, <1>4, <1>5, <1>7, <1>9, <1>10

\* UserDO.setDisabled.
LEMMA ObjectDisabled ==
    ASSUME TypeInv, NEW u, NEW b \in BOOLEAN, object' = setDisabled(u, b)
    PROVE  /\ object' \in [Uids -> UserObject]
           /\ \A v \in Uids : object'[v].live = object[v].live /\ object'[v].identities = object[v].identities
<1>1. object \in [Uids -> UserObject]
  BY Zenon DEF TypeInv, TypeOK
<1>2. PICK o : o = [object[u] EXCEPT !.disabled = b]
  BY Zenon
<1>3. object' = [object EXCEPT ![u] = o] \/ object' = object
  BY Zenon, <1>2 DEF setDisabled
<1>4. u \in Uids => o \in UserObject /\ o.live = object[u].live /\ o.identities = object[u].identities
  BY <1>1, <1>2 DEF UserObject
<1> QED  BY Zenon, <1>1, <1>3, <1>4

\* UserDO.destroy.
LEMMA ObjectDestroyed ==
    ASSUME TypeInv, NEW u, object' = destroy(u)
    PROVE  /\ object' \in [Uids -> UserObject]
           /\ \A v \in Uids : v # u => object'[v].live = object[v].live
           /\ \A v \in Uids : object'[v].identities \subseteq object[v].identities
<1>1. object \in [Uids -> UserObject]
  BY Zenon DEF TypeInv, TypeOK
<1>2. PICK o : o = [Empty EXCEPT !.destroyed = TRUE]
  BY Zenon
<1>3. o = [live |-> FALSE, destroyed |-> TRUE, disabled |-> FALSE, identities |-> {}]
  BY Zenon, <1>2 DEF Empty
<1>4. o \in UserObject /\ o.identities = {}
  BY <1>3 DEF UserObject
<1>5. object' = [object EXCEPT ![u] = o]
  BY Zenon, <1>2 DEF destroy
<1>6. /\ object' \in [Uids -> UserObject] /\ \A v \in Uids : v # u => object'[v] = object[v]
      /\ u \in Uids => object'[u] = o
  BY Zenon, <1>1, <1>4, <1>5
<1> QED  BY Zenon, <1>4, <1>6

\* UserDO.init.
LEMMA ObjectInserted ==
    ASSUME TypeInv, NEW u, NEW I \in SUBSET Pairs, object' = insertUser(u, I)
    PROVE  /\ object' \in [Uids -> UserObject]
           /\ \A v \in Uids : object[v].live \/ v = u => object'[v].live
           /\ \A v \in Uids : v # u => object'[v] = object[v]
           /\ u \in Uids => object'[u].identities \subseteq object[u].identities \union I
<1>1. object \in [Uids -> UserObject]
  BY Zenon DEF TypeInv, TypeOK
<1>2. PICK o : o = [Empty EXCEPT !.live = TRUE, !.identities = I]
  OBVIOUS
<1>3. o = [live |-> TRUE, destroyed |-> FALSE, disabled |-> FALSE, identities |-> I]
  BY Zenon, <1>2 DEF Empty
<1>4. o \in UserObject /\ o.identities = I /\ o.live
  BY <1>3 DEF UserObject
<1>5. \/ object[u].live /\ object' = object
      \/ object' = [object EXCEPT ![u] = o]
  BY Zenon, <1>2 DEF insertUser
<1>6. CASE object[u].live /\ object' = object
  BY Zenon, <1>1, <1>6
<1>7. CASE object' = [object EXCEPT ![u] = o]
  <2>1. /\ object' \in [Uids -> UserObject] /\ \A v \in Uids : v # u => object'[v] = object[v]
        /\ u \in Uids => object'[u] = o
    BY Zenon, <1>1, <1>4, <1>7
  <2> QED  BY Zenon, <1>4, <2>1
<1> QED  BY Zenon, <1>5, <1>6, <1>7

\* An identity is put into an object or taken out.
LEMMA ObjectIdentities ==
    ASSUME TypeInv, NEW u, NEW I \in SUBSET Pairs, object' = [object EXCEPT ![u].identities = I]
    PROVE  /\ object' \in [Uids -> UserObject]
           /\ \A v \in Uids : object'[v].live = object[v].live
           /\ \A v \in Uids : v # u => object'[v] = object[v]
           /\ u \in Uids => object'[u].identities = I
<1>1. object \in [Uids -> UserObject]
  BY Zenon DEF TypeInv, TypeOK
<1>2. PICK o : o = [object[u] EXCEPT !.identities = I]
  BY Zenon
<1>3. object' = [object EXCEPT ![u] = o]
  BY Zenon, <1>2
<1>4. u \in Uids => o \in UserObject /\ o.live = object[u].live /\ o.identities = I
  BY <1>1, <1>2 DEF UserObject
<1>5. /\ object' \in [Uids -> UserObject] /\ \A v \in Uids : v # u => object'[v] = object[v]
      /\ u \in Uids => object'[u] = o
  BY Zenon, <1>1, <1>3, <1>4
<1> QED  BY Zenon, <1>4, <1>5

-----------------------------------------------------------------------------
(* Requests that begin.                                                    *)

\* A request begins, and reads only.
LEMMA BeginKeeps ==
    ASSUME Inv, NEW p \in Procs, NEW c \in Call,
           NEW x \in {"claim", "consume", "email", "touch", "claimPair", "remove", "setDisabled",
                      "mark", "invite"},
           x = "claim" => c.inv = None, x = "claimPair" => c.pair \in Pairs, Begin(p, x, c),
           UNCHANGED <<d1, object, cron, seen>>, minted' \subseteq Uids
    PROVE  Inv'
<1>1. x \in Steps
  BY DEF Steps
<1>2. TypeInv
  BY Zenon DEF Inv
<1>3. Only(p) /\ call'[p].pc = x /\ call'[p].inv = c.inv /\ call'[p].pair = c.pair
  BY Zenon, <1>1, <1>2, BeginMoves
<1>4. Harmless(call'[p])
  BY <1>3 DEF Harmless
<1> QED  BY Zenon, <1>3, <1>4, QuietKeeps

\* Null and every member of a table may be in a request.
LEMMA Optionals ==
    /\ None \in Optional(Uids) /\ None \in Optional(Pairs) /\ None \in Optional(Invs)
    /\ \A u \in Uids : u \in Optional(Uids)
    /\ \A x \in Pairs : x \in Optional(Pairs)
    /\ \A i \in Invs : i \in Optional(Invs)
BY Zenon DEF Optional

\* An imported line with an id.
LEMMA ImportKeeps == ASSUME Inv, NEW p \in Procs, importUsersHandler(p) PROVE Inv'
<1>1. PICK x \in Optional(Pairs), u \in minted : Begin(p, "claim", Request("create", u, x, None))
  BY Zenon DEF importUsersHandler
<1>2. TypeInv /\ minted \subseteq Uids /\ UNCHANGED <<d1, object, cron, seen>> /\ minted' = minted
  BY Zenon DEF importUsersHandler, Inv, TypeInv, TypeOK
<1>3. PICK c : c = Request("create", u, x, None)
  OBVIOUS
<1>4. "create" \in Ops \union {"none"}
  BY DEF Ops
<1>5. c \in Call /\ c.inv = None
  <2>1. u \in Optional(Uids) /\ None \in Optional(Invs)
    BY Zenon, <1>2, Optionals
  <2> QED  BY <1>2, <1>3, <1>4, <2>1, RequestFields
<1> QED  BY Zenon, <1>1, <1>2, <1>3, <1>5, BeginKeeps

\* A recovery.
LEMMA RecoverKeeps == ASSUME Inv, NEW p \in Procs, recoverVerifyHandler(p) PROVE Inv'
<1>1. PICK i \in Invs : Begin(p, "consume", Request("register", invitations[i].user_id, None, i))
  BY Zenon DEF recoverVerifyHandler
<1>2. TypeInv /\ minted \subseteq Uids /\ UNCHANGED <<d1, object, cron, seen>> /\ minted' = minted
  BY Zenon DEF recoverVerifyHandler, Inv, TypeInv, TypeOK
<1>3. invitations[i].user_id \in Optional(Uids)
  BY <1>2 DEF TypeInv, TypeOK, InvitationRow
<1>4. PICK c : c = Request("register", invitations[i].user_id, None, i)
  OBVIOUS
<1>5. "register" \in Ops \union {"none"}
  BY DEF Ops
<1>6. c \in Call
  BY Zenon, <1>2, <1>3, <1>4, <1>5, RequestFields, Optionals
<1> QED  BY Zenon, <1>1, <1>2, <1>4, <1>6, BeginKeeps

\* A federated login looks the identity up.
LEMMA ResolveKeeps == ASSUME Inv, NEW p \in Procs, resolveAccount(p) PROVE Inv'
<1>1. PICK x \in Pairs, i \in Optional(Invs) : lookupIdentity(p, Request("federate", None, x, i))
  BY Zenon DEF resolveAccount
<1>2. TypeInv /\ minted \subseteq Uids /\ UNCHANGED <<d1, object, cron, seen>> /\ minted' = minted
  BY Zenon DEF resolveAccount, Inv, TypeInv, TypeOK
<1>3. PICK c : c = Request("federate", None, x, i)
  OBVIOUS
<1>4. "federate" \in Ops \union {"none"}
  BY DEF Ops
<1>5. c \in Call /\ c.pair = x
  <2>1. None \in Optional(Uids) /\ x \in Optional(Pairs)
    BY Zenon, Optionals
  <2> QED  BY <1>2, <1>3, <1>4, <2>1, RequestFields
<1>6. PICK h : h = identity_index[x]
  OBVIOUS
<1>7. h \in Optional(Uids)
  BY Zenon, <1>2, <1>6 DEF TypeInv, TypeOK
<1>8. PICK d : d = [c EXCEPT !.uid = h]
  BY Zenon
<1>9. d \in Call
  BY <1>5, <1>7, <1>8 DEF Call
<1>10. Begin(p, "email", c) \/ Begin(p, "touch", d)
  BY Zenon, <1>1, <1>3, <1>5, <1>6, <1>8 DEF lookupIdentity
<1> QED  BY Zenon, <1>2, <1>5, <1>9, <1>10, BeginKeeps

\* A link begins.
LEMMA LinkKeeps == ASSUME Inv, NEW p \in Procs, linkIdentity(p) PROVE Inv'
<1>1. PICK u \in Uids, x \in Pairs : Begin(p, "claimPair", Request("link", u, x, None))
  BY Zenon DEF linkIdentity
<1>2. TypeInv /\ minted \subseteq Uids /\ UNCHANGED <<d1, object, cron, seen>> /\ minted' = minted
  BY Zenon DEF linkIdentity, Inv, TypeInv, TypeOK
<1>3. PICK c : c = Request("link", u, x, None)
  OBVIOUS
<1>4. "link" \in Ops \union {"none"}
  BY DEF Ops
<1>5. u \in Optional(Uids) /\ x \in Optional(Pairs) /\ None \in Optional(Invs)
  BY Zenon, Optionals
<1>6. c \in Call /\ c.pair = x
  BY <1>2, <1>3, <1>4, <1>5, RequestFields
<1> QED  BY Zenon, <1>1, <1>2, <1>3, <1>6, BeginKeeps

\* An unlink begins.
LEMMA UnlinkKeeps == ASSUME Inv, NEW p \in Procs, deleteIdentityHandler(p) PROVE Inv'
<1>1. PICK u \in Uids, x \in Pairs, op \in {"unlink", "unlinkSelf"} :
          Begin(p, "remove", Request(op, u, x, None))
  BY Zenon DEF deleteIdentityHandler
<1>2. TypeInv /\ minted \subseteq Uids /\ UNCHANGED <<d1, object, cron, seen>> /\ minted' = minted
  BY Zenon DEF deleteIdentityHandler, Inv, TypeInv, TypeOK
<1>3. PICK c : c = Request(op, u, x, None)
  OBVIOUS
<1>4. op \in Ops \union {"none"}
  BY DEF Ops
<1>5. c \in Call
  BY Zenon, <1>2, <1>3, <1>4, RequestFields, Optionals
<1> QED  BY Zenon, <1>1, <1>2, <1>3, <1>5, BeginKeeps

\* Disabling and enabling begin.
LEMMA DisableKeeps == ASSUME Inv, NEW p \in Procs, setDisabledHandler(p) PROVE Inv'
<1>1. PICK u \in Uids, op \in {"disable", "enable"} :
          Begin(p, "setDisabled", Request(op, u, None, None))
  BY Zenon DEF setDisabledHandler
<1>2. TypeInv /\ minted \subseteq Uids /\ UNCHANGED <<d1, object, cron, seen>> /\ minted' = minted
  BY Zenon DEF setDisabledHandler, Inv, TypeInv, TypeOK
<1>3. PICK c : c = Request(op, u, None, None)
  OBVIOUS
<1>4. op \in Ops \union {"none"}
  BY DEF Ops
<1>5. c \in Call
  BY Zenon, <1>2, <1>3, <1>4, RequestFields, Optionals
<1> QED  BY Zenon, <1>1, <1>2, <1>3, <1>5, BeginKeeps

\* A deletion begins.
LEMMA DeleteKeeps == ASSUME Inv, NEW p \in Procs, deleteUserHandler(p) PROVE Inv'
<1>1. PICK u \in Uids : Begin(p, "mark", Request("delete", u, None, None))
  BY Zenon DEF deleteUserHandler
<1>2. TypeInv /\ minted \subseteq Uids /\ UNCHANGED <<d1, object, cron, seen>> /\ minted' = minted
  BY Zenon DEF deleteUserHandler, Inv, TypeInv, TypeOK
<1>3. PICK c : c = Request("delete", u, None, None)
  OBVIOUS
<1>4. "delete" \in Ops \union {"none"}
  BY DEF Ops
<1>5. c \in Call
  BY Zenon, <1>2, <1>3, <1>4, RequestFields, Optionals
<1> QED  BY Zenon, <1>1, <1>2, <1>3, <1>5, BeginKeeps

\* A bootstrap begins.
LEMMA BootstrapKeeps == ASSUME Inv, NEW p \in Procs, bootstrapHandler(p) PROVE Inv'
<1>1. /\ Begin(p, "invite", Request("bootstrap", None, None, None))
      /\ TypeInv /\ minted \subseteq Uids /\ UNCHANGED <<d1, object, cron, seen>> /\ minted' = minted
  BY Zenon DEF bootstrapHandler, Inv, TypeInv, TypeOK
<1>2. PICK c : c = Request("bootstrap", None, None, None)
  OBVIOUS
<1>3. "bootstrap" \in Ops \union {"none"}
  BY DEF Ops
<1>4. c \in Call
  BY Zenon, <1>1, <1>2, <1>3, RequestFields, Optionals
<1> QED  BY Zenon, <1>1, <1>2, <1>4, BeginKeeps

-----------------------------------------------------------------------------
(* Creation.                                                               *)

\* A new id.
LEMMA MintFresh == ASSUME TypeInv, Mint PROVE minted' \subseteq Uids /\ NextId \in Uids
<1>1. minted \subseteq Uids /\ Uids # minted /\ minted' = minted \union {NextId}
  BY Zenon DEF TypeInv, TypeOK, Mint
<1>2. \E u \in Uids : u \notin minted
  BY Zenon, <1>1
<1>3. NextId \in Uids
  BY Zenon, <1>2 DEF NextId
<1> QED  BY Zenon, <1>1, <1>3

\* The batch that claims: what it does to the tables and to the request.
LEMMA Claimed ==
    ASSUME TypeInv, NEW p \in Procs, NEW c \in Call, ~uniquenessFailure(c),
           users' = [users EXCEPT ![c.uid] = insertUserStatement(c.admin)],
           identity_index' = [x \in Pairs |-> IF x = c.pair THEN c.uid ELSE identity_index[x]],
           seen' = [seen EXCEPT !.invited = @ \union ({c.inv} \ {None}) \X {c.uid}],
           call' = [call EXCEPT ![p] = [Request(c.op, c.uid, c.pair, None) EXCEPT !.pc = "init"]]
    PROVE  /\ users' \in [Uids -> UserRow] /\ RowsKept
           /\ identity_index' \in [Pairs -> Optional(Uids)]
           /\ \A x \in Pairs : identity_index'[x] = identity_index[x]
                               \/ (x = c.pair /\ identity_index[x] = None)
           /\ c.pair \in Pairs => identity_index'[c.pair] = c.uid
           /\ seen' \in SeenType /\ seen'.handed = seen.handed /\ seen'.doomed = seen.doomed
           /\ seen'.freed = seen.freed
           /\ \A i \in Invs, u \in Uids : <<i, u>> \in seen'.invited =>
                  <<i, u>> \in seen.invited \/ (i = c.inv /\ u = c.uid)
           /\ Only(p) /\ call'[p].pc = "init" /\ call'[p].uid = c.uid /\ call'[p].pair = c.pair
<1>1. /\ users \in [Uids -> UserRow] /\ identity_index \in [Pairs -> Optional(Uids)]
      /\ call \in [Procs -> Call] /\ seen \in SeenType
  BY Zenon DEF TypeInv, TypeOK
<1>2. /\ c.op \in Ops \union {"none"} /\ c.uid \in Optional(Uids) /\ c.pair \in Optional(Pairs)
      /\ c.inv \in Optional(Invs) /\ c.admin \in BOOLEAN
  BY DEF Call
<1>3. PICK r : r = insertUserStatement(c.admin)
  OBVIOUS
<1>4. r \in UserRow /\ r.status = "creating"
  BY <1>2, <1>3 DEF insertUserStatement, UserRow, UserStatus
<1>5. users' \in [Uids -> UserRow] /\ \A u \in Uids : users'[u] = users[u] \/ users'[u] = r
  BY Zenon, <1>1, <1>3, <1>4
<1>6. RowsKept
  BY Zenon, <1>4, <1>5 DEF RowsKept
<1>7. identity_index' \in [Pairs -> Optional(Uids)]
  BY Zenon, <1>1, <1>2
<1>8. /\ \A x \in Pairs : identity_index'[x] = identity_index[x] \/ x = c.pair
      /\ c.pair \in Pairs => identity_index'[c.pair] = c.uid
  BY Zenon
<1>9. c.pair \in Pairs => identity_index[c.pair] = None
  BY Zenon, AccountsAssumption DEF uniquenessFailure
<1>10. PICK I : I = seen.invited \union ({c.inv} \ {None}) \X {c.uid}
  BY Zenon
<1>11. I \in SUBSET (Optional(Invs) \X Optional(Uids))
  BY <1>1, <1>2, <1>10 DEF SeenType, Optional
<1>12. seen' = [seen EXCEPT !.invited = I]
  BY Zenon, <1>10
<1>13. /\ seen' \in SeenType /\ seen'.invited = I /\ seen'.handed = seen.handed
       /\ seen'.doomed = seen.doomed /\ seen'.freed = seen.freed
  BY <1>1, <1>11, <1>12 DEF SeenType
<1>14. \A i \in Invs, u \in Uids : <<i, u>> \in I => <<i, u>> \in seen.invited \/ (i = c.inv /\ u = c.uid)
  BY <1>10
<1>15. PICK q : q = Request(c.op, c.uid, c.pair, None)
  OBVIOUS
<1>16. q \in Call /\ q.uid = c.uid /\ q.pair = c.pair
  BY <1>2, <1>15, RequestFields, Optionals
<1>17. PICK d : d = [q EXCEPT !.pc = "init"]
  BY Zenon
<1>18. d \in Call /\ d.pc = "init" /\ d.uid = c.uid /\ d.pair = c.pair
  BY <1>16, <1>17 DEF Call, Steps
<1>19. call' = [call EXCEPT ![p] = d]
  BY Zenon, <1>15, <1>17
<1>20. Only(p) /\ call'[p] = d
  BY Zenon, <1>1, <1>18, <1>19 DEF Only
<1> QED  BY Zenon, <1>5, <1>6, <1>7, <1>8, <1>9, <1>13, <1>14, <1>18, <1>20

\* A claim, by a request that holds no invitation or is alone with it.
LEMMA ClaimKeeps ==
    ASSUME Inv, NEW p \in Procs, NEW c \in Call, claimStatements(p, c), minted' \subseteq Uids,
           c.inv = None \/ (call[p] = c /\ c.pc = "claim")
    PROVE  Inv'
<1>1. TypeInv /\ UNCHANGED <<object, cron>>
  BY Zenon DEF Inv, claimStatements
<1>2. CASE Respond(p) /\ UNCHANGED <<d1, seen>>
  BY Zenon, <1>1, <1>2, RespondMoves, QuietKeeps
<1>3. CASE /\ ~uniquenessFailure(c)
           /\ users' = [users EXCEPT ![c.uid] = insertUserStatement(c.admin)]
           /\ identity_index' = [x \in Pairs |-> IF x = c.pair THEN c.uid ELSE identity_index[x]]
           /\ seen' = [seen EXCEPT !.invited = @ \union ({c.inv} \ {None}) \X {c.uid}]
           /\ call' = [call EXCEPT ![p] = [Request(c.op, c.uid, c.pair, None) EXCEPT !.pc = "init"]]
           /\ UNCHANGED <<invitations, bootstrapped>>
  <2>1. /\ users' \in [Uids -> UserRow] /\ RowsKept
        /\ identity_index' \in [Pairs -> Optional(Uids)]
        /\ \A x \in Pairs : identity_index'[x] = identity_index[x]
                            \/ (x = c.pair /\ identity_index[x] = None)
        /\ c.pair \in Pairs => identity_index'[c.pair] = c.uid
        /\ seen' \in SeenType /\ seen'.handed = seen.handed /\ seen'.doomed = seen.doomed
        /\ seen'.freed = seen.freed
        /\ \A i \in Invs, u \in Uids : <<i, u>> \in seen'.invited =>
               <<i, u>> \in seen.invited \/ (i = c.inv /\ u = c.uid)
        /\ Only(p) /\ call'[p].pc = "init" /\ call'[p].uid = c.uid /\ call'[p].pair = c.pair
    BY Zenon, <1>1, <1>3, Claimed
  <2>2. UNCHANGED <<invitations, bootstrapped, object, cron>>
    BY Zenon, <1>1, <1>3
  <2>3. TypeInv'
    BY Zenon, <1>1, <2>1, <2>2 DEF TypeInv, TypeOK, Only
  <2>4. \A q \in Procs : call'[q] = call[q] \/ (q = p /\ call'[q].pc = "init")
    BY Zenon, <2>1 DEF Only
  <2>5. BootInv'
    <3>1. InvitationsKept /\ seen'.handed = seen.handed /\ BootInv
      BY Zenon, <1>1, <2>1, <2>2, InvitationsStay DEF Inv
    <3>2. \A q \in Procs : call'[q] = call[q] \/ call'[q].pc \notin {"claimSetting", "withdraw"}
      BY Zenon, <2>4
    <3> QED  BY Zenon, <2>2, <3>1, <3>2, BootKept
  <2>6. VisibleInv'
    <3>1. SafetyKept /\ VisibleInv
      BY Zenon, <2>1, <2>2, SafetyStays DEF Inv
    <3>2. \A q \in Procs : call'[q] = call[q] \/ VisibleOk(call[q])'
      BY Zenon, <2>4 DEF VisibleOk
    <3> QED  BY Zenon, <2>1, <2>2, <3>1, <3>2, VisibleKept
  <2>7. PairInv'
    <3>1. None \notin Uids /\ PairInv /\ cron \in CronType
      BY Zenon, AccountsAssumption DEF Inv, TypeInv, TypeOK
    <3>2. \A x \in Pairs, u \in Uids : Indexed(x, u) => Indexed(x, u)'
      BY Zenon, <2>1, <3>1 DEF Indexed
    <3>3. PairsKept
      BY Zenon, <2>2, <3>2 DEF PairsKept
    <3>4. PairOk(call[p])'
      BY Zenon, <2>1 DEF PairOk, Indexed
    <3>5. \A q \in Procs : call'[q] = call[q] \/ PairOk(call[q])'
      BY Zenon, <2>4, <3>4
    <3> QED  BY Zenon, <2>2, <3>1, <3>3, <3>5, PairKept
  <2>8. InvitedInv'
    <3>1. InvitedInv /\ None \notin Invs
      BY Zenon, AccountsAssumption DEF Inv
    <3>2. /\ \A q \in Procs, i \in Invs : Claims(q, i)' => Claims(q, i) /\ q # p
          /\ \A q \in Procs : q # p => call'[q] = call[q]
      BY Zenon, <2>1, <2>4 DEF Claims, Only
    <3>3. c.inv \in Invs => Claims(p, c.inv) /\ SpentOk(call[p]) /\ call[p] = c /\ c.pc = "claim"
      BY Zenon, <3>1 DEF Claims, InvitedInv
    <3>4. c.inv \in Invs => /\ invitations[c.inv].state = "closed"
                            /\ \A u \in Uids : <<c.inv, u>> \notin seen.invited
      BY Zenon, <3>3 DEF SpentOk
    <3>5. \A i \in Invs, u, v \in Uids : <<i, u>> \in seen'.invited /\ <<i, v>> \in seen'.invited => u = v
      <4>1. SUFFICES ASSUME NEW i \in Invs, NEW u \in Uids, NEW v \in Uids,
                            <<i, u>> \in seen'.invited, <<i, v>> \in seen'.invited
                     PROVE  u = v
        OBVIOUS
      <4>2. CASE i = c.inv
        BY Zenon, <2>1, <3>4, <4>1, <4>2
      <4>3. CASE i # c.inv
        BY Zenon, <2>1, <3>1, <4>1, <4>3 DEF InvitedInv
      <4> QED  BY Zenon, <4>2, <4>3
    <3>6. \A i \in Invs, u \in Uids : <<i, u>> \in seen'.invited => invitations'[i].state = "closed"
      BY Zenon, <2>1, <2>2, <3>1, <3>4 DEF InvitedInv
    <3>7. ASSUME NEW q \in Procs PROVE SpentOk(call[q])'
      <4>1. CASE q = p
        BY Zenon, <2>1, <4>1 DEF SpentOk
      <4>2. CASE q # p /\ call[q].pc = "claim" /\ call[q].inv \in Invs
        <5>1. call[q].inv # c.inv
          BY Zenon, <3>1, <3>3, <4>2 DEF InvitedInv, Claims
        <5>2. SpentOk(call[q]) /\ call'[q] = call[q]
          BY Zenon, <3>1, <3>2, <4>2 DEF InvitedInv
        <5> QED  BY Zenon, <2>1, <2>2, <4>2, <5>1, <5>2 DEF SpentOk
      <4>3. CASE q # p /\ ~(call[q].pc = "claim" /\ call[q].inv \in Invs)
        BY Zenon, <3>2, <4>3 DEF SpentOk
      <4> QED  BY Zenon, <4>1, <4>2, <4>3
    <3>8. \A q, r \in Procs, i \in Invs : Claims(q, i)' /\ Claims(r, i)' => q = r
      BY Zenon, <3>1, <3>2 DEF InvitedInv
    <3> QED  BY Zenon, <3>5, <3>6, <3>7, <3>8 DEF InvitedInv
  <2> QED  BY Zenon, <2>3, <2>5, <2>6, <2>7, <2>8 DEF Inv
<1> QED  BY Zenon, <1>2, <1>3 DEF claimStatements

\* The claim of a request that had more to do before it.
LEMMA CreateUsersKeeps == ASSUME Inv, NEW p \in Procs, createUsers(p) PROVE Inv'
<1>1. /\ call[p].pc = "claim" /\ claimStatements(p, call[p]) /\ call[p] \in Call
      /\ minted' \subseteq Uids
  BY Zenon DEF createUsers, At, Inv, TypeInv, TypeOK
<1> QED  BY Zenon, <1>1, ClaimKeeps

\* The claim of POST /admin/users.
LEMMA CreateHandlerKeeps == ASSUME Inv, NEW p \in Procs, createUserHandler(p) PROVE Inv'
<1>1. PICK x \in Optional(Pairs) : Mint /\ claimStatements(p, Request("create", NextId, x, None))
  BY Zenon DEF createUserHandler
<1>2. TypeInv /\ minted' \subseteq Uids /\ NextId \in Uids
  BY Zenon, <1>1, MintFresh DEF Inv
<1>3. PICK u : u = NextId
  OBVIOUS
<1>4. PICK c : c = Request("create", u, x, None)
  OBVIOUS
<1>5. "create" \in Ops \union {"none"}
  BY DEF Ops
<1>6. u \in Optional(Uids) /\ None \in Optional(Invs)
  BY Zenon, <1>2, <1>3, Optionals
<1>7. c \in Call /\ c.inv = None
  BY <1>2, <1>4, <1>5, <1>6, RequestFields
<1>8. claimStatements(p, c)
  BY Zenon, <1>1, <1>3, <1>4
<1> QED  BY Zenon, <1>2, <1>7, <1>8, ClaimKeeps

\* A registration claims at once, or consumes its invitation first.
LEMMA RegisterKeeps == ASSUME Inv, NEW p \in Procs, registerVerifyHandler(p) PROVE Inv'
<1>1. TypeInv /\ minted' \subseteq Uids /\ NextId \in Uids
  BY Zenon, MintFresh DEF Inv, registerVerifyHandler
<1>2. PICK u : u = NextId
  OBVIOUS
<1>3. "register" \in Ops \union {"none"}
  BY DEF Ops
<1>4. u \in Optional(Uids) /\ None \in Optional(Invs) /\ None \in Optional(Pairs)
  BY Zenon, <1>1, <1>2, Optionals
<1>5. CASE claimStatements(p, Request("register", u, None, None))
  <2>1. PICK c : c = Request("register", u, None, None)
    OBVIOUS
  <2>2. c \in Call /\ c.inv = None
    BY <1>1, <1>3, <1>4, <2>1, RequestFields
  <2> QED  BY Zenon, <1>1, <1>5, <2>1, <2>2, ClaimKeeps
<1>6. CASE \E i \in Invs : /\ Begin(p, "consume", Request("register", u, None, i))
                           /\ UNCHANGED <<d1, object, cron, seen>>
  <2>1. PICK i \in Invs : Begin(p, "consume", Request("register", u, None, i))
    BY Zenon, <1>6
  <2>2. i \in Optional(Invs)
    BY Zenon, Optionals
  <2>3. PICK c : c = Request("register", u, None, i)
    OBVIOUS
  <2>4. c \in Call
    BY Zenon, <1>1, <1>3, <1>4, <2>2, <2>3, RequestFields
  <2> QED  BY Zenon, <1>1, <1>6, <2>1, <2>3, <2>4, BeginKeeps
<1> QED  BY Zenon, <1>2, <1>5, <1>6 DEF registerVerifyHandler

\* The object is initialised.
LEMMA InitializeKeeps == ASSUME Inv, NEW p \in Procs, initialize(p) PROVE Inv'
<1>1. /\ TypeInv /\ call[p].pc = "init" /\ call[p] \in Call /\ PairOk(call[p])
      /\ UNCHANGED <<d1, cron, minted, seen>> /\ minted' \subseteq Uids
      /\ UNCHANGED <<users, identity_index, invitations, bootstrapped>>
  BY Zenon DEF initialize, At, OnlyObject, Inv, TypeInv, TypeOK, PairInv, d1
<1>2. CASE Respond(p) /\ UNCHANGED object
  BY Zenon, <1>1, <1>2, RespondMoves, QuietKeeps
<1>3. CASE object' = insertUser(call[p].uid, {call[p].pair} \ {None}) /\ Goto(p, "activate")
  <2>1. PICK u, x : u = call[p].uid /\ x = call[p].pair
    OBVIOUS
  <2>2. u \in Optional(Uids) /\ x \in Optional(Pairs)
    BY <1>1, <2>1 DEF Call
  <2>3. {x} \ {None} \in SUBSET Pairs
    BY Zenon, <2>2 DEF Optional
  <2>4. PICK I : I = {x} \ {None}
    BY Zenon
  <2>5. /\ object' \in [Uids -> UserObject]
        /\ \A v \in Uids : object[v].live \/ v = u => object'[v].live
        /\ \A v \in Uids : v # u => object'[v] = object[v]
        /\ u \in Uids => object'[u].identities \subseteq object[u].identities \union I
    <3>1. object' = insertUser(u, I) /\ I \in SUBSET Pairs
      BY Zenon, <1>3, <2>1, <2>3, <2>4
    <3> QED  BY Zenon, <1>1, <3>1, ObjectInserted
  <2>6. Only(p) /\ call'[p].pc = "activate" /\ call'[p].uid = u
    <3>1. "activate" \in Steps
      BY DEF Steps
    <3> QED  BY Zenon, <1>1, <1>3, <2>1, <3>1, GotoMoves
  <2>7. TypeInv'
    BY Zenon, <1>1, <2>5, <2>6 DEF TypeInv, TypeOK, Only
  <2>8. VisibleOk(call[p])' /\ PairOk(call[p])'
    BY Zenon, <2>5, <2>6 DEF VisibleOk, PairOk, Safe
  <2>9. CallsQuiet
    BY Zenon, <2>6, <2>8 DEF CallsQuiet, Only
  <2>10. CronQuiet /\ SeenQuiet /\ InvitationsKept /\ RowsKept
    BY Zenon, <1>1, SeenStays, InvitationsStay, RowsStay DEF CronQuiet
  <2>11. SafetyKept
    BY Zenon, <1>1, <2>5 DEF SafetyKept, Safe
  <2>12. \A y \in Pairs, v \in Uids : Indexed(y, v) <=> Indexed(y, v)'
    BY Zenon, <1>1 DEF Indexed
  <2>13. u \in Uids => \A y \in I : y \in Pairs => Indexed(y, u)
    BY Zenon, <1>1, <2>1, <2>4 DEF PairOk
  <2>14. PairsKept
    BY Zenon, <2>5, <2>12, <2>13 DEF PairsKept
  <2> QED  BY Zenon, <1>1, <2>7, <2>9, <2>10, <2>11, <2>14, StepKept
<1> QED  BY Zenon, <1>2, <1>3 DEF initialize

\* A row becomes what its user allows; the request goes on or ends.
LEMMA StatusKeeps ==
    ASSUME Inv, NEW u, NEW s \in {"active", "disabled"}, users' = setUserStatus(u, s), Safe(u),
           call' \in [Procs -> Call], CallsQuiet, cron' \in CronType, CronQuiet,
           UNCHANGED <<identity_index, invitations, bootstrapped, seen, object, minted>>
    PROVE  Inv'
<1>1. TypeInv /\ s \in UserStatus
  BY DEF Inv, UserStatus
<1>2. /\ users' \in [Uids -> UserRow]
      /\ \A v \in Uids : users'[v].status = users[v].status \/ (v = u /\ users'[v].status = s)
  BY Zenon, <1>1, StatusSet
<1>3. TypeInv'
  BY Zenon, <1>1, <1>2 DEF TypeInv, TypeOK
<1>4. Safe(u)'
  BY Zenon DEF Safe
<1>5. RowsKept
  BY Zenon, <1>2, <1>4 DEF RowsKept
<1>6. SeenQuiet /\ InvitationsKept
  BY Zenon, <1>1, SeenStays, InvitationsStay
<1>7. SafetyKept
  BY Zenon, SafetyStays
<1>8. PairsKept
  BY Zenon, PairsStay
<1> QED  BY Zenon, <1>3, <1>5, <1>6, <1>7, <1>8, StepKept

\* The row becomes visible.
LEMMA ActivateKeeps == ASSUME Inv, NEW p \in Procs, activate(p) PROVE Inv'
<1>1. /\ TypeInv /\ VisibleOk(call[p]) /\ call[p].pc = "activate"
      /\ users' = setUserStatus(call[p].uid, "active") /\ cron \in CronType
      /\ UNCHANGED <<identity_index, invitations, bootstrapped, seen, object, cron, minted>>
  BY Zenon DEF activate, At, OnlyD1, Inv, TypeInv, TypeOK, VisibleInv
<1>2. Safe(call[p].uid)
  BY Zenon, <1>1 DEF VisibleOk
<1>3. "setDisabled" \in Steps /\ "invite" \in Steps
  BY DEF Steps
<1>4. Only(p) /\ Harmless(call'[p])
  <2>1. CASE Respond(p)
    BY Zenon, <1>1, <2>1, RespondMoves
  <2>2. ASSUME NEW pc \in {"setDisabled", "invite"}, Goto(p, pc) PROVE Only(p) /\ Harmless(call'[p])
    <3>1. Only(p) /\ call'[p].pc = pc
      BY Zenon, <1>1, <1>3, <2>2, GotoMoves
    <3> QED  BY Zenon, <3>1 DEF Harmless
  <2> QED  BY Zenon, <2>1, <2>2 DEF activate
<1>5. CallsQuiet /\ CronQuiet /\ call' \in [Procs -> Call]
  BY Zenon, <1>1, <1>4, HarmlessQuiet DEF CronQuiet, Only
<1> QED  BY Zenon, <1>1, <1>2, <1>5, StatusKeeps

-----------------------------------------------------------------------------
(* Invitations.                                                            *)

\* A step that changes only the calls and the invitations.
LEMMA InvitingKeeps ==
    ASSUME Inv, NEW p \in Procs, Only(p), Harmless(call'[p]), InvitationsKept,
           UNCHANGED <<users, identity_index, bootstrapped, seen, object, cron, minted>>
    PROVE  Inv'
<1>1. TypeInv
  BY Zenon DEF Inv
<1>2. TypeInv'
  BY Zenon, <1>1 DEF TypeInv, TypeOK, Only, InvitationsKept
<1>3. CallsQuiet /\ CronQuiet /\ SeenQuiet /\ RowsKept
  BY Zenon, <1>1, HarmlessQuiet, SeenStays, RowsStay DEF CronQuiet
<1>4. SafetyKept
  BY Zenon, SafetyStays
<1>5. PairsKept
  BY Zenon, PairsStay
<1> QED  BY Zenon, <1>2, <1>3, <1>4, <1>5, StepKept

\* The conditional UPDATE: the invitation that is consumed was open, so nobody
\* holds it.
LEMMA ConsumeKeeps == ASSUME Inv, NEW p \in Procs, consumeInvitation(p) PROVE Inv'
<1>1. PICK i : i = call[p].inv
  OBVIOUS
<1>2. /\ TypeInv /\ call[p].pc = "consume" /\ call[p] \in Call /\ call \in [Procs -> Call]
      /\ UNCHANGED <<users, identity_index, bootstrapped, seen, object, cron, minted>>
  BY Zenon DEF consumeInvitation, At, OnlyD1, Inv, TypeInv, TypeOK
<1>3. CASE Respond(p) /\ UNCHANGED invitations
  BY Zenon, <1>2, <1>3, RespondMoves, InvitationsStay, InvitingKeeps
<1>4. CASE Consumable(i) /\ invitations' = [invitations EXCEPT ![i] = Closed]
  <2>1. InvitationsKept /\ (i \in Invs => invitations'[i].state = "closed")
    BY Zenon, <1>2, <1>4, InvitationClosed
  <2>2. CASE call' = [call EXCEPT ![p].pc = "recover", ![p].inv = None]
    <3>1. PICK d : d = [call[p] EXCEPT !.pc = "recover", !.inv = None]
      OBVIOUS
    <3>2. d \in Call /\ d.pc = "recover"
      BY Zenon, <1>2, <3>1 DEF Call, Steps, Optional
    <3>3. call' = [call EXCEPT ![p] = d]
      BY Zenon, <1>2, <2>2, <3>1
    <3>4. Only(p) /\ call'[p] = d
      BY Zenon, <1>2, <3>2, <3>3 DEF Only
    <3>5. Harmless(call'[p])
      BY Zenon, <3>2, <3>4 DEF Harmless
    <3> QED  BY Zenon, <1>2, <2>1, <3>4, <3>5, InvitingKeeps
  <2>3. CASE Goto(p, "claim")
    <3>1. Only(p) /\ call'[p].pc = "claim" /\ call'[p].inv = i
      <4>1. "claim" \in Steps
        BY DEF Steps
      <4> QED  BY Zenon, <1>1, <1>2, <2>3, <4>1, GotoMoves
    <3>2. TypeInv'
      BY Zenon, <1>2, <2>1, <3>1 DEF TypeInv, TypeOK, Only, InvitationsKept
    <3>3. \A q \in Procs : call'[q] = call[q] \/ (q = p /\ call'[q].pc = "claim")
      BY Zenon, <3>1 DEF Only
    <3>4. BootInv'
      <4>1. \A q \in Procs : call'[q] = call[q] \/ call'[q].pc \notin {"claimSetting", "withdraw"}
        BY Zenon, <3>3
      <4> QED  BY Zenon, <1>2, <2>1, <4>1, BootKept DEF Inv
    <3>5. VisibleInv'
      <4>1. \A q \in Procs : call'[q] = call[q] \/ VisibleOk(call[q])'
        BY Zenon, <3>3 DEF VisibleOk
      <4>2. SafetyKept /\ RowsKept
        BY Zenon, <1>2, SafetyStays, RowsStay
      <4> QED  BY Zenon, <1>2, <4>1, <4>2, VisibleKept DEF Inv
    <3>6. PairInv'
      <4>1. \A q \in Procs : call'[q] = call[q] \/ PairOk(call[q])'
        BY Zenon, <3>3 DEF PairOk
      <4>2. PairsKept /\ cron \in CronType
        BY Zenon, <1>2, PairsStay DEF TypeInv, TypeOK
      <4> QED  BY Zenon, <1>2, <4>1, <4>2, PairKept DEF Inv
    <3>7. InvitedInv'
      <4>1. InvitedInv
        BY Zenon DEF Inv
      <4>2. i \in Invs => invitations[i].state # "closed"
        BY <1>4 DEF Consumable
      <4>3. i \in Invs => /\ \A u \in Uids : <<i, u>> \notin seen.invited
                          /\ \A q \in Procs : ~Claims(q, i)
        BY Zenon, <4>1, <4>2 DEF InvitedInv, SpentOk, Claims
      <4>4. /\ \A j \in Invs, u, v \in Uids : <<j, u>> \in seen'.invited /\ <<j, v>> \in seen'.invited => u = v
            /\ \A j \in Invs, u \in Uids : <<j, u>> \in seen'.invited => invitations'[j].state = "closed"
        BY Zenon, <1>2, <2>1, <4>1 DEF InvitedInv, InvitationsKept
      <4>5. ASSUME NEW q \in Procs PROVE SpentOk(call[q])'
        <5>1. CASE q = p
          BY Zenon, <1>2, <2>1, <3>1, <4>3, <5>1 DEF SpentOk
        <5>2. CASE q # p
          <6>1. call'[q] = call[q] /\ SpentOk(call[q])
            BY Zenon, <3>1, <4>1, <5>2 DEF Only, InvitedInv
          <6> QED  BY Zenon, <1>2, <2>1, <6>1 DEF SpentOk, InvitationsKept
        <5> QED  BY Zenon, <5>1, <5>2
      <4>6. \A q \in Procs, j \in Invs : Claims(q, j)' => (q = p /\ j = i) \/ Claims(q, j)
        BY Zenon, <3>1 DEF Claims, Only
      <4>7. \A q, r \in Procs, j \in Invs : Claims(q, j)' /\ Claims(r, j)' => q = r
        BY Zenon, <4>1, <4>3, <4>6 DEF InvitedInv
      <4> QED  BY Zenon, <4>4, <4>5, <4>7 DEF InvitedInv
    <3> QED  BY Zenon, <3>2, <3>4, <3>5, <3>6, <3>7 DEF Inv
  <2> QED  BY Zenon, <1>1, <1>3, <1>4, <2>2, <2>3 DEF consumeInvitation
<1> QED  BY Zenon, <1>1, <1>3, <1>4 DEF consumeInvitation

\* Recovery reads only.
LEMMA RecoverAccountKeeps == ASSUME Inv, NEW p \in Procs, recoverAccount(p) PROVE Inv'
<1>1. TypeInv /\ UNCHANGED <<d1, object, cron, seen>> /\ minted' \subseteq Uids /\ Respond(p)
  BY Zenon DEF recoverAccount, OnlyObject, Inv, TypeInv, TypeOK
<1> QED  BY Zenon, <1>1, RespondMoves, QuietKeeps

\* POST /admin/invitations and POST /admin/users/{id}/recover.
LEMMA InviteKeeps ==
    ASSUME Inv, NEW p \in Procs, createInvitationHandler(p) \/ createRecoverInvitationHandler(p)
    PROVE  Inv'
<1>1. /\ TypeInv /\ Respond(p)
      /\ UNCHANGED <<users, identity_index, bootstrapped, seen, object, cron, minted>>
  BY Zenon DEF createInvitationHandler, createRecoverInvitationHandler, OnlyD1, Inv
<1>2. PICK r \in BOOLEAN, u \in Optional(Uids) : createInvitation(r, FALSE, u)
  BY Zenon, Optionals DEF createInvitationHandler, createRecoverInvitationHandler
<1>3. InvitationsKept
  BY Zenon, <1>1, <1>2, InvitationCreated
<1> QED  BY Zenon, <1>1, <1>3, RespondMoves, InvitingKeeps

\* The invitation of an imported user.
LEMMA InviteImportedKeeps == ASSUME Inv, NEW p \in Procs, inviteImported(p) PROVE Inv'
<1>1. /\ TypeInv /\ Respond(p) /\ call[p] \in Call
      /\ UNCHANGED <<users, identity_index, bootstrapped, seen, object, cron, minted>>
  BY Zenon DEF inviteImported, OnlyD1, Inv, TypeInv, TypeOK
<1>2. call[p].uid \in Optional(Uids)
  BY <1>1 DEF Call
<1>3. createInvitation(TRUE, FALSE, call[p].uid) \/ UNCHANGED invitations
  BY Zenon DEF inviteImported
<1>4. InvitationsKept
  BY Zenon, <1>1, <1>2, <1>3, InvitationCreated, InvitationsStay
<1> QED  BY Zenon, <1>1, <1>4, RespondMoves, InvitingKeeps

\* An invitation is deleted or expires.
LEMMA DeleteInvitationKeeps ==
    ASSUME Inv, NEW p \in Procs, deleteInvitationHandler(p) \/ withdrawInvitation(p)
    PROVE  Inv'
<1>1. /\ TypeInv /\ Respond(p)
      /\ UNCHANGED <<users, identity_index, bootstrapped, seen, object, cron, minted>>
  BY Zenon DEF deleteInvitationHandler, withdrawInvitation, OnlyD1, Inv
<1>2. PICK i : invitations' = [invitations EXCEPT ![i] = Closed]
  BY Zenon DEF deleteInvitationHandler, withdrawInvitation, deleteInvitation
<1>3. InvitationsKept
  BY Zenon, <1>1, <1>2, InvitationClosed
<1> QED  BY Zenon, <1>1, <1>3, RespondMoves, InvitingKeeps

-----------------------------------------------------------------------------
(* Bootstrap.                                                              *)

\* The parts a step of a bootstrap leaves alone.
LEMMA BootOthers ==
    ASSUME Inv, NEW p \in Procs, Only(p), call'[p].pc \in {"claimSetting", "withdraw", "done"},
           InvitationsKept, seen'.invited = seen.invited, seen'.doomed = seen.doomed,
           seen'.freed = seen.freed, UNCHANGED <<users, identity_index, object, cron>>
    PROVE  InvitedInv' /\ VisibleInv' /\ PairInv'
<1>1. \A q \in Procs : call'[q] = call[q] \/ q = p
  BY Zenon DEF Only
<1>2. InvitedInv'
  <2>1. \A q \in Procs : call'[q] = call[q] \/ call'[q].pc # "claim" \/ call'[q].inv = None
    BY Zenon, <1>1
  <2> QED  BY Zenon, <2>1, InvitedKept DEF Inv
<1>3. VisibleInv'
  <2>1. \A q \in Procs : call'[q] = call[q] \/ VisibleOk(call[q])'
    BY Zenon, <1>1 DEF VisibleOk
  <2>2. SafetyKept /\ RowsKept
    BY Zenon, SafetyStays, RowsStay
  <2> QED  BY Zenon, <2>1, <2>2, VisibleKept DEF Inv
<1>4. PairInv'
  <2>1. \A q \in Procs : call'[q] = call[q] \/ PairOk(call[q])'
    BY Zenon, <1>1 DEF PairOk
  <2>2. PairsKept /\ cron \in CronType
    BY Zenon, PairsStay DEF Inv, TypeInv, TypeOK
  <2> QED  BY Zenon, <2>1, <2>2, PairKept DEF Inv
<1> QED  BY Zenon, <1>2, <1>3, <1>4

\* The invitation of a bootstrap is a fresh one.
LEMMA BootInvitationKeeps == ASSUME Inv, NEW p \in Procs, bootstrapInvitation(p) PROVE Inv'
<1>1. PICK i : i = FreshInvitation
  OBVIOUS
<1>2. /\ TypeInv /\ call[p] \in Call /\ call \in [Procs -> Call] /\ createInvitation(FALSE, TRUE, None)
      /\ call' = [call EXCEPT ![p].pc = "claimSetting", ![p].inv = i]
      /\ UNCHANGED <<users, identity_index, bootstrapped, seen, object, cron, minted>>
  BY Zenon, <1>1 DEF bootstrapInvitation, OnlyD1, Inv, TypeInv, TypeOK
<1>3. InvitationsKept /\ i \in Invs /\ invitations[i].state = "none" /\ invitations'[i].state # "none"
  BY Zenon, <1>1, <1>2, InvitationCreated, Optionals
<1>4. PICK d : d = [call[p] EXCEPT !.pc = "claimSetting", !.inv = i]
  OBVIOUS
<1>5. d \in Call /\ d.pc = "claimSetting" /\ d.inv = i
  BY Zenon, <1>2, <1>3, <1>4 DEF Call, Steps, Optional
<1>6. call' = [call EXCEPT ![p] = d]
  BY Zenon, <1>2, <1>4
<1>7. Only(p) /\ call'[p] = d
  BY Zenon, <1>2, <1>5, <1>6 DEF Only
<1>8. TypeInv'
  BY Zenon, <1>2, <1>3, <1>7 DEF TypeInv, TypeOK, Only, InvitationsKept
<1>9. InvitedInv' /\ VisibleInv' /\ PairInv'
  BY Zenon, <1>2, <1>3, <1>5, <1>7, BootOthers
<1>10. BootInv /\ i \notin seen.handed /\ \A q \in Procs : ~Holds(q, i)
  BY Zenon, <1>3 DEF Inv, BootInv, BootOk, Holds
<1>11. /\ \A j, k \in seen'.handed : j = k
       /\ seen'.handed # {} => bootstrapped'
       /\ \A j \in seen'.handed : j \in Invs /\ invitations'[j].state # "none"
  BY Zenon, <1>2, <1>3, <1>10 DEF BootInv, InvitationsKept
<1>12. ASSUME NEW q \in Procs PROVE BootOk(call[q])'
  <2>1. CASE q = p
    BY <1>2, <1>3, <1>5, <1>7, <1>10, <2>1 DEF BootOk
  <2>2. CASE q # p
    <3>1. call'[q] = call[q] /\ BootOk(call[q])
      BY Zenon, <1>7, <1>10, <2>2 DEF Only, BootInv
    <3> QED  BY Zenon, <1>2, <1>3, <3>1 DEF BootOk, InvitationsKept
  <2> QED  BY Zenon, <2>1, <2>2
<1>13. \A q \in Procs, j \in Invs : Holds(q, j)' => (q = p /\ j = i) \/ Holds(q, j)
  BY Zenon, <1>5, <1>7 DEF Holds, Only
<1>14. \A q, r \in Procs, j \in Invs : Holds(q, j)' /\ Holds(r, j)' => q = r
  BY Zenon, <1>10, <1>13 DEF BootInv
<1>15. BootInv'
  BY Zenon, <1>11, <1>12, <1>14 DEF BootInv
<1> QED  BY Zenon, <1>8, <1>9, <1>15 DEF Inv

\* claimSetting decides.
LEMMA ClaimBootstrapKeeps == ASSUME Inv, NEW p \in Procs, claimBootstrap(p) PROVE Inv'
<1>1. PICK i : i = call[p].inv
  OBVIOUS
<1>2. /\ TypeInv /\ BootInv /\ call[p].pc = "claimSetting" /\ call \in [Procs -> Call] /\ bootstrapped' = TRUE
      /\ UNCHANGED <<users, identity_index, invitations, object, cron, minted>>
  BY Zenon DEF claimBootstrap, At, OnlyD1, Inv, TypeInv, TypeOK
<1>3. InvitationsKept /\ Holds(p, i) /\ BootOk(call[p]) /\ seen \in SeenType
  BY Zenon, <1>1, <1>2, InvitationsStay DEF Holds, BootInv, TypeInv
<1>4. i \in Invs /\ invitations[i].state # "none" /\ i \notin seen.handed
  BY Zenon, <1>1, <1>2, <1>3 DEF BootOk
<1>5. ASSUME seen' \in SeenType, Only(p) PROVE TypeInv'
  BY Zenon, <1>2, <1>5 DEF TypeInv, TypeOK, Only
<1>6. CASE bootstrapped /\ Goto(p, "withdraw") /\ UNCHANGED seen
  <2>1. Only(p) /\ call'[p].pc = "withdraw" /\ call'[p].inv = i
    <3>1. "withdraw" \in Steps
      BY DEF Steps
    <3> QED  BY Zenon, <1>1, <1>2, <1>6, <3>1, GotoMoves
  <2>2. TypeInv'
    BY Zenon, <1>3, <1>5, <1>6, <2>1
  <2>3. InvitedInv' /\ VisibleInv' /\ PairInv'
    BY Zenon, <1>2, <1>3, <1>6, <2>1, BootOthers
  <2>4. /\ \A j, k \in seen'.handed : j = k
        /\ seen'.handed # {} => bootstrapped'
        /\ \A j \in seen'.handed : j \in Invs /\ invitations'[j].state # "none"
    BY Zenon, <1>2, <1>6 DEF BootInv
  <2>5. ASSUME NEW q \in Procs PROVE BootOk(call[q])'
    <3>1. CASE q = p
      BY Zenon, <1>2, <1>4, <1>6, <2>1, <3>1 DEF BootOk
    <3>2. CASE q # p
      <4>1. call'[q] = call[q] /\ BootOk(call[q])
        BY Zenon, <1>2, <2>1, <3>2 DEF Only, BootInv
      <4> QED  BY Zenon, <1>2, <1>6, <4>1 DEF BootOk
    <3> QED  BY Zenon, <3>1, <3>2
  <2>6. \A q \in Procs, j \in Invs : Holds(q, j)' => Holds(q, j)
    BY Zenon, <1>1, <1>2, <2>1 DEF Holds, Only
  <2>7. \A q, r \in Procs, j \in Invs : Holds(q, j)' /\ Holds(r, j)' => q = r
    BY Zenon, <1>2, <2>6 DEF BootInv
  <2>8. BootInv'
    BY Zenon, <2>4, <2>5, <2>7 DEF BootInv
  <2> QED  BY Zenon, <2>2, <2>3, <2>8 DEF Inv
<1>7. CASE ~bootstrapped /\ Respond(p) /\ seen' = [seen EXCEPT !.handed = @ \union {call[p].inv}]
  <2>1. Only(p) /\ call'[p].pc = "done"
    BY Zenon, <1>2, <1>7, RespondMoves
  <2>2. seen.handed = {}
    BY Zenon, <1>2, <1>7 DEF BootInv
  <2>3. PICK H : H = seen.handed \union {i}
    BY Zenon
  <2>4. seen' = [seen EXCEPT !.handed = H] /\ H \in SUBSET Optional(Invs) /\ H = {i}
    BY Zenon, <1>1, <1>4, <1>7, <2>2, <2>3 DEF Optional
  <2>5. /\ seen' \in SeenType /\ seen'.handed = H /\ seen'.invited = seen.invited
        /\ seen'.doomed = seen.doomed /\ seen'.freed = seen.freed
    BY <1>3, <2>4 DEF SeenType
  <2>6. TypeInv'
    BY Zenon, <1>5, <2>1, <2>5
  <2>7. InvitedInv' /\ VisibleInv' /\ PairInv'
    BY Zenon, <1>2, <1>3, <2>1, <2>5, BootOthers
  <2>8. /\ \A j, k \in seen'.handed : j = k
        /\ seen'.handed # {} => bootstrapped'
        /\ \A j \in seen'.handed : j \in Invs /\ invitations'[j].state # "none"
    BY Zenon, <1>2, <1>4, <2>4, <2>5
  <2>9. ASSUME NEW q \in Procs PROVE BootOk(call[q])'
    <3>1. CASE q = p
      BY Zenon, <2>1, <3>1 DEF BootOk
    <3>2. CASE q # p /\ call[q].pc \in {"claimSetting", "withdraw"}
      <4>1. call'[q] = call[q] /\ BootOk(call[q])
        BY Zenon, <1>2, <2>1, <3>2 DEF Only, BootInv
      <4>2. call[q].inv \in Invs /\ Holds(q, call[q].inv)
        BY Zenon, <3>2, <4>1 DEF BootOk, Holds
      <4>3. call[q].inv # i
        BY Zenon, <1>2, <1>3, <3>2, <4>2 DEF BootInv
      <4> QED  BY Zenon, <1>2, <2>4, <2>5, <4>1, <4>3 DEF BootOk
    <3>3. CASE q # p /\ call[q].pc \notin {"claimSetting", "withdraw"}
      BY Zenon, <2>1, <3>3 DEF BootOk, Only
    <3> QED  BY Zenon, <3>1, <3>2, <3>3
  <2>10. \A q \in Procs, j \in Invs : Holds(q, j)' => Holds(q, j)
    BY Zenon, <2>1 DEF Holds, Only
  <2>11. \A q, r \in Procs, j \in Invs : Holds(q, j)' /\ Holds(r, j)' => q = r
    BY Zenon, <1>2, <2>10 DEF BootInv
  <2>12. BootInv'
    BY Zenon, <2>8, <2>9, <2>11 DEF BootInv
  <2> QED  BY Zenon, <2>6, <2>7, <2>12 DEF Inv
<1> QED  BY Zenon, <1>6, <1>7 DEF claimBootstrap

-----------------------------------------------------------------------------
(* Federated login, linking and unlinking.                                 *)

\* The object is asked.
LEMMA TouchKeeps == ASSUME Inv, NEW p \in Procs, touchIdentity(p) PROVE Inv'
<1>1. /\ TypeInv /\ UNCHANGED <<d1, object, cron, seen>> /\ minted' \subseteq Uids
      /\ call \in [Procs -> Call] /\ call[p] \in Call
  BY Zenon DEF touchIdentity, OnlyObject, Inv, TypeInv, TypeOK
<1>2. CASE Respond(p)
  BY Zenon, <1>1, <1>2, RespondMoves, QuietKeeps
<1>3. CASE call' = [call EXCEPT ![p].pc = "release", ![p].uid = None]
  <2>1. PICK d : d = [call[p] EXCEPT !.pc = "release", !.uid = None]
    OBVIOUS
  <2>2. d \in Call /\ d.pc = "release"
    <3>1. PICK c : c = call[p] /\ c \in Call
      BY Zenon, <1>1
    <3>2. d = [c EXCEPT !.pc = "release", !.uid = None]
      BY Zenon, <2>1, <3>1
    <3> QED  BY <3>1, <3>2 DEF Call, Steps, Optional
  <2>3. call' = [call EXCEPT ![p] = d]
    BY Zenon, <1>1, <1>3, <2>1
  <2>4. Only(p) /\ call'[p] = d
    BY Zenon, <1>1, <2>2, <2>3 DEF Only
  <2>5. Harmless(call'[p])
    BY Zenon, <2>2, <2>4 DEF Harmless
  <2> QED  BY Zenon, <1>1, <2>4, <2>5, QuietKeeps
<1> QED  BY Zenon, <1>2, <1>3 DEF touchIdentity

\* An account is proposed, refused or created.
LEMMA EmailKeeps == ASSUME Inv, NEW p \in Procs, resolveByEmail(p) PROVE Inv'
<1>1. /\ TypeInv /\ UNCHANGED <<d1, object, cron, seen>> /\ minted \subseteq Uids
      /\ call \in [Procs -> Call] /\ call[p] \in Call
  BY Zenon DEF resolveByEmail, Inv, TypeInv, TypeOK
<1>2. CASE Respond(p) /\ UNCHANGED minted
  BY Zenon, <1>1, <1>2, RespondMoves, QuietKeeps
<1>3. CASE call[p].inv = None /\ Mint /\ call' = [call EXCEPT ![p].pc = "claim", ![p].uid = NextId]
  <2>1. minted' \subseteq Uids /\ NextId \in Uids
    BY Zenon, <1>1, <1>3, MintFresh
  <2>2. PICK u : u = NextId
    OBVIOUS
  <2>3. PICK d : d = [call[p] EXCEPT !.pc = "claim", !.uid = u]
    OBVIOUS
  <2>4. d \in Call /\ d.pc = "claim" /\ d.inv = None
    <3>1. PICK c : c = call[p] /\ c \in Call /\ c.inv = None /\ u \in Uids
      BY Zenon, <1>1, <1>3, <2>1, <2>2
    <3>2. d = [c EXCEPT !.pc = "claim", !.uid = u]
      BY Zenon, <2>3, <3>1
    <3> QED  BY <3>1, <3>2 DEF Call, Steps, Optional
  <2>5. call' = [call EXCEPT ![p] = d]
    BY Zenon, <1>1, <1>3, <2>2, <2>3
  <2>6. Only(p) /\ call'[p] = d
    BY Zenon, <1>1, <2>4, <2>5 DEF Only
  <2>7. Harmless(call'[p])
    BY Zenon, <2>4, <2>6 DEF Harmless
  <2> QED  BY Zenon, <1>1, <2>1, <2>6, <2>7, QuietKeeps
<1>4. CASE /\ call[p].inv # None /\ Mint
           /\ call' = [call EXCEPT ![p].pc = "consume", ![p].uid = NextId,
                                   ![p].admin = invitations[call[p].inv].admin]
  <2>1. minted' \subseteq Uids /\ NextId \in Uids
    BY Zenon, <1>1, <1>4, MintFresh
  <2>2. call[p].inv \in Invs
    BY <1>1, <1>4 DEF Call, Optional
  <2>3. PICK u, a : u = NextId /\ a = invitations[call[p].inv].admin
    OBVIOUS
  <2>4. a \in BOOLEAN
    BY <1>1, <2>2, <2>3 DEF TypeInv, TypeOK, InvitationRow
  <2>5. PICK d : d = [call[p] EXCEPT !.pc = "consume", !.uid = u, !.admin = a]
    OBVIOUS
  <2>6. d \in Call /\ d.pc = "consume"
    <3>1. PICK c : c = call[p] /\ c \in Call /\ u \in Uids
      BY Zenon, <1>1, <2>1, <2>3
    <3>2. d = [c EXCEPT !.pc = "consume", !.uid = u, !.admin = a]
      BY Zenon, <2>5, <3>1
    <3> QED  BY <2>4, <3>1, <3>2 DEF Call, Steps, Optional
  <2>7. call' = [call EXCEPT ![p] = d]
    BY Zenon, <1>1, <1>4, <2>3, <2>5
  <2>8. Only(p) /\ call'[p] = d
    BY Zenon, <1>1, <2>6, <2>7 DEF Only
  <2>9. Harmless(call'[p])
    BY Zenon, <2>6, <2>8 DEF Harmless
  <2> QED  BY Zenon, <1>1, <2>1, <2>8, <2>9, QuietKeeps
<1> QED  BY Zenon, <1>2, <1>3, <1>4 DEF resolveByEmail

\* An index row is released, whoever holds the pair.
LEMMA ReleaseKeeps ==
    ASSUME Inv, NEW p \in Procs, releaseUnconfirmed(p) \/ releasePair(p)
    PROVE  Inv'
<1>1. PICK x : identity_index' = [identity_index EXCEPT ![x] = None]
  BY Zenon DEF releaseUnconfirmed, releasePair, releaseIdentity
<1>2. /\ TypeInv /\ seen' = [seen EXCEPT !.freed = TRUE]
      /\ UNCHANGED <<users, invitations, bootstrapped, object, cron, minted>>
  BY Zenon DEF releaseUnconfirmed, releasePair, OnlyD1, Inv
<1>3. Only(p) /\ Harmless(call'[p])
  <2>1. CASE Respond(p)
    BY Zenon, <1>2, <2>1, RespondMoves
  <2>2. CASE Goto(p, "email")
    <3>1. "email" \in Steps
      BY DEF Steps
    <3>2. Only(p) /\ call'[p].pc = "email"
      BY Zenon, <1>2, <2>2, <3>1, GotoMoves
    <3> QED  BY Zenon, <3>2 DEF Harmless
  <2> QED  BY Zenon, <2>1, <2>2 DEF releaseUnconfirmed, releasePair
<1>4. seen' \in SeenType /\ SeenQuiet /\ seen'.doomed = seen.doomed /\ seen'.freed
  BY Zenon, <1>2, SeenFreed
<1>5. identity_index' \in [Pairs -> Optional(Uids)]
  BY Zenon, <1>1, <1>2 DEF TypeInv, TypeOK, Optional
<1>6. TypeInv'
  BY Zenon, <1>2, <1>3, <1>4, <1>5 DEF TypeInv, TypeOK, Only
<1>7. CallsQuiet /\ CronQuiet /\ InvitationsKept /\ RowsKept /\ PairsKept
  BY Zenon, <1>2, <1>3, <1>4, HarmlessQuiet, InvitationsStay, RowsStay, PairsFreed DEF CronQuiet
<1>8. SafetyKept
  BY Zenon, <1>2, <1>4, SafetyStays
<1> QED  BY Zenon, <1>2, <1>4, <1>6, <1>7, <1>8, StepKept

\* The INSERT of a link: the pair had no index row.
LEMMA InsertIdentityKeeps == ASSUME Inv, NEW p \in Procs, insertIdentityStatement(p) PROVE Inv'
<1>1. PICK u, x : u = call[p].uid /\ x = call[p].pair
  OBVIOUS
<1>2. /\ TypeInv /\ call[p] \in Call /\ identity_index \in [Pairs -> Optional(Uids)]
      /\ call[p].pc = "claimPair" /\ PairOk(call[p])
      /\ UNCHANGED <<users, invitations, bootstrapped, seen, object, cron, minted>>
      /\ minted' \subseteq Uids
  BY Zenon DEF insertIdentityStatement, At, OnlyD1, Inv, TypeInv, TypeOK, PairInv
<1>3. CASE Respond(p) /\ UNCHANGED identity_index
  BY Zenon, <1>2, <1>3, RespondMoves, QuietKeeps DEF d1
<1>4. CASE /\ identity_index[x] = None /\ identity_index' = [identity_index EXCEPT ![x] = u]
           /\ Goto(p, "addIdentity")
  <2>1. Only(p) /\ call'[p].pc = "addIdentity" /\ call'[p].uid = u /\ call'[p].pair = x
    <3>1. "addIdentity" \in Steps
      BY DEF Steps
    <3> QED  BY Zenon, <1>1, <1>2, <1>4, <3>1, GotoMoves
  <2>2. u \in Optional(Uids)
    BY Zenon, <1>1, <1>2 DEF Call
  <2>3. /\ identity_index' \in [Pairs -> Optional(Uids)]
        /\ x \in Pairs => identity_index'[x] = u
        /\ \A y \in Pairs : y # x => identity_index'[y] = identity_index[y]
    BY Zenon, <1>2, <1>4, <2>2
  <2>4. TypeInv'
    BY Zenon, <1>2, <2>1, <2>3 DEF TypeInv, TypeOK, Only
  <2>5. VisibleOk(call[p])' /\ PairOk(call[p])'
    BY Zenon, <1>1, <1>2, <2>1, <2>3 DEF VisibleOk, PairOk, Indexed
  <2>6. CallsQuiet
    BY Zenon, <2>1, <2>5 DEF CallsQuiet, Only
  <2>7. CronQuiet /\ SeenQuiet /\ InvitationsKept /\ RowsKept
    BY Zenon, <1>2, SeenStays, InvitationsStay, RowsStay DEF CronQuiet
  <2>8. SafetyKept
    BY Zenon, <1>2, SafetyStays
  <2>9. \A y \in Pairs, v \in Uids : Indexed(y, v) => Indexed(y, v)'
    BY Zenon, <1>2, <1>4, <2>3, AccountsAssumption DEF Indexed
  <2>10. PairsKept
    BY Zenon, <1>2, <2>9 DEF PairsKept
  <2> QED  BY Zenon, <1>2, <2>4, <2>6, <2>7, <2>8, <2>10, StepKept
<1> QED  BY Zenon, <1>1, <1>3, <1>4 DEF insertIdentityStatement

\* A step that changes only the identities of objects.
LEMMA IdentitiesKeep ==
    ASSUME Inv, call' \in [Procs -> Call], CallsQuiet, cron' \in CronType, CronQuiet,
           UNCHANGED <<d1, minted, seen>>,
           object' \in [Uids -> UserObject], \A v \in Uids : object'[v].live = object[v].live,
           \A y \in Pairs, v \in Uids :
               y \in object'[v].identities => y \in object[v].identities \/ Indexed(y, v)
    PROVE  Inv'
<1>1. TypeInv /\ UNCHANGED <<users, identity_index, invitations, bootstrapped, seen, minted>>
  BY Zenon DEF Inv, d1
<1>2. TypeInv'
  BY Zenon, <1>1 DEF TypeInv, TypeOK
<1>3. SeenQuiet /\ InvitationsKept /\ RowsKept
  BY Zenon, <1>1, SeenStays, InvitationsStay, RowsStay
<1>4. SafetyKept
  BY Zenon, <1>1, SafetyStays
<1>5. \A y \in Pairs, v \in Uids : Indexed(y, v) => Indexed(y, v)'
  BY Zenon, <1>1 DEF Indexed
<1>6. PairsKept
  BY Zenon, <1>5 DEF PairsKept
<1> QED  BY Zenon, <1>1, <1>2, <1>3, <1>4, <1>6, StepKept

\* The object takes the identity of a link, or refuses.
LEMMA AddIdentityKeeps == ASSUME Inv, NEW p \in Procs, addIdentity(p) PROVE Inv'
<1>1. PICK u, x : u = call[p].uid /\ x = call[p].pair
  OBVIOUS
<1>2. /\ TypeInv /\ call[p] \in Call /\ call[p].pc = "addIdentity" /\ PairOk(call[p])
      /\ UNCHANGED <<d1, cron, minted, seen>> /\ minted' \subseteq Uids /\ cron' \in CronType
      /\ object \in [Uids -> UserObject]
  BY Zenon DEF addIdentity, At, OnlyObject, Inv, TypeInv, TypeOK, PairInv
<1>3. CASE Goto(p, "releasePair") /\ UNCHANGED object
  <2>1. "releasePair" \in Steps
    BY DEF Steps
  <2>2. Only(p) /\ call'[p].pc = "releasePair"
    BY Zenon, <1>2, <1>3, <2>1, GotoMoves
  <2>3. Harmless(call'[p])
    BY Zenon, <2>2 DEF Harmless
  <2> QED  BY Zenon, <1>2, <1>3, <2>2, <2>3, QuietKeeps
<1>4. CASE /\ Guard(u) /\ x \notin object[u].identities
           /\ object' = [object EXCEPT ![u].identities = @ \union {x}] /\ Respond(p)
  <2>1. Only(p) /\ Harmless(call'[p])
    BY Zenon, <1>2, <1>4, RespondMoves
  <2>2. CallsQuiet /\ CronQuiet /\ call' \in [Procs -> Call]
    BY Zenon, <1>2, <2>1, HarmlessQuiet DEF CronQuiet, Only
  <2>3. CASE u \in Uids /\ x \in Pairs
    <3>1. PICK I : I = object[u].identities \union {x}
      BY Zenon
    <3>2. I \in SUBSET Pairs
      BY Zenon, <1>2, <2>3, <3>1 DEF UserObject
    <3>3. object' = [object EXCEPT ![u].identities = I]
      BY Zenon, <1>4, <3>1
    <3>4. /\ object' \in [Uids -> UserObject]
          /\ \A v \in Uids : object'[v].live = object[v].live
          /\ \A v \in Uids : v # u => object'[v] = object[v]
          /\ object'[u].identities = I
      BY Zenon, <1>2, <2>3, <3>2, <3>3, ObjectIdentities
    <3>5. Indexed(x, u)
      BY Zenon, <1>1, <1>2, <2>3 DEF PairOk
    <3>6. \A y \in Pairs, v \in Uids :
              y \in object'[v].identities => y \in object[v].identities \/ Indexed(y, v)
      BY Zenon, <3>1, <3>4, <3>5
    <3> QED  BY Zenon, <1>2, <2>2, <3>4, <3>6, IdentitiesKeep
  <2>4. CASE u \notin Uids
    <3>1. object' = object
      BY Zenon, <1>2, <1>4, <2>4
    <3> QED  BY Zenon, <1>2, <2>1, <3>1, QuietKeeps
  <2>5. x \in Pairs
    BY Zenon, <1>1, <1>2 DEF PairOk
  <2> QED  BY Zenon, <2>3, <2>4, <2>5
<1> QED  BY Zenon, <1>1, <1>3, <1>4 DEF addIdentity

\* The object loses the identity of an unlink.
LEMMA RemoveIdentityKeeps == ASSUME Inv, NEW p \in Procs, removeIdentity(p) PROVE Inv'
<1>1. PICK u, x : u = call[p].uid /\ x = call[p].pair
  OBVIOUS
<1>2. /\ TypeInv /\ UNCHANGED <<d1, cron, minted, seen>> /\ minted' \subseteq Uids /\ cron' \in CronType
      /\ object \in [Uids -> UserObject]
  BY Zenon DEF removeIdentity, OnlyObject, Inv, TypeInv, TypeOK
<1>3. CASE Respond(p) /\ UNCHANGED object
  BY Zenon, <1>2, <1>3, RespondMoves, QuietKeeps
<1>4. CASE object' = [object EXCEPT ![u].identities = @ \ {x}] /\ Goto(p, "releasePair")
  <2>1. "releasePair" \in Steps
    BY DEF Steps
  <2>2. Only(p) /\ call'[p].pc = "releasePair"
    BY Zenon, <1>2, <1>4, <2>1, GotoMoves
  <2>3. Harmless(call'[p])
    BY Zenon, <2>2 DEF Harmless
  <2>4. CallsQuiet /\ CronQuiet /\ call' \in [Procs -> Call]
    BY Zenon, <1>2, <2>2, <2>3, HarmlessQuiet DEF CronQuiet, Only
  <2>5. CASE u \in Uids
    <3>1. PICK I : I = object[u].identities \ {x}
      BY Zenon
    <3>2. I \in SUBSET Pairs
      BY <1>2, <2>5, <3>1 DEF UserObject
    <3>3. object' = [object EXCEPT ![u].identities = I]
      BY Zenon, <1>4, <3>1
    <3>4. /\ object' \in [Uids -> UserObject]
          /\ \A v \in Uids : object'[v].live = object[v].live
          /\ \A v \in Uids : v # u => object'[v] = object[v]
          /\ object'[u].identities = I
      BY Zenon, <1>2, <2>5, <3>2, <3>3, ObjectIdentities
    <3>5. \A y \in Pairs, v \in Uids :
              y \in object'[v].identities => y \in object[v].identities \/ Indexed(y, v)
      BY Zenon, <3>1, <3>4
    <3> QED  BY Zenon, <1>2, <2>4, <3>4, <3>5, IdentitiesKeep
  <2>6. CASE u \notin Uids
    <3>1. object' = object
      BY Zenon, <1>2, <1>4, <2>6
    <3> QED  BY Zenon, <1>2, <2>2, <2>3, <3>1, QuietKeeps
  <2> QED  BY Zenon, <2>5, <2>6
<1> QED  BY Zenon, <1>1, <1>3, <1>4 DEF removeIdentity

-----------------------------------------------------------------------------
(* Disabling, enabling and deleting.                                       *)

\* An object keeps what the properties are about.
LEMMA ObjectsKeep ==
    ASSUME Inv, call' \in [Procs -> Call], CallsQuiet, cron' \in CronType, CronQuiet,
           UNCHANGED <<d1, minted, seen>>, object' \in [Uids -> UserObject],
           \A v \in Uids : object'[v].live = object[v].live /\ object'[v].identities = object[v].identities
    PROVE  Inv'
<1>1. /\ \A v \in Uids : object'[v].live = object[v].live
      /\ \A y \in Pairs, v \in Uids :
             y \in object'[v].identities => y \in object[v].identities \/ Indexed(y, v)
  BY Zenon
<1> QED  BY Zenon, <1>1, IdentitiesKeep

\* The object is disabled or enabled, before the row.
LEMMA SetDisabledKeeps == ASSUME Inv, NEW p \in Procs, setUserDisabled(p) PROVE Inv'
<1>1. PICK u, b : u = call[p].uid /\ b = (call[p].op # "enable")
  OBVIOUS
<1>2. /\ TypeInv /\ UNCHANGED <<d1, cron, minted, seen>> /\ cron' \in CronType
      /\ object' = setDisabled(u, b) /\ b \in BOOLEAN
  BY Zenon, <1>1 DEF setUserDisabled, OnlyObject, Inv, TypeInv, TypeOK
<1>3. /\ object' \in [Uids -> UserObject]
      /\ \A v \in Uids : object'[v].live = object[v].live /\ object'[v].identities = object[v].identities
  BY Zenon, <1>2, ObjectDisabled
<1>4. "setStatus" \in Steps /\ "invite" \in Steps
  BY DEF Steps
<1>5. CallsQuiet /\ call' \in [Procs -> Call]
  <2>1. CASE Respond(p)
    BY Zenon, <1>2, <2>1, RespondMoves, HarmlessQuiet DEF Only
  <2>2. CASE Goto(p, "invite")
    <3>1. Only(p) /\ call'[p].pc = "invite"
      BY Zenon, <1>2, <1>4, <2>2, GotoMoves
    <3>2. Harmless(call'[p])
      BY Zenon, <3>1 DEF Harmless
    <3> QED  BY Zenon, <3>1, <3>2, HarmlessQuiet DEF Only
  <2>3. CASE Guard(u) /\ Goto(p, "setStatus")
    <3>1. Only(p) /\ call'[p].pc = "setStatus" /\ call'[p].uid = u
      BY Zenon, <1>1, <1>2, <1>4, <2>3, GotoMoves
    <3>2. VisibleOk(call[p])' /\ PairOk(call[p])'
      BY Zenon, <1>3, <2>3, <3>1 DEF VisibleOk, PairOk, Safe, Guard
    <3> QED  BY Zenon, <3>1, <3>2 DEF CallsQuiet, Only
  <2> QED  BY Zenon, <1>1, <2>1, <2>2, <2>3 DEF setUserDisabled
<1> QED  BY Zenon, <1>2, <1>3, <1>5, ObjectsKeep DEF CronQuiet

\* The row follows the object.
LEMMA MirrorDisabledKeeps == ASSUME Inv, NEW p \in Procs, mirrorDisabled(p) PROVE Inv'
<1>1. /\ TypeInv /\ VisibleOk(call[p]) /\ call[p].pc = "setStatus" /\ cron' \in CronType
      /\ UNCHANGED <<identity_index, invitations, bootstrapped, seen, object, cron, minted>>
  BY Zenon DEF mirrorDisabled, At, OnlyD1, Inv, TypeInv, TypeOK, VisibleInv
<1>2. PICK s \in {"active", "disabled"} : users' = setUserStatus(call[p].uid, s)
  BY Zenon DEF mirrorDisabled
<1>3. Safe(call[p].uid)
  BY Zenon, <1>1 DEF VisibleOk
<1>4. Only(p) /\ Harmless(call'[p])
  <2>1. CASE Respond(p)
    BY Zenon, <1>1, <2>1, RespondMoves
  <2>2. CASE Goto(p, "invite")
    <3>1. "invite" \in Steps
      BY DEF Steps
    <3>2. Only(p) /\ call'[p].pc = "invite"
      BY Zenon, <1>1, <2>2, <3>1, GotoMoves
    <3> QED  BY Zenon, <3>2 DEF Harmless
  <2> QED  BY Zenon, <2>1, <2>2 DEF mirrorDisabled
<1>5. CallsQuiet /\ CronQuiet /\ call' \in [Procs -> Call]
  BY Zenon, <1>1, <1>4, HarmlessQuiet DEF CronQuiet, Only
<1> QED  BY Zenon, <1>1, <1>2, <1>3, <1>5, StatusKeeps

\* The row goes to `deleting`, and its user is doomed.
LEMMA MarkKeeps == ASSUME Inv, NEW p \in Procs, markDeleting(p) PROVE Inv'
<1>1. PICK u : u = call[p].uid
  OBVIOUS
<1>2. /\ TypeInv /\ users' = setUserStatus(u, "deleting") /\ Goto(p, "revoke") /\ call[p] \in Call
      /\ seen' = [seen EXCEPT !.doomed = @ \union {u}]
      /\ UNCHANGED <<identity_index, invitations, bootstrapped, object, cron, minted>>
  BY Zenon, <1>1 DEF markDeleting, OnlyD1, Inv, TypeInv, TypeOK
<1>3. "deleting" \in UserStatus /\ "revoke" \in Steps /\ u \in Optional(Uids)
  BY <1>1, <1>2 DEF UserStatus, Steps, Call
<1>4. /\ users' \in [Uids -> UserRow]
      /\ \A v \in Uids : users'[v].status = users[v].status \/ (v = u /\ users'[v].status = "deleting")
  BY Zenon, <1>2, <1>3, StatusSet
<1>5. Only(p) /\ call'[p].pc = "revoke" /\ call'[p].uid = u
  BY Zenon, <1>1, <1>2, <1>3, GotoMoves
<1>6. PICK D : D = seen.doomed \union {u}
  BY Zenon
<1>7. seen' = [seen EXCEPT !.doomed = D]
  BY Zenon, <1>2, <1>6
<1>8. /\ seen' \in SeenType /\ SeenQuiet /\ seen'.freed = seen.freed
      /\ seen.doomed \subseteq seen'.doomed /\ u \in seen'.doomed
  BY <1>2, <1>3, <1>6, <1>7 DEF TypeInv, SeenType, SeenQuiet
<1>9. TypeInv'
  BY Zenon, <1>2, <1>4, <1>5, <1>8 DEF TypeInv, TypeOK, Only
<1>10. VisibleOk(call[p])' /\ PairOk(call[p])'
  BY Zenon, <1>5, <1>8 DEF VisibleOk, PairOk
<1>11. CallsQuiet
  BY Zenon, <1>5, <1>10 DEF CallsQuiet, Only
<1>12. CronQuiet /\ InvitationsKept
  BY Zenon, <1>2, InvitationsStay DEF CronQuiet
<1>13. RowsKept
  BY Zenon, <1>4, <1>8 DEF RowsKept
<1>14. SafetyKept
  BY Zenon, <1>2, <1>8, SafetyStays
<1>15. PairsKept
  BY Zenon, <1>2, <1>8, PairsStay
<1> QED  BY Zenon, <1>2, <1>8, <1>9, <1>11, <1>12, <1>13, <1>14, <1>15, StepKept

\* The object is disabled, so that its sessions end.
LEMMA RevokeKeeps == ASSUME Inv, NEW p \in Procs, revokeDeleted(p) PROVE Inv'
<1>1. /\ TypeInv /\ UNCHANGED <<d1, cron, minted, seen>> /\ cron' \in CronType
      /\ object' = setDisabled(call[p].uid, TRUE) /\ Goto(p, "destroy")
      /\ call[p].pc = "revoke" /\ VisibleOk(call[p])
  BY Zenon DEF revokeDeleted, At, OnlyObject, Inv, TypeInv, TypeOK, VisibleInv
<1>2. /\ object' \in [Uids -> UserObject]
      /\ \A v \in Uids : object'[v].live = object[v].live /\ object'[v].identities = object[v].identities
  BY Zenon, <1>1, ObjectDisabled
<1>3. "destroy" \in Steps
  BY DEF Steps
<1>4. Only(p) /\ call'[p].pc = "destroy" /\ call'[p].uid = call[p].uid
  BY Zenon, <1>1, <1>3, GotoMoves
<1>5. VisibleOk(call[p])' /\ PairOk(call[p])'
  BY Zenon, <1>1, <1>4 DEF VisibleOk, PairOk
<1>6. CallsQuiet /\ call' \in [Procs -> Call]
  BY Zenon, <1>4, <1>5 DEF CallsQuiet, Only
<1> QED  BY Zenon, <1>1, <1>2, <1>6, ObjectsKeep DEF CronQuiet

\* An object of a doomed user is destroyed.
LEMMA DestroyedKeep ==
    ASSUME Inv, NEW u, object' = destroy(u), u \in seen.doomed, UNCHANGED <<d1, minted, seen>>,
           call' \in [Procs -> Call], CallsQuiet, cron' \in CronType, CronQuiet
    PROVE  Inv'
<1>1. TypeInv /\ UNCHANGED <<users, identity_index, invitations, bootstrapped, seen, minted>>
  BY Zenon DEF Inv, d1
<1>2. /\ object' \in [Uids -> UserObject]
      /\ \A v \in Uids : v # u => object'[v].live = object[v].live
      /\ \A v \in Uids : object'[v].identities \subseteq object[v].identities
  BY Zenon, <1>1, ObjectDestroyed
<1>3. TypeInv'
  BY Zenon, <1>1, <1>2 DEF TypeInv, TypeOK
<1>4. SeenQuiet /\ InvitationsKept /\ RowsKept
  BY Zenon, <1>1, SeenStays, InvitationsStay, RowsStay
<1>5. SafetyKept
  BY Zenon, <1>1, <1>2 DEF SafetyKept, Safe
<1>6. PairsKept
  BY Zenon, <1>1, <1>2, PairsStay
<1> QED  BY Zenon, <1>1, <1>3, <1>4, <1>5, <1>6, StepKept

\* The request that deletes destroys the object.
LEMMA DestroyKeeps == ASSUME Inv, NEW p \in Procs, destroyDeleted(p) PROVE Inv'
<1>1. /\ TypeInv /\ UNCHANGED <<d1, cron, minted, seen>> /\ cron' \in CronType
      /\ object' = destroy(call[p].uid) /\ Goto(p, "drop")
      /\ call[p].pc = "destroy" /\ VisibleOk(call[p])
  BY Zenon DEF destroyDeleted, At, OnlyObject, Inv, TypeInv, TypeOK, VisibleInv
<1>2. "drop" \in Steps
  BY DEF Steps
<1>3. Only(p) /\ call'[p].pc = "drop" /\ call'[p].uid = call[p].uid
  BY Zenon, <1>1, <1>2, GotoMoves
<1>4. call[p].uid \in seen.doomed
  BY Zenon, <1>1 DEF VisibleOk
<1>5. VisibleOk(call[p])' /\ PairOk(call[p])'
  BY Zenon, <1>1, <1>3, <1>4 DEF VisibleOk, PairOk
<1>6. CallsQuiet /\ call' \in [Procs -> Call] /\ CronQuiet
  BY Zenon, <1>1, <1>3, <1>5 DEF CallsQuiet, Only, CronQuiet
<1> QED  BY Zenon, <1>1, <1>4, <1>6, DestroyedKeep

\* A row goes with everything that references it.
LEMMA DroppedKeep ==
    ASSUME Inv, NEW u, deleteUserRow(u), seen' = [seen EXCEPT !.freed = TRUE],
           UNCHANGED <<bootstrapped, object, minted>>,
           call' \in [Procs -> Call], CallsQuiet, cron' \in CronType, CronQuiet
    PROVE  Inv'
<1>1. TypeInv
  BY Zenon DEF Inv
<1>2. /\ users' \in [Uids -> UserRow] /\ identity_index' \in [Pairs -> Optional(Uids)]
      /\ RowsKept /\ InvitationsKept
  BY Zenon, <1>1, RowDropped
<1>3. seen' \in SeenType /\ SeenQuiet /\ seen'.doomed = seen.doomed /\ seen'.freed
  BY Zenon, <1>1, SeenFreed
<1>4. TypeInv'
  BY Zenon, <1>1, <1>2, <1>3 DEF TypeInv, TypeOK, InvitationsKept
<1>5. SafetyKept
  BY Zenon, <1>3, SafetyStays
<1>6. PairsKept
  BY Zenon, <1>3, PairsFreed
<1> QED  BY Zenon, <1>2, <1>3, <1>4, <1>5, <1>6, StepKept

\* The request that deletes drops the row.
LEMMA DropKeeps == ASSUME Inv, NEW p \in Procs, dropDeleted(p) PROVE Inv'
<1>1. /\ TypeInv /\ deleteUserRow(call[p].uid) /\ seen' = [seen EXCEPT !.freed = TRUE] /\ Respond(p)
      /\ UNCHANGED <<bootstrapped, object, cron, minted>> /\ cron' \in CronType
  BY Zenon DEF dropDeleted, OnlyD1, Inv, TypeInv, TypeOK
<1>2. Only(p) /\ Harmless(call'[p])
  BY Zenon, <1>1, RespondMoves
<1>3. CallsQuiet /\ CronQuiet /\ call' \in [Procs -> Call]
  BY Zenon, <1>1, <1>2, HarmlessQuiet DEF CronQuiet, Only
<1> QED  BY Zenon, <1>1, <1>3, DroppedKeep

-----------------------------------------------------------------------------
(* The maintenance run and the platform.                                   *)

\* A run has nothing more to do.
LEMMA CronEnds == CronIdle \in CronType /\ RepairOk(CronIdle)' /\ PairsOk(CronIdle)'
<1>1. CronIdle \in CronType /\ CronIdle.pc = "idle"
  BY DEF CronIdle, CronType, Optional
<1> QED  BY Zenon, <1>1 DEF RepairOk, PairsOk


\* A step of the cron that changes nothing else.
LEMMA CronKeeps ==
    ASSUME Inv, UNCHANGED <<d1, object, seen>>, OnlyCron, cron' \in CronType, CronQuiet
    PROVE  Inv'
<1>1. TypeInv /\ call' \in [Procs -> Call] /\ CallsQuiet /\ object' \in [Uids -> UserObject]
  BY Zenon, StillQuiet DEF Inv, TypeInv, TypeOK, OnlyCron
<1> QED  BY Zenon, <1>1, ObjectsKeep DEF OnlyCron

\* A row left `creating` is found.
LEMMA ListCreatingKeeps ==
    ASSUME Inv, listCreating("init") \/ listCreating("dropOld")
    PROVE  Inv'
<1>1. PICK u \in Uids, x \in {"init", "dropOld"} : cron' = [cron EXCEPT !.pc = x, !.uid = u]
  BY Zenon DEF listCreating
<1>2. TypeInv /\ UNCHANGED <<d1, object, seen>> /\ OnlyCron
  BY Zenon DEF listCreating, Inv
<1>3. cron' \in CronType /\ cron'.pc = x
  BY Zenon, <1>1, <1>2 DEF TypeInv, TypeOK, CronType, Optional
<1>4. CronQuiet
  BY Zenon, <1>3 DEF CronQuiet, RepairOk, PairsOk
<1> QED  BY Zenon, <1>2, <1>3, <1>4, CronKeeps

\* A row left `creating` for long is dropped.
LEMMA DropCreatingKeeps == ASSUME Inv, dropCreating \/ finishDrop PROVE Inv'
<1>1. /\ TypeInv /\ deleteUserRow(cron.uid) /\ seen' = [seen EXCEPT !.freed = TRUE]
      /\ cron' = CronIdle /\ UNCHANGED <<bootstrapped, object, minted>> /\ call' = call
      /\ call' \in [Procs -> Call]
  BY Zenon DEF dropCreating, finishDrop, OnlyCron, Inv, TypeInv, TypeOK
<1>2. CallsQuiet /\ CronQuiet /\ cron' \in CronType
  BY Zenon, <1>1, StillQuiet, CronEnds DEF CronQuiet
<1> QED  BY Zenon, <1>1, <1>2, DroppedKeep

\* The object of a row left `creating` is initialised.
LEMMA RepairInitKeeps == ASSUME Inv, repairInit PROVE Inv'
<1>1. /\ TypeInv /\ UNCHANGED <<d1, seen>> /\ OnlyCron /\ UNCHANGED <<call, minted>>
      /\ UNCHANGED <<users, identity_index, invitations, bootstrapped>>
      /\ cron \in CronType /\ call' \in [Procs -> Call]
  BY Zenon DEF repairInit, Inv, OnlyCron, d1, TypeInv, TypeOK
<1>2. CASE cron' = CronIdle /\ UNCHANGED object
  BY Zenon, <1>1, <1>2, CronEnds, CronKeeps DEF CronQuiet
<1>3. CASE object' = insertUser(cron.uid, {}) /\ cron' = [cron EXCEPT !.pc = "link"]
  <2>1. PICK u : u = cron.uid
    OBVIOUS
  <2>2. cron' \in CronType /\ cron'.pc = "link" /\ cron'.uid = u
    BY <1>1, <1>3, <2>1 DEF CronType
  <2>3. /\ object' \in [Uids -> UserObject]
        /\ \A v \in Uids : object[v].live \/ v = u => object'[v].live
        /\ \A v \in Uids : v # u => object'[v] = object[v]
        /\ u \in Uids => object'[u].identities \subseteq object[u].identities \union {}
    <3>1. {} \in SUBSET Pairs
      BY Zenon
    <3> QED  BY Zenon, <1>1, <1>3, <2>1, <3>1, ObjectInserted
  <2>4. TypeInv'
    BY Zenon, <1>1, <2>2, <2>3 DEF TypeInv, TypeOK
  <2>5. CronQuiet
    BY Zenon, <2>2, <2>3 DEF CronQuiet, RepairOk, PairsOk, Safe
  <2>6. CallsQuiet /\ SeenQuiet /\ InvitationsKept /\ RowsKept
    BY Zenon, <1>1, StillQuiet, SeenStays, InvitationsStay, RowsStay
  <2>7. SafetyKept
    BY Zenon, <1>1, <2>3 DEF SafetyKept, Safe
  <2>8. \A v \in Uids : object'[v].identities \subseteq object[v].identities
    BY Zenon, <2>3
  <2>9. PairsKept
    BY Zenon, <1>1, <2>8, PairsStay
  <2> QED  BY Zenon, <1>1, <2>4, <2>5, <2>6, <2>7, <2>9, StepKept
<1> QED  BY Zenon, <1>2, <1>3 DEF repairInit

\* The pairs of the row are read from the index.
LEMMA RepairIdentitiesKeeps == ASSUME Inv, repairIdentities PROVE Inv'
<1>1. PICK I : I = identitiesOfUser(cron.uid)
  OBVIOUS
<1>2. /\ TypeInv /\ UNCHANGED <<d1, object, seen>> /\ OnlyCron /\ cron \in CronType /\ RepairOk(cron)
      /\ cron.pc = "link" /\ cron' = [cron EXCEPT !.pc = "activate", !.pairs = I]
      /\ UNCHANGED identity_index
  BY Zenon, <1>1 DEF repairIdentities, Inv, TypeInv, TypeOK, VisibleInv, d1
<1>3. I \subseteq Pairs /\ \A x \in I : identity_index[x] = cron.uid
  BY Zenon, <1>1 DEF identitiesOfUser
<1>4. cron' \in CronType /\ cron'.pc = "activate" /\ cron'.uid = cron.uid /\ cron'.pairs = I
  BY Zenon, <1>2, <1>3 DEF CronType
<1>5. RepairOk(cron)'
  BY Zenon, <1>2, <1>4 DEF RepairOk, Safe
<1>6. PairsOk(cron)'
  BY Zenon, <1>2, <1>3, <1>4 DEF PairsOk, Indexed
<1> QED  BY Zenon, <1>2, <1>4, <1>5, <1>6, CronKeeps DEF CronQuiet

\* They are put into the object, one by one.
LEMMA RepairLinkKeeps == ASSUME Inv, repairLink PROVE Inv'
<1>1. PICK x \in cron.pairs :
          \/ Guard(cron.uid) /\ object' = [object EXCEPT ![cron.uid].identities = @ \union {x}]
             /\ cron' = [cron EXCEPT !.pairs = @ \ {x}]
          \/ cron' = CronIdle /\ UNCHANGED object
  BY Zenon DEF repairLink
<1>2. /\ TypeInv /\ cron.pc = "activate" /\ UNCHANGED <<d1, seen>> /\ OnlyCron /\ cron \in CronType
      /\ UNCHANGED <<identity_index, call, minted, seen>> /\ call' \in [Procs -> Call]
      /\ object \in [Uids -> UserObject] /\ RepairOk(cron) /\ PairsOk(cron)
  BY Zenon DEF repairLink, Inv, TypeInv, TypeOK, VisibleInv, PairInv, OnlyCron, d1
<1>3. CASE cron' = CronIdle /\ UNCHANGED object
  BY Zenon, <1>2, <1>3, CronEnds, CronKeeps DEF CronQuiet
<1>4. CASE /\ object' = [object EXCEPT ![cron.uid].identities = @ \union {x}]
           /\ cron' = [cron EXCEPT !.pairs = @ \ {x}]
  <2>1. PICK u : u = cron.uid
    OBVIOUS
  <2>2. /\ cron' \in CronType /\ cron'.pc = "activate" /\ cron'.uid = u
        /\ cron'.pairs = cron.pairs \ {x} /\ x \in Pairs
    BY <1>2, <1>4, <2>1 DEF CronType
  <2>3. PairsOk(cron)'
    BY Zenon, <1>2, <2>1, <2>2 DEF PairsOk, Indexed
  <2>4. CASE u \in Uids
    <3>1. PICK I : I = object[u].identities \union {x}
      BY Zenon
    <3>2. I \in SUBSET Pairs
      BY Zenon, <1>2, <2>2, <2>4, <3>1 DEF UserObject
    <3>3. object' = [object EXCEPT ![u].identities = I]
      BY Zenon, <1>4, <2>1, <3>1
    <3>4. /\ object' \in [Uids -> UserObject]
          /\ \A v \in Uids : object'[v].live = object[v].live
          /\ \A v \in Uids : v # u => object'[v] = object[v]
          /\ object'[u].identities = I
      BY Zenon, <1>2, <2>4, <3>2, <3>3, ObjectIdentities
    <3>5. RepairOk(cron)'
      BY Zenon, <1>2, <2>1, <2>2, <3>4 DEF RepairOk, Safe
    <3>6. Indexed(x, u)
      BY Zenon, <1>2, <2>1, <2>4 DEF PairsOk
    <3>7. \A y \in Pairs, v \in Uids :
              y \in object'[v].identities => y \in object[v].identities \/ Indexed(y, v)
      BY Zenon, <3>1, <3>4, <3>6
    <3>8. CallsQuiet /\ CronQuiet
      BY Zenon, <1>2, <2>3, <3>5, StillQuiet DEF CronQuiet
    <3> QED  BY Zenon, <1>2, <2>2, <3>4, <3>7, <3>8, IdentitiesKeep
  <2>5. CASE u \notin Uids
    <3>1. object' = object
      BY Zenon, <1>2, <1>4, <2>1, <2>5
    <3>2. RepairOk(cron)'
      BY Zenon, <2>2, <2>5 DEF RepairOk, Safe
    <3> QED  BY Zenon, <1>2, <2>2, <2>3, <3>1, <3>2, CronKeeps DEF CronQuiet
  <2> QED  BY Zenon, <2>4, <2>5
<1> QED  BY Zenon, <1>1, <1>3, <1>4

\* The row is activated.
LEMMA RepairActivateKeeps == ASSUME Inv, repairActivate PROVE Inv'
<1>1. /\ TypeInv /\ cron.pc = "activate" /\ RepairOk(cron) /\ users' = setUserStatus(cron.uid, "active")
      /\ cron' = CronIdle /\ call' = call /\ call' \in [Procs -> Call]
      /\ UNCHANGED <<identity_index, invitations, bootstrapped, seen, object, minted>>
  BY Zenon DEF repairActivate, OnlyCron, Inv, TypeInv, TypeOK, VisibleInv
<1>2. Safe(cron.uid)
  BY Zenon, <1>1 DEF RepairOk
<1>3. CallsQuiet /\ CronQuiet /\ cron' \in CronType
  BY Zenon, <1>1, StillQuiet, CronEnds DEF CronQuiet
<1> QED  BY Zenon, <1>1, <1>2, <1>3, StatusKeeps

\* A deletion left half way is found.
LEMMA ListDeletingKeeps == ASSUME Inv, listDeleting PROVE Inv'
<1>1. PICK u \in Uids : users[u].status = "deleting" /\ cron' = [cron EXCEPT !.pc = "revoke", !.uid = u]
  BY Zenon DEF listDeleting
<1>2. TypeInv /\ UNCHANGED <<d1, object, seen>> /\ OnlyCron /\ VisibleInv
  BY Zenon DEF listDeleting, Inv
<1>3. cron' \in CronType /\ cron'.pc = "revoke" /\ cron'.uid = u
  BY Zenon, <1>1, <1>2 DEF TypeInv, TypeOK, CronType, Optional
<1>4. CronQuiet
  BY Zenon, <1>1, <1>2, <1>3 DEF CronQuiet, RepairOk, PairsOk, VisibleInv
<1> QED  BY Zenon, <1>2, <1>3, <1>4, CronKeeps

\* It is finished: the object is disabled.
LEMMA FinishRevokeKeeps == ASSUME Inv, finishRevoke PROVE Inv'
<1>1. /\ TypeInv /\ cron.pc = "revoke" /\ object' = setDisabled(cron.uid, TRUE) /\ RepairOk(cron)
      /\ cron' = [cron EXCEPT !.pc = "destroy"] /\ UNCHANGED <<d1, seen, minted>> /\ call' = call
      /\ call' \in [Procs -> Call] /\ cron \in CronType
  BY Zenon DEF finishRevoke, OnlyCron, Inv, TypeInv, TypeOK, VisibleInv
<1>2. /\ object' \in [Uids -> UserObject]
      /\ \A v \in Uids : object'[v].live = object[v].live /\ object'[v].identities = object[v].identities
  BY Zenon, <1>1, ObjectDisabled
<1>3. cron' \in CronType /\ cron'.pc = "destroy" /\ cron'.uid = cron.uid
  BY <1>1 DEF CronType
<1>4. CallsQuiet /\ CronQuiet
  BY Zenon, <1>1, <1>3, StillQuiet DEF CronQuiet, RepairOk, PairsOk
<1> QED  BY Zenon, <1>1, <1>2, <1>3, <1>4, ObjectsKeep

\* The object is destroyed.
LEMMA FinishDestroyKeeps == ASSUME Inv, finishDestroy PROVE Inv'
<1>1. /\ TypeInv /\ cron.pc = "destroy" /\ object' = destroy(cron.uid) /\ RepairOk(cron)
      /\ cron' = [cron EXCEPT !.pc = "drop"] /\ UNCHANGED <<d1, seen, minted>> /\ call' = call
      /\ call' \in [Procs -> Call] /\ cron \in CronType
  BY Zenon DEF finishDestroy, OnlyCron, Inv, TypeInv, TypeOK, VisibleInv
<1>2. cron' \in CronType /\ cron'.pc = "drop" /\ cron'.uid = cron.uid
  BY <1>1 DEF CronType
<1>3. cron.uid \in seen.doomed
  BY Zenon, <1>1 DEF RepairOk
<1>4. CallsQuiet /\ CronQuiet
  BY Zenon, <1>1, <1>2, <1>3, StillQuiet DEF CronQuiet, RepairOk, PairsOk
<1> QED  BY Zenon, <1>1, <1>2, <1>3, <1>4, DestroyedKeep

\* An instance is dropped from memory.
LEMMA EvictKeeps == ASSUME Inv, Evict PROVE Inv'
<1>1. PICK u \in Uids : object' = [object EXCEPT ![u].destroyed = FALSE]
  BY Zenon DEF Evict
<1>2. /\ TypeInv /\ UNCHANGED <<d1, cron, minted, seen>> /\ call' = call /\ call' \in [Procs -> Call]
      /\ cron' \in CronType /\ object \in [Uids -> UserObject]
  BY Zenon DEF Evict, Inv, TypeInv, TypeOK
<1>3. PICK o : o = [object[u] EXCEPT !.destroyed = FALSE]
  BY Zenon
<1>4. o \in UserObject /\ o.live = object[u].live /\ o.identities = object[u].identities
  BY Zenon, <1>2, <1>3 DEF UserObject
<1>5. object' = [object EXCEPT ![u] = o]
  BY Zenon, <1>1, <1>3
<1>6. /\ object' \in [Uids -> UserObject]
      /\ \A v \in Uids : object'[v].live = object[v].live /\ object'[v].identities = object[v].identities
  BY Zenon, <1>2, <1>4, <1>5
<1> QED  BY Zenon, <1>2, <1>6, StillQuiet, ObjectsKeep DEF CronQuiet

-----------------------------------------------------------------------------
(* The theorems.                                                           *)

\* The initial states.
LEMMA InitInv == ASSUME Init PROVE Inv
<1>1. /\ call = [p \in Procs |-> Idle] /\ cron = CronIdle /\ bootstrapped = FALSE
      /\ seen = [invited |-> {}, handed |-> {}, doomed |-> {}, freed |-> FALSE]
  BY Zenon DEF Init
<1>2. /\ Idle \in Call /\ Idle.pc = "idle" /\ CronIdle \in CronType /\ CronIdle.pc = "idle"
  BY Zenon DEF Idle, Call, CronIdle, CronType, Optional
<1>3. call \in [Procs -> Call] /\ \A p \in Procs : call[p].pc = "idle"
  BY Zenon, <1>1, <1>2
<1>4. seen \in SeenType /\ seen.invited = {} /\ seen.handed = {}
  BY Zenon, <1>1 DEF SeenType
<1>5. invitations \in [Invs -> InvitationRow]
  <2>1. PICK n, o : n = NoInvitation /\ o = [n EXCEPT !.state = "open"]
    BY Zenon
  <2>2. n \in InvitationRow
    BY <2>1 DEF NoInvitation, InvitationRow, Optional
  <2>3. o \in InvitationRow
    BY <2>1, <2>2 DEF InvitationRow
  <2>4. PICK first \in {NoInvitation, [NoInvitation EXCEPT !.state = "open"]} :
            invitations = [[i \in Invs |-> NoInvitation] EXCEPT ![CHOOSE i \in Invs : TRUE] = first]
    BY Zenon DEF Init
  <2>5. first \in InvitationRow /\ NoInvitation \in InvitationRow
    BY Zenon, <2>1, <2>2, <2>3, <2>4
  <2> QED  BY Zenon, <2>4, <2>5
<1>6. /\ users \in [Uids -> UserRow] /\ identity_index \in [Pairs -> Optional(Uids)]
      /\ object \in [Uids -> UserObject] /\ minted \subseteq Uids
      /\ \A v \in Uids : users[v].status \in {"active", "disabled"} => object[v].live
      /\ \A v \in Uids : users[v].status # "deleting"
      /\ \A v \in Uids, x \in Pairs : x \in object[v].identities => identity_index[x] = v
  <2>2. Absent \in UserRow /\ Absent.status = "absent" /\ Empty \in UserObject /\ Empty.identities = {}
    BY DEF Absent, UserRow, Empty, UserObject
  <2>3. CASE /\ users = [u \in Uids |-> Absent] /\ identity_index = [x \in Pairs |-> None]
             /\ object = [u \in Uids |-> Empty] /\ minted = {}
    BY Zenon, <2>2, <2>3 DEF Optional
  <2>4. ASSUME NEW u, u = CHOOSE v \in Uids : TRUE, NEW held \in SUBSET Pairs,
               users = [v \in Uids |-> IF v = u THEN [Absent EXCEPT !.status = "active"] ELSE Absent],
               identity_index = [x \in Pairs |-> IF x \in held THEN u ELSE None],
               object = [v \in Uids |-> IF v = u THEN [Empty EXCEPT !.live = TRUE, !.identities = held]
                                                    ELSE Empty],
               minted = {u}
        PROVE  /\ users \in [Uids -> UserRow] /\ identity_index \in [Pairs -> Optional(Uids)]
               /\ object \in [Uids -> UserObject] /\ minted \subseteq Uids
               /\ \A v \in Uids : users[v].status \in {"active", "disabled"} => object[v].live
               /\ \A v \in Uids : users[v].status # "deleting"
               /\ \A v \in Uids, x \in Pairs : x \in object[v].identities => identity_index[x] = v
    <3>1. u \in Uids
      BY Zenon, <2>4, AccountsAssumption
    <3>2. PICK r, o : r = [Absent EXCEPT !.status = "active"] /\ o = [Empty EXCEPT !.live = TRUE, !.identities = held]
      BY Zenon
    <3>3. r \in UserRow /\ r.status = "active" /\ o \in UserObject /\ o.live /\ o.identities = held
      BY Zenon, <2>2, <3>2 DEF UserRow, UserStatus, UserObject
    <3>4. /\ users = [v \in Uids |-> IF v = u THEN r ELSE Absent]
          /\ object = [v \in Uids |-> IF v = u THEN o ELSE Empty]
      BY Zenon, <2>4, <3>2
    <3>5. /\ users \in [Uids -> UserRow] /\ object \in [Uids -> UserObject]
          /\ identity_index \in [Pairs -> Optional(Uids)] /\ minted \subseteq Uids
      BY Zenon, <2>2, <2>4, <3>1, <3>3, <3>4 DEF Optional
    <3>6. \A v \in Uids : /\ v = u => users[v] = r /\ object[v] = o
                          /\ v # u => users[v] = Absent /\ object[v] = Empty
      BY Zenon, <3>4
    <3>7. \A v \in Uids, x \in Pairs : x \in object[v].identities => identity_index[x] = v
      BY Zenon, <2>2, <2>4, <3>3, <3>6
    <3>8. \A v \in Uids : /\ users[v].status \in {"active", "disabled"} => object[v].live
                          /\ users[v].status # "deleting"
      BY Zenon, <2>2, <3>3, <3>6
    <3> QED  BY Zenon, <3>5, <3>7, <3>8
  <2>5. CASE \E u \in {CHOOSE u \in Uids : TRUE}, held \in SUBSET Pairs :
              /\ users = [v \in Uids |-> IF v = u THEN [Absent EXCEPT !.status = "active"] ELSE Absent]
              /\ identity_index = [x \in Pairs |-> IF x \in held THEN u ELSE None]
              /\ object = [v \in Uids |-> IF v = u THEN [Empty EXCEPT !.live = TRUE, !.identities = held]
                                                   ELSE Empty]
              /\ minted = {u}
    <3>1. PICK u \in {CHOOSE u \in Uids : TRUE}, held \in SUBSET Pairs :
              /\ users = [v \in Uids |-> IF v = u THEN [Absent EXCEPT !.status = "active"] ELSE Absent]
              /\ identity_index = [x \in Pairs |-> IF x \in held THEN u ELSE None]
              /\ object = [v \in Uids |-> IF v = u THEN [Empty EXCEPT !.live = TRUE, !.identities = held]
                                                   ELSE Empty]
              /\ minted = {u}
      BY Zenon, <2>5
    <3> QED  BY Zenon, <2>4, <3>1
  <2> QED  BY Zenon, <2>3, <2>5 DEF Init
<1>7. TypeInv
  BY Zenon, <1>1, <1>2, <1>3, <1>4, <1>5, <1>6 DEF TypeInv, TypeOK
<1>8. InvitedInv /\ BootInv
  BY Zenon, <1>3, <1>4 DEF InvitedInv, SpentOk, Claims, BootInv, BootOk, Holds
<1>9. VisibleInv
  BY Zenon, <1>1, <1>2, <1>3, <1>6 DEF VisibleInv, VisibleOk, RepairOk, Safe
<1>10. PairInv
  BY Zenon, <1>1, <1>2, <1>3, <1>6 DEF PairInv, PairOk, PairsOk, Indexed
<1> QED  BY Zenon, <1>7, <1>8, <1>9, <1>10 DEF Inv

\* Every step of a request keeps the invariant.
LEMMA RequestKeeps ==
    ASSUME Inv, NEW p \in Procs,
           \/ CreateNext(p) \/ RegisterNext(p) \/ FederateNext(p) \/ LinkNext(p)
           \/ AdminNext(p) \/ BootstrapNext(p) \/ InvitationNext(p)
    PROVE  Inv'
<1>1. CASE CreateNext(p)
  BY Zenon, <1>1, CreateHandlerKeeps, ImportKeeps, CreateUsersKeeps, InitializeKeeps, ActivateKeeps,
     InviteImportedKeeps DEF CreateNext
<1>2. CASE RegisterNext(p)
  BY Zenon, <1>2, RegisterKeeps, RecoverKeeps, ConsumeKeeps, RecoverAccountKeeps DEF RegisterNext
<1>3. CASE FederateNext(p)
  BY Zenon, <1>3, ResolveKeeps, TouchKeeps, ReleaseKeeps, EmailKeeps DEF FederateNext
<1>4. CASE LinkNext(p)
  BY Zenon, <1>4, LinkKeeps, InsertIdentityKeeps, AddIdentityKeeps, UnlinkKeeps, RemoveIdentityKeeps,
     ReleaseKeeps DEF LinkNext
<1>5. CASE AdminNext(p)
  BY Zenon, <1>5, DisableKeeps, SetDisabledKeeps, MirrorDisabledKeeps, DeleteKeeps, MarkKeeps,
     RevokeKeeps, DestroyKeeps, DropKeeps DEF AdminNext
<1>6. CASE BootstrapNext(p)
  BY Zenon, <1>6, BootstrapKeeps, BootInvitationKeeps, ClaimBootstrapKeeps, DeleteInvitationKeeps
     DEF BootstrapNext
<1>7. CASE InvitationNext(p)
  BY Zenon, <1>7, InviteKeeps, DeleteInvitationKeeps DEF InvitationNext
<1> QED  BY Zenon, <1>1, <1>2, <1>3, <1>4, <1>5, <1>6, <1>7

\* So does every step of the cron.
LEMMA MaintenanceKeeps == ASSUME Inv, runMaintenance PROVE Inv'
BY Zenon, ListCreatingKeeps, DropCreatingKeeps, RepairInitKeeps, RepairIdentitiesKeeps, RepairLinkKeeps,
   RepairActivateKeeps, ListDeletingKeeps, FinishRevokeKeeps, FinishDestroyKeeps DEF runMaintenance

\* And a step that changes nothing.
LEMMA StutterKeeps == ASSUME Inv, UNCHANGED vars PROVE Inv'
<1>1. UNCHANGED <<d1, object, call, cron, minted, seen>>
  BY Zenon DEF vars
<1>2. cron' \in CronType
  BY Zenon, <1>1 DEF Inv, TypeInv, TypeOK
<1> QED  BY Zenon, <1>1, <1>2, CronKeeps DEF OnlyCron, CronQuiet

\* The invariant holds in every reachable state, however requests, the cron
\* and failures of the calls of src/users/create.ts, src/users/admin.ts and
\* src/maintenance/run.ts interleave.
THEOREM InvariantHolds == Spec => []Inv
<1>1. Init => Inv
  BY Zenon, InitInv
<1>2. Inv /\ [Next]_vars => Inv'
  BY Zenon, RequestKeeps, MaintenanceKeeps, EvictKeeps, StutterKeeps DEF Next
<1> QED  BY <1>1, <1>2, PTL DEF Spec

\* A set whose members are all one has at most one.
LEMMA AtMostOne ==
    ASSUME NEW S, \A x, y \in S : x = y
    PROVE  Cardinality(S) <= 1
<1>1. CASE S = {}
  BY <1>1, FS_EmptySet
<1>2. CASE S # {}
  <2>1. PICK x \in S : TRUE
    BY Zenon, <1>2
  <2>2. S = {x}
    BY Zenon, <2>1
  <2> QED  BY <2>2, FS_Singleton
<1> QED  BY Zenon, <1>1, <1>2

\* TIO-REG-002: any number of concurrent registrations with one invitation,
\* through any of the paths, yield at most one account.
THEOREM OneAccountPerInvitation == Spec => []InvitationYieldsOneAccount
<1>1. Inv => InvitationYieldsOneAccount
  <2>1. SUFFICES ASSUME Inv, NEW i \in Invs
                 PROVE  Cardinality({u \in Uids : <<i, u>> \in seen.invited}) <= 1
    BY Zenon DEF InvitationYieldsOneAccount
  <2>2. PICK S : S = {u \in Uids : <<i, u>> \in seen.invited}
    BY Zenon
  <2>3. \A u, v \in S : u = v
    BY Zenon, <2>1, <2>2 DEF Inv, InvitedInv
  <2> QED  BY Zenon, <2>2, <2>3, AtMostOne
<1> QED  BY <1>1, InvariantHolds, PTL

\* A user whom the API shows has an object, unless a deletion has begun: the
\* order of createUsers and of repairCreating.
THEOREM VisibleHasObject == Spec => []VisibleUserHasObject
<1>1. Inv => VisibleUserHasObject
  BY Zenon DEF Inv, VisibleInv, VisibleUserHasObject, Safe
<1> QED  BY <1>1, InvariantHolds, PTL

\* TIO-ADMIN-010: one bootstrap answers with an invitation, and no loser
\* withdraws that one.
THEOREM OneBootstrap == Spec => []BootstrapOnce
<1>1. Inv => BootstrapOnce
  BY Zenon DEF Inv, BootInv, BootOk, BootstrapOnce, At
<1> QED  BY <1>1, InvariantHolds, PTL

\* TIO-FED-041: an upstream identity is in the object of one account, as long
\* as no index row was released.
THEOREM OneAccountPerPair == Spec => []PairHeldOnce
<1>1. Inv => PairHeldOnce
  <2>1. SUFFICES ASSUME Inv, ~seen.freed, NEW x \in Pairs
                 PROVE  Cardinality({u \in Uids : x \in object[u].identities}) <= 1
    BY Zenon DEF PairHeldOnce
  <2>2. PICK S : S = {u \in Uids : x \in object[u].identities}
    BY Zenon
  <2>3. \A u, v \in S : u = v
    <3>1. \A u \in Uids : x \in object[u].identities => identity_index[x] = u
      BY Zenon, <2>1 DEF Inv, PairInv, Indexed
    <3> QED  BY Zenon, <2>2, <3>1
  <2> QED  BY <2>2, <2>3, AtMostOne
<1> QED  BY <1>1, InvariantHolds, PTL
=============================================================================
