--------------------------- MODULE PasskeysProofs ---------------------------
(* Machine-checked theorems about Passkeys, for every number of requests,  *)
(* users and credentials.                                                  *)
EXTENDS Passkeys, FiniteSetTheorems, TLAPS

-----------------------------------------------------------------------------
(* The inductive invariant.                                                *)

Seen == [torn : BOOLEAN, issued : SUBSET Procs, accepted : Nat, stripped : SUBSET Users,
         asserted : SUBSET (Creds \X Ids \X (0 .. MaxCounter)), replayed : BOOLEAN]

\* What each request knows at each of its steps.
CallOk(c, issued) ==
    /\ Active(c) => c.user \in Users
    /\ c.pc = "attempt" /\ c.op # "options" => c.cred \in Creds /\ c.challenge \in issued
    /\ c.pc = "takeChallenge" => c.challenge \in issued
    /\ c.pc \in {"takeChallenge", "lookup", "add", "claim", "retry", "rollback", "remove", "release",
                 "read", "advance"} => c.cred \in Creds
    /\ c.pc = "remove" => c.op \in {"self", "admin"} /\ c.id \in Ids
    /\ c.pc = "batch" => c.op = "reindex"
    /\ c.pc \in {"destroy", "drop"} => c.op = "delete"

TypeInv ==
    /\ TypeOK
    /\ seen \in Seen
    /\ IsFiniteSet(seen.issued)
    /\ \A p \in Procs : CallOk(call[p], seen.issued)

\* A request that has added its passkey adds no other.
Late == {"claim", "retry", "rollback", "done"}

CounterInv ==
    /\ ~seen.replayed
    /\ \A u \in Users, k \in Creds, i \in Ids, n \in 0 .. MaxCounter :
           hasPasskey(u, k, i) /\ <<k, i, n>> \in seen.asserted => n <= object[u].passkeys[k].counter
    /\ \A u, v \in Users, k \in Creds, i \in Ids :
           hasPasskey(u, k, i) /\ hasPasskey(v, k, i) => u = v
    /\ \A p \in Procs : call[p].pc \notin Late =>
           /\ \A u \in Users, k \in Creds : ~hasPasskey(u, k, p)
           /\ \A k \in Creds, n \in 0 .. MaxCounter : <<k, p, n>> \notin seen.asserted

\* A challenge that waits in an object was answered and is not yet accepted.
Waiting == {u \in Users : object[u].challenge # None}

ChallengeInv ==
    /\ seen.accepted + Cardinality(Waiting) <= Cardinality(seen.issued)
    /\ \A p \in seen.issued : call[p].pc = "done"

\* What the index owes to each passkey, as long as nothing tore it.
Registering(i, u, k) ==
    /\ i \in Procs /\ call[i].pc \in {"claim", "retry", "rollback"}
    /\ call[i].user = u /\ call[i].cred = k

Releasing(p, k) == call[p].pc = "release" /\ call[p].cred = k

Deleting(p, u) == call[p].pc \in {"destroy", "drop"} /\ call[p].user = u

LiveOk(c) ==
    /\ c.pc \in {"claim", "retry"} \/ (c.pc = "read" /\ c.op = "index") => object[c.user].live
    /\ c.pc = "batch" => object[c.user].live /\ c.creds = held(c.user)
    /\ c.pc = "drop" => held(c.user) = {}

Indexed(u, k) == passkey_index[k] = u /\ \A q \in Procs : ~Releasing(q, k)

\* A passkey is indexed, or its registration is still to see to that.
Owed == \A u \in Users, k \in Creds, i \in Ids :
    hasPasskey(u, k, i) => Registering(i, u, k) \/ Indexed(u, k)

\* One request at most is about to release a credential id, for its own user.
ReleaseInv == \A p \in Procs, k \in Creds : Releasing(p, k) =>
    passkey_index[k] = call[p].user /\ \A q \in Procs : Releasing(q, k) => q = p

\* A sweep is alone.
SweepInv == \A p, q \in Procs :
    p # q /\ Active(call[p]) /\ Active(call[q]) => ~Sweeping(call[p].op)

\* The index names users who are there, or about to be dropped.
IndexLive == \A u \in Users, k \in Creds :
    passkey_index[k] = u => object[u].live \/ \E p \in Procs : Deleting(p, u)

CallsLive == \A p \in Procs : LiveOk(call[p])

IndexInv == Owed /\ ReleaseInv /\ SweepInv /\ IndexLive /\ CallsLive

Inv ==
    /\ TypeInv
    /\ CounterInv
    /\ OwnRemovalKeepsAMethod
    /\ ChallengeInv
    /\ ~seen.torn => IndexInv

-----------------------------------------------------------------------------
(* The shapes of a step.                                                   *)

\* null is nothing else.
LEMMA Nones == None \notin Users /\ None \notin Creds /\ None \notin Procs /\ None \notin Ids
               /\ None \notin Passkey
BY NoneAssumption DEF Ids

\* The empty request has the type of one.
LEMMA IdleTyped == Idle \in Call
BY PasskeysAssumption DEF Idle, Call, Optional, Steps, Ops

\* Request p goes on as d.
Moved(p, d) == d \in Call /\ call' = [call EXCEPT ![p] = d]

\* The other requests stay where they are.
LEMMA MovedOthers ==
    ASSUME call \in [Procs -> Call], NEW p \in Procs, NEW d, Moved(p, d)
    PROVE  /\ call' \in [Procs -> Call] /\ call'[p] = d
           /\ \A q \in Procs : q # p => call'[q] = call[q]
BY DEF Moved

\* The types are kept when the request that moves knows what its step needs.
LEMMA TypeKept ==
    ASSUME TypeInv, NEW p \in Procs, NEW d, Moved(p, d), CallOk(d, seen'.issued),
           object' \in [Users -> UserObject], passkey_index' \in [Creds -> Optional(Users)],
           rows' \subseteq Users, seen' \in Seen, seen.issued \subseteq seen'.issued,
           IsFiniteSet(seen'.issued)
    PROVE  TypeInv'
<1>1. /\ call' \in [Procs -> Call] /\ call'[p] = d
      /\ \A q \in Procs : q # p => call'[q] = call[q]
  BY MovedOthers DEF TypeInv, TypeOK
<1>2. \A c : CallOk(c, seen.issued) => CallOk(c, seen'.issued)
  BY DEF CallOk
<1>3. \A q \in Procs : CallOk(call'[q], seen'.issued)
  BY <1>1, <1>2 DEF TypeInv
<1> QED  BY <1>1, <1>3 DEF TypeInv, TypeOK

\* Passkeys only go, and no counter is accepted.
LEMMA CounterQuiet ==
    ASSUME TypeInv, CounterInv, NEW p \in Procs, NEW d, Moved(p, d),
           \A u \in Users, k \in Creds : object'[u].passkeys[k] \in {None, object[u].passkeys[k]},
           seen'.asserted = seen.asserted, seen'.replayed = seen.replayed,
           call[p].pc \in Late => d.pc \in Late
    PROVE  CounterInv'
<1>1. /\ call'[p] = d /\ \A q \in Procs : q # p => call'[q] = call[q]
  BY MovedOthers DEF TypeInv, TypeOK
<1>2. \A u \in Users, k \in Creds, i \in Ids :
          hasPasskey(u, k, i)' => hasPasskey(u, k, i) /\ object'[u].passkeys[k] = object[u].passkeys[k]
  BY DEF hasPasskey
<1>3. \A u \in Users, k \in Creds, i \in Ids, n \in 0 .. MaxCounter :
          hasPasskey(u, k, i)' /\ <<k, i, n>> \in seen'.asserted
          => n <= object'[u].passkeys[k].counter
  BY <1>2 DEF CounterInv
<1>4. \A u, v \in Users, k \in Creds, i \in Ids :
          hasPasskey(u, k, i)' /\ hasPasskey(v, k, i)' => u = v
  BY <1>2 DEF CounterInv
<1>5. \A q \in Procs : call'[q].pc \notin Late => call[q].pc \notin Late
  BY <1>1
<1>6. \A q \in Procs : call'[q].pc \notin Late =>
          /\ \A u \in Users, k \in Creds : ~hasPasskey(u, k, q)'
          /\ \A k \in Creds, n \in 0 .. MaxCounter : <<k, q, n>> \notin seen'.asserted
  BY <1>2, <1>5 DEF CounterInv, Ids
<1> QED  BY <1>3, <1>4, <1>6 DEF CounterInv

\* No login method goes.
LEMMA MethodQuiet ==
    ASSUME OwnRemovalKeepsAMethod, seen.stripped \subseteq seen'.stripped,
           \A u \in Users : object'[u].live /\ u \notin seen'.stripped =>
               /\ object[u].live /\ object'[u].identity = object[u].identity
               /\ \A k \in Creds : object[u].passkeys[k] # None => object'[u].passkeys[k] # None
    PROVE  OwnRemovalKeepsAMethod'
<1> SUFFICES ASSUME NEW u \in Users, object'[u].live, u \notin seen'.stripped
             PROVE  object'[u].identity \/ held(u)' # {}
  BY DEF OwnRemovalKeepsAMethod
<1>1. object[u].identity \/ held(u) # {}
  BY DEF OwnRemovalKeepsAMethod
<1> QED  BY <1>1 DEF held

\* No challenge is answered or accepted.
LEMMA ChallengeQuiet ==
    ASSUME TypeInv, ChallengeInv, NEW p \in Procs, NEW d, Moved(p, d),
           \A u \in Users : object'[u].challenge \in {None, object[u].challenge},
           seen'.accepted = seen.accepted, seen'.issued = seen.issued,
           call[p].pc = "done" => d.pc = "done"
    PROVE  ChallengeInv'
<1>1. /\ call'[p] = d /\ \A q \in Procs : q # p => call'[q] = call[q]
  BY MovedOthers DEF TypeInv, TypeOK
<1>2. \A q \in seen'.issued : call'[q].pc = "done"
  BY <1>1 DEF ChallengeInv, TypeInv, Seen
<1>3. IsFiniteSet(Waiting)
  BY PasskeysAssumption, FS_Subset DEF Waiting
<1>4. Waiting' \subseteq Waiting
  BY DEF Waiting
<1>5. Cardinality(Waiting') <= Cardinality(Waiting)
  BY <1>3, <1>4, FS_Subset
<1>6. /\ Cardinality(Waiting) \in Nat /\ Cardinality(Waiting') \in Nat
      /\ Cardinality(seen.issued) \in Nat /\ seen.accepted \in Nat
  BY <1>3, <1>4, FS_Subset, FS_CardinalityType DEF TypeInv, Seen
<1>7. seen'.accepted + Cardinality(Waiting') <= Cardinality(seen'.issued)
  BY <1>5, <1>6 DEF ChallengeInv
<1> QED  BY <1>2, <1>7 DEF ChallengeInv

\* What the index owes is kept by a step that adds no passkey but its own request's
\* and neither forgets a registration nor an index row.
LEMMA OwedKept ==
    ASSUME Owed,
           \A u \in Users, k \in Creds, i \in Ids :
               hasPasskey(u, k, i)' => hasPasskey(u, k, i) \/ Registering(i, u, k)',
           \A u \in Users, k \in Creds, i \in Ids :
               hasPasskey(u, k, i)' /\ Registering(i, u, k) => Registering(i, u, k)',
           \A u \in Users, k \in Creds : Indexed(u, k) => Indexed(u, k)'
    PROVE  Owed'
<1> SUFFICES ASSUME NEW u \in Users, NEW k \in Creds, NEW i \in Ids, hasPasskey(u, k, i)'
             PROVE  Registering(i, u, k)' \/ Indexed(u, k)'
  BY Zenon DEF Owed
<1>1. CASE Registering(i, u, k)'
  BY Zenon, <1>1
<1>2. CASE hasPasskey(u, k, i)
  <2>1. Registering(i, u, k) \/ Indexed(u, k)
    BY Zenon, <1>2 DEF Owed
  <2> QED  BY Zenon, <2>1
<1> QED  BY Zenon, <1>1, <1>2

\* The passkeys and the index stay, and the request is at no step the index depends on.
LEMMA IndexQuiet ==
    ASSUME TypeInv, IndexInv, NEW p \in Procs, NEW d, Moved(p, d),
           \A u \in Users : /\ object'[u].live = object[u].live
                            /\ \A k \in Creds : /\ object'[u].passkeys[k] = None <=> object[u].passkeys[k] = None
                                                /\ object'[u].passkeys[k].id = object[u].passkeys[k].id,
           passkey_index' = passkey_index,
           call[p].pc \notin {"claim", "retry", "rollback", "destroy", "drop"},
           d.pc \notin {"claim", "retry", "release", "batch", "read", "drop"},
           Active(d) => Active(call[p]) /\ d.op = call[p].op
    PROVE  IndexInv'
<1>1. /\ call'[p] = d /\ \A q \in Procs : q # p => call'[q] = call[q]
  BY MovedOthers DEF TypeInv, TypeOK
<1>2. \A q \in Procs, k \in Creds : Releasing(q, k)' => Releasing(q, k) /\ call'[q] = call[q]
  BY <1>1 DEF Releasing
<1>3. \A i, u, k : Registering(i, u, k) => Registering(i, u, k)'
  BY <1>1 DEF Registering
<1>4. \A q \in Procs, u \in Users : Deleting(q, u) => Deleting(q, u)'
  BY <1>1 DEF Deleting
<1>5. Owed'
  <2>1. \A u \in Users, k \in Creds, i \in Ids : hasPasskey(u, k, i)' => hasPasskey(u, k, i)
    BY DEF hasPasskey
  <2>2. \A u \in Users, k \in Creds : Indexed(u, k) => Indexed(u, k)'
    BY Zenon, <1>2 DEF Indexed
  <2>3. Owed
    BY Zenon DEF IndexInv
  <2> QED  BY Zenon, <1>3, <2>1, <2>2, <2>3, OwedKept
<1>6. ReleaseInv'
  BY <1>2 DEF IndexInv, ReleaseInv
<1>7. SweepInv'
  BY Zenon, <1>1 DEF IndexInv, SweepInv
<1>8. IndexLive'
  BY Zenon, <1>4 DEF IndexInv, IndexLive
<1>9. \A u \in Users : held(u)' = held(u)
  BY DEF held
<1>10. \A q \in Procs : LiveOk(call[q])'
  <2> SUFFICES ASSUME NEW q \in Procs PROVE LiveOk(call[q])'
    OBVIOUS
  <2>1. CASE q = p
    BY <1>1, <2>1 DEF LiveOk
  <2>2. CASE q # p
    <3>1. call'[q] = call[q] /\ LiveOk(call[q]) /\ (Active(call[q]) => call[q].user \in Users)
      BY Zenon, <1>1, <2>2 DEF IndexInv, CallsLive, TypeInv, CallOk
    <3> QED  BY Zenon, <1>9, <3>1 DEF LiveOk, Active
  <2> QED  BY <2>1, <2>2
<1> QED  BY Zenon, <1>5, <1>6, <1>7, <1>8, <1>10 DEF IndexInv, CallsLive

\* A request that is answered.
Finished == [Idle EXCEPT !.pc = "done"]

\* Its request is done with.
LEMMA RespondMoves ==
    ASSUME TypeInv, NEW p \in Procs, Respond(p)
    PROVE  /\ Moved(p, Finished) /\ Finished.pc = "done" /\ ~Active(Finished)
           /\ CallOk(Finished, seen'.issued)
<1>2. Finished \in Call /\ Finished.pc = "done"
  BY IdleTyped DEF Finished, Call
<1> QED  BY <1>2 DEF Moved, Respond, Finished, Active, CallOk

\* A request that goes on.
LEMMA GotoMoves ==
    ASSUME TypeInv, NEW p \in Procs, NEW pc \in Steps, NEW d, d = [call[p] EXCEPT !.pc = pc],
           Goto(p, pc)
    PROVE  /\ Moved(p, d) /\ d.pc = pc /\ d.op = call[p].op /\ d.user = call[p].user
           /\ d.cred = call[p].cred /\ d.id = call[p].id /\ d.challenge = call[p].challenge
           /\ d.creds = call[p].creds /\ d.counter = call[p].counter /\ Active(d)
<1>1. call[p] \in Call
  BY DEF TypeInv, TypeOK
<1>2. /\ d \in Call /\ d.pc = pc /\ d.op = call[p].op /\ d.user = call[p].user
      /\ d.cred = call[p].cred /\ d.id = call[p].id /\ d.challenge = call[p].challenge
      /\ d.creds = call[p].creds /\ d.counter = call[p].counter
  BY <1>1 DEF Call
<1>3. call' = [call EXCEPT ![p] = d]
  BY DEF Goto
<1> QED  BY <1>2, <1>3 DEF Moved, Active, Steps

\* A request takes a step that nothing but its attempts remembers.
LEMMA Passive ==
    ASSUME Inv, NEW p \in Procs, NEW d, Moved(p, d), CallOk(d, seen.issued), UNCHANGED <<d1, seen>>,
           object' \in [Users -> UserObject],
           \A u \in Users : /\ object'[u].live = object[u].live
                            /\ object'[u].identity = object[u].identity
                            /\ object'[u].passkeys = object[u].passkeys
                            /\ object'[u].challenge \in {None, object[u].challenge},
           call[p].pc \notin {"claim", "retry", "rollback", "destroy", "drop", "done"},
           d.pc \notin {"claim", "retry", "release", "batch", "read", "drop"},
           Active(d) => Active(call[p]) /\ d.op = call[p].op
    PROVE  Inv'
<1>1. TypeInv /\ CounterInv /\ OwnRemovalKeepsAMethod /\ ChallengeInv /\ (~seen.torn => IndexInv)
  BY DEF Inv
<1>2. seen' = seen /\ passkey_index' = passkey_index /\ rows' = rows
  BY DEF d1
<1>3. TypeInv'
  BY <1>1, <1>2, TypeKept DEF TypeInv, TypeOK
<1>4. CounterInv'
  BY <1>1, <1>2, CounterQuiet DEF Late
<1>5. OwnRemovalKeepsAMethod'
  BY <1>1, <1>2, MethodQuiet
<1>6. ChallengeInv'
  BY <1>1, <1>2, ChallengeQuiet
<1>7. ~seen'.torn => IndexInv'
  BY Zenon, <1>1, <1>2, IndexQuiet
<1> QED  BY Zenon, <1>3, <1>4, <1>5, <1>6, <1>7 DEF Inv

\* The history after a step that may tear the index.
LEMMA SeenTorn ==
    ASSUME seen \in Seen, NEW b \in BOOLEAN, seen' = [seen EXCEPT !.torn = b]
    PROVE  /\ seen' \in Seen /\ seen'.torn = b /\ seen'.issued = seen.issued
           /\ seen'.accepted = seen.accepted /\ seen'.stripped = seen.stripped
           /\ seen'.asserted = seen.asserted /\ seen'.replayed = seen.replayed
BY Zenon DEF Seen

\* A request begins without overlapping a sweep, or the sweep begins alone.
LEMMA BeginIndex ==
    ASSUME TypeInv, IndexInv, NEW p \in Procs, NEW d, Moved(p, d), call[p].pc = "idle",
           UNCHANGED <<object, passkey_index>>, ~Overlaps(p, d.op),
           d.pc \in {"attempt", "lookup", "remove", "read", "batch", "destroy"}, LiveOk(d)
    PROVE  IndexInv'
<1>1. /\ call'[p] = d /\ \A q \in Procs : q # p => call'[q] = call[q]
  BY MovedOthers DEF TypeInv, TypeOK
<1>2. \A q \in Procs, k \in Creds : Releasing(q, k)' => Releasing(q, k) /\ call'[q] = call[q]
  BY <1>1 DEF Releasing
<1>3. \A i, u, k : Registering(i, u, k) => Registering(i, u, k)'
  BY <1>1 DEF Registering
<1>4. \A q \in Procs, u \in Users : Deleting(q, u) => Deleting(q, u)'
  BY <1>1 DEF Deleting
<1>5. Owed'
  <2>1. \A u \in Users, k \in Creds, i \in Ids : hasPasskey(u, k, i)' => hasPasskey(u, k, i)
    BY Zenon DEF hasPasskey
  <2>2. \A u \in Users, k \in Creds : Indexed(u, k) => Indexed(u, k)'
    BY Zenon, <1>2 DEF Indexed
  <2>3. Owed
    BY Zenon DEF IndexInv
  <2> QED  BY Zenon, <1>3, <2>1, <2>2, <2>3, OwedKept
<1>6. ReleaseInv'
  BY <1>2 DEF IndexInv, ReleaseInv
<1>7. SweepInv'
  <2> SUFFICES ASSUME NEW q \in Procs, NEW r \in Procs, q # r, Active(call'[q]), Active(call'[r])
               PROVE  ~Sweeping(call'[q].op)
    BY Zenon DEF SweepInv
  <2>1. CASE q = p
    BY <1>1, <2>1 DEF Overlaps
  <2>2. CASE r = p
    BY <1>1, <2>2 DEF Overlaps
  <2>3. CASE q # p /\ r # p
    BY Zenon, <1>1, <2>3 DEF IndexInv, SweepInv
  <2> QED  BY <2>1, <2>2, <2>3
<1>8. IndexLive'
  BY Zenon, <1>4 DEF IndexInv, IndexLive
<1>9. \A c : LiveOk(c) => LiveOk(c)'
  BY Zenon DEF LiveOk, held
<1>10. CallsLive'
  BY <1>1, <1>9 DEF IndexInv, CallsLive, LiveOk, held
<1> QED  BY Zenon, <1>5, <1>6, <1>7, <1>8, <1>10 DEF IndexInv

\* A request begins.
LEMMA BeginKeeps ==
    ASSUME Inv, NEW p \in Procs, NEW pc, NEW c, NEW d, d = [c EXCEPT !.pc = pc], d \in Call,
           d.op = c.op, Begin(p, pc, c), UNCHANGED <<object, d1>>, CallOk(d, seen.issued),
           d.pc \in {"attempt", "lookup", "remove", "read", "batch", "destroy"},
           ~seen.torn /\ ~Overlaps(p, d.op) => LiveOk(d)
    PROVE  Inv'
<1>1. TypeInv /\ CounterInv /\ OwnRemovalKeepsAMethod /\ ChallengeInv /\ (~seen.torn => IndexInv)
  BY DEF Inv
<1>2. UNCHANGED <<object, passkey_index, rows>> /\ call[p].pc = "idle" /\ Moved(p, d)
  BY DEF d1, Begin, Moved
<1>3. PICK b \in BOOLEAN : b = (seen.torn \/ Overlaps(p, d.op))
  BY Zenon
<1>4. seen' = [seen EXCEPT !.torn = b]
  BY Zenon, <1>3 DEF Begin
<1>5. /\ seen' \in Seen /\ seen'.torn = b /\ seen'.issued = seen.issued
      /\ seen'.accepted = seen.accepted /\ seen'.stripped = seen.stripped
      /\ seen'.asserted = seen.asserted /\ seen'.replayed = seen.replayed
  BY Zenon, <1>1, <1>3, <1>4, SeenTorn DEF TypeInv
<1>6. TypeInv'
  BY <1>1, <1>2, <1>5, TypeKept DEF TypeInv, TypeOK
<1>7. CounterInv'
  BY <1>1, <1>2, <1>5, CounterQuiet DEF Late
<1>8. OwnRemovalKeepsAMethod'
  BY <1>1, <1>2, <1>5, MethodQuiet
<1>9. ChallengeInv'
  BY <1>1, <1>2, <1>5, ChallengeQuiet
<1>10. ~seen'.torn => IndexInv'
  BY Zenon, <1>1, <1>2, <1>3, <1>5, BeginIndex
<1> QED  BY <1>6, <1>7, <1>8, <1>9, <1>10 DEF Inv

\* A request that stops tears the index.
LEMMA StopKeeps == ASSUME Inv, NEW p \in Procs, Stop(p) PROVE Inv'
<1>1. TypeInv /\ CounterInv /\ OwnRemovalKeepsAMethod /\ ChallengeInv
  BY DEF Inv
<1>2. UNCHANGED <<object, passkey_index, rows>> /\ call[p].pc # "done"
  BY DEF d1, Stop, Active
<1>3. Moved(p, Finished) /\ Finished.pc = "done" /\ CallOk(Finished, seen'.issued)
  BY <1>1, RespondMoves DEF Stop
<1>5. /\ seen' \in Seen /\ seen'.torn = TRUE /\ seen'.issued = seen.issued
      /\ seen'.accepted = seen.accepted /\ seen'.stripped = seen.stripped
      /\ seen'.asserted = seen.asserted /\ seen'.replayed = seen.replayed
  BY Zenon, <1>1, SeenTorn DEF TypeInv, Stop
<1>6. TypeInv'
  BY Zenon, <1>1, <1>2, <1>3, <1>5, TypeKept DEF TypeInv, TypeOK
<1>7. CounterInv'
  BY <1>1, <1>2, <1>3, <1>5, CounterQuiet DEF Late
<1>8. OwnRemovalKeepsAMethod'
  BY <1>1, <1>2, <1>5, MethodQuiet
<1>9. ChallengeInv'
  BY <1>1, <1>2, <1>3, <1>5, ChallengeQuiet
<1> QED  BY <1>5, <1>6, <1>7, <1>8, <1>9 DEF Inv

-----------------------------------------------------------------------------
(* Requests that begin.                                                    *)

\* The request is where a ceremony or a registration begins.
LEMMA CeremonyBegins ==
    ASSUME Inv, NEW p \in Procs,
           passkeyOptionsHandler(p) \/ registerPasskeyHandler(p) \/ registerVerifyHandler(p)
    PROVE  Inv'
<1>0. seen.issued \subseteq Procs
  BY DEF Inv, TypeInv, Seen
<1>1. CASE passkeyOptionsHandler(p)
  <2>1. PICK u \in Users :
            /\ Begin(p, "attempt", [Idle EXCEPT !.op = "options", !.user = u])
            /\ UNCHANGED <<object, d1>>
    BY Zenon, <1>1 DEF passkeyOptionsHandler
  <2>2. PICK c, d : c = [Idle EXCEPT !.op = "options", !.user = u] /\ d = [c EXCEPT !.pc = "attempt"]
    BY Zenon
  <2>3. /\ d \in Call /\ d.op = c.op /\ d.pc = "attempt" /\ d.op = "options" /\ d.user \in Users
    BY Zenon, <2>2, IdleTyped DEF Call, Steps, Ops, Optional
  <2>4. CallOk(d, seen.issued) /\ LiveOk(d)
    BY <2>3 DEF CallOk, LiveOk
  <2> QED  BY Zenon, <2>1, <2>2, <2>3, <2>4, BeginKeeps
<1>2. CASE registerPasskeyHandler(p)
  <2>1. PICK u \in Users, k \in Creds, q \in seen.issued :
            /\ Begin(p, "attempt", [Idle EXCEPT !.op = "me", !.user = u, !.cred = k, !.challenge = q])
            /\ UNCHANGED <<object, d1>>
    BY Zenon, <1>2 DEF registerPasskeyHandler
  <2>2. PICK c, d : c = [Idle EXCEPT !.op = "me", !.user = u, !.cred = k, !.challenge = q]
                    /\ d = [c EXCEPT !.pc = "attempt"]
    BY Zenon
  <2>3. /\ d \in Call /\ d.op = c.op /\ d.pc = "attempt" /\ d.user \in Users /\ d.cred \in Creds
        /\ d.challenge \in seen.issued
    <3>1. d = [pc |-> "attempt", op |-> "me", user |-> u, cred |-> k, id |-> None, challenge |-> q,
               counter |-> 0, creds |-> {}]
      BY Zenon, <2>2 DEF Idle
    <3>2. d \in Call
      BY <1>0, <3>1, PasskeysAssumption DEF Call, Steps, Ops, Optional
    <3> QED  BY Zenon, <2>2, <3>1, <3>2 DEF Idle
  <2>4. CallOk(d, seen.issued) /\ LiveOk(d)
    BY <2>3 DEF CallOk, LiveOk
  <2> QED  BY Zenon, <2>1, <2>2, <2>3, <2>4, BeginKeeps
<1>3. CASE registerVerifyHandler(p)
  <2>1. PICK u \in Users, k \in Creds :
            /\ Begin(p, "lookup", [Idle EXCEPT !.op = "register", !.user = u, !.cred = k])
            /\ UNCHANGED <<object, d1>>
    BY Zenon, <1>3 DEF registerVerifyHandler
  <2>2. PICK c, d : c = [Idle EXCEPT !.op = "register", !.user = u, !.cred = k]
                    /\ d = [c EXCEPT !.pc = "lookup"]
    BY Zenon
  <2>3. /\ d \in Call /\ d.op = c.op /\ d.pc = "lookup" /\ d.user \in Users /\ d.cred \in Creds
    <3>1. d = [pc |-> "lookup", op |-> "register", user |-> u, cred |-> k, id |-> None, challenge |-> None,
               counter |-> 0, creds |-> {}]
      BY Zenon, <2>2 DEF Idle
    <3>2. d \in Call
      BY <3>1, PasskeysAssumption DEF Call, Steps, Ops, Optional
    <3> QED  BY Zenon, <2>2, <3>1, <3>2 DEF Idle
  <2>4. CallOk(d, seen.issued) /\ LiveOk(d)
    BY Zenon, <2>3 DEF CallOk, LiveOk
  <2> QED  BY Zenon, <2>1, <2>2, <2>3, <2>4, BeginKeeps
<1> QED  BY <1>1, <1>2, <1>3

\* A removal begins with the id it was listed with.
LEMMA RemovalBegins == ASSUME Inv, NEW p \in Procs, deletePasskeyHandler(p) PROVE Inv'
<1>1. PICK u \in Users, op \in {"self", "admin"}, k \in Creds :
          /\ k \in held(u)
          /\ Begin(p, "remove", [Idle EXCEPT !.op = op, !.user = u, !.cred = k,
                                             !.id = object[u].passkeys[k].id])
          /\ UNCHANGED <<object, d1>>
  BY Zenon DEF deletePasskeyHandler, held
<1>2. PICK i : i = object[u].passkeys[k].id
  OBVIOUS
<1>3. k \in Creds /\ i \in Ids
  <2>1. object[u].passkeys[k] \in Passkey /\ k \in Creds
    BY <1>1, Nones DEF held, Inv, TypeInv, TypeOK, UserObject, Optional
  <2> QED  BY <1>2, <2>1 DEF Passkey
<1>4. PICK c, d : c = [Idle EXCEPT !.op = op, !.user = u, !.cred = k, !.id = i]
                  /\ d = [c EXCEPT !.pc = "remove"]
  BY Zenon
<1>5. /\ d \in Call /\ d.op = c.op /\ d.pc = "remove" /\ d.user \in Users /\ d.cred \in Creds
      /\ d.op = op /\ d.id \in Ids
  <2>1. d = [pc |-> "remove", op |-> op, user |-> u, cred |-> k, id |-> i, challenge |-> None,
             counter |-> 0, creds |-> {}]
    BY Zenon, <1>4 DEF Idle
  <2>2. d \in Call
    BY <1>3, <2>1, PasskeysAssumption DEF Call, Steps, Ops, Optional
  <2> QED  BY Zenon, <1>3, <1>4, <2>1, <2>2 DEF Idle
<1>6. CallOk(d, seen.issued) /\ LiveOk(d)
  BY <1>5 DEF CallOk, LiveOk
<1> QED  BY Zenon, <1>1, <1>2, <1>4, <1>5, <1>6, BeginKeeps

\* An assertion begins: the index names a user who is there, unless they are
\* being deleted.
LEMMA AssertionBegins == ASSUME Inv, NEW p \in Procs, passkeyVerifyHandler(p) PROVE Inv'
<1>1. PICK k \in Creds, n \in 0 .. MaxCounter, op \in {"assert", "index"}, u \in Users :
          /\ op = "index" => passkey_index[k] = u
          /\ Begin(p, "read", [Idle EXCEPT !.op = op, !.user = u, !.cred = k, !.counter = n])
          /\ UNCHANGED <<object, d1>>
  BY Zenon DEF passkeyVerifyHandler
<1>2. PICK c, d : c = [Idle EXCEPT !.op = op, !.user = u, !.cred = k, !.counter = n]
                  /\ d = [c EXCEPT !.pc = "read"]
  BY Zenon
<1>3. /\ d \in Call /\ d.op = c.op /\ d.pc = "read" /\ d.user = u /\ d.cred \in Creds /\ d.op = op
  BY Zenon, <1>2, PasskeysAssumption DEF Idle, Call, Steps, Ops, Optional
<1>4. CallOk(d, seen.issued)
  BY <1>3 DEF CallOk
<1>5. ASSUME ~seen.torn, ~Overlaps(p, d.op) PROVE LiveOk(d)
  <2>1. CASE op = "index"
    <3>1. object[u].live \/ \E q \in Procs : Deleting(q, u)
      BY Zenon, <1>1, <1>5, <2>1 DEF Inv, IndexInv, IndexLive
    <3>2. ASSUME NEW q \in Procs, Deleting(q, u) PROVE FALSE
      <4>1. Active(call[q]) /\ Sweeping(call[q].op)
        BY Zenon, <3>2 DEF Deleting, Active, Sweeping, Inv, TypeInv, CallOk
      <4>2. q # p
        BY <1>1, <3>2 DEF Deleting, Begin
      <4> QED  BY <1>5, <4>1, <4>2 DEF Overlaps
    <3> QED  BY <1>3, <3>1, <3>2 DEF LiveOk
  <2>2. CASE op # "index"
    BY <1>3, <2>2 DEF LiveOk
  <2> QED  BY <2>1, <2>2
<1> QED  BY Zenon, <1>1, <1>2, <1>3, <1>4, <1>5, BeginKeeps

\* A reindex begins with the passkeys it read, a deletion with the user's row.
LEMMA SweepBegins ==
    ASSUME Inv, NEW p \in Procs, reindexUser(p) \/ deleteUserHandler(p)
    PROVE  Inv'
<1>1. CASE reindexUser(p)
  <2>1. PICK u \in Users :
            /\ object[u].live
            /\ Begin(p, "batch", [Idle EXCEPT !.op = "reindex", !.user = u, !.creds = held(u)])
            /\ UNCHANGED <<object, d1>>
    BY Zenon, <1>1 DEF reindexUser
  <2>2. PICK h : h = held(u)
    OBVIOUS
  <2>3. PICK c, d : c = [Idle EXCEPT !.op = "reindex", !.user = u, !.creds = h]
                    /\ d = [c EXCEPT !.pc = "batch"]
    BY Zenon
  <2>4. h \subseteq Creds
    BY <2>2 DEF held
  <2>5. /\ d \in Call /\ d.op = c.op /\ d.pc = "batch" /\ d.user = u /\ d.op = "reindex"
        /\ d.creds = h
    <3>1. d = [pc |-> "batch", op |-> "reindex", user |-> u, cred |-> None, id |-> None, challenge |-> None,
               counter |-> 0, creds |-> h]
      BY Zenon, <2>3 DEF Idle
    <3>2. d \in Call
      BY <2>4, <3>1, PasskeysAssumption DEF Call, Steps, Ops, Optional
    <3> QED  BY Zenon, <2>3, <3>1, <3>2 DEF Idle
  <2>6. CallOk(d, seen.issued) /\ LiveOk(d)
    BY <2>1, <2>2, <2>5 DEF CallOk, LiveOk
  <2> QED  BY Zenon, <2>1, <2>2, <2>3, <2>5, <2>6, BeginKeeps
<1>2. CASE deleteUserHandler(p)
  <2>1. PICK u \in rows :
            /\ Begin(p, "destroy", [Idle EXCEPT !.op = "delete", !.user = u])
            /\ UNCHANGED <<object, d1>>
    BY Zenon, <1>2 DEF deleteUserHandler
  <2>2. PICK c, d : c = [Idle EXCEPT !.op = "delete", !.user = u] /\ d = [c EXCEPT !.pc = "destroy"]
    BY Zenon
  <2>3. u \in Users
    BY <2>1 DEF Inv, TypeInv, TypeOK
  <2>4. /\ d \in Call /\ d.op = c.op /\ d.pc = "destroy" /\ d.user \in Users /\ d.op = "delete"
    BY Zenon, <2>2, <2>3, IdleTyped DEF Call, Steps, Ops, Optional
  <2>5. CallOk(d, seen.issued) /\ LiveOk(d)
    BY <2>4 DEF CallOk, LiveOk
  <2> QED  BY Zenon, <2>1, <2>2, <2>4, <2>5, BeginKeeps
<1> QED  BY <1>1, <1>2

-----------------------------------------------------------------------------
(* Steps that leave the passkeys and the index alone.                      *)

\* A request is answered and nothing changes.
LEMMA AnswerKeeps ==
    ASSUME Inv, NEW p \in Procs, Respond(p), UNCHANGED <<object, d1, seen>>,
           call[p].pc \notin {"claim", "retry", "rollback", "destroy", "drop", "done"}
    PROVE  Inv'
<1>1. TypeInv /\ object \in [Users -> UserObject]
  BY DEF Inv, TypeInv, TypeOK
<1>2. /\ Moved(p, Finished) /\ Finished.pc = "done" /\ ~Active(Finished)
      /\ CallOk(Finished, seen.issued)
  BY <1>1, RespondMoves
<1> QED  BY <1>1, <1>2, Passive

\* A request goes on and nothing changes but the attempts it counts.
LEMMA GoOnKeeps ==
    ASSUME Inv, NEW p \in Procs, NEW pc \in Steps, Goto(p, pc), UNCHANGED <<d1, seen>>,
           object' \in [Users -> UserObject],
           \A u \in Users : /\ object'[u].live = object[u].live
                            /\ object'[u].identity = object[u].identity
                            /\ object'[u].passkeys = object[u].passkeys
                            /\ object'[u].challenge = object[u].challenge,
           Active(call[p]), call[p].pc \notin {"claim", "retry", "rollback", "destroy", "drop"},
           pc \notin {"claim", "retry", "release", "batch", "read", "drop"},
           CallOk([call[p] EXCEPT !.pc = pc], seen.issued)
    PROVE  Inv'
<1>1. PICK d : d = [call[p] EXCEPT !.pc = pc]
  OBVIOUS
<1>2. Moved(p, d) /\ d.pc = pc /\ d.op = call[p].op
  BY <1>1, GotoMoves DEF Inv
<1>3. CallOk(d, seen.issued)
  BY Zenon, <1>1
<1>4. call[p].pc # "done"
  BY DEF Active
<1> QED  BY <1>2, <1>3, <1>4, Passive

\* What an assignment to one field of one object does.
LEMMA SetAttempts ==
    ASSUME object \in [Users -> UserObject], NEW u \in Users, NEW x \in 0 .. PASSKEY_ATTEMPT_LIMIT,
           object' = [object EXCEPT ![u].attempts = x]
    PROVE  /\ object' \in [Users -> UserObject]
           /\ \A v \in Users : /\ object'[v].live = object[v].live
                               /\ object'[v].identity = object[v].identity
                               /\ object'[v].passkeys = object[v].passkeys
                               /\ object'[v].challenge = object[v].challenge
BY DEF UserObject

Challenged(u, x) == object' = [object EXCEPT ![u].challenge = x]

\* The same of a challenge.
LEMMA SetChallenge ==
    ASSUME object \in [Users -> UserObject], NEW u \in Users, NEW x \in Optional(Procs),
           Challenged(u, x)
    PROVE  /\ object' \in [Users -> UserObject]
           /\ \A v \in Users : /\ object'[v].live = object[v].live
                               /\ object'[v].identity = object[v].identity
                               /\ object'[v].passkeys = object[v].passkeys
                               /\ object'[v].challenge = IF v = u THEN x ELSE object[v].challenge
BY DEF UserObject, Challenged

\* The same of the linked identity.
LEMMA SetIdentity ==
    ASSUME object \in [Users -> UserObject], NEW u \in Users,
           object' = [object EXCEPT ![u].identity = FALSE]
    PROVE  /\ object' \in [Users -> UserObject]
           /\ \A v \in Users : /\ object'[v].live = object[v].live
                               /\ object'[v].identity = IF v = u THEN FALSE ELSE object[v].identity
                               /\ object'[v].passkeys = object[v].passkeys
                               /\ object'[v].challenge = object[v].challenge
BY Zenon DEF UserObject

\* The same of one passkey.
LEMMA SetPasskey ==
    ASSUME object \in [Users -> UserObject], NEW u \in Users, NEW k \in Creds,
           NEW x \in Optional(Passkey), object' = setPasskey(u, k, x)
    PROVE  /\ object' \in [Users -> UserObject]
           /\ \A v \in Users : /\ object'[v].live = object[v].live
                               /\ object'[v].identity = object[v].identity
                               /\ object'[v].challenge = object[v].challenge
           /\ \A v \in Users, j \in Creds :
                  object'[v].passkeys[j] = IF v = u /\ j = k THEN x ELSE object[v].passkeys[j]
<1> DEFINE o == object[u]
           new == [o EXCEPT !.passkeys[k] = x]
<1>1. o \in UserObject
  OBVIOUS
<1>2. object' = [object EXCEPT ![u] = new]
  BY DEF setPasskey
<1>3. PICK q : q = [o.passkeys EXCEPT ![k] = x]
  BY Zenon
<1>4. q \in [Creds -> Optional(Passkey)] /\ \A j \in Creds : q[j] = IF j = k THEN x ELSE o.passkeys[j]
  BY <1>1, <1>3 DEF UserObject
<1>5. new = [o EXCEPT !.passkeys = q]
  BY <1>3
<1>6. /\ new \in UserObject /\ new.live = o.live /\ new.identity = o.identity
      /\ new.challenge = o.challenge /\ new.passkeys = q
  BY <1>1, <1>4, <1>5 DEF UserObject
<1> HIDE DEF new
<1>7. object'[u] = new /\ \A v \in Users : v # u => object'[v] = object[v]
  BY <1>2
<1> QED  BY <1>2, <1>4, <1>6, <1>7

\* An attempt is counted or refused.
LEMMA AttemptKeeps == ASSUME Inv, NEW p \in Procs, countPasskeyAttempt(p) PROVE Inv'
<1>1. PICK u : u = call[p].user
  OBVIOUS
<1>2. PICK pc : pc = IF call[p].op = "options" THEN "putChallenge" ELSE "takeChallenge"
  OBVIOUS
<1>3. /\ TypeInv /\ call[p].pc = "attempt" /\ UNCHANGED <<d1, seen>>
      /\ object \in [Users -> UserObject] /\ call[p] \in Call /\ CallOk(call[p], seen.issued)
  BY DEF Inv, countPasskeyAttempt, At, TypeInv, TypeOK
<1>4. u \in Users /\ Active(call[p])
  BY Zenon, <1>1, <1>3 DEF CallOk, Active
<1>5. PASSKEY_ATTEMPT_LIMIT \in Nat \ {0} /\ object[u].attempts \in 0 .. PASSKEY_ATTEMPT_LIMIT
  BY Zenon, <1>3, <1>4, PasskeysAssumption DEF UserObject
<1>6. CASE Respond(p) /\ UNCHANGED object
  BY Zenon, <1>3, <1>6, AnswerKeeps
<1>7. ASSUME NEW x \in 0 .. PASSKEY_ATTEMPT_LIMIT, object' = [object EXCEPT ![u].attempts = x],
             Goto(p, pc)
      PROVE  Inv'
  <2>1. PICK d : d = [call[p] EXCEPT !.pc = pc]
    BY Zenon
  <2>2. pc \in Steps
    BY <1>2 DEF Steps
  <2>3. /\ d.pc = pc /\ d.op = call[p].op /\ d.user = call[p].user /\ d.cred = call[p].cred
        /\ d.challenge = call[p].challenge
    BY <1>3, <1>7, <2>1, <2>2, GotoMoves
  <2>4. CallOk(d, seen.issued)
    BY Zenon, <1>1, <1>2, <1>3, <1>4, <2>3 DEF CallOk
  <2>5. /\ object' \in [Users -> UserObject]
        /\ \A v \in Users : /\ object'[v].live = object[v].live
                            /\ object'[v].identity = object[v].identity
                            /\ object'[v].passkeys = object[v].passkeys
                            /\ object'[v].challenge = object[v].challenge
    BY Zenon, <1>3, <1>4, <1>7, SetAttempts
  <2>6. pc \notin {"claim", "retry", "release", "batch", "read", "drop"}
    BY <1>2
  <2> QED  BY <1>3, <1>4, <1>7, <2>1, <2>2, <2>4, <2>5, <2>6, GoOnKeeps
<1>8. CASE object[u].attempts < PASSKEY_ATTEMPT_LIMIT
           /\ object' = [object EXCEPT ![u].attempts = @ + 1] /\ Goto(p, pc)
  <2>1. PICK x : x = object[u].attempts + 1
    OBVIOUS
  <2>2. x \in 0 .. PASSKEY_ATTEMPT_LIMIT
    BY <1>5, <1>8, <2>1
  <2>3. object' = [object EXCEPT ![u].attempts = x]
    BY <1>8, <2>1
  <2> QED  BY Zenon, <1>7, <1>8, <2>2, <2>3
<1>9. CASE object' = [object EXCEPT ![u].attempts = 1] /\ Goto(p, pc)
  <2>1. 1 \in 0 .. PASSKEY_ATTEMPT_LIMIT
    BY <1>5
  <2> QED  BY Zenon, <1>7, <1>9, <2>1
<1> QED  BY Zenon, <1>1, <1>2, <1>6, <1>8, <1>9 DEF countPasskeyAttempt

\* The credential id is looked up.
LEMMA LookupKeeps == ASSUME Inv, NEW p \in Procs, lookupCredential(p) PROVE Inv'
<1>1. /\ TypeInv /\ call[p].pc = "lookup" /\ UNCHANGED <<object, d1, seen>>
      /\ object \in [Users -> UserObject] /\ CallOk(call[p], seen.issued) /\ Active(call[p])
  BY DEF Inv, lookupCredential, At, TypeInv, TypeOK, Active
<1>2. CASE Respond(p)
  BY <1>1, <1>2, AnswerKeeps
<1>3. CASE Goto(p, "add")
  <2>1. PICK d : d = [call[p] EXCEPT !.pc = "add"]
    BY Zenon
  <2>2. d.pc = "add" /\ d.user = call[p].user /\ d.cred = call[p].cred
    BY <1>1, <1>3, <2>1, GotoMoves DEF Steps
  <2>3. CallOk(d, seen.issued)
    BY Zenon, <1>1, <2>2 DEF CallOk
  <2> QED  BY Zenon, <1>1, <1>3, <2>1, <2>3, GoOnKeeps DEF Steps
<1> QED  BY <1>2, <1>3 DEF lookupCredential

\* The passkey of an assertion is read.  Under ~torn the user behind an index
\* row is there, so no row is released.
LEMMA ReadKeeps == ASSUME Inv, NEW p \in Procs, readAssertion(p) PROVE Inv'
<1>1. /\ TypeInv /\ call[p].pc = "read" /\ UNCHANGED <<object, d1, seen>>
      /\ object \in [Users -> UserObject] /\ CallOk(call[p], seen.issued) /\ Active(call[p])
  BY Zenon DEF Inv, readAssertion, At, TypeInv, TypeOK, Active
<1>2. CASE Respond(p)
  BY Zenon, <1>1, <1>2, AnswerKeeps
<1>3. CASE Goto(p, "advance")
  <2>1. PICK d : d = [call[p] EXCEPT !.pc = "advance"]
    BY Zenon
  <2>2. d.pc = "advance" /\ d.user = call[p].user /\ d.cred = call[p].cred
    BY <1>1, <1>3, <2>1, GotoMoves DEF Steps
  <2>3. CallOk(d, seen.issued)
    BY Zenon, <1>1, <2>2 DEF CallOk
  <2> QED  BY Zenon, <1>1, <1>3, <2>1, <2>3, GoOnKeeps DEF Steps
<1>4. CASE ~object[call[p].user].live /\ call[p].op = "index" /\ Goto(p, "release")
  <2>1. PICK d : d = [call[p] EXCEPT !.pc = "release"]
    BY Zenon
  <2>2. Moved(p, d) /\ d.pc = "release" /\ d.user = call[p].user /\ d.cred = call[p].cred
    BY <1>1, <1>4, <2>1, GotoMoves DEF Steps
  <2>3. CallOk(d, seen.issued)
    BY Zenon, <1>1, <2>2 DEF CallOk
  <2>4. seen.torn
    BY Zenon, <1>1, <1>4 DEF Inv, IndexInv, CallsLive, LiveOk
  <2>5. UNCHANGED <<passkey_index, rows>>
    BY Zenon, <1>1 DEF d1
  <2>6. TypeInv'
    BY Zenon, <1>1, <2>2, <2>3, <2>5, TypeKept DEF TypeInv, TypeOK
  <2>7. CounterInv'
    BY Zenon, <1>1, <2>2, CounterQuiet DEF Late, Inv
  <2>8. OwnRemovalKeepsAMethod'
    BY Zenon, <1>1, MethodQuiet DEF Inv
  <2>9. ChallengeInv'
    BY Zenon, <1>1, <2>2, ChallengeQuiet DEF Inv
  <2> QED  BY Zenon, <1>1, <2>4, <2>6, <2>7, <2>8, <2>9 DEF Inv
<1> QED  BY Zenon, <1>2, <1>3, <1>4 DEF readAssertion

-----------------------------------------------------------------------------
(* Challenges.                                                             *)

\* The options are answered: the challenge waits in the object.
LEMMA PutChallengeKeeps == ASSUME Inv, NEW p \in Procs, putChallenge(p) PROVE Inv'
<1>1. PICK u : u = call[p].user
  OBVIOUS
<1>2. /\ TypeInv /\ call[p].pc = "putChallenge" /\ UNCHANGED d1 /\ Respond(p)
      /\ object \in [Users -> UserObject] /\ seen \in Seen /\ CallOk(call[p], seen.issued)
  BY DEF Inv, putChallenge, At, TypeInv, TypeOK
<1>3. u \in Users
  BY <1>1, <1>2 DEF CallOk, Active
<1>4. CASE UNCHANGED <<object, seen>>
  BY <1>2, <1>4, AnswerKeeps
<1>5. CASE object' = [object EXCEPT ![u].challenge = p]
           /\ seen' = [seen EXCEPT !.issued = @ \union {p}]
  <2>1. /\ object' \in [Users -> UserObject]
        /\ \A v \in Users : /\ object'[v].live = object[v].live
                            /\ object'[v].identity = object[v].identity
                            /\ object'[v].passkeys = object[v].passkeys
                            /\ object'[v].challenge = IF v = u THEN p ELSE object[v].challenge
    <3>1. p \in Optional(Procs)
      BY Zenon DEF Optional
    <3>2. Challenged(u, p)
      BY Zenon, <1>5 DEF Challenged
    <3>3. object \in [Users -> UserObject]
      BY Zenon, <1>2
    <3> QED  BY Zenon, <1>3, <3>1, <3>2, <3>3, SetChallenge
  <2>2. /\ seen' \in Seen /\ seen'.issued = seen.issued \union {p} /\ seen'.accepted = seen.accepted
        /\ seen'.torn = seen.torn /\ seen'.stripped = seen.stripped
        /\ seen'.asserted = seen.asserted /\ seen'.replayed = seen.replayed
    <3>1. PICK I : I = seen.issued \union {p}
      BY Zenon
    <3>2. I \in SUBSET Procs /\ seen' = [seen EXCEPT !.issued = I]
      BY <1>2, <1>5, <3>1 DEF Seen
    <3>3. /\ seen' \in Seen /\ seen'.issued = I /\ seen'.accepted = seen.accepted
          /\ seen'.torn = seen.torn /\ seen'.stripped = seen.stripped
          /\ seen'.asserted = seen.asserted /\ seen'.replayed = seen.replayed
      BY Zenon, <1>2, <3>2 DEF Seen
    <3> QED  BY <3>1, <3>3
  <2>3. /\ Moved(p, Finished) /\ Finished.pc = "done" /\ ~Active(Finished)
        /\ CallOk(Finished, seen'.issued)
    BY Zenon, <1>2, RespondMoves
  <2>4. UNCHANGED <<passkey_index, rows>>
    BY Zenon, <1>2 DEF d1
  <2>5. p \notin seen.issued /\ IsFiniteSet(seen.issued)
    BY Zenon, <1>2 DEF Inv, ChallengeInv, TypeInv
  <2>6. /\ IsFiniteSet(seen'.issued)
        /\ Cardinality(seen'.issued) = Cardinality(seen.issued) + 1
    <3>1. PICK S : S = seen.issued
      OBVIOUS
    <3>2. IsFiniteSet(S) /\ p \notin S /\ seen'.issued = S \union {p}
      BY Zenon, <2>2, <2>5, <3>1
    <3>3. IsFiniteSet(S \union {p}) /\ Cardinality(S \union {p}) = Cardinality(S) + 1
      BY Zenon, <3>2, FS_AddElement
    <3> QED  BY Zenon, <3>1, <3>2, <3>3
  <2>7. TypeInv'
    <3>1. passkey_index' \in [Creds -> Optional(Users)] /\ rows' \subseteq Users
      BY Zenon, <1>2, <2>4 DEF TypeInv, TypeOK
    <3>2. object' \in [Users -> UserObject]
      BY Zenon, <2>1
    <3>3. seen' \in Seen /\ seen.issued \subseteq seen'.issued
      BY Zenon, <2>2
    <3> QED  BY Zenon, <1>2, <2>3, <2>6, <3>1, <3>2, <3>3, TypeKept
  <2>8. CounterInv'
    BY Zenon, <1>2, <2>1, <2>2, <2>3, CounterQuiet DEF Inv, Late
  <2>9. OwnRemovalKeepsAMethod'
    BY Zenon, <2>1, <2>2, MethodQuiet DEF Inv
  <2>10. ~seen'.torn => IndexInv'
    BY Zenon, <1>2, <2>1, <2>2, <2>3, <2>4, IndexQuiet DEF Inv
  <2>11. ChallengeInv'
    <3>1. Waiting' \subseteq Waiting \union {u}
      BY <2>1 DEF Waiting
    <3>2. IsFiniteSet(Waiting)
      BY PasskeysAssumption, FS_Subset DEF Waiting
    <3>3. /\ IsFiniteSet(Waiting \union {u})
          /\ Cardinality(Waiting \union {u}) \in {Cardinality(Waiting), Cardinality(Waiting) + 1}
      BY <3>2, FS_AddElement
    <3>4. IsFiniteSet(Waiting') /\ Cardinality(Waiting') <= Cardinality(Waiting \union {u})
      BY <3>1, <3>3, FS_Subset
    <3>5. /\ Cardinality(Waiting) \in Nat /\ Cardinality(Waiting') \in Nat
          /\ Cardinality(seen.issued) \in Nat /\ seen.accepted \in Nat
      BY Zenon, <1>2, <2>5, <3>2, <3>4, FS_CardinalityType DEF Seen
    <3>6. seen'.accepted + Cardinality(Waiting') <= Cardinality(seen'.issued)
      BY <2>2, <2>6, <3>3, <3>4, <3>5 DEF Inv, ChallengeInv
    <3>7. /\ call'[p] = Finished /\ \A q \in Procs : q # p => call'[q] = call[q]
      BY Zenon, <1>2, <2>3, MovedOthers DEF TypeInv, TypeOK
    <3>8. \A q \in seen'.issued : call'[q].pc = "done"
      BY Zenon, <1>2, <2>2, <2>3, <3>7 DEF Inv, ChallengeInv, Seen
    <3> QED  BY <3>6, <3>8 DEF ChallengeInv
  <2> QED  BY <2>7, <2>8, <2>9, <2>10, <2>11 DEF Inv
<1> QED  BY Zenon, <1>1, <1>4, <1>5 DEF putChallenge

\* A challenge is taken: it no longer waits, and at most one request passes it.
LEMMA TakeChallengeKeeps == ASSUME Inv, NEW p \in Procs, takeChallenge(p) PROVE Inv'
<1>1. PICK u : u = call[p].user
  OBVIOUS
<1>2. /\ TypeInv /\ call[p].pc = "takeChallenge" /\ UNCHANGED d1 /\ call[p] \in Call
      /\ object \in [Users -> UserObject] /\ seen \in Seen /\ CallOk(call[p], seen.issued)
  BY DEF Inv, takeChallenge, At, TypeInv, TypeOK
<1>3. u \in Users /\ call[p].challenge \in Procs /\ call[p].challenge # None /\ call[p].cred \in Creds
  BY Zenon, <1>1, <1>2, Nones DEF CallOk, Active, Seen
<1>4. object' = [object EXCEPT ![u].challenge = None]
  BY <1>1 DEF takeChallenge
<1>5. /\ object' \in [Users -> UserObject]
      /\ \A v \in Users : /\ object'[v].live = object[v].live
                          /\ object'[v].identity = object[v].identity
                          /\ object'[v].passkeys = object[v].passkeys
                          /\ object'[v].challenge = IF v = u THEN None ELSE object[v].challenge
  <2>1. None \in Optional(Procs)
    BY Zenon DEF Optional
  <2>2. Challenged(u, None)
    BY Zenon, <1>4 DEF Challenged
  <2>3. object \in [Users -> UserObject] /\ u \in Users
    BY Zenon, <1>2, <1>3
  <2> QED  BY Zenon, <2>1, <2>2, <2>3, SetChallenge
<1>6. CASE Respond(p) /\ UNCHANGED seen
  <2>1. /\ Moved(p, Finished) /\ Finished.pc = "done" /\ ~Active(Finished)
        /\ CallOk(Finished, seen.issued)
    BY Zenon, <1>2, <1>6, RespondMoves
  <2> QED  BY Zenon, <1>2, <1>5, <1>6, <2>1, Passive
<1>7. CASE /\ object[u].challenge = call[p].challenge
           /\ call' = [call EXCEPT ![p].pc = "lookup", ![p].challenge = None]
           /\ seen' = [seen EXCEPT !.accepted = @ + 1]
  <2>1. PICK d : d = [call[p] EXCEPT !.pc = "lookup", !.challenge = None]
    OBVIOUS
  <2>2. /\ d \in Call /\ d.pc = "lookup" /\ d.user = u /\ d.cred = call[p].cred /\ d.op = call[p].op
    BY Zenon, <1>1, <1>2, <2>1 DEF Call, Steps, Optional
  <2>3. Moved(p, d) /\ CallOk(d, seen.issued) /\ Active(d) /\ Active(call[p])
    BY Zenon, <1>2, <1>3, <1>7, <2>1, <2>2 DEF Moved, CallOk, Active
  <2>4. /\ seen' \in Seen /\ seen'.issued = seen.issued /\ seen'.accepted = seen.accepted + 1
        /\ seen'.torn = seen.torn /\ seen'.stripped = seen.stripped
        /\ seen'.asserted = seen.asserted /\ seen'.replayed = seen.replayed
    <3>1. PICK n \in Nat : n = seen.accepted + 1
      BY <1>2 DEF Seen
    <3>2. seen' = [seen EXCEPT !.accepted = n]
      BY <1>7, <3>1
    <3>3. /\ seen' \in Seen /\ seen'.issued = seen.issued /\ seen'.accepted = n
          /\ seen'.torn = seen.torn /\ seen'.stripped = seen.stripped
          /\ seen'.asserted = seen.asserted /\ seen'.replayed = seen.replayed
      BY Zenon, <1>2, <3>2 DEF Seen
    <3> QED  BY <3>1, <3>3
  <2>5. UNCHANGED <<passkey_index, rows>>
    BY <1>2 DEF d1
  <2>6. TypeInv'
    BY Zenon, <1>2, <1>5, <2>3, <2>4, <2>5, TypeKept DEF TypeInv, TypeOK
  <2>7. CounterInv'
    BY Zenon, <1>2, <1>5, <2>2, <2>3, <2>4, CounterQuiet DEF Inv, Late
  <2>8. OwnRemovalKeepsAMethod'
    BY Zenon, <1>5, <2>4, MethodQuiet DEF Inv
  <2>9. ~seen'.torn => IndexInv'
    BY Zenon, <1>2, <1>5, <2>2, <2>3, <2>4, <2>5, IndexQuiet DEF Inv
  <2>10. ChallengeInv'
    <3>1. Waiting' = Waiting \ {u} /\ u \in Waiting
      BY <1>3, <1>5, <1>7 DEF Waiting
    <3>2. IsFiniteSet(Waiting)
      BY PasskeysAssumption, FS_Subset DEF Waiting
    <3>3. Cardinality(Waiting') = Cardinality(Waiting) - 1
      BY Zenon, <3>1, <3>2, FS_RemoveElement
    <3>4. /\ Cardinality(Waiting) \in Nat /\ Cardinality(seen.issued) \in Nat /\ seen.accepted \in Nat
      BY Zenon, <1>2, <3>2, FS_CardinalityType DEF Seen, TypeInv
    <3>5. seen'.accepted + Cardinality(Waiting') <= Cardinality(seen'.issued)
      BY <2>4, <3>3, <3>4 DEF Inv, ChallengeInv
    <3>6. /\ call'[p] = d /\ \A q \in Procs : q # p => call'[q] = call[q]
      BY Zenon, <1>2, <2>3, MovedOthers DEF TypeInv, TypeOK
    <3>7. \A q \in seen'.issued : call'[q].pc = "done"
      BY <1>2, <2>4, <3>6 DEF Inv, ChallengeInv, Seen
    <3> QED  BY <3>5, <3>7 DEF ChallengeInv
  <2> QED  BY <2>6, <2>7, <2>8, <2>9, <2>10 DEF Inv
<1> QED  BY Zenon, <1>1, <1>6, <1>7 DEF takeChallenge

-----------------------------------------------------------------------------
(* Login methods.                                                          *)

\* A user's method goes only when another one stays.
LEMMA NotLast ==
    ASSUME NEW u \in Users, ~isLastLoginMethod(u)
    PROVE  /\ object[u].identity => held(u) # {}
           /\ ~object[u].identity => \A k \in held(u) : held(u) # {k}
<1>1. Cardinality({}) = 0 /\ \A k : Cardinality({k}) = 1
  BY Zenon, FS_EmptySet, FS_Singleton
<1>2. ASSUME object[u].identity, held(u) = {} PROVE FALSE
  <2>1. Cardinality(held(u)) = 0
    BY Zenon, <1>1, <1>2
  <2> QED  BY <1>2, <2>1 DEF isLastLoginMethod
<1>3. ASSUME ~object[u].identity, NEW k, held(u) = {k} PROVE FALSE
  <2>1. Cardinality(held(u)) = 1
    BY Zenon, <1>1, <1>3
  <2> QED  BY <1>3, <2>1 DEF isLastLoginMethod
<1> QED  BY Zenon, <1>2, <1>3

\* An identity is unlinked.
LEMMA UnlinkKeeps == ASSUME Inv, NEW p \in Procs, deleteIdentityHandler(p) PROVE Inv'
<1>1. PICK u \in Users : /\ call[p].pc = "idle" /\ object[u].identity /\ ~isLastLoginMethod(u)
                         /\ object' = [object EXCEPT ![u].identity = FALSE]
                         /\ Respond(p) /\ UNCHANGED <<d1, seen>>
  BY Zenon DEF deleteIdentityHandler, At
<1>2. TypeInv /\ object \in [Users -> UserObject] /\ UNCHANGED <<passkey_index, rows, seen>>
  BY <1>1 DEF Inv, TypeInv, TypeOK, d1
<1>3. /\ object' \in [Users -> UserObject]
      /\ \A v \in Users : /\ object'[v].live = object[v].live
                          /\ object'[v].identity = IF v = u THEN FALSE ELSE object[v].identity
                          /\ object'[v].passkeys = object[v].passkeys
                          /\ object'[v].challenge = object[v].challenge
  BY Zenon, <1>1, <1>2, SetIdentity
<1>4. /\ Moved(p, Finished) /\ Finished.pc = "done" /\ ~Active(Finished)
      /\ CallOk(Finished, seen'.issued)
  BY <1>1, <1>2, RespondMoves
<1>5. TypeInv'
  BY Zenon, <1>2, <1>3, <1>4, TypeKept DEF TypeInv, TypeOK
<1>6. CounterInv'
  BY <1>1, <1>2, <1>3, <1>4, CounterQuiet DEF Inv, Late
<1>7. ChallengeInv'
  BY <1>1, <1>2, <1>3, <1>4, ChallengeQuiet DEF Inv
<1>8. ~seen'.torn => IndexInv'
  BY Zenon, <1>1, <1>2, <1>3, <1>4, IndexQuiet DEF Inv
<1>9. OwnRemovalKeepsAMethod'
  <2>1. \A v \in Users : held(v)' = held(v)
    BY Zenon, <1>3 DEF held
  <2>2. held(u) # {}
    BY <1>1, NotLast
  <2> QED  BY Zenon, <1>2, <1>3, <2>1, <2>2 DEF Inv, OwnRemovalKeepsAMethod
<1> QED  BY <1>5, <1>6, <1>7, <1>8, <1>9 DEF Inv

-----------------------------------------------------------------------------
(* The index, while nothing tears it.                                      *)

\* While a request is under way, no other request sweeps.
LEMMA NoSweepBeside ==
    ASSUME TypeInv, IndexInv, NEW p \in Procs, Active(call[p]), NEW q \in Procs, q # p
    PROVE  call[q].pc \notin {"batch", "destroy", "drop"}
<1> SUFFICES ASSUME call[q].pc \in {"batch", "destroy", "drop"} PROVE FALSE
  OBVIOUS
<1>1. Active(call[q]) /\ Sweeping(call[q].op)
  BY Zenon DEF TypeInv, CallOk, Active, Sweeping
<1> QED  BY Zenon, <1>1 DEF IndexInv, SweepInv

\* What a step of a request under way that is no sweep keeps of IndexInv.
LEMMA ActiveStep ==
    ASSUME TypeInv, IndexInv, NEW p \in Procs, NEW d, Moved(p, d), Active(call[p]),
           call[p].pc \notin {"batch", "destroy", "drop"}, Active(d) => d.op = call[p].op,
           d.pc \notin {"read", "batch", "drop"},
           d.pc \in {"claim", "retry"} => object[d.user].live /\ d.user \in Users,
           \A u \in Users : object'[u].live = object[u].live,
           \A u \in Users, k \in Creds : passkey_index'[k] = u => passkey_index[k] = u \/ object[u].live
    PROVE  SweepInv' /\ IndexLive' /\ CallsLive'
<1>1. /\ call'[p] = d /\ \A q \in Procs : q # p => call'[q] = call[q]
  BY Zenon, MovedOthers DEF TypeInv, TypeOK
<1>2. \A q \in Procs : q # p => call[q].pc \notin {"batch", "destroy", "drop"}
  BY Zenon, NoSweepBeside
<1>3. SweepInv'
  BY Zenon, <1>1 DEF IndexInv, SweepInv
<1>4. \A u \in Users, k \in Creds : passkey_index'[k] = u => object'[u].live
  BY Zenon, <1>2 DEF IndexInv, IndexLive, Deleting
<1>5. ASSUME NEW q \in Procs PROVE LiveOk(call[q])'
  <2>1. CASE q = p
    BY Zenon, <1>1, <2>1 DEF LiveOk
  <2>2. CASE q # p
    <3>1. /\ call'[q] = call[q] /\ LiveOk(call[q]) /\ (Active(call[q]) => call[q].user \in Users)
          /\ call[q].pc \notin {"batch", "destroy", "drop"}
      BY Zenon, <1>1, <1>2, <2>2 DEF IndexInv, CallsLive, TypeInv, CallOk
    <3> QED  BY Zenon, <3>1 DEF LiveOk, Active
  <2> QED  BY Zenon, <2>1, <2>2
<1> QED  BY Zenon, <1>3, <1>4, <1>5 DEF IndexLive, CallsLive

\* A sweep is alone.
LEMMA SweepAlone ==
    ASSUME TypeInv, IndexInv, NEW p \in Procs, call[p].pc \in {"batch", "destroy", "drop"}
    PROVE  \A q \in Procs : q # p => ~Active(call[q])
<1>1. Active(call[p]) /\ Sweeping(call[p].op)
  BY Zenon DEF TypeInv, CallOk, Active, Sweeping
<1> QED  BY Zenon, <1>1 DEF IndexInv, SweepInv

-----------------------------------------------------------------------------
(* Registration.                                                           *)

\* A passkey is added under the id of its request, which has added none yet.
LEMMA AddKeeps == ASSUME Inv, NEW p \in Procs, addPasskey(p) PROVE Inv'
<1>1. PICK u, k : u = call[p].user /\ k = call[p].cred
  OBVIOUS
<1>2. /\ TypeInv /\ call[p].pc = "add" /\ UNCHANGED <<passkey_index, rows, seen>>
      /\ object \in [Users -> UserObject] /\ seen \in Seen /\ CallOk(call[p], seen.issued)
      /\ Active(call[p]) /\ UNCHANGED d1
  BY Zenon DEF Inv, addPasskey, At, TypeInv, TypeOK, d1, Active
<1>3. u \in Users /\ k \in Creds
  BY Zenon, <1>1, <1>2 DEF CallOk
<1>4. CASE Respond(p) /\ UNCHANGED object
  BY Zenon, <1>2, <1>4, AnswerKeeps
<1>5. CASE /\ addable(u, k) /\ Goto(p, "claim")
           /\ object' = setPasskey(u, k, [id |-> p, counter |-> 0])
  <2>1. PICK d : d = [call[p] EXCEPT !.pc = "claim"]
    BY Zenon
  <2>2. /\ Moved(p, d) /\ d.pc = "claim" /\ d.op = call[p].op /\ d.user = u /\ d.cred = k /\ Active(d)
    BY <1>1, <1>2, <1>5, <2>1, GotoMoves DEF Steps
  <2>3. CallOk(d, seen.issued)
    BY Zenon, <1>3, <2>2 DEF CallOk
  <2>4. PICK x : x = [id |-> p, counter |-> 0]
    BY Zenon
  <2>5. x \in Passkey /\ x.id = p /\ x.counter = 0 /\ x # None
    BY <2>4, PasskeysAssumption, Nones DEF Passkey, Ids
  <2>6. /\ object' \in [Users -> UserObject]
        /\ \A v \in Users : /\ object'[v].live = object[v].live
                            /\ object'[v].identity = object[v].identity
                            /\ object'[v].challenge = object[v].challenge
        /\ \A v \in Users, j \in Creds :
               object'[v].passkeys[j] = IF v = u /\ j = k THEN x ELSE object[v].passkeys[j]
    BY <1>2, <1>3, <1>5, <2>4, <2>5, SetPasskey DEF Optional
  <2>7. object[u].live /\ object[u].passkeys[k] = None
    BY <1>5 DEF addable
  <2>8. TypeInv'
    BY Zenon, <1>2, <2>2, <2>3, <2>6, TypeKept DEF TypeInv, TypeOK
  <2>9. OwnRemovalKeepsAMethod'
    BY Zenon, <1>2, <2>5, <2>6, MethodQuiet DEF Inv
  <2>10. ChallengeInv'
    BY Zenon, <1>2, <2>2, <2>6, ChallengeQuiet DEF Inv
  <2>11. /\ call'[p] = d /\ \A q \in Procs : q # p => call'[q] = call[q]
    BY Zenon, <1>2, <2>2, MovedOthers DEF TypeInv, TypeOK
  <2>12. CounterInv'
    <3>1. /\ \A v \in Users, j \in Creds : ~hasPasskey(v, j, p)
          /\ \A j \in Creds, n \in 0 .. MaxCounter : <<j, p, n>> \notin seen.asserted
      BY Zenon, <1>2 DEF Inv, CounterInv, Late
    <3>2. \A v \in Users, j \in Creds, i \in Ids : hasPasskey(v, j, i)' =>
              \/ v = u /\ j = k /\ i = p
              \/ hasPasskey(v, j, i) /\ object'[v].passkeys[j] = object[v].passkeys[j] /\ i # p
      BY <2>5, <2>6, <3>1 DEF hasPasskey
    <3>3. \A v \in Users, j \in Creds, i \in Ids, n \in 0 .. MaxCounter :
              hasPasskey(v, j, i)' /\ <<j, i, n>> \in seen'.asserted
              => n <= object'[v].passkeys[j].counter
      BY Zenon, <1>2, <3>1, <3>2 DEF Inv, CounterInv
    <3>4. \A v, w \in Users, j \in Creds, i \in Ids :
              hasPasskey(v, j, i)' /\ hasPasskey(w, j, i)' => v = w
      BY <3>2 DEF Inv, CounterInv
    <3>5. \A q \in Procs : call'[q].pc \notin Late => q # p /\ call[q].pc \notin Late
      BY Zenon, <2>2, <2>11 DEF Late
    <3>6. \A q \in Procs : call'[q].pc \notin Late =>
              /\ \A v \in Users, j \in Creds : ~hasPasskey(v, j, q)'
              /\ \A j \in Creds, n \in 0 .. MaxCounter : <<j, q, n>> \notin seen'.asserted
      BY Zenon, <1>2, <3>2, <3>5 DEF Inv, CounterInv, Ids
    <3> QED  BY Zenon, <1>2, <3>3, <3>4, <3>6 DEF Inv, CounterInv
  <2>13. ASSUME IndexInv PROVE IndexInv'
    <3>1. SweepInv' /\ IndexLive' /\ CallsLive'
      BY Zenon, <1>2, <1>3, <2>2, <2>6, <2>7, <2>13, ActiveStep
    <3>2. \A q \in Procs, j \in Creds : Releasing(q, j)' => Releasing(q, j) /\ call'[q] = call[q]
      BY Zenon, <2>2, <2>11 DEF Releasing
    <3>3. \A i, v, j : Registering(i, v, j) => Registering(i, v, j)'
      BY Zenon, <1>2, <2>11 DEF Registering
    <3>4. Registering(p, u, k)'
      BY Zenon, <2>2, <2>11 DEF Registering
    <3>5. Owed'
      <4>1. \A v \in Users, j \in Creds, i \in Ids :
                hasPasskey(v, j, i)' => (v = u /\ j = k /\ i = p) \/ hasPasskey(v, j, i)
        BY Zenon, <2>5, <2>6 DEF hasPasskey
      <4>2. \A v \in Users, j \in Creds : Indexed(v, j) => Indexed(v, j)'
        BY Zenon, <1>2, <3>2 DEF Indexed
      <4>3. \A v \in Users, j \in Creds, i \in Ids :
                hasPasskey(v, j, i)' => hasPasskey(v, j, i) \/ Registering(i, v, j)'
        BY Zenon, <3>4, <4>1
      <4>4. Owed
        BY Zenon, <2>13 DEF IndexInv
      <4> QED  BY Zenon, <3>3, <4>2, <4>3, <4>4, OwedKept
    <3>6. ReleaseInv'
      BY Zenon, <1>2, <2>13, <3>2 DEF IndexInv, ReleaseInv
    <3> QED  BY Zenon, <3>1, <3>5, <3>6 DEF IndexInv
  <2> QED  BY Zenon, <1>2, <2>8, <2>9, <2>10, <2>12, <2>13 DEF Inv
<1> QED  BY Zenon, <1>1, <1>4, <1>5 DEF addPasskey

\* The id is claimed, found taken, or neither is known.
LEMMA ClaimKeeps == ASSUME Inv, NEW p \in Procs, claimCredential(p) PROVE Inv'
<1>1. PICK u, k : u = call[p].user /\ k = call[p].cred
  OBVIOUS
<1>2. /\ TypeInv /\ call[p].pc \in {"claim", "retry"} /\ UNCHANGED <<object, rows, seen>>
      /\ object \in [Users -> UserObject] /\ seen \in Seen /\ CallOk(call[p], seen.issued)
      /\ Active(call[p]) /\ passkey_index \in [Creds -> Optional(Users)]
  BY Zenon DEF Inv, claimCredential, At, TypeInv, TypeOK, Active
<1>3. u \in Users /\ k \in Creds
  BY Zenon, <1>1, <1>2 DEF CallOk
<1>4. PICK claimed : claimed = [passkey_index EXCEPT ![k] = u]
  BY Zenon
<1>5. claimed \in [Creds -> Optional(Users)]
  BY Zenon, <1>2, <1>3, <1>4 DEF Optional
<1>6. /\ passkey_index' = passkey_index \/ (passkey_index[k] = None /\ passkey_index' = claimed)
      /\ \/ Respond(p) /\ passkey_index[k] = None /\ passkey_index' = claimed
         \/ Goto(p, "rollback")
         \/ Goto(p, "retry")
  BY Zenon, <1>1, <1>4 DEF claimCredential
<1> DEFINE Goes(d) ==
               /\ Moved(p, d) /\ CallOk(d, seen.issued)
               /\ \/ d.pc = "done" /\ ~Active(d) /\ passkey_index[k] = None /\ passkey_index' = claimed
                  \/ d.pc \in {"retry", "rollback"} /\ d.user = u /\ d.cred = k /\ d.op = call[p].op
<1>7. PICK d : Goes(d)
  <2>1. CASE Respond(p) /\ passkey_index[k] = None /\ passkey_index' = claimed
    BY Zenon, <1>2, <2>1, RespondMoves
  <2>2. ASSUME NEW pc \in {"retry", "rollback"}, Goto(p, pc) PROVE \E d : Goes(d)
    <3>1. PICK d : d = [call[p] EXCEPT !.pc = pc]
      BY Zenon
    <3>2. Moved(p, d) /\ d.pc = pc /\ d.op = call[p].op /\ d.user = u /\ d.cred = k
      BY <1>1, <1>2, <2>2, <3>1, GotoMoves DEF Steps
    <3>3. CallOk(d, seen.issued)
      BY Zenon, <1>3, <2>2, <3>2 DEF CallOk
    <3> QED  BY Zenon, <3>2, <3>3
  <2> QED  BY Zenon, <1>6, <2>1, <2>2
<1>8. /\ call'[p] = d /\ \A q \in Procs : q # p => call'[q] = call[q]
  BY Zenon, <1>2, <1>7, MovedOthers DEF TypeInv, TypeOK
<1>9. TypeInv'
  BY Zenon, <1>2, <1>5, <1>6, <1>7, TypeKept DEF TypeInv, TypeOK
<1>10. CounterInv'
  BY Zenon, <1>2, <1>7, CounterQuiet DEF Inv, Late
<1>11. OwnRemovalKeepsAMethod'
  BY Zenon, <1>2, MethodQuiet DEF Inv
<1>12. ChallengeInv'
  BY Zenon, <1>2, <1>7, ChallengeQuiet DEF Inv
<1>13. ASSUME IndexInv PROVE IndexInv'
  <2>1. object[u].live
    BY Zenon, <1>1, <1>2, <1>13 DEF IndexInv, CallsLive, LiveOk
  <2>2. \A v \in Users, j \in Creds : passkey_index'[j] = v => passkey_index[j] = v \/ object[v].live
    BY Zenon, <1>2, <1>3, <1>4, <1>6, <2>1
  <2>3. SweepInv' /\ IndexLive' /\ CallsLive'
    BY Zenon, <1>2, <1>3, <1>7, <1>13, <2>1, <2>2, ActiveStep
  <2>4. \A q \in Procs, j \in Creds : Releasing(q, j)' => Releasing(q, j) /\ call'[q] = call[q]
    BY Zenon, <1>7, <1>8 DEF Releasing
  <2>5. \A j \in Creds : passkey_index[j] # None => passkey_index'[j] = passkey_index[j]
    <3>1. CASE passkey_index' = passkey_index
      BY Zenon, <3>1
    <3>2. CASE passkey_index[k] = None /\ passkey_index' = claimed
      <4>1. \A j \in Creds : claimed[j] = IF j = k THEN u ELSE passkey_index[j]
        BY Zenon, <1>2, <1>3, <1>4
      <4> QED  BY Zenon, <3>2, <4>1
    <3> QED  BY Zenon, <1>6, <3>1, <3>2
  <2>6. \A q \in Procs, j \in Creds : Releasing(q, j) => passkey_index[j] # None
    <3> SUFFICES ASSUME NEW q \in Procs, NEW j \in Creds, Releasing(q, j) PROVE passkey_index[j] # None
      BY Zenon
    <3>1. passkey_index[j] = call[q].user
      BY Zenon, <1>13 DEF IndexInv, ReleaseInv
    <3>2. call[q].user \in Users
      BY Zenon, <1>2 DEF Releasing, TypeInv, CallOk, Active
    <3> QED  BY Zenon, <3>1, <3>2, Nones
  <2>7. ReleaseInv'
    BY <1>13, <2>4, <2>5, <2>6 DEF IndexInv, ReleaseInv
  <2>8. \A i, v, j : Registering(i, v, j) =>
            Registering(i, v, j)' \/ (v = u /\ j = k /\ passkey_index[k] = None /\ passkey_index' = claimed)
    BY Zenon, <1>1, <1>7, <1>8 DEF Registering
  <2>9. Owed'
    <3> SUFFICES ASSUME NEW v \in Users, NEW j \in Creds, NEW i \in Ids, hasPasskey(v, j, i)'
                 PROVE  Registering(i, v, j)' \/ Indexed(v, j)'
      BY Zenon DEF Owed
    <3>1. hasPasskey(v, j, i)
      BY Zenon, <1>2 DEF hasPasskey
    <3>2. CASE v = u /\ j = k /\ passkey_index[k] = None /\ passkey_index' = claimed
      <4>1. passkey_index'[j] = v
        BY Zenon, <1>2, <1>3, <1>4, <3>2
      <4> QED  BY Zenon, <2>4, <2>6, <3>2, <4>1 DEF Indexed
    <3>3. CASE Indexed(v, j)
      <4>1. passkey_index'[j] = v
        BY <2>5, <3>3, Nones DEF Indexed
      <4> QED  BY Zenon, <2>4, <3>3, <4>1 DEF Indexed
    <3>4. Registering(i, v, j) \/ Indexed(v, j)
      BY <1>13, <3>1 DEF IndexInv, Owed
    <3> QED  BY <2>8, <3>2, <3>3, <3>4
  <2> QED  BY Zenon, <2>3, <2>7, <2>9 DEF IndexInv
<1> QED  BY Zenon, <1>2, <1>9, <1>10, <1>11, <1>12, <1>13 DEF Inv

\* The history after a user may be left without a method.
LEMMA SeenStripped ==
    ASSUME seen \in Seen, NEW S \in SUBSET Users, NEW b \in BOOLEAN,
           seen' = [seen EXCEPT !.stripped = S, !.torn = b]
    PROVE  /\ seen' \in Seen /\ seen'.torn = b /\ seen'.issued = seen.issued
           /\ seen'.accepted = seen.accepted /\ seen'.stripped = S
           /\ seen'.asserted = seen.asserted /\ seen'.replayed = seen.replayed
BY Zenon DEF Seen

\* The passkey is taken back.
LEMMA RollbackKeeps == ASSUME Inv, NEW p \in Procs, rollback(p) PROVE Inv'
<1>1. PICK u, k : u = call[p].user /\ k = call[p].cred
  OBVIOUS
<1>2. /\ TypeInv /\ call[p].pc = "rollback" /\ UNCHANGED <<passkey_index, rows>> /\ Respond(p)
      /\ object \in [Users -> UserObject] /\ seen \in Seen /\ CallOk(call[p], seen.issued)
      /\ Active(call[p])
  BY DEF Inv, rollback, At, TypeInv, TypeOK, Active, d1
<1>3. u \in Users /\ k \in Creds
  BY Zenon, <1>1, <1>2 DEF CallOk
<1>4. /\ seen' \in Seen /\ seen'.torn = seen.torn /\ seen'.issued = seen.issued
      /\ seen'.accepted = seen.accepted /\ seen'.stripped = seen.stripped \union {u}
      /\ seen'.asserted = seen.asserted /\ seen'.replayed = seen.replayed
  <2>1. PICK S : S = seen.stripped \union {u}
    BY Zenon
  <2>2. S \in SUBSET Users /\ seen.torn \in BOOLEAN
    BY Zenon, <1>2, <1>3, <2>1 DEF Seen
  <2>3. seen' = [seen EXCEPT !.stripped = S]
    BY <1>1, <2>1 DEF rollback
  <2>4. /\ seen' \in Seen /\ seen'.torn = seen.torn /\ seen'.issued = seen.issued
        /\ seen'.accepted = seen.accepted /\ seen'.stripped = S
        /\ seen'.asserted = seen.asserted /\ seen'.replayed = seen.replayed
    BY Zenon, <1>2, <2>2, <2>3 DEF Seen
  <2> QED  BY Zenon, <2>1, <2>4
<1>5. /\ object' \in [Users -> UserObject]
      /\ \A v \in Users : /\ object'[v].live = object[v].live
                          /\ object'[v].identity = object[v].identity
                          /\ object'[v].challenge = object[v].challenge
      /\ \A v \in Users, j \in Creds :
             object'[v].passkeys[j] = IF v = u /\ j = k /\ hasPasskey(u, k, p) THEN None
                                      ELSE object[v].passkeys[j]
  <2>1. CASE hasPasskey(u, k, p)
    <3>1. object' = setPasskey(u, k, None)
      BY <1>1, <2>1 DEF rollback
    <3> QED  BY <1>2, <1>3, <2>1, <3>1, SetPasskey DEF Optional
  <2>2. CASE ~hasPasskey(u, k, p)
    BY <1>1, <1>2, <2>2 DEF rollback
  <2> QED  BY Zenon, <2>1, <2>2
<1>6. /\ Moved(p, Finished) /\ Finished.pc = "done" /\ ~Active(Finished)
      /\ CallOk(Finished, seen'.issued)
  BY Zenon, <1>2, RespondMoves
<1>7. /\ call'[p] = Finished /\ \A q \in Procs : q # p => call'[q] = call[q]
  BY Zenon, <1>2, <1>6, MovedOthers DEF TypeInv, TypeOK
<1>8. TypeInv'
  BY Zenon, <1>2, <1>4, <1>5, <1>6, TypeKept DEF TypeInv, TypeOK
<1>9. CounterInv'
  BY Zenon, <1>2, <1>4, <1>5, <1>6, CounterQuiet DEF Inv, Late
<1>10. OwnRemovalKeepsAMethod'
  BY Zenon, <1>4, <1>5, MethodQuiet DEF Inv
<1>11. ChallengeInv'
  BY Zenon, <1>2, <1>4, <1>5, <1>6, ChallengeQuiet DEF Inv
<1>12. ASSUME IndexInv PROVE IndexInv'
  <2>1. SweepInv' /\ IndexLive' /\ CallsLive'
    BY Zenon, <1>2, <1>5, <1>6, <1>12, ActiveStep
  <2>2. \A q \in Procs, j \in Creds : Releasing(q, j)' => Releasing(q, j) /\ call'[q] = call[q]
    BY Zenon, <1>6, <1>7 DEF Releasing
  <2>3. \A i, v, j : Registering(i, v, j) => Registering(i, v, j)' \/ (i = p /\ v = u /\ j = k)
    <3> SUFFICES ASSUME NEW i, NEW v, NEW j, Registering(i, v, j), i # p
                 PROVE  Registering(i, v, j)'
      BY Zenon, <1>1 DEF Registering
    <3> QED  BY Zenon, <1>7 DEF Registering
  <2>4. Owed'
    <3>1. \A v \in Users, j \in Creds, i \in Ids :
              hasPasskey(v, j, i)' => hasPasskey(v, j, i) /\ ~(i = p /\ v = u /\ j = k)
      <4> SUFFICES ASSUME NEW v \in Users, NEW j \in Creds, NEW i \in Ids, hasPasskey(v, j, i)'
                   PROVE  hasPasskey(v, j, i) /\ ~(i = p /\ v = u /\ j = k)
        BY Zenon
      <4>1. ~(v = u /\ j = k /\ hasPasskey(u, k, p))
        BY Zenon, <1>5 DEF hasPasskey
      <4>2. object'[v].passkeys[j] = object[v].passkeys[j]
        BY Zenon, <1>5, <4>1
      <4> QED  BY Zenon, <4>1, <4>2 DEF hasPasskey
    <3>2. \A v \in Users, j \in Creds : Indexed(v, j) => Indexed(v, j)'
      BY Zenon, <1>2, <2>2 DEF Indexed
    <3>3. Owed
      BY Zenon, <1>12 DEF IndexInv
    <3>4. \A v \in Users, j \in Creds, i \in Ids :
              hasPasskey(v, j, i)' /\ Registering(i, v, j) => Registering(i, v, j)'
      <4> SUFFICES ASSUME NEW v \in Users, NEW j \in Creds, NEW i \in Ids,
                          hasPasskey(v, j, i)', Registering(i, v, j)
                   PROVE  Registering(i, v, j)'
        BY Zenon
      <4>1. ~(i = p /\ v = u /\ j = k)
        BY Zenon, <3>1
      <4> QED  BY Zenon, <2>3, <4>1
    <3>5. \A v \in Users, j \in Creds, i \in Ids : hasPasskey(v, j, i)' => hasPasskey(v, j, i)
      BY Zenon, <3>1
    <3> QED  BY Zenon, <3>2, <3>3, <3>4, <3>5, OwedKept
  <2>5. ReleaseInv'
    BY Zenon, <1>2, <1>12, <2>2 DEF IndexInv, ReleaseInv
  <2> QED  BY Zenon, <2>1, <2>4, <2>5 DEF IndexInv
<1> QED  BY <1>4, <1>8, <1>9, <1>10, <1>11, <1>12 DEF Inv

-----------------------------------------------------------------------------
(* Removal.                                                                *)

\* A passkey is removed.  Its registration is over, so it is indexed, and no
\* other request is about to release its credential id.
LEMMA RemoveKeeps == ASSUME Inv, NEW p \in Procs, removePasskey(p) PROVE Inv'
<1>1. PICK u, k, i : u = call[p].user /\ k = call[p].cred /\ i = call[p].id
  BY Zenon
<1>2. /\ TypeInv /\ call[p].pc = "remove" /\ UNCHANGED <<passkey_index, rows>> /\ UNCHANGED d1
      /\ object \in [Users -> UserObject] /\ seen \in Seen /\ CallOk(call[p], seen.issued)
      /\ Active(call[p])
  BY DEF Inv, removePasskey, At, TypeInv, TypeOK, Active, d1
<1>3. u \in Users /\ k \in Creds /\ i \in Ids /\ call[p].op \in {"self", "admin"}
  BY Zenon, <1>1, <1>2 DEF CallOk
<1>4. CASE Respond(p) /\ UNCHANGED <<object, seen>>
  BY Zenon, <1>2, <1>4, AnswerKeeps
<1> DEFINE S == seen.stripped \union IF call[p].op = "admin" THEN {u} ELSE {}
<1>5. CASE /\ hasPasskey(u, k, i) /\ (call[p].op = "self" => ~isLastLoginMethod(u))
           /\ object' = setPasskey(u, k, None) /\ Goto(p, "release")
           /\ seen' = [seen EXCEPT !.stripped = S, !.torn = @ \/ (i \in Procs /\ Active(call[i]))]
  <2>1. S \in SUBSET Users
    BY Zenon, <1>2, <1>3 DEF Seen
  <2> HIDE DEF S
  <2>2. PICK b \in BOOLEAN : b = (seen.torn \/ (i \in Procs /\ Active(call[i])))
    BY Zenon
  <2>3. /\ seen' \in Seen /\ seen'.torn = b /\ seen'.issued = seen.issued
        /\ seen'.accepted = seen.accepted /\ seen'.stripped = S
        /\ seen'.asserted = seen.asserted /\ seen'.replayed = seen.replayed
    <3>1. seen' = [seen EXCEPT !.stripped = S, !.torn = b]
      BY Zenon, <1>5, <2>2
    <3> QED  BY Zenon, <1>2, <2>1, <2>2, <3>1, SeenStripped
  <2>4. PICK d : d = [call[p] EXCEPT !.pc = "release"]
    BY Zenon
  <2>5. /\ Moved(p, d) /\ d.pc = "release" /\ d.op = call[p].op /\ d.user = u /\ d.cred = k /\ Active(d)
    BY <1>1, <1>2, <1>5, <2>4, GotoMoves DEF Steps
  <2>6. CallOk(d, seen'.issued)
    BY Zenon, <1>3, <2>5 DEF CallOk
  <2>7. /\ object' \in [Users -> UserObject]
        /\ \A v \in Users : /\ object'[v].live = object[v].live
                            /\ object'[v].identity = object[v].identity
                            /\ object'[v].challenge = object[v].challenge
        /\ \A v \in Users, j \in Creds :
               object'[v].passkeys[j] = IF v = u /\ j = k THEN None ELSE object[v].passkeys[j]
    BY <1>2, <1>3, <1>5, SetPasskey DEF Optional
  <2>8. /\ call'[p] = d /\ \A q \in Procs : q # p => call'[q] = call[q]
    BY Zenon, <1>2, <2>5, MovedOthers DEF TypeInv, TypeOK
  <2>9. TypeInv'
    <3>1. passkey_index' \in [Creds -> Optional(Users)] /\ rows' \subseteq Users
      BY Zenon, <1>2 DEF TypeInv, TypeOK
    <3>2. IsFiniteSet(seen'.issued) /\ seen.issued \subseteq seen'.issued
      BY Zenon, <1>2, <2>3 DEF TypeInv
    <3> QED  BY Zenon, <1>2, <2>3, <2>5, <2>6, <2>7, <3>1, <3>2, TypeKept
  <2>10. CounterInv'
    BY Zenon, <1>2, <2>3, <2>5, <2>7, CounterQuiet DEF Inv, Late
  <2>11. ChallengeInv'
    BY Zenon, <1>2, <2>3, <2>5, <2>7, ChallengeQuiet DEF Inv
  <2>12. OwnRemovalKeepsAMethod'
    <3> SUFFICES ASSUME NEW v \in Users, object'[v].live, v \notin seen'.stripped
                 PROVE  object'[v].identity \/ held(v)' # {}
      BY DEF OwnRemovalKeepsAMethod
    <3>1. /\ object[v].live /\ object'[v].identity = object[v].identity /\ v \notin seen.stripped
          /\ held(v)' = IF v = u THEN held(v) \ {k} ELSE held(v)
      BY Zenon, <2>3, <2>7 DEF held, S
    <3>2. object[v].identity \/ held(v) # {}
      BY Zenon, <3>1 DEF Inv, OwnRemovalKeepsAMethod
    <3>3. CASE v = u
      <4>1. call[p].op = "self" /\ k \in held(u)
        BY <1>3, <1>5, <2>3, <3>3 DEF S, hasPasskey, held
      <4>2. ~object[u].identity => held(u) # {k}
        BY <1>3, <1>5, <4>1, NotLast
      <4> QED  BY Zenon, <3>1, <3>3, <4>1, <4>2
    <3> QED  BY Zenon, <3>1, <3>2, <3>3
  <2>13. ASSUME IndexInv, ~b PROVE IndexInv'
    <3>1. SweepInv' /\ IndexLive' /\ CallsLive'
      BY Zenon, <1>2, <2>5, <2>7, <2>13, ActiveStep
    <3>2. passkey_index[k] = u /\ \A q \in Procs : ~Releasing(q, k)
      <4>1. ~Registering(i, u, k)
        BY Zenon, <2>2, <2>13 DEF Registering, Active
      <4> QED  BY Zenon, <1>3, <1>5, <2>13, <4>1 DEF IndexInv, Owed, Indexed
    <3>3. \A q \in Procs, j \in Creds : Releasing(q, j)' =>
              (q = p /\ j = k) \/ (Releasing(q, j) /\ j # k /\ call'[q] = call[q])
      BY Zenon, <2>5, <2>8, <3>2 DEF Releasing
    <3>4. \A m, v, j : Registering(m, v, j) => Registering(m, v, j)'
      BY Zenon, <1>2, <2>8 DEF Registering
    <3>5. Owed'
      <4>1. \A v \in Users, j \in Creds, m \in Ids :
                hasPasskey(v, j, m)' => hasPasskey(v, j, m) /\ ~(v = u /\ j = k)
        BY Zenon, <2>7 DEF hasPasskey
      <4>2. \A v \in Users, j \in Creds : Indexed(v, j) /\ j # k => Indexed(v, j)'
        BY Zenon, <1>2, <3>3 DEF Indexed
      <4>3. \A v \in Users : Indexed(v, k) => v = u
        BY Zenon, <3>2 DEF Indexed
      <4> QED  BY Zenon, <2>13, <3>4, <4>1, <4>2, <4>3 DEF IndexInv, Owed
    <3>6. ReleaseInv'
      <4> SUFFICES ASSUME NEW q \in Procs, NEW j \in Creds, Releasing(q, j)'
                   PROVE  /\ passkey_index'[j] = call'[q].user
                          /\ \A r \in Procs : Releasing(r, j)' => r = q
        BY Zenon DEF ReleaseInv
      <4>1. CASE q = p /\ j = k
        BY Zenon, <1>2, <2>5, <2>8, <3>2, <3>3, <4>1
      <4>2. CASE Releasing(q, j) /\ j # k /\ call'[q] = call[q]
        <5>1. passkey_index[j] = call[q].user /\ \A r \in Procs : Releasing(r, j) => r = q
          BY Zenon, <2>13, <4>2 DEF IndexInv, ReleaseInv
        <5> QED  BY Zenon, <1>2, <3>3, <4>2, <5>1
      <4> QED  BY Zenon, <3>3, <4>1, <4>2
    <3> QED  BY Zenon, <3>1, <3>5, <3>6 DEF IndexInv
  <2> QED  BY Zenon, <2>2, <2>3, <2>9, <2>10, <2>11, <2>12, <2>13 DEF Inv
<1> QED  BY Zenon, <1>1, <1>4, <1>5 DEF removePasskey

\* The credential id is released.
LEMMA ReleaseKeeps == ASSUME Inv, NEW p \in Procs, releaseCredential(p) PROVE Inv'
<1>1. PICK k : k = call[p].cred
  OBVIOUS
<1>2. /\ TypeInv /\ call[p].pc = "release" /\ UNCHANGED <<object, rows, seen>> /\ Respond(p)
      /\ object \in [Users -> UserObject] /\ CallOk(call[p], seen.issued)
      /\ Active(call[p]) /\ passkey_index \in [Creds -> Optional(Users)]
  BY Zenon DEF Inv, releaseCredential, At, TypeInv, TypeOK, Active
<1>3. k \in Creds /\ passkey_index' = [passkey_index EXCEPT ![k] = None]
  BY Zenon, <1>1, <1>2 DEF CallOk, releaseCredential
<1>4. /\ passkey_index' \in [Creds -> Optional(Users)]
      /\ \A j \in Creds : passkey_index'[j] = IF j = k THEN None ELSE passkey_index[j]
  BY Zenon, <1>2, <1>3 DEF Optional
<1>5. /\ Moved(p, Finished) /\ Finished.pc = "done" /\ ~Active(Finished)
      /\ CallOk(Finished, seen'.issued)
  BY Zenon, <1>2, RespondMoves
<1>6. /\ call'[p] = Finished /\ \A q \in Procs : q # p => call'[q] = call[q]
  BY Zenon, <1>2, <1>5, MovedOthers DEF TypeInv, TypeOK
<1>7. TypeInv'
  BY Zenon, <1>2, <1>4, <1>5, TypeKept DEF TypeInv, TypeOK
<1>8. CounterInv'
  BY Zenon, <1>2, <1>5, CounterQuiet DEF Inv, Late
<1>9. OwnRemovalKeepsAMethod'
  BY Zenon, <1>2, MethodQuiet DEF Inv
<1>10. ChallengeInv'
  BY Zenon, <1>2, <1>5, ChallengeQuiet DEF Inv
<1>11. ASSUME IndexInv PROVE IndexInv'
  <2>1. SweepInv' /\ IndexLive' /\ CallsLive'
    BY Zenon, <1>2, <1>4, <1>5, <1>11, Nones, ActiveStep
  <2>2. Releasing(p, k) /\ \A q \in Procs : Releasing(q, k) => q = p
    BY Zenon, <1>1, <1>2, <1>3, <1>11 DEF Releasing, IndexInv, ReleaseInv
  <2>3. \A q \in Procs, j \in Creds : Releasing(q, j)' => Releasing(q, j) /\ j # k /\ call'[q] = call[q]
    BY Zenon, <1>5, <1>6, <2>2 DEF Releasing
  <2>4. \A m, v, j : Registering(m, v, j) => Registering(m, v, j)'
    BY Zenon, <1>2, <1>6 DEF Registering
  <2>5. Owed'
    <3>1. \A v \in Users, j \in Creds, m \in Ids : hasPasskey(v, j, m)' => hasPasskey(v, j, m)
      BY Zenon, <1>2 DEF hasPasskey
    <3>2. \A v \in Users, j \in Creds : Indexed(v, j) => Indexed(v, j)'
      <4> SUFFICES ASSUME NEW v \in Users, NEW j \in Creds, Indexed(v, j) PROVE Indexed(v, j)'
        BY Zenon
      <4>1. j # k
        BY Zenon, <2>2 DEF Indexed
      <4>2. passkey_index'[j] = v
        BY Zenon, <1>4, <4>1 DEF Indexed
      <4> QED  BY Zenon, <2>3, <4>2 DEF Indexed
    <3>3. Owed
      BY Zenon, <1>11 DEF IndexInv
    <3> QED  BY Zenon, <2>4, <3>1, <3>2, <3>3, OwedKept
  <2>6. ReleaseInv'
    BY Zenon, <1>4, <1>11, <2>3 DEF IndexInv, ReleaseInv
  <2> QED  BY Zenon, <2>1, <2>5, <2>6 DEF IndexInv
<1> QED  BY Zenon, <1>2, <1>7, <1>8, <1>9, <1>10, <1>11 DEF Inv

-----------------------------------------------------------------------------
(* Assertions.                                                             *)

\* A counter that is accepted exceeds every one accepted before.
LEMMA AdvanceKeeps == ASSUME Inv, NEW p \in Procs, advanceCounter(p) PROVE Inv'
<1>1. PICK u, k, n, row : /\ u = call[p].user /\ k = call[p].cred /\ n = call[p].counter
                          /\ row = object[call[p].user].passkeys[call[p].cred]
  BY Zenon
<1>2. /\ TypeInv /\ call[p].pc = "advance" /\ UNCHANGED <<passkey_index, rows>> /\ UNCHANGED d1
      /\ object \in [Users -> UserObject] /\ seen \in Seen /\ CallOk(call[p], seen.issued)
      /\ call[p] \in Call /\ Active(call[p]) /\ Respond(p)
  BY Zenon DEF Inv, advanceCounter, At, TypeInv, TypeOK, Active, d1
<1>3. u \in Users /\ k \in Creds /\ n \in 0 .. MaxCounter /\ row = object[u].passkeys[k]
  BY Zenon, <1>1, <1>2 DEF CallOk, Call
<1>4. CASE UNCHANGED <<object, seen>>
  BY Zenon, <1>2, <1>4, AnswerKeeps
<1> DEFINE A == seen.asserted \union {<<k, row.id, n>>}
           B == seen.replayed \/ (n > 0 /\ <<k, row.id, n>> \in seen.asserted)
<1>5. CASE /\ row # None /\ counterPolicy(row.counter, n)
           /\ object' = setPasskey(u, k, [row EXCEPT !.counter = n])
           /\ seen' = [seen EXCEPT !.asserted = A, !.replayed = B]
  <2>1. row \in Passkey /\ row.id \in Ids /\ row.counter \in 0 .. MaxCounter /\ hasPasskey(u, k, row.id)
    BY <1>2, <1>3, <1>5, Nones DEF UserObject, Optional, Passkey, hasPasskey
  <2>2. PICK x : x = [row EXCEPT !.counter = n]
    BY Zenon
  <2>3. x \in Passkey /\ x.id = row.id /\ x.counter = n /\ x # None
    BY Zenon, <1>3, <2>1, <2>2, Nones DEF Passkey
  <2>4. /\ object' \in [Users -> UserObject]
        /\ \A v \in Users : /\ object'[v].live = object[v].live
                            /\ object'[v].identity = object[v].identity
                            /\ object'[v].challenge = object[v].challenge
        /\ \A v \in Users, j \in Creds :
               object'[v].passkeys[j] = IF v = u /\ j = k THEN x ELSE object[v].passkeys[j]
    <3>1. object' = setPasskey(u, k, x) /\ x \in Optional(Passkey)
      BY <1>5, <2>2, <2>3 DEF Optional
    <3> QED  BY <1>2, <1>3, <3>1, SetPasskey
  <2>5. MaxCounter \in Nat
    BY PasskeysAssumption
  <2>6. row.counter <= n /\ (n > 0 => row.counter < n)
    BY <1>3, <1>5, <2>1, <2>5 DEF counterPolicy
  <2>7. \A m \in 0 .. MaxCounter : <<k, row.id, m>> \in seen.asserted => m <= row.counter
    BY Zenon, <1>3, <2>1 DEF Inv, CounterInv
  <2>8. B = FALSE
    <3>1. ~seen.replayed
      BY Zenon DEF Inv, CounterInv
    <3>2. ~(n > 0 /\ <<k, row.id, n>> \in seen.asserted)
      BY <1>3, <2>1, <2>5, <2>6, <2>7
    <3> QED  BY <3>1, <3>2
  <2>9. A \in SUBSET (Creds \X Ids \X (0 .. MaxCounter))
    BY <1>2, <1>3, <2>1 DEF Seen
  <2> HIDE DEF A, B
  <2>10. /\ seen' \in Seen /\ seen'.torn = seen.torn /\ seen'.issued = seen.issued
         /\ seen'.accepted = seen.accepted /\ seen'.stripped = seen.stripped
         /\ seen'.asserted = A /\ seen'.replayed = FALSE
    <3>1. seen' = [seen EXCEPT !.asserted = A, !.replayed = FALSE]
      BY Zenon, <1>5, <2>8
    <3> QED  BY Zenon, <1>2, <2>9, <3>1 DEF Seen
  <2>11. /\ Moved(p, Finished) /\ Finished.pc = "done" /\ ~Active(Finished)
         /\ CallOk(Finished, seen'.issued)
    BY Zenon, <1>2, RespondMoves
  <2>12. /\ call'[p] = Finished /\ \A q \in Procs : q # p => call'[q] = call[q]
    BY Zenon, <1>2, <2>11, MovedOthers DEF TypeInv, TypeOK
  <2>13. TypeInv'
    BY Zenon, <1>2, <2>4, <2>10, <2>11, TypeKept DEF TypeInv, TypeOK
  <2>14. OwnRemovalKeepsAMethod'
    BY Zenon, <2>3, <2>4, <2>10, MethodQuiet DEF Inv
  <2>15. ChallengeInv'
    BY Zenon, <1>2, <2>4, <2>10, <2>11, ChallengeQuiet DEF Inv
  <2>16. ~seen'.torn => IndexInv'
    <3>1. \A v \in Users : /\ object'[v].live = object[v].live
                           /\ \A j \in Creds : /\ object'[v].passkeys[j] = None <=> object[v].passkeys[j] = None
                                               /\ object'[v].passkeys[j].id = object[v].passkeys[j].id
      <4> SUFFICES ASSUME NEW v \in Users, NEW j \in Creds
                   PROVE  /\ object'[v].passkeys[j] = None <=> object[v].passkeys[j] = None
                          /\ object'[v].passkeys[j].id = object[v].passkeys[j].id
        BY Zenon, <2>4
      <4>1. CASE v = u /\ j = k
        BY Zenon, <1>3, <1>5, <2>3, <2>4, <4>1
      <4>2. CASE ~(v = u /\ j = k)
        BY Zenon, <2>4, <4>2
      <4> QED  BY Zenon, <4>1, <4>2
    <3> QED  BY Zenon, <1>2, <2>10, <2>11, <3>1, IndexQuiet DEF Inv
  <2>17. CounterInv'
    <3>1. \A v \in Users, j \in Creds, i \in Ids : hasPasskey(v, j, i)' => hasPasskey(v, j, i)
      BY Zenon, <1>3, <1>5, <2>3, <2>4 DEF hasPasskey
    <3>2. ASSUME NEW v \in Users, NEW j \in Creds, NEW i \in Ids, NEW m \in 0 .. MaxCounter,
                 hasPasskey(v, j, i)', <<j, i, m>> \in A
          PROVE  m <= object'[v].passkeys[j].counter
      <4>1. CASE v = u /\ j = k
        <5>1. i = row.id /\ object'[v].passkeys[j].counter = n
          BY Zenon, <2>3, <2>4, <3>2, <4>1 DEF hasPasskey
        <5>2. m = n \/ m <= row.counter
          BY Zenon, <2>7, <3>2, <4>1, <5>1 DEF A
        <5> QED  BY <1>3, <2>1, <2>5, <2>6, <5>1, <5>2
      <4>2. CASE ~(v = u /\ j = k)
        <5>1. object'[v].passkeys[j] = object[v].passkeys[j] /\ hasPasskey(v, j, i)
          BY Zenon, <2>4, <3>1, <3>2, <4>2
        <5>2. <<j, i, m>> # <<k, row.id, n>>
          BY Zenon, <1>3, <2>1, <4>2, <5>1 DEF Inv, CounterInv
        <5> QED  BY Zenon, <3>2, <5>1, <5>2 DEF Inv, CounterInv, A
      <4> QED  BY Zenon, <4>1, <4>2
    <3>3. \A v, w \in Users, j \in Creds, i \in Ids :
              hasPasskey(v, j, i)' /\ hasPasskey(w, j, i)' => v = w
      BY Zenon, <3>1 DEF Inv, CounterInv
    <3>4. \A q \in Procs : call'[q].pc \notin Late => call[q].pc \notin Late
      BY Zenon, <2>11, <2>12 DEF Late
    <3>5. \A q \in Procs : call'[q].pc \notin Late =>
              /\ \A v \in Users, j \in Creds : ~hasPasskey(v, j, q)'
              /\ \A j \in Creds, m \in 0 .. MaxCounter : <<j, q, m>> \notin A
      <4> SUFFICES ASSUME NEW q \in Procs, call'[q].pc \notin Late
                   PROVE  /\ \A v \in Users, j \in Creds : ~hasPasskey(v, j, q)'
                          /\ \A j \in Creds, m \in 0 .. MaxCounter : <<j, q, m>> \notin A
        BY Zenon
      <4>1. /\ \A v \in Users, j \in Creds : ~hasPasskey(v, j, q)
            /\ \A j \in Creds, m \in 0 .. MaxCounter : <<j, q, m>> \notin seen.asserted
        BY Zenon, <3>4 DEF Inv, CounterInv
      <4>2. q # row.id
        BY Zenon, <1>3, <2>1, <4>1
      <4> QED  BY Zenon, <3>1, <4>1, <4>2 DEF A, Ids
    <3> QED  BY Zenon, <2>10, <3>2, <3>3, <3>5 DEF CounterInv
  <2> QED  BY <2>13, <2>14, <2>15, <2>16, <2>17 DEF Inv
<1> QED  BY Zenon, <1>1, <1>4, <1>5 DEF advanceCounter

-----------------------------------------------------------------------------
(* Reindex and deletion, alone.                                            *)

\* What a sweep that is alone finds, and what its step does not change.
LEMMA AloneFacts ==
    ASSUME TypeInv, IndexInv, NEW p \in Procs, call[p].pc \in {"batch", "destroy", "drop"},
           NEW d, Moved(p, d), d.pc \in {"done", "drop"}
    PROVE  /\ \A u \in Users, k \in Creds, i \in Ids : hasPasskey(u, k, i) => passkey_index[k] = u
           /\ \A u \in Users, k \in Creds : passkey_index[k] = u =>
                  object[u].live \/ (u = call[p].user /\ call[p].pc # "batch")
           /\ \A q \in Procs, k \in Creds : ~Releasing(q, k)'
           /\ \A q \in Procs : q # p => ~Active(call'[q])
           /\ call'[p] = d
<1>1. /\ call'[p] = d /\ \A q \in Procs : q # p => call'[q] = call[q]
  BY Zenon, MovedOthers DEF TypeInv, TypeOK
<1>2. \A q \in Procs : q # p => ~Active(call[q])
  BY Zenon, SweepAlone
<1>3. /\ \A i, u, k : ~Registering(i, u, k)
      /\ \A q \in Procs, u \in Users : Deleting(q, u) => u = call[p].user /\ call[p].pc # "batch"
  BY Zenon, <1>2 DEF Registering, Deleting, Active
<1>4. \A q \in Procs, k \in Creds : ~Releasing(q, k)'
  BY Zenon, <1>1, <1>2 DEF Releasing, Active
<1>5. \A u \in Users, k \in Creds, i \in Ids : hasPasskey(u, k, i) => passkey_index[k] = u
  BY Zenon, <1>3 DEF IndexInv, Owed, Indexed
<1>6. \A u \in Users, k \in Creds : passkey_index[k] = u =>
          object[u].live \/ (u = call[p].user /\ call[p].pc # "batch")
  BY Zenon, <1>3 DEF IndexInv, IndexLive
<1> QED  BY Zenon, <1>1, <1>2, <1>4, <1>5, <1>6

\* IndexInv after the step of such a sweep.
LEMMA AloneKeeps ==
    ASSUME NEW p \in Procs, NEW d, call'[p] = d, d.pc \in {"done", "drop"},
           \A q \in Procs : q # p => ~Active(call'[q]),
           \A q \in Procs, k \in Creds : ~Releasing(q, k)',
           \A u \in Users, k \in Creds, i \in Ids : hasPasskey(u, k, i)' => passkey_index'[k] = u,
           \A u \in Users, k \in Creds : passkey_index'[k] = u =>
               object'[u].live \/ (d.pc = "drop" /\ d.user = u),
           d.pc = "drop" => held(d.user)' = {}
    PROVE  IndexInv'
<1>1. \A u \in Users : d.pc = "drop" /\ d.user = u => Deleting(p, u)'
  BY Zenon DEF Deleting
<1>2. \A q \in Procs : LiveOk(call[q])'
  BY Zenon DEF LiveOk, Active
<1>3. SweepInv'
  BY Zenon DEF SweepInv
<1>4. Owed' /\ ReleaseInv'
  BY Zenon DEF Owed, Indexed, ReleaseInv
<1>5. IndexLive'
  BY Zenon, <1>1 DEF IndexLive
<1> QED  BY Zenon, <1>2, <1>3, <1>4, <1>5 DEF IndexInv, CallsLive

\* The index rows of a user become those of the passkeys that were read.
LEMMA ReplaceKeeps == ASSUME Inv, NEW p \in Procs, replacePasskeyIndex(p) PROVE Inv'
<1>1. PICK u, K : u = call[p].user /\ K = call[p].creds
  OBVIOUS
<1>2. /\ TypeInv /\ call[p].pc = "batch" /\ UNCHANGED <<object, rows, seen>> /\ Respond(p)
      /\ object \in [Users -> UserObject] /\ CallOk(call[p], seen.issued)
      /\ Active(call[p]) /\ passkey_index \in [Creds -> Optional(Users)]
  BY Zenon DEF Inv, replacePasskeyIndex, At, TypeInv, TypeOK, Active
<1>3. u \in Users
  BY Zenon, <1>1, <1>2 DEF CallOk
<1>4. \/ passkey_index' = passkey_index
      \/ passkey_index' = [k \in Creds |-> IF k \in K THEN u
                                           ELSE IF passkey_index[k] = u THEN None
                                           ELSE passkey_index[k]]
  BY Zenon, <1>1 DEF replacePasskeyIndex
<1>5. passkey_index' \in [Creds -> Optional(Users)]
  BY Zenon, <1>2, <1>3, <1>4 DEF Optional
<1>6. /\ Moved(p, Finished) /\ Finished.pc = "done" /\ ~Active(Finished)
      /\ CallOk(Finished, seen'.issued)
  BY Zenon, <1>2, RespondMoves
<1>7. TypeInv'
  BY Zenon, <1>2, <1>5, <1>6, TypeKept DEF TypeInv, TypeOK
<1>8. CounterInv'
  BY Zenon, <1>2, <1>6, CounterQuiet DEF Inv, Late
<1>9. OwnRemovalKeepsAMethod'
  BY Zenon, <1>2, MethodQuiet DEF Inv
<1>10. ChallengeInv'
  BY Zenon, <1>2, <1>6, ChallengeQuiet DEF Inv
<1>11. ASSUME IndexInv PROVE IndexInv'
  <2>1. /\ \A v \in Users, k \in Creds, i \in Ids : hasPasskey(v, k, i) => passkey_index[k] = v
        /\ \A v \in Users, k \in Creds : passkey_index[k] = v => object[v].live
        /\ \A q \in Procs, k \in Creds : ~Releasing(q, k)'
        /\ \A q \in Procs : q # p => ~Active(call'[q])
        /\ call'[p] = Finished
    BY Zenon, <1>2, <1>6, <1>11, AloneFacts
  <2>2. object[u].live /\ K = held(u)
    BY Zenon, <1>1, <1>2, <1>11 DEF IndexInv, CallsLive, LiveOk
  <2>3. \A v \in Users, k \in Creds, i \in Ids : hasPasskey(v, k, i)' =>
            hasPasskey(v, k, i) /\ (v = u => k \in K)
    BY Zenon, <1>2, <2>2 DEF hasPasskey, held
  <2>4. CASE passkey_index' = passkey_index
    <3>1. /\ \A v \in Users, k \in Creds, i \in Ids : hasPasskey(v, k, i)' => passkey_index'[k] = v
          /\ \A v \in Users, k \in Creds : passkey_index'[k] = v => object'[v].live
      BY Zenon, <1>2, <2>1, <2>3, <2>4
    <3> QED  BY Zenon, <1>6, <2>1, <3>1, AloneKeeps
  <2>5. CASE \A k \in Creds : passkey_index'[k] = IF k \in K THEN u
                                                   ELSE IF passkey_index[k] = u THEN None
                                                   ELSE passkey_index[k]
    <3>1. \A k \in Creds : k \in K => passkey_index[k] = u
      <4> SUFFICES ASSUME NEW k \in Creds, k \in K PROVE passkey_index[k] = u
        BY Zenon
      <4>1. object[u].passkeys[k] \in Passkey
        BY Zenon, <1>2, <1>3, <2>2 DEF held, UserObject, Optional
      <4>2. PICK i \in Ids : object[u].passkeys[k].id = i
        BY Zenon, <4>1 DEF Passkey
      <4>3. hasPasskey(u, k, i)
        BY Zenon, <2>2, <4>2 DEF hasPasskey, held
      <4> QED  BY Zenon, <1>3, <2>1, <4>3
    <3>2. \A v \in Users, k \in Creds, i \in Ids : hasPasskey(v, k, i)' => passkey_index'[k] = v
      <4> SUFFICES ASSUME NEW v \in Users, NEW k \in Creds, NEW i \in Ids, hasPasskey(v, k, i)'
                   PROVE  passkey_index'[k] = v
        BY Zenon
      <4>1. passkey_index[k] = v /\ (v = u => k \in K)
        BY Zenon, <2>1, <2>3
      <4>2. CASE k \in K
        BY Zenon, <2>5, <3>1, <4>1, <4>2
      <4>3. CASE k \notin K
        BY Zenon, <2>5, <4>1, <4>3
      <4> QED  BY Zenon, <4>2, <4>3
    <3>3. \A v \in Users, k \in Creds : passkey_index'[k] = v => object'[v].live
      <4> SUFFICES ASSUME NEW v \in Users, NEW k \in Creds, passkey_index'[k] = v PROVE object'[v].live
        BY Zenon
      <4>1. v = u \/ passkey_index[k] = v
        BY Zenon, <2>5, Nones
      <4> QED  BY Zenon, <1>2, <2>1, <2>2, <4>1
    <3> QED  BY Zenon, <1>6, <2>1, <3>2, <3>3, AloneKeeps
  <2> QED  BY Zenon, <1>4, <2>4, <2>5
<1> QED  BY Zenon, <1>2, <1>7, <1>8, <1>9, <1>10, <1>11 DEF Inv

\* The object of a user is emptied.
LEMMA DestroyKeeps == ASSUME Inv, NEW p \in Procs, destroyUser(p) PROVE Inv'
<1>1. PICK u, d : u = call[p].user /\ d = [call[p] EXCEPT !.pc = "drop"]
  BY Zenon
<1>2. /\ TypeInv /\ call[p].pc = "destroy" /\ UNCHANGED <<passkey_index, rows, seen>>
      /\ object \in [Users -> UserObject] /\ CallOk(call[p], seen.issued)
      /\ Active(call[p]) /\ Goto(p, "drop")
  BY Zenon DEF Inv, destroyUser, At, TypeInv, TypeOK, Active, d1
<1>3. u \in Users
  BY <1>1, <1>2 DEF CallOk
<1>4. object' = [object EXCEPT ![u] = Empty]
  BY <1>1 DEF destroyUser
<1>5. Empty \in UserObject
  BY PasskeysAssumption DEF Empty, UserObject, Optional
<1>6. /\ object' \in [Users -> UserObject]
      /\ \A v \in Users : object'[v] = IF v = u THEN Empty ELSE object[v]
      /\ ~Empty.live /\ Empty.challenge = None /\ \A k \in Creds : Empty.passkeys[k] = None
  <2>1. ~Empty.live /\ Empty.challenge = None /\ \A k \in Creds : Empty.passkeys[k] = None
    BY Zenon DEF Empty
  <2>2. PICK e : e = Empty
    OBVIOUS
  <2>3. object' \in [Users -> UserObject] /\ \A v \in Users : object'[v] = IF v = u THEN e ELSE object[v]
    BY Zenon, <1>2, <1>3, <1>4, <1>5, <2>2
  <2> QED  BY Zenon, <2>1, <2>2, <2>3
<1>7. Moved(p, d) /\ d.pc = "drop" /\ d.op = call[p].op /\ d.user = u
  BY <1>1, <1>2, GotoMoves DEF Steps
<1>8. CallOk(d, seen.issued)
  BY Zenon, <1>2, <1>3, <1>7 DEF CallOk
<1>9. TypeInv'
  BY Zenon, <1>2, <1>6, <1>7, <1>8, TypeKept DEF TypeInv, TypeOK
<1>10. CounterInv'
  BY Zenon, <1>2, <1>6, <1>7, CounterQuiet DEF Inv, Late
<1>11. OwnRemovalKeepsAMethod'
  BY Zenon, <1>2, <1>6, MethodQuiet DEF Inv
<1>12. ChallengeInv'
  BY Zenon, <1>2, <1>6, <1>7, ChallengeQuiet DEF Inv
<1>13. ASSUME IndexInv PROVE IndexInv'
  <2>1. /\ \A v \in Users, k \in Creds, i \in Ids : hasPasskey(v, k, i) => passkey_index[k] = v
        /\ \A v \in Users, k \in Creds : passkey_index[k] = v => object[v].live \/ v = u
        /\ \A q \in Procs, k \in Creds : ~Releasing(q, k)'
        /\ \A q \in Procs : q # p => ~Active(call'[q])
        /\ call'[p] = d
    BY Zenon, <1>1, <1>2, <1>7, <1>13, AloneFacts
  <2>2. \A v \in Users, k \in Creds, i \in Ids : hasPasskey(v, k, i)' => passkey_index'[k] = v
    BY <1>2, <1>6, <2>1 DEF hasPasskey
  <2>3. \A v \in Users, k \in Creds : passkey_index'[k] = v => object'[v].live \/ u = v
    BY Zenon, <1>2, <1>6, <2>1
  <2>4. held(u)' = {}
    BY Zenon, <1>3, <1>6 DEF held
  <2> QED  BY Zenon, <1>7, <2>1, <2>2, <2>3, <2>4, AloneKeeps
<1> QED  BY Zenon, <1>2, <1>9, <1>10, <1>11, <1>12, <1>13 DEF Inv

\* The user's row goes, and the index rows with it.
LEMMA DropKeeps == ASSUME Inv, NEW p \in Procs, deleteUserRow(p) PROVE Inv'
<1>1. PICK u : u = call[p].user
  OBVIOUS
<1>2. /\ TypeInv /\ call[p].pc = "drop" /\ UNCHANGED <<object, seen>> /\ Respond(p)
      /\ object \in [Users -> UserObject] /\ CallOk(call[p], seen.issued)
      /\ Active(call[p]) /\ passkey_index \in [Creds -> Optional(Users)] /\ rows \subseteq Users
  BY Zenon DEF Inv, deleteUserRow, At, TypeInv, TypeOK, Active
<1>3. u \in Users
  BY Zenon, <1>1, <1>2 DEF CallOk
<1>4. /\ passkey_index' = [k \in Creds |-> IF passkey_index[k] = u THEN None ELSE passkey_index[k]]
      /\ rows' = rows \ {u}
  BY Zenon, <1>1 DEF deleteUserRow
<1>5. passkey_index' \in [Creds -> Optional(Users)] /\ rows' \subseteq Users
  BY Zenon, <1>2, <1>4 DEF Optional
<1>6. /\ Moved(p, Finished) /\ Finished.pc = "done" /\ ~Active(Finished)
      /\ CallOk(Finished, seen'.issued)
  BY Zenon, <1>2, RespondMoves
<1>7. TypeInv'
  BY Zenon, <1>2, <1>5, <1>6, TypeKept DEF TypeInv, TypeOK
<1>8. CounterInv'
  BY Zenon, <1>2, <1>6, CounterQuiet DEF Inv, Late
<1>9. OwnRemovalKeepsAMethod'
  BY Zenon, <1>2, MethodQuiet DEF Inv
<1>10. ChallengeInv'
  BY Zenon, <1>2, <1>6, ChallengeQuiet DEF Inv
<1>11. ASSUME IndexInv PROVE IndexInv'
  <2>1. /\ \A v \in Users, k \in Creds, i \in Ids : hasPasskey(v, k, i) => passkey_index[k] = v
        /\ \A v \in Users, k \in Creds : passkey_index[k] = v => object[v].live \/ v = u
        /\ \A q \in Procs, k \in Creds : ~Releasing(q, k)'
        /\ \A q \in Procs : q # p => ~Active(call'[q])
        /\ call'[p] = Finished
    <3>1. /\ \A v \in Users, k \in Creds, i \in Ids : hasPasskey(v, k, i) => passkey_index[k] = v
          /\ \A v \in Users, k \in Creds : passkey_index[k] = v =>
                 object[v].live \/ (v = call[p].user /\ call[p].pc # "batch")
          /\ \A q \in Procs, k \in Creds : ~Releasing(q, k)'
          /\ \A q \in Procs : q # p => ~Active(call'[q])
          /\ call'[p] = Finished
      BY Zenon, <1>2, <1>6, <1>11, AloneFacts
    <3> QED  BY Zenon, <1>1, <3>1
  <2>2. \A k \in Creds : object[u].passkeys[k] = None
    BY Zenon, <1>1, <1>2, <1>11 DEF IndexInv, CallsLive, LiveOk, held
  <2>3. \A v \in Users, k \in Creds, i \in Ids : hasPasskey(v, k, i)' => passkey_index'[k] = v
    <3>1. \A v \in Users, k \in Creds, i \in Ids : hasPasskey(v, k, i)' => hasPasskey(v, k, i) /\ v # u
      BY Zenon, <1>2, <2>2 DEF hasPasskey
    <3> QED  BY Zenon, <1>4, <2>1, <3>1
  <2>4. \A v \in Users, k \in Creds : passkey_index'[k] = v => object'[v].live
    BY Zenon, <1>2, <1>3, <1>4, <2>1, Nones
  <2> QED  BY Zenon, <1>6, <2>1, <2>3, <2>4, AloneKeeps
<1> QED  BY Zenon, <1>2, <1>7, <1>8, <1>9, <1>10, <1>11 DEF Inv

-----------------------------------------------------------------------------
(* The theorems.                                                           *)

\* The invariant holds initially.
LEMMA InitInv == ASSUME Init PROVE Inv
<1>1. PICK linked \in [Users -> BOOLEAN] :
          object = [u \in Users |->
                      [Empty EXCEPT !.live = TRUE, !.identity = linked[u],
                         !.passkeys = [k \in Creds |-> IF passkey_index[k] = u
                                                       THEN [id |-> Origin, counter |-> 0] ELSE None]]]
  BY Zenon DEF Init
<1>2. PICK o : o = [id |-> Origin, counter |-> 0]
  BY Zenon
<1>3. o \in Passkey /\ o.id = Origin /\ o # None /\ o.counter = 0
  BY <1>2, PasskeysAssumption, Nones DEF Passkey, Ids
<1>4. Empty \in UserObject
  BY PasskeysAssumption DEF Empty, UserObject, Optional
<1>5. ASSUME NEW u \in Users
      PROVE  /\ object[u] \in UserObject /\ object[u].live = TRUE /\ object[u].challenge = None
             /\ \A k \in Creds : object[u].passkeys[k] = IF passkey_index[k] = u THEN o ELSE None
  <2>1. PICK m : m = [k \in Creds |-> IF passkey_index[k] = u THEN o ELSE None]
    BY Zenon
  <2>2. m \in [Creds -> Optional(Passkey)] /\ linked[u] \in BOOLEAN
    BY Zenon, <1>3, <2>1 DEF Optional
  <2>3. PICK b \in BOOLEAN : b = linked[u]
    BY Zenon, <2>2
  <2>4. object[u] = [Empty EXCEPT !.live = TRUE, !.identity = b, !.passkeys = m]
    BY Zenon, <1>1, <1>2, <2>1, <2>3
  <2>5. Empty.challenge = None
    BY Zenon DEF Empty
  <2>6. object[u] \in UserObject /\ object[u].live = TRUE /\ object[u].passkeys = m
        /\ object[u].challenge = Empty.challenge
    BY Zenon, <1>4, <2>2, <2>3, <2>4 DEF UserObject
  <2> QED  BY Zenon, <2>1, <2>5, <2>6
<1>6. TypeInv
  <2>1. object \in [Users -> UserObject]
    BY Zenon, <1>1, <1>5
  <2>2. call = [p \in Procs |-> Idle] /\ call \in [Procs -> Call]
    BY Zenon, IdleTyped DEF Init
  <2>3. seen \in Seen /\ seen.issued = {} /\ IsFiniteSet(seen.issued)
    BY Zenon, FS_EmptySet DEF Init, Seen
  <2>4. \A p \in Procs : CallOk(call[p], seen.issued)
    BY Zenon, <2>2 DEF CallOk, Idle, Active
  <2>5. passkey_index \in [Creds -> Optional(Users)] /\ rows \subseteq Users
    BY Zenon DEF Init
  <2> QED  BY Zenon, <2>1, <2>2, <2>3, <2>4, <2>5 DEF TypeInv, TypeOK
<1>7. CounterInv
  <2>1. \A u \in Users, k \in Creds, i \in Ids : hasPasskey(u, k, i) => passkey_index[k] = u /\ i = Origin
    BY Zenon, <1>3, <1>5 DEF hasPasskey
  <2>2. seen.asserted = {} /\ ~seen.replayed
    BY Zenon DEF Init
  <2> QED  BY Zenon, <2>1, <2>2, PasskeysAssumption DEF CounterInv, Ids
<1>8. OwnRemovalKeepsAMethod
  BY Zenon DEF Init, OwnRemovalKeepsAMethod
<1>9. ChallengeInv
  <2>1. Waiting = {}
    BY Zenon, <1>5 DEF Waiting
  <2>2. seen.issued = {} /\ seen.accepted = 0
    BY Zenon DEF Init
  <2>3. Cardinality({}) = 0
    BY Zenon, FS_EmptySet
  <2> QED  BY <2>1, <2>2, <2>3 DEF ChallengeInv
<1>10. IndexInv
  <2>1. \A p \in Procs : call[p] = Idle /\ ~Active(call[p]) /\ call[p].pc = "idle"
    BY Zenon DEF Init, Idle, Active
  <2>2. \A p \in Procs, k \in Creds : ~Releasing(p, k)
    BY Zenon, <2>1 DEF Releasing
  <2>3. \A p \in Procs : LiveOk(call[p])
    BY Zenon, <2>1 DEF LiveOk
  <2>4. Owed
    BY Zenon, <1>5, <2>2 DEF Owed, Indexed, hasPasskey
  <2>5. ReleaseInv /\ SweepInv /\ CallsLive
    BY Zenon, <2>1, <2>2, <2>3 DEF ReleaseInv, SweepInv, CallsLive
  <2>6. IndexLive
    BY Zenon, <1>5 DEF IndexLive
  <2> QED  BY Zenon, <2>4, <2>5, <2>6 DEF IndexInv
<1> QED  BY <1>6, <1>7, <1>8, <1>9, <1>10 DEF Inv

\* A step that changes nothing.
LEMMA StutterKeeps == ASSUME Inv, UNCHANGED vars PROVE Inv'
<1>1. UNCHANGED <<object, passkey_index, rows, call, seen>>
  BY DEF vars
<1>2. TypeInv'
  BY Zenon, <1>1 DEF Inv, TypeInv, TypeOK
<1>3. CounterInv'
  BY Zenon, <1>1 DEF Inv, CounterInv, hasPasskey
<1>4. OwnRemovalKeepsAMethod'
  BY Zenon, <1>1 DEF Inv, OwnRemovalKeepsAMethod, held
<1>5. ChallengeInv'
  BY Zenon, <1>1 DEF Inv, ChallengeInv, Waiting
<1>6. IndexInv => IndexInv'
  <2>1. /\ \A i, u, k : Registering(i, u, k)' <=> Registering(i, u, k)
        /\ \A q \in Procs, k \in Creds : Releasing(q, k)' <=> Releasing(q, k)
        /\ \A q \in Procs, u \in Users : Deleting(q, u)' <=> Deleting(q, u)
    BY Zenon, <1>1 DEF Registering, Releasing, Deleting
  <2>2. \A q \in Procs : LiveOk(call[q])' <=> LiveOk(call[q])
    BY Zenon, <1>1 DEF LiveOk, held
  <2>3. Owed => Owed'
    BY Zenon, <1>1, <2>1 DEF Owed, Indexed, hasPasskey
  <2>4. ReleaseInv => ReleaseInv'
    BY Zenon, <1>1, <2>1 DEF ReleaseInv
  <2>5. SweepInv => SweepInv'
    BY Zenon, <1>1 DEF SweepInv
  <2>6. IndexLive => IndexLive'
    BY Zenon, <1>1, <2>1 DEF IndexLive
  <2>7. CallsLive => CallsLive'
    BY Zenon, <2>2 DEF CallsLive
  <2> QED  BY Zenon, <2>3, <2>4, <2>5, <2>6, <2>7 DEF IndexInv
<1> QED  BY Zenon, <1>1, <1>2, <1>3, <1>4, <1>5, <1>6 DEF Inv

\* Every step keeps it.
LEMMA NextKeeps == ASSUME Inv, [Next]_vars PROVE Inv'
<1>1. ASSUME NEW p \in Procs, CeremonyNext(p) PROVE Inv'
  BY <1>1, CeremonyBegins, AttemptKeeps, PutChallengeKeeps, TakeChallengeKeeps DEF CeremonyNext
<1>2. ASSUME NEW p \in Procs, RegisterNext(p) PROVE Inv'
  BY Zenon, <1>2, CeremonyBegins, LookupKeeps, AddKeeps, ClaimKeeps, RollbackKeeps DEF RegisterNext
<1>3. ASSUME NEW p \in Procs, RemoveNext(p) PROVE Inv'
  BY <1>3, RemovalBegins, RemoveKeeps, ReleaseKeeps, UnlinkKeeps DEF RemoveNext
<1>4. ASSUME NEW p \in Procs, AssertNext(p) PROVE Inv'
  BY Zenon, <1>4, AssertionBegins, ReadKeeps, AdvanceKeeps DEF AssertNext
<1>5. ASSUME NEW p \in Procs, SweepNext(p) PROVE Inv'
  BY <1>5, SweepBegins, ReplaceKeeps, DestroyKeeps, DropKeeps DEF SweepNext
<1> QED  BY Zenon, <1>1, <1>2, <1>3, <1>4, <1>5, StopKeeps, StutterKeeps DEF Next

\* The inductive invariant holds of every state.
THEOREM InvariantHolds == Spec => []Inv
<1>1. Init => Inv
  BY InitInv
<1>2. Inv /\ [Next]_vars => Inv'
  BY NextKeeps
<1> QED  BY <1>1, <1>2, PTL DEF Spec

\* A passkey no request is about is indexed to its user, for any number of
\* registrations, removals, assertions and sweeps, but for the exceptions the
\* property names.
THEOREM IndexIsComplete == Spec => []HeldIsIndexed
<1>1. Inv => HeldIsIndexed
  <2> SUFFICES ASSUME Inv, ~seen.torn, NEW u \in Users, NEW k \in held(u)
               PROVE  passkey_index[k] = u \/ \E p \in Procs : call[p].cred = k
    BY Zenon DEF HeldIsIndexed
  <2>1. k \in Creds /\ object[u].passkeys[k] # None
    BY Zenon DEF held
  <2>2. object[u].passkeys[k] \in Passkey
    BY <2>1 DEF Inv, TypeInv, TypeOK, UserObject, Optional
  <2>3. PICK i \in Ids : object[u].passkeys[k].id = i
    BY Zenon, <2>2 DEF Passkey
  <2>4. Registering(i, u, k) \/ Indexed(u, k)
    BY Zenon, <2>1, <2>3 DEF Inv, IndexInv, Owed, hasPasskey
  <2> QED  BY Zenon, <2>4 DEF Registering, Indexed
<1> QED  BY <1>1, InvariantHolds, PTL

\* No order of a user's own removals takes their last login method.
THEOREM AMethodRemains == Spec => []OwnRemovalKeepsAMethod
<1>1. Inv => OwnRemovalKeepsAMethod
  BY DEF Inv
<1> QED  BY <1>1, InvariantHolds, PTL

\* A signature counter is accepted once for one passkey, whatever assertions
\* overlap.
THEOREM CountersAdvance == Spec => []CounterAcceptedOnce
<1>1. Inv => CounterAcceptedOnce
  BY Zenon DEF Inv, CounterInv, CounterAcceptedOnce
<1> QED  BY <1>1, InvariantHolds, PTL

\* No challenge of Self-service is accepted twice.
THEOREM ChallengesAreSingleUse == Spec => []ChallengeUsedOnce
<1>1. ASSUME Inv PROVE ChallengeUsedOnce
  <2>1. IsFiniteSet(Waiting)
    BY Zenon, PasskeysAssumption, FS_Subset DEF Waiting
  <2>2. /\ Cardinality(Waiting) \in Nat /\ Cardinality(seen.issued) \in Nat /\ seen.accepted \in Nat
    BY Zenon, <1>1, <2>1, FS_CardinalityType DEF Inv, TypeInv, Seen
  <2> QED  BY <1>1, <2>2 DEF Inv, ChallengeInv, ChallengeUsedOnce
<1>2. Inv => ChallengeUsedOnce
  BY <1>1
<1> QED  BY <1>2, InvariantHolds, PTL
=============================================================================
