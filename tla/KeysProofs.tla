---------------------------- MODULE KeysProofs ------------------------------
(* Machine-checked theorems about Keys, for every number of isolates,      *)
(* requests and runs of the cron, of keys, and for every setting that the  *)
(* assumptions of Keys allow.                                              *)
EXTENDS Keys, FiniteSetTheorems, WellFoundedInduction, TLAPS

-----------------------------------------------------------------------------
(* Extrema.                                                                *)

\* A set of naturals has a least element.
LEMMA LeastExists ==
    ASSUME NEW S \in SUBSET Nat, S # {}
    PROVE  \E m \in S : \A x \in S : m <= x
<1>1. \A x, y \in Nat : x < y => <<x, y>> \in OpToRel(<, Nat)
  BY Zenon DEF OpToRel
<1>2. \E m \in S : \A x \in S : ~(<<x, m>> \in OpToRel(<, Nat))
  BY Zenon, NatLessThanWellFounded, WFMin
<1>3. \E m \in S : \A x \in S : ~(x < m)
  BY Zenon, <1>1, <1>2
<1> QED  BY <1>3

\* A bounded set of naturals has a greatest one.
LEMMA GreatestExists ==
    ASSUME NEW B \in Nat, NEW S \in SUBSET (0 .. B), S # {}
    PROVE  \E m \in S : \A x \in S : x <= m
<1> DEFINE T == {B - x : x \in S}
<1>1. T \in SUBSET Nat
  OBVIOUS
<1>0. T # {}
  BY Zenon
<1>2. PICK t \in T : \A y \in T : t <= y
  BY Zenon, <1>0, <1>1, LeastExists
<1>3. PICK m \in S : t = B - m
  OBVIOUS
<1>4. \A x \in S : x <= m
  <2> SUFFICES ASSUME NEW x \in S PROVE x <= m
    OBVIOUS
  <2>1. t <= B - x
    BY <1>2
  <2> QED  BY <1>3, <2>1
<1> QED  BY <1>4

-----------------------------------------------------------------------------
(* The inductive invariant.                                                *)

Seen == [used : SUBSET Kids, first : SUBSET Kids, emergency : BOOLEAN, overlapped : BOOLEAN]

TypeInv ==
    /\ clock \in Times
    /\ signing_keys \in [Kids -> SigningKeyRow \cup {None}]
    /\ cached \in [Isolates -> Entry \cup {None}]
    /\ load \in [Isolates -> [Kinds -> Loads]]
    /\ call \in [Procs -> Call \cup {None}]
    /\ expires \in [Kids -> 0 .. MaxTime + TokenTtl]
    /\ seen \in Seen

Live == Unretired(signing_keys)
ActiveNow == Active(signing_keys, clock)
activates(k) == signing_keys[k].activates_at

\* Every key there is was generated once.
UsedInv ==
    /\ Rows \subseteq seen.used /\ seen.first \subseteq seen.used
    /\ \A p \in Procs : call[p] # None =>
           call[p].kids \subseteq seen.used /\ (call[p].pc = "insert" => seen.used # {})

\* What an isolate verifies with was there when it was read, and is retired or
\* deleted only since.
KeptFrom(k, at) ==
    /\ k \in seen.used
    /\ k \in Rows => signing_keys[k].retired_at = None \/ signing_keys[k].retired_at >= at
    /\ k \notin Rows => clock - at > Retention

EntryOk(e) ==
    /\ e.at <= clock /\ clock - e.at < KEYS_STALE
    /\ e.loaded.signing \in e.loaded.jwks
    /\ \A k \in e.loaded.jwks : KeptFrom(k, e.at)

CacheInv == \A i \in Isolates : cached[i] # None => EntryOk(cached[i])

FirstInv == \A j, k \in seen.first \cap Live : j = k

\* An active key is left when every retirement decided is written.
Spared(kids) == ActiveNow \ kids # {}

ActiveInv ==
    ~seen.overlapped =>
        /\ seen.used # {} => ActiveNow # {}
        /\ \A p \in Procs : Deciding(p) => Spared(call[p].kids)

\* A key was published to an isolate long before it can sign.
Published(e) ==
    \A k \in Live : k \in e.loaded.jwks \/ activates(k) >= e.at + Prepublish

\* An isolate signs with the latest key of those that had activated.
SignsLatest(e) ==
    /\ e.loaded.signing \in Live /\ activates(e.loaded.signing) <= e.at
    /\ \A j \in Live : activates(j) <= activates(e.loaded.signing) \/ activates(j) > e.at

\* The last token of a key was signed before every isolate knew its successor.
LastToken(k) ==
    clock < expires[k] =>
        /\ k \in Live /\ activates(k) <= clock
        /\ \A j \in Live : activates(j) > activates(k) =>
               expires[k] < activates(j) + KEYS_STALE + TokenTtl

\* The cron retires a key when a successor has signed long enough.
Succeeded(k) ==
    k \in Live => \E s \in Live : activates(s) + RetireAfter <= clock /\ activates(k) < activates(s)

CachesKnow == \A i \in Isolates : cached[i] # None => Published(cached[i]) /\ SignsLatest(cached[i])
TokensLast == \A k \in Kids : LastToken(k)
CronWaits == \A p \in Procs : Deciding(p) /\ call[p].op # "retire" =>
                 \A k \in call[p].kids : Succeeded(k)

\* A key is published before it signs for as long as a stale cache serves.
Ahead == Prepublish >= KEYS_STALE

TokenInv ==
    /\ \A k \in Kids : expires[k] <= clock + TokenTtl
    /\ ~seen.emergency /\ Ahead => CachesKnow /\ TokensLast /\ CronWaits

Inv == TypeInv /\ UsedInv /\ CacheInv /\ FirstInv /\ ActiveInv /\ TokenInv

-----------------------------------------------------------------------------
(* The roles of keys.                                                      *)

\* The constants are naturals, and the kids are bounded.
LEMMA Bounds ==
    /\ Cardinality(Kids) \in Nat /\ Kids \subseteq 0 .. Cardinality(Kids) /\ Kids \subseteq Nat
    /\ KEYS_TTL \in Nat /\ KEYS_STALE \in Nat /\ Retention \in Nat /\ Rotation \in Nat
    /\ Prepublish \in Nat /\ RetireAfter \in Nat /\ TokenTtl \in Nat /\ MaxTime \in Nat
    /\ MaxTime > 0 /\ KEYS_TTL > 0 /\ KEYS_STALE > KEYS_TTL /\ RetireAfter > TokenTtl + KEYS_STALE
    /\ KEYS_TTL <= Retention + 1
<1>1. Cardinality(Kids) \in Nat
  BY KeysAssumption, FS_CardinalityType
<1>2. Kids \subseteq 0 .. Cardinality(Kids) /\ Kids \subseteq Nat
  <2>1. PICK n \in Nat : n = Cardinality(Kids)
    BY Zenon, <1>1
  <2>2. Kids = 1 .. n
    BY Zenon, <2>1, KeysAssumption
  <2>3. Kids \subseteq 0 .. n /\ Kids \subseteq Nat
    BY <2>2
  <2> QED  BY Zenon, <2>1, <2>3
<1>3. /\ KEYS_TTL \in Nat /\ KEYS_STALE \in Nat /\ Retention \in Nat /\ Rotation \in Nat
      /\ Prepublish \in Nat /\ RetireAfter \in Nat /\ TokenTtl \in Nat /\ MaxTime \in Nat
  BY Zenon, KeysAssumption
<1> QED  BY Zenon, <1>1, <1>2, <1>3, KeysAssumption

\* A key that is generated is new.
LEMMA NextIsNew ==
    ASSUME seen \in Seen, NextKid # None
    PROVE  NextKid \in Kids /\ NextKid \notin seen.used
<1> DEFINE F == Kids \ seen.used
<1>1. F # {}
  BY Zenon DEF NextKid
<1>2. F \in SUBSET Nat
  BY Zenon, Bounds
<1>3. \E k \in F : \A j \in F : k <= j
  BY Zenon, <1>1, <1>2, LeastExists
<1>4. NextKid = CHOOSE k \in F : \A j \in F : k <= j
  BY Zenon, <1>1 DEF NextKid
<1> QED  BY Zenon, <1>3, <1>4

\* The signing key is active and no other activated later.
LEMMA SigningIsLatest ==
    ASSUME NEW rows \in [Kids -> SigningKeyRow \cup {None}], NEW now,
           deriveSigning(rows, now) # None
    PROVE  /\ deriveSigning(rows, now) \in Active(rows, now)
           /\ \A j \in Active(rows, now) :
                  rows[j].activates_at <= rows[deriveSigning(rows, now)].activates_at
<1> DEFINE A == Active(rows, now)
           After(k, j) == \/ rows[k].activates_at > rows[j].activates_at
                          \/ /\ rows[k].activates_at = rows[j].activates_at
                             /\ \/ rows[k].created_at > rows[j].created_at
                                \/ rows[k].created_at = rows[j].created_at /\ k >= j
<1>1. A # {} /\ deriveSigning(rows, now) = CHOOSE k \in A : \A j \in A : After(k, j)
  BY Zenon DEF deriveSigning
<1>2. \A k \in A : /\ k \in Kids /\ rows[k].activates_at \in 0 .. (MaxTime + Prepublish)
                   /\ rows[k].created_at \in 0 .. MaxTime
  BY DEF Active, Unretired, SigningKeyRow, Times
<1> HIDE DEF A
<1>3. PICK a \in A : \A j \in A : rows[j].activates_at <= rows[a].activates_at
  <2> DEFINE S == {rows[k].activates_at : k \in A}
  <2>1. S \in SUBSET (0 .. (MaxTime + Prepublish)) /\ S # {}
    BY Zenon, <1>1, <1>2
  <2>2. MaxTime + Prepublish \in Nat
    BY Bounds
  <2>3. PICK m \in S : \A x \in S : x <= m
    BY Zenon, <2>1, <2>2, GreatestExists
  <2> QED  BY <2>3
<1> DEFINE B == {k \in A : rows[k].activates_at = rows[a].activates_at}
<1>4. PICK b \in B : \A j \in B : rows[j].created_at <= rows[b].created_at
  <2> DEFINE S == {rows[k].created_at : k \in B}
  <2>1. S \in SUBSET (0 .. MaxTime) /\ S # {}
    BY Zenon, <1>2
  <2>2. PICK m \in S : \A x \in S : x <= m
    BY Zenon, <2>1, GreatestExists, Bounds
  <2> QED  BY <2>2
<1> DEFINE C == {k \in B : rows[k].created_at = rows[b].created_at}
<1>5. PICK c \in C : \A j \in C : j <= c
  <2>1. C \in SUBSET (0 .. Cardinality(Kids)) /\ C # {}
    BY Zenon, <1>2, Bounds
  <2> QED  BY Zenon, <2>1, GreatestExists, Bounds
<1>6. c \in A /\ \A j \in A : After(c, j)
  <2>1. /\ c \in A /\ rows[c].activates_at = rows[a].activates_at
        /\ rows[c].created_at = rows[b].created_at
    BY Zenon, <1>5
  <2> SUFFICES ASSUME NEW j \in A PROVE After(c, j)
    BY Zenon, <2>1
  <2>2. rows[j].activates_at <= rows[c].activates_at
    BY <1>3, <2>1
  <2>3. rows[j].activates_at = rows[c].activates_at => rows[j].created_at <= rows[c].created_at
    BY <1>4, <2>1
  <2>4. rows[j].activates_at = rows[c].activates_at /\ rows[j].created_at = rows[c].created_at => j <= c
    BY <1>5, <2>1
  <2> QED  BY <1>2, <2>1, <2>2, <2>3, <2>4, Bounds
<1>7. PICK s \in A : s = deriveSigning(rows, now) /\ \A j \in A : After(s, j)
  BY Zenon, <1>1, <1>6
<1>8. \A j \in A : rows[j].activates_at <= rows[s].activates_at
  BY <1>2, <1>7, Bounds
<1> QED  BY Zenon, <1>7, <1>8 DEF A

-----------------------------------------------------------------------------
(* The statements.                                                         *)

\* A row's retirement is written once, and a row is deleted long after it.
RowsMove == \A k \in seen.used :
    /\ k \in Rows' =>
           /\ k \in Rows
           /\ \/ signing_keys'[k].retired_at = signing_keys[k].retired_at
              \/ signing_keys[k].retired_at = None /\ signing_keys'[k].retired_at = clock
    /\ k \in Rows /\ k \notin Rows' =>
           signing_keys[k].retired_at # None /\ signing_keys[k].retired_at < clock - Retention

\* The keys that are not retired and their activation stay.
SameLive == Live' = Live /\ \A k \in Live : activates(k)' = activates(k)

\* null is no row, no time, no entry and no request.
LEMMA Nones == /\ None \notin SigningKeyRow /\ None \notin Entry /\ None \notin Call
               /\ None \notin Nat /\ None \notin Kids
<1>1. None \notin SigningKeyRow /\ None \notin Entry /\ None \notin Call /\ None \notin Nat
  BY Zenon, NoneAssumption
<1> QED  BY Zenon, <1>1, Bounds

\* The fields of a row.
LEMMA RowFields ==
    ASSUME signing_keys \in [Kids -> SigningKeyRow \cup {None}], NEW k \in Rows
    PROVE  /\ k \in Kids /\ signing_keys[k] \in SigningKeyRow
           /\ activates(k) \in 0 .. MaxTime + Prepublish /\ activates(k) \in Nat
           /\ signing_keys[k].retired_at \in Times \cup {None}
           /\ signing_keys[k].retired_at # None => signing_keys[k].retired_at \in Nat
<1>1. k \in Kids /\ signing_keys[k] \in SigningKeyRow
  BY DEF Rows
<1>2. MaxTime + Prepublish \in Nat
  BY Bounds
<1> QED  BY <1>1, <1>2 DEF SigningKeyRow, activates, Times

\* A key that is not retired has a row.
LEMMA LiveRows == Live \subseteq Rows /\ ActiveNow \subseteq Live
BY DEF Live, Unretired, Rows, ActiveNow, Active

\* insertSigningKey adds one new key.
LEMMA InsertRows ==
    ASSUME TypeInv, UsedInv, NEW a \in 0 .. MaxTime + Prepublish, insertSigningKey(clock, a)
    PROVE  \E k \in Kids :
               /\ k \notin seen.used
               /\ signing_keys' \in [Kids -> SigningKeyRow \cup {None}]
               /\ Used(signing_keys') = seen.used \cup {k}
               /\ Rows' = Rows \cup {k}
               /\ Live' = Live \cup {k}
               /\ activates(k)' = a
               /\ \A j \in Kids : j # k => signing_keys'[j] = signing_keys[j]
<1>0. PICK k : k = NextKid
  OBVIOUS
<1>1. k \in Kids /\ k \notin seen.used
  BY <1>0, NextIsNew DEF insertSigningKey, TypeInv
<1>2. PICK r : r = [created_at |-> clock, activates_at |-> a, retired_at |-> None, private_jwk_enc |-> "active"]
  BY Zenon
<1>3. r \in SigningKeyRow /\ r.activates_at = a /\ r.retired_at = None /\ r # None
  BY <1>2, Nones DEF SigningKeyRow, TypeInv, Versions
<1>4. signing_keys' = [signing_keys EXCEPT ![k] = r]
  BY Zenon, <1>0, <1>2 DEF insertSigningKey
<1>5. /\ signing_keys' \in [Kids -> SigningKeyRow \cup {None}]
      /\ signing_keys'[k] = r
      /\ \A j \in Kids : j # k => signing_keys'[j] = signing_keys[j]
  BY <1>1, <1>3, <1>4 DEF TypeInv
<1>6. Rows' = Rows \cup {k}
  BY <1>1, <1>3, <1>5 DEF Rows
<1>7. Live' = Live \cup {k}
  BY <1>1, <1>3, <1>5 DEF Live, Unretired
<1>8. Used(signing_keys') = seen.used \cup {k}
  BY <1>1, <1>3, <1>5 DEF Used, UsedInv, Rows
<1>9. activates(k)' = a
  BY <1>3, <1>5 DEF activates
<1> QED  BY <1>1, <1>5, <1>6, <1>7, <1>8, <1>9

\* What follows for the keys there were before.
LEMMA InsertMoves ==
    ASSUME TypeInv, UsedInv, NEW k \in Kids, k \notin seen.used, Rows' = Rows \cup {k},
           Live' = Live \cup {k}, \A j \in Kids : j # k => signing_keys'[j] = signing_keys[j]
    PROVE  /\ RowsMove
           /\ \A j \in Live : activates(j)' = activates(j) /\ j # k
           /\ clock' = clock => ActiveNow \subseteq ActiveNow'
<1>1. \A j \in Rows : j # k /\ j \in Kids
  BY DEF UsedInv, Rows
<1>2. RowsMove
  BY <1>1 DEF RowsMove, TypeInv, Seen
<1>3. \A j \in Live : activates(j)' = activates(j) /\ j # k
  BY <1>1, LiveRows DEF activates
<1>4. clock' = clock => ActiveNow \subseteq ActiveNow'
  BY <1>1, LiveRows DEF ActiveNow, Active, Unretired
<1> QED  BY <1>2, <1>3, <1>4

\* retireSigningKey retires one key.
LEMMA RetireRows ==
    ASSUME TypeInv, NEW k \in Kids, retireSigningKey(k, clock)
    PROVE  /\ signing_keys' \in [Kids -> SigningKeyRow \cup {None}]
           /\ Rows' = Rows /\ RowsMove
           /\ Live' = Live \ {k}
           /\ \A j \in Live : activates(j)' = activates(j)
<1>1. CASE k \in Live
  <2>1. PICK r : r = [signing_keys[k] EXCEPT !.retired_at = clock, !.private_jwk_enc = None]
    BY Zenon
  <2>2. signing_keys[k] \in SigningKeyRow /\ signing_keys[k].retired_at = None
    BY <1>1 DEF TypeInv, Live, Unretired
  <2>3. /\ r \in SigningKeyRow /\ r.activates_at = signing_keys[k].activates_at
        /\ r.retired_at = clock /\ r.retired_at # None /\ r # None
    <3>1. r \in SigningKeyRow /\ r.activates_at = signing_keys[k].activates_at /\ r.retired_at = clock
      BY Zenon, <2>1, <2>2 DEF SigningKeyRow, TypeInv, Versions
    <3>2. clock # None
      BY Nones DEF TypeInv, Times
    <3> QED  BY <3>1, <3>2, Nones
  <2>4. signing_keys' = [signing_keys EXCEPT ![k] = r]
    BY Zenon, <1>1, <2>1 DEF retireSigningKey, Live, TypeInv
  <2>5. /\ signing_keys' \in [Kids -> SigningKeyRow \cup {None}]
        /\ signing_keys'[k] = r
        /\ \A j \in Kids : j # k => signing_keys'[j] = signing_keys[j]
    BY <2>3, <2>4 DEF TypeInv
  <2>6. Rows' = Rows
    BY <2>2, <2>3, <2>5, Nones DEF Rows
  <2>7. Live' = Live \ {k}
    BY <2>3, <2>5 DEF Live, Unretired
  <2>8. \A j \in Live : activates(j)' = activates(j)
    BY <2>3, <2>5 DEF activates, Live, Unretired
  <2>9. RowsMove
    BY <2>2, <2>3, <2>5, <2>6 DEF RowsMove, Rows
  <2> QED  BY <2>5, <2>6, <2>7, <2>8, <2>9
<1>2. CASE k \notin Live
  <2>1. signing_keys' = signing_keys
    BY <1>2 DEF retireSigningKey, Live
  <2> QED  BY <1>2, <2>1 DEF TypeInv, Rows, RowsMove, Live, Unretired, activates
<1> QED  BY <1>1, <1>2

\* deleteRetiredSigningKeys deletes retired keys.
LEMMA DeleteRows ==
    ASSUME TypeInv, deleteRetiredSigningKeys(clock - Retention)
    PROVE  /\ signing_keys' \in [Kids -> SigningKeyRow \cup {None}]
           /\ Rows' \subseteq Rows /\ RowsMove /\ SameLive
<1>1. \A k \in Kids : \/ signing_keys'[k] = signing_keys[k]
                      \/ /\ signing_keys'[k] = None /\ signing_keys[k] # None
                         /\ signing_keys[k].retired_at # None
                         /\ signing_keys[k].retired_at < clock - Retention
  BY Zenon DEF deleteRetiredSigningKeys
<1>2. signing_keys' \in [Kids -> SigningKeyRow \cup {None}]
  BY DEF deleteRetiredSigningKeys, TypeInv
<1>3. Rows' \subseteq Rows
  BY Zenon, <1>1 DEF Rows
<1>4. RowsMove
  BY <1>1 DEF RowsMove, Rows
<1>5. Live' = Live
  BY <1>1 DEF Live, Unretired
<1>6. \A k \in Live : activates(k)' = activates(k)
  BY <1>1 DEF Live, Unretired, activates
<1> QED  BY <1>2, <1>3, <1>4, <1>5, <1>6 DEF SameLive

\* updatePrivateJwkEnc leaves retirement and activation alone.
LEMMA ResealRows ==
    ASSUME TypeInv, NEW k \in Kids, updatePrivateJwkEnc(k)
    PROVE  /\ signing_keys' \in [Kids -> SigningKeyRow \cup {None}]
           /\ Rows' = Rows /\ RowsMove /\ SameLive
<1>1. CASE k \in Live
  <2>1. PICK r : r = [signing_keys[k] EXCEPT !.private_jwk_enc = "active"]
    BY Zenon
  <2>2. signing_keys[k] \in SigningKeyRow /\ signing_keys[k].retired_at = None
    BY <1>1 DEF TypeInv, Live, Unretired
  <2>3. /\ r \in SigningKeyRow /\ r.activates_at = signing_keys[k].activates_at
        /\ r.retired_at = None /\ r # None
    BY <2>1, <2>2, Nones DEF SigningKeyRow, Versions
  <2>4. signing_keys' = [signing_keys EXCEPT ![k] = r]
    BY <1>1, <2>1 DEF updatePrivateJwkEnc, Live, TypeInv
  <2>5. /\ signing_keys' \in [Kids -> SigningKeyRow \cup {None}]
        /\ signing_keys'[k] = r
        /\ \A j \in Kids : j # k => signing_keys'[j] = signing_keys[j]
    BY <2>3, <2>4 DEF TypeInv
  <2>6. Rows' = Rows
    BY <2>2, <2>3, <2>5, Nones DEF Rows
  <2>7. Live' = Live
    BY <2>2, <2>3, <2>5, Nones DEF Live, Unretired
  <2>8. \A j \in Live : activates(j)' = activates(j)
    BY <2>3, <2>5 DEF activates, Live, Unretired
  <2>9. RowsMove
    BY <2>2, <2>3, <2>5, <2>6 DEF RowsMove, Rows
  <2> QED  BY <2>5, <2>6, <2>7, <2>8, <2>9 DEF SameLive
<1>2. CASE k \notin Live
  <2>1. signing_keys' = signing_keys
    BY <1>2 DEF updatePrivateJwkEnc, Live
  <2> QED  BY <1>2, <2>1 DEF TypeInv, Rows, RowsMove, Live, Unretired, activates, SameLive
<1> QED  BY <1>1, <1>2

\* The same of a step that writes no row.
LEMMA StillRows ==
    ASSUME TypeInv, UNCHANGED signing_keys
    PROVE  /\ signing_keys' \in [Kids -> SigningKeyRow \cup {None}]
           /\ Rows' = Rows /\ RowsMove /\ SameLive
BY DEF TypeInv, Rows, RowsMove, Live, Unretired, activates, SameLive

-----------------------------------------------------------------------------
(* What keeps each part of the invariant.                                  *)

\* A request goes on with retirements it had decided on, or is past them.
Onward(p) == call'[p] # None =>
    \/ call'[p] = call[p]
    \/ call'[p].pc \in {"sweep", "rekey"} /\ call'[p].kids \subseteq seen.used
    \/ /\ call[p] # None /\ call[p].pc \in {"insert", "retire"} /\ call'[p].pc = "retire"
       /\ call'[p].op = call[p].op /\ call'[p].kids \subseteq call[p].kids

\* It then decides on no other one.
LEMMA OnwardFacts ==
    ASSUME UsedInv, NEW p \in Procs, Onward(p)
    PROVE  /\ Deciding(p)' => /\ Deciding(p) /\ call'[p].kids \subseteq call[p].kids
                              /\ call'[p].op = call[p].op
           /\ call'[p] # None =>
                  call'[p].kids \subseteq seen.used /\ (call'[p].pc = "insert" => seen.used # {})
<1>1. CASE call'[p] = None
  BY <1>1 DEF Deciding
<1>2. CASE call'[p] = call[p]
  BY <1>2 DEF Deciding, UsedInv
<1>3. CASE call'[p] # None /\ call'[p].pc \in {"sweep", "rekey"} /\ call'[p].kids \subseteq seen.used
  BY <1>3 DEF Deciding
<1>4. CASE /\ call'[p] # None
           /\ call[p] # None /\ call[p].pc \in {"insert", "retire"} /\ call'[p].pc = "retire"
           /\ call'[p].op = call[p].op /\ call'[p].kids \subseteq call[p].kids
  BY <1>4 DEF Deciding, UsedInv
<1> QED  BY Zenon, <1>1, <1>2, <1>3, <1>4 DEF Onward

\* Generated keys are kept in mind.
LEMMA UsedKept ==
    ASSUME UsedInv, seen.used \subseteq seen'.used, Rows' \subseteq seen'.used,
           seen'.first \subseteq seen'.used,
           \A q \in Procs : \/ Onward(q)
                            \/ /\ call'[q].kids \subseteq seen.used
                               /\ call'[q].pc = "insert" => seen.used # {}
    PROVE  UsedInv'
<1> SUFFICES ASSUME NEW q \in Procs, call'[q] # None
             PROVE  call'[q].kids \subseteq seen'.used /\ (call'[q].pc = "insert" => seen'.used # {})
  BY Zenon DEF UsedInv
<1>1. call'[q].kids \subseteq seen.used /\ (call'[q].pc = "insert" => seen.used # {})
  BY Zenon, OnwardFacts
<1> QED  BY <1>1

\* The caches are kept or dropped while rows are retired and deleted.
LEMMA CacheKept ==
    ASSUME TypeInv, CacheInv, RowsMove, seen.used \subseteq seen'.used, UNCHANGED clock,
           \A i \in Isolates : cached'[i] \in {None, cached[i]}
    PROVE  CacheInv'
<1> SUFFICES ASSUME NEW i \in Isolates, cached'[i] # None PROVE EntryOk(cached[i])'
  BY Zenon DEF CacheInv
<1>1. PICK e \in Entry : e = cached[i] /\ e = cached'[i] /\ EntryOk(e)
  BY DEF CacheInv, TypeInv
<1>2. clock \in Nat /\ e.at \in Nat /\ Retention \in Nat
  BY Bounds DEF TypeInv, Times, Entry
<1>3. ASSUME NEW k \in e.loaded.jwks PROVE KeptFrom(k, e.at)'
  <2>1. KeptFrom(k, e.at)
    BY <1>1 DEF EntryOk
  <2>2. ASSUME k \in Rows' PROVE signing_keys'[k].retired_at = None \/ signing_keys'[k].retired_at >= e.at
    <3>1. k \in Rows /\ e.at <= clock
      BY <1>1, <2>1, <2>2 DEF RowsMove, KeptFrom, EntryOk
    <3> QED  BY <1>2, <2>1, <2>2, <3>1 DEF RowsMove, KeptFrom
  <2>3. ASSUME k \notin Rows' PROVE clock' - e.at > Retention
    <3>1. CASE k \in Rows
      <4>1. /\ signing_keys[k].retired_at < clock - Retention /\ signing_keys[k].retired_at # None
            /\ signing_keys[k].retired_at >= e.at
        BY <2>1, <2>3, <3>1 DEF RowsMove, KeptFrom
      <4>2. signing_keys[k].retired_at \in Nat
        BY <3>1, <4>1, RowFields DEF TypeInv
      <4> QED  BY <1>2, <4>1, <4>2
    <3>2. CASE k \notin Rows
      BY <2>1, <3>2 DEF KeptFrom
    <3> QED  BY <3>1, <3>2
  <2> QED  BY <2>1, <2>2, <2>3 DEF KeptFrom
<1>4. e.at <= clock' /\ clock' - e.at < KEYS_STALE /\ e.loaded.signing \in e.loaded.jwks
  BY <1>1 DEF EntryOk
<1>5. EntryOk(e)'
  BY <1>3, <1>4 DEF EntryOk
<1> QED  BY Zenon, <1>1, <1>5 DEF EntryOk, KeptFrom

\* Two first keys are not both live when no key comes to life.
LEMMA FirstKept ==
    ASSUME FirstInv, UsedInv, seen'.first = seen.first, \A k \in seen.used : k \in Live' => k \in Live
    PROVE  FirstInv'
BY DEF FirstInv, UsedInv

\* No active key goes.
LEMMA ActiveKept ==
    ASSUME UsedInv, ActiveInv, ActiveNow \subseteq ActiveNow', seen'.overlapped = seen.overlapped,
           seen'.used # {} => seen.used # {},
           \A q \in Procs : Onward(q) \/ (~seen.overlapped /\ Deciding(q)' => Spared(call'[q].kids))
    PROVE  ActiveInv'
<1> SUFFICES ASSUME ~seen'.overlapped
             PROVE  /\ seen'.used # {} => ActiveNow' # {}
                    /\ \A q \in Procs : Deciding(q)' => ActiveNow' \ call'[q].kids # {}
  BY Zenon DEF ActiveInv, Spared
<1>1. seen'.used # {} => ActiveNow' # {}
  BY DEF ActiveInv
<1>2. ASSUME NEW q \in Procs, Deciding(q)' PROVE ActiveNow' \ call'[q].kids # {}
  <2>1. CASE Onward(q)
    <3>1. Deciding(q) /\ call'[q].kids \subseteq call[q].kids
      BY Zenon, <1>2, <2>1, OnwardFacts
    <3>2. ActiveNow \ call[q].kids # {}
      BY Zenon, <3>1 DEF ActiveInv, Spared
    <3> QED  BY <3>1, <3>2
  <2>2. CASE Spared(call'[q].kids)
    BY <2>2 DEF Spared
  <2> QED  BY Zenon, <1>2, <2>1, <2>2
<1> QED  BY Zenon, <1>1, <1>2

\* Key k may sign now: its successors are not yet known everywhere.
Signs(k) ==
    /\ k \in Live /\ activates(k) <= clock
    /\ \A j \in Live : activates(j) > activates(k) => clock < activates(j) + KEYS_STALE

\* An isolate signs with such a key, however stale its cache.
LEMMA EntrySigns ==
    ASSUME TypeInv, NEW e \in Entry, SignsLatest(e), e.at <= clock, clock - e.at < KEYS_STALE
    PROVE  Signs(e.loaded.signing)
<1>1. clock \in Nat /\ e.at \in Nat /\ KEYS_STALE \in Nat
  BY Bounds DEF TypeInv, Times, Entry
<1>2. \A j \in Live : activates(j) \in Nat
  BY Zenon, RowFields, LiveRows DEF TypeInv
<1> QED  BY <1>1, <1>2 DEF SignsLatest, Signs

\* The naturals that the conditions on tokens compare.
LEMMA TokenNats ==
    ASSUME TypeInv
    PROVE  /\ clock \in Nat /\ clock + TokenTtl \in Nat
           /\ \A k \in Kids : expires[k] \in Nat
           /\ \A j \in Live : activates(j) \in Nat
           /\ \A i \in Isolates : cached[i] # None => cached[i] \in Entry /\ cached[i].at \in Nat
<1>1. clock \in Nat /\ clock + TokenTtl \in Nat /\ MaxTime + TokenTtl \in Nat
  BY Bounds DEF TypeInv, Times
<1>2. \A k \in Kids : expires[k] \in Nat
  BY <1>1 DEF TypeInv
<1>3. \A j \in Live : activates(j) \in Nat
  BY RowFields, LiveRows DEF TypeInv
<1>4. \A i \in Isolates : cached[i] # None => cached[i] \in Entry /\ cached[i].at \in Nat
  BY Bounds DEF TypeInv, Entry, Times
<1> QED  BY <1>1, <1>2, <1>3, <1>4

\* The caches know the keys when these stay.
LEMMA CachesStill ==
    ASSUME CachesKnow, SameLive,
           \A i \in Isolates : \/ cached'[i] \in {None, cached[i]}
                               \/ Published(cached'[i]) /\ SignsLatest(cached'[i])
    PROVE  CachesKnow'
<1> SUFFICES ASSUME NEW i \in Isolates, cached'[i] # None
             PROVE  Published(cached[i])' /\ SignsLatest(cached[i])'
  BY Zenon DEF CachesKnow
<1>1. PICK e : e = cached'[i]
  OBVIOUS
<1>2. Published(e) /\ SignsLatest(e)
  BY <1>1 DEF CachesKnow
<1>3. \A k \in Live' : k \in e.loaded.jwks \/ activates(k)' >= e.at + Prepublish
  BY Zenon, <1>2 DEF Published, SameLive
<1>4. /\ e.loaded.signing \in Live' /\ activates(e.loaded.signing)' <= e.at
      /\ \A j \in Live' : activates(j)' <= activates(e.loaded.signing)' \/ activates(j)' > e.at
  BY <1>2 DEF SignsLatest, SameLive
<1> QED  BY Zenon, <1>1, <1>3, <1>4 DEF Published, SignsLatest, activates

\* The tokens are good when the keys stay and the ones signed are by a key that may sign.
LEMMA TokensStill ==
    ASSUME TypeInv, TokensLast, SameLive, UNCHANGED clock,
           \A k \in Kids : expires'[k] = expires[k] \/ (expires'[k] = clock + TokenTtl /\ Signs(k))
    PROVE  TokensLast'
<1> SUFFICES ASSUME NEW k \in Kids, clock' < expires'[k]
             PROVE  /\ k \in Live' /\ activates(k)' <= clock'
                    /\ \A j \in Live' : activates(j)' > activates(k)' =>
                           expires'[k] < activates(j)' + KEYS_STALE + TokenTtl
  BY Zenon DEF TokensLast, LastToken
<1>1. CASE expires'[k] = expires[k]
  <2>1. /\ k \in Live /\ activates(k) <= clock
        /\ \A j \in Live : activates(j) > activates(k) => expires[k] < activates(j) + KEYS_STALE + TokenTtl
    BY <1>1 DEF TokensLast, LastToken
  <2> QED  BY <1>1, <2>1 DEF SameLive
<1>2. CASE expires'[k] = clock + TokenTtl /\ Signs(k)
  <2>1. /\ k \in Live /\ activates(k) <= clock
        /\ \A j \in Live : activates(j) > activates(k) => clock < activates(j) + KEYS_STALE
    BY <1>2 DEF Signs
  <2>2. \A j \in Live : activates(j) > activates(k) => clock + TokenTtl < activates(j) + KEYS_STALE + TokenTtl
    BY <2>1, TokenNats, Bounds
  <2> QED  BY <1>2, <2>1, <2>2 DEF SameLive
<1> QED  BY Zenon, <1>1, <1>2

\* The cron waits when the keys stay.
LEMMA CronStill ==
    ASSUME UsedInv, CronWaits, SameLive, UNCHANGED clock,
           \A q \in Procs : \/ Onward(q)
                            \/ Deciding(q)' /\ call'[q].op # "retire" =>
                                   \A k \in call'[q].kids : Succeeded(k)
    PROVE  CronWaits'
<1> SUFFICES ASSUME NEW q \in Procs, Deciding(q)', call'[q].op # "retire", NEW k \in call'[q].kids,
                    k \in Live'
             PROVE  \E s \in Live' : activates(s)' + RetireAfter <= clock' /\ activates(k)' < activates(s)'
  BY Zenon DEF CronWaits, Succeeded
<1>1. Succeeded(k)
  <2>1. CASE Onward(q)
    <3>1. Deciding(q) /\ call[q].op # "retire" /\ k \in call[q].kids
      BY Zenon, <2>1, OnwardFacts
    <3> QED  BY Zenon, <3>1 DEF CronWaits
  <2>2. CASE ~Onward(q)
    BY Zenon, <2>2
  <2> QED  BY Zenon, <2>1, <2>2
<1>2. PICK s \in Live : activates(s) + RetireAfter <= clock /\ activates(k) < activates(s)
  BY <1>1 DEF Succeeded, SameLive
<1> QED  BY <1>2 DEF SameLive

\* A new key that activates later than any isolate's cache can last.
LEMMA TokenInserted ==
    ASSUME TypeInv, UsedInv, CacheInv, CachesKnow, TokensLast, CronWaits, UNCHANGED <<clock, expires>>,
           Ahead, \A k \in Kids : expires[k] <= clock + TokenTtl,
           NEW n \in Kids, n \notin seen.used, Live' = Live \cup {n},
           \A j \in Live : activates(j)' = activates(j) /\ j # n,
           activates(n)' = clock + Prepublish,
           \A i \in Isolates : cached'[i] \in {None, cached[i]},
           \A q \in Procs : Onward(q)
    PROVE  CachesKnow' /\ TokensLast' /\ CronWaits'
<1>1. CachesKnow'
  <2> SUFFICES ASSUME NEW i \in Isolates, cached'[i] # None
               PROVE  Published(cached[i])' /\ SignsLatest(cached[i])'
    BY Zenon DEF CachesKnow
  <2>1. PICK e : e = cached'[i]
    OBVIOUS
  <2>2. e = cached[i] /\ Published(e) /\ SignsLatest(e) /\ e.at \in Nat /\ e.at <= clock
    BY Zenon, <2>1, TokenNats DEF CachesKnow, CacheInv, EntryOk
  <2>3. clock + Prepublish >= e.at + Prepublish /\ clock + Prepublish > e.at
    BY <2>2, TokenNats, Bounds DEF Ahead
  <2>4. \A k \in Live' : k \in e.loaded.jwks \/ activates(k)' >= e.at + Prepublish
    BY Zenon, <2>2, <2>3 DEF Published
  <2>5. /\ e.loaded.signing \in Live' /\ activates(e.loaded.signing)' <= e.at
        /\ \A j \in Live' : activates(j)' <= activates(e.loaded.signing)' \/ activates(j)' > e.at
    BY Zenon, <2>2, <2>3 DEF SignsLatest
  <2> QED  BY Zenon, <2>1, <2>4, <2>5 DEF Published, SignsLatest, activates
<1>2. TokensLast'
  <2> SUFFICES ASSUME NEW k \in Kids, clock < expires[k]
               PROVE  /\ k \in Live' /\ activates(k)' <= clock
                      /\ \A j \in Live' : activates(j)' > activates(k)' =>
                             expires[k] < activates(j)' + KEYS_STALE + TokenTtl
    BY Zenon DEF TokensLast, LastToken
  <2>1. /\ k \in Live /\ activates(k) <= clock
        /\ \A j \in Live : activates(j) > activates(k) => expires[k] < activates(j) + KEYS_STALE + TokenTtl
    BY DEF TokensLast, LastToken
  <2>2. expires[k] < clock + Prepublish + KEYS_STALE + TokenTtl
    BY TokenNats, Bounds DEF Ahead
  <2> QED  BY Zenon, <2>1, <2>2
<1>3. CronWaits'
  <2> SUFFICES ASSUME NEW q \in Procs, Deciding(q)', call'[q].op # "retire", NEW k \in call'[q].kids,
                      k \in Live'
               PROVE  \E s \in Live' : activates(s)' + RetireAfter <= clock /\ activates(k)' < activates(s)'
    BY Zenon DEF CronWaits, Succeeded
  <2>1. Deciding(q) /\ call[q].op # "retire" /\ k \in call[q].kids
    BY Zenon, OnwardFacts
  <2>2. k \in seen.used
    BY Zenon, <2>1 DEF UsedInv, Deciding
  <2>3. PICK s \in Live : activates(s) + RetireAfter <= clock /\ activates(k) < activates(s)
    BY Zenon, <2>1, <2>2 DEF CronWaits, Succeeded
  <2> QED  BY Zenon, <2>2, <2>3
<1> QED  BY <1>1, <1>2, <1>3

\* The first key of all: there is no cache, no token and no retirement.
LEMMA TokenFirst ==
    ASSUME TypeInv, UsedInv, CacheInv, TokensLast, UNCHANGED <<clock, cached, call, expires>>,
           seen.used = {}
    PROVE  CachesKnow' /\ TokensLast' /\ CronWaits'
<1>1. \A i \in Isolates : cached[i] = None
  BY DEF CacheInv, EntryOk, KeptFrom
<1>2. Live = {}
  BY Zenon, LiveRows DEF UsedInv
<1>3. \A k \in Kids : ~(clock < expires[k])
  BY <1>2 DEF TokensLast, LastToken
<1>4. \A p \in Procs : ~Deciding(p)
  BY DEF UsedInv, Deciding
<1>5. CachesKnow'
  BY <1>1 DEF CachesKnow
<1>6. TokensLast'
  BY <1>3 DEF TokensLast, LastToken
<1>7. CronWaits'
  BY <1>4 DEF CronWaits, Deciding
<1> QED  BY Zenon, <1>5, <1>6, <1>7

\* The cron retires a key that a successor has replaced everywhere.
LEMMA TokenRetired ==
    ASSUME TypeInv, UsedInv, CacheInv, CachesKnow, TokensLast, CronWaits,
           UNCHANGED <<clock, cached, expires>>,
           NEW r \in Kids, Succeeded(r), Live' = Live \ {r},
           \A j \in Live : activates(j)' = activates(j),
           \A q \in Procs : Onward(q)
    PROVE  CachesKnow' /\ TokensLast' /\ CronWaits'
<1>1. CASE r \notin Live
  <2>1. SameLive
    BY <1>1 DEF SameLive
  <2>2. CachesKnow'
    BY Zenon, <2>1, CachesStill
  <2>3. TokensLast'
    BY Zenon, <2>1, TokensStill
  <2>4. CronWaits'
    BY Zenon, <2>1, CronStill
  <2> QED  BY Zenon, <2>2, <2>3, <2>4
<1>2. CASE r \in Live
  <2>1. PICK s \in Live : activates(s) + RetireAfter <= clock /\ activates(r) < activates(s)
    BY <1>2 DEF Succeeded
  <2>2. activates(r) \in Nat /\ activates(s) \in Nat /\ s # r /\ s \in Live'
    BY <1>2, <2>1, TokenNats
  <2>3. CachesKnow'
    <3> SUFFICES ASSUME NEW i \in Isolates, cached'[i] # None
                 PROVE  Published(cached[i])' /\ SignsLatest(cached[i])'
      BY Zenon DEF CachesKnow
    <3>1. PICK e : e = cached'[i]
      OBVIOUS
    <3>2. /\ e = cached[i] /\ Published(e) /\ SignsLatest(e)
          /\ e.at \in Nat /\ e.at <= clock /\ clock - e.at < KEYS_STALE
      BY Zenon, <3>1, TokenNats DEF CachesKnow, CacheInv, EntryOk
    <3>3. e.loaded.signing # r
      <4>1. activates(s) < e.at
        BY <2>1, <2>2, <3>2, TokenNats, Bounds
      <4>2. activates(s) <= activates(e.loaded.signing)
        BY <2>2, <3>2, <4>1 DEF SignsLatest
      <4> QED  BY <2>1, <2>2, <4>2
    <3>4. \A k \in Live' : k \in e.loaded.jwks \/ activates(k)' >= e.at + Prepublish
      BY <3>2 DEF Published
    <3>5. /\ e.loaded.signing \in Live' /\ activates(e.loaded.signing)' <= e.at
          /\ \A j \in Live' : activates(j)' <= activates(e.loaded.signing)' \/ activates(j)' > e.at
      BY Zenon, <3>2, <3>3 DEF SignsLatest
    <3> QED  BY Zenon, <3>1, <3>4, <3>5 DEF Published, SignsLatest, activates
  <2>4. TokensLast'
    <3> SUFFICES ASSUME NEW k \in Kids, clock < expires[k]
                 PROVE  /\ k \in Live' /\ activates(k)' <= clock
                        /\ \A j \in Live' : activates(j)' > activates(k)' =>
                               expires[k] < activates(j)' + KEYS_STALE + TokenTtl
      BY Zenon DEF TokensLast, LastToken
    <3>1. /\ k \in Live /\ activates(k) <= clock
          /\ \A j \in Live : activates(j) > activates(k) => expires[k] < activates(j) + KEYS_STALE + TokenTtl
      BY DEF TokensLast, LastToken
    <3>2. k # r
      <4>1. k = r => expires[k] < activates(s) + KEYS_STALE + TokenTtl
        BY <2>1, <3>1
      <4> QED  BY <2>1, <2>2, <4>1, TokenNats, Bounds
    <3> QED  BY <3>1, <3>2
  <2>5. CronWaits'
    <3> SUFFICES ASSUME NEW q \in Procs, Deciding(q)', call'[q].op # "retire", NEW k \in call'[q].kids,
                        k \in Live'
                 PROVE  \E t \in Live' : activates(t)' + RetireAfter <= clock /\ activates(k)' < activates(t)'
      BY Zenon DEF CronWaits, Succeeded
    <3>1. Deciding(q) /\ call[q].op # "retire" /\ k \in call[q].kids
      BY Zenon, OnwardFacts
    <3>2. PICK t \in Live : activates(t) + RetireAfter <= clock /\ activates(k) < activates(t)
      BY Zenon, <3>1 DEF CronWaits, Succeeded
    <3>3. CASE t # r
      BY <3>2, <3>3
    <3>4. CASE t = r
      <4>1. activates(k) < activates(s)
        BY <2>1, <2>2, <3>2, <3>4, TokenNats
      <4> QED  BY Zenon, <2>1, <2>2, <4>1
    <3> QED  BY Zenon, <3>3, <3>4
  <2> QED  BY Zenon, <2>3, <2>4, <2>5
<1> QED  BY Zenon, <1>1, <1>2

-----------------------------------------------------------------------------
(* The steps of requests and runs.                                         *)

\* The active keys are the same when the keys that are not retired are.
LEMMA SameActive == ASSUME SameLive, UNCHANGED clock PROVE ActiveNow' = ActiveNow
BY DEF SameLive, ActiveNow, Active, Live, activates

\* An isolate's cache is dropped, or none is.
LEMMA CacheDropped ==
    ASSUME TypeInv, invalidate \/ UNCHANGED cached
    PROVE  /\ cached' \in [Isolates -> Entry \cup {None}]
           /\ \A i \in Isolates : cached'[i] \in {None, cached[i]}
BY DEF invalidate, TypeInv

\* A request that is over decides on nothing more.
LEMMA RespondCalls ==
    ASSUME TypeInv, NEW p \in Procs, Respond(p)
    PROVE  call' \in [Procs -> Call \cup {None}] /\ \A q \in Procs : Onward(q)
BY Zenon DEF Respond, TypeInv, Onward

\* A request goes on as d.
LEMMA MoveCalls ==
    ASSUME TypeInv, NEW p \in Procs, NEW d \in Call, call' = [call EXCEPT ![p] = d]
    PROVE  /\ call' \in [Procs -> Call \cup {None}] /\ call'[p] = d /\ call'[p] # None
           /\ \A q \in Procs : q # p => call'[q] = call[q]
BY Nones DEF TypeInv

\* Requests that stay where they are go on.
LEMMA SameCalls == ASSUME NEW q \in Procs, call'[q] = call[q] PROVE Onward(q)
BY DEF Onward

\* A step that leaves the live keys, the tokens and the history alone.
LEMMA QuietKeeps ==
    ASSUME Inv, UNCHANGED <<clock, seen, expires>>,
           signing_keys' \in [Kids -> SigningKeyRow \cup {None}], Rows' \subseteq Rows, RowsMove, SameLive,
           cached' \in [Isolates -> Entry \cup {None}], \A i \in Isolates : cached'[i] \in {None, cached[i]},
           load' \in [Isolates -> [Kinds -> Loads]],
           call' \in [Procs -> Call \cup {None}], \A q \in Procs : Onward(q)
    PROVE  Inv'
<1>1. TypeInv /\ UsedInv /\ CacheInv /\ FirstInv /\ ActiveInv /\ TokenInv
  BY DEF Inv
<1>2. TypeInv'
  BY <1>1 DEF TypeInv
<1>3. UsedInv'
  <2>1. Rows' \subseteq seen'.used /\ seen'.first \subseteq seen'.used
    BY Zenon, <1>1 DEF UsedInv
  <2> QED  BY Zenon, <1>1, <2>1, UsedKept
<1>4. CacheInv'
  BY Zenon, <1>1, CacheKept
<1>5. FirstInv'
  BY Zenon, <1>1, FirstKept DEF SameLive
<1>6. ActiveInv'
  BY Zenon, <1>1, SameActive, ActiveKept
<1>7. TokenInv'
  <2>1. ASSUME ~seen.emergency, Ahead PROVE CachesKnow' /\ TokensLast' /\ CronWaits'
    <3>1. CachesKnow /\ TokensLast /\ CronWaits
      BY Zenon, <1>1, <2>1 DEF TokenInv
    <3>2. CachesKnow'
      BY Zenon, <3>1, CachesStill
    <3>3. TokensLast'
      BY Zenon, <1>1, <3>1, TokensStill
    <3>4. CronWaits'
      BY Zenon, <1>1, <3>1, CronStill
    <3> QED  BY Zenon, <3>2, <3>3, <3>4
  <2>2. \A k \in Kids : expires'[k] <= clock' + TokenTtl
    BY Zenon, <1>1 DEF TokenInv
  <2> QED  BY Zenon, <2>1, <2>2 DEF TokenInv
<1> QED  BY Zenon, <1>2, <1>3, <1>4, <1>5, <1>6, <1>7 DEF Inv

\* A load that fails.
LEMMA LoadFailsKeeps ==
    ASSUME Inv, NEW i \in Isolates, NEW kind \in Kinds, loadFails(i, kind)
    PROVE  Inv'
<1>1. TypeInv
  BY DEF Inv
<1>2. UNCHANGED <<clock, signing_keys, cached, call, expires, seen>>
  BY DEF loadFails
<1>3. load' \in [Isolates -> [Kinds -> Loads]]
  BY <1>1 DEF loadFails, TypeInv, Loads
<1>4. \A q \in Procs : Onward(q)
  BY <1>2, SameCalls
<1>5. /\ signing_keys' \in [Kids -> SigningKeyRow \cup {None}]
      /\ Rows' \subseteq Rows /\ RowsMove /\ SameLive
  BY <1>1, <1>2, StillRows
<1>6. cached' \in [Isolates -> Entry \cup {None}] /\ \A j \in Isolates : cached'[j] \in {None, cached[j]}
  BY Zenon, <1>1, <1>2, CacheDropped
<1>7. call' \in [Procs -> Call \cup {None}]
  BY <1>1, <1>2 DEF TypeInv
<1> QED  BY Zenon, <1>2, <1>3, <1>4, <1>5, <1>6, <1>7, QuietKeeps

\* A request that stops.
LEMMA StopKeeps == ASSUME Inv, NEW p \in Procs, stop(p) PROVE Inv'
<1>1. TypeInv
  BY DEF Inv
<1>2. UNCHANGED <<clock, signing_keys, cached, load, expires, seen>>
  BY DEF stop
<1>3. call' \in [Procs -> Call \cup {None}] /\ \A q \in Procs : Onward(q)
  BY <1>1, RespondCalls DEF stop
<1>5. /\ signing_keys' \in [Kids -> SigningKeyRow \cup {None}]
      /\ Rows' \subseteq Rows /\ RowsMove /\ SameLive
  BY <1>1, <1>2, StillRows
<1>6. cached' \in [Isolates -> Entry \cup {None}] /\ \A j \in Isolates : cached'[j] \in {None, cached[j]}
  BY Zenon, <1>1, <1>2, CacheDropped
<1>7. load' \in [Isolates -> [Kinds -> Loads]]
  BY <1>1, <1>2 DEF TypeInv
<1> QED  BY Zenon, <1>2, <1>3, <1>5, <1>6, <1>7, QuietKeeps

\* The rows to re-seal were generated.
LEMMA SealedUsed == ASSUME Rows' \subseteq Rows, UsedInv PROVE Sealed(signing_keys') \subseteq seen.used \cap Kids
BY Zenon DEF Sealed, Rows, UsedInv

\* A rekey begins.
LEMMA RekeyKeeps == ASSUME Inv, NEW p \in Procs, rekeyHandler(p) PROVE Inv'
<1>1. TypeInv /\ UsedInv
  BY DEF Inv
<1>2. UNCHANGED <<clock, signing_keys, cached, load, expires, seen>>
  BY DEF rekeyHandler
<1>3. PICK d : d = [op |-> "rekey", pc |-> "rekey", kids |-> Sealed(signing_keys)]
  BY Zenon
<1>4. d \in Call /\ d.pc = "rekey" /\ d.kids \subseteq seen.used
  BY Zenon, <1>1, <1>3 DEF Call, Sealed, UsedInv, Rows
<1>5. call' = [call EXCEPT ![p] = d]
  BY <1>3 DEF rekeyHandler, Begin
<1>6. call' \in [Procs -> Call \cup {None}] /\ \A q \in Procs : Onward(q)
  <2>1. /\ call' \in [Procs -> Call \cup {None}] /\ call'[p] = d
        /\ \A q \in Procs : q # p => call'[q] = call[q]
    BY Zenon, <1>1, <1>4, <1>5, MoveCalls
  <2> QED  BY Zenon, <1>4, <2>1 DEF Onward
<1>7. /\ signing_keys' \in [Kids -> SigningKeyRow \cup {None}]
      /\ Rows' \subseteq Rows /\ RowsMove /\ SameLive
  BY <1>1, <1>2, StillRows
<1>8. cached' \in [Isolates -> Entry \cup {None}] /\ \A j \in Isolates : cached'[j] \in {None, cached[j]}
  BY Zenon, <1>1, <1>2, CacheDropped
<1>9. load' \in [Isolates -> [Kinds -> Loads]]
  BY <1>1, <1>2 DEF TypeInv
<1> QED  BY Zenon, <1>2, <1>6, <1>7, <1>8, <1>9, QuietKeeps

\* Retired rows are deleted.
LEMMA SweepKeeps == ASSUME Inv, NEW p \in Procs, sweepRetired(p) PROVE Inv'
<1>1. TypeInv /\ UsedInv
  BY DEF Inv
<1>2. UNCHANGED <<clock, load, expires, seen>> /\ call[p] # None
  BY DEF sweepRetired, At
<1>3. /\ signing_keys' \in [Kids -> SigningKeyRow \cup {None}]
      /\ Rows' \subseteq Rows /\ RowsMove /\ SameLive
  BY Zenon, <1>1, DeleteRows DEF sweepRetired
<1>4. load' \in [Isolates -> [Kinds -> Loads]]
  BY <1>1, <1>2 DEF TypeInv
<1>5. CASE EndRun(p)
  <2>1. Respond(p) /\ (invalidate \/ UNCHANGED cached)
    BY Zenon, <1>5 DEF EndRun
  <2>2. call' \in [Procs -> Call \cup {None}] /\ \A q \in Procs : Onward(q)
    BY Zenon, <1>1, <2>1, RespondCalls
  <2>3. cached' \in [Isolates -> Entry \cup {None}] /\ \A j \in Isolates : cached'[j] \in {None, cached[j]}
    BY Zenon, <1>1, <2>1, CacheDropped
  <2> QED  BY Zenon, <1>2, <1>3, <1>4, <2>2, <2>3, QuietKeeps
<1>6. CASE /\ call' = [call EXCEPT ![p].pc = "rekey", ![p].kids = Sealed(signing_keys')]
           /\ UNCHANGED cached
  <2>1. PICK d : d = [call[p] EXCEPT !.pc = "rekey", !.kids = Sealed(signing_keys')]
    OBVIOUS
  <2>2. call[p] \in Call
    BY Zenon, <1>1, <1>2 DEF TypeInv
  <2>3. d \in Call /\ d.pc = "rekey" /\ d.kids \subseteq seen.used
    BY Zenon, <1>1, <1>3, <2>1, <2>2, SealedUsed DEF Call
  <2>4. call' = [call EXCEPT ![p] = d]
    BY Zenon, <1>1, <1>6, <2>1 DEF TypeInv
  <2>5. call' \in [Procs -> Call \cup {None}] /\ \A q \in Procs : Onward(q)
    <3>1. /\ call' \in [Procs -> Call \cup {None}] /\ call'[p] = d
          /\ \A q \in Procs : q # p => call'[q] = call[q]
      BY Zenon, <1>1, <2>3, <2>4, MoveCalls
    <3> QED  BY <2>3, <3>1 DEF Onward
  <2>6. cached' \in [Isolates -> Entry \cup {None}] /\ \A j \in Isolates : cached'[j] \in {None, cached[j]}
    BY Zenon, <1>1, <1>6, CacheDropped
  <2> QED  BY Zenon, <1>2, <1>3, <1>4, <2>5, <2>6, QuietKeeps
<1> QED  BY Zenon, <1>5, <1>6 DEF sweepRetired

\* A row is re-sealed.
LEMMA ResealKeeps == ASSUME Inv, NEW p \in Procs, reseal(p) PROVE Inv'
<1>1. TypeInv /\ UsedInv
  BY DEF Inv
<1>2. PICK k \in call[p].kids :
          /\ updatePrivateJwkEnc(k)
          /\ IF call[p].kids = {k} THEN EndRun(p)
             ELSE call' = [call EXCEPT ![p].kids = @ \ {k}] /\ UNCHANGED cached
  BY Zenon DEF reseal
<1>3. UNCHANGED <<clock, load, expires, seen>> /\ call[p] # None /\ call[p].pc = "rekey"
  BY Zenon DEF reseal, At
<1>4. call[p] \in Call /\ call[p].kids \subseteq seen.used /\ k \in Kids
  BY Zenon, <1>1, <1>3 DEF TypeInv, UsedInv, Call
<1>5. /\ signing_keys' \in [Kids -> SigningKeyRow \cup {None}]
      /\ Rows' \subseteq Rows /\ RowsMove /\ SameLive
  BY <1>1, <1>2, <1>4, ResealRows
<1>6. load' \in [Isolates -> [Kinds -> Loads]]
  BY Zenon, <1>1, <1>3 DEF TypeInv
<1>7. CASE EndRun(p)
  <2>1. Respond(p) /\ (invalidate \/ UNCHANGED cached)
    BY Zenon, <1>7 DEF EndRun
  <2>2. call' \in [Procs -> Call \cup {None}] /\ \A q \in Procs : Onward(q)
    BY Zenon, <1>1, <2>1, RespondCalls
  <2>3. cached' \in [Isolates -> Entry \cup {None}] /\ \A j \in Isolates : cached'[j] \in {None, cached[j]}
    BY Zenon, <1>1, <2>1, CacheDropped
  <2> QED  BY Zenon, <1>3, <1>5, <1>6, <2>2, <2>3, QuietKeeps
<1>8. CASE call' = [call EXCEPT ![p].kids = @ \ {k}] /\ UNCHANGED cached
  <2>1. PICK d : d = [call[p] EXCEPT !.kids = @ \ {k}]
    BY Zenon
  <2>2. d \in Call /\ d.pc = "rekey" /\ d.kids \subseteq seen.used
    BY <1>3, <1>4, <2>1 DEF Call
  <2>3. call' = [call EXCEPT ![p] = d]
    BY <1>1, <1>8, <2>1 DEF TypeInv
  <2>4. call' \in [Procs -> Call \cup {None}] /\ \A q \in Procs : Onward(q)
    <3>1. /\ call' \in [Procs -> Call \cup {None}] /\ call'[p] = d
          /\ \A q \in Procs : q # p => call'[q] = call[q]
      BY Zenon, <1>1, <2>2, <2>3, MoveCalls
    <3> QED  BY Zenon, <2>2, <3>1 DEF Onward
  <2>5. cached' \in [Isolates -> Entry \cup {None}] /\ \A j \in Isolates : cached'[j] \in {None, cached[j]}
    BY Zenon, <1>1, <1>8, CacheDropped
  <2> QED  BY Zenon, <1>3, <1>5, <1>6, <2>4, <2>5, QuietKeeps
<1> QED  BY Zenon, <1>2, <1>7, <1>8

\* A retirement is decided on: what is left once it is written.
LEMMA DecideKeeps ==
    ASSUME Inv, NEW p \in Procs, NEW d \in Call, call' = [call EXCEPT ![p] = d],
           UNCHANGED <<clock, signing_keys, cached, load, expires, seen>>,
           d.kids \subseteq seen.used, d.pc = "insert" => seen.used # {},
           ~seen.overlapped /\ d.kids # {} => Spared(d.kids),
           d.op # "retire" => \A k \in d.kids : Succeeded(k)
    PROVE  Inv'
<1>1. TypeInv /\ UsedInv /\ CacheInv /\ FirstInv /\ ActiveInv /\ TokenInv
  BY Zenon DEF Inv
<1>2. /\ call' \in [Procs -> Call \cup {None}] /\ call'[p] = d /\ call'[p] # None
      /\ \A q \in Procs : q # p => call'[q] = call[q]
  BY Zenon, <1>1, MoveCalls
<1>3. \A q \in Procs : q # p => Onward(q)
  BY Zenon, <1>2, SameCalls
<1>4. Rows' = Rows /\ RowsMove /\ SameLive
  BY Zenon, <1>1, StillRows
<1>5. TypeInv'
  BY Zenon, <1>1, <1>2 DEF TypeInv
<1>6. UsedInv'
  <2>1. Rows' \subseteq seen'.used /\ seen'.first \subseteq seen'.used
    BY Zenon, <1>1, <1>4 DEF UsedInv
  <2>2. \A q \in Procs : \/ Onward(q)
                         \/ call'[q].kids \subseteq seen.used /\ (call'[q].pc = "insert" => seen.used # {})
    BY Zenon, <1>2, <1>3
  <2> QED  BY Zenon, <1>1, <2>1, <2>2, UsedKept
<1>7. CacheInv'
  BY Zenon, <1>1, <1>4, CacheKept
<1>8. FirstInv'
  BY Zenon, <1>1, <1>4, FirstKept DEF SameLive
<1>9. ActiveInv'
  <2>1. \A q \in Procs : Onward(q) \/ (~seen.overlapped /\ Deciding(q)' => Spared(call'[q].kids))
    <3> SUFFICES ASSUME ~seen.overlapped, Deciding(p)' PROVE Spared(call'[p].kids)
      BY Zenon, <1>3
    <3> QED  BY Zenon, <1>2 DEF Deciding
  <2> QED  BY Zenon, <1>1, <1>4, <2>1, SameActive, ActiveKept
<1>10. TokenInv'
  <2>1. ASSUME ~seen.emergency, Ahead PROVE CachesKnow' /\ TokensLast' /\ CronWaits'
    <3>1. CachesKnow /\ TokensLast /\ CronWaits
      BY Zenon, <1>1, <2>1 DEF TokenInv
    <3>2. CachesKnow'
      BY Zenon, <1>4, <3>1, CachesStill
    <3>3. TokensLast'
      BY Zenon, <1>1, <1>4, <3>1, TokensStill
    <3>4. \A q \in Procs : \/ Onward(q)
                           \/ Deciding(q)' /\ call'[q].op # "retire" =>
                                  \A k \in call'[q].kids : Succeeded(k)
      BY Zenon, <1>2, <1>3
    <3>5. CronWaits'
      BY Zenon, <1>1, <1>4, <3>1, <3>4, CronStill
    <3> QED  BY Zenon, <3>2, <3>3, <3>5
  <2>2. \A k \in Kids : expires'[k] <= clock' + TokenTtl
    BY Zenon, <1>1 DEF TokenInv
  <2> QED  BY Zenon, <2>1, <2>2 DEF TokenInv
<1> QED  BY Zenon, <1>5, <1>6, <1>7, <1>8, <1>9, <1>10 DEF Inv

\* An administrator retires a key: not the last active one of the listing.
LEMMA RetireHandlerKeeps == ASSUME Inv, NEW p \in Procs, NEW k \in Kids, retireKeyHandler(p, k) PROVE Inv'
<1>1. TypeInv /\ UsedInv /\ ActiveInv
  BY DEF Inv
<1>2. PICK d : d = [op |-> "retire", pc |-> "retire", kids |-> {k}]
  BY Zenon
<1>3. d \in Call /\ d.op = "retire" /\ d.pc = "retire" /\ d.kids = {k}
  BY <1>2 DEF Call
<1>4. /\ call' = [call EXCEPT ![p] = d] /\ k \in Live /\ ~RefusedAsLast(k)
      /\ UNCHANGED <<clock, signing_keys, cached, load, expires, seen>>
  BY <1>2 DEF retireKeyHandler, Begin, Live
<1>5. {k} \subseteq seen.used
  BY Zenon, <1>1, <1>4, LiveRows DEF UsedInv
<1>6. ASSUME ~seen.overlapped PROVE Spared({k})
  <2>1. ActiveNow # {}
    BY Zenon, <1>1, <1>5, <1>6 DEF ActiveInv
  <2>2. CASE ~(signing_keys[k].activates_at <= clock)
    <3>1. k \notin ActiveNow
      BY <2>2 DEF ActiveNow, Active
    <3> QED  BY <2>1, <3>1 DEF Spared
  <2>3. CASE ActiveNow \ {k} # {}
    BY <2>3 DEF Spared
  <2> QED  BY Zenon, <1>4, <2>2, <2>3 DEF RefusedAsLast, ActiveNow
<1> QED  BY Zenon, <1>3, <1>4, <1>5, <1>6, DecideKeeps

\* What the cron decides to retire: older than the signing key, which has signed
\* for the retirement time.
LEMMA SupersededFacts ==
    ASSUME TypeInv, Superseded # {}
    PROVE  \E s \in ActiveNow :
               /\ activates(s) + RetireAfter <= clock
               /\ s \notin Superseded
               /\ \A k \in Superseded : k \in Live /\ activates(k) < activates(s)
<1>1. PICK s : s = deriveSigning(signing_keys, clock)
  OBVIOUS
<1>2. /\ s # None /\ clock - signing_keys[s].activates_at >= RetireAfter
      /\ Superseded = OfRole(signing_keys, "verifying", clock)
  BY Zenon, <1>1 DEF Superseded
<1>3. s \in ActiveNow
  BY Zenon, <1>1, <1>2, SigningIsLatest DEF TypeInv, ActiveNow
<1>4. activates(s) \in Nat /\ clock \in Nat
  BY Zenon, <1>3, LiveRows, TokenNats
<1>5. activates(s) + RetireAfter <= clock
  BY <1>2, <1>4, Bounds DEF activates
<1>6. \A k \in Superseded : k \in Live /\ activates(k) < activates(s)
  <2> SUFFICES ASSUME NEW k \in Superseded PROVE k \in Live /\ activates(k) < activates(s)
    OBVIOUS
  <2>1. k \in Kids /\ signing_keys[k] # None /\ roleOf(signing_keys, k, clock) = "verifying"
    BY <1>2 DEF OfRole
  <2>2. /\ signing_keys[k].retired_at = None
        /\ signing_keys[k].activates_at < signing_keys[s].activates_at
    BY Zenon, <1>1, <2>1 DEF roleOf
  <2> QED  BY Zenon, <2>1, <2>2 DEF Live, Unretired, activates
<1>7. s \notin Superseded
  BY <1>4, <1>6
<1> QED  BY <1>3, <1>5, <1>6, <1>7

\* The cron begins.
LEMMA MaintainKeeps == ASSUME Inv, NEW p \in Procs, maintainSigningKeys(p) PROVE Inv'
<1>1. TypeInv /\ UsedInv
  BY DEF Inv
<1>2. PICK kids : kids = Superseded
  OBVIOUS
<1>3. PICK pc : pc = IF RotationDue THEN "insert" ELSE ToRetire(kids)
  BY Zenon
<1>4. PICK d : d = [op |-> "maintain", pc |-> pc, kids |-> kids]
  BY Zenon
<1>5. /\ call' = [call EXCEPT ![p] = d]
      /\ UNCHANGED <<clock, signing_keys, cached, load, expires, seen>>
  BY Zenon, <1>2, <1>3, <1>4 DEF maintainSigningKeys, Begin
<1>6. kids \subseteq Live
  BY <1>1, <1>2, SupersededFacts
<1>7. kids \subseteq seen.used /\ kids \subseteq Kids
  BY Zenon, <1>1, <1>6, LiveRows DEF UsedInv, Rows
<1>8. pc \in {"insert", "retire", "sweep"}
  BY <1>3 DEF ToRetire
<1>9. d \in Call /\ d.op = "maintain" /\ d.pc = pc /\ d.kids = kids
  BY Zenon, <1>4, <1>7, <1>8 DEF Call
<1>10. ASSUME pc = "insert" PROVE seen.used # {}
  <2>1. RotationDue
    BY <1>3, <1>10 DEF ToRetire
  <2>2. deriveSigning(signing_keys, clock) \in ActiveNow
    BY Zenon, <1>1, <2>1, SigningIsLatest DEF RotationDue, TypeInv, ActiveNow
  <2> QED  BY <1>1, <2>2, LiveRows DEF UsedInv
<1>11. kids # {} => Spared(kids)
  BY <1>1, <1>2, SupersededFacts DEF Spared
<1>12. \A k \in kids : Succeeded(k)
  BY Zenon, <1>1, <1>2, SupersededFacts, LiveRows DEF Succeeded
<1> QED  BY Zenon, <1>5, <1>7, <1>9, <1>10, <1>11, <1>12, DecideKeeps

\* What a new key leaves true of the keys there were and of the caches.
LEMMA InsertKeeps ==
    ASSUME Inv, NEW k \in Kids, k \notin seen.used, Rows' = Rows \cup {k}, Live' = Live \cup {k},
           signing_keys' \in [Kids -> SigningKeyRow \cup {None}],
           \A j \in Kids : j # k => signing_keys'[j] = signing_keys[j],
           seen' \in Seen, seen'.used = seen.used \cup {k}, seen'.first \subseteq seen'.used,
           UNCHANGED <<clock, expires>>,
           cached' \in [Isolates -> Entry \cup {None}], \A i \in Isolates : cached'[i] \in {None, cached[i]},
           load' \in [Isolates -> [Kinds -> Loads]],
           call' \in [Procs -> Call \cup {None}], \A q \in Procs : Onward(q)
    PROVE  TypeInv' /\ UsedInv' /\ CacheInv' /\ ActiveNow \subseteq ActiveNow'
<1>1. TypeInv /\ UsedInv /\ CacheInv
  BY Zenon DEF Inv
<1>2. RowsMove /\ ActiveNow \subseteq ActiveNow'
  BY Zenon, <1>1, InsertMoves
<1>3. TypeInv'
  BY Zenon, <1>1 DEF TypeInv
<1>4. UsedInv'
  <2>1. Rows' \subseteq seen'.used /\ seen.used \subseteq seen'.used
    BY Zenon, <1>1 DEF UsedInv
  <2> QED  BY Zenon, <1>1, <2>1, UsedKept
<1>5. CacheInv'
  <2>1. seen.used \subseteq seen'.used
    BY Zenon
  <2> QED  BY Zenon, <1>1, <1>2, <2>1, CacheKept
<1> QED  BY Zenon, <1>2, <1>3, <1>4, <1>5

\* A rotation, by hand or by the cron.
LEMMA RotateKeeps ==
    ASSUME Inv, NEW immediate \in BOOLEAN, rotateSigningKey(immediate), seen.used # {},
           UNCHANGED <<clock, load, expires>>,
           cached' \in [Isolates -> Entry \cup {None}], \A i \in Isolates : cached'[i] \in {None, cached[i]},
           call' \in [Procs -> Call \cup {None}], \A q \in Procs : Onward(q)
    PROVE  Inv'
<1>1. TypeInv /\ UsedInv /\ CacheInv /\ FirstInv /\ ActiveInv /\ TokenInv
  BY Zenon DEF Inv
<1>2. PICK a : a = IF immediate THEN clock ELSE clock + Prepublish
  BY Zenon
<1>3. a \in 0 .. MaxTime + Prepublish
  BY <1>1, <1>2, Bounds DEF TypeInv, Times
<1>4. insertSigningKey(clock, a)
  BY Zenon, <1>2 DEF rotateSigningKey
<1>5. PICK k \in Kids :
          /\ k \notin seen.used
          /\ signing_keys' \in [Kids -> SigningKeyRow \cup {None}]
          /\ Used(signing_keys') = seen.used \cup {k}
          /\ Rows' = Rows \cup {k} /\ Live' = Live \cup {k} /\ activates(k)' = a
          /\ \A j \in Kids : j # k => signing_keys'[j] = signing_keys[j]
  BY Zenon, <1>1, <1>3, <1>4, InsertRows
<1>6. PICK b \in BOOLEAN : b = (seen.emergency \/ immediate)
  BY Zenon
<1>7. PICK U : U = seen.used \cup {k}
  BY Zenon
<1>8. seen' = [seen EXCEPT !.used = U, !.emergency = b]
  BY Zenon, <1>5, <1>6, <1>7 DEF rotateSigningKey
<1>9. U \in SUBSET Kids /\ seen \in Seen
  BY Zenon, <1>1, <1>7 DEF TypeInv, Seen
<1>10. /\ seen' \in Seen /\ seen'.used = U /\ seen'.first = seen.first
       /\ seen'.emergency = b /\ seen'.overlapped = seen.overlapped
  BY Zenon, <1>6, <1>8, <1>9 DEF Seen
<1>11. load' \in [Isolates -> [Kinds -> Loads]]
  BY Zenon, <1>1 DEF TypeInv
<1>12. seen'.used = seen.used \cup {k} /\ seen'.first \subseteq seen'.used
  BY Zenon, <1>1, <1>7, <1>10 DEF UsedInv
<1>13. TypeInv' /\ UsedInv' /\ CacheInv' /\ ActiveNow \subseteq ActiveNow'
  BY Zenon, <1>5, <1>10, <1>11, <1>12, InsertKeeps
<1>14. FirstInv'
  <2>1. \A j \in seen.used : j \in Live' => j \in Live
    BY Zenon, <1>5
  <2> QED  BY Zenon, <1>1, <1>10, <2>1, FirstKept
<1>15. ActiveInv'
  BY Zenon, <1>1, <1>10, <1>13, ActiveKept
<1>16. TokenInv'
  <2>1. ASSUME ~seen'.emergency, Ahead PROVE CachesKnow' /\ TokensLast' /\ CronWaits'
    <3>1. ~seen.emergency /\ a = clock + Prepublish
      BY Zenon, <1>2, <1>6, <1>10, <2>1
    <3>2. CachesKnow /\ TokensLast /\ CronWaits /\ \A j \in Kids : expires[j] <= clock + TokenTtl
      BY Zenon, <1>1, <2>1, <3>1 DEF TokenInv
    <3>3. \A j \in Live : activates(j)' = activates(j) /\ j # k
      BY Zenon, <1>1, <1>5, InsertMoves
    <3>4. activates(k)' = clock + Prepublish
      BY Zenon, <1>5, <3>1
    <3> QED  BY Zenon, <1>1, <1>5, <2>1, <3>2, <3>3, <3>4, TokenInserted
  <2>2. \A j \in Kids : expires'[j] <= clock' + TokenTtl
    BY Zenon, <1>1 DEF TokenInv
  <2> QED  BY Zenon, <2>1, <2>2 DEF TokenInv
<1> QED  BY Zenon, <1>13, <1>14, <1>15, <1>16 DEF Inv

\* By hand.
LEMMA RotateHandlerKeeps ==
    ASSUME Inv, NEW p \in Procs, NEW immediate \in BOOLEAN, rotateKeyHandler(p, immediate)
    PROVE  Inv'
<1>1. TypeInv
  BY DEF Inv
<1>2. /\ rotateSigningKey(immediate) /\ invalidate /\ UNCHANGED <<clock, load, call, expires>>
      /\ seen.used # {}
  BY DEF rotateKeyHandler, Authenticated
<1>3. cached' \in [Isolates -> Entry \cup {None}] /\ \A j \in Isolates : cached'[j] \in {None, cached[j]}
  BY Zenon, <1>1, <1>2, CacheDropped
<1>4. call' \in [Procs -> Call \cup {None}] /\ \A q \in Procs : Onward(q)
  BY Zenon, <1>1, <1>2, SameCalls DEF TypeInv
<1> QED  BY Zenon, <1>2, <1>3, <1>4, RotateKeeps

\* By the cron, before it retires.
LEMMA CreateNextKeeps == ASSUME Inv, NEW p \in Procs, createNext(p) PROVE Inv'
<1>1. TypeInv /\ UsedInv
  BY DEF Inv
<1>2. /\ rotateSigningKey(FALSE) /\ UNCHANGED <<clock, cached, load, expires>>
      /\ call[p] # None /\ call[p].pc = "insert"
  BY Zenon DEF createNext, At
<1>3. call[p] \in Call /\ seen.used # {} /\ call[p].kids \subseteq seen.used
  BY Zenon, <1>1, <1>2 DEF TypeInv, UsedInv
<1>4. PICK pc : pc = ToRetire(call[p].kids)
  OBVIOUS
<1>5. pc \in {"sweep", "retire"}
  BY <1>4 DEF ToRetire
<1>6. PICK d : d = [call[p] EXCEPT !.pc = pc]
  BY Zenon
<1>7. d \in Call /\ d.pc = pc /\ d.op = call[p].op /\ d.kids = call[p].kids
  BY <1>3, <1>5, <1>6 DEF Call
<1>8. call' = [call EXCEPT ![p] = d]
  BY <1>1, <1>4, <1>6 DEF createNext, Goto, TypeInv
<1>9. call' \in [Procs -> Call \cup {None}] /\ \A q \in Procs : Onward(q)
  <2>1. /\ call' \in [Procs -> Call \cup {None}] /\ call'[p] = d
        /\ \A q \in Procs : q # p => call'[q] = call[q]
    BY Zenon, <1>1, <1>7, <1>8, MoveCalls
  <2>2. Onward(p)
    BY Zenon, <1>2, <1>3, <1>5, <1>7, <2>1 DEF Onward
  <2>3. \A q \in Procs : q # p => Onward(q)
    BY Zenon, <2>1, SameCalls
  <2> QED  BY Zenon, <2>1, <2>2, <2>3
<1>10. cached' \in [Isolates -> Entry \cup {None}] /\ \A j \in Isolates : cached'[j] \in {None, cached[j]}
  BY Zenon, <1>1, <1>2, CacheDropped
<1> QED  BY Zenon, <1>2, <1>3, <1>9, <1>10, RotateKeeps

\* An isolate gives an empty store its first key.
LEMMA InsertFirstKeeps ==
    ASSUME Inv, NEW i \in Isolates, NEW kind \in Kinds, insertFirst(i, kind)
    PROVE  Inv'
<1>1. TypeInv /\ UsedInv /\ CacheInv /\ FirstInv /\ ActiveInv /\ TokenInv
  BY DEF Inv
<1>2. UNCHANGED <<clock, cached, call, expires>>
  BY DEF insertFirst
<1>3. load' \in [Isolates -> [Kinds -> Loads]]
  BY <1>1 DEF insertFirst, TypeInv, Loads
<1>4. cached' \in [Isolates -> Entry \cup {None}] /\ \A j \in Isolates : cached'[j] \in {None, cached[j]}
  BY Zenon, <1>1, <1>2, CacheDropped
<1>5. call' \in [Procs -> Call \cup {None}] /\ \A q \in Procs : Onward(q)
  BY Zenon, <1>1, <1>2, SameCalls DEF TypeInv
<1>6. PICK b \in BOOLEAN : b = (seen.emergency \/ (seen.used # {} /\ signing_keys' # signing_keys))
  BY Zenon
<1>7. CASE UNCHANGED signing_keys
  <2>1. Used(signing_keys') = seen.used
    BY Zenon, <1>1, <1>7 DEF Used, UsedInv, Rows
  <2>2. b = seen.emergency
    BY Zenon, <1>1, <1>6, <1>7 DEF TypeInv, Seen
  <2>3. seen.first \cup (seen.used \ seen.used) = seen.first
    BY Zenon
  <2>4. seen' = [seen EXCEPT !.used = seen.used, !.first = seen.first, !.emergency = seen.emergency]
    BY Zenon, <1>6, <2>1, <2>2, <2>3 DEF insertFirst
  <2>5. seen' = seen
    BY Zenon, <1>1, <2>4 DEF TypeInv, Seen
  <2>6. /\ signing_keys' \in [Kids -> SigningKeyRow \cup {None}]
        /\ Rows' \subseteq Rows /\ RowsMove /\ SameLive
    BY <1>1, <1>7, StillRows
  <2> QED  BY Zenon, <1>2, <1>3, <1>4, <1>5, <2>5, <2>6, QuietKeeps
<1>8. CASE Live = {} /\ insertSigningKey(clock, clock)
  <2>1. clock \in 0 .. MaxTime + Prepublish
    BY <1>1, Bounds DEF TypeInv, Times
  <2>2. PICK k \in Kids :
            /\ k \notin seen.used
            /\ signing_keys' \in [Kids -> SigningKeyRow \cup {None}]
            /\ Used(signing_keys') = seen.used \cup {k}
            /\ Rows' = Rows \cup {k} /\ Live' = Live \cup {k} /\ activates(k)' = clock
            /\ \A j \in Kids : j # k => signing_keys'[j] = signing_keys[j]
    BY Zenon, <1>1, <1>8, <2>1, InsertRows
  <2>3. PICK U, F : U = seen.used \cup {k} /\ F = seen.first \cup (U \ seen.used)
    BY Zenon
  <2>4. seen' = [seen EXCEPT !.used = U, !.first = F, !.emergency = b]
    BY Zenon, <1>6, <2>2, <2>3 DEF insertFirst
  <2>5. U \in SUBSET Kids /\ F \in SUBSET Kids /\ seen \in Seen /\ F \subseteq U
    BY Zenon, <1>1, <2>3 DEF TypeInv, Seen, UsedInv
  <2>6. /\ seen' \in Seen /\ seen'.used = U /\ seen'.first = F
        /\ seen'.emergency = b /\ seen'.overlapped = seen.overlapped
    BY Zenon, <1>6, <2>4, <2>5 DEF Seen
  <2>7. TypeInv' /\ UsedInv' /\ CacheInv' /\ ActiveNow \subseteq ActiveNow'
    BY Zenon, <1>2, <1>3, <1>4, <1>5, <2>2, <2>3, <2>5, <2>6, InsertKeeps
  <2>8. FirstInv'
    BY Zenon, <1>8, <2>2 DEF FirstInv
  <2>9. ActiveInv'
    <3>1. CASE seen.used # {}
      BY Zenon, <1>1, <1>5, <2>6, <2>7, <3>1, ActiveKept
    <3>2. CASE seen.used = {}
      <4>1. k \in ActiveNow'
        <5>1. k \in Live' /\ signing_keys'[k].activates_at <= clock'
          BY <1>1, <1>2, <2>2, TokenNats DEF activates
        <5> QED  BY <5>1 DEF ActiveNow, Active, Live
      <4>2. \A q \in Procs : ~Deciding(q)'
        BY Zenon, <1>1, <1>2, <3>2 DEF UsedInv, Deciding
      <4> QED  BY Zenon, <4>1, <4>2 DEF ActiveInv
    <3> QED  BY Zenon, <3>1, <3>2
  <2>10. TokenInv'
    <3>1. ASSUME ~seen'.emergency, Ahead PROVE CachesKnow' /\ TokensLast' /\ CronWaits'
      <4>1. signing_keys' # signing_keys
        BY Zenon, <1>1, <2>2 DEF UsedInv, Rows
      <4>2. seen.used = {} /\ ~seen.emergency
        BY Zenon, <1>6, <2>6, <3>1, <4>1
      <4>3. TokensLast
        BY Zenon, <1>1, <3>1, <4>2 DEF TokenInv
      <4> QED  BY Zenon, <1>1, <1>2, <4>2, <4>3, TokenFirst
    <3>2. \A j \in Kids : expires'[j] <= clock' + TokenTtl
      BY Zenon, <1>1, <1>2 DEF TokenInv
    <3> QED  BY Zenon, <3>1, <3>2 DEF TokenInv
  <2> QED  BY Zenon, <2>7, <2>8, <2>9, <2>10 DEF Inv
<1> QED  BY Zenon, <1>7, <1>8 DEF insertFirst, insertFirstSigningKey, Live

\* A key is retired, by hand or by the cron.
LEMMA RetireNextKeeps == ASSUME Inv, NEW p \in Procs, call[p] # None, retireNext(p) PROVE Inv'
<1>1. TypeInv /\ UsedInv /\ CacheInv /\ FirstInv /\ ActiveInv /\ TokenInv
  BY DEF Inv
<1>2. PICK k \in call[p].kids :
          /\ call[p].pc = "retire" /\ retireSigningKey(k, clock)
          /\ IF call[p].op = "retire" THEN Respond(p) /\ invalidate
             ELSE /\ call' = [call EXCEPT ![p].kids = @ \ {k}, ![p].pc = ToRetire(call[p].kids \ {k})]
                  /\ UNCHANGED cached
          /\ seen' = [seen EXCEPT !.overlapped = @ \/ Overlapping(p),
                                  !.emergency = @ \/ call[p].op = "retire"]
          /\ UNCHANGED <<clock, load, expires>>
  BY Zenon DEF retireNext, At
<1>3. call[p] \in Call /\ call[p].kids \subseteq seen.used /\ k \in Kids /\ Deciding(p)
  BY <1>1, <1>2 DEF TypeInv, UsedInv, Call, Deciding
<1>4. /\ signing_keys' \in [Kids -> SigningKeyRow \cup {None}]
      /\ Rows' = Rows /\ RowsMove /\ Live' = Live \ {k}
      /\ \A j \in Live : activates(j)' = activates(j)
  BY Zenon, <1>1, <1>2, <1>3, RetireRows
<1>5. PICK b \in BOOLEAN, o \in BOOLEAN : /\ b = (seen.emergency \/ call[p].op = "retire")
                                          /\ o = (seen.overlapped \/ Overlapping(p))
  BY Zenon
<1>6. seen' = [seen EXCEPT !.overlapped = o, !.emergency = b]
  BY Zenon, <1>2, <1>5
<1>7. /\ seen' \in Seen /\ seen'.used = seen.used /\ seen'.first = seen.first
      /\ seen'.emergency = b /\ seen'.overlapped = o
  BY Zenon, <1>1, <1>5, <1>6 DEF TypeInv, Seen
<1>8. cached' \in [Isolates -> Entry \cup {None}] /\ \A j \in Isolates : cached'[j] \in {None, cached[j]}
  BY Zenon, <1>1, <1>2, CacheDropped
<1>9. /\ call' \in [Procs -> Call \cup {None}] /\ Onward(p)
      /\ \A q \in Procs : q # p => call'[q] = call[q]
      /\ call'[p] # None => call'[p].kids = call[p].kids \ {k}
  <2>1. CASE Respond(p)
    BY Zenon, <1>1, <2>1, RespondCalls DEF Respond, TypeInv
  <2>2. CASE call[p].op # "retire"
    <3>1. PICK pc : pc = ToRetire(call[p].kids \ {k})
      BY Zenon
    <3>2. pc \in {"sweep", "retire"}
      BY Zenon, <3>1 DEF ToRetire
    <3>3. PICK d : d = [call[p] EXCEPT !.kids = @ \ {k}, !.pc = pc]
      OBVIOUS
    <3>4. d \in Call /\ d.pc = pc /\ d.op = call[p].op /\ d.kids = call[p].kids \ {k}
      BY Zenon, <1>3, <3>2, <3>3 DEF Call
    <3>5. call' = [call EXCEPT ![p] = d]
      BY Zenon, <1>1, <1>2, <2>2, <3>1, <3>3 DEF TypeInv
    <3>6. /\ call' \in [Procs -> Call \cup {None}] /\ call'[p] = d
          /\ \A q \in Procs : q # p => call'[q] = call[q]
      BY Zenon, <1>1, <3>4, <3>5, MoveCalls
    <3>7. Onward(p)
      BY <1>2, <1>3, <3>2, <3>4, <3>6 DEF Onward
    <3> QED  BY Zenon, <3>4, <3>6, <3>7
  <2> QED  BY Zenon, <1>2, <2>1, <2>2
<1>10. \A q \in Procs : Onward(q)
  BY Zenon, <1>9, SameCalls
<1>11. TypeInv'
  BY Zenon, <1>1, <1>2, <1>4, <1>7, <1>8, <1>9 DEF TypeInv
<1>12. UsedInv'
  <2>1. Rows' \subseteq seen'.used /\ seen'.first \subseteq seen'.used /\ seen.used \subseteq seen'.used
    BY Zenon, <1>1, <1>4, <1>7 DEF UsedInv
  <2> QED  BY Zenon, <1>1, <1>10, <2>1, UsedKept
<1>13. CacheInv'
  <2>1. seen.used \subseteq seen'.used /\ UNCHANGED clock
    BY Zenon, <1>2, <1>7
  <2> QED  BY Zenon, <1>1, <1>4, <1>8, <2>1, CacheKept
<1>14. FirstInv'
  <2>1. \A j \in seen.used : j \in Live' => j \in Live
    BY Zenon, <1>4
  <2> QED  BY Zenon, <1>1, <1>7, <2>1, FirstKept
<1>15. ActiveInv'
  <2> SUFFICES ASSUME ~seen'.overlapped
               PROVE  /\ ActiveNow' # {}
                      /\ \A q \in Procs : Deciding(q)' => ActiveNow' \ call'[q].kids # {}
    BY Zenon DEF ActiveInv, Spared
  <2>1. ~seen.overlapped /\ \A q \in Procs : q # p => ~Deciding(q)
    BY Zenon, <1>5, <1>7 DEF Overlapping
  <2>2. ActiveNow \ call[p].kids # {}
    BY Zenon, <1>1, <1>3, <2>1 DEF ActiveInv, Spared
  <2>3. ActiveNow' = ActiveNow \ {k}
    BY <1>2, <1>4 DEF ActiveNow, Active, Live, activates
  <2>4. ActiveNow' # {}
    BY <1>2, <2>2, <2>3
  <2>5. ASSUME NEW q \in Procs, Deciding(q)' PROVE ActiveNow' \ call'[q].kids # {}
    <3>1. q = p
      BY Zenon, <1>1, <1>10, <2>1, <2>5, OnwardFacts
    <3>2. call'[q].kids = call[p].kids \ {k}
      BY Zenon, <1>9, <2>5, <3>1 DEF Deciding
    <3> QED  BY <1>2, <2>2, <2>3, <3>2
  <2> QED  BY Zenon, <2>4, <2>5
<1>16. TokenInv'
  <2>1. ASSUME ~seen'.emergency, Ahead PROVE CachesKnow' /\ TokensLast' /\ CronWaits'
    <3>1. ~seen.emergency /\ call[p].op # "retire"
      BY Zenon, <1>5, <1>7, <2>1
    <3>2. CachesKnow /\ TokensLast /\ CronWaits
      BY Zenon, <1>1, <2>1, <3>1 DEF TokenInv
    <3>3. Succeeded(k)
      BY Zenon, <1>2, <1>3, <3>1, <3>2 DEF CronWaits
    <3>4. UNCHANGED <<clock, cached, expires>>
      BY Zenon, <1>2, <3>1
    <3> QED  BY Zenon, <1>1, <1>3, <1>4, <1>10, <3>2, <3>3, <3>4, TokenRetired
  <2>2. \A j \in Kids : expires'[j] <= clock' + TokenTtl
    BY Zenon, <1>1, <1>2 DEF TokenInv
  <2> QED  BY Zenon, <2>1, <2>2 DEF TokenInv
<1> QED  BY Zenon, <1>11, <1>12, <1>13, <1>14, <1>15, <1>16 DEF Inv

-----------------------------------------------------------------------------
(* The steps of isolates, and time.                                        *)

\* A token is signed with an entry, which may be one just loaded.
LEMMA SignKeeps ==
    ASSUME Inv, NEW e \in Entry, NEW i \in Isolates, EntryOk(e),
           ~seen.emergency /\ Ahead => Published(e) /\ SignsLatest(e),
           UNCHANGED <<clock, signing_keys, call, seen>>, load' \in [Isolates -> [Kinds -> Loads]],
           cached' \in {cached, [cached EXCEPT ![i] = e]},
           expires' \in {expires, [expires EXCEPT ![e.loaded.signing] = clock + TokenTtl]}
    PROVE  Inv'
<1>1. TypeInv /\ UsedInv /\ CacheInv /\ FirstInv /\ ActiveInv /\ TokenInv
  BY Zenon DEF Inv
<1>2. PICK s \in Kids : s = e.loaded.signing
  BY Zenon DEF Entry, LoadedKeys
<1>3. clock + TokenTtl \in 0 .. MaxTime + TokenTtl
  BY <1>1, Bounds DEF TypeInv, Times
<1>4. /\ expires' \in [Kids -> 0 .. MaxTime + TokenTtl]
      /\ \A k \in Kids : expires'[k] = expires[k] \/ (expires'[k] = clock + TokenTtl /\ k = s)
  BY Zenon, <1>1, <1>2, <1>3 DEF TypeInv
<1>5. /\ cached' \in [Isolates -> Entry \cup {None}]
      /\ \A j \in Isolates : cached'[j] = cached[j] \/ cached'[j] = e
  BY Zenon, <1>1 DEF TypeInv
<1>6. /\ signing_keys' \in [Kids -> SigningKeyRow \cup {None}]
      /\ Rows' = Rows /\ RowsMove /\ SameLive
  BY Zenon, <1>1, StillRows
<1>7. \A q \in Procs : Onward(q)
  BY Zenon, SameCalls
<1>8. TypeInv'
  BY Zenon, <1>1, <1>4, <1>5, <1>6 DEF TypeInv
<1>9. UsedInv'
  <2>1. Rows' \subseteq seen'.used /\ seen'.first \subseteq seen'.used
    BY Zenon, <1>1, <1>6 DEF UsedInv
  <2> QED  BY Zenon, <1>1, <1>7, <2>1, UsedKept
<1>10. CacheInv'
  <2>1. \A d : EntryOk(d) => EntryOk(d)'
    BY Zenon, <1>6 DEF EntryOk, KeptFrom
  <2>2. ASSUME NEW j \in Isolates, cached'[j] # None PROVE EntryOk(cached'[j])
    BY Zenon, <1>1, <1>5, <2>2 DEF CacheInv
  <2>3. EntryOk(e)'
    BY Zenon, <2>1
  <2> QED  BY Zenon, <1>6, <2>2 DEF CacheInv, EntryOk, KeptFrom
<1>11. FirstInv'
  BY Zenon, <1>1, <1>6, FirstKept DEF SameLive
<1>12. ActiveInv'
  BY Zenon, <1>1, <1>6, <1>7, SameActive, ActiveKept
<1>13. TokenInv'
  <2>1. ASSUME ~seen.emergency, Ahead PROVE CachesKnow' /\ TokensLast' /\ CronWaits'
    <3>1. CachesKnow /\ TokensLast /\ CronWaits
      BY Zenon, <1>1, <2>1 DEF TokenInv
    <3>2. CachesKnow'
      BY Zenon, <1>5, <1>6, <2>1, <3>1, CachesStill
    <3>3. Signs(s)
      BY Zenon, <1>1, <1>2, <2>1, EntrySigns DEF EntryOk
    <3>4. TokensLast'
      BY Zenon, <1>1, <1>4, <1>6, <3>1, <3>3, TokensStill
    <3>5. CronWaits'
      BY Zenon, <1>1, <1>6, <1>7, <3>1, CronStill
    <3> QED  BY Zenon, <3>2, <3>4, <3>5
  <2>2. \A k \in Kids : expires'[k] <= clock' + TokenTtl
    BY <1>1, <1>4, TokenNats DEF TokenInv
  <2> QED  BY Zenon, <2>1, <2>2 DEF TokenInv
<1> QED  BY Zenon, <1>8, <1>9, <1>10, <1>11, <1>12, <1>13 DEF Inv

\* A cached value is served, fresh or stale.
LEMMA ServeKeeps ==
    ASSUME Inv, NEW i \in Isolates, serveCached(i) \/ serveStale(i)
    PROVE  Inv'
<1>1. TypeInv /\ CacheInv /\ TokenInv
  BY DEF Inv
<1>2. /\ cached[i] # None /\ signJwt(cached[i].loaded)
      /\ UNCHANGED <<clock, signing_keys, cached, load, call, seen>>
  BY Zenon DEF serveCached, serveStale, Fresh
<1>3. PICK e \in Entry : e = cached[i]
  BY Zenon, <1>1, <1>2 DEF TypeInv
<1>4. EntryOk(e) /\ (~seen.emergency /\ Ahead => Published(e) /\ SignsLatest(e))
  BY Zenon, <1>1, <1>2, <1>3 DEF CacheInv, TokenInv, CachesKnow
<1>5. expires' = [expires EXCEPT ![e.loaded.signing] = clock + TokenTtl]
  BY Zenon, <1>2, <1>3 DEF signJwt
<1>6. load' \in [Isolates -> [Kinds -> Loads]]
  BY Zenon, <1>1, <1>2 DEF TypeInv
<1> QED  BY Zenon, <1>2, <1>4, <1>5, <1>6, SignKeeps

\* The keys are loaded.
LEMMA LoadKeeps ==
    ASSUME Inv, NEW i \in Isolates, NEW kind \in Kinds, loadNow(i, kind)
    PROVE  Inv'
<1>1. TypeInv /\ UsedInv
  BY DEF Inv
<1>2. /\ UNCHANGED <<clock, signing_keys, call, seen>>
      /\ load' \in [Isolates -> [Kinds -> Loads]]
  <2>1. UNCHANGED <<clock, signing_keys, call, seen>>
    BY Zenon DEF loadNow
  <2>2. PICK l \in Loads : load' = [load EXCEPT ![i][kind] = l]
    BY Zenon DEF loadNow, Loads
  <2>3. load' \in [Isolates -> [Kinds -> Loads]]
    BY <1>1, <2>2 DEF TypeInv
  <2> QED  BY Zenon, <2>1, <2>3
<1>3. CASE UNCHANGED <<cached, expires>>
  <2>1. /\ signing_keys' \in [Kids -> SigningKeyRow \cup {None}]
        /\ Rows' \subseteq Rows /\ RowsMove /\ SameLive
    BY <1>1, <1>2, StillRows
  <2>2. cached' \in [Isolates -> Entry \cup {None}] /\ \A j \in Isolates : cached'[j] \in {None, cached[j]}
    BY Zenon, <1>1, <1>3, CacheDropped
  <2>3. call' \in [Procs -> Call \cup {None}] /\ \A q \in Procs : Onward(q)
    BY Zenon, <1>1, <1>2, SameCalls DEF TypeInv
  <2> QED  BY Zenon, <1>2, <1>3, <2>1, <2>2, <2>3, QuietKeeps
<1>4. CASE /\ deriveSigning(signing_keys, clock) # None
           /\ cached' = [cached EXCEPT ![i] = [loaded |-> Loaded(signing_keys, clock), at |-> clock]]
           /\ IF kind = "loading" THEN signJwt(cached'[i].loaded) ELSE UNCHANGED expires
  <2>1. PICK s : s = deriveSigning(signing_keys, clock)
    OBVIOUS
  <2>2. s \in ActiveNow /\ \A j \in ActiveNow : activates(j) <= activates(s)
    BY Zenon, <1>1, <1>4, <2>1, SigningIsLatest DEF TypeInv, ActiveNow, activates
  <2>3. s \in Live /\ s \in Kids /\ Live \subseteq Kids /\ activates(s) <= clock
    BY Zenon, <2>2, LiveRows DEF ActiveNow, Active, Live, Unretired, activates
  <2>4. PICK e : e = [loaded |-> [signing |-> s, jwks |-> Live], at |-> clock]
    BY Zenon
  <2>5. e \in Entry /\ e.at = clock /\ e.loaded.signing = s /\ e.loaded.jwks = Live
    BY Zenon, <1>1, <2>3, <2>4 DEF Entry, LoadedKeys, TypeInv
  <2>6. cached' = [cached EXCEPT ![i] = e] /\ cached'[i] = e
    BY Zenon, <1>1, <1>4, <2>1, <2>4 DEF Loaded, Live, TypeInv
  <2>7. expires' \in {expires, [expires EXCEPT ![e.loaded.signing] = clock + TokenTtl]}
    BY Zenon, <1>4, <2>6 DEF signJwt
  <2>8. EntryOk(e)
    <3>1. \A k \in Live : KeptFrom(k, clock)
      BY Zenon, <1>1, LiveRows DEF KeptFrom, UsedInv, Live, Unretired
    <3>2. clock <= clock /\ clock - clock < KEYS_STALE
      BY <1>1, TokenNats, Bounds
    <3> QED  BY Zenon, <2>3, <2>5, <3>1, <3>2 DEF EntryOk
  <2>9. Published(e)
    BY Zenon, <2>5 DEF Published
  <2>10. SignsLatest(e)
    <3>1. ASSUME NEW j \in Live PROVE activates(j) <= activates(s) \/ activates(j) > clock
      <4>1. activates(j) \in Nat /\ clock \in Nat
        BY Zenon, <1>1, TokenNats
      <4>2. activates(j) <= clock => j \in ActiveNow
        BY Zenon DEF ActiveNow, Active, Live, activates
      <4> QED  BY <2>2, <4>1, <4>2
    <3> QED  BY Zenon, <2>3, <2>5, <3>1 DEF SignsLatest
  <2> QED  BY Zenon, <1>2, <2>5, <2>6, <2>7, <2>8, <2>9, <2>10, SignKeeps
<1> QED  BY Zenon, <1>3, <1>4 DEF loadNow

\* A minute passes while nothing is in flight.
LEMMA TickKeeps == ASSUME Inv, Tick PROVE Inv'
<1>1. TypeInv /\ UsedInv /\ CacheInv /\ FirstInv /\ ActiveInv /\ TokenInv
  BY DEF Inv
<1>2. /\ clock \in Nat /\ clock' = clock + 1 /\ clock' \in Times /\ UNCHANGED <<signing_keys, load, call, seen>>
      /\ \A p \in Procs : call[p] = None
  BY <1>1, Bounds DEF Tick, TypeInv, Times
<1>3. Rows' = Rows /\ SameLive
  BY Zenon, <1>1, <1>2, StillRows
<1>4. /\ cached' \in [Isolates -> Entry \cup {None}]
      /\ \A i \in Isolates : cached'[i] # None => cached'[i] = cached[i] /\ ~(clock' - cached[i].at >= KEYS_STALE)
  BY Zenon, <1>1 DEF Tick, TypeInv
<1>5. /\ expires' \in [Kids -> 0 .. MaxTime + TokenTtl]
      /\ \A k \in Kids : expires'[k] = 0 \/ expires'[k] = expires[k]
  BY <1>1, Bounds DEF Tick, TypeInv
<1>6. TypeInv'
  BY Zenon, <1>1, <1>2, <1>4, <1>5 DEF TypeInv
<1>7. UsedInv'
  BY Zenon, <1>1, <1>2, <1>3 DEF UsedInv
<1>8. CacheInv'
  <2> SUFFICES ASSUME NEW i \in Isolates, cached'[i] # None PROVE EntryOk(cached[i])'
    BY Zenon DEF CacheInv
  <2>1. PICK e \in Entry : e = cached[i] /\ e = cached'[i] /\ EntryOk(e) /\ ~(clock' - e.at >= KEYS_STALE)
    BY Zenon, <1>1, <1>4 DEF CacheInv, TypeInv
  <2>2. e.at \in Nat
    BY Bounds DEF Entry, Times
  <2>3. e.at <= clock' /\ clock' - e.at < KEYS_STALE
    BY <1>2, <2>1, <2>2, Bounds DEF EntryOk
  <2>4. \A k \in e.loaded.jwks : KeptFrom(k, e.at)'
    <3> SUFFICES ASSUME NEW k \in e.loaded.jwks PROVE KeptFrom(k, e.at)'
      BY Zenon
    <3>1. KeptFrom(k, e.at)
      BY Zenon, <2>1 DEF EntryOk
    <3> QED  BY <1>2, <1>3, <2>2, <3>1, Bounds DEF KeptFrom
  <2>5. EntryOk(e)'
    BY Zenon, <2>1, <2>3, <2>4 DEF EntryOk
  <2> QED  BY Zenon, <2>1, <2>5 DEF EntryOk, KeptFrom
<1>9. FirstInv'
  BY Zenon, <1>1, <1>2, <1>3, FirstKept DEF SameLive
<1>10. ActiveInv'
  <2>1. ActiveNow \subseteq ActiveNow'
    <3> SUFFICES ASSUME NEW k \in ActiveNow PROVE k \in ActiveNow'
      OBVIOUS
    <3>1. k \in Live /\ activates(k) <= clock /\ activates(k) \in Nat
      BY Zenon, <1>1, LiveRows, TokenNats DEF ActiveNow, Active, activates
    <3>2. k \in Live' /\ activates(k)' <= clock'
      BY <1>2, <1>3, <3>1 DEF SameLive
    <3> QED  BY Zenon, <3>2 DEF ActiveNow, Active, Live, activates
  <2>2. \A q \in Procs : Onward(q)
    BY Zenon, <1>2 DEF Onward
  <2> QED  BY Zenon, <1>1, <1>2, <2>1, <2>2, ActiveKept
<1>11. TokenInv'
  <2>1. ASSUME ~seen.emergency, Ahead PROVE CachesKnow' /\ TokensLast' /\ CronWaits'
    <3>1. CachesKnow /\ TokensLast
      BY Zenon, <1>1, <2>1 DEF TokenInv
    <3>2. \A i \in Isolates : cached'[i] \in {None, cached[i]}
      BY Zenon, <1>4
    <3>3. CachesKnow'
      BY Zenon, <1>3, <3>1, <3>2, CachesStill
    <3>4. TokensLast'
      <4> SUFFICES ASSUME NEW k \in Kids, clock' < expires'[k]
                   PROVE  /\ k \in Live' /\ activates(k)' <= clock'
                          /\ \A j \in Live' : activates(j)' > activates(k)' =>
                                 expires'[k] < activates(j)' + KEYS_STALE + TokenTtl
        BY Zenon DEF TokensLast, LastToken
      <4>1. expires'[k] = expires[k] /\ clock < expires[k]
        BY <1>1, <1>2, <1>5, TokenNats
      <4>2. /\ k \in Live /\ activates(k) <= clock
            /\ \A j \in Live : activates(j) > activates(k) =>
                   expires[k] < activates(j) + KEYS_STALE + TokenTtl
        BY Zenon, <3>1, <4>1 DEF TokensLast, LastToken
      <4>3. activates(k) <= clock'
        BY <1>1, <1>2, <4>2, TokenNats
      <4> QED  BY Zenon, <1>3, <4>1, <4>2, <4>3 DEF SameLive
    <3>5. CronWaits'
      BY Zenon, <1>2 DEF CronWaits, Deciding
    <3> QED  BY Zenon, <3>3, <3>4, <3>5
  <2>2. \A k \in Kids : expires'[k] <= clock' + TokenTtl
    <3> SUFFICES ASSUME NEW k \in Kids PROVE expires'[k] <= clock' + TokenTtl
      OBVIOUS
    <3>1. expires[k] <= clock + TokenTtl /\ expires[k] \in Nat
      BY Zenon, <1>1, TokenNats DEF TokenInv
    <3> QED  BY <1>2, <1>5, <3>1, Bounds
  <2> QED  BY Zenon, <1>2, <2>1, <2>2 DEF TokenInv
<1> QED  BY Zenon, <1>6, <1>7, <1>8, <1>9, <1>10, <1>11 DEF Inv

\* A deployment starts with no cache, no token and no request.
LEMMA InitInv == Init => Inv
<1> SUFFICES ASSUME Init PROVE Inv
  OBVIOUS
<1>1. PICK stored \in {{}, {1}, {1, 2}} :
          signing_keys = [k \in Kids |-> IF k \notin stored THEN None ELSE
              [created_at |-> 0, activates_at |-> k - 1, retired_at |-> None, private_jwk_enc |-> "old"]]
  BY Zenon DEF Init
<1>2. 1 \in Kids /\ 2 \in Kids /\ stored \subseteq Kids /\ (stored # {} => 1 \in stored)
      /\ stored \subseteq {1, 2}
  BY Zenon, <1>1, KeysAssumption
<1>3. \A k \in stored : /\ signing_keys[k] \in SigningKeyRow /\ signing_keys[k].retired_at = None
                        /\ signing_keys[k].activates_at = k - 1 /\ signing_keys[k] # None
  <2> SUFFICES ASSUME NEW k \in stored
               PROVE  /\ signing_keys[k] \in SigningKeyRow /\ signing_keys[k].retired_at = None
                      /\ signing_keys[k].activates_at = k - 1 /\ signing_keys[k] # None
    BY Zenon
  <2>1. PICK r : r = [created_at |-> 0, activates_at |-> k - 1, retired_at |-> None, private_jwk_enc |-> "old"]
    BY Zenon
  <2>2. signing_keys[k] = r
    BY Zenon, <1>1, <1>2, <2>1
  <2>3. k - 1 \in 0 .. MaxTime + Prepublish /\ 0 \in 0 .. MaxTime
    BY <1>2, Bounds
  <2>4. r \in SigningKeyRow /\ r.retired_at = None /\ r.activates_at = k - 1
    BY Zenon, <2>1, <2>3 DEF SigningKeyRow, Times, Versions
  <2> QED  BY Zenon, <2>2, <2>4, Nones
<1>4. \A k \in Kids : k \notin stored => signing_keys[k] = None
  BY Zenon, <1>1
<1>5. signing_keys \in [Kids -> SigningKeyRow \cup {None}]
  <2>1. \A k \in Kids : signing_keys[k] \in SigningKeyRow \cup {None}
    BY Zenon, <1>3, <1>4
  <2> QED  BY Zenon, <1>1, <2>1
<1>6. Rows = stored /\ Live = stored
  BY Zenon, <1>2, <1>3, <1>4 DEF Rows, Live, Unretired
<1>7. /\ clock = 0 /\ cached = [i \in Isolates |-> None] /\ call = [p \in Procs |-> None]
      /\ load = [i \in Isolates |-> [kind \in Kinds |-> "none"]] /\ expires = [k \in Kids |-> 0]
      /\ seen = [used |-> Rows, first |-> Rows \cap {1}, emergency |-> FALSE, overlapped |-> FALSE]
  BY Zenon DEF Init
<1>8. seen \in Seen /\ seen.used = stored /\ seen.first = stored \cap {1}
  BY Zenon, <1>2, <1>6, <1>7 DEF Seen
<1>9. TypeInv
  <2>1. clock \in Times
    BY <1>7, Bounds DEF Times
  <2>2. load \in [Isolates -> [Kinds -> Loads]]
    BY Zenon, <1>7 DEF Loads
  <2>3. expires \in [Kids -> 0 .. MaxTime + TokenTtl]
    BY <1>7, Bounds
  <2>4. cached \in [Isolates -> Entry \cup {None}] /\ call \in [Procs -> Call \cup {None}]
    BY Zenon, <1>7
  <2> QED  BY Zenon, <1>5, <1>8, <2>1, <2>2, <2>3, <2>4 DEF TypeInv
<1>10. UsedInv
  BY Zenon, <1>6, <1>7, <1>8 DEF UsedInv
<1>11. CacheInv
  BY Zenon, <1>7 DEF CacheInv
<1>12. FirstInv
  BY Zenon, <1>8 DEF FirstInv
<1>13. ActiveInv
  <2>1. stored # {} => 1 \in ActiveNow
    <3> SUFFICES ASSUME stored # {} PROVE 1 \in ActiveNow
      OBVIOUS
    <3>1. 1 \in Live /\ signing_keys[1].activates_at = 0
      BY <1>2, <1>3, <1>6
    <3> QED  BY <1>7, <3>1 DEF ActiveNow, Active, Live
  <2>2. \A p \in Procs : ~Deciding(p)
    BY Zenon, <1>7 DEF Deciding
  <2> QED  BY Zenon, <1>8, <2>1, <2>2 DEF ActiveInv
<1>14. TokenInv
  <2>1. \A k \in Kids : expires[k] = 0 /\ ~(clock < expires[k])
    BY <1>7
  <2>2. \A p \in Procs : ~Deciding(p)
    BY <1>7 DEF Deciding
  <2>3. CachesKnow
    BY Zenon, <1>7 DEF CachesKnow
  <2>4. TokensLast
    BY Zenon, <2>1 DEF TokensLast, LastToken
  <2>5. CronWaits
    BY Zenon, <2>2 DEF CronWaits
  <2>6. \A k \in Kids : expires[k] <= clock + TokenTtl
    BY <1>7, <2>1, Bounds
  <2> QED  BY Zenon, <2>3, <2>4, <2>5, <2>6 DEF TokenInv
<1> QED  BY Zenon, <1>9, <1>10, <1>11, <1>12, <1>13, <1>14 DEF Inv

\* Every step keeps the invariant.
LEMMA StepInv == Inv /\ [Next]_vars => Inv'
<1> SUFFICES ASSUME Inv, [Next]_vars PROVE Inv'
  OBVIOUS
<1>1. CASE KeyStoreNext
  <2>1. PICK i \in Isolates :
            \/ serveCached(i) \/ serveStale(i)
            \/ \E kind \in Kinds : loadNow(i, kind) \/ insertFirst(i, kind) \/ loadFails(i, kind)
    BY Zenon, <1>1 DEF KeyStoreNext
  <2> QED  BY Zenon, <2>1, ServeKeeps, LoadKeeps, InsertFirstKeeps, LoadFailsKeeps
<1>2. CASE RequestNext
  <2>1. PICK p \in Procs :
            \/ \E immediate \in BOOLEAN : rotateKeyHandler(p, immediate)
            \/ \E k \in Kids : retireKeyHandler(p, k)
            \/ maintainSigningKeys(p) \/ rekeyHandler(p)
            \/ call[p] # None /\ (createNext(p) \/ retireNext(p) \/ sweepRetired(p) \/ reseal(p))
            \/ stop(p)
    BY Zenon, <1>2 DEF RequestNext
  <2> QED  BY Zenon, <2>1, RotateHandlerKeeps, RetireHandlerKeeps, MaintainKeeps, RekeyKeeps,
              CreateNextKeeps, RetireNextKeeps, SweepKeeps, ResealKeeps, StopKeeps
<1>3. CASE Tick
  BY Zenon, <1>3, TickKeeps
<1>4. CASE UNCHANGED vars
  <2>1. UNCHANGED <<clock, signing_keys, cached, load, call, expires, seen>>
    BY <1>4 DEF vars
  <2>2. TypeInv
    BY DEF Inv
  <2>3. /\ signing_keys' \in [Kids -> SigningKeyRow \cup {None}]
        /\ Rows' \subseteq Rows /\ RowsMove /\ SameLive
    BY Zenon, <2>1, <2>2, StillRows
  <2>4. cached' \in [Isolates -> Entry \cup {None}] /\ \A j \in Isolates : cached'[j] \in {None, cached[j]}
    BY Zenon, <2>1, <2>2, CacheDropped
  <2>5. load' \in [Isolates -> [Kinds -> Loads]] /\ call' \in [Procs -> Call \cup {None}]
    BY Zenon, <2>1, <2>2 DEF TypeInv
  <2>6. \A q \in Procs : Onward(q)
    BY Zenon, <2>1, SameCalls
  <2> QED  BY Zenon, <2>1, <2>3, <2>4, <2>5, <2>6, QuietKeeps
<1> QED  BY Zenon, <1>1, <1>2, <1>3, <1>4 DEF Next

-----------------------------------------------------------------------------
(* The theorems.                                                           *)

\* The inductive invariant holds in every reachable state of the key store,
\* through every interleaving of isolates, administrators and runs of the cron.
THEOREM InvariantHolds == Spec => []Inv
BY InitInv, StepInv, PTL DEF Spec

\* An isolate that serves its keys without asking D1 verifies with no key whose
\* retirement is a TTL old and with none that has been deleted.
THEOREM RetiredKeysStop == Spec => []RetiredStopsVerifying
<1>1. Inv => RetiredStopsVerifying
  <2> SUFFICES ASSUME Inv, NEW i \in Isolates, Fresh(cached[i]), NEW k \in cached[i].loaded.jwks
               PROVE  /\ k \in Rows
                      /\ signing_keys[k].retired_at # None => signing_keys[k].retired_at > clock - KEYS_TTL
    BY Zenon DEF RetiredStopsVerifying
  <2>1. TypeInv /\ CacheInv
    BY Zenon DEF Inv
  <2>2. cached[i] # None /\ clock - cached[i].at < KEYS_TTL
    BY Zenon DEF Fresh
  <2>3. clock \in Nat /\ cached[i].at \in Nat
    BY Zenon, <2>1, <2>2, TokenNats
  <2>4. KeptFrom(k, cached[i].at)
    BY Zenon, <2>1, <2>2 DEF CacheInv, EntryOk
  <2>5. k \in Rows
    BY <2>2, <2>3, <2>4, Bounds DEF KeptFrom
  <2>6. ASSUME signing_keys[k].retired_at # None PROVE signing_keys[k].retired_at > clock - KEYS_TTL
    <3>1. signing_keys[k].retired_at >= cached[i].at
      BY Zenon, <2>4, <2>5, <2>6 DEF KeptFrom
    <3>2. signing_keys[k].retired_at \in Nat
      BY Zenon, <2>1, <2>5, <2>6, RowFields DEF TypeInv
    <3> QED  BY <2>2, <2>3, <3>1, <3>2, Bounds
  <2> QED  BY Zenon, <2>5, <2>6
<1> QED  BY <1>1, InvariantHolds, PTL

\* However many isolates find the store empty at once, the keys they give it are
\* never two that are both unretired.
THEOREM FirstKeyIsOne == Spec => []OneFirstKey
<1>1. Inv => OneFirstKey
  <2> SUFFICES ASSUME Inv PROVE Cardinality(seen.first \cap Live) <= 1
    BY Zenon DEF OneFirstKey, Live
  <2>1. \A j, k \in seen.first \cap Live : j = k
    BY Zenon DEF Inv, FirstInv
  <2>2. CASE seen.first \cap Live = {}
    BY <2>2, FS_EmptySet
  <2>3. ASSUME NEW k \in seen.first \cap Live PROVE Cardinality(seen.first \cap Live) = 1
    <3>1. seen.first \cap Live = {k}
      BY Zenon, <2>1
    <3> QED  BY Zenon, <3>1, FS_Singleton
  <2> QED  BY <2>2, <2>3
<1> QED  BY <1>1, InvariantHolds, PTL

\* Once the store has a key, an active one is left, as long as no retirement is
\* written between the listing and the writes of another.
THEOREM AnActiveKeyRemains == Spec => []ActiveKeyRemains
<1>1. Inv => ActiveKeyRemains
  BY Zenon DEF Inv, ActiveInv, ActiveKeyRemains, ActiveNow
<1> QED  BY <1>1, InvariantHolds, PTL

\* A token verifies at every isolate with keys until it expires, through every
\* rotation and retirement that is not done by hand, when a key is published before
\* it signs for as long as a stale cache serves, as with the settings' default.
THEOREM TokensStayVerifiable ==
    ASSUME Prepublish >= KEYS_STALE
    PROVE  Spec => []TokensVerify
<1>1. Inv => TokensVerify
  <2> SUFFICES ASSUME Inv, ~seen.emergency, NEW k \in Kids, NEW i \in Isolates, clock < expires[k],
                      cached[i] # None
               PROVE  k \in cached[i].loaded.jwks
    BY Zenon DEF TokensVerify
  <2>1. TypeInv /\ CacheInv /\ CachesKnow /\ TokensLast
    BY Zenon DEF Inv, TokenInv, Ahead
  <2>2. clock \in Nat /\ cached[i].at \in Nat
    BY Zenon, <2>1, TokenNats
  <2>3. k \in Live /\ activates(k) <= clock /\ activates(k) \in Nat
    BY Zenon, <2>1, TokenNats DEF TokensLast, LastToken
  <2>4. k \in cached[i].loaded.jwks \/ activates(k) >= cached[i].at + Prepublish
    BY Zenon, <2>1, <2>3 DEF CachesKnow, Published
  <2>5. clock - cached[i].at < KEYS_STALE
    BY Zenon, <2>1 DEF CacheInv, EntryOk
  <2> QED  BY <2>2, <2>3, <2>4, <2>5, Bounds
<1> QED  BY <1>1, InvariantHolds, PTL
=============================================================================
