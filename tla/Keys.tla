-------------------------------- MODULE Keys --------------------------------
(***************************************************************************)
(* The signing-key store (crypto/keystore.ts, db/keys.ts, the key          *)
(* endpoints of admin/system.ts and the signing_keys and rekey steps of    *)
(* maintenance/run.ts): the rows in D1, the keys every isolate has cached, *)
(* and the requests and cron runs that rotate, retire, delete and re-seal  *)
(* them one D1 call at a time.                                             *)
(*                                                                         *)
(* Time is counted in ticks of the isolate cache's TTL.  A key pair is its *)
(* kid; a sealed private JWK is the master-key version it is sealed under. *)
(* The last share of the TTL, in which a value is refreshed early, is      *)
(* finer than a tick: a fresh value may or may not start a refresh.        *)
(* Decrypting and importing what a listing returned is part of reading it, *)
(* and a D1 error answers at once.  A tick is a minute: a request or a run *)
(* ends in the tick it began, so that clock is the `now` it started with.  *)
(***************************************************************************)
EXTENDS Integers, FiniteSets

CONSTANTS
    Kids,          \* the key pairs, 1 and up, in the order they are generated
    Isolates,
    Procs,         \* admin requests and maintenance runs
    None,
    KEYS_TTL,      \* KEYS_TTL_SECONDS
    KEYS_STALE,    \* KEYS_STALE_SECONDS
    Retention,     \* RETIRED_KEY_RETENTION_SECONDS
    Rotation,      \* keys.rotation_days
    Prepublish,    \* keys.prepublish_seconds
    RetireAfter,   \* keys.retire_after_seconds
    TokenTtl,      \* the longest token lifetime of the settings
    MaxTime

\* resolveSettings refuses a shorter retirement (env.ts); a retired row outlives
\* the isolate caches.
ASSUME KeysAssumption ==
    /\ IsFiniteSet(Kids) /\ Kids = 1 .. Cardinality(Kids) /\ {1, 2} \subseteq Kids
    /\ {KEYS_TTL, KEYS_STALE, Retention, Rotation, Prepublish, RetireAfter, TokenTtl, MaxTime}
           \subseteq Nat
    /\ MaxTime > 0 /\ KEYS_TTL > 0 /\ KEYS_STALE > KEYS_TTL
    /\ RetireAfter > TokenTtl + KEYS_STALE
    /\ KEYS_TTL <= Retention + 1

VARIABLES
    clock,
    signing_keys,  \* the D1 table: a row for each kid, or None
    cached,        \* KeyStore.cached of each isolate
    load,          \* the blocking load and the early refresh of each isolate
    call,          \* the admin request or maintenance run of each process
    expires,       \* when the last token signed with each key expires
    seen           \* history: the pairs generated, the first keys, what the properties except

vars == <<clock, signing_keys, cached, load, call, expires, seen>>

-----------------------------------------------------------------------------
Times == 0 .. MaxTime
Versions == {"old", "active"}   \* of MASTER_KEYS

\* SigningKeyRow.
SigningKeyRow == [created_at : Times, activates_at : 0 .. MaxTime + Prepublish,
                  retired_at : Times \cup {None}, private_jwk_enc : Versions \cup {None}]

Rows == {k \in Kids : signing_keys[k] # None}
Unretired(rows) == {k \in Kids : rows[k] # None /\ rows[k].retired_at = None}
Active(rows, now) == {k \in Unretired(rows) : rows[k].activates_at <= now}

\* deriveRoles: the unretired key of the greatest activation that has come,
\* the newest row and then the greater kid breaking a tie.
deriveSigning(rows, now) ==
    IF Active(rows, now) = {} THEN None
    ELSE CHOOSE k \in Active(rows, now) : \A j \in Active(rows, now) :
             \/ rows[k].activates_at > rows[j].activates_at
             \/ /\ rows[k].activates_at = rows[j].activates_at
                /\ \/ rows[k].created_at > rows[j].created_at
                   \/ rows[k].created_at = rows[j].created_at /\ k >= j

\* roleOf.
roleOf(rows, k, now) ==
    LET signing == deriveSigning(rows, now) IN
    IF rows[k].retired_at # None THEN "retired"
    ELSE IF rows[k].activates_at > now THEN "next"
    ELSE IF signing # None /\ rows[k].activates_at < rows[signing].activates_at THEN "verifying"
    ELSE "signing"

OfRole(rows, role, now) == {k \in Kids : rows[k] # None /\ roleOf(rows, k, now) = role}

\* LoadedKeys: the key an isolate signs with and the ones it verifies with.
LoadedKeys == [signing : Kids, jwks : SUBSET Kids]
Loaded(rows, now) == [signing |-> deriveSigning(rows, now), jwks |-> Unretired(rows)]

-----------------------------------------------------------------------------
\* The statements of db/keys.ts.
NextKid == IF Kids \ seen.used # {}
           THEN CHOOSE k \in Kids \ seen.used : \A j \in Kids \ seen.used : k <= j
           ELSE None

\* insertGenerated: a fresh pair, sealed under the active version.
insertSigningKey(now, activates) ==
    /\ NextKid # None
    /\ signing_keys' = [signing_keys EXCEPT ![NextKid] =
           [created_at |-> now, activates_at |-> activates, retired_at |-> None,
            private_jwk_enc |-> "active"]]

\* Mutant: the guard of the statement is missing.
insertFirstUnguarded(now) == insertSigningKey(now, now)

\* INSERT ... WHERE NOT EXISTS (SELECT 1 ... WHERE retired_at IS NULL).
insertFirstSigningKey(now) ==
    IF Unretired(signing_keys) = {} THEN insertSigningKey(now, now) ELSE UNCHANGED signing_keys

retireSigningKey(k, now) ==
    signing_keys' = IF k \in Unretired(signing_keys)
                    THEN [signing_keys EXCEPT ![k].retired_at = now, ![k].private_jwk_enc = None]
                    ELSE signing_keys

deleteRetiredSigningKeys(cutoff) ==
    signing_keys' = [k \in Kids |->
        IF /\ signing_keys[k] # None /\ signing_keys[k].retired_at # None
           /\ signing_keys[k].retired_at < cutoff
        THEN None ELSE signing_keys[k]]

\* UPDATE ... WHERE kid = ? AND retired_at IS NULL.
updatePrivateJwkEnc(k) ==
    signing_keys' = IF k \in Unretired(signing_keys)
                    THEN [signing_keys EXCEPT ![k].private_jwk_enc = "active"] ELSE signing_keys


Used(rows) == seen.used \cup {k \in Kids : rows[k] # None}

-----------------------------------------------------------------------------
\* KeyStore: the cache of one isolate.
Entry == [loaded : LoadedKeys, at : Times]
Kinds == {"loading", "refresher"}
Loads == {"none", "insert", "again"}

\* Mutant: `age > ttl` is expired.
FreshAtTtl(c) == c # None /\ clock - c.at <= KEYS_TTL

\* Refresher.verdict is not "expired".
Fresh(c) == c # None /\ clock - c.at < KEYS_TTL

\* signJwt with the keys get returned.
signJwt(loaded) == expires' = [expires EXCEPT ![loaded.signing] = clock + TokenTtl]

\* get, with a cached value under the TTL.
serveCached(i) ==
    /\ Fresh(cached[i])
    /\ signJwt(cached[i].loaded)
    /\ UNCHANGED <<clock, signing_keys, cached, load, call, seen>>

\* get, when D1 fails: the value under the stale window, or an error.
serveStale(i) ==
    /\ cached[i] # None /\ ~Fresh(cached[i])
    /\ clock - cached[i].at < KEYS_STALE
    /\ signJwt(cached[i].loaded)
    /\ UNCHANGED <<clock, signing_keys, cached, load, call, seen>>

\* The load of the keys: blocking and shared by every request that finds no
\* value under the TTL, or the early refresh of one, once at a time.
MayLoad(i, kind) ==
    \/ load[i][kind] = "again"
    \/ load[i][kind] = "none" /\ (Fresh(cached[i]) <=> kind = "refresher")

\* rows, load and this.cached = { loaded, at: now }; NoSigningKeyError when
\* no key has activated.  An empty store is first given a key.
loadNow(i, kind) ==
    /\ MayLoad(i, kind)
    /\ IF Unretired(signing_keys) = {} /\ load[i][kind] = "none"
       THEN load' = [load EXCEPT ![i][kind] = "insert"] /\ UNCHANGED <<cached, expires>>
       ELSE /\ load' = [load EXCEPT ![i][kind] = "none"]
            /\ IF deriveSigning(signing_keys, clock) = None THEN UNCHANGED <<cached, expires>>
               ELSE /\ cached' = [cached EXCEPT ![i] =
                           [loaded |-> Loaded(signing_keys, clock), at |-> clock]]
                    /\ IF kind = "loading" THEN signJwt(cached'[i].loaded) ELSE UNCHANGED expires
    /\ UNCHANGED <<clock, signing_keys, call, seen>>

insertFirst(i, kind) ==
    /\ load[i][kind] = "insert"
    /\ insertFirstSigningKey(clock)
    /\ load' = [load EXCEPT ![i][kind] = "again"]
    /\ seen' = [seen EXCEPT !.used = Used(signing_keys'),
                            !.first = @ \cup (Used(signing_keys') \ seen.used),
                            !.emergency = @ \/ (seen.used # {} /\ signing_keys' # signing_keys)]
    /\ UNCHANGED <<clock, cached, call, expires>>

\* A refresh that fails is silent; a blocking load fails its requests.
loadFails(i, kind) ==
    /\ load[i][kind] # "none"
    /\ load' = [load EXCEPT ![i][kind] = "none"]
    /\ UNCHANGED <<clock, signing_keys, cached, call, expires, seen>>

-----------------------------------------------------------------------------
\* A process is one admin request or one maintenance run at a time; `kids` is
\* what it has yet to retire or re-seal, from the listing it read.  Dropping
\* the isolate's cache goes with the last write of the handler.
Call == [op : {"retire", "maintain", "rekey"}, pc : {"insert", "retire", "sweep", "rekey"},
         kids : SUBSET Kids]

\* null is no time, key, cache entry or request.
ASSUME NoneAssumption == None \notin Nat \cup SigningKeyRow \cup Entry \cup Call

Begin(p, op, pc, kids) ==
    /\ call[p] = None
    /\ call' = [call EXCEPT ![p] = [op |-> op, pc |-> pc, kids |-> kids]]

At(p, pc) == call[p] # None /\ call[p].pc = pc
Goto(p, pc) == call' = [call EXCEPT ![p].pc = pc]
Respond(p) == call' = [call EXCEPT ![p] = None]

invalidate == \E i \in Isolates : cached' = [cached EXCEPT ![i] = None]

\* purgeHandler drops the cache of its isolate; the cron has none to drop.
EndRun(p) ==
    /\ Respond(p)
    /\ \/ invalidate
       \/ call[p].op = "maintain" /\ UNCHANGED cached

\* The process has decided on retirements, from a listing, that are still to
\* be written.
Deciding(p) == call[p] # None /\ call[p].pc \in {"insert", "retire"} /\ call[p].kids # {}

Overlapping(p) == \E q \in Procs \ {p} : Deciding(q)

\* An administrator's token was signed here: a key has been created.
Authenticated == seen.used # {}

\* rotateSigningKey: a key that activates when it has been published a while.
rotateSigningKey(immediate) ==
    /\ insertSigningKey(clock, IF immediate THEN clock ELSE clock + Prepublish)
    /\ seen' = [seen EXCEPT !.used = Used(signing_keys'), !.emergency = @ \/ immediate]

rotateKeyHandler(p, immediate) ==
    /\ Authenticated /\ call[p] = None
    /\ rotateSigningKey(immediate)
    /\ invalidate
    /\ UNCHANGED <<clock, load, call, expires>>

\* Mutant: a key still to activate is counted.
RefusedAsLastOf(k) ==
    signing_keys[k].activates_at <= clock /\ Unretired(signing_keys) \ {k} = {}

\* last_active_key, of retireSigningKeyNow.
RefusedAsLast(k) ==
    signing_keys[k].activates_at <= clock /\ Active(signing_keys, clock) \ {k} = {}

\* retireKeyHandler, up to the listing retireSigningKeyNow decides from.
retireKeyHandler(p, k) ==
    /\ k \in Unretired(signing_keys)
    /\ ~RefusedAsLast(k)
    /\ Begin(p, "retire", "retire", {k})
    /\ UNCHANGED <<clock, signing_keys, cached, load, expires, seen>>

\* Mutant: superseded keys are retired at once.
SupersededAtOnce == OfRole(signing_keys, "verifying", clock)

\* The keys older than the signing key, once that has signed long enough.
Superseded ==
    LET signing == deriveSigning(signing_keys, clock) IN
    IF signing # None /\ clock - signing_keys[signing].activates_at >= RetireAfter
    THEN OfRole(signing_keys, "verifying", clock) ELSE {}

RotationDue ==
    LET signing == deriveSigning(signing_keys, clock) IN
    /\ signing # None /\ Rotation > 0
    /\ clock - signing_keys[signing].activates_at >= Rotation
    /\ OfRole(signing_keys, "next", clock) = {}

ToRetire(kids) == IF kids = {} THEN "sweep" ELSE "retire"

\* maintainSigningKeys, up to the listing.
maintainSigningKeys(p) ==
    /\ Begin(p, "maintain", IF RotationDue THEN "insert" ELSE ToRetire(Superseded), Superseded)
    /\ UNCHANGED <<clock, signing_keys, cached, load, expires, seen>>

createNext(p) ==
    /\ At(p, "insert")
    /\ rotateSigningKey(FALSE)
    /\ Goto(p, ToRetire(call[p].kids))
    /\ UNCHANGED <<clock, cached, load, expires>>

\* retireSigningKey, of the one key or of each superseded one.
retireNext(p) == \E k \in call[p].kids :
    /\ At(p, "retire")
    /\ retireSigningKey(k, clock)
    /\ IF call[p].op = "retire" THEN Respond(p) /\ invalidate
       ELSE /\ call' = [call EXCEPT ![p].kids = @ \ {k}, ![p].pc = ToRetire(call[p].kids \ {k})]
            /\ UNCHANGED cached
    /\ seen' = [seen EXCEPT !.overlapped = @ \/ Overlapping(p),
                            !.emergency = @ \/ call[p].op = "retire"]
    /\ UNCHANGED <<clock, load, expires>>

\* The rows rekeySigningKeys finds sealed under another version.
Sealed(rows) == {k \in Kids : rows[k] # None /\ rows[k].private_jwk_enc = "old"}

\* deleteRetiredSigningKeys, then the listing of the rekey step of the run.
sweepRetired(p) ==
    /\ At(p, "sweep")
    /\ deleteRetiredSigningKeys(clock - Retention)
    /\ IF Sealed(signing_keys') = {} THEN EndRun(p)
       ELSE /\ call' = [call EXCEPT ![p].pc = "rekey", ![p].kids = Sealed(signing_keys')]
            /\ UNCHANGED cached
    /\ UNCHANGED <<clock, load, expires, seen>>

rekeyHandler(p) ==
    /\ Authenticated /\ Sealed(signing_keys) # {}
    /\ Begin(p, "rekey", "rekey", Sealed(signing_keys))
    /\ UNCHANGED <<clock, signing_keys, cached, load, expires, seen>>

\* rekeySigningKeys, one row.
reseal(p) == \E k \in call[p].kids :
    /\ At(p, "rekey")
    /\ updatePrivateJwkEnc(k)
    /\ IF call[p].kids = {k} THEN EndRun(p)
       ELSE call' = [call EXCEPT ![p].kids = @ \ {k}] /\ UNCHANGED cached
    /\ UNCHANGED <<clock, load, expires, seen>>

\* D1 fails, or the isolate is gone: the run stops where it is.
stop(p) ==
    /\ call[p] # None
    /\ Respond(p)
    /\ UNCHANGED <<clock, signing_keys, cached, load, expires, seen>>

\* Nothing is in flight.  A value past the stale
\* window is as none, an expired token as none issued.
Tick ==
    /\ clock < MaxTime
    /\ \A p \in Procs : call[p] = None
    /\ \A i \in Isolates, kind \in Kinds : load[i][kind] = "none"
    /\ clock' = clock + 1
    /\ cached' = [i \in Isolates |->
           IF cached[i] # None /\ clock' - cached[i].at >= KEYS_STALE THEN None ELSE cached[i]]
    /\ expires' = [k \in Kids |-> IF expires[k] <= clock' THEN 0 ELSE expires[k]]
    /\ UNCHANGED <<signing_keys, load, call, seen>>

-----------------------------------------------------------------------------
\* A new deployment, or one with keys sealed under the master key that has
\* just been replaced: the first key, and perhaps the next.
Init ==
    /\ clock = 0
    /\ \E stored \in {{}, {1}, {1, 2}} :
         signing_keys = [k \in Kids |-> IF k \notin stored THEN None ELSE
             [created_at |-> 0, activates_at |-> k - 1, retired_at |-> None,
              private_jwk_enc |-> "old"]]
    /\ cached = [i \in Isolates |-> None]
    /\ load = [i \in Isolates |-> [kind \in Kinds |-> "none"]]
    /\ call = [p \in Procs |-> None]
    /\ expires = [k \in Kids |-> 0]
    /\ seen = [used |-> Rows, first |-> Rows \cap {1}, emergency |-> FALSE, overlapped |-> FALSE]

KeyStoreNext == \E i \in Isolates :
    \/ serveCached(i) \/ serveStale(i)
    \/ \E kind \in Kinds : loadNow(i, kind) \/ insertFirst(i, kind) \/ loadFails(i, kind)

RequestNext == \E p \in Procs :
    \/ \E immediate \in BOOLEAN : rotateKeyHandler(p, immediate)
    \/ \E k \in Kids : retireKeyHandler(p, k)
    \/ maintainSigningKeys(p) \/ rekeyHandler(p)
    \/ call[p] # None /\ (createNext(p) \/ retireNext(p) \/ sweepRetired(p) \/ reseal(p))
    \/ stop(p)

Next == KeyStoreNext \/ RequestNext \/ Tick

Spec == Init /\ [][Next]_vars

-----------------------------------------------------------------------------
\* Types, among them that every key ever created activates within the
\* pre-publication time of its creation, and that a cache holds a signing key.
TypeOK ==
    /\ clock \in Times
    /\ \A k \in Kids : signing_keys[k] = None \/ signing_keys[k] \in SigningKeyRow
    /\ \A i \in Isolates : cached[i] = None \/ cached[i] \in Entry
    /\ \A i \in Isolates, kind \in Kinds : load[i][kind] \in Loads
    /\ \A p \in Procs : call[p] = None \/ call[p] \in Call
    /\ \A k \in Kids : expires[k] \in 0 .. MaxTime + TokenTtl

\* A token signed by any isolate, from a cache however stale, verifies at every
\* isolate with keys to verify with until it expires, through rotation and
\* retirement (TIO-KEYS-012): the key was published to each before it signed,
\* and is retired after the last token it signed.  Emergencies (an immediate
\* rotation, a retirement by hand, a store emptied of keys) are excepted.
\* Stated for Prepublish >= KEYS_STALE, as with the setting's default of a day.
TokensVerify ==
    ~seen.emergency =>
        \A k \in Kids, i \in Isolates :
            clock < expires[k] /\ cached[i] # None => k \in cached[i].loaded.jwks

\* An isolate that serves its keys without asking D1 verifies with no key whose
\* retirement is a TTL old, nor with one already deleted (TIO-ARCH-011).
RetiredStopsVerifying ==
    \A i \in Isolates : Fresh(cached[i]) =>
        \A k \in cached[i].loaded.jwks :
            /\ k \in Rows
            /\ signing_keys[k].retired_at # None => signing_keys[k].retired_at > clock - KEYS_TTL

\* However many isolates find the store empty at once, one of them gives it a
\* key: two keys so created are never both unretired (TIO-KEYS-010).
OneFirstKey == Cardinality(seen.first \cap Unretired(signing_keys)) <= 1

\* Once the store has a key, a key that has activated is left in it, whatever
\* is rotated, retired by hand or by the cron and deleted (TIO-KEYS-013), as
\* long as no retirement lands between the listing and the writes of another.
ActiveKeyRemains ==
    ~seen.overlapped /\ seen.used # {} => Active(signing_keys, clock) # {}
=============================================================================
