------------------------------ MODULE Registry ------------------------------
(***************************************************************************)
(* The registered clients, the upstream providers and the settings: their  *)
(* rows in D1, the admin requests that change them (admin/clients.ts,      *)
(* admin/upstreams.ts, admin/system.ts), the re-sealing of upstream        *)
(* secrets (maintenance/run.ts), and the isolate caches through which      *)
(* every other request reads them (oidc/client-cache.ts, env.ts).          *)
(*                                                                         *)
(* The three tables do not interact and their rows are independent, so a   *)
(* behaviour follows one row of one table and the entry one isolate caches *)
(* for it.  A handler first reads its row and then writes in one           *)
(* statement; other requests run in between.  A request answered 404, or   *)
(* whose input is refused, changes nothing and is left out.  A secret is   *)
(* the number of the draw that minted it.  Time counts the cache's TTL.    *)
(***************************************************************************)
EXTENDS Integers

CONSTANTS
    Procs,         \* admin requests, one each
    Reads,         \* D1 reads of the cache in flight
    None,
    CACHE_TTL,     \* CLIENT_CACHE_TTL_SECONDS, SETTINGS_TTL_SECONDS
    MaxSecrets,
    MaxTime

\* ServedIsRecent remembers one tick of what D1 held.
ASSUME RegistryAssumption == CACHE_TTL = 1 /\ MaxSecrets \in Nat /\ MaxTime \in Nat

VARIABLES
    clock,
    table,         \* which of the three tables the behaviour is about
    row,           \* the row in D1, or None
    cached,        \* the entry of RecordCache or SettingsLoader, or None
    read,          \* the reads that fill it
    call,          \* what each admin request has read and is about to write
    seen           \* history: what D1 held in this tick, the last decision to disable

vars == <<clock, table, row, cached, read, call, seen>>

-----------------------------------------------------------------------------
Methods == {"client_secret_basic", "private_key_jwt"}

\* Of a Client, its authentication: client_secret_hash is a secret, and keys says
\* whether jwks or jwks_uri is set.
Client == [method : Methods, client_secret_hash : Nat \cup {None}, keys : BOOLEAN,
           disabled : BOOLEAN]

\* A blob of sealSecret, with the master-key version it is under.
Blob == [secret : Nat, version : {"old", "active"}]

\* Of an Upstream, its credentials.
Upstream == [method : Methods, client_secret_enc : Blob \cup {None},
             client_jwk_enc : Blob \cup {None}]

\* The settings of one cross-field rule, and the SettingsSchema defaults.
Keys == {"session.idle_ttl", "session.absolute_ttl"}
Values == 1 .. 2
Default == [k \in Keys |-> IF k = "session.idle_ttl" THEN 1 ELSE 2]
Settings == [Keys -> Values \cup {None}]   \* the stored ones

\* null is no row and no secret.
ASSUME NoneAssumption == None \notin Nat \cup Blob \cup Client \cup Upstream \cup Settings

Effective(stored) == [k \in Keys |-> IF stored[k] = None THEN Default[k] ELSE stored[k]]

usesSecret(method) == method = "client_secret_basic"

\* validateClientInput: only private_key_jwt clients register keys.
validateClientInput(method, keys) == keys <=> ~usesSecret(method)

\* validateUpstreamInput.
validateUpstreamInput(u) ==
    IF usesSecret(u.method) THEN u.client_secret_enc # None /\ u.client_jwk_enc = None
    ELSE u.client_jwk_enc # None /\ u.client_secret_enc = None

\* resolveSettings.
resolveSettings(stored) ==
    Effective(stored)["session.idle_ttl"] <= Effective(stored)["session.absolute_ttl"]

\* authenticateClient: the credentials with which the client authenticates.
authenticateClient(client) ==
    IF client = None \/ client.disabled THEN {}
    ELSE IF usesSecret(client.method) THEN {<<"secret", client.client_secret_hash>>}
    ELSE {<<"assertion", 0>>}

\* exchangeCode (federation/token.ts): the credential sent to the upstream,
\* none when it is missing.
exchangeCode(upstream) ==
    IF upstream = None THEN {}
    ELSE {<<upstream.method, b.secret>> :
              b \in {IF usesSecret(upstream.method) THEN upstream.client_secret_enc
                     ELSE upstream.client_jwk_enc} \ {None}}

\* What a request does with the record it is served.
Use(record) == CASE table = "clients" -> authenticateClient(record)
                 [] table = "upstreams" -> exchangeCode(record)
                 [] table = "settings" -> {<<k, Effective(record)[k]>> : k \in Keys}

-----------------------------------------------------------------------------
\* An admin request reads at its first step and writes at its second.
Idle == [op |-> "idle", old |-> None, new |-> None]
Done == [op |-> "done", old |-> None, new |-> None]

Begin(p, op, new) ==
    /\ call[p] = Idle
    /\ call' = [call EXCEPT ![p] = [op |-> op, old |-> row, new |-> new]]
    /\ UNCHANGED <<clock, table, row, cached, read>>

\* The statement: `new` is the row it leaves.
Write(p, new) ==
    /\ call' = [call EXCEPT ![p] = Done]
    /\ row' = new
    /\ UNCHANGED <<clock, table, read>>

Finish(p, op, new) == call[p].op = op /\ Write(p, new) /\ UNCHANGED cached

Held(s, new) == [s EXCEPT !.recent = @ \cup {new}]
Remember(new) == seen' = Held(seen, new)

\* generateClientSecret, or a credential the operator enters.
Mint == seen.minted + 1
MayMint(n) == seen.minted + n <= MaxSecrets
Minted(n) == seen' = [seen EXCEPT !.minted = @ + n]

-----------------------------------------------------------------------------
\* createClient and insertClient, ON CONFLICT DO NOTHING.
createClientHandler(p, method) ==
    LET n == IF usesSecret(method) THEN 1 ELSE 0
        client == [method |-> method, client_secret_hash |-> IF n = 1 THEN Mint ELSE None,
                   keys |-> ~usesSecret(method), disabled |-> FALSE]
        new == IF row = None THEN client ELSE row
    IN  /\ table = "clients" /\ call[p] = Idle /\ MayMint(n)
        /\ Write(p, new) /\ UNCHANGED cached
        /\ seen' = [Held(seen, new) EXCEPT !.minted = @ + n,
                                           !.disabled = @ /\ row # None]

\* Mutant: a switch to a secret-based method mints nothing.
secretHashKept(current, method) == IF usesSecret(method) THEN current.client_secret_hash ELSE None

\* A switch to a secret-based method mints a secret, one away drops the hash.
secretHash(current, method) ==
    IF ~usesSecret(method) THEN None
    ELSE IF current.client_secret_hash = None THEN Mint ELSE current.client_secret_hash

\* loadClient and updateClientRecord up to the statement: the patch is laid
\* over the record that was read, and the whole is validated.
patchClientHandler(p, method, keys) ==
    LET n == IF usesSecret(method) /\ row.client_secret_hash = None THEN 1 ELSE 0 IN
    /\ table = "clients" /\ row # None
    /\ validateClientInput(method, keys) /\ MayMint(n)
    /\ Begin(p, "updateClient",
             [row EXCEPT !.method = method, !.keys = keys,
                         !.client_secret_hash = secretHash(row, method)])
    /\ Minted(n)

\* Mutant: disabled_at is among the columns.
updateClientAll(current, new) == new

\* UPDATE clients SET ... WHERE client_id = ?: every column of the record but
\* disabled_at, the secret's hash included.
updateClientRow(current, new) == [new EXCEPT !.disabled = current.disabled]

updateClient(p) ==
    LET new == IF row = None THEN None ELSE updateClientRow(row, call[p].new) IN
    Finish(p, "updateClient", new) /\ Remember(new)

\* rotateSecretHandler up to the statement.
rotateSecretHandler(p) ==
    /\ table = "clients" /\ row # None
    /\ usesSecret(row.method) /\ MayMint(1)
    /\ Begin(p, "updateClientSecretHash", Mint)
    /\ Minted(1)

updateClientSecretHash(p) ==
    LET new == IF row = None THEN None ELSE [row EXCEPT !.client_secret_hash = call[p].new] IN
    Finish(p, "updateClientSecretHash", new) /\ Remember(new)

setClientDisabledHandler(p, disabled) ==
    /\ table = "clients" /\ row # None
    /\ Begin(p, "setClientDisabled", disabled)
    /\ UNCHANGED seen

setClientDisabled(p) ==
    LET new == IF row = None THEN None ELSE [row EXCEPT !.disabled = call[p].new] IN
    /\ Finish(p, "setClientDisabled", new)
    /\ seen' = [Held(seen, new) EXCEPT !.disabled = IF row = None THEN @ ELSE call[p].new]

\* deleteClientHandler and deleteUpstreamHandler up to the statement.
deleteHandler(p) ==
    /\ table \in {"clients", "upstreams"} /\ row # None
    /\ Begin(p, "delete", None)
    /\ UNCHANGED seen

deleteRow(p) == Finish(p, "delete", None) /\ Remember(None)

-----------------------------------------------------------------------------
\* prepare: the credential entered is sealed and replaces the stored one; the
\* stored one is kept while the method can use it.  entered: what the input
\* carries, of client_secret and client_jwk.
prepare(current, method, entered) ==
    LET kept(f) == IF current # None /\ (usesSecret(method) <=> f = "client_secret_enc")
                   THEN current[f] ELSE None
        blob(f) == IF f \in entered THEN [secret |-> Mint, version |-> "active"] ELSE kept(f)
    IN  [method |-> method, client_secret_enc |-> blob("client_secret_enc"),
         client_jwk_enc |-> blob("client_jwk_enc")]

Entries == {{}, {"client_secret_enc"}, {"client_jwk_enc"}}
Drawn(entered) == IF entered = {} THEN 0 ELSE 1

createUpstreamHandler(p, method, entered) ==
    LET u == prepare(None, method, entered)
        new == IF row = None THEN u ELSE row
    IN  /\ table = "upstreams" /\ call[p] = Idle
        /\ MayMint(Drawn(entered)) /\ validateUpstreamInput(u)
        /\ Write(p, new) /\ UNCHANGED cached
        /\ seen' = [Held(seen, new) EXCEPT !.minted = @ + Drawn(entered)]

patchUpstreamHandler(p, method, entered) ==
    LET u == prepare(row, method, entered) IN
    /\ table = "upstreams" /\ row # None /\ MayMint(Drawn(entered))
    /\ validateUpstreamInput(u)
    /\ Begin(p, "updateUpstream", u)
    /\ Minted(Drawn(entered))

\* updateUpstream: every column, by alias.
updateUpstream(p) ==
    LET new == IF row = None THEN None ELSE call[p].new IN
    Finish(p, "updateUpstream", new) /\ Remember(new)

Blobs(u) == {u.client_secret_enc, u.client_jwk_enc} \ {None}
Reseal(blob) == IF blob = None THEN None ELSE [blob EXCEPT !.version = "active"]

\* rekeyUpstreams, by the cron or an admin: the listing ...
listSealedUpstreams(p) ==
    /\ table = "upstreams" /\ row # None
    /\ \E b \in Blobs(row) : b.version # "active"
    /\ Begin(p, "updateUpstreamSecrets",
             [row EXCEPT !.client_secret_enc = Reseal(@), !.client_jwk_enc = Reseal(@)])
    /\ UNCHANGED seen

\* ... and the statement, with both blobs of the row that was listed.
updateUpstreamSecrets(p) ==
    LET new == IF row = None THEN None
               ELSE [row EXCEPT !.client_secret_enc = call[p].new.client_secret_enc,
                                !.client_jwk_enc = call[p].new.client_jwk_enc]
    IN  /\ Finish(p, "updateUpstreamSecrets", new)
        /\ seen' = [Held(seen, new) EXCEPT !.overlapped = @ \/ row # call[p].old]

-----------------------------------------------------------------------------
\* A patch of the settings: null returns a key to its default.
Merged(stored, patch) == [k \in Keys |-> IF k \in DOMAIN patch THEN patch[k] ELSE stored[k]]

\* The whole is validated before anything is written.
Validated(stored, patch) == resolveSettings(Merged(stored, patch))

patchSettingsHandler(p, patch) ==
    /\ table = "settings"
    /\ Validated(row, patch)
    /\ Begin(p, "writeSettings", patch)
    /\ UNCHANGED seen

\* writeSettings, the keys of the patch only, and invalidate: this isolate's
\* cache when it is this isolate that runs the handler.
writeSettings(p) ==
    LET new == Merged(row, call[p].new) IN
    /\ call[p].op = "writeSettings"
    /\ Write(p, new)
    /\ cached' \in {None, cached}
    /\ seen' = [Held(seen, new) EXCEPT !.overlapped = @ \/ row # call[p].old]

-----------------------------------------------------------------------------
\* The cache entry of the row in one isolate.  A read in flight fills it with
\* what D1 answered and the time the read began; reads may answer in any order.
NoRead == [kind |-> "none", now |-> 0, record |-> None]

\* Refresher.verdict is not "expired".
Fresh(entry) == entry # None /\ clock - entry.at < CACHE_TTL

\* get: an entry under the TTL is served as it is, and refreshed early by one
\* read at a time; past it every request reads for itself, and those of
\* SettingsLoader share one read.
get(r) ==
    LET kind == IF Fresh(cached) THEN "refresher" ELSE "loading" IN
    /\ read[r] = NoRead
    /\ kind = "refresher" \/ table = "settings" => \A q \in Reads : read[q].kind # kind
    /\ read' = [read EXCEPT ![r] = [kind |-> kind, now |-> clock, record |-> row]]
    /\ UNCHANGED <<clock, table, row, cached, call, seen>>

\* Mutant: the entry is dated when the answer arrives.
entryAtAnswer(r) == [record |-> read[r].record, at |-> clock]

entryOf(r) == [record |-> read[r].record, at |-> read[r].now]

\* refresh: stored settings that do not validate are an error.
refresh(r) ==
    /\ read[r] # NoRead
    /\ table = "settings" => resolveSettings(read[r].record)
    /\ cached' = entryOf(r)
    /\ read' = [read EXCEPT ![r] = NoRead]
    /\ UNCHANGED <<clock, table, row, call, seen>>

\* D1 fails: an early refresh is silent, and a blocking one is answered with
\* the entry under the stale window or an error.
readFails(r) ==
    /\ read[r] # NoRead
    /\ read' = [read EXCEPT ![r] = NoRead]
    /\ UNCHANGED <<clock, table, row, cached, call, seen>>

\* touch evicts the least recently used entry.
touch ==
    /\ cached # None /\ table # "settings"
    /\ cached' = None
    /\ UNCHANGED <<clock, table, row, read, call, seen>>

Tick ==
    /\ clock < MaxTime
    /\ clock' = clock + 1
    /\ seen' = [seen EXCEPT !.recent = {row}]
    /\ UNCHANGED <<table, row, cached, read, call>>

-----------------------------------------------------------------------------
\* A record stored earlier, or none; the upstream's secret is sealed under a
\* superseded master key.
FirstRow(t) == CASE t = "clients" ->
                      {None, [method |-> "client_secret_basic", client_secret_hash |-> 1,
                              keys |-> FALSE, disabled |-> FALSE]}
                 [] t = "upstreams" ->
                      {None, [method |-> "client_secret_basic", client_jwk_enc |-> None,
                              client_secret_enc |-> [secret |-> 1, version |-> "old"]]}
                 [] t = "settings" -> {[k \in Keys |-> None]}

Init ==
    /\ clock = 0
    /\ table \in {"clients", "upstreams", "settings"}
    /\ row \in FirstRow(table)
    /\ cached = None
    /\ read = [r \in Reads |-> NoRead]
    /\ call = [p \in Procs |-> Idle]
    /\ seen = [recent |-> {row}, minted |-> 1, disabled |-> FALSE, overlapped |-> FALSE]

ClientNext(p) ==
    \/ \E m \in Methods : createClientHandler(p, m)
    \/ \E m \in Methods, keys \in BOOLEAN : patchClientHandler(p, m, keys)
    \/ updateClient(p)
    \/ rotateSecretHandler(p) \/ updateClientSecretHash(p)
    \/ \E d \in BOOLEAN : setClientDisabledHandler(p, d)
    \/ setClientDisabled(p)
    \/ deleteHandler(p) \/ deleteRow(p)

UpstreamNext(p) ==
    \/ \E m \in Methods, e \in Entries : createUpstreamHandler(p, m, e)
    \/ \E m \in Methods, e \in Entries : patchUpstreamHandler(p, m, e)
    \/ updateUpstream(p)
    \/ listSealedUpstreams(p) \/ updateUpstreamSecrets(p)

SettingsNext(p) ==
    \/ \E named \in SUBSET Keys \ {{}} : \E patch \in [named -> Values \cup {None}] :
           patchSettingsHandler(p, patch)
    \/ writeSettings(p)

CacheNext ==
    \/ \E r \in Reads : get(r) \/ refresh(r) \/ readFails(r)
    \/ touch

Next ==
    \/ \E p \in Procs : ClientNext(p) \/ UpstreamNext(p) \/ SettingsNext(p)
    \/ CacheNext
    \/ Tick

Spec == Init /\ [][Next]_vars

-----------------------------------------------------------------------------
\* A request served without reading D1 acts on what D1 held at some time in
\* the last TTL: a client disabled, deleted or given another secret, an
\* upstream or a setting changed, has its effect everywhere within 60 seconds
\* (TIO-ARCH-011, TIO-CLIENT-004), whichever order the reads answer in.
ServedIsRecent == Fresh(cached) => Use(cached.record) \in {Use(v) : v \in seen.recent}

\* A client is disabled exactly when the last disable or enable said so: a
\* PATCH that read it before, and rewrites its columns after, does not undo
\* it (TIO-CLIENT-004).
DisabledAsDecided == table = "clients" /\ row # None => row.disabled = seen.disabled

\* Whatever requests overlap, a client whose method uses a secret has one, a
\* client has keys exactly when its method uses them (TIO-CLIENT-002), an
\* upstream has the credential of its method, and the stored settings
\* validate as a whole (TIO-CFG-003).  Two writes are excepted, for nothing
\* orders them with a change made since they read: the blobs a rekey writes
\* back, and a second PATCH of the settings.
StoredIsValid ==
    row # None =>
        CASE table = "clients" -> /\ usesSecret(row.method) => row.client_secret_hash # None
                                  /\ validateClientInput(row.method, row.keys)
          [] table = "upstreams" -> ~seen.overlapped => validateUpstreamInput(row)
          [] table = "settings" -> ~seen.overlapped => resolveSettings(row)

=============================================================================
