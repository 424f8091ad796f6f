------------------------------- MODULE UserDO -------------------------------
(***************************************************************************)
(* The Durable Object that holds one user (src/do/UserDO.ts): the user     *)
(* row, browser sessions, authorization codes, refresh-token families and  *)
(* consent grants.                                                         *)
(*                                                                         *)
(* Every method is one synchronous SQL transaction, hence one action.  The *)
(* exception is exchangeCode, which reads the user row, awaits the hash of *)
(* the PKCE verifier, and only then opens its transaction: other calls run *)
(* in between, so it is the two actions BeginExchange and ExchangeCode.    *)
(*                                                                         *)
(* A table is a function from the keys of its rows to records.  A refused  *)
(* call leaves the state alone, or only purges: PurgeOnly.  Ids and        *)
(* secrets are minted by the callers and never minted twice; a secret that *)
(* does not match is a refused call.                                       *)
(***************************************************************************)
EXTENDS Integers, FiniteSets, Functions

CONSTANTS
    Sids, Codes, Families,   \* what callers may mint
    Groups,                  \* groups a user can be in
    ClientRefs,              \* the client records callers pass (ClientRef)
    ScopeSets,               \* the scope lists requests carry
    PURGE_INTERVAL_SECONDS, PURGE_GRACE_SECONDS, CODE_TTL_SECONDS,
    SESSION_TOUCH_INTERVAL_SECONDS, MAX_REFRESH_FAMILIES_PER_CLIENT,
    SessionIdleTtl, SessionAbsoluteTtl, RefreshIdleTtl, RefreshAbsoluteTtl,
    ReuseWindow,             \* settings
    MaxClock,                \* bound: the last second of a behaviour
    MaxSkew,                 \* how old the `now` a handler captured may be
    MaxSerial,               \* bound: rotations of one family
    MaxExchanges             \* bound: different exchanges suspended at once

\* A family id is a UUID, and the family limit sorts by it.
ASSUME IdAssumption == Families \subseteq Nat

ASSUME ClientAssumption ==
    /\ \A r \in ClientRefs :
        /\ r.created_at \in Nat
        /\ r.allowed_groups \subseteq Groups
        /\ {r.anyone, r.skip_consent, r.refresh, r.offline_access} \subseteq BOOLEAN

ASSUME TimeAssumption ==
    /\ {PURGE_GRACE_SECONDS, RefreshIdleTtl, RefreshAbsoluteTtl, ReuseWindow,
        SessionIdleTtl, SessionAbsoluteTtl, MaxClock, MaxSkew} \subseteq Nat
    /\ {PURGE_INTERVAL_SECONDS, CODE_TTL_SECONDS, SESSION_TOUCH_INTERVAL_SECONDS,
        MAX_REFRESH_FAMILIES_PER_CLIENT, MaxSerial, MaxExchanges} \subseteq Nat \ {0}

VARIABLES
    clock,       \* wall clock, in seconds
    user,        \* the user row; initialized is whether there is one
    destroyed,   \* in memory, lost when the object restarts
    lastPurgeAt, \* in memory, lost when the object restarts
    sessions,    \* with session_clients as the field clients
    codes,
    families,    \* with refresh_tokens as the field tokens
    grants,
    exchanges,   \* exchangeCode calls awaiting the hash, equal ones counted once
    minted,      \* history: every id and secret callers have minted
    ended,       \* history: every session that was ever revoked
    consented    \* history: every scope ever consented to, for which client

tables == <<sessions, codes, families, grants>>
history == <<minted, ended, consented>>
vars == <<clock, user, destroyed, lastPurgeAt, tables, exchanges, history>>

Null == -1
NegInfinity == -PURGE_INTERVAL_SECONDS
ClientIds == {r.client_id : r \in ClientRefs}
Scopes == UNION ScopeSets
Minimum(a, b) == IF a <= b THEN a ELSE b

User == [initialized : BOOLEAN, disabled : BOOLEAN, groups : SUBSET Groups]
NoUser == [initialized |-> FALSE, disabled |-> FALSE, groups |-> {}]
NoRows == [x \in {} |-> Null]

Session == [last_seen_at : Nat, idle_expires_at : Nat, absolute_expires_at : Nat,
            revoked_at : Nat \cup {Null}, clients : SUBSET ClientIds]

Code == [client_id : ClientIds, sid : Sids, scope : SUBSET Scopes,
         expires_at : Nat, consumed : BOOLEAN]

\* A refresh_tokens row; the code keys it by the secret that its serial stands for.
Token == [serial : Nat, created_at : Nat]

\* An offline family stores no sid: kind tells which ones are bound to theirs.
\* consumed is history: the tokens that were rotated, and when.
Family == [client_id : ClientIds, client_created_at : Nat, code : Codes,
           kind : {"session", "offline"}, sid : Sids, scope : SUBSET Scopes,
           created_at : Nat, idle_expires_at : Nat, absolute_expires_at : Nat,
           current_serial : Nat, tokens : SUBSET Token,
           consumed : SUBSET [serial : Nat, at : Nat], revoked_at : Nat \cup {Null}]

Grant == [client_created_at : Nat, scopes : SUBSET Scopes]

Consent == [client_id : ClientIds, created_at : Nat, scope : Scopes]

Exchange == [code : Codes, ref : ClientRefs, now : Nat, user : User]

Minted == [sids : SUBSET Sids, codes : SUBSET Codes, families : SUBSET Families]

IsTable(t, Keys, Row) ==
    /\ DOMAIN t \subseteq Keys
    /\ t = [k \in DOMAIN t |-> t[k]]
    /\ \A k \in DOMAIN t : t[k] \in Row

\* Type invariant: every table holds rows of its schema, every clock is a time.
TypeOK ==
    /\ clock \in Nat
    /\ user \in User
    /\ destroyed \in BOOLEAN
    /\ lastPurgeAt \in Int
    /\ IsTable(sessions, Sids, Session)
    /\ IsTable(codes, Codes, Code)
    /\ IsTable(families, Families, Family)
    /\ IsTable(grants, ClientIds, Grant)
    /\ exchanges \subseteq Exchange
    /\ minted \in Minted
    /\ ended \subseteq Sids
    /\ consented \subseteq Consent

-----------------------------------------------------------------------------
(* Rows and tables.                                                        *)

Put(table, key, row) ==
    [k \in DOMAIN table \cup {key} |-> IF k = key THEN row ELSE table[k]]

Unrevoked(row) == row.revoked_at = Null
Unexpired(row, now) == row.idle_expires_at > now /\ row.absolute_expires_at > now
Live(row, now) == Unrevoked(row) /\ Unexpired(row, now)

\* Mutant: a revocation restamps rows that were revoked before.
RevokedAgain(table, keys, now) ==
    [k \in DOMAIN table |->
        IF k \in keys THEN [table[k] EXCEPT !.revoked_at = now] ELSE table[k]]

Revoked(table, keys, now) ==
    [k \in DOMAIN table |->
        IF k \in keys /\ Unrevoked(table[k])
        THEN [table[k] EXCEPT !.revoked_at = now] ELSE table[k]]

\* The times a handler running now may have captured at its start.
Nows == {t \in 0..clock : t >= clock - MaxSkew}

Guard == ~destroyed /\ user.initialized

Allowed(u, ref) == ref.anyone \/ ref.allowed_groups \cap u.groups # {}
AdminAllowed(u, scope) == "admin" \in scope => "admins" \in u.groups

(* The purge on write, at most once per interval.                          *)

PurgeDue(now) == now - lastPurgeAt >= PURGE_INTERVAL_SECONDS

PurgedAt(now) == IF PurgeDue(now) THEN now ELSE lastPurgeAt

\* Revoked or expired for longer than the grace period.
Outdated(row, now) ==
    LET grace == now - PURGE_GRACE_SECONDS
    IN  \/ ~Unrevoked(row) /\ row.revoked_at < grace
        \/ row.absolute_expires_at < grace
        \/ row.idle_expires_at < grace

PurgedCodes(now) ==
    Restrict(codes, {c \in DOMAIN codes : PurgeDue(now) => codes[c].expires_at >= now})

PurgedSessions(now) ==
    Restrict(sessions, {s \in DOMAIN sessions : PurgeDue(now) => ~Outdated(sessions[s], now)})

\* Mutant: tokens go by their own age, the current one too.
PurgedOldTokens(tokens, now, window) ==
    {t \in tokens : PurgeDue(now) => t.created_at >= now - window}

\* Mutant: a token goes a second early.
PurgedTokensEarly(tokens, now, window) ==
    {t \in tokens : PurgeDue(now) =>
        ~\E later \in tokens : later.serial = t.serial + 1 /\ later.created_at <= now - window}

\* A token was consumed when its successor was created.
PurgedTokens(tokens, now, window) ==
    {t \in tokens : PurgeDue(now) =>
        ~\E later \in tokens : later.serial = t.serial + 1 /\ later.created_at < now - window}

PurgedFamilies(now, window) ==
    [f \in {g \in DOMAIN families : PurgeDue(now) => ~Outdated(families[g], now)} |->
        [families[f] EXCEPT !.tokens = PurgedTokens(@, now, window)]]

Purge(now, window) ==
    /\ lastPurgeAt' = PurgedAt(now)
    /\ codes' = PurgedCodes(now)
    /\ sessions' = PurgedSessions(now)
    /\ families' = PurgedFamilies(now, window)

-----------------------------------------------------------------------------
(* Lifecycle of the object.                                                *)

Init ==
    /\ clock = 0
    /\ user = NoUser
    /\ destroyed = FALSE
    /\ lastPurgeAt = NegInfinity
    /\ sessions = NoRows
    /\ codes = NoRows
    /\ families = NoRows
    /\ grants = NoRows
    /\ exchanges = {}
    /\ minted = [sids |-> {}, codes |-> {}, families |-> {}]
    /\ ended = {}
    /\ consented = {}

Tick ==
    /\ clock < MaxClock
    /\ clock' = clock + 1
    /\ UNCHANGED <<user, destroyed, lastPurgeAt, tables, exchanges, history>>

\* The object is evicted and starts again: memory and suspended calls are lost.
Restart ==
    /\ destroyed' = FALSE
    /\ lastPurgeAt' = NegInfinity
    /\ exchanges' = {}
    /\ UNCHANGED <<clock, user, tables, history>>

InitUser(groups) ==
    /\ ~destroyed
    /\ ~user.initialized
    /\ user' = [initialized |-> TRUE, disabled |-> FALSE, groups |-> groups]
    /\ UNCHANGED <<clock, destroyed, lastPurgeAt, tables, exchanges, history>>

Destroy ==
    /\ user' = NoUser
    /\ destroyed' = TRUE
    /\ sessions' = NoRows
    /\ codes' = NoRows
    /\ families' = NoRows
    /\ grants' = NoRows
    /\ UNCHANGED <<clock, lastPurgeAt, exchanges, history>>

SetGroups(groups) ==
    /\ Guard
    /\ user' = [user EXCEPT !.groups = groups]
    /\ UNCHANGED <<clock, destroyed, lastPurgeAt, tables, exchanges, history>>

\* touch(), and every call that is refused after its purge.
PurgeOnly(now, window) ==
    /\ Guard
    /\ PurgeDue(now)
    /\ Purge(now, window)
    /\ UNCHANGED <<clock, user, destroyed, grants, exchanges, history>>

-----------------------------------------------------------------------------
(* Ending sessions.                                                        *)

\* The unrevoked session families of the given sessions.
FamiliesOf(table, sids) ==
    {f \in DOMAIN table : table[f].kind = "session" /\ table[f].sid \in sids}

EndSessions(S, F, sids, now) ==
    /\ sessions' = Revoked(S, sids, now)
    /\ families' = Revoked(F, FamiliesOf(F, sids), now)
    /\ ended' = ended \cup sids
    /\ UNCHANGED <<minted, consented>>

\* Every session still unrevoked ends, and every family, offline ones too.
EndEverything(now) ==
    LET sids == {s \in DOMAIN sessions : Unrevoked(sessions[s])}
    IN  /\ sessions' = Revoked(sessions, sids, now)
        /\ families' = Revoked(families, DOMAIN families, now)
        /\ ended' = ended \cup sids
        /\ UNCHANGED <<minted, consented>>

Disable(now) ==
    /\ Guard
    /\ user' = [user EXCEPT !.disabled = TRUE]
    /\ EndEverything(now)
    /\ UNCHANGED <<clock, destroyed, lastPurgeAt, codes, grants, exchanges>>

Enable ==
    /\ Guard
    /\ user' = [user EXCEPT !.disabled = FALSE]
    /\ UNCHANGED <<clock, destroyed, lastPurgeAt, tables, exchanges, history>>

RevokeAll(now) ==
    /\ Guard
    /\ EndEverything(now)
    /\ UNCHANGED <<clock, user, destroyed, lastPurgeAt, codes, grants, exchanges>>

RevokeSession(sid, now) ==
    LET S == PurgedSessions(now)
    IN  /\ Guard
        /\ sid \in DOMAIN S
        /\ Unrevoked(S[sid])
        /\ EndSessions(S, PurgedFamilies(now, PURGE_GRACE_SECONDS), {sid}, now)
        /\ lastPurgeAt' = PurgedAt(now)
        /\ codes' = PurgedCodes(now)
        /\ UNCHANGED <<clock, user, destroyed, grants, exchanges>>

\* Only sessions that are still live end; `except` may name none of them.
RevokeSessions(except, now) ==
    LET S == PurgedSessions(now)
        sids == {s \in DOMAIN S : Live(S[s], now)} \ except
    IN  /\ Guard
        /\ EndSessions(S, PurgedFamilies(now, PURGE_GRACE_SECONDS), sids, now)
        /\ lastPurgeAt' = PurgedAt(now)
        /\ codes' = PurgedCodes(now)
        /\ UNCHANGED <<clock, user, destroyed, grants, exchanges>>

-----------------------------------------------------------------------------
(* Consent grants.                                                         *)

\* Mutant: the client's creation time is not compared.
AllGrants(ref) == grants

\* grantFor: a grant left by a client that was deleted and re-created goes.
CurrentGrants(ref) ==
    Restrict(grants, {c \in DOMAIN grants :
        c = ref.client_id => grants[c].client_created_at = ref.created_at})

GrantedScopes(ref) ==
    IF ref.client_id \in DOMAIN CurrentGrants(ref)
    THEN grants[ref.client_id].scopes ELSE {}

GrantConsent(ref, scope) ==
    /\ Guard
    /\ grants' = Put(CurrentGrants(ref), ref.client_id,
                     [client_created_at |-> ref.created_at,
                      scopes |-> GrantedScopes(ref) \cup scope])
    /\ consented' = consented \cup
        {[client_id |-> ref.client_id, created_at |-> ref.created_at, scope |-> s] : s \in scope}
    /\ UNCHANGED <<clock, user, destroyed, lastPurgeAt, sessions, codes, families,
                   exchanges, minted, ended>>

\* Deletes every grant whose client is not among the records the caller passes.
ListGrants(refs) ==
    /\ Guard
    /\ grants' = Restrict(grants, {c \in DOMAIN grants : \E r \in refs :
                    r.client_id = c /\ r.created_at = grants[c].client_created_at})
    /\ UNCHANGED <<clock, user, destroyed, lastPurgeAt, sessions, codes, families,
                   exchanges, history>>

FamiliesOfClient(client) == {f \in DOMAIN families : families[f].client_id = client}

RevokeGrant(client, now) ==
    /\ Guard
    /\ grants' = Restrict(grants, DOMAIN grants \ {client})
    /\ families' = Revoked(families, FamiliesOfClient(client), now)
    /\ UNCHANGED <<clock, user, destroyed, lastPurgeAt, sessions, codes, exchanges, history>>

-----------------------------------------------------------------------------
(* Sessions and authorization codes.                                       *)

\* Mutant: the idle expiry is not capped by the absolute one.
TouchedUncapped(row, now) ==
    IF now - row.last_seen_at < SESSION_TOUCH_INTERVAL_SECONDS THEN row
    ELSE [row EXCEPT !.last_seen_at = now, !.idle_expires_at = now + SessionIdleTtl]

\* touchSession: extends the idle expiry, at most once per interval.
Touched(row, now) ==
    IF now - row.last_seen_at < SESSION_TOUCH_INTERVAL_SECONDS THEN row
    ELSE [row EXCEPT !.last_seen_at = now,
                     !.idle_expires_at = Minimum(now + SessionIdleTtl, row.absolute_expires_at)]

NewSession(now) ==
    [last_seen_at |-> now,
     idle_expires_at |-> Minimum(now + SessionIdleTtl, now + SessionAbsoluteTtl),
     absolute_expires_at |-> now + SessionAbsoluteTtl,
     revoked_at |-> Null, clients |-> {}]

\* The session row after a new authentication of the same user.
RotatedSession(row, now) ==
    [row EXCEPT !.last_seen_at = now,
                !.idle_expires_at = Minimum(now + SessionIdleTtl, row.absolute_expires_at)]

\* issueCodeRows, on the session `row` stored under sid, after the purge.
IssueCode(code, ref, scope, sid, row, now) ==
    /\ code \notin minted.codes
    /\ lastPurgeAt' = PurgedAt(now)
    /\ codes' = Put(PurgedCodes(now), code,
                    [client_id |-> ref.client_id, sid |-> sid, scope |-> scope,
                     expires_at |-> now + CODE_TTL_SECONDS, consumed |-> FALSE])
    /\ sessions' = Put(PurgedSessions(now), sid,
                       Touched([row EXCEPT !.clients = @ \cup {ref.client_id}], now))
    /\ families' = PurgedFamilies(now, PURGE_GRACE_SECONDS)
    /\ minted' = [minted EXCEPT !.codes = @ \cup {code}, !.sids = @ \cup {sid}]

MayAuthorize(sid, ref, scope, now) ==
    /\ Guard
    /\ sid \in DOMAIN sessions
    /\ Live(sessions[sid], now)
    /\ ~user.disabled
    /\ Allowed(user, ref)
    /\ AdminAllowed(user, scope)

Covered(ref, scope) == ref.skip_consent \/ scope \subseteq GrantedScopes(ref)

\* authorizeWithSession: the session answers, a code is issued.
AuthorizeWithSession(sid, ref, scope, code, now) ==
    /\ MayAuthorize(sid, ref, scope, now)
    /\ Covered(ref, scope)
    /\ IssueCode(code, ref, scope, sid, sessions[sid], now)
    /\ grants' = IF ref.skip_consent THEN grants ELSE CurrentGrants(ref)
    /\ UNCHANGED <<clock, user, destroyed, exchanges, ended, consented>>

\* authorizeWithSession: consent is missing, or prompted for.
ConsentRequired(sid, ref, scope, now) ==
    /\ MayAuthorize(sid, ref, scope, now)
    /\ ~ref.skip_consent
    /\ grants' = CurrentGrants(ref)
    /\ UNCHANGED <<clock, user, destroyed, lastPurgeAt, sessions, codes, families,
                   exchanges, history>>

\* Mutant: finalizeLogin does not look at disabled_at.
MayFinalizeDisabled(ref, scope) ==
    /\ Guard
    /\ Allowed(user, ref)
    /\ AdminAllowed(user, scope)

MayFinalize(ref, scope) ==
    /\ Guard
    /\ ~user.disabled
    /\ Allowed(user, ref)
    /\ AdminAllowed(user, scope)

\* finalizeLogin with a new session.
CreateSession(sid, ref, scope, code, now) ==
    /\ MayFinalize(ref, scope)
    /\ sid \notin minted.sids
    /\ IssueCode(code, ref, scope, sid, NewSession(now), now)
    /\ UNCHANGED <<clock, user, destroyed, grants, exchanges, ended, consented>>

\* finalizeLogin on the session the browser already had.
RotateSession(sid, ref, scope, code, now) ==
    LET S == PurgedSessions(now)
    IN  /\ MayFinalize(ref, scope)
        /\ sid \in DOMAIN S
        /\ Unrevoked(S[sid])
        /\ S[sid].absolute_expires_at > now
        /\ IssueCode(code, ref, scope, sid, RotatedSession(S[sid], now), now)
        /\ UNCHANGED <<clock, user, destroyed, grants, exchanges, ended, consented>>

-----------------------------------------------------------------------------
(* Refresh-token families.                                                 *)

Newer(F, f, g) ==
    \/ F[f].created_at > F[g].created_at
    \/ F[f].created_at = F[g].created_at /\ f > g

LiveFamilies(F, client, now) ==
    {f \in DOMAIN F : F[f].client_id = client /\ Live(F[f], now)}

\* Mutant: one family too many stays.
BeyondLimitPlusOne(F, client, now) ==
    LET live == LiveFamilies(F, client, now)
    IN  {f \in live : Cardinality({g \in live : Newer(F, g, f)})
                        > MAX_REFRESH_FAMILIES_PER_CLIENT}

\* The live families of the client beyond the newest that may stay.
BeyondLimit(F, client, now) ==
    LET live == LiveFamilies(F, client, now)
    IN  {f \in live : Cardinality({g \in live : Newer(F, g, f)})
                        >= MAX_REFRESH_FAMILIES_PER_CLIENT}

NewFamily(code, ref, row, session, now) ==
    LET offline == ref.offline_access /\ "offline_access" \in row.scope
        absolute == IF offline THEN now + RefreshAbsoluteTtl ELSE session.absolute_expires_at
    IN  [client_id |-> ref.client_id, client_created_at |-> ref.created_at,
         code |-> code, kind |-> IF offline THEN "offline" ELSE "session",
         sid |-> row.sid, scope |-> row.scope, created_at |-> now,
         absolute_expires_at |-> absolute,
         idle_expires_at |-> Minimum(now + RefreshIdleTtl, absolute),
         current_serial |-> 1, tokens |-> {[serial |-> 1, created_at |-> now]},
         consumed |-> {}, revoked_at |-> Null]

\* exchangeCode reads the user row, then awaits the hash of the verifier.
BeginExchange(code, ref, now) ==
    /\ Guard
    /\ Cardinality(exchanges) < MaxExchanges
    /\ code \in minted.codes
    /\ exchanges' = exchanges \cup {[code |-> code, ref |-> ref, now |-> now, user |-> user]}
    /\ UNCHANGED <<clock, user, destroyed, lastPurgeAt, tables, history>>

\* Mutant: the session of the code is not looked at.
ExchangeableWithoutSession(x) ==
    LET C == PurgedCodes(x.now)
    IN  /\ x.code \in DOMAIN C
        /\ ~C[x.code].consumed
        /\ C[x.code].expires_at > x.now
        /\ C[x.code].client_id = x.ref.client_id
        /\ ~x.user.disabled
        /\ C[x.code].sid \in DOMAIN PurgedSessions(x.now)

\* Mutant: a consumed code is accepted again.
ExchangeableAgain(x) ==
    LET C == PurgedCodes(x.now)
    IN  /\ x.code \in DOMAIN C
        /\ C[x.code].expires_at > x.now
        /\ C[x.code].client_id = x.ref.client_id
        /\ C[x.code].sid \in DOMAIN PurgedSessions(x.now)

\* The code row allows the exchange; redirect_uri and verifier match.
Exchangeable(x) ==
    LET C == PurgedCodes(x.now)
        S == PurgedSessions(x.now)
    IN  /\ x.code \in DOMAIN C
        /\ ~C[x.code].consumed
        /\ C[x.code].expires_at > x.now
        /\ C[x.code].client_id = x.ref.client_id
        /\ ~x.user.disabled
        /\ Allowed(x.user, x.ref)
        /\ AdminAllowed(x.user, C[x.code].scope)
        /\ C[x.code].sid \in DOMAIN S
        /\ Unrevoked(S[C[x.code].sid])

\* Calls that agree in everything are one record: its last one removes it.
FinishExchange(x) ==
    /\ exchanges' \in {exchanges, exchanges \ {x}}
    /\ UNCHANGED <<clock, user, destroyed, grants, ended, consented>>

\* A code presented again revokes every family it produced.
ExchangeReplay(x) ==
    LET C == PurgedCodes(x.now)
        F == PurgedFamilies(x.now, PURGE_GRACE_SECONDS)
    IN  /\ user.initialized
        /\ x.code \in DOMAIN C
        /\ C[x.code].consumed
        /\ lastPurgeAt' = PurgedAt(x.now)
        /\ codes' = C
        /\ sessions' = PurgedSessions(x.now)
        /\ families' = Revoked(F, {f \in DOMAIN F : F[f].code = x.code}, x.now)
        /\ FinishExchange(x)
        /\ UNCHANGED minted

\* The exchange is refused after the purge, or finds its tables destroyed.
ExchangeRefused(x) ==
    /\ IF user.initialized
       THEN /\ x.code \in DOMAIN PurgedCodes(x.now) => ~codes[x.code].consumed
            /\ Purge(x.now, PURGE_GRACE_SECONDS)
       ELSE UNCHANGED <<lastPurgeAt, codes, sessions, families>>
    /\ FinishExchange(x)
    /\ UNCHANGED minted

\* The exchange succeeds; the family limit is applied with the new family in place.
ExchangeCode(x, id) ==
    LET C == PurgedCodes(x.now)
        S == PurgedSessions(x.now)
        row == C[x.code]
        F == Put(PurgedFamilies(x.now, PURGE_GRACE_SECONDS), id,
                 NewFamily(x.code, x.ref, row, S[row.sid], x.now))
    IN  /\ user.initialized
        /\ Exchangeable(x)
        /\ lastPurgeAt' = PurgedAt(x.now)
        /\ codes' = [C EXCEPT ![x.code].consumed = TRUE]
        /\ sessions' = S
        /\ IF x.ref.refresh
           THEN /\ id \notin minted.families
                /\ families' = Revoked(F, BeyondLimit(F, x.ref.client_id, x.now), x.now)
                /\ minted' = [minted EXCEPT !.families = @ \cup {id}]
           ELSE /\ families' = PurgedFamilies(x.now, PURGE_GRACE_SECONDS)
                /\ UNCHANGED minted
        /\ FinishExchange(x)

\* rotateRefreshToken, up to the token lookup: the family answers this client.
Presented(f, n, ref, now) ==
    LET F == PurgedFamilies(now, ReuseWindow)
    IN  /\ Guard
        /\ f \in DOMAIN F
        /\ Live(F[f], now)
        /\ F[f].client_id = ref.client_id
        /\ F[f].client_created_at = ref.created_at
        /\ \E t \in F[f].tokens : t.serial = n

\* The client was deleted and re-created: the family goes.
RefreshOfRecreatedClient(f, ref, now) ==
    LET F == PurgedFamilies(now, ReuseWindow)
    IN  /\ Guard
        /\ f \in DOMAIN F
        /\ Live(F[f], now)
        /\ F[f].client_id = ref.client_id
        /\ F[f].client_created_at # ref.created_at
        /\ lastPurgeAt' = PurgedAt(now)
        /\ codes' = PurgedCodes(now)
        /\ sessions' = PurgedSessions(now)
        /\ families' = Restrict(F, DOMAIN F \ {f})
        /\ UNCHANGED <<clock, user, destroyed, grants, exchanges, history>>

\* A consumed token: the family dies, and its session when it has one.
RefreshReuse(f, n, ref, now) ==
    LET F == PurgedFamilies(now, ReuseWindow)
        sids == IF F[f].kind = "session" THEN {F[f].sid} ELSE {}
    IN  /\ Presented(f, n, ref, now)
        /\ n < F[f].current_serial
        /\ sessions' = Revoked(PurgedSessions(now), sids, now)
        /\ families' = Revoked(F, {f} \cup FamiliesOf(F, sids), now)
        /\ ended' = ended \cup sids
        /\ lastPurgeAt' = PurgedAt(now)
        /\ codes' = PurgedCodes(now)
        /\ UNCHANGED <<clock, user, destroyed, grants, exchanges, minted, consented>>

\* The current token: the next one is inserted, the family and session move on.
RotateRefreshToken(f, ref, scope, now) ==
    LET F == PurgedFamilies(now, ReuseWindow)
        S == PurgedSessions(now)
        n == F[f].current_serial
        bound == F[f].kind = "session"
        sid == F[f].sid
    IN  /\ Presented(f, n, ref, now)
        /\ n < MaxSerial
        /\ ~user.disabled
        /\ Allowed(user, ref)
        /\ bound => sid \in DOMAIN S /\ Live(S[sid], now)
        /\ scope \subseteq F[f].scope
        /\ AdminAllowed(user, scope)
        /\ families' = [F EXCEPT
                ![f].tokens = @ \cup {[serial |-> n + 1, created_at |-> now]},
                ![f].current_serial = n + 1,
                ![f].consumed = @ \cup {[serial |-> n, at |-> now]},
                ![f].idle_expires_at = Minimum(now + RefreshIdleTtl, F[f].absolute_expires_at)]
        /\ sessions' = IF bound THEN [S EXCEPT ![sid] = Touched(@, now)] ELSE S
        /\ lastPurgeAt' = PurgedAt(now)
        /\ codes' = PurgedCodes(now)
        /\ UNCHANGED <<clock, user, destroyed, grants, exchanges, history>>

RevokeFamilies(fs, now) ==
    /\ Guard
    /\ families' = Revoked(families, fs, now)
    /\ UNCHANGED <<clock, user, destroyed, lastPurgeAt, sessions, codes, grants,
                   exchanges, history>>

RevokeFamilyById(f, now) ==
    /\ f \in DOMAIN families
    /\ Unrevoked(families[f])
    /\ RevokeFamilies({f}, now)

RevokeSessionFamiliesOfClient(sid, client, now) ==
    RevokeFamilies(FamiliesOf(families, {sid}) \cap FamiliesOfClient(client), now)

RevokeFamiliesOfClient(client, now) == RevokeFamilies(FamiliesOfClient(client), now)

-----------------------------------------------------------------------------
LifecycleNext ==
    \/ Tick
    \/ Restart
    \/ \E groups \in SUBSET Groups : InitUser(groups) \/ SetGroups(groups)
    \/ Destroy
    \/ Enable
    \/ \E now \in Nows : Disable(now) \/ RevokeAll(now)
    \/ \E now \in Nows, window \in {PURGE_GRACE_SECONDS, ReuseWindow} : PurgeOnly(now, window)

SessionStep(now) ==
    \/ \E sid \in Sids, ref \in ClientRefs, scope \in ScopeSets :
        \/ \E code \in Codes :
            \/ AuthorizeWithSession(sid, ref, scope, code, now)
            \/ CreateSession(sid, ref, scope, code, now)
            \/ RotateSession(sid, ref, scope, code, now)
        \/ ConsentRequired(sid, ref, scope, now)
    \/ \E sid \in Sids : RevokeSession(sid, now)
    \/ \E except \in {{}} \cup {{sid} : sid \in Sids} : RevokeSessions(except, now)

SessionNext == \E now \in Nows : SessionStep(now)

GrantNext ==
    \/ \E ref \in ClientRefs, scope \in ScopeSets : ~ref.skip_consent /\ GrantConsent(ref, scope)
    \/ \E refs \in SUBSET ClientRefs : ListGrants(refs)
    \/ \E client \in ClientIds, now \in Nows : RevokeGrant(client, now)

FamilyNext ==
    \/ \E code \in Codes, ref \in ClientRefs, now \in Nows : BeginExchange(code, ref, now)
    \/ \E x \in exchanges :
        \/ ExchangeReplay(x)
        \/ ExchangeRefused(x)
        \/ \E id \in Families : ExchangeCode(x, id)
    \/ \E now \in Nows :
        \/ \E f \in Families, ref \in ClientRefs :
            \/ RefreshOfRecreatedClient(f, ref, now)
            \/ \E n \in 1..MaxSerial : RefreshReuse(f, n, ref, now)
            \/ \E scope \in ScopeSets : RotateRefreshToken(f, ref, scope, now)
        \/ \E f \in Families : RevokeFamilyById(f, now)
        \/ \E client \in ClientIds : RevokeFamiliesOfClient(client, now)
        \/ \E sid \in Sids, client \in ClientIds : RevokeSessionFamiliesOfClient(sid, client, now)

Next == LifecycleNext \/ SessionNext \/ GrantNext \/ FamilyNext

Spec == Init /\ [][Next]_vars
-----------------------------------------------------------------------------
(* Properties.                                                             *)

\* Logging out, revoking or detecting reuse on a session takes its session-bound
\* families with it, and no exchange already under way adds one afterwards
\* (revokeSessionRows; the session check of exchangeCode).
EndedSessionHasNoFamily ==
    \A f \in DOMAIN families :
        families[f].kind = "session" /\ families[f].sid \in ended => ~Unrevoked(families[f])

\* While the user is disabled nothing of theirs is usable, not even through an
\* exchange that read the user row before setDisabled ran.
DisabledHasNothingLive ==
    user.disabled =>
        /\ \A s \in DOMAIN sessions : ~Unrevoked(sessions[s])
        /\ \A f \in DOMAIN families : ~Unrevoked(families[f])

\* exchangeCode turns a code into at most one family, purges and concurrent
\* presentations included.
OneFamilyPerCode ==
    \A f, g \in DOMAIN families : families[f].code = families[g].code => f = g

\* The row of the family's current serial is stored, once, and none is ahead of it.
OneCurrentToken(row) ==
    /\ \E t \in row.tokens : t.serial = row.current_serial
    /\ \A t, u \in row.tokens :
        t.serial <= row.current_serial /\ (t.serial = u.serial => t = u)

\* Rotation and every purge keep exactly one usable token in a family, live or revoked.
CurrentTokenStored == \A f \in DOMAIN families : OneCurrentToken(families[f])

\* A session-bound family never outlives its session, and no touch, rotation or
\* new authentication moves an idle expiry past the absolute one.
ExpiriesNest ==
    /\ \A s \in DOMAIN sessions :
        sessions[s].idle_expires_at <= sessions[s].absolute_expires_at
    /\ \A f \in DOMAIN families :
        /\ families[f].idle_expires_at <= families[f].absolute_expires_at
        /\ families[f].kind = "session" /\ families[f].sid \in DOMAIN sessions =>
             families[f].absolute_expires_at = sessions[families[f].sid].absolute_expires_at

\* The family limit of exchangeCode: a client never has more live families than that.
FamilyLimit ==
    \A client \in ClientIds :
        Cardinality(LiveFamilies(families, client, clock)) <= MAX_REFRESH_FAMILIES_PER_CLIENT

\* A consumed token stays stored for the reuse window, whichever method purges, so
\* presenting it again within the window is detected.
ReuseDetectable ==
    \A f \in DOMAIN families : \A c \in families[f].consumed :
        c.at >= clock - ReuseWindow => \E t \in families[f].tokens : t.serial = c.serial

\* A client id that is deleted and created again inherits no consent: a stored grant
\* holds only scopes the user consented to for that very incarnation (grantFor).
ConsentOfThisClient ==
    \A c \in DOMAIN grants : \A s \in grants[c].scopes :
        [client_id |-> c, created_at |-> grants[c].client_created_at, scope |-> s] \in consented

\* A revocation is final: the row keeps its time until it is deleted, and no key
\* comes back once its row is gone.
RevocationIsFinal ==
    [][/\ \A s \in DOMAIN sessions' : s \in minted.sids =>
            /\ s \in DOMAIN sessions
            /\ ~Unrevoked(sessions[s]) => sessions'[s].revoked_at = sessions[s].revoked_at
       /\ \A f \in DOMAIN families' : f \in minted.families =>
            /\ f \in DOMAIN families
            /\ ~Unrevoked(families[f]) => families'[f].revoked_at = families[f].revoked_at]_vars
=============================================================================
