------------------------------- MODULE Tokens -------------------------------
(***************************************************************************)
(* The requests that obtain, present and revoke tokens: POST /token        *)
(* (oidc/token-endpoint.ts), POST /revoke (oidc/revoke-endpoint.ts),       *)
(* /userinfo, and the self-service and admin requests that end sessions,   *)
(* refresh families and grants (me/, admin/users.ts) behind requireAccount *)
(* and requireAdmin.                                                       *)
(*                                                                         *)
(* One user and one client id, which may be deleted and created again.     *)
(* The user's object is abstracted to what these requests tell apart       *)
(* (module UserDO has it in full): a code and its session have one name,   *)
(* which is also that of the refresh family made of the code, nothing      *)
(* expires or is purged, and the client admits every group.  The caches of *)
(* clients serve a record D1 held less than CACHE_TTL ago (module          *)
(* Registry, ServedIsRecent); signatures verify (module Keys).             *)
(***************************************************************************)
EXTENDS Integers, FiniteSets

CONSTANTS
    Procs,
    Codes,         \* authorization codes, of the session of the same name
    None,
    AccessTtl,     \* tokens.access_ttl
    CACHE_TTL,
    MaxTime,
    MaxSerial,     \* of a refresh family
    MaxTokens,     \* unexpired at one time
    MaxWrites,     \* of the client's record
    MaxRequests

ASSUME TokensAssumption ==
    {AccessTtl, CACHE_TTL, MaxTime, MaxSerial, MaxTokens, MaxWrites, MaxRequests}
        \subseteq Nat \ {0}

VARIABLES
    clock,
    client,        \* the record in D1, or None
    recent,        \* the earlier records, with the time they were replaced
    user,          \* the user row: disabled, member of admins
    session,       \* of each session: when it was revoked, or None
    code,          \* of each code: its scope, and whether it is consumed
    family,        \* of each code: the refresh family made of it, or None
    tokens,        \* the unexpired access tokens
    call,
    requests,      \* begun so far
    seen           \* refresh tokens handed out; history: families answered to have ended

vars == <<clock, client, recent, user, session, code, family, tokens, call, requests, seen>>
object == <<user, session, code, family>>

-----------------------------------------------------------------------------
Client == [created_at : Nat, disabled : BOOLEAN, scopes_allowed : SUBSET {"admin"}]

\* RecordCache.get: the current record, or one replaced less than CACHE_TTL ago.
Served == {client} \cup {x.record : x \in recent}

User == [disabled : BOOLEAN, admins : BOOLEAN]
Code == [scope : SUBSET {"account", "admin", "offline_access"}, consumed : BOOLEAN]

\* A family.  revoked_at is the time of the statement: nobody reads the value.
Family == [client_created_at : Nat, kind : {"session", "offline"}, current_serial : Nat,
           revoked_at : Nat \cup {None}]

\* sub: the user or the client.  of: the code the grant came from (history).
AccessToken == [sub : {"user", "client"}, sid : Codes \cup {None}, of : Codes \cup {None},
                scopes : SUBSET {"account", "admin"}, exp : Nat]

\* null is no time, no code, no family and no token.
ASSUME NoneAssumption == None \notin Nat \cup Codes \cup Family \cup AccessToken

Live(f) == f # None /\ f.revoked_at = None
adminAllowed(u, scope) == "admin" \in scope => u.admins

-----------------------------------------------------------------------------
\* Methods of the user's object that revoke.
RevokedFamilies(set) ==
    [c \in Codes |-> IF c \in set /\ Live(family[c]) THEN [family[c] EXCEPT !.revoked_at = clock]
                     ELSE family[c]]

\* The families bound to the sessions.
BoundTo(sids) == {c \in sids : family[c] # None /\ family[c].kind = "session"}
Made == {c \in Codes : family[c] # None}

\* revokeSessionRows of each of the sessions.
revokeSessionRows(sids) ==
    /\ session' = [s \in Codes |-> IF s \in sids /\ session[s] = None THEN clock ELSE session[s]]
    /\ family' = RevokedFamilies(BoundTo(sids))

\* The sessions, and every family.
revokeAll ==
    /\ session' = [s \in Codes |-> IF session[s] = None THEN clock ELSE session[s]]
    /\ family' = RevokedFamilies(Codes)

-----------------------------------------------------------------------------
\* A process is one request.  `had`: at some time since it began, the request
\* was entitled to what it asks for (history).
Call == [op : {"code", "refresh", "client_credentials", "disabled", "revoke", "userinfo", "me", "admin"},
         pc : {"now", "object", "exchange", "sign", "guard", "act"}, of : Codes \cup {None},
         serial : Nat, kind : {"session", "offline", None},
         scopes : SUBSET {"account", "admin"}, token : AccessToken \cup {None},
         created_at : Nat, user : User \cup {None}, now : Nat, had : BOOLEAN]

Idle == [op |-> "idle"]
Start(op, pc) == [op |-> op, pc |-> pc, of |-> None, serial |-> 0, kind |-> None, scopes |-> {},
                  token |-> None, created_at |-> 0, user |-> None, now |-> 0, had |-> FALSE]
Begin(p, new) ==
    /\ call[p] = Idle /\ requests < MaxRequests
    /\ call' = [call EXCEPT ![p] = new]
    /\ requests' = requests + 1
At(p, ops, pc) == call[p] # Idle /\ call[p].op \in ops /\ call[p].pc = pc
Goto(p, pc) == call' = [call EXCEPT ![p].pc = pc]
Respond(p) == call' = [call EXCEPT ![p] = Idle]

\* The answer states that these families have ended.
Answered(set) == seen' = [seen EXCEPT !.ended = @ \cup set]

Init ==
    /\ clock = 0
    /\ client = [created_at |-> 1, disabled |-> FALSE, scopes_allowed |-> {"admin"}]
    /\ recent = {}
    /\ user = [disabled |-> FALSE, admins |-> TRUE]
    /\ session = [s \in Codes |-> None]
    /\ code \in [Codes -> [scope : {{"account", "admin", "offline_access"}}, consumed : {FALSE}]]
    /\ family = [c \in Codes |-> None]
    /\ tokens = {}
    /\ call = [p \in Procs |-> Idle]
    /\ requests = 0
    /\ seen = [handed |-> [c \in Codes |-> 0], ended |-> {}, writes |-> 0]

-----------------------------------------------------------------------------
\* authenticateFormClient: the record served, neither missing nor disabled.
Authenticated == {r \in Served \ {None} : ~r.disabled}

\* openRefreshHandle: the serials of the refresh tokens sealed for the client.
Handles(c) == 1 .. seen.handed[c]

\* POST /token, up to the dispatch on grant_type.
tokenHandler(p, grant_type, c, presented, requested) ==
    /\ \E r \in Authenticated :
           /\ grant_type = "client_credentials" => requested \subseteq r.scopes_allowed
           /\ Begin(p, [Start(grant_type, "now") EXCEPT !.of = c, !.serial = presented,
                                                        !.scopes = requested, !.created_at = r.created_at])
    /\ UNCHANGED <<clock, client, recent, object, tokens, seen>>

\* The refresh grant of a client whose record is disabled.
disabledClientRefresh(p, c) ==
    /\ Handles(c) # {}
    /\ \E r \in Served \ {None} : r.disabled
    /\ Begin(p, [Start("disabled", "object") EXCEPT !.of = c])
    /\ UNCHANGED <<clock, client, recent, object, tokens, seen>>

\* Mutant: a storage error is answered like success.
revokeDisabledOrFail(p) ==
    /\ At(p, {"disabled"}, "object")
    /\ family' \in {family, RevokedFamilies({call[p].of})}
    /\ Answered({call[p].of})
    /\ Respond(p)
    /\ UNCHANGED <<requests, clock, client, recent, user, session, code, tokens>>

\* Its family ends, and then it is answered invalid_grant.
revokeDisabled(p) ==
    /\ At(p, {"disabled"}, "object")
    /\ family' = RevokedFamilies({call[p].of})
    /\ Answered({call[p].of})
    /\ Respond(p)
    /\ UNCHANGED <<requests, clock, client, recent, user, session, code, tokens>>

\* Keys and settings are there, and `now` is taken.
readNow(p) ==
    /\ At(p, {"code", "refresh", "client_credentials"}, "now")
    /\ call' = [call EXCEPT ![p].now = clock,
                            ![p].created_at = IF call[p].op = "client_credentials" THEN 0 ELSE @,
                            ![p].pc = IF call[p].op = "client_credentials" THEN "sign" ELSE "object"]
    /\ UNCHANGED <<requests, clock, client, recent, object, tokens, seen>>

\* The authorization_code grant calls exchangeCode, which reads the user row
\* and then waits for the verifier's hash.
codeGrant(p) ==
    /\ At(p, {"code"}, "object")
    /\ call' = [call EXCEPT ![p].pc = "exchange", ![p].user = user]
    /\ UNCHANGED <<requests, clock, client, recent, object, tokens, seen>>

\* The transaction of exchangeCode.  A replay ends the family the code has made; without the
\* refresh grant no family is made.
exchangeCode(p) ==
    LET c == call[p].of IN
    /\ At(p, {"code"}, "exchange")
    /\ \/ /\ ~code[c].consumed
          /\ ~call[p].user.disabled /\ adminAllowed(call[p].user, code[c].scope)
          /\ session[c] = None
          /\ code' = [code EXCEPT ![c].consumed = TRUE]
          /\ \E kind \in {None, "session"} \cup {k \in {"offline"} : "offline_access" \in code[c].scope} :
                /\ family' = IF kind = None THEN family ELSE [family EXCEPT ![c] =
                       [client_created_at |-> call[p].created_at, kind |-> kind,
                        current_serial |-> 1, revoked_at |-> None]]
                /\ call' = [call EXCEPT ![p].pc = "sign", ![p].kind = kind, ![p].user = None,
                                        ![p].created_at = 0,
                                        ![p].serial = IF kind = None THEN 0 ELSE 1,
                                        ![p].scopes = code[c].scope \ {"offline_access"}]
       \/ /\ code[c].consumed
          /\ family' = RevokedFamilies({c})
          /\ Respond(p) /\ UNCHANGED code
       \/ /\ ~code[c].consumed
          /\ \/ call[p].user.disabled \/ ~adminAllowed(call[p].user, code[c].scope)
             \/ session[c] # None
          /\ Respond(p) /\ UNCHANGED <<code, family>>
    /\ UNCHANGED <<requests, clock, client, recent, user, session, tokens, seen>>

\* rotateRefreshToken, of the current token.
Rotatable(c, scopes) ==
    /\ ~user.disabled /\ adminAllowed(user, scopes)
    /\ family[c].kind = "session" => session[c] = None

\* The refresh_token grant.  A family of another record of the client is
\* deleted; a consumed token ends the family and the session it is bound to.
refreshGrant(p) ==
    LET c == call[p].of
        f == family[c]
        foreign == f.client_created_at # call[p].created_at
        consumed == call[p].serial < f.current_serial
    IN  /\ At(p, {"refresh"}, "object")
        /\ \/ ~Live(f) /\ Respond(p) /\ UNCHANGED <<session, family>>
           \/ /\ Live(f) /\ foreign
              /\ family' = [family EXCEPT ![c] = None]
              /\ Respond(p) /\ UNCHANGED session
           \/ /\ Live(f) /\ ~foreign /\ consumed
              /\ IF f.kind = "session" THEN revokeSessionRows({c})
                 ELSE family' = RevokedFamilies({c}) /\ UNCHANGED session
              /\ Respond(p)
           \/ /\ Live(f) /\ ~foreign /\ ~consumed /\ ~Rotatable(c, call[p].scopes)
              /\ Respond(p) /\ UNCHANGED <<session, family>>
           \/ /\ Live(f) /\ ~foreign /\ ~consumed /\ Rotatable(c, call[p].scopes)
              /\ f.current_serial < MaxSerial
              /\ family' = [family EXCEPT ![c].current_serial = @ + 1]
              /\ call' = [call EXCEPT ![p].pc = "sign", ![p].kind = f.kind, ![p].serial = @ + 1,
                                      ![p].created_at = 0]
              /\ UNCHANGED session
        /\ UNCHANGED <<requests, clock, client, recent, user, code, tokens, seen>>

\* Mutant: the token lives from its signing on.
accessTokenClaimsAtSigning(q) ==
    [sub |-> IF q.of = None THEN "client" ELSE "user",
     sid |-> IF q.kind = "offline" THEN None ELSE q.of,
     of |-> q.of, scopes |-> q.scopes, exp |-> clock + AccessTtl]

\* accessTokenClaims, from the `now` taken before the object was called.
accessTokenClaims(q) ==
    [sub |-> IF q.of = None THEN "client" ELSE "user",
     sid |-> IF q.kind = "offline" THEN None ELSE q.of,
     of |-> q.of, scopes |-> q.scopes, exp |-> q.now + AccessTtl]

\* The answer carries the access token, if it has not expired by then.
Answer(p) ==
    /\ Cardinality(tokens) < MaxTokens
    /\ tokens' = tokens \cup {t \in {accessTokenClaims(call[p])} : t.exp > clock}
    /\ Respond(p)
    /\ UNCHANGED <<requests, clock, client, recent, object>>

\* The refresh token of a user's answer, when there is a family.
sealRefreshHandle(q) ==
    seen' = IF q.kind = None \/ q.serial \in Handles(q.of) THEN seen
            ELSE [seen EXCEPT !.handed[q.of] = q.serial]

userTokens(p) == At(p, {"code", "refresh"}, "sign") /\ sealRefreshHandle(call[p]) /\ Answer(p)

\* A client's own token.
clientToken(p) == At(p, {"client_credentials"}, "sign") /\ Answer(p) /\ UNCHANGED seen

-----------------------------------------------------------------------------
\* POST /revoke of a refresh token, or of an access token with a sid.
revokeHandler(p, c, t) ==
    /\ Authenticated # {}
    /\ IF t = None THEN Handles(c) # {} ELSE t.sid # None
    /\ Begin(p, [Start("revoke", "object") EXCEPT !.of = c, !.token = t])
    /\ UNCHANGED <<clock, client, recent, object, tokens, seen>>

\* revokeFamilyById, or revokeSessionFamiliesOfClient.
revokeToken(p) ==
    LET ends == IF call[p].token = None THEN {call[p].of} ELSE BoundTo({call[p].token.sid}) IN
    /\ At(p, {"revoke"}, "object")
    /\ family' = RevokedFamilies(ends)
    /\ Answered(ends)
    /\ Respond(p)
    /\ UNCHANGED <<requests, clock, client, recent, user, session, code, tokens>>

\* GET /logout with an id_token_hint, of a client that is still known.
logoutHandler(s) ==
    /\ Served # {None} /\ code[s].consumed
    /\ revokeSessionRows({s})
    /\ Answered(BoundTo({s}))
    /\ UNCHANGED <<requests, clock, client, recent, user, code, tokens, call>>

-----------------------------------------------------------------------------
\* Mutant: a member of admins when the token was issued.
PrivilegedByToken(op, t) ==
    IF t.sub = "client" THEN \E r \in Authenticated : "admin" \in r.scopes_allowed
    ELSE ~user.disabled

\* Who may use the resource right now: getProfile of the user, or the record
\* served of a service client.
Privileged(op, t) ==
    IF t.sub = "client" THEN \E r \in Authenticated : "admin" \in r.scopes_allowed
    ELSE ~user.disabled /\ (op = "admin" => user.admins)

\* verifyOwnJwt: one of ours, without leeway on its expiry.
Unexpired == {t \in tokens : t.exp > clock}

\* The request begins with a token that verifies.
Present(p, op, t) ==
    /\ Begin(p, [Start(op, "guard") EXCEPT !.token = t, !.had =
           IF t.sub = "client" THEN \E r \in Authenticated : "admin" \in r.scopes_allowed
           ELSE ~user.disabled /\ (op = "admin" => user.admins)])
    /\ UNCHANGED <<clock, client, recent, object, tokens, seen>>

\* /userinfo, for the tokens of users.
userinfoHandler(p) == \E t \in Unexpired : t.sub = "user" /\ Present(p, "userinfo", t)

requireAccount(p) ==
    \E t \in Unexpired : t.sub = "user" /\ "account" \in t.scopes /\ Present(p, "me", t)

requireAdmin(p) == \E t \in Unexpired : "admin" \in t.scopes /\ Present(p, "admin", t)

\* The subject is asked about, and the request goes on or is refused.
admit(p) ==
    /\ At(p, {"userinfo", "me", "admin"}, "guard")
    /\ IF Privileged(call[p].op, call[p].token) THEN Goto(p, "act") ELSE Respond(p)
    /\ UNCHANGED <<requests, clock, client, recent, object, tokens, seen>>

\* The profile of the object, never claims of the token.
userinfo(p) ==
    /\ At(p, {"userinfo"}, "act")
    /\ Respond(p)
    /\ UNCHANGED <<requests, clock, client, recent, object, tokens, seen>>

-----------------------------------------------------------------------------
\* /api/v1/me: DELETE of a session, of the others or of all, and of the grant.
deleteSession(p) ==
    /\ At(p, {"me"}, "act")
    /\ \E s \in Codes : revokeSessionRows({s}) /\ Answered(BoundTo({s}))
    /\ Respond(p)
    /\ UNCHANGED <<requests, clock, client, recent, user, code, tokens>>

deleteSessions(p) ==
    /\ At(p, {"me"}, "act")
    /\ \E sids \in {Codes, Codes \ {call[p].token.sid}} :
           revokeSessionRows(sids) /\ Answered(BoundTo(sids))
    /\ Respond(p)
    /\ UNCHANGED <<requests, clock, client, recent, user, code, tokens>>

\* UserDO.revokeGrant: every family of the client.
revokeGrant == family' = RevokedFamilies(Codes) /\ Answered(Made) /\ UNCHANGED session

deleteGrant(p) ==
    /\ At(p, {"me"}, "act")
    /\ revokeGrant
    /\ Respond(p)
    /\ UNCHANGED <<requests, clock, client, recent, user, code, tokens>>

\* /api/v1/admin/users: the handlers that remove something of the object.
removeHandler(p) ==
    /\ At(p, {"admin"}, "act")
    /\ Respond(p)
    /\ UNCHANGED <<requests, clock, client, recent, user, code, tokens>>

removeSession(p) ==
    removeHandler(p) /\ \E s \in Codes : revokeSessionRows({s}) /\ Answered(BoundTo({s}))
removeSessions(p) == removeHandler(p) /\ revokeAll /\ Answered(Made)
removeFamily(p) ==
    removeHandler(p) /\ \E c \in Made : family' = RevokedFamilies({c}) /\ Answered({c}) /\ UNCHANGED session
removeFamiliesOfClient(p) ==
    removeHandler(p) /\ family' = RevokedFamilies(Codes) /\ Answered(Made) /\ UNCHANGED session
removeGrant(p) == removeHandler(p) /\ revokeGrant

\* A write that may entitle the requests in progress.
RespondEntitling(p) ==
    call' = [q \in Procs |-> IF q = p \/ call[q] = Idle THEN Idle ELSE [call[q] EXCEPT !.had = TRUE]]

\* The object's part of disabling, enabling and changing the groups of a user.
setDisabled(p) ==
    /\ At(p, {"admin"}, "act")
    /\ \/ /\ user' = [user EXCEPT !.disabled = TRUE]
          /\ revokeAll /\ Answered(Made) /\ Respond(p)
       \/ /\ user' = [user EXCEPT !.disabled = FALSE]
          /\ RespondEntitling(p) /\ UNCHANGED <<session, family, seen>>
    /\ UNCHANGED <<requests, clock, client, recent, code, tokens>>

setGroups(p) ==
    /\ At(p, {"admin"}, "act")
    /\ \/ user' = [user EXCEPT !.admins = TRUE] /\ RespondEntitling(p)
       \/ user' = [user EXCEPT !.admins = FALSE] /\ Respond(p)
    /\ UNCHANGED <<requests, clock, client, recent, session, code, family, tokens, seen>>

\* POST, PATCH and DELETE of the client.
writeClient(p) ==
    /\ At(p, {"admin"}, "act")
    /\ seen.writes < MaxWrites
    /\ \/ client = None /\ client' = [created_at |-> seen.writes + 2, disabled |-> FALSE,
                                      scopes_allowed |-> {"admin"}]
       \/ client # None /\ client' \in {[client EXCEPT !.disabled = ~@],
                                        [client EXCEPT !.scopes_allowed = {"admin"} \ @], None}
    /\ recent' = recent \cup {[record |-> client, until |-> clock]}
    /\ seen' = [seen EXCEPT !.writes = @ + 1]
    /\ RespondEntitling(p)
    /\ UNCHANGED <<requests, clock, object, tokens>>

-----------------------------------------------------------------------------
\* The isolate stops, and the tokens are not answered.  A request that is
\* refused or stops before it has called the object is one that never began.
stop(p) ==
    /\ At(p, {"code", "refresh", "client_credentials"}, "sign")
    /\ Respond(p)
    /\ UNCHANGED <<requests, clock, client, recent, object, tokens, seen>>

Tick ==
    /\ clock < MaxTime
    /\ clock' = clock + 1
    /\ recent' = {x \in recent : clock' - x.until < CACHE_TTL}
    /\ tokens' = {t \in tokens : t.exp > clock'}
    /\ UNCHANGED <<requests, client, object, call, seen>>

Token(p) ==
    \/ \E c \in Codes :
          \/ tokenHandler(p, "code", c, 0, {})
          \/ \E n \in Handles(c), requested \in {{"account", "admin"}, {"account"}} :
                tokenHandler(p, "refresh", c, n, requested)
          \/ disabledClientRefresh(p, c)
          \/ revokeHandler(p, c, None)
    \/ tokenHandler(p, "client_credentials", None, 0, {"admin"})
    \/ \E t \in Unexpired : revokeHandler(p, None, t)
    \/ readNow(p) \/ codeGrant(p) \/ exchangeCode(p) \/ refreshGrant(p)
    \/ userTokens(p) \/ clientToken(p) \/ revokeDisabled(p) \/ revokeToken(p)

Resource(p) ==
    \/ userinfoHandler(p) \/ requireAccount(p) \/ requireAdmin(p) \/ admit(p) \/ userinfo(p)
    \/ deleteSession(p) \/ deleteSessions(p) \/ deleteGrant(p)
    \/ removeSession(p) \/ removeSessions(p) \/ removeFamily(p) \/ removeFamiliesOfClient(p) \/ removeGrant(p)
    \/ setDisabled(p) \/ setGroups(p) \/ writeClient(p)

Next ==
    \/ \E p \in Procs : Token(p) \/ Resource(p) \/ stop(p)
    \/ \E s \in Codes : logoutHandler(s)
    \/ Tick

Spec == Init /\ [][Next]_vars

-----------------------------------------------------------------------------
\* The types of the variables.
TypeOK ==
    /\ {clock, requests, seen.writes} \subseteq Nat
    /\ client \in Client \cup {None}
    /\ recent \subseteq [record : Client \cup {None}, until : Nat]
    /\ user \in User
    /\ session \in [Codes -> Nat \cup {None}]
    /\ code \in [Codes -> Code]
    /\ family \in [Codes -> Family \cup {None}]
    /\ tokens \subseteq AccessToken
    /\ call \in [Procs -> Call \cup {Idle}]
    /\ seen \in [handed : [Codes -> Nat], ended : SUBSET Codes, writes : Nat]

\* What the client is told has ended stays ended: a family whose end was
\* answered by /revoke, /me, /admin, /logout or the refresh grant of a
\* disabled client is never live again, whatever refreshes, exchanges and
\* changes of the client are in flight (TIO-CLIENT-004, TIO-REV-002).
AnsweredEndHolds == \A c \in seen.ended : ~Live(family[c])

\* A token expires at most access_ttl after the session or the family it
\* comes from was revoked, however long its request takes to sign it: `now`
\* is taken before the object is asked.
RevokedWithinTtl ==
    \A t \in tokens :
        /\ t.sid # None /\ session[t.sid] # None => t.exp <= session[t.sid] + AccessTtl
        /\ t.of # None /\ family[t.of] # None /\ ~Live(family[t.of])
               => t.exp <= family[t.of].revoked_at + AccessTtl

\* A request admitted to /userinfo, /me or /admin was entitled at some time
\* since it began: as an enabled user, for /admin as a member of admins, or as
\* a service client with the admin scope less than CACHE_TTL before; a token
\* that outlived the privilege opens nothing (TIO-ADMIN-001, TIO-ME-001).
AdmittedIsEntitled == \A p \in Procs : At(p, {"userinfo", "me", "admin"}, "act") => call[p].had
=============================================================================
