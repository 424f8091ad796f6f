---------------------------- MODULE TokensProofs ----------------------------
(* Machine-checked theorems about Tokens, for every value of its constants. *)
EXTENDS Tokens, TLAPS

-----------------------------------------------------------------------------
(* The inductive invariant.                                                *)

\* A code is consumed before a family is made of it, a refresh token handed out for it,
\* or the end of its family answered: no later exchange makes the family live again.
SpentFirst ==
    \A c \in Codes :
        family[c] # None \/ seen.handed[c] # 0 \/ c \in seen.ended => code[c].consumed

\* A request that is about to end a family it knows by a refresh token, or to sign tokens
\* of a user.
EndsFamily(q) == q.op = "disabled" \/ (q.op = "revoke" /\ q.token = None)
SignsForUser(q) == q.pc = "sign" /\ q.of # None

\* The time a token is to expire counts from is not past a revocation of its session ...
NotPastSession(q) ==
    q.kind # "offline" /\ session[q.of] # None => q.now <= session[q.of]

\* ... nor of its family.
NotPastFamily(q) ==
    family[q.of] # None /\ ~Live(family[q.of]) => q.now <= family[q.of].revoked_at

\* What each request in progress relies on.
CallOk(q) ==
    /\ q.now <= clock
    /\ q.op \in {"code", "refresh", "disabled"} => q.of \in Codes
    /\ q.op \in {"userinfo", "me", "admin"} => q.token # None
    /\ q.op = "client_credentials" => q.of = None
    /\ q.op = "revoke" /\ q.token = None => q.of \in Codes
    /\ q.op = "revoke" /\ q.token # None => q.token.sid # None
    /\ EndsFamily(q) => code[q.of].consumed
    /\ SignsForUser(q) => code[q.of].consumed /\ NotPastSession(q) /\ NotPastFamily(q)
    /\ q.pc = "guard" /\ Privileged(q.op, q.token) => q.had
    /\ q.pc = "act" => q.had

CallsOk == \A p \in Procs : call[p] # Idle => CallOk(call[p])

TokensFresh == \A t \in tokens : t.exp <= clock + AccessTtl

IInv == SpentFirst /\ CallsOk /\ TokensFresh /\ AnsweredEndHolds /\ RevokedWithinTtl

Inv == TypeOK /\ IInv

-----------------------------------------------------------------------------
(* What a step may do to the object, and what the requests in progress     *)
(* and the tokens keep across it.                                          *)

\* A session is revoked once; a code stays consumed; a family is left alone, deleted, or
\* revoked now, and is live afterwards only if it was or if its code is being spent.
ObjectStep ==
    /\ clock' = clock
    /\ \A c \in Codes :
          /\ session'[c] = session[c] \/ (session[c] = None /\ session'[c] = clock)
          /\ code[c].consumed => code'[c].consumed
          /\ \/ family'[c] = family[c] \/ family'[c] = None
             \/ Live(family[c]) /\ family'[c].revoked_at = clock
             \/ Live(family'[c]) /\ (Live(family[c]) \/ ~code[c].consumed)

\* Nobody is entitled to more than before.
NoGain ==
    /\ user.disabled => user'.disabled
    /\ user'.admins => user.admins
    /\ Authenticated' \subseteq Authenticated

\* What the clock is not.
LEMMA TimeIsNotNull == ASSUME NEW n \in Nat PROVE n # None
BY NoneAssumption

\* Privileges that nobody gained.
LEMMA GainsNothing ==
    ASSUME NoGain, NEW op, NEW t, Privileged(op, t)'
    PROVE  Privileged(op, t)
BY DEF NoGain, Privileged

\* A request goes on relying on what it relied on, as long as it is not entitled anew.
LEMMA CallKept ==
    ASSUME TypeOK, ObjectStep, NEW q \in Call, CallOk(q), NoGain \/ q.had
    PROVE  CallOk(q)'
<1>1. clock \in Nat /\ clock # None /\ clock' = clock
  BY TimeIsNotNull DEF TypeOK, ObjectStep
<1>2. q.pc = "guard" /\ Privileged(q.op, q.token)' => q.had
  BY GainsNothing DEF CallOk
<1>3. ASSUME q.of \in Codes, code[q.of].consumed PROVE code'[q.of].consumed
  BY <1>3 DEF ObjectStep
<1>4. EndsFamily(q) => code'[q.of].consumed
  BY <1>3 DEF CallOk, EndsFamily
<1>5. ASSUME SignsForUser(q)
      PROVE  code'[q.of].consumed /\ NotPastSession(q)' /\ NotPastFamily(q)'
  <2>1. q.of \in Codes /\ q.now \in Nat /\ q.now <= clock
    BY <1>5 DEF Call, CallOk, SignsForUser
  <2>2. code[q.of].consumed /\ NotPastSession(q) /\ NotPastFamily(q)
    BY <1>5 DEF CallOk
  <2>3. NotPastSession(q)'
    BY <1>1, <2>1, <2>2 DEF ObjectStep, NotPastSession
  <2>4. NotPastFamily(q)'
    BY <1>1, <2>1, <2>2 DEF ObjectStep, NotPastFamily, Live
  <2> QED  BY <1>3, <2>1, <2>2, <2>3, <2>4
<1> QED  BY <1>1, <1>2, <1>4, <1>5 DEF CallOk, EndsFamily, SignsForUser

\* What a token relies on.
TokenOk(t) ==
    /\ t.exp <= clock + AccessTtl
    /\ t.sid # None /\ session[t.sid] # None => t.exp <= session[t.sid] + AccessTtl
    /\ t.of # None /\ family[t.of] # None /\ ~Live(family[t.of])
           => t.exp <= family[t.of].revoked_at + AccessTtl

\* It goes on doing so.
LEMMA TokenKept ==
    ASSUME TypeOK, ObjectStep, NEW t \in AccessToken, TokenOk(t)
    PROVE  TokenOk(t)'
<1>1. clock \in Nat /\ clock # None /\ clock' = clock /\ t.exp <= clock + AccessTtl
  BY TimeIsNotNull DEF TypeOK, ObjectStep, TokenOk
<1>2. ASSUME t.sid # None, session'[t.sid] # None
      PROVE  t.exp <= session'[t.sid] + AccessTtl
  <2>1. t.sid \in Codes
    BY <1>2 DEF AccessToken
  <2> QED  BY <1>1, <1>2, <2>1 DEF ObjectStep, TokenOk
<1>3. ASSUME t.of # None, family'[t.of] # None, ~Live(family'[t.of])
      PROVE  t.exp <= family'[t.of].revoked_at + AccessTtl
  <2>1. t.of \in Codes
    BY <1>3 DEF AccessToken
  <2> QED  BY <1>1, <1>3, <2>1 DEF ObjectStep, TokenOk
<1> QED  BY <1>1, <1>2, <1>3 DEF TokenOk

\* The invariant, by its parts.
LEMMA Parts ==
    Inv <=> /\ TypeOK /\ SpentFirst /\ AnsweredEndHolds
            /\ \A p \in Procs : call[p] # Idle => CallOk(call[p])
            /\ \A t \in tokens : TokenOk(t)
BY DEF Inv, IInv, CallsOk, TokensFresh, RevokedWithinTtl, TokenOk

\* What is true of the codes: a family made, a token handed out, an end answered.
Spent(c) == family[c] # None \/ seen.handed[c] # 0 \/ c \in seen.ended

\* A step of the object that spends codes before it uses them keeps the invariant, when
\* the requests and the tokens it adds are right.
LEMMA StepKeeps ==
    ASSUME Inv, TypeOK', ObjectStep,
           \A c \in Codes : Spent(c)' => Spent(c) \/ code'[c].consumed,
           \A c \in seen'.ended : c \in seen.ended \/ ~Live(family'[c]),
           \A p \in Procs : call'[p] # Idle =>
               CallOk(call[p])' \/ (call[p] # Idle /\ call'[p] = call[p] /\ NoGain),
           \A t \in tokens' : t \in tokens \/ TokenOk(t)'
    PROVE  Inv'
<1>0. /\ TypeOK /\ SpentFirst /\ AnsweredEndHolds
      /\ \A p \in Procs : call[p] # Idle => CallOk(call[p])
      /\ \A t \in tokens : TokenOk(t)
  BY Parts
<1>1. SpentFirst'
  BY <1>0 DEF SpentFirst, Spent, ObjectStep
<1>2. AnsweredEndHolds'
  BY <1>0 DEF AnsweredEndHolds, ObjectStep, SpentFirst, Live, TypeOK
<1>3. ASSUME NEW p \in Procs, call'[p] # Idle PROVE CallOk(call[p])'
  <2>1. CASE call[p] # Idle /\ call'[p] = call[p] /\ NoGain
    <3>1. call[p] \in Call
      BY <2>1 DEF TypeOK, Inv
    <3> DEFINE q == call[p]
    <3>2. CallOk(q)
      BY <1>0, <2>1
    <3> QED  BY <1>0, <2>1, <3>1, <3>2, CallKept
  <2> QED  BY <1>3, <2>1
<1>4. ASSUME NEW t \in tokens' PROVE TokenOk(t)'
  <2>1. t \in tokens => t \in AccessToken
    BY <1>0 DEF TypeOK
  <2> QED  BY <1>0, <1>4, <2>1, TokenKept
<1> QED  BY <1>1, <1>2, <1>3, <1>4
         DEF Inv, IInv, CallsOk, TokensFresh, RevokedWithinTtl, TokenOk

-----------------------------------------------------------------------------
(* The steps of a request that leave the object alone.                     *)

\* Nothing changes but one request.
LEMMA CallStepKeeps ==
    ASSUME Inv, NEW p \in Procs, NEW q, call' = [call EXCEPT ![p] = q],
           q # Idle => q \in Call /\ CallOk(q), requests' \in Nat,
           UNCHANGED <<clock, client, recent, object, tokens, seen>>
    PROVE  Inv'
<1>0. TypeOK
  BY DEF Inv
<1>1. UNCHANGED <<clock, client, recent, user, session, code, family, tokens, seen>>
  BY DEF object
<1>2. call \in [Procs -> Call \cup {Idle}] /\ call' \in [Procs -> Call \cup {Idle}]
  BY <1>0 DEF TypeOK
<1>3. TypeOK'
  BY <1>0, <1>1, <1>2 DEF TypeOK
<1>4. ObjectStep /\ NoGain
  BY <1>1 DEF ObjectStep, NoGain, Authenticated, Served
<1>5. q # Idle => CallOk(q)'
  BY <1>0, <1>4, CallKept
<1>6. \A r \in Procs : call'[r] # Idle =>
          CallOk(call[r])' \/ (call[r] # Idle /\ call'[r] = call[r] /\ NoGain)
  BY <1>2, <1>4, <1>5
<1>7. \A c \in Codes : Spent(c)' => Spent(c) \/ code'[c].consumed
  BY <1>1 DEF Spent
<1> QED  BY <1>1, <1>3, <1>4, <1>6, <1>7, StepKeeps

\* A request that answers.
LEMMA RespondKeeps ==
    ASSUME Inv, NEW p \in Procs, Respond(p),
           UNCHANGED <<requests, clock, client, recent, object, tokens, seen>>
    PROVE  Inv'
<1>1. requests' \in Nat
  BY DEF Inv, TypeOK
<1> QED  BY Zenon, <1>1, CallStepKeeps DEF Respond

\* The record a request starts from.
LEMMA StartTyped ==
    ASSUME NEW op \in {"code", "refresh", "client_credentials", "disabled", "revoke", "userinfo",
                       "me", "admin"},
           NEW pc \in {"now", "object", "guard"}
    PROVE  Start(op, pc) \in Call
BY DEF Start, Call

\* A request begins.
LEMMA BeginKeeps ==
    ASSUME Inv, NEW p \in Procs, NEW q \in Call, CallOk(q), Begin(p, q),
           UNCHANGED <<clock, client, recent, object, tokens, seen>>
    PROVE  Inv'
<1>1. call' = [call EXCEPT ![p] = q] /\ requests' \in Nat
  BY DEF Begin, Inv, TypeOK
<1> QED  BY Zenon, <1>1, CallStepKeeps

\* A served record is a record.
LEMMA ServedTyped == ASSUME TypeOK, NEW r \in Served \ {None} PROVE r \in Client
BY DEF TypeOK, Served

\* A refresh token is handed out only for a code that was consumed.
LEMMA HandedIsSpent ==
    ASSUME Inv, NEW c \in Codes, Handles(c) # {}
    PROVE  code[c].consumed
<1>1. seen.handed[c] # 0
  BY DEF Handles, Inv, TypeOK
<1> QED  BY <1>1 DEF Inv, IInv, SpentFirst

\* POST /token begins.
LEMMA TokenHandlerKeeps ==
    ASSUME Inv, NEW p \in Procs, NEW grant \in {"code", "refresh", "client_credentials"},
           NEW c \in Codes \cup {None}, grant = "client_credentials" => c = None,
           grant # "client_credentials" => c \in Codes,
           NEW n \in Nat, NEW requested \in SUBSET {"account", "admin"},
           tokenHandler(p, grant, c, n, requested)
    PROVE  Inv'
<1>1. PICK r \in Authenticated :
          Begin(p, [Start(grant, "now") EXCEPT !.of = c, !.serial = n, !.scopes = requested,
                                               !.created_at = r.created_at])
  BY Zenon DEF tokenHandler
<1>2. r.created_at \in Nat
  BY <1>1, ServedTyped DEF Authenticated, Client, Inv
<1> DEFINE q == [Start(grant, "now") EXCEPT !.of = c, !.serial = n, !.scopes = requested,
                                            !.created_at = r.created_at]
<1>3. q \in Call
  BY Zenon, <1>2 DEF Start, Call
<1>4. q.op = grant /\ q.pc = "now" /\ q.of = c /\ q.now = 0
  BY DEF Start
<1> HIDE DEF q
<1>5. CallOk(q)
  BY <1>4 DEF CallOk, EndsFamily, SignsForUser, Inv, TypeOK
<1> QED  BY <1>1, <1>3, <1>5, BeginKeeps DEF tokenHandler, q

\* So does the refresh grant of a disabled client ...
LEMMA DisabledRefreshKeeps ==
    ASSUME Inv, NEW p \in Procs, NEW c \in Codes, disabledClientRefresh(p, c) PROVE Inv'
<1> DEFINE q == [Start("disabled", "object") EXCEPT !.of = c]
<1>1. q \in Call /\ q.op = "disabled" /\ q.pc = "object" /\ q.of = c /\ q.now = 0
  BY Zenon DEF Start, Call
<1>2. code[c].consumed
  BY HandedIsSpent DEF disabledClientRefresh
<1> HIDE DEF q
<1>3. CallOk(q)
  BY <1>1, <1>2 DEF CallOk, EndsFamily, SignsForUser, Inv, TypeOK
<1> QED  BY <1>1, <1>3, BeginKeeps DEF disabledClientRefresh, q

\* ... and POST /revoke, of a refresh token ...
LEMMA RevokeHandlerKeeps ==
    ASSUME Inv, NEW p \in Procs, NEW c \in Codes, revokeHandler(p, c, None) PROVE Inv'
<1> DEFINE q == [Start("revoke", "object") EXCEPT !.of = c, !.token = None]
<1>1. q \in Call /\ q.op = "revoke" /\ q.pc = "object" /\ q.of = c /\ q.now = 0 /\ q.token = None
  BY Zenon DEF Start, Call
<1>2. code[c].consumed
  BY HandedIsSpent DEF revokeHandler
<1> HIDE DEF q
<1>3. CallOk(q)
  BY <1>1, <1>2 DEF CallOk, EndsFamily, SignsForUser, Inv, TypeOK
<1> QED  BY <1>1, <1>3, BeginKeeps DEF revokeHandler, q

\* ... or of an access token.
LEMMA RevokeAccessKeeps ==
    ASSUME Inv, NEW p \in Procs, NEW t \in Unexpired, revokeHandler(p, None, t) PROVE Inv'
<1>0. t \in AccessToken /\ t # None
  BY NoneAssumption DEF Unexpired, Inv, TypeOK
<1> DEFINE q == [Start("revoke", "object") EXCEPT !.of = None, !.token = t]
<1>1. q \in Call /\ q.op = "revoke" /\ q.pc = "object" /\ q.now = 0 /\ q.token = t
  BY Zenon, <1>0 DEF Start, Call
<1> HIDE DEF q
<1>2. CallOk(q)
  BY <1>0, <1>1 DEF CallOk, EndsFamily, SignsForUser, Inv, TypeOK, revokeHandler
<1> QED  BY <1>1, <1>2, BeginKeeps DEF revokeHandler, q

\* The request takes the time, before the object is asked ...
LEMMA ReadNowKeeps == ASSUME Inv, NEW p \in Procs, readNow(p) PROVE Inv'
<1>0. /\ call[p] \in Call /\ CallOk(call[p]) /\ clock \in Nat /\ requests' \in Nat
      /\ call[p].op \in {"code", "refresh", "client_credentials"}
  BY DEF readNow, At, Inv, IInv, CallsOk, TypeOK
<1> DEFINE q == [call[p] EXCEPT
                   !.now = clock,
                   !.created_at = IF call[p].op = "client_credentials" THEN 0 ELSE @,
                   !.pc = IF call[p].op = "client_credentials" THEN "sign" ELSE "object"]
<1>1. q \in Call
  BY Zenon, <1>0 DEF Call
<1>2. /\ q.op = call[p].op /\ q.of = call[p].of /\ q.now = clock
      /\ q.pc = IF call[p].op = "client_credentials" THEN "sign" ELSE "object"
  BY <1>0 DEF Call
<1>3. call' = [call EXCEPT ![p] = q]
  BY Zenon DEF readNow
<1> HIDE DEF q
<1>4. CallOk(q)
  BY <1>0, <1>2 DEF CallOk, EndsFamily, SignsForUser
<1> QED  BY Zenon, <1>0, <1>1, <1>3, <1>4, CallStepKeeps DEF readNow

\* ... and the user row, before the hash of the verifier is awaited.
LEMMA CodeGrantKeeps == ASSUME Inv, NEW p \in Procs, codeGrant(p) PROVE Inv'
<1>0. /\ call[p] \in Call /\ CallOk(call[p]) /\ user \in User /\ requests' \in Nat
      /\ call[p].op = "code"
  BY DEF codeGrant, At, Inv, IInv, CallsOk, TypeOK
<1> DEFINE q == [call[p] EXCEPT !.pc = "exchange", !.user = user]
<1>1. q \in Call
  BY Zenon, <1>0 DEF Call
<1>2. /\ q.op = "code" /\ q.of = call[p].of /\ q.now = call[p].now /\ q.pc = "exchange"
      /\ q.user = user
  BY <1>0 DEF Call
<1>3. call' = [call EXCEPT ![p] = q]
  BY Zenon DEF codeGrant
<1> HIDE DEF q
<1>4. CallOk(q)
  BY Zenon, <1>0, <1>2 DEF CallOk, EndsFamily, SignsForUser
<1> QED  BY Zenon, <1>0, <1>1, <1>3, <1>4, CallStepKeeps DEF codeGrant

\* A token is presented.
LEMMA PresentKeeps ==
    ASSUME Inv, NEW p \in Procs, NEW op \in {"userinfo", "me", "admin"}, NEW t \in Unexpired,
           Present(p, op, t)
    PROVE  Inv'
<1>0. t \in AccessToken /\ t # None
  BY NoneAssumption DEF Unexpired, Inv, TypeOK
<1> DEFINE had == IF t.sub = "client" THEN \E r \in Authenticated : "admin" \in r.scopes_allowed
                  ELSE ~user.disabled /\ (op = "admin" => user.admins)
           q == [Start(op, "guard") EXCEPT !.token = t, !.had = had]
<1>1. had \in BOOLEAN /\ (had <=> Privileged(op, t))
  BY Zenon DEF Privileged
<1> HIDE DEF had
<1>2. q \in Call /\ q.op = op /\ q.pc = "guard" /\ q.now = 0 /\ q.token = t /\ q.had = had
  BY Zenon, <1>0, <1>1 DEF Start, Call
<1>3. Begin(p, q)
  BY DEF Present, had
<1> HIDE DEF q
<1>4. CallOk(q)
  BY <1>0, <1>1, <1>2 DEF CallOk, EndsFamily, SignsForUser, Inv, TypeOK
<1> QED  BY <1>2, <1>3, <1>4, BeginKeeps DEF Present

\* The subject of the token is asked about.
LEMMA AdmitKeeps == ASSUME Inv, NEW p \in Procs, admit(p) PROVE Inv'
<1>0. /\ call[p] \in Call /\ CallOk(call[p]) /\ requests' \in Nat
      /\ call[p].op \in {"userinfo", "me", "admin"} /\ call[p].pc = "guard"
  BY DEF admit, At, Inv, IInv, CallsOk, TypeOK
<1> DEFINE q == [call[p] EXCEPT !.pc = "act"]
<1>1. CASE Privileged(call[p].op, call[p].token)
  <2>1. q \in Call
    BY <1>0 DEF Call
  <2>2. /\ q.op = call[p].op /\ q.of = call[p].of /\ q.now = call[p].now /\ q.pc = "act"
        /\ q.token = call[p].token /\ q.had = call[p].had
    BY <1>0 DEF Call
  <2>3. call' = [call EXCEPT ![p] = q]
    BY <1>1 DEF admit, Goto
  <2> HIDE DEF q
  <2>4. CallOk(q)
    BY Zenon, <1>0, <1>1, <2>2 DEF CallOk, EndsFamily, SignsForUser
  <2> QED  BY Zenon, <1>0, <2>1, <2>3, <2>4, CallStepKeeps DEF admit
<1>2. CASE ~Privileged(call[p].op, call[p].token)
  BY <1>2, RespondKeeps DEF admit
<1> QED  BY <1>1, <1>2

\* /userinfo answers, or the isolate stops before the tokens are answered.
LEMMA AnswersKeep == ASSUME Inv, NEW p \in Procs, userinfo(p) \/ stop(p) PROVE Inv'
BY RespondKeeps DEF userinfo, stop

-----------------------------------------------------------------------------
(* The steps that revoke.                                                  *)

\* The families that are revoked stay families, and end.
LEMMA RevokedTyped ==
    ASSUME TypeOK, NEW ends, family' = RevokedFamilies(ends)
    PROVE  /\ family' \in [Codes -> Family \cup {None}]
           /\ \A c \in Codes : \/ family'[c] = family[c]
                               \/ Live(family[c]) /\ family'[c].revoked_at = clock
           /\ \A c \in Codes \cap ends : ~Live(family'[c])
<1>1. clock \in Nat /\ clock # None
  BY TimeIsNotNull DEF TypeOK
<1>2. family \in [Codes -> Family \cup {None}]
  BY DEF TypeOK
<1>3. ASSUME NEW c \in Codes, c \in ends, Live(family[c])
      PROVE  family'[c] \in Family /\ family'[c].revoked_at = clock /\ ~Live(family'[c])
  <2>1. family[c] \in Family /\ family'[c] = [family[c] EXCEPT !.revoked_at = clock]
    BY <1>2, <1>3 DEF RevokedFamilies, Live
  <2> QED  BY <1>1, <2>1 DEF Family, Live
<1>4. ASSUME NEW c \in Codes, c \notin ends \/ ~Live(family[c])
      PROVE  family'[c] = family[c]
  BY <1>4 DEF RevokedFamilies
<1>5. \A c \in Codes : family'[c] \in Family \cup {None}
  BY <1>2, <1>3, <1>4
<1>6. family' \in [Codes -> Family \cup {None}]
  BY <1>5 DEF RevokedFamilies
<1> QED  BY <1>3, <1>4, <1>6

\* Sessions are revoked, or left as they are.
SessionStep ==
    /\ session' \in [Codes -> Nat \cup {None}]
    /\ \A c \in Codes : session'[c] = session[c] \/ (session[c] = None /\ session'[c] = clock)

\* A request answers, or none does.
Answering == \E p \in Procs : call' = [call EXCEPT ![p] = Idle]

\* Families are revoked, and the end of some of them is answered.
LEMMA RevocationKeeps ==
    ASSUME Inv, NEW ends, NEW told, told \subseteq ends \cap Codes,
           \A c \in told : code[c].consumed,
           family' = RevokedFamilies(ends), SessionStep,
           seen' = [seen EXCEPT !.ended = @ \cup told], Answering \/ UNCHANGED call,
           user' \in User, user.disabled => user'.disabled, user'.admins => user.admins,
           UNCHANGED <<requests, clock, client, recent, code, tokens>>
    PROVE  Inv'
<1>0. TypeOK
  BY DEF Inv
<1>1. /\ family' \in [Codes -> Family \cup {None}]
      /\ \A c \in Codes : \/ family'[c] = family[c]
                          \/ Live(family[c]) /\ family'[c].revoked_at = clock
      /\ \A c \in Codes \cap ends : ~Live(family'[c])
  BY <1>0, RevokedTyped
<1>2. /\ seen' \in [handed : [Codes -> Nat], ended : SUBSET Codes, writes : Nat]
      /\ seen'.handed = seen.handed /\ seen'.ended = seen.ended \cup told
      /\ seen'.writes = seen.writes
  BY <1>0 DEF TypeOK
<1>3. /\ call' \in [Procs -> Call \cup {Idle}]
      /\ \A p \in Procs : call'[p] = Idle \/ call'[p] = call[p]
  BY <1>0 DEF TypeOK, Answering
<1>4. TypeOK'
  BY <1>0, <1>1, <1>2, <1>3 DEF TypeOK, SessionStep
<1>5. ObjectStep
  BY <1>1 DEF ObjectStep, SessionStep
<1>6. NoGain
  BY DEF NoGain, Authenticated, Served
<1>7. \A c \in Codes : Spent(c)' => Spent(c) \/ code'[c].consumed
  BY <1>1, <1>2 DEF Spent, Live
<1>8. \A c \in seen'.ended : c \in seen.ended \/ ~Live(family'[c])
  BY <1>1, <1>2
<1>9. \A p \in Procs : call'[p] # Idle =>
          CallOk(call[p])' \/ (call[p] # Idle /\ call'[p] = call[p] /\ NoGain)
  BY <1>3, <1>6
<1>10. \A t \in tokens' : t \in tokens \/ TokenOk(t)'
  OBVIOUS
<1> QED  BY <1>4, <1>5, <1>7, <1>8, <1>9, <1>10, StepKeeps

\* The sessions and what is bound to them.
LEMMA RevokeRowsShape ==
    ASSUME Inv, NEW sids, sids \subseteq Codes, revokeSessionRows(sids)
    PROVE  /\ SessionStep /\ family' = RevokedFamilies(BoundTo(sids))
           /\ BoundTo(sids) \subseteq Codes
           /\ \A c \in BoundTo(sids) : code[c].consumed
<1>1. clock \in Nat /\ session \in [Codes -> Nat \cup {None}]
  BY DEF Inv, TypeOK
<1>2. SessionStep
  BY <1>1 DEF revokeSessionRows, SessionStep
<1>3. \A c \in BoundTo(sids) : c \in Codes /\ family[c] # None
  BY DEF BoundTo
<1> QED  BY <1>2, <1>3 DEF revokeSessionRows, Inv, IInv, SpentFirst

\* Every family, whichever the reason.
LEMMA MadeIsSpent ==
    ASSUME Inv PROVE Made \subseteq Codes /\ \A c \in Made : code[c].consumed
BY DEF Made, Inv, IInv, SpentFirst

\* Nothing else changes.
LEMMA SameRest ==
    ASSUME Inv, UNCHANGED <<requests, clock, client, recent, user, code, tokens>>
    PROVE  /\ user' \in User /\ (user.disabled => user'.disabled) /\ (user'.admins => user.admins)
           /\ UNCHANGED <<requests, clock, client, recent, code, tokens>>
BY DEF Inv, TypeOK

\* The refresh grant of a disabled client, and /revoke.
LEMMA RevokeDisabledKeeps == ASSUME Inv, NEW p \in Procs, revokeDisabled(p) PROVE Inv'
<1>1. CallOk(call[p]) /\ call[p].op = "disabled"
  BY DEF revokeDisabled, At, Inv, IInv, CallsOk
<1>2. call[p].of \in Codes /\ code[call[p].of].consumed
  BY Zenon, <1>1 DEF CallOk, EndsFamily
<1>3. SessionStep /\ Answering
  BY Zenon DEF revokeDisabled, SessionStep, Answering, Respond, Inv, TypeOK
<1> QED  BY <1>2, <1>3, SameRest, RevocationKeeps DEF revokeDisabled, Answered

\* /revoke: the family of the refresh token, or those of the session.
LEMMA RevokeTokenKeeps == ASSUME Inv, NEW p \in Procs, revokeToken(p) PROVE Inv'
<1>1. call[p] \in Call /\ CallOk(call[p]) /\ call[p].op = "revoke"
  BY DEF revokeToken, At, Inv, IInv, CallsOk, TypeOK
<1> DEFINE ends == IF call[p].token = None THEN {call[p].of} ELSE BoundTo({call[p].token.sid})
<1>2. ends \subseteq Codes /\ \A c \in ends : code[c].consumed
  <2>1. CASE call[p].token = None
    BY Zenon, <1>1, <2>1 DEF CallOk, EndsFamily
  <2>2. CASE call[p].token # None
    <3>1. call[p].token.sid \in Codes
      BY Zenon, <1>1, <2>2 DEF CallOk, Call, AccessToken
    <3> QED  BY <2>2, <3>1 DEF BoundTo, Inv, IInv, SpentFirst
  <2> QED  BY Zenon, <2>1, <2>2
<1>3. SessionStep /\ Answering
  BY Zenon DEF revokeToken, SessionStep, Answering, Respond, Inv, TypeOK
<1>4. family' = RevokedFamilies(ends) /\ seen' = [seen EXCEPT !.ended = @ \cup ends]
  BY DEF revokeToken, Answered
<1> HIDE DEF ends
<1> QED  BY Zenon, <1>2, <1>3, <1>4, SameRest, RevocationKeeps DEF revokeToken

\* Sessions that end, by whichever request.
LEMMA EndSessionsKeeps ==
    ASSUME Inv, NEW sids, sids \subseteq Codes, revokeSessionRows(sids), Answered(BoundTo(sids)),
           Answering \/ UNCHANGED call,
           UNCHANGED <<requests, clock, client, recent, user, code, tokens>>
    PROVE  Inv'
<1> DEFINE ends == BoundTo(sids)
<1>1. /\ SessionStep /\ family' = RevokedFamilies(ends) /\ ends \subseteq ends \cap Codes
      /\ \A c \in ends : code[c].consumed
  BY RevokeRowsShape
<1>2. seen' = [seen EXCEPT !.ended = @ \cup ends]
  BY DEF Answered
<1> HIDE DEF ends
<1> QED  BY <1>1, <1>2, SameRest, RevocationKeeps

\* Every family of the client.
LEMMA EndFamiliesKeeps ==
    ASSUME Inv, NEW ends, NEW told, told \subseteq Made, told \subseteq ends,
           family' = RevokedFamilies(ends), Answered(told), SessionStep, Answering,
           UNCHANGED <<requests, clock, client, recent, user, code, tokens>>
    PROVE  Inv'
<1>1. told \subseteq ends \cap Codes /\ \A c \in told : code[c].consumed
  BY MadeIsSpent
<1> QED  BY Zenon, <1>1, SameRest, RevocationKeeps DEF Answered

\* Self-service and administration: sessions, families and grants.
LEMMA RemovalsKeep ==
    ASSUME Inv, NEW p \in Procs,
           \/ deleteSession(p) \/ deleteSessions(p) \/ deleteGrant(p) \/ removeSession(p)
           \/ removeSessions(p) \/ removeFamily(p) \/ removeFamiliesOfClient(p) \/ removeGrant(p)
    PROVE  Inv'
<1>1. Answering /\ UNCHANGED <<requests, clock, client, recent, user, code, tokens>>
  BY Zenon DEF Answering, Respond, deleteSession, deleteSessions, deleteGrant, removeSession,
         removeSessions, removeFamily, removeFamiliesOfClient, removeGrant, removeHandler
<1>2. CASE deleteSession(p) \/ removeSession(p)
  <2>1. PICK s \in Codes : revokeSessionRows({s}) /\ Answered(BoundTo({s}))
    BY Zenon, <1>2 DEF deleteSession, removeSession
  <2> QED  BY <1>1, <2>1, EndSessionsKeeps
<1>3. CASE deleteSessions(p)
  <2>1. PICK sids \in {Codes, Codes \ {call[p].token.sid}} :
            revokeSessionRows(sids) /\ Answered(BoundTo(sids))
    BY <1>3 DEF deleteSessions
  <2> QED  BY <1>1, <2>1, EndSessionsKeeps
<1>4. UNCHANGED session => SessionStep
  BY DEF SessionStep, Inv, TypeOK
<1>5. Made \subseteq Codes
  BY MadeIsSpent
<1>6. CASE deleteGrant(p) \/ removeFamiliesOfClient(p) \/ removeGrant(p)
  <2>1. family' = RevokedFamilies(Codes) /\ Answered(Made) /\ UNCHANGED session
    BY <1>6 DEF deleteGrant, removeFamiliesOfClient, removeGrant, revokeGrant
  <2> QED  BY <1>1, <1>4, <1>5, <2>1, EndFamiliesKeeps
<1>7. CASE removeFamily(p)
  <2>1. PICK c \in Made : family' = RevokedFamilies({c}) /\ Answered({c}) /\ UNCHANGED session
    BY <1>7 DEF removeFamily
  <2> QED  BY <1>1, <1>4, <2>1, EndFamiliesKeeps
<1>8. CASE removeSessions(p)
  <2>1. family' = RevokedFamilies(Codes) /\ Answered(Made) /\ revokeAll
    BY <1>8 DEF removeSessions, revokeAll
  <2>2. SessionStep
    BY <2>1 DEF revokeAll, SessionStep, Inv, TypeOK
  <2> QED  BY <1>1, <1>5, <2>1, <2>2, EndFamiliesKeeps
<1> QED  BY <1>2, <1>3, <1>6, <1>7, <1>8

\* GET /logout.
LEMMA LogoutKeeps == ASSUME Inv, NEW s \in Codes, logoutHandler(s) PROVE Inv'
BY EndSessionsKeeps DEF logoutHandler

-----------------------------------------------------------------------------
(* The grants.                                                             *)

\* A step of one request on the object.
LEMMA GrantStepKeeps ==
    ASSUME Inv, NEW p \in Procs, NEW q, call' = [call EXCEPT ![p] = q],
           q # Idle => q \in Call /\ CallOk(q)', ObjectStep,
           session' \in [Codes -> Nat \cup {None}], code' \in [Codes -> Code],
           family' \in [Codes -> Family \cup {None}],
           \A d \in Codes : family'[d] # None => family[d] # None \/ code'[d].consumed,
           UNCHANGED <<requests, clock, client, recent, user, tokens, seen>>
    PROVE  Inv'
<1>0. TypeOK
  BY DEF Inv
<1>1. call' \in [Procs -> Call \cup {Idle}] /\ \A r \in Procs \ {p} : call'[r] = call[r]
  BY <1>0 DEF TypeOK
<1>2. TypeOK'
  BY <1>0, <1>1 DEF TypeOK
<1>3. NoGain
  BY DEF NoGain, Authenticated, Served
<1>4. call'[p] = q
  BY <1>0 DEF TypeOK
<1>5. \A r \in Procs : call'[r] # Idle =>
          CallOk(call[r])' \/ (call[r] # Idle /\ call'[r] = call[r] /\ NoGain)
  BY <1>1, <1>3, <1>4
<1>6. \A d \in Codes : Spent(d)' => Spent(d) \/ code'[d].consumed
  BY DEF Spent
<1>7. \A d \in seen'.ended : d \in seen.ended \/ ~Live(family'[d])
  OBVIOUS
<1>8. \A t \in tokens' : t \in tokens \/ TokenOk(t)'
  OBVIOUS
<1> QED  BY Zenon, <1>2, <1>5, <1>6, <1>7, <1>8, StepKeeps

\* A replay, or a consumed refresh token, ends families without saying so.
LEMMA SilentEndKeeps ==
    ASSUME Inv, NEW p \in Procs, NEW ends, family' = RevokedFamilies(ends), SessionStep,
           Respond(p), UNCHANGED <<requests, clock, client, recent, user, code, tokens, seen>>
    PROVE  Inv'
<1>1. seen' = [seen EXCEPT !.ended = @ \cup {}]
  BY DEF Inv, TypeOK
<1>2. Answering
  BY Zenon DEF Answering, Respond
<1> DEFINE told == {}
<1>3. told \subseteq ends \cap Codes /\ \A c \in told : code[c].consumed
  OBVIOUS
<1>4. seen' = [seen EXCEPT !.ended = @ \cup told]
  BY Zenon, <1>1
<1> HIDE DEF told
<1> QED  BY Zenon, <1>2, <1>3, <1>4, SameRest, RevocationKeeps

\* A code is spent.
LEMMA CodeSpent ==
    ASSUME code \in [Codes -> Code], NEW c \in Codes, code' = [code EXCEPT ![c].consumed = TRUE]
    PROVE  /\ code' \in [Codes -> Code] /\ code'[c].consumed
           /\ \A d \in Codes : code[d].consumed => code'[d].consumed
<1>1. code[c] \in Code
  OBVIOUS
<1>2. [code[c] EXCEPT !.consumed = TRUE] \in Code
  BY Zenon, <1>1 DEF Code
<1>3. [code[c] EXCEPT !.consumed = TRUE].consumed = TRUE
  BY <1>1 DEF Code
<1> QED  BY <1>2, <1>3

\* A request that signs tokens of a user.
LEMMA SignerOk ==
    ASSUME NEW q, q.pc = "sign", q.op \in {"code", "refresh"}, q.of \in Codes, q.now <= clock',
           code'[q.of].consumed, NotPastSession(q)', NotPastFamily(q)'
    PROVE  CallOk(q)'
BY Zenon DEF CallOk, EndsFamily, SignsForUser

\* exchangeCode.
LEMMA ExchangeKeeps == ASSUME Inv, NEW p \in Procs, exchangeCode(p) PROVE Inv'
<1> DEFINE c == call[p].of
<1>0. /\ call[p] \in Call /\ CallOk(call[p]) /\ call[p].op = "code" /\ c \in Codes
      /\ TypeOK /\ clock \in Nat /\ call[p].now <= clock
  BY Zenon DEF exchangeCode, At, Inv, IInv, CallsOk, TypeOK, CallOk
<1>1. UNCHANGED <<requests, clock, client, recent, user, session, tokens, seen>>
  BY Zenon DEF exchangeCode
<1>2. CASE code[c].consumed
  <2>1. family' = RevokedFamilies({c}) /\ Respond(p) /\ UNCHANGED code
    BY <1>2 DEF exchangeCode
  <2>2. SessionStep
    BY Zenon, <1>0, <1>1 DEF SessionStep, TypeOK
  <2> QED  BY <1>1, <2>1, <2>2, SilentEndKeeps
<1>3. CASE Respond(p) /\ UNCHANGED <<code, family>>
  BY <1>1, <1>3, RespondKeeps DEF object
<1>4. CASE ~code[c].consumed /\ ~(Respond(p) /\ UNCHANGED <<code, family>>)
  <2>1. session[c] = None /\ code' = [code EXCEPT ![c].consumed = TRUE]
    BY Zenon, <1>4 DEF exchangeCode
  <2>2. PICK kind \in {None, "session", "offline"} :
            /\ family' = IF kind = None THEN family ELSE [family EXCEPT ![c] =
                   [client_created_at |-> call[p].created_at, kind |-> kind,
                    current_serial |-> 1, revoked_at |-> None]]
            /\ call' = [call EXCEPT ![p].pc = "sign", ![p].kind = kind, ![p].user = None,
                                    ![p].created_at = 0,
                                    ![p].serial = IF kind = None THEN 0 ELSE 1,
                                    ![p].scopes = code[c].scope \ {"offline_access"}]
    BY Zenon, <1>4 DEF exchangeCode
  <2>q. PICK q : q = [call[p] EXCEPT !.pc = "sign", !.kind = kind, !.user = None,
                                     !.created_at = 0,
                                     !.serial = IF kind = None THEN 0 ELSE 1,
                                     !.scopes = code[c].scope \ {"offline_access"}]
    OBVIOUS
  <2>3. code[c].scope \ {"offline_access"} \in SUBSET {"account", "admin"}
    BY Zenon, <1>0 DEF TypeOK, Code
  <2>4. q \in Call
    BY Zenon, <1>0, <2>q, <2>3 DEF Call
  <2>5. q.pc = "sign" /\ q.op = "code" /\ q.of = c /\ q.now = call[p].now
    BY <1>0, <2>q DEF Call
  <2>6. call' = [call EXCEPT ![p] = q]
    BY Zenon, <2>2, <2>q
  <2>7. /\ code' \in [Codes -> Code] /\ code'[c].consumed
        /\ \A d \in Codes : code[d].consumed => code'[d].consumed
    BY Zenon, <1>0, <2>1, CodeSpent DEF TypeOK
  <2>8. /\ family' \in [Codes -> Family \cup {None}]
        /\ \A d \in Codes : family'[d] = family[d] \/ (d = c /\ Live(family'[d]))
    <3> DEFINE f == [client_created_at |-> call[p].created_at, kind |-> kind,
                     current_serial |-> 1, revoked_at |-> None]
    <3>1. kind # None => f \in Family
      BY Zenon, <1>0 DEF Call, Family
    <3>2. f.revoked_at = None
      OBVIOUS
    <3>3. family' = IF kind = None THEN family ELSE [family EXCEPT ![c] = f]
      BY <2>2
    <3> HIDE DEF f
    <3> QED  BY Zenon, <1>0, <3>1, <3>2, <3>3, NoneAssumption DEF TypeOK, Live
  <2>9. family[c] = None
    BY Zenon, <1>0, <1>4 DEF Inv, IInv, SpentFirst
  <2>10. ObjectStep
    BY Zenon, <1>0, <1>1, <1>4, <2>7, <2>8 DEF ObjectStep
  <2>11. CallOk(q)'
    <3>1. NotPastSession(q)'
      BY <1>1, <2>1, <2>5 DEF NotPastSession
    <3>2. NotPastFamily(q)'
      BY <1>0, <2>5, <2>8, <2>9 DEF NotPastFamily
    <3>3. q.now <= clock' /\ code'[q.of].consumed /\ q.of \in Codes
      BY Zenon, <1>0, <1>1, <2>5, <2>7
    <3> HIDE DEF c
    <3> QED  BY Zenon, <2>5, <3>1, <3>2, <3>3, SignerOk
  <2>12. session' \in [Codes -> Nat \cup {None}]
    BY Zenon, <1>0, <1>1 DEF TypeOK
  <2>13. \A d \in Codes : family'[d] # None => family[d] # None \/ code'[d].consumed
    BY Zenon, <2>7, <2>8
  <2> HIDE DEF c
  <2> QED  BY Zenon, <1>0, <1>1, <2>4, <2>6, <2>7, <2>8, <2>10, <2>11, <2>12, <2>13, GrantStepKeeps
<1> QED  BY <1>2, <1>3, <1>4

\* All that GrantStepKeeps asks for.
GrantStep(p, q) ==
    /\ call' = [call EXCEPT ![p] = q] /\ q \in Call /\ CallOk(q)' /\ ObjectStep
    /\ session' \in [Codes -> Nat \cup {None}] /\ code' \in [Codes -> Code]
    /\ family' \in [Codes -> Family \cup {None}]
    /\ \A d \in Codes : family'[d] # None => family[d] # None \/ code'[d].consumed
    /\ UNCHANGED <<requests, clock, client, recent, user, tokens, seen>>

\* Such a step keeps the invariant.
LEMMA GrantStepDone ==
    ASSUME Inv, NEW p \in Procs, NEW q, GrantStep(p, q)
    PROVE  Inv'
BY Zenon, GrantStepKeeps DEF GrantStep

\* The refresh grant: a family is rotated ...
LEMMA RotationKeeps ==
    ASSUME Inv, NEW p \in Procs, NEW c \in Codes, NEW h \in Call, h = call[p], h # Idle,
           h.op = "refresh", h.of = c, Live(family[c]), Rotatable(c, h.scopes),
           family' = [family EXCEPT ![c].current_serial = @ + 1],
           call' = [call EXCEPT ![p].pc = "sign", ![p].kind = family[c].kind, ![p].serial = @ + 1,
                                ![p].created_at = 0],
           UNCHANGED <<requests, clock, client, recent, user, session, code, tokens, seen>>
    PROVE  Inv'
<1>0. /\ TypeOK /\ CallOk(h) /\ family[c] \in Family /\ code[c].consumed
  BY DEF Inv, IInv, CallsOk, TypeOK, Live, SpentFirst
<1>1. PICK q : q = [h EXCEPT !.pc = "sign", !.kind = family[c].kind, !.serial = @ + 1,
                             !.created_at = 0]
  OBVIOUS
<1>2. q \in Call
  <2>1. h.serial + 1 \in Nat /\ family[c].kind \in {"session", "offline", None}
    BY <1>0 DEF Call, Family
  <2> QED  BY Zenon, <1>1, <2>1 DEF Call
<1>3. q.pc = "sign" /\ q.op = "refresh" /\ q.of = c /\ q.now = h.now /\ q.kind = family[c].kind
  BY <1>1 DEF Call
<1>4. call' = [call EXCEPT ![p] = q]
  BY Zenon, <1>1
<1>5. /\ family' \in [Codes -> Family \cup {None}] /\ Live(family'[c])
      /\ \A d \in Codes \ {c} : family'[d] = family[d]
  <2>1. PICK f : f = [family[c] EXCEPT !.current_serial = @ + 1]
    BY Zenon
  <2>2. f \in Family /\ f.revoked_at = family[c].revoked_at
    BY <1>0, <2>1 DEF Family
  <2>3. family' = [family EXCEPT ![c] = f]
    BY <2>1
  <2> QED  BY <1>0, <2>2, <2>3, NoneAssumption DEF TypeOK, Live
<1>6. ObjectStep
  BY <1>5 DEF ObjectStep
<1>7. CallOk(q)'
  <2>1. NotPastSession(q)'
    BY <1>0, <1>3 DEF NotPastSession, Rotatable, Family
  <2>2. NotPastFamily(q)'
    BY <1>3, <1>5 DEF NotPastFamily
  <2>3. q.now <= clock' /\ code'[q.of].consumed /\ q.of \in Codes
    BY <1>0, <1>3 DEF CallOk
  <2> QED  BY <1>3, <2>1, <2>2, <2>3, SignerOk
<1>8. session' \in [Codes -> Nat \cup {None}] /\ code' \in [Codes -> Code]
  BY <1>0 DEF TypeOK
<1>9. \A d \in Codes : family'[d] # None => family[d] # None \/ code'[d].consumed
  BY <1>0, <1>5
<1>10. UNCHANGED <<requests, clock, client, recent, user, tokens, seen>>
  OBVIOUS
<1>11. GrantStep(p, q)
  BY Zenon, <1>2, <1>4, <1>5, <1>6, <1>7, <1>8, <1>9, <1>10 DEF GrantStep
<1> QED  BY Zenon, <1>11, GrantStepDone

\* ... or deleted, for a client that was created again ...
LEMMA ForeignKeeps ==
    ASSUME Inv, NEW p \in Procs, NEW c \in Codes, family' = [family EXCEPT ![c] = None],
           Respond(p),
           UNCHANGED <<requests, clock, client, recent, user, session, code, tokens, seen>>
    PROVE  Inv'
<1>0. TypeOK
  BY DEF Inv
<1>1. /\ family' \in [Codes -> Family \cup {None}]
      /\ \A d \in Codes : family'[d] = family[d] \/ family'[d] = None
  BY Zenon, <1>0 DEF TypeOK
<1>2. ObjectStep
  BY Zenon, <1>1 DEF ObjectStep
<1>3. session' \in [Codes -> Nat \cup {None}] /\ code' \in [Codes -> Code]
  BY Zenon, <1>0 DEF TypeOK
<1>4. \A d \in Codes : family'[d] # None => family[d] # None \/ code'[d].consumed
  BY <1>1
<1> QED  BY Zenon, <1>1, <1>2, <1>3, <1>4, GrantStepKeeps DEF Respond

\* ... or revoked, when the token was used before.
LEMMA RefreshKeeps == ASSUME Inv, NEW p \in Procs, refreshGrant(p) PROVE Inv'
<1>0. PICK h \in Call, c \in Codes : h = call[p] /\ h # Idle /\ h.op = "refresh" /\ h.of = c
  BY Zenon DEF refreshGrant, At, Inv, IInv, CallsOk, CallOk, TypeOK
<1>1. UNCHANGED <<requests, clock, client, recent, user, code, tokens, seen>>
  BY Zenon DEF refreshGrant
<1>2. UNCHANGED session => SessionStep
  BY DEF SessionStep, Inv, TypeOK
<1>3. CASE Respond(p) /\ UNCHANGED <<session, family>>
  BY <1>1, <1>3, RespondKeeps DEF object
<1>4. CASE family' = [family EXCEPT ![c] = None] /\ Respond(p) /\ UNCHANGED session
  BY Zenon, <1>1, <1>4, ForeignKeeps
<1>5. CASE revokeSessionRows({c}) /\ Respond(p)
  <2>1. SessionStep /\ family' = RevokedFamilies(BoundTo({c}))
    BY <1>5, RevokeRowsShape
  <2> QED  BY <1>1, <1>5, <2>1, SilentEndKeeps
<1>6. CASE family' = RevokedFamilies({c}) /\ UNCHANGED session /\ Respond(p)
  BY <1>1, <1>2, <1>6, SilentEndKeeps
<1>7. CASE /\ Live(family[c]) /\ Rotatable(c, h.scopes)
           /\ family' = [family EXCEPT ![c].current_serial = @ + 1]
           /\ call' = [call EXCEPT ![p].pc = "sign", ![p].kind = family[c].kind,
                                   ![p].serial = @ + 1, ![p].created_at = 0]
           /\ UNCHANGED session
  BY Zenon, <1>0, <1>1, <1>7, RotationKeeps
<1> QED  BY Zenon, <1>0, <1>3, <1>4, <1>5, <1>6, <1>7 DEF refreshGrant

-----------------------------------------------------------------------------
(* The tokens are signed and answered.                                     *)

\* The access token of an answer, and the refresh token with it.
LEMMA AnswerKeeps ==
    ASSUME Inv, NEW p \in Procs, NEW h \in Call, h = call[p], h # Idle, h.pc = "sign",
           Answer(p), NEW n \in Nat,
           \/ UNCHANGED seen
           \/ h.of \in Codes /\ code[h.of].consumed /\ seen' = [seen EXCEPT !.handed[h.of] = n]
    PROVE  Inv'
<1>0. TypeOK /\ CallOk(h) /\ clock \in Nat /\ AccessTtl \in Nat
  BY TokensAssumption DEF Inv, IInv, CallsOk, TypeOK
<1>1. UNCHANGED <<requests, clock, client, recent, user, session, code, family>>
  BY DEF Answer, object
<1>2. PICK t : t = accessTokenClaims(h)
  OBVIOUS
<1>3. /\ t \in AccessToken /\ t.exp = h.now + AccessTtl /\ t.of = h.of
      /\ t.sid = IF h.kind = "offline" THEN None ELSE h.of
  BY <1>0, <1>2 DEF accessTokenClaims, AccessToken, Call
<1>4. TokenOk(t)'
  <2>1. h.now \in Nat /\ h.now <= clock
    BY <1>0 DEF Call, CallOk
  <2>2. t.sid # None /\ session[t.sid] # None => h.now <= session[t.sid] /\ session[t.sid] \in Nat
    BY <1>0, <1>3 DEF CallOk, SignsForUser, NotPastSession, TypeOK, AccessToken
  <2>3. t.of # None /\ family[t.of] # None /\ ~Live(family[t.of])
           => h.now <= family[t.of].revoked_at /\ family[t.of].revoked_at \in Nat
    BY Zenon, <1>0, <1>3 DEF CallOk, SignsForUser, NotPastFamily, TypeOK, AccessToken, Family, Live
  <2> QED  BY <1>0, <1>1, <1>3, <2>1, <2>2, <2>3 DEF TokenOk
<1>5. tokens' \subseteq tokens \cup {t}
  BY <1>2 DEF Answer
<1>6. /\ seen' \in [handed : [Codes -> Nat], ended : SUBSET Codes, writes : Nat]
      /\ seen'.ended = seen.ended /\ seen'.writes = seen.writes
      /\ \A c \in Codes : seen'.handed[c] = seen.handed[c] \/ code[c].consumed
  BY <1>0 DEF TypeOK
<1>7. /\ call' \in [Procs -> Call \cup {Idle}]
      /\ \A r \in Procs : call'[r] = Idle \/ call'[r] = call[r]
  BY <1>0 DEF TypeOK, Answer, Respond
<1>8. TypeOK'
  BY <1>0, <1>1, <1>3, <1>5, <1>6, <1>7 DEF TypeOK
<1>9. ObjectStep /\ NoGain
  BY <1>1 DEF ObjectStep, NoGain, Authenticated, Served
<1>10. \A c \in Codes : Spent(c)' => Spent(c) \/ code'[c].consumed
  BY <1>1, <1>6 DEF Spent
<1>11. \A r \in Procs : call'[r] # Idle =>
          CallOk(call[r])' \/ (call[r] # Idle /\ call'[r] = call[r] /\ NoGain)
  BY <1>7, <1>9
<1>12. \A x \in tokens' : x \in tokens \/ TokenOk(x)'
  BY <1>4, <1>5
<1> QED  BY <1>6, <1>8, <1>9, <1>10, <1>11, <1>12, StepKeeps

\* A user's tokens.
LEMMA UserTokensKeeps == ASSUME Inv, NEW p \in Procs, userTokens(p) PROVE Inv'
<1>1. PICK h \in Call : h = call[p] /\ h # Idle /\ h.pc = "sign" /\ h.op \in {"code", "refresh"}
  BY DEF userTokens, At, Inv, TypeOK
<1>2. CallOk(h) /\ h.of \in Codes /\ h.serial \in Nat
  BY Zenon, <1>1 DEF Inv, IInv, CallsOk, CallOk, Call
<1>3. CASE UNCHANGED seen
  BY <1>1, <1>2, <1>3, AnswerKeeps DEF userTokens
<1>4. CASE seen' = [seen EXCEPT !.handed[h.of] = h.serial]
  <2>1. CASE h.of # None
    <3>1. code[h.of].consumed
      BY Zenon, <1>1, <1>2, <2>1 DEF CallOk, SignsForUser
    <3> QED  BY <1>1, <1>2, <1>4, <3>1, AnswerKeeps DEF userTokens
  <2> QED  BY <2>1, <1>2, NoneAssumption
<1> QED  BY <1>1, <1>3, <1>4 DEF userTokens, sealRefreshHandle

\* A client's own.
LEMMA ClientTokenKeeps == ASSUME Inv, NEW p \in Procs, clientToken(p) PROVE Inv'
<1>1. PICK h \in Call : h = call[p] /\ h # Idle /\ h.pc = "sign"
  BY DEF clientToken, At, Inv, TypeOK
<1> QED  BY <1>1, AnswerKeeps DEF clientToken

-----------------------------------------------------------------------------
(* Users and clients are administered.                                     *)

\* A request that has become entitled.
LEMMA EntitledOk ==
    ASSUME NEW h \in Call, CallOk(h), NEW q, q = [h EXCEPT !.had = TRUE]
    PROVE  q \in Call /\ CallOk(q) /\ q.had
<1>1. q \in Call /\ q.had
  BY Zenon DEF Call
<1>2. /\ q.now = h.now /\ q.op = h.op /\ q.of = h.of /\ q.token = h.token /\ q.pc = h.pc
      /\ q.kind = h.kind
  BY DEF Call
<1> HIDE DEF Call
<1>3. NotPastSession(q) <=> NotPastSession(h)
  BY Zenon, <1>2 DEF NotPastSession
<1>4. NotPastFamily(q) <=> NotPastFamily(h)
  BY Zenon, <1>2 DEF NotPastFamily
<1>5. CallOk(q)
  BY <1>1, <1>2, <1>3, <1>4 DEF CallOk, EndsFamily, SignsForUser
<1> QED  BY <1>1, <1>5

\* A write that entitles, and leaves the user's grants alone.
LEMMA EntitlingKeeps ==
    ASSUME Inv, NEW p \in Procs, RespondEntitling(p), user' \in User,
           client' \in Client \cup {None},
           recent' \subseteq [record : Client \cup {None}, until : Nat],
           seen' \in [handed : [Codes -> Nat], ended : SUBSET Codes, writes : Nat],
           seen'.ended = seen.ended, seen'.handed = seen.handed,
           UNCHANGED <<requests, clock, session, code, family, tokens>>
    PROVE  Inv'
<1>0. TypeOK
  BY DEF Inv
<1>1. ObjectStep
  BY Zenon DEF ObjectStep
<1>2. ASSUME NEW r \in Procs, call'[r] # Idle PROVE call'[r] \in Call /\ CallOk(call[r])'
  <2>1. call[r] \in Call /\ CallOk(call[r]) /\ call'[r] = [call[r] EXCEPT !.had = TRUE]
    BY <1>0, <1>2 DEF RespondEntitling, TypeOK, Inv, IInv, CallsOk
  <2>2. PICK h : h = call[r]
    OBVIOUS
  <2>3. PICK q : q = [h EXCEPT !.had = TRUE]
    BY Zenon
  <2>4. h \in Call /\ CallOk(h) /\ call'[r] = q
    BY <2>1, <2>2, <2>3
  <2>5. q \in Call /\ CallOk(q) /\ q.had
    BY <2>3, <2>4, EntitledOk
  <2>6. CallOk(q)'
    BY Zenon, <1>0, <1>1, <2>5, CallKept
  <2> QED  BY Zenon, <2>4, <2>5, <2>6
<1>3. call' \in [Procs -> Call \cup {Idle}]
  <2>1. call' = [r \in Procs |-> call'[r]]
    BY DEF RespondEntitling
  <2> QED  BY <1>2, <2>1
<1>4. TypeOK'
  BY <1>0, <1>3 DEF TypeOK
<1>5. \A r \in Procs : call'[r] # Idle =>
          CallOk(call[r])' \/ (call[r] # Idle /\ call'[r] = call[r] /\ NoGain)
  BY Zenon, <1>2
<1>6. \A d \in Codes : Spent(d)' => Spent(d) \/ code'[d].consumed
  BY Zenon DEF Spent
<1>7. \A d \in seen'.ended : d \in seen.ended \/ ~Live(family'[d])
  BY Zenon
<1>8. \A t \in tokens' : t \in tokens \/ TokenOk(t)'
  BY Zenon
<1> QED  BY Zenon, <1>1, <1>4, <1>5, <1>6, <1>7, <1>8, StepKeeps

\* Disabling a user ends everything of theirs; enabling entitles.
LEMMA SetDisabledKeeps == ASSUME Inv, NEW p \in Procs, setDisabled(p) PROVE Inv'
<1>0. TypeOK
  BY DEF Inv
<1>1. CASE /\ user' = [user EXCEPT !.disabled = FALSE] /\ RespondEntitling(p)
           /\ UNCHANGED <<session, family, seen>>
  <2>1. user' \in User
    BY Zenon, <1>0, <1>1 DEF TypeOK, User
  <2>2. UNCHANGED <<requests, clock, client, recent, code, tokens>>
    BY DEF setDisabled
  <2> QED  BY Zenon, <1>0, <1>1, <2>1, <2>2, EntitlingKeeps DEF TypeOK
<1>2. CASE /\ user' = [user EXCEPT !.disabled = TRUE]
           /\ revokeAll /\ Answered(Made) /\ Respond(p)
  <2>1. /\ user' \in User /\ (user.disabled => user'.disabled) /\ (user'.admins => user.admins)
    BY Zenon, <1>0, <1>2 DEF TypeOK, User
  <2>2. SessionStep /\ family' = RevokedFamilies(Codes)
    BY <1>0, <1>2 DEF revokeAll, SessionStep, TypeOK
  <2>3. Made \subseteq Codes /\ \A c \in Made : code[c].consumed
    BY MadeIsSpent
  <2>4. Answering /\ seen' = [seen EXCEPT !.ended = @ \cup Made]
    BY Zenon, <1>2 DEF Answering, Respond, Answered
  <2>5. UNCHANGED <<requests, clock, client, recent, code, tokens>>
    BY DEF setDisabled
  <2> QED  BY Zenon, <1>0, <2>1, <2>2, <2>3, <2>4, <2>5, RevocationKeeps
<1> QED  BY <1>1, <1>2 DEF setDisabled

\* Membership of admins is given, or taken.
LEMMA SetGroupsKeeps == ASSUME Inv, NEW p \in Procs, setGroups(p) PROVE Inv'
<1>0. TypeOK /\ UNCHANGED <<requests, clock, client, recent, session, code, family, tokens, seen>>
  BY DEF Inv, setGroups
<1>1. CASE user' = [user EXCEPT !.admins = TRUE] /\ RespondEntitling(p)
  <2>1. user' \in User
    BY Zenon, <1>0, <1>1 DEF TypeOK, User
  <2> QED  BY Zenon, <1>0, <1>1, <2>1, EntitlingKeeps DEF TypeOK
<1>2. CASE user' = [user EXCEPT !.admins = FALSE] /\ Respond(p)
  <2>1. user' \in User /\ user'.disabled = user.disabled /\ ~user'.admins
    BY Zenon, <1>0, <1>2 DEF TypeOK, User
  <2>2. NoGain /\ ObjectStep
    BY Zenon, <1>0, <2>1 DEF NoGain, ObjectStep, Authenticated, Served
  <2>3. /\ call' \in [Procs -> Call \cup {Idle}]
        /\ \A r \in Procs : call'[r] = Idle \/ call'[r] = call[r]
    BY <1>0, <1>2 DEF TypeOK, Respond
  <2>4. TypeOK'
    BY Zenon, <1>0, <2>1, <2>3 DEF TypeOK
  <2>5. \A r \in Procs : call'[r] # Idle =>
            CallOk(call[r])' \/ (call[r] # Idle /\ call'[r] = call[r] /\ NoGain)
    BY <2>2, <2>3
  <2>6. \A d \in Codes : Spent(d)' => Spent(d) \/ code'[d].consumed
    BY <1>0 DEF Spent
  <2>7. \A d \in seen'.ended : d \in seen.ended \/ ~Live(family'[d])
    BY <1>0
  <2>8. \A t \in tokens' : t \in tokens \/ TokenOk(t)'
    BY <1>0
  <2> QED  BY Zenon, <2>2, <2>4, <2>5, <2>6, <2>7, <2>8, StepKeeps
<1> QED  BY <1>1, <1>2 DEF setGroups

\* The client's record is written.
LEMMA WriteClientKeeps == ASSUME Inv, NEW p \in Procs, writeClient(p) PROVE Inv'
<1>0. /\ TypeOK /\ RespondEntitling(p) /\ UNCHANGED <<requests, clock, object, tokens>>
      /\ seen.writes \in Nat /\ clock \in Nat /\ client \in Client \cup {None}
  BY DEF Inv, writeClient, TypeOK
<1>1. client' \in Client \cup {None}
  <2>1. CASE client = None
    <3>1. client' = [created_at |-> seen.writes + 2, disabled |-> FALSE,
                     scopes_allowed |-> {"admin"}]
      BY <2>1 DEF writeClient
    <3>2. seen.writes + 2 \in Nat
      BY <1>0
    <3> QED  BY <3>1, <3>2 DEF Client
  <2>2. CASE client # None
    <3>1. client \in Client
      BY <1>0, <2>2
    <3>2. [client EXCEPT !.disabled = ~@] \in Client
      BY Zenon, <3>1 DEF Client
    <3>3. [client EXCEPT !.scopes_allowed = {"admin"} \ @] \in Client
      BY <3>1 DEF Client
    <3> QED  BY Zenon, <2>2, <3>2, <3>3 DEF writeClient
  <2> QED  BY <2>1, <2>2
<1>2. recent' \subseteq [record : Client \cup {None}, until : Nat]
  BY <1>0 DEF writeClient, TypeOK
<1>3. /\ seen' \in [handed : [Codes -> Nat], ended : SUBSET Codes, writes : Nat]
      /\ seen'.ended = seen.ended /\ seen'.handed = seen.handed
  BY <1>0 DEF writeClient, TypeOK
<1>4. user' \in User /\ UNCHANGED <<requests, clock, session, code, family, tokens>>
  BY <1>0 DEF TypeOK, object
<1> QED  BY Zenon, <1>0, <1>1, <1>2, <1>3, <1>4, EntitlingKeeps

-----------------------------------------------------------------------------
(* Time passes.                                                            *)

\* What is served and what verifies shrinks.
LEMMA TickKeeps == ASSUME Inv, Tick PROVE Inv'
<1>0. /\ TypeOK /\ clock \in Nat /\ clock' = clock + 1 /\ AccessTtl \in Nat
      /\ UNCHANGED <<requests, client, user, session, code, family, call, seen>>
  BY Zenon, TokensAssumption DEF Inv, TypeOK, Tick, object
<1>1. recent' \subseteq recent /\ tokens' \subseteq tokens
  BY DEF Tick
<1>2. TypeOK'
  BY <1>0, <1>1 DEF TypeOK
<1>3. NoGain
  BY <1>0, <1>1 DEF NoGain, Authenticated, Served
<1>4. ASSUME NEW r \in Procs, call[r] # Idle PROVE CallOk(call[r])'
  <2>1. PICK q \in Call : q = call[r]
    BY <1>0, <1>4 DEF TypeOK
  <2>2. CallOk(q) /\ q.now \in Nat
    BY <1>4, <2>1 DEF Inv, IInv, CallsOk, Call
  <2>3. q.now <= clock'
    BY <1>0, <2>2 DEF CallOk
  <2>4. q.pc = "guard" /\ Privileged(q.op, q.token)' => q.had
    BY Zenon, <1>3, <2>2, GainsNothing DEF CallOk
  <2>5. CallOk(q)'
    BY Zenon, <1>0, <2>2, <2>3, <2>4
       DEF CallOk, EndsFamily, SignsForUser, NotPastSession, NotPastFamily
  <2> QED  BY <1>0, <2>1, <2>5
<1>5. TokensFresh'
  <2>1. \A t \in tokens : t.exp \in Nat /\ t.exp <= clock + AccessTtl
    BY Zenon, <1>0 DEF TypeOK, AccessToken, Inv, IInv, TokensFresh
  <2> QED  BY <1>0, <1>1, <2>1 DEF TokensFresh
<1>6. SpentFirst' /\ AnsweredEndHolds' /\ RevokedWithinTtl'
  BY Zenon, <1>0, <1>1 DEF Inv, IInv, SpentFirst, AnsweredEndHolds, RevokedWithinTtl
<1>7. CallsOk'
  BY <1>0, <1>4 DEF CallsOk
<1> QED  BY <1>2, <1>5, <1>6, <1>7 DEF Inv, IInv

-----------------------------------------------------------------------------
(* The theorems.                                                           *)

\* The requests of /token and /revoke.
LEMMA TokenKeeps == ASSUME Inv, NEW p \in Procs, Token(p) PROVE Inv'
<1>1. ASSUME NEW c \in Codes, tokenHandler(p, "code", c, 0, {}) PROVE Inv'
  BY <1>1, TokenHandlerKeeps
<1>2. ASSUME NEW c \in Codes, NEW n \in Handles(c),
             NEW requested \in {{"account", "admin"}, {"account"}},
             tokenHandler(p, "refresh", c, n, requested)
      PROVE  Inv'
  <2>1. n \in Nat /\ requested \in SUBSET {"account", "admin"}
    BY DEF Handles, Inv, TypeOK
  <2> QED  BY <1>2, <2>1, TokenHandlerKeeps
<1>3. ASSUME tokenHandler(p, "client_credentials", None, 0, {"admin"}) PROVE Inv'
  BY <1>3, TokenHandlerKeeps
<1>4. ASSUME NEW c \in Codes, disabledClientRefresh(p, c) \/ revokeHandler(p, c, None)
      PROVE  Inv'
  BY Zenon, <1>4, DisabledRefreshKeeps, RevokeHandlerKeeps
<1>5. ASSUME NEW t \in Unexpired, revokeHandler(p, None, t) PROVE Inv'
  BY Zenon, <1>5, RevokeAccessKeeps
<1>6. ASSUME \/ readNow(p) \/ codeGrant(p) \/ exchangeCode(p) \/ refreshGrant(p)
             \/ userTokens(p) \/ clientToken(p) \/ revokeDisabled(p) \/ revokeToken(p)
      PROVE  Inv'
  BY Zenon, <1>6, ReadNowKeeps, CodeGrantKeeps, ExchangeKeeps, RefreshKeeps, UserTokensKeeps,
     ClientTokenKeeps, RevokeDisabledKeeps, RevokeTokenKeeps
<1> QED  BY Zenon, <1>1, <1>2, <1>3, <1>4, <1>5, <1>6 DEF Token

\* The requests that present an access token.
LEMMA ResourceKeeps == ASSUME Inv, NEW p \in Procs, Resource(p) PROVE Inv'
<1>1. ASSUME userinfoHandler(p) \/ requireAccount(p) \/ requireAdmin(p) PROVE Inv'
  BY Zenon, <1>1, PresentKeeps DEF userinfoHandler, requireAccount, requireAdmin
<1>2. ASSUME \/ deleteSession(p) \/ deleteSessions(p) \/ deleteGrant(p) \/ removeSession(p)
             \/ removeSessions(p) \/ removeFamily(p) \/ removeFamiliesOfClient(p)
             \/ removeGrant(p)
      PROVE  Inv'
  BY Zenon, <1>2, RemovalsKeep
<1>3. ASSUME admit(p) \/ userinfo(p) \/ setDisabled(p) \/ setGroups(p) \/ writeClient(p)
      PROVE  Inv'
  BY Zenon, <1>3, AdmitKeeps, AnswersKeep, SetDisabledKeeps, SetGroupsKeeps, WriteClientKeeps
<1> QED  BY Zenon, <1>1, <1>2, <1>3 DEF Resource

\* Nothing is changed.
LEMMA StutterKeeps == ASSUME Inv, UNCHANGED vars PROVE Inv'
<1>1. UNCHANGED <<clock, client, recent, user, session, code, family, tokens, call, requests,
                  seen>>
  BY DEF vars
<1>2. TypeOK'
  BY Zenon, <1>1 DEF Inv, TypeOK
<1>3. ObjectStep /\ NoGain
  BY Zenon, <1>1 DEF ObjectStep, NoGain, Authenticated, Served
<1>4. \A d \in Codes : Spent(d)' => Spent(d) \/ code'[d].consumed
  BY Zenon, <1>1 DEF Spent
<1>5. /\ \A d \in seen'.ended : d \in seen.ended \/ ~Live(family'[d])
      /\ \A t \in tokens' : t \in tokens \/ TokenOk(t)'
  BY Zenon, <1>1
<1>6. \A r \in Procs : call'[r] # Idle =>
          CallOk(call[r])' \/ (call[r] # Idle /\ call'[r] = call[r] /\ NoGain)
  BY Zenon, <1>1, <1>3
<1> QED  BY Zenon, <1>2, <1>3, <1>4, <1>5, <1>6, StepKeeps

\* The first state.
LEMMA InitHolds == ASSUME Init PROVE Inv
<1>1. TypeOK
  <2>1. code \in [Codes -> Code]
    BY Zenon DEF Init, Code
  <2>2. client \in Client /\ user \in User
    BY Zenon DEF Init, Client, User
  <2>3. /\ seen \in [handed : [Codes -> Nat], ended : SUBSET Codes, writes : Nat]
        /\ {clock, requests, seen.writes} \subseteq Nat
    BY DEF Init
  <2>4. /\ recent \subseteq [record : Client \cup {None}, until : Nat]
        /\ tokens \subseteq AccessToken
    BY Zenon DEF Init
  <2>5. /\ session \in [Codes -> Nat \cup {None}] /\ family \in [Codes -> Family \cup {None}]
        /\ call \in [Procs -> Call \cup {Idle}]
    BY Zenon DEF Init
  <2> QED  BY Zenon, <2>1, <2>2, <2>3, <2>4, <2>5 DEF TypeOK
<1>2. SpentFirst /\ CallsOk
  BY Zenon DEF Init, SpentFirst, CallsOk
<1>3. TokensFresh /\ AnsweredEndHolds /\ RevokedWithinTtl
  BY Zenon DEF Init, TokensFresh, AnsweredEndHolds, RevokedWithinTtl
<1> QED  BY <1>1, <1>2, <1>3 DEF Inv, IInv

\* The inductive invariant holds in every reachable state, for every set of codes and of
\* concurrent requests and every lifetime.
THEOREM InvariantHolds == Spec => []Inv
<1>1. Inv /\ [Next]_vars => Inv'
  <2> SUFFICES ASSUME Inv, [Next]_vars PROVE Inv'
    OBVIOUS
  <2>1. ASSUME NEW p \in Procs, Token(p) \/ Resource(p) \/ stop(p) PROVE Inv'
    BY Zenon, <2>1, TokenKeeps, ResourceKeeps, AnswersKeep
  <2>2. ASSUME NEW s \in Codes, logoutHandler(s) PROVE Inv'
    BY Zenon, <2>2, LogoutKeeps
  <2> QED  BY Zenon, <2>1, <2>2, TickKeeps, StutterKeeps DEF Next
<1> QED  BY <1>1, InitHolds, PTL DEF Spec

\* What /revoke, /me, /admin, /logout or the refresh grant of a disabled client answered to
\* have ended is never live again.
THEOREM EndsAreFinal == Spec => []AnsweredEndHolds
<1>1. Inv => AnsweredEndHolds
  BY DEF Inv, IInv
<1> QED  BY <1>1, InvariantHolds, PTL

\* No access token outlives the revocation of its session or family by more than access_ttl.
THEOREM RevocationIsBounded == Spec => []RevokedWithinTtl
<1>1. Inv => RevokedWithinTtl
  BY DEF Inv, IInv
<1> QED  BY <1>1, InvariantHolds, PTL

\* Nobody is admitted to /userinfo, /me or /admin who was at no time of the request entitled.
THEOREM OnlyTheEntitledEnter == Spec => []AdmittedIsEntitled
<1>1. Inv => AdmittedIsEntitled
  BY Zenon DEF Inv, IInv, CallsOk, CallOk, AdmittedIsEntitled, At
<1> QED  BY <1>1, InvariantHolds, PTL
=============================================================================
