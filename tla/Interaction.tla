---------------------------- MODULE Interaction -----------------------------
(***************************************************************************)
(* One authorization or logout interaction: the Durable Object that holds  *)
(* its document (src/do/InteractionDO.ts), the state machine the document  *)
(* follows, and every HTTP handler that reads and writes it: /par,         *)
(* /authorize, /logout, the Interaction API, /federation/callback and      *)
(* /interactions/{id}/complete.                                            *)
(*                                                                         *)
(* A method of the object runs under blockConcurrencyWhile and is atomic.  *)
(* A handler is not: it reads the document, then makes one call after      *)
(* another, and every other handler may run between two of its calls.  So  *)
(* a handler is a process p; call[p] holds the document it read and where  *)
(* it is.  Any handler may stop between two calls and never go on (Crash). *)
(*                                                                         *)
(* Calls to the user's object, to D1 and to an upstream only matter by     *)
(* their outcome, which is chosen here; what those parts do with the call  *)
(* is in the modules UserDO and Directory.  A step that makes such a call  *)
(* and then one to the document is one action when nothing that the other  *)
(* handlers can see happens in between.                                    *)
(***************************************************************************)
EXTENDS Integers, Sequences

CONSTANTS
    Procs,          \* requests being handled at the same time
    Users,          \* people who can authenticate
    SkipConsent,    \* client.skip_consent
    InteractionTtl, \* settings.interaction_ttl
    REQUEST_URI_TTL_SECONDS, CHALLENGE_TTL_SECONDS, FEDERATION_LEG_TTL_SECONDS,
    TERMINAL_RETENTION_SECONDS, ATTEMPT_LIMIT,
    MaxClock,       \* bound: the last second of a behaviour
    MaxLegs         \* bound: federation legs started

ASSUME TtlAssumption ==
    /\ {InteractionTtl, REQUEST_URI_TTL_SECONDS, CHALLENGE_TTL_SECONDS,
        FEDERATION_LEG_TTL_SECONDS, MaxClock, MaxLegs} \subseteq Nat
    /\ {TERMINAL_RETENTION_SECONDS, ATTEMPT_LIMIT} \subseteq Nat
    /\ SkipConsent \in BOOLEAN

VARIABLES
    clock,
    doc,         \* the stored document, or NoDoc
    alarm,       \* when the object's alarm fires
    started,     \* the id is fresh: a document is created once
    call,        \* the handler each process runs, or Idle
    cookie,      \* the browser has the cookie the binding hashes
    sessionLive, \* whether the session the browser presents is live
    legs,        \* federation legs started so far
    seen         \* history: what has happened to the interaction

vars == <<clock, doc, alarm, started, call, cookie, sessionLive, legs, seen>>
object == <<doc, alarm>>
world == <<clock, started, cookie, sessionLive, legs>>

NoDoc == [status |-> "none"]
Idle == [pc |-> "idle"]
Minimum(a, b) == IF a <= b THEN a ELSE b

INTERACTION_STATUSES == {"pushed", "login_required", "link_required",
                         "consent_required", "ready", "completed", "failed"}

isTerminal(status) == status \in {"completed", "failed"}

\* The statuses that an operation may lead to; none where it is not permitted.
TRANSITIONS(from, operation) ==
    CASE operation = "consume_par" /\ from = "pushed" ->
            {"login_required", "consent_required", "completed"}
      [] operation = "authenticate" /\ from = "login_required" ->
            {"ready", "consent_required", "link_required", "failed"}
      [] operation = "link" /\ from = "link_required" ->
            {"ready", "consent_required", "failed"}
      [] operation = "consent" /\ from = "consent_required" -> {"ready", "failed"}
      [] operation = "logout_decision" /\ from = "login_required" -> {"ready"}
      [] operation \in {"abort", "fail"} /\ ~isTerminal(from) -> {"failed"}
      [] operation = "restart" /\ from = "ready" -> {"login_required"}
      [] operation = "complete" /\ from \in {"ready", "failed"} -> {"completed"}
      [] OTHER -> {}

\* An optional field is a set with at most one element.
Challenge == [expires_at : Nat, pending_uid : SUBSET Users]
Leg == [state : Nat, expires_at : Nat]

\* existing_session, auth and link are the users they name.  The binding is set once
\* and a browser has its cookie or not.  The client, the request, the scopes consented
\* to, the error and what a draft or a link says of the person change nothing else.
Document ==
    [kind : {"authorize", "logout", "par"}, status : INTERACTION_STATUSES,
     expires_at : Nat, existing_session : SUBSET Users,
     passkey_challenge : SUBSET Challenge, registration : BOOLEAN,
     federation : SUBSET Leg, link : SUBSET Users, auth : SUBSET Users,
     decision : {"none", "confirm", "decline"},
     attempts : Nat, par_consumed : BOOLEAN, completing : BOOLEAN]

\* What /complete still needs of the document it read once it has called on.
Fields == [kind : {"authorize", "logout"}, status : INTERACTION_STATUSES,
           existing_session : SUBSET Users, auth : SUBSET Users,
           decision : {"none", "confirm", "decline"}]

\* A handler: what it read, the users it may be about and the outcome it carries.
Call == [pc : {"attempt", "apply", "settle", "claim", "restart", "finish"},
         op : {"authorize", "passkey_login", "passkey_link", "register", "callback",
               "complete"},
         now : Nat, doc : Fields, uid : SUBSET Users,
         outcome : {"none", "authorized", "not_allowed", "login_required",
                    "consent_required", "code", "error", "logout"}]

Answer == [kind : {"code", "error", "logout"}, uid : SUBSET Users]

\* proven: users who authenticated or held the session; tried: attempts that were let through; issued: the users
\* codes were issued for; answers: what the client was told; declined: the person
\* declined to log out; loggedOut: /complete ended the session.
Seen == [proven : SUBSET Users, tried : Nat, issued : Seq(Users),
         answers : Seq(Answer), declined : BOOLEAN, loggedOut : BOOLEAN]

\* Type invariant.
TypeOK ==
    /\ {clock, alarm, legs} \subseteq Nat
    /\ doc \in Document \cup {NoDoc}
    /\ call \in [Procs -> Call \cup {Idle}]
    /\ {started, cookie, sessionLive} \subseteq BOOLEAN
    /\ seen \in Seen

-----------------------------------------------------------------------------
(* The object's methods.                                                   *)

\* get: the document, unless it is deleted or expired.
Live(now) == doc # NoDoc /\ doc.expires_at > now

NewDoc(kind, status, session, ttl) ==
    [kind |-> kind, status |-> status, expires_at |-> clock + ttl,
     existing_session |-> session, passkey_challenge |-> {}, registration |-> FALSE,
     federation |-> {}, link |-> {}, auth |-> {}, decision |-> "none",
     attempts |-> 0, par_consumed |-> FALSE, completing |-> FALSE]

\* Starts early enough for the alarm to come within the bound on the clock.
Create(new) ==
    /\ clock + REQUEST_URI_TTL_SECONDS + InteractionTtl <= MaxClock
    /\ ~started
    /\ started' = TRUE
    /\ doc' = new
    /\ alarm' = new.expires_at

Applied(operation, to, now) == Live(now) /\ to \in TRANSITIONS(doc.status, operation)

\* One transition; patched is the document with the fields the caller changes.
Apply(operation, to, patched, now) ==
    IF Applied(operation, to, now)
    THEN LET expires == IF isTerminal(to)
                        THEN Minimum(doc.expires_at, now + TERMINAL_RETENTION_SECONDS)
                        ELSE doc.expires_at
         IN  /\ doc' = [patched EXCEPT !.status = to, !.expires_at = expires]
             /\ alarm' = IF isTerminal(to) THEN expires ELSE alarm
    ELSE UNCHANGED object

Patch(patched, now) ==
    /\ doc' = IF Live(now) /\ ~isTerminal(doc.status) THEN patched ELSE doc
    /\ UNCHANGED alarm

Alarm ==
    /\ doc # NoDoc
    /\ clock >= alarm
    /\ doc' = NoDoc
    /\ UNCHANGED <<alarm, world, call, seen>>

-----------------------------------------------------------------------------
(* Handlers as processes.                                                  *)

FieldsOf(d) == [kind |-> d.kind, status |-> d.status, auth |-> d.auth,
                existing_session |-> d.existing_session, decision |-> d.decision]
NoFields == [kind |-> "authorize", status |-> "pushed", auth |-> {},
             existing_session |-> {}, decision |-> "none"]

At(p, pc, ops) == call[p].pc = pc /\ call[p].op \in ops
Begin(p, pc, op, read, uid, outcome) ==
    /\ call[p] = Idle
    /\ call' = [call EXCEPT ![p] = [pc |-> pc, op |-> op, now |-> clock, doc |-> read,
                                    uid |-> uid, outcome |-> outcome]]
Goto(p, pc) == call' = [call EXCEPT ![p].pc = pc]
Respond(p) == call' = [call EXCEPT ![p] = Idle]

OneOf(set) == <<CHOOSE x \in set : TRUE>>
Answered(kind, uid) ==
    seen' = [seen EXCEPT !.answers = Append(@, [kind |-> kind, uid |-> uid])]

-----------------------------------------------------------------------------
(* Where an interaction starts: /par, /authorize and /logout.              *)

Par ==
    /\ Create(NewDoc("par", "pushed", {}, REQUEST_URI_TTL_SECONDS))
    /\ UNCHANGED <<clock, cookie, sessionLive, legs, call, seen>>

\* The session evaluation found no session, or one that still needs a login or consent.
Evaluated(session, status) ==
    /\ status \in {"login_required", "consent_required"}
    /\ session # {} => sessionLive
    /\ status = "consent_required" => session # {}

StartInteraction(kind, status, session) ==
    /\ Create(NewDoc(kind, status, session, InteractionTtl))
    /\ cookie' = TRUE
    /\ UNCHANGED <<clock, sessionLive, legs, call>>

\* Without a pushed request; when the session answers at once there is no interaction.
Authorize(session, status) ==
    /\ Evaluated(session, status)
    /\ StartInteraction("authorize", status, session)
    /\ seen' = [seen EXCEPT !.proven = @ \cup session]

Logout ==
    /\ sessionLive
    /\ StartInteraction("logout", "login_required", {})
    /\ UNCHANGED seen

\* Mutant: the pushed request can be taken again.
ClaimedAgain(d) == [d EXCEPT !.kind = "authorize", !.expires_at = clock + InteractionTtl]

\* The pushed document, taken.
Claimed(d) == [d EXCEPT !.kind = "authorize", !.par_consumed = TRUE,
                        !.expires_at = clock + InteractionTtl]

\* claimPushed, with which /authorize takes a pushed request, and authorizeWithSession:
\* when it authorizes, the user's object has issued the code.
ClaimPushed(p, session, outcome) ==
    /\ Live(clock)
    /\ doc.status = "pushed"
    /\ ~doc.par_consumed
    /\ doc' = Claimed(doc)
    /\ alarm' = clock + InteractionTtl
    /\ \/ outcome \in {"authorized", "not_allowed"} /\ session # {} /\ sessionLive
       \/ Evaluated(session, outcome)
    /\ Begin(p, "settle", "authorize", NoFields, session, outcome)
    /\ seen' = [seen EXCEPT !.proven = @ \cup session,
                            !.issued = IF outcome = "authorized" THEN @ \o OneOf(session)
                                       ELSE @]
    /\ UNCHANGED world

\* The pushed request is answered at once, fails, or waits for the login app.
AnswerPushed(p) ==
    /\ At(p, "settle", {"authorize"})
    /\ call[p].outcome = "authorized"
    /\ Apply("consume_par", "completed", doc, call[p].now)
    /\ Answered("code", call[p].uid)
    /\ Respond(p)
    /\ UNCHANGED world

FailPushed(p) ==
    /\ At(p, "settle", {"authorize"})
    /\ call[p].outcome # "authorized"   \* not_allowed, or prompt=none
    /\ Apply("fail", "failed", doc, call[p].now)
    /\ Answered("error", {})
    /\ Respond(p)
    /\ UNCHANGED world

AwaitLogin(p) ==
    /\ At(p, "settle", {"authorize"})
    /\ call[p].outcome \in {"login_required", "consent_required"}
    /\ Apply("consume_par", call[p].outcome,
             [doc EXCEPT !.existing_session = call[p].uid], call[p].now)
    /\ cookie' = TRUE
    /\ Respond(p)
    /\ UNCHANGED <<clock, started, sessionLive, legs, seen>>

-----------------------------------------------------------------------------
(* The Interaction API.                                                    *)

\* Which statuses each handler accepts, in the document the guard read.
Accepts(op) ==
    CASE op \in {"passkey_options", "passkey_verify"} ->
            doc.kind = "authorize" /\ doc.status \in {"login_required", "link_required"}
      [] op \in {"register_options", "register_verify", "upstream"} ->
            doc.kind = "authorize" /\ doc.status = "login_required"
      [] op = "consent" -> doc.kind = "authorize" /\ doc.status = "consent_required"
      [] op = "logout" -> doc.kind = "logout" /\ doc.status = "login_required"
      [] op = "abort" -> TRUE

\* The guard every handler of the API begins with.
Guarded(op) ==
    /\ Live(clock)
    /\ doc.status # "pushed"
    /\ cookie
    /\ ~isTerminal(doc.status)
    /\ Accepts(op)

\* attempt, and when it is let through the patch that the handler goes on with.
Attempt(patched, now) ==
    IF doc.attempts < ATTEMPT_LIMIT
    THEN /\ doc' = [patched EXCEPT !.attempts = doc.attempts + 1]
         /\ seen' = [seen EXCEPT !.tried = @ + 1]
         /\ UNCHANGED alarm
    ELSE /\ Apply("fail", "failed",
                  [doc EXCEPT !.attempts = @ + 1], now)
         /\ UNCHANGED seen

NewChallenge(uid) ==
    {[expires_at |-> clock + CHALLENGE_TTL_SECONDS, pending_uid |-> uid]}

PasskeyOptions ==
    /\ Guarded("passkey_options")
    /\ Attempt([doc EXCEPT !.passkey_challenge = NewChallenge({})], clock)
    /\ UNCHANGED <<world, call>>

\* uid is a new user or the one recovered; there is none when the request is refused.
RegisterOptions(uid) ==
    /\ Guarded("register_options")
    /\ Attempt(IF uid = {} THEN doc
               ELSE [doc EXCEPT !.passkey_challenge = NewChallenge(uid),
                                !.registration = TRUE], clock)
    /\ UNCHANGED <<world, call>>

\* A new leg replaces any previous one.
StartLeg ==
    /\ legs < MaxLegs
    /\ Guarded("upstream")
    /\ Patch([doc EXCEPT !.federation =
                {[state |-> legs + 1,
                  expires_at |-> clock + FEDERATION_LEG_TTL_SECONDS]}], clock)
    /\ legs' = legs + 1
    /\ UNCHANGED <<clock, started, cookie, sessionLive, call, seen>>

Verifying == {"passkey_login", "passkey_link", "register"}

\* The challenge in the document read decides: who may answer it, nobody when there is
\* none or it expired.  Anyone with a passkey may log in, the candidate alone may prove
\* a link, and a registration is of the user its options were for.
Answerable(op) ==
    UNION {CASE op = "passkey_login" -> Users
             [] op = "passkey_link" -> doc.link
             [] op = "register" -> IF doc.registration THEN ch.pending_uid ELSE {} :
           ch \in {x \in doc.passkey_challenge : x.expires_at > clock}}

BeginVerify(p, op) ==
    /\ CASE op = "passkey_login" -> Guarded("passkey_verify") /\ doc.status = "login_required"
         [] op = "passkey_link" -> Guarded("passkey_verify") /\ doc.status = "link_required"
         [] op = "register" -> Guarded("register_verify")
    /\ Begin(p, "attempt", op, NoFields, Answerable(op), "none")
    /\ UNCHANGED <<object, world, seen>>

\* The challenge is cleared, whichever it is by now.
ConsumeChallenge(p, wellFormed) ==
    /\ At(p, "attempt", Verifying)
    /\ LET c == call[p]
           burnt == [doc EXCEPT !.passkey_challenge = {},
                                !.registration = @ /\ c.op # "register"]
           open == Live(c.now) /\ ~isTerminal(doc.status)
       IN  /\ IF open THEN Attempt(IF wellFormed THEN burnt ELSE doc, c.now)
              ELSE UNCHANGED <<object, seen>>
           /\ IF open /\ doc.attempts < ATTEMPT_LIMIT /\ wellFormed /\ c.uid # {}
              THEN Goto(p, "apply") ELSE Respond(p)
    /\ UNCHANGED world

\* What follows a successful authentication as uid: the interaction fails when the
\* user may not sign in, else asks for consent or is ready.
AuthenticateInteraction(p, uid, operation) ==
    /\ \/ Apply(operation, "failed", doc, call[p].now)
       \/ \E status \in {"consent_required", "ready"} :
            /\ SkipConsent => status = "ready"
            /\ Apply(operation, status, [doc EXCEPT !.auth = {uid}], call[p].now)
    /\ seen' = [seen EXCEPT !.proven = @ \cup {uid}]
    /\ Respond(p)
    /\ UNCHANGED world

VerifyPasskey(p, uid) ==
    /\ At(p, "apply", {"passkey_login", "passkey_link"})
    /\ uid \in call[p].uid
    /\ AuthenticateInteraction(p, uid, IF call[p].op = "passkey_link" THEN "link"
                                       ELSE "authenticate")

VerifyRegistration(p, uid) ==
    /\ At(p, "apply", {"register"})
    /\ uid \in call[p].uid
    /\ AuthenticateInteraction(p, uid, "authenticate")

\* The read and the transition of these three are one step: the transition checks
\* again all that the guard saw.
Consent(grant) ==
    /\ Guarded("consent")
    /\ IF grant THEN Apply("consent", "ready", doc, clock)
                ELSE Apply("consent", "failed", doc, clock)
    /\ UNCHANGED <<world, call, seen>>

Abort ==
    /\ Guarded("abort")
    /\ Apply("abort", "failed", doc, clock)
    /\ UNCHANGED <<world, call, seen>>

LogoutDecision(decision) ==
    /\ Guarded("logout")
    /\ Apply("logout_decision", "ready", [doc EXCEPT !.decision = decision], clock)
    /\ seen' = [seen EXCEPT !.declined = @ \/ decision = "decline"]
    /\ UNCHANGED <<world, call>>

-----------------------------------------------------------------------------
(* /federation/callback.                                                   *)

\* consumeFederation: the state of the current leg, once.
Consumable(state) ==
    /\ Live(clock)
    /\ \E leg \in doc.federation : leg.state = state /\ leg.expires_at > clock
    /\ doc.status = "login_required"

\* The callback, up to its own checks of the browser.
ConsumeFederation(p, state) ==
    /\ Consumable(state)
    /\ cookie
    /\ doc' = [doc EXCEPT !.federation = {}]
    /\ Begin(p, "apply", "callback", NoFields, Users, "none")
    /\ UNCHANGED <<alarm, world, seen>>

FailInteraction(p) ==
    /\ Apply("fail", "failed", doc, call[p].now)
    /\ Respond(p)
    /\ UNCHANGED <<world, seen>>

\* The upstream or the claims are refused, or no account may be used or created.
RefuseUpstream(p) == At(p, "apply", {"callback"}) /\ FailInteraction(p)

\* The identity is of no account, but its verified email is uid's.
ProposeLink(p, uid) ==
    /\ At(p, "apply", {"callback"})
    /\ Apply("authenticate", "link_required", [doc EXCEPT !.link = {uid}], call[p].now)
    /\ Respond(p)
    /\ UNCHANGED <<world, seen>>

\* The account of the identity, or the one created for it.
ResolveAccount(p, uid) ==
    /\ At(p, "apply", {"callback"})
    /\ AuthenticateInteraction(p, uid, "authenticate")

-----------------------------------------------------------------------------
(* /interactions/{id}/complete.                                            *)

GetForCompletion(p) ==
    /\ Live(clock)
    /\ cookie
    /\ doc.status \in {"ready", "failed"}
    /\ Begin(p, "claim", "complete", FieldsOf(doc), {}, "none")
    /\ UNCHANGED <<object, world, seen>>

\* Mutant: a completion that is under way is not noticed.
ClaimableTwice(now) == Live(now) /\ doc.status \in {"ready", "failed"}

Claimable(now) == Live(now) /\ doc.status \in {"ready", "failed"} /\ ~doc.completing

NotClaimed(p) ==
    /\ call[p].pc = "claim"
    /\ ~Claimable(call[p].now)
    /\ Respond(p)
    /\ UNCHANGED <<object, world, seen>>

\* claimCompletion; what a claimed completion goes on with is the document read before.
ClaimCompletion(p, kind) ==
    /\ call[p].pc = "claim" /\ call[p].doc.kind = kind
    /\ Claimable(call[p].now)
    /\ doc' = [doc EXCEPT !.completing = TRUE]
    /\ UNCHANGED alarm

Then(p, pc, uid, outcome) ==
    call' = [call EXCEPT ![p].pc = pc, ![p].uid = uid, ![p].outcome = outcome]

\* Mutant: the session ends whatever was decided.
EndsSessionAnyway(d, samePresented) == d.status = "ready" /\ samePresented

\* A confirmed logout ends the session while the browser still presents its cookie.
EndsSession(d, samePresented) ==
    d.status = "ready" /\ d.decision = "confirm" /\ samePresented

CompleteLogout(p, samePresented) ==
    /\ ClaimCompletion(p, "logout")
    /\ LET end == EndsSession(call[p].doc, samePresented)
       IN  /\ sessionLive' = (sessionLive /\ ~end)
           /\ seen' = [seen EXCEPT !.loggedOut = @ \/ (end /\ sessionLive)]
    /\ Then(p, "finish", {}, "logout")
    /\ UNCHANGED <<clock, started, cookie, legs>>

\* A failed interaction, one without a user, or one whose client is gone.
CompleteWithError(p) ==
    /\ ClaimCompletion(p, "authorize")
    /\ Then(p, "finish", {}, "error")
    /\ UNCHANGED <<world, seen>>

\* Consent was given on the session the interaction started from.
CompleteOnSession(p, uid) ==
    /\ ClaimCompletion(p, "authorize")
    /\ call[p].doc.status = "ready" /\ call[p].doc.auth = {}
    /\ uid \in call[p].doc.existing_session
    /\ \/ /\ sessionLive
          /\ Then(p, "finish", {uid}, "code")
          /\ seen' = [seen EXCEPT !.issued = Append(@, uid)]
       \/ Then(p, "restart", {}, "none") /\ UNCHANGED seen
    /\ UNCHANGED world

\* The session is rotated, or another user's ends and then a new one is created;
\* either fails when the user may no longer sign in.
CompleteWithAuth(p, uid, outcome) ==
    /\ ClaimCompletion(p, "authorize")
    /\ call[p].doc.status = "ready"
    /\ uid \in call[p].doc.auth
    /\ sessionLive' = (sessionLive /\ call[p].doc.existing_session \subseteq {uid})
    /\ Then(p, "finish", IF outcome = "code" THEN {uid} ELSE {}, outcome)
    /\ seen' = [seen EXCEPT !.issued = IF outcome = "code" THEN Append(@, uid) ELSE @]
    /\ UNCHANGED <<clock, started, cookie, legs>>

\* Mutant: a restart gives back the attempts.
RestartedAfresh(d) ==
    [d EXCEPT !.existing_session = {}, !.completing = FALSE, !.attempts = 0]

Restarted(d) == [d EXCEPT !.existing_session = {}, !.completing = FALSE]

Restart(p) ==
    /\ call[p].pc = "restart"
    /\ Apply("restart", "login_required", Restarted(doc), call[p].now)
    /\ Respond(p)
    /\ UNCHANGED <<world, seen>>

Finish(p) ==
    /\ call[p].pc = "finish"
    /\ Apply("complete", "completed", doc, call[p].now)
    /\ Answered(call[p].outcome, call[p].uid)
    /\ Respond(p)
    /\ UNCHANGED world

-----------------------------------------------------------------------------

\* A handler that stops between two calls: the assertion, the attestation, the
\* invitation or the client is refused, or an exception, an eviction, a lost answer.
Crash(p) ==
    /\ call[p] # Idle
    /\ Respond(p)
    /\ UNCHANGED <<object, world, seen>>

\* The session the browser presents ends elsewhere.
SessionEnds ==
    /\ sessionLive
    /\ sessionLive' = FALSE
    /\ UNCHANGED <<object, clock, started, cookie, legs, call, seen>>

Tick ==
    /\ clock < MaxClock
    /\ clock' = clock + 1
    /\ UNCHANGED <<object, started, cookie, sessionLive, legs, call, seen>>

Init ==
    /\ clock = 0
    /\ doc = NoDoc /\ alarm = 0
    /\ started = FALSE
    /\ call = [p \in Procs |-> Idle]
    /\ cookie = FALSE
    /\ sessionLive \in BOOLEAN
    /\ legs = 0
    /\ seen = [proven |-> {}, tried |-> 0, issued |-> <<>>, answers |-> <<>>,
               declined |-> FALSE, loggedOut |-> FALSE]

Sessions == {{}} \cup {{u} : u \in Users}

StartNext ==
    \/ Par
    \/ Logout
    \/ \E session \in Sessions, status \in {"login_required", "consent_required"} :
            Authorize(session, status)

PushedNext(p) ==
    \/ \E session \in Sessions,
          outcome \in {"authorized", "not_allowed", "login_required", "consent_required"} :
            ClaimPushed(p, session, outcome)
    \/ AnswerPushed(p) \/ FailPushed(p) \/ AwaitLogin(p)

ApiNext ==
    \/ PasskeyOptions \/ StartLeg \/ Abort
    \/ \E uid \in Sessions : RegisterOptions(uid)
    \/ \E grant \in BOOLEAN : Consent(grant)
    \/ \E decision \in {"confirm", "decline"} : LogoutDecision(decision)

VerifyNext(p) ==
    \/ \E op \in Verifying : BeginVerify(p, op)
    \/ \E wellFormed \in BOOLEAN : ConsumeChallenge(p, wellFormed)
    \/ \E uid \in Users : VerifyPasskey(p, uid) \/ VerifyRegistration(p, uid)

FederationNext(p) ==
    \/ \E state \in 1..MaxLegs : ConsumeFederation(p, state)
    \/ RefuseUpstream(p)
    \/ \E uid \in Users : ProposeLink(p, uid) \/ ResolveAccount(p, uid)

CompleteNext(p) ==
    \/ GetForCompletion(p) \/ NotClaimed(p)
    \/ CompleteWithError(p) \/ Restart(p) \/ Finish(p)
    \/ \E same \in BOOLEAN : CompleteLogout(p, same)
    \/ \E uid \in Users : CompleteOnSession(p, uid)
    \/ \E uid \in Users, outcome \in {"code", "error"} : CompleteWithAuth(p, uid, outcome)

HandlerNext(p) ==
    PushedNext(p) \/ VerifyNext(p) \/ FederationNext(p) \/ CompleteNext(p)

Next ==
    \/ StartNext \/ ApiNext \/ Alarm \/ SessionEnds \/ Tick
    \/ \E p \in Procs : HandlerNext(p) \/ Crash(p)

Spec == Init /\ [][Next]_vars

-----------------------------------------------------------------------------
(* Properties.                                                             *)

\* A code is never issued twice for one interaction and the client is answered at
\* most once, whatever handlers race, repeat or stop half way (claimCompletion,
\* claimPushed; TIO-IX-061).
IssuedOnce == Len(seen.issued) <= 1 /\ Len(seen.answers) <= 1

\* The alarm is always armed for the time the document says it expires, however often
\* that time moved: claimPushed extends it, a terminal status shortens it (TIO-DATA-022).
AlarmAtExpiry == doc # NoDoc => alarm = doc.expires_at

\* No more attempts are let through than the limit, from all handlers together and
\* across a restart (attempt; TIO-IX-030).
AttemptsLimited == seen.tried <= ATTEMPT_LIMIT

\* Once the person's refusal to log out was accepted, /complete does not end the
\* session, whatever other decisions and completions run (TIO-IX-050).
DeclineKeepsSession == ~(seen.declined /\ seen.loggedOut)

\* The interaction implements what an authorization request promises.
Authorization == INSTANCE Authorization WITH
    proven <- seen.proven, issued <- seen.issued, answers <- seen.answers
ImplementsAuthorization == Authorization!Spec

=============================================================================
