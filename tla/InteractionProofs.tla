------------------------- MODULE InteractionProofs --------------------------
(* Machine-checked theorems about Interaction, for every value of its      *)
(* constants: the invariants its runs check, and that it implements        *)
(* Authorization.                                                          *)
EXTENDS Interaction, TLAPS

-----------------------------------------------------------------------------
(* The inductive invariant.                                                *)

\* A handler that holds the one right to answer: it took the pushed request or
\* claimed the completion.
Engaged(c) == c.pc \in {"settle", "restart", "finish"}

\* Nothing has been issued and nobody has been told anything.
Untouched == seen.issued = <<>> /\ seen.answers = <<>>

\* A pushed request that can still be taken.
Takeable(d) == d.status = "pushed" /\ ~d.par_consumed

\* A document whose completion can still be claimed, now or after more steps.
Open(d) == d.status \notin {"pushed", "completed"} /\ ~d.completing

\* Before the document is created nothing has happened.
Fresh ==
    /\ doc = NoDoc /\ ~cookie
    /\ \A p \in Procs : call[p] = Idle
    /\ Untouched /\ seen.tried = 0 /\ ~seen.declined /\ ~seen.loggedOut

\* Whoever can be taken or claimed is held by nobody, and was never answered.
Unclaimed ==
    doc # NoDoc =>
        /\ Takeable(doc) => ~cookie
        /\ Takeable(doc) \/ (Open(doc) /\ cookie) =>
               Untouched /\ \A p \in Procs : ~Engaged(call[p])

\* The outcome an engaged handler carries is what was issued.
Carries(c, code) ==
    IF c.outcome = code THEN \E u \in Users : c.uid = {u} /\ seen.issued = <<u>>
    ELSE seen.issued = <<>>

\* What holds while a handler is engaged.
EngagedOk(c) ==
    /\ c.pc = "settle" =>
        /\ ~cookie /\ seen.answers = <<>>
        /\ doc # NoDoc => doc.status = "pushed" /\ doc.par_consumed
        /\ c.uid \subseteq seen.proven
        /\ Carries(c, "authorized")
    /\ c.pc \in {"restart", "finish"} =>
        /\ seen.answers = <<>>
        /\ doc # NoDoc => doc.completing
    /\ c.pc = "restart" =>
        /\ seen.issued = <<>>
        /\ doc # NoDoc => doc.kind = "authorize"
    /\ c.pc = "finish" =>
        /\ Carries(c, "code")
        /\ c.outcome # "code" => c.uid = {} /\ c.outcome \in {"error", "logout"}

\* What holds of the other handlers under way.
WaitingOk(c) ==
    /\ c.pc \in {"attempt", "apply", "claim"} /\ doc # NoDoc => doc.status # "pushed"
    /\ c.pc = "claim" =>
        /\ cookie
        /\ c.doc.auth \cup c.doc.existing_session \subseteq seen.proven
        /\ doc # NoDoc => doc.kind = c.doc.kind
        /\ c.doc.kind = "logout" /\ doc # NoDoc =>
               doc.status # "login_required" /\ doc.decision = c.doc.decision

\* A decision on a logout is taken once: the document has left login_required.
Decided(decision) ==
    doc # NoDoc => doc.kind = "logout" /\ doc.status # "login_required" /\ doc.decision = decision

DocOk ==
    doc # NoDoc =>
        /\ started
        /\ doc.auth \cup doc.existing_session \subseteq seen.proven
        /\ seen.tried <= doc.attempts
        /\ doc.kind = "logout" => doc.status # "pushed"
        /\ doc.kind = "par" => Takeable(doc)
        /\ alarm = doc.expires_at

IInv ==
    /\ ~started => Fresh
    /\ Unclaimed
    /\ \A p, q \in Procs : Engaged(call[p]) /\ Engaged(call[q]) => p = q
    /\ \A p \in Procs : EngagedOk(call[p]) /\ WaitingOk(call[p])
    /\ DocOk
    /\ seen.declined => Decided("decline")
    /\ seen.loggedOut => Decided("confirm")
    /\ Len(seen.issued) <= 1 /\ Len(seen.answers) <= 1
    /\ AttemptsLimited
    /\ DeclineKeepsSession

Inv == TypeOK /\ IInv

-----------------------------------------------------------------------------
(* The four shapes of a step.  Almost every action is quiet: it neither    *)
(* takes nor gives up the right to answer.                                 *)

\* At most one more user is proven; codes and answers stay.
Proves ==
    /\ seen'.issued = seen.issued /\ seen'.answers = seen.answers
    /\ \/ seen'.proven = seen.proven
       \/ \E u \in Users : seen'.proven = seen.proven \cup {u}

\* The document goes on, without a claim given or taken.
Progress ==
    /\ doc # NoDoc /\ doc' \in Document
    /\ doc'.kind = doc.kind /\ doc'.existing_session = doc.existing_session
    /\ doc'.par_consumed = doc.par_consumed /\ doc'.completing = doc.completing
    /\ doc'.auth \subseteq seen'.proven
    /\ \/ doc'.status = doc.status
       \/ doc.status \notin {"pushed", "completed"}
          /\ doc'.status \notin {"pushed", "login_required"}
    /\ doc'.decision = doc.decision \/ doc.status = "login_required"
    /\ doc'.attempts >= doc.attempts
    /\ alarm' = doc'.expires_at

QuietDoc ==
    /\ Proves
    /\ seen'.loggedOut = seen.loggedOut
    /\ (doc' = doc /\ alarm' = alarm) \/ doc' = NoDoc \/ Progress
    /\ \/ seen'.declined = seen.declined
       \/ /\ Progress /\ doc.kind = "logout" /\ doc.status = "login_required"
          /\ doc'.status # "login_required" /\ doc'.decision = "decline"
    /\ \/ seen'.tried = seen.tried
       \/ /\ Progress /\ doc.attempts < ATTEMPT_LIMIT
          /\ doc'.attempts = doc.attempts + 1 /\ seen'.tried = seen.tried + 1

QuietCall ==
    \A p \in Procs :
        \/ call'[p] = call[p]
        \/ call'[p] = Idle
        \/ started /\ ~Engaged(call'[p]) /\ WaitingOk(call[p])'

Quiet == started' = started /\ cookie' = cookie /\ QuietDoc /\ QuietCall

\* The document is created.
Start ==
    /\ ~started /\ started'
    /\ doc' \in Document /\ alarm' = doc'.expires_at
    /\ doc'.auth \cup doc'.existing_session \subseteq seen'.proven
    /\ doc'.kind = "logout" => doc'.status # "pushed"
    /\ doc'.kind = "par" => Takeable(doc')
    /\ Takeable(doc') => ~cookie'
    /\ Proves
    /\ seen'.tried = seen.tried /\ seen'.declined = seen.declined
    /\ seen'.loggedOut = seen.loggedOut
    /\ call' = call

\* p takes the pushed request or claims the completion.
Engage(p) ==
    /\ doc # NoDoc /\ doc' \in Document
    /\ \/ Takeable(doc) /\ doc'.kind = "authorize"
       \/ Open(doc) /\ cookie /\ doc'.kind = doc.kind
    /\ ~Takeable(doc') /\ ~Open(doc')
    /\ doc'.status = doc.status /\ doc'.decision = doc.decision
    /\ doc'.auth = doc.auth /\ doc'.existing_session = doc.existing_session
    /\ doc'.attempts = doc.attempts /\ alarm' = doc'.expires_at
    /\ started' = started /\ cookie' = cookie
    /\ \A q \in Procs \ {p} : call'[q] = call[q]
    /\ Engaged(call'[p]) /\ EngagedOk(call[p])'
    /\ seen.proven \subseteq seen'.proven /\ seen'.answers = seen.answers
    /\ Len(seen'.issued) <= 1
    /\ seen'.tried = seen.tried /\ seen'.declined = seen.declined
    /\ \/ seen'.loggedOut = seen.loggedOut
       \/ doc.kind = "logout" /\ doc.status # "login_required" /\ doc.decision = "confirm"

\* p gives the right up: it answers, or the interaction waits for the person.
Release(p) ==
    /\ Engaged(call[p]) /\ call' = [call EXCEPT ![p] = Idle]
    /\ started' = started /\ (cookie' = cookie \/ cookie')
    /\ \/ doc' = doc /\ alarm' = alarm
       \/ /\ doc # NoDoc /\ doc' \in Document
          /\ doc'.kind = doc.kind /\ doc'.par_consumed = doc.par_consumed
          /\ doc'.attempts = doc.attempts /\ doc'.decision = doc.decision
          /\ doc'.auth \cup doc'.existing_session \subseteq seen.proven
          /\ doc'.status # "pushed" /\ doc.kind # "par"
          /\ doc'.status = "login_required" => doc.kind = "authorize"
          /\ alarm' = doc'.expires_at
    /\ seen'.proven = seen.proven /\ seen'.issued = seen.issued
    /\ Len(seen'.answers) <= 1
    /\ seen'.tried = seen.tried /\ seen'.declined = seen.declined
    /\ seen'.loggedOut = seen.loggedOut
    /\ doc' # NoDoc /\ Open(doc') /\ cookie' => Untouched'

-----------------------------------------------------------------------------
(* Each shape preserves the invariant.                                     *)

\* The records and the functions of a typed state, in the form the leaves use.
LEMMA Typed ==
    ASSUME TypeOK
    PROVE  /\ doc # NoDoc => doc \in Document
           /\ \A p \in Procs : call[p] = Idle \/ call[p] \in Call
           /\ seen \in Seen
           /\ call = [p \in Procs |-> call[p]]
BY DEF TypeOK

\* A document is not the absence of one.
LEMMA DocumentExists == NoDoc \notin Document
BY DEF NoDoc, Document, INTERACTION_STATUSES

\* A step that is quiet preserves the invariant.
LEMMA QuietPreserves == ASSUME Inv, Quiet PROVE IInv'
<1> USE DocumentExists
<1>1. (~started => Fresh)'
  BY DEF Inv, IInv, Fresh, Quiet, QuietDoc, QuietCall, Proves, Progress, Untouched
<1>2. Unclaimed'
  BY DEF Inv, IInv, Unclaimed, Quiet, QuietDoc, QuietCall, Proves, Progress, Untouched,
         Takeable, Open, Engaged, Idle
<1>3. (\A p, q \in Procs : Engaged(call[p]) /\ Engaged(call[q]) => p = q)'
  BY DEF Inv, IInv, Quiet, QuietCall, Engaged, Idle
<1>4. ASSUME NEW p \in Procs PROVE (EngagedOk(call[p]) /\ WaitingOk(call[p]))'
  <2>1. CASE call'[p] = call[p]
    <3>0. /\ EngagedOk(call[p]) /\ WaitingOk(call[p]) /\ cookie' = cookie
          /\ Proves /\ (doc' = doc \/ doc' = NoDoc \/ Progress)
      BY DEF Inv, IInv, Quiet, QuietDoc
    <3>1. EngagedOk(call[p])'
      BY <2>1, <3>0 DEF EngagedOk, Carries, Progress, Proves
    <3>2. WaitingOk(call[p])'
      BY <2>1, <3>0 DEF WaitingOk, Progress, Proves
    <3> QED  BY <3>1, <3>2
  <2>2. CASE call'[p] = Idle
    BY <2>2 DEF EngagedOk, WaitingOk, Idle
  <2>3. CASE ~Engaged(call'[p]) /\ WaitingOk(call[p])'
    BY <2>3 DEF EngagedOk, Engaged
  <2> QED  BY <2>1, <2>2, <2>3 DEF Quiet, QuietCall
<1>5. DocOk'
  BY DEF Inv, IInv, DocOk, Quiet, QuietDoc, Proves, Progress, Takeable, TypeOK, Seen, Document
<1>6. (seen.declined => Decided("decline"))'
  BY Zenon DEF Inv, IInv, Quiet, QuietDoc, Progress, Decided
<1>7. (seen.loggedOut => Decided("confirm"))'
  BY DEF Inv, IInv, Quiet, QuietDoc, Progress, Decided
<1>8. (Len(seen.issued) <= 1 /\ Len(seen.answers) <= 1)'
  BY DEF Inv, IInv, Quiet, QuietDoc, Proves
<1>9. AttemptsLimited'
  <2>1. doc # NoDoc => seen.tried \in Nat /\ doc.attempts \in Nat /\ seen.tried <= doc.attempts
    BY DEF Inv, TypeOK, Seen, Document, IInv, DocOk
  <2> QED  BY <2>1, TtlAssumption DEF Inv, IInv, AttemptsLimited, Quiet, QuietDoc, Progress
<1>10. DeclineKeepsSession'
  BY DEF Inv, IInv, DeclineKeepsSession, Quiet, QuietDoc, Progress, Decided
<1> QED  BY <1>1, <1>2, <1>3, <1>4, <1>5, <1>6, <1>7, <1>8, <1>9, <1>10 DEF IInv

\* The creation of the document establishes the invariant.
LEMMA StartPreserves == ASSUME Inv, Start PROVE IInv'
<1> USE DocumentExists
<1>0. /\ Fresh /\ call' = call /\ Proves
      /\ seen'.tried = seen.tried /\ seen'.declined = seen.declined
      /\ seen'.loggedOut = seen.loggedOut
      /\ \A p \in Procs : call'[p] = Idle
  BY DEF Inv, IInv, Start, Fresh
<1>1. (~started => Fresh)'
  BY DEF Start
<1>2. Unclaimed'
  BY <1>0 DEF Unclaimed, Start, Fresh, Proves, Untouched, Engaged, Idle
<1>3. (\A p, q \in Procs : Engaged(call[p]) /\ Engaged(call[q]) => p = q)'
  BY <1>0 DEF Engaged, Idle
<1>4. (\A p \in Procs : EngagedOk(call[p]) /\ WaitingOk(call[p]))'
  BY <1>0 DEF EngagedOk, WaitingOk, Idle
<1>5. DocOk'
  BY <1>0 DEF DocOk, Start, Fresh, Document
<1>6. (seen.declined => Decided("decline"))' /\ (seen.loggedOut => Decided("confirm"))'
  BY <1>0 DEF Fresh
<1>7. (Len(seen.issued) <= 1 /\ Len(seen.answers) <= 1)'
  BY <1>0 DEF Inv, IInv, Proves
<1>8. AttemptsLimited' /\ DeclineKeepsSession'
  BY <1>0, TtlAssumption DEF AttemptsLimited, DeclineKeepsSession, Fresh
<1> QED  BY <1>1, <1>2, <1>3, <1>4, <1>5, <1>6, <1>7, <1>8 DEF IInv

\* Taking the right to answer preserves the invariant: nobody else holds it.
LEMMA EngagePreserves == ASSUME Inv, NEW p \in Procs, Engage(p) PROVE IInv'
<1> USE DocumentExists
<1>0. /\ \A q \in Procs : ~Engaged(call[q])
      /\ Untouched /\ started
  BY DEF Inv, IInv, Unclaimed, Engage, DocOk
<1>1. (~started => Fresh)'
  BY <1>0 DEF Engage
<1>2. Unclaimed'
  BY DEF Unclaimed, Engage
<1>3. (\A q, r \in Procs : Engaged(call[q]) /\ Engaged(call[r]) => q = r)'
  BY <1>0 DEF Engage
<1>4. ASSUME NEW q \in Procs PROVE (EngagedOk(call[q]) /\ WaitingOk(call[q]))'
  <2>1. CASE q = p
    BY <2>1 DEF Engage, Engaged, WaitingOk
  <2>2. CASE q # p
    <3>0. call'[q] = call[q] /\ ~Engaged(call[q]) /\ WaitingOk(call[q])
      BY <2>2, <1>0 DEF Engage, Inv, IInv
    <3>1. EngagedOk(call[q])'
      BY <3>0 DEF EngagedOk, Engaged
    <3>2. WaitingOk(call[q])'
      BY Zenon, <3>0 DEF WaitingOk, Engage, Takeable
    <3> QED  BY <3>1, <3>2
  <2> QED  BY <2>1, <2>2
<1>5. DocOk'
  BY DEF Inv, IInv, DocOk, Engage, Takeable, Open
<1>6. (seen.declined => Decided("decline"))'
  BY DEF Inv, IInv, Decided, Engage, DocOk, Takeable
<1>7. (seen.loggedOut => Decided("confirm"))'
  BY Zenon DEF Inv, IInv, Decided, Engage, DocOk, Takeable
<1>8. (Len(seen.issued) <= 1 /\ Len(seen.answers) <= 1)'
  BY DEF Inv, IInv, Engage
<1>9. AttemptsLimited' /\ DeclineKeepsSession'
  BY DEF Inv, IInv, AttemptsLimited, DeclineKeepsSession, Engage, Decided
<1> QED  BY <1>1, <1>2, <1>3, <1>4, <1>5, <1>6, <1>7, <1>8, <1>9 DEF IInv

\* Giving the right up preserves the invariant.
LEMMA ReleasePreserves == ASSUME Inv, NEW p \in Procs, Release(p) PROVE IInv'
<1> USE DocumentExists
<1>0. /\ call'[p] = Idle /\ ~Engaged(call'[p])
      /\ \A q \in Procs \ {p} : call'[q] = call[q] /\ ~Engaged(call[q])
  BY Typed DEF Inv, IInv, Release, Engaged, Idle
<1>1. started /\ started'
  BY DEF Release, Inv, IInv, Fresh, Engaged, Idle
<1>2. doc # NoDoc => ~Takeable(doc)
  BY DEF Release, Inv, IInv, Unclaimed
<1>3. Unclaimed'
  BY <1>0, <1>2 DEF Unclaimed, Release, Takeable
<1>4. (\A q, r \in Procs : Engaged(call[q]) /\ Engaged(call[r]) => q = r)'
  BY <1>0
<1>5. ASSUME NEW q \in Procs PROVE (EngagedOk(call[q]) /\ WaitingOk(call[q]))'
  <2>1. CASE q = p
    BY <2>1, <1>0 DEF Idle, EngagedOk, WaitingOk
  <2>2. CASE q # p
    <3>0. call'[q] = call[q] /\ ~Engaged(call[q]) /\ WaitingOk(call[q])
      BY <2>2, <1>0 DEF Inv, IInv
    <3>1. EngagedOk(call[q])'
      BY <3>0 DEF EngagedOk, Engaged
    <3>2. WaitingOk(call[q])'
      BY Zenon, <3>0 DEF WaitingOk, Release
    <3> QED  BY <3>1, <3>2
  <2> QED  BY <2>1, <2>2
<1>6. DocOk'
  BY <1>1 DEF Inv, IInv, DocOk, Release, Takeable
<1>7. (seen.declined => Decided("decline"))' /\ (seen.loggedOut => Decided("confirm"))'
  BY DEF Inv, IInv, Decided, Release
<1>8. (Len(seen.issued) <= 1 /\ Len(seen.answers) <= 1)'
  BY DEF Inv, IInv, Release
<1>9. AttemptsLimited' /\ DeclineKeepsSession'
  BY DEF Inv, IInv, AttemptsLimited, DeclineKeepsSession, Release
<1> QED  BY <1>1, <1>3, <1>4, <1>5, <1>6, <1>7, <1>8, <1>9 DEF IInv

-----------------------------------------------------------------------------
(* What the object's methods do to the document.                           *)

\* The operations of the state machine: where each starts and where it leads.
LEMMA Transitions ==
    ASSUME NEW from, NEW operation, NEW to \in TRANSITIONS(from, operation)
    PROVE  /\ to \in INTERACTION_STATUSES /\ to # "pushed"
           /\ from # "completed"
           /\ from = "pushed" => operation \in {"consume_par", "abort", "fail"}
           /\ operation = "consume_par" => from = "pushed"
           /\ to = "login_required" => operation \in {"consume_par", "restart"}
BY DEF TRANSITIONS, INTERACTION_STATUSES, isTerminal

\* The document after a transition: the patched fields, the new status, and an alarm
\* that still goes off when the document expires.
Moved(patched, to) ==
    /\ doc # NoDoc /\ doc' \in Document /\ doc'.status = to
    /\ doc'.kind = patched.kind /\ doc'.existing_session = patched.existing_session
    /\ doc'.auth = patched.auth /\ doc'.decision = patched.decision
    /\ doc'.attempts = patched.attempts /\ doc'.par_consumed = patched.par_consumed
    /\ doc'.completing = patched.completing
    /\ alarm' = doc'.expires_at

\* A transition is refused and changes nothing, or it moves the document.
LEMMA ApplyShape ==
    ASSUME TypeOK, DocOk, NEW operation, NEW to, NEW patched, NEW now \in Nat,
           doc # NoDoc => patched \in Document,
           Apply(operation, to, patched, now)
    PROVE  \/ doc' = doc /\ alarm' = alarm
           \/ to \in TRANSITIONS(doc.status, operation) /\ Moved(patched, to)
<1>1. CASE ~Applied(operation, to, now)
  BY <1>1 DEF Apply, object
<1>2. CASE Applied(operation, to, now)
  <2> DEFINE expires == IF isTerminal(to)
                        THEN Minimum(doc.expires_at, now + TERMINAL_RETENTION_SECONDS)
                        ELSE doc.expires_at
  <2>1. /\ doc # NoDoc /\ patched \in Document /\ doc.expires_at \in Nat
        /\ to \in TRANSITIONS(doc.status, operation)
    BY <1>2 DEF Applied, Live, TypeOK, Document
  <2>2. expires \in Nat
    BY <2>1, TtlAssumption DEF Minimum
  <2>3. doc' = [patched EXCEPT !.status = to, !.expires_at = expires] /\ alarm' = expires
    BY <1>2, <2>1 DEF Apply, DocOk
  <2>4. to \in INTERACTION_STATUSES
    BY <2>1, Transitions
  <2> HIDE DEF expires
  <2> QED  BY Zenon, <2>1, <2>2, <2>3, <2>4 DEF Moved, Document
<1> QED  BY <1>1, <1>2

\* The stored types after an operation that changes the document and the history.
StoredTyped == doc' \in Document \cup {NoDoc} /\ alarm' \in Nat /\ seen' \in Seen

\* The fields of the document that no quiet step changes.
SameCore(d) ==
    /\ d.kind = doc.kind /\ d.existing_session = doc.existing_session
    /\ d.par_consumed = doc.par_consumed /\ d.completing = doc.completing

\* A transition that neither takes a pushed request nor restarts is progress.
LEMMA QuietApply ==
    ASSUME TypeOK, DocOk, NEW operation, NEW to, NEW patched, NEW now \in Nat,
           operation \notin {"consume_par", "restart"},
           doc # NoDoc =>
               /\ doc.status # "pushed"
               /\ patched \in Document /\ SameCore(patched)
               /\ patched.auth \subseteq seen'.proven
               /\ patched.decision = doc.decision \/ doc.status = "login_required"
               /\ patched.attempts >= doc.attempts,
           Apply(operation, to, patched, now)
    PROVE  /\ (doc' = doc /\ alarm' = alarm) \/ (Progress /\ Moved(patched, to))
           /\ doc' \in Document \cup {NoDoc} /\ alarm' \in Nat
<1>1. \/ doc' = doc /\ alarm' = alarm
      \/ to \in TRANSITIONS(doc.status, operation) /\ Moved(patched, to)
  BY ApplyShape
<1>2. CASE doc' = doc /\ alarm' = alarm
  BY <1>2 DEF TypeOK
<1>3. CASE to \in TRANSITIONS(doc.status, operation) /\ Moved(patched, to)
  <2>1. to \notin {"pushed", "login_required"} /\ doc.status # "completed"
    BY Zenon, <1>3, Transitions
  <2>2. Progress
    BY Zenon, <1>3, <2>1 DEF Moved, Progress, SameCore
  <2> QED  BY Zenon, <1>3, <2>2 DEF Moved, Document
<1> QED  BY <1>1, <1>2, <1>3

\* One more attempt changes nothing else of the history.
LEMMA SeenTried ==
    ASSUME seen \in Seen, seen' = [seen EXCEPT !.tried = @ + 1]
    PROVE  /\ seen' \in Seen /\ seen'.proven = seen.proven /\ seen'.issued = seen.issued
           /\ seen'.answers = seen.answers /\ seen'.declined = seen.declined
           /\ seen'.loggedOut = seen.loggedOut /\ seen'.tried = seen.tried + 1
<1>1. seen' \in Seen
  BY DEF Seen
<1>2. /\ seen'.proven = seen.proven /\ seen'.issued = seen.issued
      /\ seen'.answers = seen.answers /\ seen'.tried = seen.tried + 1
      /\ seen'.declined = seen.declined /\ seen'.loggedOut = seen.loggedOut
  BY Zenon DEF Seen
<1> QED  BY <1>1, <1>2

\* Users who prove who they are change nothing else of the history.
LEMMA SeenProven ==
    ASSUME seen \in Seen, NEW more \in SUBSET Users,
           seen' = [seen EXCEPT !.proven = @ \cup more]
    PROVE  /\ seen' \in Seen /\ seen'.proven = seen.proven \cup more
           /\ seen'.issued = seen.issued
           /\ seen'.answers = seen.answers /\ seen'.declined = seen.declined
           /\ seen'.loggedOut = seen.loggedOut /\ seen'.tried = seen.tried
<1>1. seen' \in Seen
  BY DEF Seen
<1>2. /\ seen'.proven = seen.proven \cup more /\ seen'.issued = seen.issued
      /\ seen'.answers = seen.answers /\ seen'.tried = seen.tried
      /\ seen'.declined = seen.declined /\ seen'.loggedOut = seen.loggedOut
  BY Zenon DEF Seen
<1> QED  BY <1>1, <1>2

\* A decision on a logout changes nothing else of the history.
LEMMA SeenDecided ==
    ASSUME seen \in Seen, NEW decision,
           seen' = [seen EXCEPT !.declined = @ \/ decision = "decline"]
    PROVE  /\ seen' \in Seen /\ seen'.proven = seen.proven /\ seen'.issued = seen.issued
           /\ seen'.answers = seen.answers /\ seen'.tried = seen.tried
           /\ seen'.loggedOut = seen.loggedOut
           /\ seen'.declined = seen.declined \/ decision = "decline"
<1>1. seen' \in Seen
  BY Zenon DEF Seen
<1>2. /\ seen'.proven = seen.proven /\ seen'.issued = seen.issued
      /\ seen'.answers = seen.answers /\ seen'.tried = seen.tried
      /\ seen'.loggedOut = seen.loggedOut
  BY Zenon DEF Seen
<1>3. CASE decision = "decline"
  BY <1>1, <1>2, <1>3
<1>4. CASE decision # "decline"
  <2>1. seen.declined \in BOOLEAN /\ seen'.declined = (seen.declined \/ decision = "decline")
    BY Zenon DEF Seen
  <2> QED  BY <1>1, <1>2, <1>4, <2>1
<1> QED  BY <1>3, <1>4

\* An attempt is quiet, whether it is let through or fails the interaction.
LEMMA QuietAttempt ==
    ASSUME Inv, NEW patched, NEW now \in Nat, doc # NoDoc, doc.status # "pushed",
           patched \in Document, SameCore(patched), patched.auth = doc.auth,
           patched.decision = doc.decision, patched.status = doc.status,
           patched.expires_at = doc.expires_at, Attempt(patched, now)
    PROVE  QuietDoc /\ StoredTyped
<1>0. /\ doc \in Document /\ doc.attempts \in Nat /\ seen \in Seen /\ seen.tried \in Nat
      /\ doc.auth \subseteq seen.proven /\ alarm = doc.expires_at /\ alarm \in Nat
      /\ TypeOK /\ DocOk
  BY Zenon, Typed DEF Inv, TypeOK, IInv, DocOk, Document, Seen
<1>1. CASE doc.attempts < ATTEMPT_LIMIT
  <2>1. /\ doc' = [patched EXCEPT !.attempts = doc.attempts + 1]
        /\ seen' = [seen EXCEPT !.tried = @ + 1] /\ alarm' = alarm
    BY <1>1 DEF Attempt
  <2>2. /\ doc' \in Document /\ doc'.kind = patched.kind
        /\ doc'.existing_session = patched.existing_session
        /\ doc'.par_consumed = patched.par_consumed /\ doc'.auth = patched.auth
        /\ doc'.completing = patched.completing /\ doc'.status = patched.status
        /\ doc'.decision = patched.decision /\ doc'.expires_at = patched.expires_at
        /\ doc'.attempts = doc.attempts + 1
    BY <1>0, <2>1 DEF Document
  <2>3. /\ seen' \in Seen /\ seen'.proven = seen.proven /\ seen'.issued = seen.issued
        /\ seen'.answers = seen.answers /\ seen'.declined = seen.declined
        /\ seen'.loggedOut = seen.loggedOut /\ seen'.tried = seen.tried + 1
    BY <1>0, <2>1, SeenTried
  <2>4. Progress
    BY <1>0, <2>1, <2>2, <2>3 DEF Progress, SameCore
  <2> QED  BY <1>0, <1>1, <2>1, <2>2, <2>3, <2>4 DEF QuietDoc, Proves, StoredTyped
<1>2. CASE ~(doc.attempts < ATTEMPT_LIMIT)
  <2> DEFINE failed == [doc EXCEPT !.attempts = @ + 1]
  <2>1. Apply("fail", "failed", failed, now) /\ seen' = seen
    BY <1>2 DEF Attempt
  <2>2. /\ failed \in Document /\ SameCore(failed) /\ failed.auth = doc.auth
        /\ failed.decision = doc.decision /\ failed.attempts >= doc.attempts
    BY <1>0 DEF Document, SameCore
  <2> HIDE DEF failed
  <2>3. /\ (doc' = doc /\ alarm' = alarm) \/ Progress
        /\ doc' \in Document \cup {NoDoc} /\ alarm' \in Nat
    BY <1>0, <2>1, <2>2, QuietApply
  <2> QED  BY Zenon, <1>0, <2>1, <2>3 DEF QuietDoc, Proves, StoredTyped
<1> QED  BY <1>1, <1>2

-----------------------------------------------------------------------------
(* The quiet actions.                                                      *)

\* What a handler of the API may rely on after its guard.
LEMMA GuardHolds ==
    ASSUME Inv, NEW op, Guarded(op)
    PROVE  /\ doc \in Document /\ doc # NoDoc /\ doc.status # "pushed" /\ clock \in Nat
           /\ TypeOK /\ DocOk /\ doc.auth \subseteq seen.proven
           /\ doc.attempts \in Nat /\ alarm = doc.expires_at
BY Zenon DEF Inv, IInv, DocOk, Guarded, Live, TypeOK, Document

\* A step of the API that leaves the handlers and the world alone is quiet when what it
\* does to the document is, and keeps the types.
LEMMA QuietAlone ==
    ASSUME Inv, QuietDoc, StoredTyped, UNCHANGED <<clock, started, cookie, sessionLive, call>>,
           legs' \in Nat
    PROVE  Quiet /\ TypeOK'
<1>1. Quiet
  BY DEF Quiet, QuietCall
<1>2. TypeOK'
  BY DEF Inv, TypeOK, StoredTyped
<1> QED  BY <1>1, <1>2

\* The same of a step that changes nothing but the document, by one transition.
LEMMA QuietTransition ==
    ASSUME Inv, NEW op, Guarded(op), NEW operation, NEW to, NEW patched \in Document,
           operation \notin {"consume_par", "restart"}, SameCore(patched),
           patched.auth = doc.auth, patched.decision = doc.decision,
           patched.attempts = doc.attempts,
           Apply(operation, to, patched, clock), UNCHANGED <<world, call, seen>>
    PROVE  Quiet /\ TypeOK'
<1>0. seen' = seen /\ seen \in Seen /\ legs' = legs /\ legs \in Nat
  BY Typed DEF Inv, TypeOK, world
<1>1. /\ (doc' = doc /\ alarm' = alarm) \/ Progress
      /\ doc' \in Document \cup {NoDoc} /\ alarm' \in Nat
  BY <1>0, GuardHolds, QuietApply
<1>2. QuietDoc /\ StoredTyped
  BY <1>0, <1>1 DEF QuietDoc, Proves, StoredTyped
<1> QED  BY <1>0, <1>2, QuietAlone DEF world

\* Every step of the Interaction API that one request takes alone is quiet.
LEMMA ApiQuiet == ASSUME Inv, ApiNext PROVE Quiet /\ TypeOK'
<1>0. legs \in Nat
  BY DEF Inv, TypeOK
<1>1. CASE PasskeyOptions
  <2> DEFINE patched == [doc EXCEPT !.passkey_challenge = NewChallenge({})]
  <2>0. Guarded("passkey_options") /\ Attempt(patched, clock) /\ UNCHANGED <<world, call>>
    BY <1>1 DEF PasskeyOptions
  <2>1. NewChallenge({}) \subseteq Challenge
    BY <2>0, GuardHolds, TtlAssumption DEF NewChallenge, Challenge
  <2>2. /\ patched \in Document /\ SameCore(patched) /\ patched.auth = doc.auth
        /\ patched.decision = doc.decision /\ patched.status = doc.status
        /\ patched.expires_at = doc.expires_at
    BY <2>0, <2>1, GuardHolds DEF Document, SameCore
  <2> HIDE DEF patched
  <2>3. QuietDoc /\ StoredTyped
    BY <2>0, <2>2, GuardHolds, QuietAttempt
  <2> QED  BY <1>0, <2>0, <2>3, QuietAlone DEF world
<1>2. CASE StartLeg
  <2> DEFINE leg == {[state |-> legs + 1, expires_at |-> clock + FEDERATION_LEG_TTL_SECONDS]}
             patched == [doc EXCEPT !.federation = leg]
  <2>0. /\ Guarded("upstream") /\ Patch(patched, clock) /\ legs' = legs + 1
        /\ UNCHANGED <<clock, started, cookie, sessionLive, call, seen>>
    BY <1>2 DEF StartLeg
  <2>1. leg \subseteq Leg
    BY <1>0, <2>0, GuardHolds, TtlAssumption DEF Leg
  <2> HIDE DEF leg
  <2>2. /\ patched \in Document /\ SameCore(patched) /\ patched.auth = doc.auth
        /\ patched.decision = doc.decision /\ patched.status = doc.status
        /\ patched.expires_at = doc.expires_at /\ patched.attempts = doc.attempts
    BY <2>0, <2>1, GuardHolds DEF Document, SameCore
  <2> HIDE DEF patched
  <2>3. (doc' = doc \/ doc' = patched) /\ alarm' = alarm /\ seen' = seen
    BY <2>0 DEF Patch
  <2>4. (doc' = doc /\ alarm' = alarm) \/ Progress
    BY <2>0, <2>2, <2>3, GuardHolds DEF Progress, SameCore
  <2>5. QuietDoc /\ StoredTyped
    BY Zenon, <2>0, <2>2, <2>3, <2>4, GuardHolds, Typed
    DEF QuietDoc, Proves, StoredTyped, Document
  <2> QED  BY <1>0, <2>0, <2>5, QuietAlone
<1>3. CASE Abort
  <2>1. Guarded("abort") /\ Apply("abort", "failed", doc, clock) /\ UNCHANGED <<world, call, seen>>
    BY <1>3 DEF Abort
  <2> QED  BY Zenon, <2>1, GuardHolds, QuietTransition DEF SameCore
<1>4. ASSUME NEW uid \in Sessions, RegisterOptions(uid) PROVE Quiet /\ TypeOK'
  <2> DEFINE options == [doc EXCEPT !.passkey_challenge = NewChallenge(uid),
                                    !.registration = TRUE]
             patched == IF uid = {} THEN doc ELSE options
  <2>0. Guarded("register_options") /\ Attempt(patched, clock) /\ UNCHANGED <<world, call>>
    BY <1>4 DEF RegisterOptions
  <2>1. NewChallenge(uid) \subseteq Challenge
    BY <2>0, GuardHolds, TtlAssumption DEF NewChallenge, Challenge, Sessions
  <2>2. /\ options \in Document /\ SameCore(options) /\ options.auth = doc.auth
        /\ options.decision = doc.decision /\ options.status = doc.status
        /\ options.expires_at = doc.expires_at
    BY Zenon, <2>0, <2>1, GuardHolds DEF Document, SameCore
  <2> HIDE DEF options
  <2>3. /\ patched \in Document /\ SameCore(patched) /\ patched.auth = doc.auth
        /\ patched.decision = doc.decision /\ patched.status = doc.status
        /\ patched.expires_at = doc.expires_at
    BY Zenon, <2>0, <2>2, GuardHolds DEF SameCore
  <2> HIDE DEF patched
  <2>4. QuietDoc /\ StoredTyped
    BY <2>0, <2>3, GuardHolds, QuietAttempt
  <2> QED  BY <1>0, <2>0, <2>4, QuietAlone DEF world
<1>5. ASSUME NEW grant \in BOOLEAN, Consent(grant) PROVE Quiet /\ TypeOK'
  <2>1. /\ Guarded("consent") /\ UNCHANGED <<world, call, seen>>
        /\ \/ Apply("consent", "ready", doc, clock)
           \/ Apply("consent", "failed", doc, clock)
    BY <1>5 DEF Consent
  <2> QED  BY <2>1, GuardHolds, QuietTransition DEF SameCore
<1>6. ASSUME NEW decision \in {"confirm", "decline"}, LogoutDecision(decision)
      PROVE  Quiet /\ TypeOK'
  <2> DEFINE patched == [doc EXCEPT !.decision = decision]
  <2>0. /\ Guarded("logout") /\ Apply("logout_decision", "ready", patched, clock)
        /\ seen' = [seen EXCEPT !.declined = @ \/ decision = "decline"]
        /\ UNCHANGED <<world, call>>
    BY <1>6 DEF LogoutDecision
  <2>1. doc.kind = "logout" /\ doc.status = "login_required" /\ Live(clock)
    BY <2>0 DEF Guarded, Accepts
  <2>2. /\ patched \in Document /\ SameCore(patched) /\ patched.auth = doc.auth
        /\ patched.decision = decision /\ patched.attempts = doc.attempts
    BY <2>0, GuardHolds DEF Document, SameCore
  <2> HIDE DEF patched
  <2>3. /\ seen' \in Seen /\ seen'.proven = seen.proven /\ seen'.issued = seen.issued
        /\ seen'.answers = seen.answers /\ seen'.tried = seen.tried
        /\ seen'.loggedOut = seen.loggedOut
        /\ seen'.declined = seen.declined \/ decision = "decline"
    BY <2>0, Typed, SeenDecided DEF Inv
  <2>4. /\ (doc' = doc /\ alarm' = alarm) \/ (Progress /\ Moved(patched, "ready"))
        /\ doc' \in Document \cup {NoDoc} /\ alarm' \in Nat
    BY <2>0, <2>1, <2>2, <2>3, GuardHolds, QuietApply
  <2>5. "ready" \in TRANSITIONS(doc.status, "logout_decision")
    BY <2>1 DEF TRANSITIONS
  <2>6. doc'.status = "ready"
    BY Zenon, <2>0, <2>1, <2>2, <2>5 DEF Apply, Applied, Document
  <2>7. Progress /\ Moved(patched, "ready")
    BY <2>1, <2>4, <2>6
  <2>8. QuietDoc /\ StoredTyped
    BY Zenon, <2>1, <2>2, <2>3, <2>4, <2>7 DEF QuietDoc, Proves, StoredTyped, Moved
  <2> QED  BY <1>0, <2>0, <2>8, QuietAlone DEF world
<1> QED  BY <1>1, <1>2, <1>3, <1>4, <1>5, <1>6 DEF ApiNext

\* What a handler that is under way, and not engaged, may rely on.
LEMMA HandlerHolds ==
    ASSUME Inv, NEW p \in Procs, call[p].pc \in {"attempt", "apply", "claim"}
    PROVE  /\ call[p] \in Call /\ call[p].now \in Nat /\ call[p].uid \subseteq Users
           /\ TypeOK /\ DocOk /\ started /\ seen \in Seen
           /\ doc # NoDoc => /\ doc \in Document /\ doc.status # "pushed"
                             /\ doc.auth \subseteq seen.proven /\ doc.attempts \in Nat
                             /\ alarm = doc.expires_at
<1>1. call[p] \in Call /\ TypeOK /\ DocOk /\ seen \in Seen
  BY Typed DEF Inv, IInv, Idle
<1>2. started
  BY DEF Inv, IInv, Fresh, Idle
<1>3. WaitingOk(call[p])
  BY DEF Inv, IInv
<1>4. doc # NoDoc => /\ doc \in Document /\ doc.status # "pushed"
                     /\ doc.auth \subseteq seen.proven /\ doc.attempts \in Nat
                     /\ alarm = doc.expires_at
  BY <1>1, <1>3, Typed DEF DocOk, Document, WaitingOk
<1> QED  BY Zenon, <1>1, <1>2, <1>4 DEF Call

\* A step of one handler is quiet when what it does to the document is, and the handler
\* answers or goes on without being engaged.
LEMMA QuietHandler ==
    ASSUME Inv, QuietDoc, StoredTyped, UNCHANGED world, NEW p \in Procs, NEW c,
           call' = [call EXCEPT ![p] = c],
           \/ c = Idle
           \/ started /\ c \in Call /\ ~Engaged(c) /\ WaitingOk(call[p])'
    PROVE  Quiet /\ TypeOK'
<1>1. call \in [Procs -> Call \cup {Idle}]
  BY DEF Inv, TypeOK
<1>2. call'[p] = c /\ \A q \in Procs \ {p} : call'[q] = call[q]
  BY <1>1
<1>3. QuietCall
  BY <1>2 DEF QuietCall
<1>4. Quiet
  BY <1>3 DEF Quiet, world
<1>5. call' \in [Procs -> Call \cup {Idle}]
  BY <1>1
<1>6. TypeOK'
  BY Zenon, <1>5 DEF Inv, TypeOK, StoredTyped, world
<1> QED  BY <1>4, <1>6

\* Nothing stored changes.
LEMMA QuietNothing == ASSUME Inv, UNCHANGED <<object, seen>> PROVE QuietDoc /\ StoredTyped
<1>1. QuietDoc
  BY DEF QuietDoc, Proves, object
<1>2. StoredTyped
  BY DEF StoredTyped, object, Inv, TypeOK
<1> QED  BY <1>1, <1>2

\* A handler that answers without a call to the document is quiet.
LEMMA QuietRespond ==
    ASSUME Inv, NEW p \in Procs, Respond(p), UNCHANGED <<object, world, seen>>
    PROVE  Quiet /\ TypeOK'
BY Zenon, QuietNothing, QuietHandler DEF Respond

\* All the history says is that somebody proved who they are, or nothing.
ProvenAtMostOne ==
    seen' = seen \/ \E u \in Users : seen' = [seen EXCEPT !.proven = @ \cup {u}]

\* A handler that makes one transition and answers is quiet.
LEMMA QuietAnswer ==
    ASSUME Inv, NEW p \in Procs, call[p].pc = "apply", NEW operation, NEW to, NEW patched,
           operation \notin {"consume_par", "restart"},
           doc # NoDoc => /\ patched \in Document /\ SameCore(patched)
                          /\ patched.auth \subseteq seen'.proven
                          /\ patched.decision = doc.decision
                          /\ patched.attempts = doc.attempts,
           Apply(operation, to, patched, call[p].now),
           ProvenAtMostOne, Respond(p), UNCHANGED world
    PROVE  Quiet /\ TypeOK'
<1>1. /\ seen' \in Seen /\ Proves
      /\ seen'.tried = seen.tried /\ seen'.declined = seen.declined
      /\ seen'.loggedOut = seen.loggedOut
  <2>1. CASE seen' = seen
    BY Zenon, <2>1, HandlerHolds DEF Proves
  <2>2. CASE \E u \in Users : seen' = [seen EXCEPT !.proven = @ \cup {u}]
    <3> PICK u \in Users : seen' = [seen EXCEPT !.proven = @ \cup {u}]
      BY Zenon, <2>2
    <3>1. {u} \in SUBSET Users
      OBVIOUS
    <3> QED  BY Zenon, <3>1, HandlerHolds, SeenProven DEF Proves
  <2> QED  BY <2>1, <2>2 DEF ProvenAtMostOne
<1>2. doc # NoDoc => patched.attempts >= doc.attempts
  BY HandlerHolds
<1>3. /\ (doc' = doc /\ alarm' = alarm) \/ Progress
      /\ doc' \in Document \cup {NoDoc} /\ alarm' \in Nat
  BY Zenon, <1>2, HandlerHolds, QuietApply
<1>4. QuietDoc /\ StoredTyped
  BY Zenon, <1>1, <1>3 DEF QuietDoc, StoredTyped
<1> QED  BY Zenon, <1>4, QuietHandler DEF Respond

\* What follows a successful authentication is quiet.
LEMMA AuthenticateQuiet ==
    ASSUME Inv, NEW p \in Procs, NEW uid \in Users, call[p].pc = "apply",
           NEW operation \in {"link", "authenticate"},
           AuthenticateInteraction(p, uid, operation)
    PROVE  Quiet /\ TypeOK'
<1>0. /\ seen' = [seen EXCEPT !.proven = @ \cup {uid}] /\ Respond(p) /\ UNCHANGED world
      /\ ProvenAtMostOne
  BY DEF AuthenticateInteraction, ProvenAtMostOne
<1>1. seen'.proven = seen.proven \cup {uid}
  <2>1. {uid} \in SUBSET Users
    OBVIOUS
  <2> QED  BY <1>0, <2>1, HandlerHolds, SeenProven
<1>2. CASE Apply(operation, "failed", doc, call[p].now)
  <2>1. doc # NoDoc => /\ doc \in Document /\ SameCore(doc)
                       /\ doc.auth \subseteq seen'.proven
    BY <1>1, HandlerHolds DEF SameCore
  <2> QED  BY Zenon, <1>0, <1>2, <2>1, QuietAnswer
<1>3. ASSUME NEW status, Apply(operation, status, [doc EXCEPT !.auth = {uid}], call[p].now)
      PROVE  Quiet /\ TypeOK'
  <2> DEFINE patched == [doc EXCEPT !.auth = {uid}]
  <2>1. doc # NoDoc => /\ patched \in Document /\ SameCore(patched)
                       /\ patched.auth = {uid} /\ patched.decision = doc.decision
                       /\ patched.attempts = doc.attempts
    BY HandlerHolds DEF SameCore, Document
  <2>2. Apply(operation, status, patched, call[p].now)
    BY <1>3
  <2> HIDE DEF patched
  <2> QED  BY Zenon, <1>0, <1>1, <2>1, <2>2, QuietAnswer
<1> QED  BY <1>2, <1>3 DEF AuthenticateInteraction

\* Only users can answer a challenge.
LEMMA AnswerableUsers ==
    ASSUME doc \in Document, NEW op \in Verifying
    PROVE  Answerable(op) \subseteq Users
<1>1. \A ch \in doc.passkey_challenge : ch.pending_uid \subseteq Users
  BY DEF Document, Challenge
<1>2. doc.link \subseteq Users
  BY DEF Document
<1>3. CASE op = "passkey_login"
  BY <1>3 DEF Answerable
<1>4. CASE op = "passkey_link"
  BY <1>2, <1>4 DEF Answerable
<1>5. CASE op = "register"
  BY <1>1, <1>5 DEF Answerable
<1> QED  BY <1>3, <1>4, <1>5 DEF Verifying

\* What a handler may hold ...
CallParts(pc, op, now, read, uid, outcome) ==
    /\ pc \in {"attempt", "apply", "settle", "claim", "restart", "finish"}
    /\ op \in {"authorize", "passkey_login", "passkey_link", "register", "callback",
               "complete"}
    /\ now \in Nat /\ read \in Fields /\ uid \in SUBSET Users
    /\ outcome \in {"none", "authorized", "not_allowed", "login_required",
                    "consent_required", "code", "error", "logout"}

\* ... makes a call.
LEMMA CallTyped ==
    ASSUME NEW pc, NEW op, NEW now, NEW read, NEW uid, NEW outcome,
           CallParts(pc, op, now, read, uid, outcome)
    PROVE  [pc |-> pc, op |-> op, now |-> now, doc |-> read, uid |-> uid,
            outcome |-> outcome] \in Call
BY DEF Call, CallParts

\* A handler starts: what it holds, and that it waits.
LEMMA QuietBegin ==
    ASSUME Inv, QuietDoc, StoredTyped, UNCHANGED world, NEW p \in Procs,
           NEW pc \in {"attempt", "apply"},
           NEW op \in {"passkey_login", "passkey_link", "register", "callback"},
           NEW uid \in SUBSET Users, doc # NoDoc, doc' # NoDoc => doc'.status # "pushed",
           Begin(p, pc, op, NoFields, uid, "none")
    PROVE  Quiet /\ TypeOK'
<1> DEFINE c == [pc |-> pc, op |-> op, now |-> clock, doc |-> NoFields, uid |-> uid,
                 outcome |-> "none"]
<1>1. call' = [call EXCEPT ![p] = c]
  BY DEF Begin
<1>2. clock \in Nat /\ started
  BY Zenon DEF Inv, TypeOK, IInv, DocOk
<1>3. NoFields \in Fields
  BY Zenon DEF NoFields, Fields, INTERACTION_STATUSES
<1>4. c \in Call
  <2>1. CallParts(pc, op, clock, NoFields, uid, "none")
    BY Zenon, <1>2, <1>3 DEF CallParts
  <2> QED  BY Zenon, <2>1, CallTyped
<1>5. c.pc = pc
  OBVIOUS
<1> HIDE DEF c
<1>6. call'[p] = c
  BY <1>1 DEF Inv, TypeOK
<1>7. ~Engaged(c) /\ WaitingOk(call[p])'
  BY Zenon, <1>5, <1>6 DEF Engaged, WaitingOk
<1> QED  BY Zenon, <1>1, <1>2, <1>4, <1>7, QuietHandler

\* Reading the challenge is quiet.
LEMMA BeginVerifyQuiet ==
    ASSUME Inv, NEW p \in Procs, NEW op \in Verifying, BeginVerify(p, op)
    PROVE  Quiet /\ TypeOK'
<1>1. \E api : Guarded(api)
  BY Zenon DEF BeginVerify, Verifying
<1>2. doc \in Document /\ doc # NoDoc /\ doc.status # "pushed"
  BY <1>1, GuardHolds
<1>3. Answerable(op) \in SUBSET Users
  BY <1>2, AnswerableUsers
<1>4. /\ UNCHANGED <<object, seen>> /\ UNCHANGED world /\ doc' = doc
      /\ Begin(p, "attempt", op, NoFields, Answerable(op), "none")
  BY DEF BeginVerify, object
<1>5. QuietDoc /\ StoredTyped
  BY <1>4, QuietNothing
<1> HIDE DEF Answerable
<1> QED  BY <1>2, <1>3, <1>4, <1>5, QuietBegin DEF Verifying

\* Consuming the challenge is quiet.
LEMMA ConsumeChallengeQuiet ==
    ASSUME Inv, NEW p \in Procs, NEW wellFormed \in BOOLEAN, ConsumeChallenge(p, wellFormed)
    PROVE  Quiet /\ TypeOK'
<1> DEFINE burnt == [doc EXCEPT !.passkey_challenge = {},
                                !.registration = @ /\ call[p].op # "register"]
           patched == IF wellFormed THEN burnt ELSE doc
           next == [call[p] EXCEPT !.pc = "apply"]
           open == Live(call[p].now) /\ ~isTerminal(doc.status)
<1>0. /\ UNCHANGED world /\ call[p].pc = "attempt"
      /\ \/ open /\ Attempt(patched, call[p].now)
         \/ UNCHANGED <<object, seen>>
      /\ Goto(p, "apply") \/ Respond(p)
  BY DEF ConsumeChallenge, At
<1>1. call[p] \in Call /\ call[p].now \in Nat /\ started
  BY <1>0, HandlerHolds
<1>2. QuietDoc /\ StoredTyped
  <2>1. CASE open /\ Attempt(patched, call[p].now)
    <3>1. doc # NoDoc /\ doc \in Document /\ doc.status # "pushed"
      BY <1>0, <2>1, HandlerHolds DEF Live
    <3>2. /\ burnt \in Document /\ SameCore(burnt) /\ burnt.auth = doc.auth
          /\ burnt.decision = doc.decision /\ burnt.status = doc.status
          /\ burnt.expires_at = doc.expires_at
      BY Zenon, <3>1 DEF Document, SameCore
    <3> HIDE DEF burnt
    <3>3. /\ patched \in Document /\ SameCore(patched) /\ patched.auth = doc.auth
          /\ patched.decision = doc.decision /\ patched.status = doc.status
          /\ patched.expires_at = doc.expires_at
      BY Zenon, <3>1, <3>2 DEF SameCore
    <3> HIDE DEF patched
    <3> QED  BY Zenon, <1>1, <2>1, <3>1, <3>3, QuietAttempt
  <2>2. CASE UNCHANGED <<object, seen>>
    BY <2>2, QuietNothing
  <2> QED  BY <1>0, <2>1, <2>2
<1>3. CASE Respond(p)
  BY Zenon, <1>0, <1>2, <1>3, QuietHandler DEF Respond
<1>4. CASE Goto(p, "apply")
  <2>1. call' = [call EXCEPT ![p] = next] /\ next \in Call /\ next.pc = "apply"
    BY <1>1, <1>4 DEF Goto, Call
  <2> HIDE DEF next
  <2>2. call'[p] = next
    BY <2>1 DEF Inv, TypeOK
  <2>3. doc' # NoDoc => doc'.status # "pushed"
    BY <1>0, <1>2, HandlerHolds DEF QuietDoc, Progress
  <2>4. ~Engaged(next) /\ WaitingOk(call[p])'
    BY Zenon, <2>1, <2>2, <2>3 DEF Engaged, WaitingOk
  <2> QED  BY Zenon, <1>0, <1>1, <1>2, <2>1, <2>4, QuietHandler
<1> QED  BY <1>0, <1>3, <1>4

\* The passkey and the registration handlers are quiet.
LEMMA VerifyQuiet == ASSUME Inv, NEW p \in Procs, VerifyNext(p) PROVE Quiet /\ TypeOK'
<1>1. ASSUME NEW uid \in Users, VerifyPasskey(p, uid) PROVE Quiet /\ TypeOK'
  <2>1. call[p].pc = "apply" /\ \E o \in {"link", "authenticate"} :
            AuthenticateInteraction(p, uid, o)
    BY Zenon, <1>1 DEF VerifyPasskey, At
  <2> QED  BY Zenon, <2>1, AuthenticateQuiet
<1>2. ASSUME NEW uid \in Users, VerifyRegistration(p, uid) PROVE Quiet /\ TypeOK'
  <2>1. call[p].pc = "apply" /\ AuthenticateInteraction(p, uid, "authenticate")
    BY <1>2 DEF VerifyRegistration, At
  <2> QED  BY Zenon, <2>1, AuthenticateQuiet
<1> QED  BY <1>1, <1>2, BeginVerifyQuiet, ConsumeChallengeQuiet DEF VerifyNext

\* The federation callback is quiet.
LEMMA FederationQuiet == ASSUME Inv, NEW p \in Procs, FederationNext(p) PROVE Quiet /\ TypeOK'
<1>1. ASSUME NEW state \in 1..MaxLegs, ConsumeFederation(p, state) PROVE Quiet /\ TypeOK'
  <2>0. /\ doc # NoDoc /\ doc \in Document /\ doc.status = "login_required"
        /\ doc' = [doc EXCEPT !.federation = {}] /\ alarm' = alarm /\ seen' = seen
        /\ UNCHANGED world /\ seen \in Seen /\ alarm \in Nat
        /\ alarm = doc.expires_at /\ doc.auth \subseteq seen.proven /\ doc.attempts \in Nat
        /\ Begin(p, "apply", "callback", NoFields, Users, "none")
    BY Zenon, <1>1, Typed DEF ConsumeFederation, Consumable, Live, Inv, TypeOK, IInv, DocOk, Document
  <2>1. /\ doc' \in Document /\ doc'.kind = doc.kind /\ doc'.status = doc.status
        /\ doc'.existing_session = doc.existing_session /\ doc'.auth = doc.auth
        /\ doc'.par_consumed = doc.par_consumed /\ doc'.completing = doc.completing
        /\ doc'.decision = doc.decision /\ doc'.attempts = doc.attempts
        /\ doc'.expires_at = doc.expires_at
    BY <2>0 DEF Document
  <2>2. Progress
    BY <2>0, <2>1 DEF Progress
  <2>3. QuietDoc /\ StoredTyped
    BY <2>0, <2>1, <2>2 DEF QuietDoc, Proves, StoredTyped
  <2>4. Users \in SUBSET Users
    OBVIOUS
  <2> QED  BY <2>0, <2>1, <2>3, <2>4, QuietBegin
<1>2. CASE RefuseUpstream(p)
  <2>1. /\ call[p].pc = "apply" /\ Apply("fail", "failed", doc, call[p].now)
        /\ Respond(p) /\ UNCHANGED world /\ ProvenAtMostOne
    BY <1>2 DEF RefuseUpstream, At, FailInteraction, ProvenAtMostOne
  <2>2. doc # NoDoc => /\ doc \in Document /\ SameCore(doc) /\ doc.auth \subseteq seen'.proven
    BY Zenon, <1>2, <2>1, HandlerHolds DEF SameCore, RefuseUpstream, FailInteraction
  <2>3. "fail" \notin {"consume_par", "restart"}
    OBVIOUS
  <2> QED  BY Zenon, <2>1, <2>2, <2>3, QuietAnswer
<1>3. ASSUME NEW uid \in Users, ProposeLink(p, uid) PROVE Quiet /\ TypeOK'
  <2> DEFINE patched == [doc EXCEPT !.link = {uid}]
  <2>1. /\ call[p].pc = "apply"
        /\ Apply("authenticate", "link_required", patched, call[p].now)
        /\ Respond(p) /\ UNCHANGED world /\ ProvenAtMostOne
    BY <1>3 DEF ProposeLink, At, ProvenAtMostOne
  <2>2. doc # NoDoc => /\ patched \in Document /\ SameCore(patched)
                       /\ patched.auth = doc.auth /\ patched.decision = doc.decision
                       /\ patched.attempts = doc.attempts
    BY <2>1, HandlerHolds DEF SameCore, Document
  <2>3. doc # NoDoc => doc.auth \subseteq seen'.proven
    BY <1>3, <2>1, HandlerHolds DEF ProposeLink
  <2>4. "authenticate" \notin {"consume_par", "restart"}
    OBVIOUS
  <2> HIDE DEF patched
  <2> QED  BY Zenon, <2>1, <2>2, <2>3, <2>4, QuietAnswer
<1>4. ASSUME NEW uid \in Users, ResolveAccount(p, uid) PROVE Quiet /\ TypeOK'
  <2>1. call[p].pc = "apply" /\ AuthenticateInteraction(p, uid, "authenticate")
    BY <1>4 DEF ResolveAccount, At
  <2> QED  BY <2>1, AuthenticateQuiet
<1> QED  BY <1>1, <1>2, <1>3, <1>4 DEF FederationNext

\* Reading the document for its completion is quiet: the handler has seen a document
\* that only a claim or the alarm changes from now on.
LEMMA GetForCompletionQuiet ==
    ASSUME Inv, NEW p \in Procs, GetForCompletion(p) PROVE Quiet /\ TypeOK'
<1> DEFINE read == FieldsOf(doc)
           c == [pc |-> "claim", op |-> "complete", now |-> clock, doc |-> read,
                 uid |-> {}, outcome |-> "none"]
<1>0. /\ doc # NoDoc /\ doc \in Document /\ cookie /\ doc.status \in {"ready", "failed"}
      /\ clock \in Nat /\ started /\ doc.kind # "par"
      /\ doc.auth \cup doc.existing_session \subseteq seen.proven
  BY Zenon, Typed DEF GetForCompletion, Live, Inv, TypeOK, IInv, DocOk, Takeable
<1>1. /\ UNCHANGED <<object, seen>> /\ UNCHANGED world
      /\ doc' = doc /\ seen' = seen /\ cookie' = cookie
      /\ call' = [call EXCEPT ![p] = c]
  BY Zenon DEF GetForCompletion, Begin, object, world
<1>2. read \in Fields
  BY Zenon, <1>0 DEF FieldsOf, Fields, Document
<1>3. /\ read.kind = doc.kind /\ read.auth = doc.auth /\ read.decision = doc.decision
      /\ read.existing_session = doc.existing_session
  BY Zenon DEF FieldsOf
<1> HIDE DEF read
<1>4. c \in Call
  <2>1. CallParts("claim", "complete", clock, read, {}, "none")
    BY Zenon, <1>0, <1>2 DEF CallParts
  <2> QED  BY Zenon, <2>1, CallTyped
<1>5. c.pc = "claim" /\ c.doc = read
  BY Zenon
<1> HIDE DEF c
<1>6. call'[p] = c
  BY <1>1 DEF Inv, TypeOK
<1>7. ~Engaged(c) /\ WaitingOk(call[p])'
  BY Zenon, <1>0, <1>1, <1>3, <1>5, <1>6 DEF Engaged, WaitingOk
<1>8. QuietDoc /\ StoredTyped
  BY <1>1, QuietNothing
<1> QED  BY Zenon, <1>0, <1>1, <1>4, <1>7, <1>8, QuietHandler

\* So are the alarm, the clock, and the end of the session elsewhere.
LEMMA WorldQuiet == ASSUME Inv, Alarm \/ SessionEnds \/ Tick PROVE Quiet /\ TypeOK'
<1>1. CASE Alarm
  <2>1. /\ doc' = NoDoc /\ alarm' = alarm /\ seen' = seen /\ alarm \in Nat /\ seen \in Seen
        /\ UNCHANGED <<clock, started, cookie, sessionLive, call>> /\ legs' \in Nat
    BY Zenon, <1>1 DEF Alarm, world, Inv, TypeOK
  <2>2. QuietDoc /\ StoredTyped
    BY <2>1 DEF QuietDoc, Proves, StoredTyped
  <2> QED  BY <2>1, <2>2, QuietAlone
<1>2. ASSUME UNCHANGED <<object, started, cookie, legs, call, seen>>,
             clock' \in Nat, sessionLive' \in BOOLEAN
      PROVE  Quiet /\ TypeOK'
  <2>1. QuietDoc /\ StoredTyped
    BY <1>2, QuietNothing
  <2>2. Quiet
    BY <1>2, <2>1 DEF Quiet, QuietCall
  <2>3. TypeOK'
    BY Zenon, <1>2, <2>1 DEF StoredTyped, Inv, TypeOK
  <2> QED  BY <2>2, <2>3
<1>3. CASE SessionEnds
  <2>1. clock' \in Nat /\ sessionLive' \in BOOLEAN
    BY Zenon, <1>3 DEF SessionEnds, Inv, TypeOK
  <2> QED  BY <1>2, <1>3, <2>1 DEF SessionEnds
<1>4. CASE Tick
  <2>1. clock' \in Nat /\ sessionLive' \in BOOLEAN
    BY <1>4 DEF Tick, Inv, TypeOK
  <2> QED  BY <1>2, <1>4, <2>1 DEF Tick
<1> QED  BY <1>1, <1>3, <1>4

-----------------------------------------------------------------------------
(* Where an interaction starts.                                            *)

\* The document that is created.
Created(kind, status, session) ==
    /\ doc' \in Document /\ doc'.kind = kind /\ doc'.status = status
    /\ doc'.existing_session = session /\ doc'.auth = {} /\ doc'.par_consumed = FALSE
    /\ alarm' = doc'.expires_at /\ ~started /\ started' = TRUE

\* What creating a document leaves.
LEMMA CreateTyped ==
    ASSUME clock \in Nat, NEW kind \in {"authorize", "logout", "par"},
           NEW status \in {"pushed", "login_required", "consent_required"},
           NEW session \in SUBSET Users, NEW ttl \in Nat,
           Create(NewDoc(kind, status, session, ttl))
    PROVE  Created(kind, status, session)
<1>1. status \in INTERACTION_STATUSES /\ clock + ttl \in Nat
  BY DEF INTERACTION_STATUSES
<1>2. /\ doc' = NewDoc(kind, status, session, ttl) /\ alarm' = doc'.expires_at
      /\ ~started /\ started' = TRUE
  BY DEF Create
<1>3. doc' \in Document
  BY Zenon, <1>1, <1>2 DEF NewDoc, Document
<1>4. /\ doc'.kind = kind /\ doc'.status = status /\ doc'.existing_session = session
      /\ doc'.auth = {} /\ doc'.par_consumed = FALSE
  BY <1>2, Zenon DEF NewDoc
<1> QED  BY Zenon, <1>2, <1>3, <1>4 DEF Created

\* Creating a document starts the interaction.
LEMMA CreateStarts ==
    ASSUME Inv, NEW kind \in {"authorize", "logout", "par"},
           NEW status \in {"pushed", "login_required", "consent_required"},
           NEW session \in SUBSET Users, Created(kind, status, session),
           status = "pushed" => kind = "par" /\ cookie' = cookie,
           kind = "par" => status = "pushed",
           UNCHANGED <<clock, sessionLive, legs, call>>, cookie' \in BOOLEAN,
           seen' \in Seen, Proves, session \subseteq seen'.proven,
           seen'.tried = seen.tried, seen'.declined = seen.declined,
           seen'.loggedOut = seen.loggedOut
    PROVE  Start /\ TypeOK'
<1>1. /\ ~started /\ started' = TRUE /\ ~cookie
      /\ doc' \in Document /\ doc'.kind = kind /\ doc'.status = status
      /\ doc'.existing_session = session /\ doc'.auth = {} /\ doc'.par_consumed = FALSE
      /\ alarm' = doc'.expires_at
  BY Zenon DEF Created, Inv, IInv, Fresh
<1>2. Takeable(doc') => ~cookie'
  BY <1>1 DEF Takeable
<1>3. (kind = "logout" => status # "pushed") /\ (kind = "par" => Takeable(doc'))
  BY <1>1 DEF Takeable
<1>4. Start
  BY Zenon, <1>1, <1>2, <1>3 DEF Start
<1>5. alarm' \in Nat
  BY Zenon, <1>1 DEF Document
<1>6. TypeOK'
  BY Zenon, <1>1, <1>5 DEF Inv, TypeOK
<1> QED  BY <1>4, <1>6

\* Every way an interaction starts.
LEMMA StartShape == ASSUME Inv, StartNext PROVE Start /\ TypeOK'
<1>0. /\ seen \in Seen /\ InteractionTtl \in Nat /\ REQUEST_URI_TTL_SECONDS \in Nat
      /\ cookie \in BOOLEAN /\ clock \in Nat
  BY TtlAssumption DEF Inv, TypeOK
<1>1. CASE Par
  <2>1. /\ Create(NewDoc("par", "pushed", {}, REQUEST_URI_TTL_SECONDS)) /\ seen' = seen
        /\ cookie' = cookie /\ UNCHANGED <<clock, sessionLive, legs, call>>
    BY <1>1 DEF Par
  <2>2. Proves
    BY <2>1 DEF Proves
  <2>3. Created("par", "pushed", {})
    BY <1>0, <2>1, CreateTyped
  <2> QED  BY <1>0, <2>1, <2>2, <2>3, CreateStarts
<1>2. CASE Logout
  <2>1. /\ Create(NewDoc("logout", "login_required", {}, InteractionTtl)) /\ seen' = seen
        /\ cookie' = TRUE /\ UNCHANGED <<clock, sessionLive, legs, call>>
    BY <1>2 DEF Logout, StartInteraction
  <2>2. Proves
    BY <2>1 DEF Proves
  <2>3. Created("logout", "login_required", {})
    BY <1>0, <2>1, CreateTyped
  <2> QED  BY <1>0, <2>1, <2>2, <2>3, CreateStarts
<1>3. ASSUME NEW session \in Sessions, NEW status \in {"login_required", "consent_required"},
             Authorize(session, status)
      PROVE  Start /\ TypeOK'
  <2>1. /\ Create(NewDoc("authorize", status, session, InteractionTtl))
        /\ seen' = [seen EXCEPT !.proven = @ \cup session]
        /\ cookie' = TRUE /\ UNCHANGED <<clock, sessionLive, legs, call>>
    BY <1>3 DEF Authorize, StartInteraction
  <2>2. session \in SUBSET Users
    BY DEF Sessions
  <2>3. /\ seen' \in Seen /\ seen'.proven = seen.proven \cup session
        /\ seen'.issued = seen.issued /\ seen'.answers = seen.answers
        /\ seen'.declined = seen.declined /\ seen'.loggedOut = seen.loggedOut
        /\ seen'.tried = seen.tried
    BY Zenon, <1>0, <2>1, <2>2, SeenProven
  <2>4. Proves
    BY <2>3 DEF Proves, Sessions
  <2>5. Created("authorize", status, session)
    BY <1>0, <2>1, <2>2, CreateTyped
  <2> QED  BY Zenon, <1>0, <2>1, <2>2, <2>3, <2>4, <2>5, CreateStarts
<1> QED  BY <1>1, <1>2, <1>3 DEF StartNext

-----------------------------------------------------------------------------
(* Taking the right to answer.  Told is the step of Authorization.         *)

Told == Authorization!Next \/ UNCHANGED <<seen.proven, seen.issued, seen.answers>>

\* A step that neither issues nor answers.
LEMMA ProvesTold == ASSUME Proves PROVE Told
BY DEF Proves, Told, Authorization!Next, Authorization!Prove

\* A step that issues the one code.
Issues(u) ==
    /\ Untouched /\ u \in Users /\ u \in seen'.proven
    /\ seen'.proven = seen.proven \/ seen'.proven = seen.proven \cup {u}
    /\ seen'.issued = <<u>> /\ seen'.answers = seen.answers

\* Issuing it is a step of Authorization.
LEMMA IssuesTold == ASSUME NEW u, Issues(u) PROVE Told
BY DEF Issues, Untouched, Told, Authorization!Next, Authorization!Issue

\* The code of a claimed request changes nothing else of the history.
LEMMA SeenClaimed ==
    ASSUME seen \in Seen, NEW more \in SUBSET Users, NEW codes \in Seq(Users),
           seen' = [seen EXCEPT !.proven = @ \cup more, !.issued = codes]
    PROVE  /\ seen' \in Seen /\ seen'.proven = seen.proven \cup more
           /\ seen'.issued = codes
           /\ seen'.answers = seen.answers /\ seen'.declined = seen.declined
           /\ seen'.loggedOut = seen.loggedOut /\ seen'.tried = seen.tried
<1>1. seen' \in Seen
  BY Zenon DEF Seen
<1>2. /\ seen'.proven = seen.proven \cup more /\ seen'.issued = codes
      /\ seen'.answers = seen.answers /\ seen'.tried = seen.tried
      /\ seen'.declined = seen.declined /\ seen'.loggedOut = seen.loggedOut
  BY Zenon DEF Seen
<1> QED  BY <1>1, <1>2

\* A code, and nothing else.
LEMMA SeenIssued ==
    ASSUME seen \in Seen, NEW codes \in Seq(Users), seen' = [seen EXCEPT !.issued = codes]
    PROVE  /\ seen' \in Seen /\ seen'.proven = seen.proven /\ seen'.issued = codes
           /\ seen'.answers = seen.answers /\ seen'.declined = seen.declined
           /\ seen'.loggedOut = seen.loggedOut /\ seen'.tried = seen.tried
<1>1. seen' \in Seen
  BY Zenon DEF Seen
<1>2. /\ seen'.proven = seen.proven /\ seen'.issued = codes
      /\ seen'.answers = seen.answers /\ seen'.tried = seen.tried
      /\ seen'.declined = seen.declined /\ seen'.loggedOut = seen.loggedOut
  BY Zenon DEF Seen
<1> QED  BY <1>1, <1>2

\* The end of the session, and nothing else.
LEMMA SeenLoggedOut ==
    ASSUME seen \in Seen, NEW ends,
           seen' = [seen EXCEPT !.loggedOut = @ \/ ends]
    PROVE  /\ seen' \in Seen /\ seen'.proven = seen.proven /\ seen'.issued = seen.issued
           /\ seen'.answers = seen.answers /\ seen'.tried = seen.tried
           /\ seen'.declined = seen.declined
           /\ seen'.loggedOut = seen.loggedOut \/ ends
<1>1. seen' \in Seen
  BY Zenon DEF Seen
<1>2. /\ seen'.proven = seen.proven /\ seen'.issued = seen.issued
      /\ seen'.answers = seen.answers /\ seen'.tried = seen.tried
      /\ seen'.declined = seen.declined
      /\ seen'.loggedOut = (seen.loggedOut \/ ends) /\ seen.loggedOut \in BOOLEAN
  BY Zenon DEF Seen
<1>3. seen'.loggedOut = seen.loggedOut \/ ends
  BY <1>2
<1> QED  BY <1>1, <1>2, <1>3

\* The one user of a session that is not empty.
LEMMA SessionUser ==
    ASSUME NEW session \in Sessions, session # {}
    PROVE  \E u \in Users : session = {u} /\ OneOf(session) = <<u>>
<1>1. PICK u \in Users : session = {u}
  BY DEF Sessions
<1>2. (CHOOSE x \in {u} : TRUE) = u
  OBVIOUS
<1> QED  BY <1>1, <1>2 DEF OneOf

\* A list of one code.
LEMMA OneCode ==
    ASSUME NEW u \in Users
    PROVE  /\ <<u>> \in Seq(Users) /\ Len(<<u>>) <= 1
           /\ <<>> \o <<u>> = <<u>> /\ Append(<<>>, u) = <<u>>
OBVIOUS

\* No code.
LEMMA NoCode == <<>> \in Seq(Users) /\ Len(<<>>) <= 1
OBVIOUS

\* The document of a pushed request once it is taken.
LEMMA ClaimedTyped ==
    ASSUME doc \in Document, clock + InteractionTtl \in Nat, doc' = Claimed(doc)
    PROVE  /\ doc' \in Document /\ doc'.kind = "authorize" /\ doc'.par_consumed = TRUE
           /\ doc'.expires_at = clock + InteractionTtl /\ doc'.status = doc.status
           /\ doc'.decision = doc.decision /\ doc'.auth = doc.auth
           /\ doc'.existing_session = doc.existing_session /\ doc'.attempts = doc.attempts
BY Zenon DEF Claimed, Document

\* Taking the pushed request.
LEMMA ClaimPushedEngages ==
    ASSUME Inv, NEW p \in Procs, NEW session \in Sessions,
           NEW outcome \in {"authorized", "not_allowed", "login_required",
                            "consent_required"},
           ClaimPushed(p, session, outcome)
    PROVE  Engage(p) /\ TypeOK' /\ Told
<1> DEFINE c == [pc |-> "settle", op |-> "authorize", now |-> clock, doc |-> NoFields,
                 uid |-> session, outcome |-> outcome]
           codes == IF outcome = "authorized" THEN seen.issued \o OneOf(session)
                    ELSE seen.issued
<1>0. /\ doc # NoDoc /\ doc \in Document /\ Takeable(doc) /\ clock \in Nat
      /\ InteractionTtl \in Nat /\ Untouched /\ ~cookie /\ seen \in Seen
      /\ call \in [Procs -> Call \cup {Idle}] /\ TypeOK
  BY Zenon, Typed, TtlAssumption DEF ClaimPushed, Live, Takeable, Inv, TypeOK, IInv, Unclaimed
<1>1. /\ doc' = Claimed(doc) /\ alarm' = clock + InteractionTtl
      /\ seen' = [seen EXCEPT !.proven = @ \cup session, !.issued = codes]
      /\ call' = [call EXCEPT ![p] = c] /\ UNCHANGED world
      /\ outcome = "authorized" => session # {}
  BY DEF ClaimPushed, Begin, Evaluated
<1>2. session \in SUBSET Users
  BY DEF Sessions
<1>3. /\ codes \in Seq(Users) /\ Len(codes) <= 1
      /\ outcome # "authorized" => codes = <<>>
      /\ outcome = "authorized" => \E u \in Users : session = {u} /\ codes = <<u>>
  <2>1. CASE outcome # "authorized"
    <3>1. codes = <<>>
      BY <1>0, <2>1 DEF Untouched
    <3> HIDE DEF codes
    <3> QED  BY <2>1, <3>1, NoCode
  <2>2. CASE outcome = "authorized"
    <3>1. PICK u \in Users : session = {u} /\ OneOf(session) = <<u>>
      BY <1>1, <2>2, SessionUser
    <3>2. codes = <<>> \o <<u>>
      BY Zenon, <1>0, <2>2, <3>1 DEF Untouched
    <3> HIDE DEF codes
    <3>3. codes = <<u>>
      BY <3>2, OneCode
    <3> QED  BY <2>2, <3>1, <3>3, OneCode
  <2> QED  BY Zenon, <2>1, <2>2
<1>4. /\ seen' \in Seen /\ seen'.proven = seen.proven \cup session /\ seen'.issued = codes
      /\ seen'.answers = seen.answers /\ seen'.declined = seen.declined
      /\ seen'.loggedOut = seen.loggedOut /\ seen'.tried = seen.tried
  BY Zenon, <1>0, <1>1, <1>2, <1>3, SeenClaimed
<1> HIDE DEF codes
<1>5. /\ doc' \in Document /\ doc'.kind = "authorize" /\ doc'.par_consumed = TRUE
      /\ doc'.expires_at = clock + InteractionTtl /\ doc'.status = doc.status
      /\ doc'.decision = doc.decision /\ doc'.auth = doc.auth
      /\ doc'.existing_session = doc.existing_session /\ doc'.attempts = doc.attempts
  <2>1. clock + InteractionTtl \in Nat
    BY <1>0
  <2> QED  BY <1>0, <1>1, <2>1, ClaimedTyped, Zenon
<1>6. NoFields \in Fields
  BY Zenon DEF NoFields, Fields, INTERACTION_STATUSES
<1>7. c \in Call
  <2>1. CallParts("settle", "authorize", clock, NoFields, session, outcome)
    BY Zenon, <1>0, <1>2, <1>6 DEF CallParts
  <2> QED  BY Zenon, <2>1, CallTyped
<1>8. c.pc = "settle" /\ c.uid = session /\ c.outcome = outcome
  BY Zenon
<1> HIDE DEF c
<1>9. call'[p] = c /\ (\A q \in Procs \ {p} : call'[q] = call[q])
      /\ call' \in [Procs -> Call \cup {Idle}]
  BY <1>0, <1>1, <1>7
<1>10. Engaged(call'[p]) /\ EngagedOk(call[p])'
  <2>1. Carries(call[p], "authorized")'
    BY Zenon, <1>3, <1>4, <1>8, <1>9 DEF Carries
  <2>2. ~cookie' /\ seen'.answers = <<>> /\ doc'.status = "pushed"
    BY <1>0, <1>1, <1>4, <1>5 DEF world, Untouched, Takeable
  <2> QED  BY Zenon, <1>4, <1>5, <1>8, <1>9, <2>1, <2>2 DEF Engaged, EngagedOk
<1>11. Engage(p)
  <2>1. ~Takeable(doc') /\ ~Open(doc')
    BY Zenon, <1>0, <1>5 DEF Takeable, Open
  <2> QED  BY <1>0, <1>1, <1>3, <1>4, <1>5, <1>9, <1>10, <2>1 DEF Engage, world
<1>12. TypeOK'
  BY <1>0, <1>1, <1>4, <1>5, <1>9 DEF TypeOK, world
<1>13. Told
  <2>1. CASE outcome = "authorized"
    <3>1. PICK u \in Users : session = {u} /\ codes = <<u>>
      BY <1>3, <2>1
    <3>2. Issues(u)
      BY Zenon, <1>0, <1>4, <3>1 DEF Issues
    <3> QED  BY <3>2, IssuesTold
  <2>2. CASE outcome # "authorized"
    <3>1. Proves
      BY Zenon, <1>0, <1>3, <1>4, <2>2 DEF Proves, Sessions, Untouched
    <3> QED  BY <3>1, ProvesTold
  <2> QED  BY <2>1, <2>2
<1> QED  BY <1>11, <1>12, <1>13

\* What claiming a completion finds and does.
Completing(p, kind) ==
    /\ call[p] \in Call /\ doc # NoDoc /\ doc \in Document /\ Open(doc) /\ cookie
    /\ Untouched /\ doc.status # "pushed" /\ doc.kind = kind
    /\ kind = "logout" =>
           doc.status # "login_required" /\ doc.decision = call[p].doc.decision
    /\ call[p].doc.auth \cup call[p].doc.existing_session \subseteq seen.proven
    /\ doc' \in Document /\ doc'.completing = TRUE /\ doc'.kind = doc.kind
    /\ doc'.status = doc.status /\ doc'.decision = doc.decision /\ doc'.auth = doc.auth
    /\ doc'.existing_session = doc.existing_session /\ doc'.attempts = doc.attempts
    /\ alarm' = doc'.expires_at

\* A claim finds a document nobody has claimed, of which nothing was issued yet.
LEMMA ClaimCompletes ==
    ASSUME Inv, NEW p \in Procs, NEW kind, ClaimCompletion(p, kind)
    PROVE  Completing(p, kind)
<1>1. /\ call[p].pc = "claim" /\ call[p].doc.kind = kind /\ doc # NoDoc
      /\ doc.status \in {"ready", "failed"} /\ ~doc.completing
      /\ doc' = [doc EXCEPT !.completing = TRUE] /\ alarm' = alarm
  BY DEF ClaimCompletion, Claimable, Live
<1>2. call[p] \in Call /\ doc \in Document /\ alarm = doc.expires_at
  BY <1>1, Typed DEF Inv, IInv, DocOk, Idle
<1>3. WaitingOk(call[p])
  BY Zenon DEF Inv, IInv
<1>4. /\ cookie /\ doc.kind = kind
      /\ call[p].doc.auth \cup call[p].doc.existing_session \subseteq seen.proven
      /\ kind = "logout" =>
             doc.status # "login_required" /\ doc.decision = call[p].doc.decision
  BY <1>1, <1>3 DEF WaitingOk
<1>5. Open(doc)
  BY <1>1 DEF Open
<1>6. Untouched
  BY <1>1, <1>4, <1>5 DEF Inv, IInv, Unclaimed
<1>7. /\ doc' \in Document /\ doc'.completing = TRUE /\ doc'.kind = doc.kind
      /\ doc'.status = doc.status /\ doc'.decision = doc.decision /\ doc'.auth = doc.auth
      /\ doc'.existing_session = doc.existing_session /\ doc'.attempts = doc.attempts
      /\ doc'.expires_at = doc.expires_at
  BY Zenon, <1>1, <1>2 DEF Document
<1> QED  BY <1>1, <1>2, <1>4, <1>5, <1>6, <1>7 DEF Completing

\* What /complete goes on with ...
ThenHolds(pc, uid, outcome) ==
    /\ pc \in {"restart", "finish"} /\ uid \in SUBSET Users
    /\ outcome \in {"none", "code", "error", "logout"}

\* ... which makes a call of the one that was waiting.
LEMMA ThenRecord ==
    ASSUME NEW h \in Call, NEW pc \in {"restart", "finish"}, NEW uid \in SUBSET Users,
           NEW outcome \in {"none", "code", "error", "logout"}
    PROVE  [h EXCEPT !.pc = pc, !.uid = uid, !.outcome = outcome] \in Call
BY Zenon DEF Call

\* What the handlers hold from then on ...
ThenCalls(p, pc, uid, outcome) ==
    /\ call' \in [Procs -> Call \cup {Idle}]
    /\ \A q \in Procs \ {p} : call'[q] = call[q]
    /\ call'[p].pc = pc /\ call'[p].uid = uid /\ call'[p].outcome = outcome

\* ... follows.
LEMMA ThenTyped ==
    ASSUME call \in [Procs -> Call \cup {Idle}], NEW p \in Procs, call[p] \in Call,
           NEW pc, NEW uid, NEW outcome, ThenHolds(pc, uid, outcome), Then(p, pc, uid, outcome)
    PROVE  ThenCalls(p, pc, uid, outcome)
<1> DEFINE c == [call[p] EXCEPT !.pc = pc, !.uid = uid, !.outcome = outcome]
<1>1. call' = [call EXCEPT ![p] = c]
  BY Zenon DEF Then
<1>2. c.pc = pc /\ c.uid = uid /\ c.outcome = outcome
  BY Zenon DEF Call
<1>3. c \in Call
  BY Zenon, ThenRecord DEF ThenHolds
<1> HIDE DEF c
<1> QED  BY Zenon, <1>1, <1>2, <1>3 DEF ThenCalls

\* A claimed completion engages the handler, when what it carries is what was issued.
LEMMA CompletionEngages ==
    ASSUME Inv, NEW p \in Procs, NEW kind \in {"authorize", "logout"}, Completing(p, kind),
           NEW pc \in {"restart", "finish"}, NEW uid \in SUBSET Users,
           NEW outcome \in {"none", "code", "error", "logout"}, Then(p, pc, uid, outcome),
           seen' \in Seen, seen'.proven = seen.proven, seen'.answers = seen.answers,
           seen'.tried = seen.tried, seen'.declined = seen.declined,
           seen'.loggedOut = seen.loggedOut \/ (kind = "logout" /\ doc.decision = "confirm"),
           UNCHANGED <<clock, started, cookie, legs>>, sessionLive' \in BOOLEAN,
           pc = "restart" => kind = "authorize" /\ outcome = "none",
           pc = "finish" => outcome # "none",
           outcome # "code" => seen'.issued = <<>> /\ uid = {},
           outcome = "code" => \E u \in Users : uid = {u} /\ Issues(u)
    PROVE  Engage(p) /\ TypeOK' /\ Told
<1>0. /\ call[p] \in Call /\ doc # NoDoc /\ doc \in Document /\ Open(doc) /\ cookie
      /\ Untouched /\ doc.status # "pushed" /\ doc.kind = kind
      /\ kind = "logout" => doc.status # "login_required"
      /\ doc' \in Document /\ doc'.completing = TRUE /\ doc'.kind = doc.kind
      /\ doc'.status = doc.status /\ doc'.decision = doc.decision /\ doc'.auth = doc.auth
      /\ doc'.existing_session = doc.existing_session /\ doc'.attempts = doc.attempts
      /\ alarm' = doc'.expires_at
  BY Zenon DEF Completing
<1>1. TypeOK /\ call \in [Procs -> Call \cup {Idle}]
  BY Zenon DEF Inv, TypeOK
<1>2. /\ call' \in [Procs -> Call \cup {Idle}]
      /\ \A q \in Procs \ {p} : call'[q] = call[q]
      /\ call'[p].pc = pc /\ call'[p].uid = uid /\ call'[p].outcome = outcome
  <2>1. call[p] \in Call
    BY Zenon, <1>0
  <2>2. call \in [Procs -> Call \cup {Idle}]
    BY Zenon, <1>1
  <2>3. ThenHolds(pc, uid, outcome)
    BY Zenon DEF ThenHolds
  <2>4. ThenCalls(p, pc, uid, outcome)
    BY Zenon, <2>1, <2>2, <2>3, ThenTyped
  <2> QED  BY Zenon, <2>4 DEF ThenCalls
<1>3. ~Takeable(doc') /\ ~Open(doc')
  BY Zenon, <1>0 DEF Takeable, Open
<1>4. Carries(call[p], "code")' /\ Len(seen'.issued) <= 1
  BY Zenon, <1>2, OneCode, NoCode DEF Carries, Issues
<1>5. Engaged(call'[p]) /\ EngagedOk(call[p])'
  BY Zenon, <1>0, <1>2, <1>4 DEF Engaged, EngagedOk, Untouched
<1>6. Engage(p)
  BY Zenon, <1>0, <1>2, <1>3, <1>4, <1>5 DEF Engage
<1>7. alarm' \in Nat
  BY Zenon, <1>0 DEF Document
<1>8. TypeOK'
  BY Zenon, <1>0, <1>1, <1>2, <1>7 DEF TypeOK
<1>9. Told
  <2>1. CASE outcome = "code"
    BY Zenon, <2>1, IssuesTold
  <2>2. CASE outcome # "code"
    BY Zenon, <1>0, <2>2, ProvesTold DEF Proves, Untouched
  <2> QED  BY Zenon, <2>1, <2>2
<1> QED  BY Zenon, <1>6, <1>8, <1>9

\* Issuing the code on a claimed completion.
LEMMA CompletionIssues ==
    ASSUME Inv, NEW p \in Procs, NEW kind, Completing(p, kind), NEW uid \in Users,
           uid \in call[p].doc.auth \cup call[p].doc.existing_session,
           seen' = [seen EXCEPT !.issued = Append(@, uid)]
    PROVE  /\ Issues(uid) /\ seen' \in Seen /\ seen'.proven = seen.proven
           /\ seen'.answers = seen.answers /\ seen'.tried = seen.tried
           /\ seen'.declined = seen.declined /\ seen'.loggedOut = seen.loggedOut
<1>0. Untouched /\ uid \in seen.proven /\ seen \in Seen
  BY Typed DEF Completing, Inv
<1>1. Append(seen.issued, uid) = <<uid>> /\ <<uid>> \in Seq(Users)
  BY <1>0, OneCode DEF Untouched
<1>2. seen' = [seen EXCEPT !.issued = <<uid>>]
  BY <1>1
<1>3. /\ seen' \in Seen /\ seen'.proven = seen.proven /\ seen'.issued = <<uid>>
      /\ seen'.answers = seen.answers /\ seen'.declined = seen.declined
      /\ seen'.loggedOut = seen.loggedOut /\ seen'.tried = seen.tried
  BY Zenon, <1>0, <1>1, <1>2, SeenIssued
<1> QED  BY <1>0, <1>3 DEF Issues

\* A logout ends the session only on a confirmation, which is the stored one.
LEMMA CompleteLogoutEngages ==
    ASSUME Inv, NEW p \in Procs, NEW same \in BOOLEAN, CompleteLogout(p, same)
    PROVE  Engage(p) /\ TypeOK' /\ Told
<1> DEFINE end == EndsSession(call[p].doc, same)
<1>1. /\ ClaimCompletion(p, "logout") /\ Then(p, "finish", {}, "logout")
      /\ sessionLive' = (sessionLive /\ ~end)
      /\ seen' = [seen EXCEPT !.loggedOut = @ \/ (end /\ sessionLive)]
      /\ UNCHANGED <<clock, started, cookie, legs>>
  BY DEF CompleteLogout
<1>2. Completing(p, "logout")
  BY <1>1, ClaimCompletes
<1>3. doc.decision = call[p].doc.decision /\ Untouched
  BY Zenon, <1>2 DEF Completing
<1>4. end => doc.decision = "confirm"
  BY Zenon, <1>3 DEF EndsSession
<1> HIDE DEF end
<1>5. /\ seen' \in Seen /\ seen'.proven = seen.proven /\ seen'.issued = seen.issued
      /\ seen'.answers = seen.answers /\ seen'.tried = seen.tried
      /\ seen'.declined = seen.declined
      /\ seen'.loggedOut = seen.loggedOut \/ (end /\ sessionLive)
  BY <1>1, Typed, SeenLoggedOut DEF Inv
<1>6. sessionLive' \in BOOLEAN /\ seen'.issued = <<>> /\ {} \in SUBSET Users
  BY <1>1, <1>3, <1>5 DEF Untouched
<1>7. "logout" # "code" /\ "finish" # "restart" /\ "logout" # "none"
  OBVIOUS
<1> QED  BY <1>1, <1>2, <1>4, <1>5, <1>6, <1>7, CompletionEngages

\* An error carries no code.
LEMMA CompleteWithErrorEngages ==
    ASSUME Inv, NEW p \in Procs, CompleteWithError(p)
    PROVE  Engage(p) /\ TypeOK' /\ Told
<1>1. /\ ClaimCompletion(p, "authorize") /\ Then(p, "finish", {}, "error")
      /\ seen' = seen /\ sessionLive' = sessionLive
      /\ UNCHANGED <<clock, started, cookie, legs>>
  BY Zenon DEF CompleteWithError, world
<1>2. Completing(p, "authorize")
  BY Zenon, <1>1, ClaimCompletes
<1>3. /\ seen.issued = <<>> /\ seen \in Seen /\ sessionLive \in BOOLEAN
      /\ {} \in SUBSET Users
  BY Zenon, <1>2, Typed DEF Completing, Untouched, Inv, TypeOK
<1> QED  BY Zenon, <1>1, <1>2, <1>3, CompletionEngages

\* The code on the session is the first one; without a session nothing is issued.
LEMMA CompleteOnSessionEngages ==
    ASSUME Inv, NEW p \in Procs, NEW uid \in Users, CompleteOnSession(p, uid)
    PROVE  Engage(p) /\ TypeOK' /\ Told
<1>1. /\ ClaimCompletion(p, "authorize") /\ uid \in call[p].doc.existing_session
      /\ sessionLive' = sessionLive /\ UNCHANGED <<clock, started, cookie, legs>>
      /\ \/ /\ Then(p, "finish", {uid}, "code")
            /\ seen' = [seen EXCEPT !.issued = Append(@, uid)]
         \/ Then(p, "restart", {}, "none") /\ seen' = seen
  BY DEF CompleteOnSession, world
<1>2. Completing(p, "authorize")
  BY <1>1, ClaimCompletes
<1>3. /\ seen.issued = <<>> /\ seen \in Seen /\ sessionLive \in BOOLEAN
      /\ {} \in SUBSET Users /\ {uid} \in SUBSET Users
  BY Zenon, <1>2, Typed DEF Completing, Untouched, Inv, TypeOK
<1>4. CASE Then(p, "restart", {}, "none") /\ seen' = seen
  BY <1>1, <1>2, <1>3, <1>4, CompletionEngages
<1>5. CASE /\ Then(p, "finish", {uid}, "code")
           /\ seen' = [seen EXCEPT !.issued = Append(@, uid)]
  <2>1. /\ Issues(uid) /\ seen' \in Seen /\ seen'.proven = seen.proven
        /\ seen'.answers = seen.answers /\ seen'.tried = seen.tried
        /\ seen'.declined = seen.declined /\ seen'.loggedOut = seen.loggedOut
    BY Zenon, <1>1, <1>2, <1>5, CompletionIssues
  <2> QED  BY <1>1, <1>2, <1>3, <1>5, <2>1, CompletionEngages
<1> QED  BY <1>1, <1>4, <1>5

\* The code for the user who authenticated is the first one.
LEMMA CompleteWithAuthEngages ==
    ASSUME Inv, NEW p \in Procs, NEW uid \in Users, NEW outcome \in {"code", "error"},
           CompleteWithAuth(p, uid, outcome)
    PROVE  Engage(p) /\ TypeOK' /\ Told
<1>1. /\ ClaimCompletion(p, "authorize") /\ uid \in call[p].doc.auth
      /\ sessionLive' \in BOOLEAN /\ UNCHANGED <<clock, started, cookie, legs>>
      /\ outcome = "code" => /\ Then(p, "finish", {uid}, "code")
                             /\ seen' = [seen EXCEPT !.issued = Append(@, uid)]
      /\ outcome = "error" => Then(p, "finish", {}, "error") /\ seen' = [seen EXCEPT !.issued = @]
  BY Zenon DEF CompleteWithAuth
<1>2. Completing(p, "authorize")
  BY <1>1, ClaimCompletes
<1>3. /\ seen.issued = <<>> /\ seen \in Seen
      /\ {} \in SUBSET Users /\ {uid} \in SUBSET Users
  BY Zenon, <1>2, Typed DEF Completing, Untouched, Inv
<1>4. CASE outcome = "error"
  <2>1. seen' = seen
    BY <1>1, <1>3, <1>4 DEF Seen
  <2> QED  BY <1>1, <1>2, <1>3, <1>4, <2>1, CompletionEngages
<1>5. CASE outcome = "code"
  <2>1. /\ Issues(uid) /\ seen' \in Seen /\ seen'.proven = seen.proven
        /\ seen'.answers = seen.answers /\ seen'.tried = seen.tried
        /\ seen'.declined = seen.declined /\ seen'.loggedOut = seen.loggedOut
    BY <1>1, <1>2, <1>5, CompletionIssues
  <2> QED  BY <1>1, <1>2, <1>3, <1>5, <2>1, CompletionEngages
<1> QED  BY <1>4, <1>5

-----------------------------------------------------------------------------
(* Giving the right to answer up.                                          *)

\* What an engaged handler may rely on.
LEMMA EngagedHolds ==
    ASSUME Inv, NEW p \in Procs, Engaged(call[p])
    PROVE  /\ call[p] \in Call /\ call[p].now \in Nat /\ call[p].uid \subseteq Users
           /\ EngagedOk(call[p]) /\ TypeOK /\ DocOk /\ started /\ seen \in Seen
           /\ doc # NoDoc => /\ doc \in Document /\ doc.kind # "par"
                             /\ doc.auth \cup doc.existing_session \subseteq seen.proven
                             /\ doc.kind = "logout" => doc.status # "pushed"
                             /\ alarm = doc.expires_at
<1>1. /\ call[p] \in Call /\ TypeOK /\ DocOk /\ seen \in Seen /\ EngagedOk(call[p])
  BY Typed DEF Inv, IInv, Idle, Engaged
<1>2. started
  BY DEF Inv, IInv, Fresh, Idle, Engaged
<1>3. doc # NoDoc => ~Takeable(doc)
  BY Zenon DEF Inv, IInv, Unclaimed
<1>4. doc # NoDoc => /\ doc \in Document /\ doc.kind # "par"
                     /\ doc.auth \cup doc.existing_session \subseteq seen.proven
                     /\ doc.kind = "logout" => doc.status # "pushed"
                     /\ alarm = doc.expires_at
  BY Zenon, <1>1, <1>3, Typed DEF DocOk
<1> QED  BY Zenon, <1>1, <1>2, <1>4 DEF Call

\* The history goes on in what was answered alone.
Answers ==
    /\ seen' \in Seen /\ seen'.proven = seen.proven /\ seen'.issued = seen.issued
    /\ seen'.tried = seen.tried /\ seen'.declined = seen.declined
    /\ seen'.loggedOut = seen.loggedOut
    /\ seen'.answers = seen.answers \/ Len(seen'.answers) <= 1

\* An engaged handler that makes one transition and answers gives the right up.
LEMMA ApplyReleases ==
    ASSUME Inv, NEW p \in Procs, Engaged(call[p]), NEW operation, NEW to, NEW patched,
           doc # NoDoc =>
               /\ patched \in Document /\ patched.kind = doc.kind
               /\ patched.par_consumed = doc.par_consumed
               /\ patched.attempts = doc.attempts /\ patched.decision = doc.decision
               /\ patched.auth \cup patched.existing_session \subseteq seen.proven
               /\ to = "login_required" => doc.kind = "authorize",
           Apply(operation, to, patched, call[p].now), Respond(p), Answers,
           UNCHANGED <<clock, started, sessionLive, legs>>,
           cookie' = cookie \/ cookie' = TRUE,
           cookie' => Untouched' \/ (to = "completed" /\ (doc # NoDoc => ~Open(doc)))
    PROVE  Release(p) /\ TypeOK'
<1>0. /\ call[p].now \in Nat /\ TypeOK /\ DocOk /\ seen \in Seen
      /\ doc # NoDoc => doc \in Document /\ doc.kind # "par"
      /\ call \in [Procs -> Call \cup {Idle}]
  BY Zenon, EngagedHolds DEF TypeOK
<1>1. \/ doc' = doc /\ alarm' = alarm
      \/ to \in TRANSITIONS(doc.status, operation) /\ Moved(patched, to)
  BY Zenon, <1>0, ApplyShape
<1>2. /\ call' = [call EXCEPT ![p] = Idle] /\ call' \in [Procs -> Call \cup {Idle}]
  BY Zenon, <1>0 DEF Respond
<1>3. /\ seen' \in Seen /\ seen'.proven = seen.proven /\ seen'.issued = seen.issued
      /\ seen'.tried = seen.tried /\ seen'.declined = seen.declined
      /\ seen'.loggedOut = seen.loggedOut /\ Len(seen'.answers) <= 1
  BY Zenon DEF Answers, Inv, IInv
<1>4. started' = started /\ (cookie' = cookie \/ cookie') /\ cookie' \in BOOLEAN
  BY Zenon, <1>0 DEF TypeOK
<1>5. CASE doc' = doc /\ alarm' = alarm
  <2>1. doc' # NoDoc /\ Open(doc') /\ cookie' => Untouched'
    BY Zenon, <1>5
  <2>2. Release(p)
    BY Zenon, <1>2, <1>3, <1>4, <1>5, <2>1 DEF Release
  <2>3. TypeOK'
    BY Zenon, <1>0, <1>2, <1>3, <1>4, <1>5 DEF TypeOK
  <2> QED  BY Zenon, <2>2, <2>3
<1>6. CASE to \in TRANSITIONS(doc.status, operation) /\ Moved(patched, to)
  <2>1. /\ doc # NoDoc /\ doc' \in Document /\ doc'.status = to /\ to # "pushed"
        /\ doc'.kind = doc.kind /\ doc'.par_consumed = doc.par_consumed
        /\ doc'.attempts = doc.attempts /\ doc'.decision = doc.decision
        /\ doc'.auth \cup doc'.existing_session \subseteq seen.proven
        /\ doc.kind # "par" /\ alarm' = doc'.expires_at
        /\ to = "login_required" => doc.kind = "authorize"
    <3>1. to # "pushed"
      BY Zenon, <1>6, Transitions
    <3> QED  BY Zenon, <1>0, <1>6, <3>1 DEF Moved
  <2>2. doc' # NoDoc /\ Open(doc') /\ cookie' => Untouched'
    BY Zenon, <2>1 DEF Open
  <2>3. Release(p)
    BY Zenon, <1>2, <1>3, <1>4, <2>1, <2>2 DEF Release
  <2>4. alarm' \in Nat
    BY Zenon, <2>1 DEF Document
  <2>5. TypeOK'
    BY Zenon, <1>0, <1>2, <1>3, <1>4, <2>1, <2>4 DEF TypeOK
  <2> QED  BY Zenon, <2>3, <2>5
<1> QED  BY Zenon, <1>1, <1>5, <1>6

\* One answer changes nothing else of the history, and is a step of Authorization when it
\* says what was issued.
LEMMA AnsweredOnce ==
    ASSUME seen \in Seen, seen.answers = <<>>, NEW kind \in {"code", "error", "logout"},
           NEW uid \in SUBSET Users, Answered(kind, uid),
           IF kind = "code" THEN \E u \in Users : uid = {u} /\ seen.issued = <<u>>
           ELSE seen.issued = <<>> /\ uid = {}
    PROVE  Answers /\ Told
<1> DEFINE a == [kind |-> kind, uid |-> uid]
<1>1. seen' = [seen EXCEPT !.answers = Append(@, a)]
  BY DEF Answered
<1>2. a \in Answer
  BY Zenon DEF Answer
<1>3. a \in Authorization!Possible
  <2>1. CASE kind = "code"
    <3>1. PICK u \in Users : uid = {u} /\ seen.issued = <<u>>
      BY Zenon, <2>1
    <3>2. seen.issued # <<>> /\ seen.issued[1] = u
      BY <3>1
    <3>3. a = [kind |-> "code", uid |-> {seen.issued[1]}]
      BY Zenon, <2>1, <3>1, <3>2
    <3> HIDE DEF a
    <3> QED  BY Zenon, <3>2, <3>3 DEF Authorization!Possible
  <2>2. CASE kind # "code"
    BY Zenon, <2>2 DEF Authorization!Possible
  <2> QED  BY Zenon, <2>1, <2>2
<1> HIDE DEF a
<1>4. Append(seen.answers, a) = <<a>> /\ <<a>> \in Seq(Answer) /\ Len(<<a>>) <= 1
  BY <1>2
<1>5. seen' = [seen EXCEPT !.answers = <<a>>]
  BY <1>1, <1>4
<1>6. seen' \in Seen
  BY Zenon, <1>4, <1>5 DEF Seen
<1>7. /\ seen'.proven = seen.proven /\ seen'.issued = seen.issued
      /\ seen'.answers = <<a>> /\ seen'.tried = seen.tried
      /\ seen'.declined = seen.declined /\ seen'.loggedOut = seen.loggedOut
  BY <1>5, Zenon DEF Seen
<1>8. Answers
  BY Zenon, <1>4, <1>6, <1>7 DEF Answers
<1>9. Authorization!Answer
  BY Zenon, <1>3, <1>7 DEF Authorization!Answer
<1> QED  BY Zenon, <1>8, <1>9 DEF Told, Authorization!Next

\* The document as it is satisfies what a release asks of the patched one.
LEMMA UnpatchedReleases ==
    ASSUME Inv, NEW p \in Procs, Engaged(call[p]), NEW operation,
           NEW to \in {"completed", "failed"},
           Apply(operation, to, doc, call[p].now), Respond(p), Answers, UNCHANGED world,
           cookie => to = "completed" /\ (doc # NoDoc => ~Open(doc))
    PROVE  Release(p) /\ TypeOK'
<1>1. /\ UNCHANGED <<clock, started, sessionLive, legs>> /\ cookie' = cookie
      /\ to # "login_required"
  BY Zenon DEF world
<1>2. doc # NoDoc => /\ doc \in Document
                     /\ doc.auth \cup doc.existing_session \subseteq seen.proven
  BY Zenon, EngagedHolds
<1> QED  BY Zenon, <1>1, <1>2, ApplyReleases

\* A pushed request is answered at once or fails.
LEMMA SettleReleases ==
    ASSUME Inv, NEW p \in Procs, AnswerPushed(p) \/ FailPushed(p)
    PROVE  Release(p) /\ TypeOK' /\ Told
<1>1. call[p].pc = "settle" /\ Respond(p) /\ UNCHANGED world
  BY Zenon DEF AnswerPushed, FailPushed, At
<1>2. Engaged(call[p])
  BY <1>1 DEF Engaged
<1>3. /\ seen \in Seen /\ seen.answers = <<>> /\ ~cookie
      /\ call[p].uid \in SUBSET Users /\ Carries(call[p], "authorized")
  BY Zenon, <1>1, <1>2, EngagedHolds DEF EngagedOk
<1>4. CASE AnswerPushed(p)
  <2>1. /\ call[p].outcome = "authorized" /\ Answered("code", call[p].uid)
        /\ Apply("consume_par", "completed", doc, call[p].now)
    BY Zenon, <1>4 DEF AnswerPushed
  <2>2. \E u \in Users : call[p].uid = {u} /\ seen.issued = <<u>>
    BY Zenon, <1>3, <2>1 DEF Carries
  <2>3. Answers /\ Told
    BY Zenon, <1>3, <2>1, <2>2, AnsweredOnce
  <2> QED  BY Zenon, <1>1, <1>2, <1>3, <2>1, <2>3, UnpatchedReleases
<1>5. CASE FailPushed(p)
  <2>1. /\ call[p].outcome # "authorized" /\ Answered("error", {})
        /\ Apply("fail", "failed", doc, call[p].now)
    BY Zenon, <1>5 DEF FailPushed
  <2>2. seen.issued = <<>> /\ {} \in SUBSET Users
    BY Zenon, <1>3, <2>1 DEF Carries
  <2>3. Answers /\ Told
    BY Zenon, <1>3, <2>1, <2>2, AnsweredOnce
  <2> QED  BY Zenon, <1>1, <1>2, <1>3, <2>1, <2>3, UnpatchedReleases
<1> QED  BY <1>4, <1>5

\* A history that stays.
LEMMA NothingAnswered == ASSUME seen \in Seen, seen' = seen PROVE Answers /\ Told
BY DEF Answers, Told

\* A pushed request that waits for the login app.
LEMMA AwaitLoginReleases ==
    ASSUME Inv, NEW p \in Procs, AwaitLogin(p)
    PROVE  Release(p) /\ TypeOK' /\ Told
<1> DEFINE patched == [doc EXCEPT !.existing_session = call[p].uid]
<1>1. /\ call[p].pc = "settle" /\ Respond(p) /\ seen' = seen /\ cookie' = TRUE
      /\ UNCHANGED <<clock, started, sessionLive, legs>>
      /\ call[p].outcome \in {"login_required", "consent_required"}
      /\ Apply("consume_par", call[p].outcome, patched, call[p].now)
  BY DEF AwaitLogin, At
<1>2. Engaged(call[p])
  BY <1>1 DEF Engaged
<1>3. /\ seen \in Seen /\ seen.answers = <<>>
      /\ call[p].uid \subseteq Users /\ call[p].uid \subseteq seen.proven
      /\ Carries(call[p], "authorized")
      /\ doc # NoDoc => doc.status = "pushed"
  BY <1>1, <1>2, EngagedHolds DEF EngagedOk
<1>4. doc # NoDoc => /\ doc \in Document /\ doc.kind = "authorize"
                     /\ doc.auth \subseteq seen.proven
  BY Zenon, <1>2, <1>3, EngagedHolds DEF Document
<1>5. doc # NoDoc => /\ patched \in Document /\ patched.kind = doc.kind
                     /\ patched.par_consumed = doc.par_consumed
                     /\ patched.attempts = doc.attempts /\ patched.decision = doc.decision
                     /\ patched.auth = doc.auth /\ patched.existing_session = call[p].uid
  BY <1>3, <1>4 DEF Document
<1> HIDE DEF patched
<1>6. Untouched'
  BY Zenon, <1>1, <1>3 DEF Carries, Untouched
<1>7. Answers /\ Told
  BY Zenon, <1>1, <1>3, NothingAnswered
<1> QED  BY Zenon, <1>1, <1>2, <1>3, <1>4, <1>5, <1>6, <1>7, ApplyReleases

\* A completion whose session is gone starts over.
LEMMA RestartReleases ==
    ASSUME Inv, NEW p \in Procs, Restart(p)
    PROVE  Release(p) /\ TypeOK' /\ Told
<1> DEFINE patched == Restarted(doc)
<1>1. /\ call[p].pc = "restart" /\ Respond(p) /\ seen' = seen /\ cookie' = cookie
      /\ UNCHANGED <<clock, started, sessionLive, legs>>
      /\ Apply("restart", "login_required", patched, call[p].now)
  BY Zenon DEF Restart, world
<1>2. Engaged(call[p])
  BY Zenon, <1>1 DEF Engaged
<1>3. /\ seen \in Seen /\ seen.answers = <<>> /\ seen.issued = <<>>
      /\ doc # NoDoc => doc.kind = "authorize"
  BY Zenon, <1>1, <1>2, EngagedHolds DEF EngagedOk
<1>4. doc # NoDoc => doc \in Document /\ doc.auth \subseteq seen.proven
  BY Zenon, <1>2, EngagedHolds
<1>5. doc # NoDoc => /\ patched \in Document /\ patched.kind = doc.kind
                     /\ patched.par_consumed = doc.par_consumed
                     /\ patched.attempts = doc.attempts /\ patched.decision = doc.decision
                     /\ patched.auth = doc.auth /\ patched.existing_session = {}
  BY Zenon, <1>4 DEF Document, Restarted
<1> HIDE DEF patched
<1>6. Untouched'
  BY Zenon, <1>1, <1>3 DEF Untouched
<1>7. Answers /\ Told
  BY Zenon, <1>1, <1>3, NothingAnswered
<1> QED  BY Zenon, <1>1, <1>2, <1>3, <1>4, <1>5, <1>6, <1>7, ApplyReleases

\* A claimed completion answers with what it carries.
LEMMA FinishReleases ==
    ASSUME Inv, NEW p \in Procs, Finish(p)
    PROVE  Release(p) /\ TypeOK' /\ Told
<1>1. /\ call[p].pc = "finish" /\ Respond(p) /\ UNCHANGED world
      /\ Apply("complete", "completed", doc, call[p].now)
      /\ Answered(call[p].outcome, call[p].uid)
  BY Zenon DEF Finish
<1>2. Engaged(call[p])
  BY Zenon, <1>1 DEF Engaged
<1>3. /\ seen \in Seen /\ seen.answers = <<>>
      /\ call[p].uid \in SUBSET Users /\ Carries(call[p], "code")
      /\ call[p].outcome # "code" => call[p].uid = {} /\ call[p].outcome \in {"error", "logout"}
      /\ doc # NoDoc => doc.completing
  BY Zenon, <1>1, <1>2, EngagedHolds DEF EngagedOk
<1>4. doc # NoDoc => ~Open(doc)
  BY Zenon, <1>3 DEF Open
<1>5. call[p].outcome \in {"code", "error", "logout"}
  BY Zenon, <1>3
<1>6. IF call[p].outcome = "code"
      THEN \E u \in Users : call[p].uid = {u} /\ seen.issued = <<u>>
      ELSE seen.issued = <<>> /\ call[p].uid = {}
  BY Zenon, <1>3 DEF Carries
<1>7. Answers /\ Told
  BY Zenon, <1>1, <1>3, <1>5, <1>6, AnsweredOnce
<1> QED  BY Zenon, <1>1, <1>2, <1>4, <1>7, UnpatchedReleases

-----------------------------------------------------------------------------
(* The theorems.                                                           *)

\* What every step keeps: the invariant, and the promise of Authorization.
Kept == Inv' /\ Told

\* A quiet step keeps both.
LEMMA QuietKeeps == ASSUME Inv, Quiet /\ TypeOK' PROVE Kept
<1>1. Proves
  BY Zenon DEF Quiet, QuietDoc
<1>2. IInv' /\ Told
  BY <1>1, QuietPreserves, ProvesTold
<1> QED  BY <1>2 DEF Kept, Inv

\* A step of a handler keeps both.
LEMMA HandlerKeeps == ASSUME Inv, NEW p \in Procs, HandlerNext(p) \/ Crash(p) PROVE Kept
<1>1. ASSUME Engage(p) /\ TypeOK' /\ Told PROVE Kept
  <2>1. IInv'
    BY <1>1, EngagePreserves
  <2> QED  BY <1>1, <2>1 DEF Kept, Inv
<1>2. ASSUME Release(p) /\ TypeOK' /\ Told PROVE Kept
  <2>1. IInv'
    BY <1>2, ReleasePreserves
  <2> QED  BY <1>2, <2>1 DEF Kept, Inv
<1>3. CASE PushedNext(p)
  BY Zenon, <1>1, <1>2, <1>3, ClaimPushedEngages, SettleReleases, AwaitLoginReleases DEF PushedNext
<1>4. CASE VerifyNext(p) \/ FederationNext(p)
  BY <1>4, VerifyQuiet, FederationQuiet, QuietKeeps
<1>5. CASE CompleteNext(p)
  <2>1. CASE GetForCompletion(p) \/ NotClaimed(p)
    <3>1. NotClaimed(p) => Quiet /\ TypeOK'
      BY Zenon, QuietRespond DEF NotClaimed
    <3> QED  BY <2>1, <3>1, GetForCompletionQuiet, QuietKeeps
  <2>2. CASE Restart(p) \/ Finish(p)
    BY <1>2, <2>2, RestartReleases, FinishReleases
  <2>3. CASE \/ CompleteWithError(p)
             \/ \E same \in BOOLEAN : CompleteLogout(p, same)
             \/ \E uid \in Users : CompleteOnSession(p, uid)
             \/ \E uid \in Users, outcome \in {"code", "error"} :
                    CompleteWithAuth(p, uid, outcome)
    BY Zenon, <1>1, <2>3, CompleteWithErrorEngages, CompleteLogoutEngages,
       CompleteOnSessionEngages, CompleteWithAuthEngages
  <2> QED  BY Zenon, <1>5, <2>1, <2>2, <2>3 DEF CompleteNext
<1>6. CASE Crash(p)
  <2>1. Quiet /\ TypeOK'
    BY <1>6, QuietRespond DEF Crash
  <2> QED  BY <2>1, QuietKeeps
<1> QED  BY <1>3, <1>4, <1>5, <1>6 DEF HandlerNext

\* So does every step.
LEMMA StepKeeps == ASSUME Inv, [Next]_vars PROVE Kept
<1>1. CASE StartNext
  <2>1. Start /\ TypeOK'
    BY <1>1, StartShape
  <2>2. IInv' /\ Told
    BY Zenon, <2>1, StartPreserves, ProvesTold DEF Start
  <2> QED  BY <2>1, <2>2 DEF Kept, Inv
<1>2. CASE ApiNext
  BY <1>2, ApiQuiet, QuietKeeps
<1>3. CASE Alarm \/ SessionEnds \/ Tick
  BY <1>3, WorldQuiet, QuietKeeps
<1>4. CASE \E p \in Procs : HandlerNext(p) \/ Crash(p)
  BY <1>4, HandlerKeeps
<1>5. CASE UNCHANGED vars
  <2>1. /\ UNCHANGED <<object, seen>> /\ UNCHANGED <<clock, started, cookie, sessionLive, call>>
        /\ legs' \in Nat
    BY Zenon, <1>5 DEF vars, object, Inv, TypeOK
  <2>2. QuietDoc /\ StoredTyped
    BY <2>1, QuietNothing
  <2>3. Quiet /\ TypeOK'
    BY Zenon, <2>1, <2>2, QuietAlone
  <2> QED  BY <2>3, QuietKeeps
<1> QED  BY <1>1, <1>2, <1>3, <1>4, <1>5 DEF Next

\* Before anything happens the invariant holds, and nothing was promised.
LEMMA InitKept == ASSUME Init PROVE Inv /\ Authorization!Init
<1>0. /\ seen.proven = {} /\ seen.tried = 0 /\ seen.issued = <<>> /\ seen.answers = <<>>
      /\ seen.declined = FALSE /\ seen.loggedOut = FALSE
  BY Zenon DEF Init
<1>1. seen \in Seen
  BY DEF Init, Seen
<1>2. TypeOK
  <2>0. {clock, alarm, legs} \subseteq Nat
    BY DEF Init
  <2>1. {started, cookie, sessionLive} \subseteq BOOLEAN
    BY Zenon DEF Init
  <2>2. doc \in Document \cup {NoDoc} /\ call \in [Procs -> Call \cup {Idle}]
    BY Zenon DEF Init
  <2> QED  BY Zenon, <1>1, <2>0, <2>1, <2>2 DEF TypeOK
<1>3. Fresh /\ doc = NoDoc /\ \A p \in Procs : call[p] = Idle
  BY Zenon, <1>0 DEF Init, Fresh, Untouched
<1>4. ASSUME NEW p \in Procs
      PROVE  ~Engaged(call[p]) /\ EngagedOk(call[p]) /\ WaitingOk(call[p])
  <2>1. call[p].pc = "idle"
    BY <1>3 DEF Idle
  <2> QED  BY Zenon, <2>1 DEF Engaged, EngagedOk, WaitingOk
<1>5. AttemptsLimited /\ DeclineKeepsSession /\ Len(seen.issued) <= 1 /\ Len(seen.answers) <= 1
  BY <1>0, TtlAssumption DEF AttemptsLimited, DeclineKeepsSession
<1>6. IInv
  BY Zenon, <1>0, <1>3, <1>4, <1>5 DEF IInv, Unclaimed, DocOk
<1>7. Authorization!Init
  BY Zenon, <1>0 DEF Authorization!Init
<1> QED  BY <1>2, <1>6, <1>7 DEF Inv

\* The inductive invariant holds of every behaviour, for any number of handlers, users,
\* legs and attempts, and any time to live.
THEOREM InvariantHolds == Spec => []Inv
<1>1. Init => Inv
  BY InitKept
<1>2. Inv /\ [Next]_vars => Inv'
  BY StepKeeps DEF Kept
<1> QED  BY <1>1, <1>2, PTL DEF Spec

\* A code is never issued twice for one interaction, and the client is answered at most
\* once (claimCompletion, claimPushed).
THEOREM CodeIssuedOnce == Spec => []IssuedOnce
<1>1. Inv => IssuedOnce
  BY Zenon DEF Inv, IInv, IssuedOnce
<1> QED  BY <1>1, InvariantHolds, PTL

\* No more attempts are let through than the limit (attempt).
THEOREM AttemptsStayLimited == Spec => []AttemptsLimited
<1>1. Inv => AttemptsLimited
  BY Zenon DEF Inv, IInv
<1> QED  BY <1>1, InvariantHolds, PTL

\* A refusal to log out that was accepted keeps the session (/complete).
THEOREM DeclineIsKept == Spec => []DeclineKeepsSession
<1>1. Inv => DeclineKeepsSession
  BY DEF Inv, IInv
<1> QED  BY <1>1, InvariantHolds, PTL

\* The alarm goes off when the document expires, however often that time moved.
THEOREM AlarmStaysArmed == Spec => []AlarmAtExpiry
<1>1. Inv => AlarmAtExpiry
  BY Zenon DEF Inv, IInv, DocOk, AlarmAtExpiry
<1> QED  BY <1>1, InvariantHolds, PTL

\* The handlers implement what an authorization request promises: every step of theirs is
\* a step of Authorization or changes nothing of it.
THEOREM KeepsPromise == Spec => ImplementsAuthorization
<1>1. Init => Authorization!Init
  BY InitKept
<1>2. Inv /\ [Next]_vars
        => [Authorization!Next]_<<seen.proven, seen.issued, seen.answers>>
  BY Zenon, StepKeeps DEF Kept, Told
<1> QED  BY <1>1, <1>2, InvariantHolds, PTL
         DEF Spec, ImplementsAuthorization, Authorization!Spec
=============================================================================
