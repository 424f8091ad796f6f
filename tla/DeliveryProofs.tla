--------------------------- MODULE DeliveryProofs ---------------------------
(***************************************************************************)
(* Delivery, for any requests, sessions, clients, bounds and batches: one  *)
(* logout token per session and client, the failure reported only after    *)
(* every attempt, and nothing acknowledged that is not stored.             *)
(***************************************************************************)
EXTENDS Delivery, TLAPS

\* What a request holds of its session while it notifies the clients.
RequestInv ==
    /\ DOMAIN request = Procs
    /\ \A p \in Procs : /\ {"pc", "sid", "todo", "events"} \subseteq DOMAIN request[p]
                        /\ request[p].todo \subseteq Clients
                        /\ request[p].pc = "notify" => request[p].sid \in Sessions \ live

\* The tokens of a session are those of the request that ended it.
TokenInv ==
    /\ {"minted", "posted", "received", "failed", "lost", "acked"} \subseteq DOMAIN seen
    /\ seen.minted \subseteq Jtis
    /\ \A i \in seen.minted : i[1] \notin live
    /\ \A i, j \in seen.minted : i[1] = j[1] => i[3] = j[3]
    /\ \A p \in Procs, i \in seen.minted :
           request[p].pc = "notify" /\ request[p].sid = i[1] => i[3] = p
    /\ \A p, q \in Procs : /\ request[p].pc = "notify" /\ request[q].pc = "notify"
                           /\ request[p].sid = request[q].sid
                           => p = q

\* What is posted has been minted.
PostInv ==
    /\ sending \subseteq seen.minted
    /\ \A x \in seen.posted : x[1] \in seen.minted

\* A task of attempt n has been posted n times.
Backed(m, s) ==
    /\ {"body", "tries"} \subseteq DOMAIN m
    /\ m.body.kind # "audit" =>
           /\ m.body.jti \in s.minted
           /\ m.body.attempt \in Nat
           /\ \A n \in 0 .. m.body.attempt - 1 : <<m.body.jti, n>> \in s.posted

QueueInv == \A m \in DOMAIN queue : Backed(m, seen)

ConsumerOk(c, s) ==
    /\ {"batch", "retry", "events", "acked", "tasks", "audit", "statements", "stored"} \subseteq DOMAIN c
    /\ \A i \in DOMAIN c.batch : Backed(c.batch[i], s)
    /\ \A i \in c.tasks : i \in DOMAIN c.batch /\ c.batch[i].body.kind # "audit"
    /\ c.audit \cup c.retry \subseteq DOMAIN c.batch

ConsumerInv == consumer # None => ConsumerOk(consumer, seen)

Stored(events, hot, objects) == Hot(events) \subseteq hot /\ events \subseteq UNION objects

\* What an invocation is to acknowledge is stored, and so are the hot events of
\* the group whose object is still to be put.
StoreInv ==
    /\ Stored(seen.acked, audit_hot, archive)
    /\ consumer # None =>
           /\ Stored(consumer.acked, audit_hot, archive)
           /\ consumer.stored => Hot(Events(consumer.batch, Current)) \subseteq audit_hot

Inv ==
    /\ RequestInv /\ TokenInv /\ PostInv
    /\ QueueInv /\ ConsumerInv
    /\ FailedAfterAllAttempts /\ StoreInv

-----------------------------------------------------------------------------
(* Bags and groups.                                                        *)

\* A message put into the queue.
LEMMA BagPlus == ASSUME NEW A, NEW B PROVE DOMAIN (A (+) B) = DOMAIN A \cup DOMAIN B
BY Zenon DEF (+)

\* Messages taken from it.
LEMMA BagMinus == ASSUME NEW A, NEW B PROVE DOMAIN (A (-) B) \subseteq DOMAIN A
BY Zenon DEF (-)

\* The bag of the values of a function.
LEMMA BagOf == ASSUME NEW f, NEW x \in DOMAIN ToBag(f) PROVE \E i \in DOMAIN f : x = f[i]
BY Zenon DEF ToBag, Range

\* The bag of one message.
LEMMA SentOne == ASSUME NEW b, NEW x \in DOMAIN Sent(b) PROVE x = [body |-> b, tries |-> 0]
BY Zenon DEF Sent, SetToBag

\* A group is made of the messages left.
LEMMA GroupLeft == ASSUME NEW batch, NEW audit PROVE Group(batch, audit) \subseteq audit
BY Zenon DEF Group

-----------------------------------------------------------------------------
(* Backed messages.                                                        *)

\* A message stays backed as tokens are minted and posted.
LEMMA BackedGrows ==
    ASSUME NEW m, NEW s, NEW t, s.minted \subseteq t.minted, s.posted \subseteq t.posted, Backed(m, s)
    PROVE  Backed(m, t)
BY Zenon DEF Backed

\* So do those of the consumer.
LEMMA ConsumerGrows ==
    ASSUME NEW c, NEW s, NEW t, s.minted \subseteq t.minted, s.posted \subseteq t.posted, ConsumerOk(c, s)
    PROVE  ConsumerOk(c, t)
BY Zenon, BackedGrows DEF ConsumerOk

\* A message of audit events needs nothing behind it.
LEMMA AuditBacked ==
    ASSUME NEW events, NEW s, NEW m \in DOMAIN Sent(AuditTask(events))
    PROVE  Backed(m, s)
<1>1. m = [body |-> AuditTask(events), tries |-> 0]
  BY Zenon, SentOne
<1> QED  BY <1>1 DEF AuditTask, Backed

\* A retry is queued after the attempts before it.
LEMMA RetryBacked ==
    ASSUME NEW jti, NEW attempt \in Nat, NEW s, jti \in s.minted,
           \A n \in 0 .. attempt - 1 : <<jti, n>> \in s.posted,
           NEW m \in DOMAIN Sent(BackchannelTask(jti, attempt))
    PROVE  Backed(m, s)
<1>1. m = [body |-> BackchannelTask(jti, attempt), tries |-> 0]
  BY Zenon, SentOne
<1>2. m.body = BackchannelTask(jti, attempt) /\ {"body", "tries"} \subseteq DOMAIN m
  BY <1>1
<1>3. m.body.jti = jti /\ m.body.attempt = attempt
  BY <1>2 DEF BackchannelTask
<1> QED  BY Zenon, <1>2, <1>3 DEF Backed

\* Messages delivered again are backed as they were.
LEMMA AgainBacked ==
    ASSUME NEW batch, NEW retry, NEW s, retry \subseteq DOMAIN batch,
           \A i \in DOMAIN batch : Backed(batch[i], s),
           NEW m \in DOMAIN Redelivered(batch, retry)
    PROVE  Backed(m, s)
<1>1. PICK again : again = {i \in retry : batch[i].tries < MAX_RETRIES}
  BY Zenon
<1>2. PICK f : f = [i \in again |-> [batch[i] EXCEPT !.tries = @ + 1]]
  BY Zenon
<1>3. m \in DOMAIN ToBag(f)
  BY Zenon, <1>1, <1>2 DEF Redelivered
<1>4. PICK i \in DOMAIN f : m = f[i]
  BY Zenon, <1>3, BagOf
<1>5. i \in DOMAIN batch /\ m = [batch[i] EXCEPT !.tries = @ + 1]
  BY Zenon, <1>1, <1>2, <1>4
<1>6. PICK o : o = batch[i] /\ Backed(o, s)
  BY Zenon, <1>5
<1>7. m = [o EXCEPT !.tries = @ + 1]
  BY Zenon, <1>5, <1>6
<1>8. DOMAIN m = DOMAIN o /\ ("body" \in DOMAIN o => m.body = o.body)
  BY <1>7
<1> QED  BY Zenon, <1>6, <1>8 DEF Backed

-----------------------------------------------------------------------------

(* What a step leaves alone.                                               *)

\* The requests and the sessions.
LEMMA RequestKept == ASSUME RequestInv, UNCHANGED <<live, request>> PROVE RequestInv'
BY Zenon DEF RequestInv

\* The tokens minted.
LEMMA TokenKept ==
    ASSUME TokenInv, UNCHANGED <<live, request>>, DOMAIN seen' = DOMAIN seen, seen'.minted = seen.minted
    PROVE  TokenInv'
BY Zenon DEF TokenInv

\* The queue, as far as its messages are old ones or backed.
LEMMA QueueKept ==
    ASSUME QueueInv, seen.minted \subseteq seen'.minted, seen.posted \subseteq seen'.posted,
           \A m \in DOMAIN queue' : m \in DOMAIN queue \/ Backed(m, seen')
    PROVE  QueueInv'
<1>1. ASSUME NEW m \in DOMAIN queue' PROVE Backed(m, seen')
  BY Zenon, <1>1, BackedGrows DEF QueueInv
<1> QED  BY Zenon, <1>1 DEF QueueInv

\* The consumer.
LEMMA ConsumerKept ==
    ASSUME ConsumerInv, UNCHANGED consumer, seen.minted \subseteq seen'.minted, seen.posted \subseteq seen'.posted
    PROVE  ConsumerInv'
<1>1. ASSUME consumer # None PROVE ConsumerOk(consumer, seen')
  BY Zenon, <1>1, ConsumerGrows DEF ConsumerInv
<1> QED  BY Zenon, <1>1 DEF ConsumerInv

\* The failures reported.
LEMMA FailedKept ==
    ASSUME FailedAfterAllAttempts, seen'.failed = seen.failed, seen.posted \subseteq seen'.posted
    PROVE  FailedAfterAllAttempts'
BY Zenon DEF FailedAfterAllAttempts

\* The stores.
LEMMA StoreKept ==
    ASSUME StoreInv, UNCHANGED <<consumer, audit_hot, archive>>, seen'.acked = seen.acked
    PROVE  StoreInv'
BY Zenon DEF StoreInv, Current

\* Everything but the requests.
LEMMA RestKept ==
    ASSUME Inv, UNCHANGED <<sending, queue, consumer, audit_hot, archive, seen>>
    PROVE  PostInv' /\ QueueInv' /\ ConsumerInv' /\ FailedAfterAllAttempts' /\ StoreInv'
<1>1. PostInv'
  BY Zenon DEF Inv, PostInv
<1> QED  BY Zenon, <1>1, QueueKept, ConsumerKept, FailedKept, StoreKept DEF Inv

\* What the history keeps of tokens and acknowledgements.
Same(s, t) == /\ DOMAIN t = DOMAIN s /\ t.minted = s.minted /\ t.failed = s.failed /\ t.acked = s.acked

SeenFields(s) == {"minted", "posted", "received", "failed", "lost", "acked"} \subseteq DOMAIN s

\* A post is recorded.
LEMMA PostRecorded ==
    ASSUME NEW s, NEW jti, NEW attempt, NEW ok, NEW t, SeenFields(s),
           t = deliverLogoutToken(s, jti, attempt, ok)
    PROVE  Same(s, t) /\ t.posted = s.posted \cup {<<jti, attempt>>}
BY DEF deliverLogoutToken, Same, SeenFields

\* A token is lost.
LEMMA LossRecorded ==
    ASSUME NEW s, NEW jtis, NEW t, SeenFields(s), t = [s EXCEPT !.lost = @ \cup jtis]
    PROVE  Same(s, t) /\ t.posted = s.posted
BY DEF Same, SeenFields

\* A step that moves tokens from `sending` on, and tasks through the queue.
LEMMA PostsKeep ==
    ASSUME Inv, UNCHANGED <<live, request>>, Same(seen, seen'), seen.posted \subseteq seen'.posted,
           sending' \subseteq sending,
           \A x \in seen'.posted : x \in seen.posted \/ x[1] \in seen.minted,
           \A m \in DOMAIN queue' : m \in DOMAIN queue \/ Backed(m, seen')
    PROVE  /\ RequestInv' /\ TokenInv' /\ PostInv' /\ QueueInv' /\ FailedAfterAllAttempts'
           /\ seen'.acked = seen.acked
           /\ UNCHANGED consumer => ConsumerInv'
           /\ UNCHANGED <<consumer, audit_hot, archive>> => StoreInv'
<1>1. /\ DOMAIN seen' = DOMAIN seen /\ seen'.minted = seen.minted /\ seen'.failed = seen.failed
      /\ seen'.acked = seen.acked /\ seen.minted \subseteq seen'.minted
  BY Zenon DEF Same
<1>2. PostInv'
  BY Zenon, <1>1 DEF Inv, PostInv
<1>3. RequestInv' /\ TokenInv' /\ QueueInv' /\ FailedAfterAllAttempts'
  BY Zenon, <1>1, RequestKept, TokenKept, QueueKept, FailedKept DEF Inv
<1>4. UNCHANGED consumer => ConsumerInv'
  BY Zenon, <1>1, ConsumerKept DEF Inv
<1>5. UNCHANGED <<consumer, audit_hot, archive>> => StoreInv'
  BY Zenon, <1>1, StoreKept DEF Inv
<1> QED  BY Zenon, <1>1, <1>2, <1>3, <1>4, <1>5

-----------------------------------------------------------------------------
(* The requests.                                                           *)

\* endSession: the request that takes the session out of `live` is the only
\* one to notify its clients.
LEMMA EndSessionKeeps ==
    ASSUME Inv, NEW p \in Procs, NEW sid \in Sessions, endSession(p, sid)
    PROVE  Inv'
<1>1. /\ live' = live \ {sid} /\ UNCHANGED <<sending, queue, consumer, audit_hot, archive, seen>>
      /\ request[p] = Idle
  BY Zenon DEF endSession
<1>2. PICK r : /\ request' = [request EXCEPT ![p] = r]
               /\ \/ r = Done
                  \/ /\ sid \in live
                     /\ r = [pc |-> "notify", sid |-> sid, todo |-> Clients,
                             events |-> {Event(type, <<sid, None, p>>) :
                                            type \in {"session.revoked", "interaction.completed"}}]
  BY Zenon DEF endSession, Revoked
<1>3. /\ {"pc", "sid", "todo", "events"} \subseteq DOMAIN r /\ r.todo \subseteq Clients
      /\ r.pc = "notify" => r.sid = sid /\ sid \in live
  BY <1>2 DEF Done
<1>4. /\ DOMAIN request' = Procs /\ request'[p] = r
      /\ \A q \in Procs : q # p => request'[q] = request[q]
  BY Zenon, <1>2 DEF Inv, RequestInv
<1>5. RequestInv'
  BY Zenon, <1>1, <1>3, <1>4 DEF Inv, RequestInv
<1>6. TokenInv'
  <2>1. \A q \in Procs : request[q].pc = "notify" => request[q].sid \notin live
    BY Zenon DEF Inv, RequestInv
  <2>2. \A q \in Procs, i \in seen.minted :
            request'[q].pc = "notify" /\ request'[q].sid = i[1] => i[3] = q
    <3>1. SUFFICES ASSUME NEW q \in Procs, NEW i \in seen.minted,
                          request'[q].pc = "notify", request'[q].sid = i[1]
                   PROVE  i[3] = q
      BY Zenon
    <3>2. CASE q = p
      BY Zenon, <1>3, <1>4, <3>1, <3>2 DEF Inv, TokenInv
    <3>3. CASE q # p
      <4>1. request[q].pc = "notify" /\ request[q].sid = i[1]
        BY Zenon, <1>4, <3>1, <3>3
      <4> QED  BY Zenon, <4>1 DEF Inv, TokenInv
    <3> QED  BY Zenon, <3>2, <3>3
  <2>3. \A q, o \in Procs : /\ request'[q].pc = "notify" /\ request'[o].pc = "notify"
                            /\ request'[q].sid = request'[o].sid
                            => q = o
    <3>1. SUFFICES ASSUME NEW q \in Procs, NEW o \in Procs, request'[q].pc = "notify",
                          request'[o].pc = "notify", request'[q].sid = request'[o].sid
                   PROVE  q = o
      BY Zenon
    <3>2. CASE q = p /\ o # p
      BY Zenon, <1>3, <1>4, <2>1, <3>1, <3>2
    <3>3. CASE q # p /\ o = p
      BY Zenon, <1>3, <1>4, <2>1, <3>1, <3>3
    <3>4. CASE q # p /\ o # p
      <4>1. /\ request[q].pc = "notify" /\ request[o].pc = "notify"
            /\ request[q].sid = request[o].sid
        BY Zenon, <1>4, <3>1, <3>4
      <4> QED  BY Zenon, <4>1 DEF Inv, TokenInv
    <3> QED  BY Zenon, <3>2, <3>3, <3>4
  <2> QED  BY Zenon, <1>1, <2>2, <2>3 DEF Inv, TokenInv
<1> QED  BY Zenon, <1>1, <1>5, <1>6, RestKept DEF Inv

\* A request that goes on, or ends, keeping its session or giving it up.
LEMMA MoveKeeps ==
    ASSUME Inv, NEW p \in Procs, NEW r, request' = [request EXCEPT ![p] = r], live' = live,
           DOMAIN seen' = DOMAIN seen, seen'.minted = seen.minted,
           {"pc", "sid", "todo", "events"} \subseteq DOMAIN r, r.todo \subseteq Clients,
           r.pc = "notify" => request[p].pc = "notify" /\ r.sid = request[p].sid
    PROVE  RequestInv' /\ TokenInv'
<1>1. /\ DOMAIN request' = Procs /\ request'[p] = r
      /\ \A q \in Procs : q # p => request'[q] = request[q]
  BY Zenon DEF Inv, RequestInv
<1>2. RequestInv'
  BY Zenon, <1>1 DEF Inv, RequestInv
<1>3. \A q \in Procs : request'[q].pc = "notify" =>
                           request[q].pc = "notify" /\ request'[q].sid = request[q].sid
  BY Zenon, <1>1
<1>4. \A q \in Procs, i \in seen.minted :
          request'[q].pc = "notify" /\ request'[q].sid = i[1] => i[3] = q
  <2>1. SUFFICES ASSUME NEW q \in Procs, NEW i \in seen.minted,
                        request'[q].pc = "notify", request'[q].sid = i[1]
                 PROVE  i[3] = q
    BY Zenon
  <2>2. request[q].pc = "notify" /\ request[q].sid = i[1]
    BY Zenon, <1>3, <2>1
  <2> QED  BY Zenon, <2>2 DEF Inv, TokenInv
<1>5. \A q, o \in Procs : /\ request'[q].pc = "notify" /\ request'[o].pc = "notify"
                          /\ request'[q].sid = request'[o].sid
                          => q = o
  <2>1. SUFFICES ASSUME NEW q \in Procs, NEW o \in Procs, request'[q].pc = "notify",
                        request'[o].pc = "notify", request'[q].sid = request'[o].sid
                 PROVE  q = o
    BY Zenon
  <2>2. /\ request[q].pc = "notify" /\ request[o].pc = "notify"
        /\ request[q].sid = request[o].sid
    BY Zenon, <1>3, <2>1
  <2> QED  BY Zenon, <2>2 DEF Inv, TokenInv
<1>6. TokenInv'
  BY Zenon, <1>4, <1>5 DEF Inv, TokenInv
<1> QED  BY Zenon, <1>2, <1>6

\* notifyEndedSessions, stop and shipAuditEvents.
LEMMA WindUpKeeps ==
    ASSUME Inv, NEW p \in Procs, notifyEndedSessions(p) \/ stop(p) \/ shipAuditEvents(p)
    PROVE  Inv'
<1>1. /\ UNCHANGED <<live, sending, consumer, audit_hot, archive, seen>>
      /\ request' \in {[request EXCEPT ![p] = Done], [request EXCEPT ![p].pc = "ship", ![p].todo = {}]}
      /\ queue' \in {queue, queue (+) Sent(AuditTask(request[p].events))}
  BY Zenon DEF notifyEndedSessions, stop, shipAuditEvents
<1>2. PICK r : /\ request' = [request EXCEPT ![p] = r]
               /\ \/ r = Done
                  \/ r = [request[p] EXCEPT !.pc = "ship", !.todo = {}]
  <2>1. CASE request' = [request EXCEPT ![p] = Done]
    BY Zenon, <2>1
  <2>2. CASE request' = [request EXCEPT ![p].pc = "ship", ![p].todo = {}]
    <3>1. PICK r : r = [request[p] EXCEPT !.pc = "ship", !.todo = {}]
      OBVIOUS
    <3>2. request' = [request EXCEPT ![p] = r]
      BY Zenon, <2>2, <3>1 DEF Inv, RequestInv
    <3> QED  BY Zenon, <3>1, <3>2
  <2> QED  BY Zenon, <1>1, <2>1, <2>2
<1>3. {"pc", "sid", "todo", "events"} \subseteq DOMAIN request[p]
  BY Zenon DEF Inv, RequestInv
<1>4. {"pc", "sid", "todo", "events"} \subseteq DOMAIN r /\ r.todo \subseteq Clients /\ r.pc # "notify"
  <2>1. CASE r = Done
    BY <2>1 DEF Done
  <2>2. CASE r = [request[p] EXCEPT !.pc = "ship", !.todo = {}]
    <3>1. PICK o : o = request[p]
      OBVIOUS
    <3>2. r = [o EXCEPT !.pc = "ship", !.todo = {}] /\ {"pc", "sid", "todo", "events"} \subseteq DOMAIN o
      BY Zenon, <1>3, <2>2, <3>1
    <3> QED  BY <3>2
  <2> QED  BY Zenon, <1>2, <2>1, <2>2
<1>5. RequestInv' /\ TokenInv'
  BY Zenon, <1>1, <1>2, <1>4, MoveKeeps
<1>6. \A m \in DOMAIN queue' : m \in DOMAIN queue \/ Backed(m, seen')
  <2>1. CASE queue' = queue (+) Sent(AuditTask(request[p].events))
    <3>1. PICK events : events = request[p].events
      OBVIOUS
    <3>2. DOMAIN queue' = DOMAIN queue \cup DOMAIN Sent(AuditTask(events))
      BY Zenon, <2>1, <3>1, BagPlus
    <3> QED  BY Zenon, <3>2, AuditBacked
  <2> QED  BY Zenon, <1>1, <2>1
<1>7. PostInv'
  BY Zenon, <1>1 DEF Inv, PostInv
<1>8. QueueInv' /\ ConsumerInv' /\ FailedAfterAllAttempts' /\ StoreInv'
  BY Zenon, <1>1, <1>6, QueueKept, ConsumerKept, FailedKept, StoreKept DEF Inv
<1> QED  BY Zenon, <1>5, <1>7, <1>8 DEF Inv

\* notifyClients: the token minted is of the request that ended the session.
LEMMA NotifyKeeps == ASSUME Inv, NEW p \in Procs, notifyClients(p) PROVE Inv'
<1>1. request[p].pc = "notify" /\ UNCHANGED <<live, queue, consumer, audit_hot, archive>>
  BY Zenon DEF notifyClients
<1>2. PICK c \in request[p].todo, found \in BOOLEAN :
          LET jti == <<request[p].sid, c, p>>
              sent == IF found THEN {jti} ELSE {}
          IN  /\ request' = [request EXCEPT ![p].todo = @ \ {c},
                     ![p].pc = IF request[p].todo = {c} THEN "ship" ELSE @,
                     ![p].events = @ \cup {Event("logout.backchannel_sent", j) : j \in sent}]
              /\ sending' = sending \cup sent
              /\ seen' = [seen EXCEPT !.minted = @ \cup sent]
  BY Zenon DEF notifyClients
<1>3. PICK jti : jti = <<request[p].sid, c, p>>
  BY Zenon
<1>4. PICK sent : sent \subseteq {jti} /\ sent = IF found THEN {jti} ELSE {}
  BY Zenon
<1>5. /\ request' = [request EXCEPT ![p].todo = @ \ {c},
                 ![p].pc = IF request[p].todo = {c} THEN "ship" ELSE @,
                 ![p].events = @ \cup {Event("logout.backchannel_sent", j) : j \in sent}]
      /\ sending' = sending \cup sent
      /\ seen' = [seen EXCEPT !.minted = @ \cup sent]
  BY Zenon, <1>2, <1>3, <1>4
<1>6. PICK o : /\ o = request[p] /\ {"pc", "sid", "todo", "events"} \subseteq DOMAIN o
               /\ o.todo \subseteq Clients /\ o.sid \in Sessions \ live
  BY Zenon, <1>1 DEF Inv, RequestInv
<1>7. PICK r, e : /\ e = o.events \cup {Event("logout.backchannel_sent", j) : j \in sent}
                  /\ r = [o EXCEPT !.todo = @ \ {c}, !.pc = IF o.todo = {c} THEN "ship" ELSE @,
                                   !.events = e]
  BY Zenon
<1>8. request' = [request EXCEPT ![p] = r]
  BY Zenon, <1>5, <1>6, <1>7 DEF Inv, RequestInv
<1>9. /\ {"pc", "sid", "todo", "events"} \subseteq DOMAIN r /\ r.todo \subseteq Clients
      /\ r.sid = o.sid
  BY <1>6, <1>7
<1>10. /\ DOMAIN request' = Procs /\ request'[p] = r
       /\ \A q \in Procs : q # p => request'[q] = request[q]
  BY Zenon, <1>8 DEF Inv, RequestInv
<1>11. RequestInv'
  BY Zenon, <1>1, <1>6, <1>9, <1>10 DEF Inv, RequestInv
<1>12. \A q \in Procs : request'[q].pc = "notify" =>
                            request[q].pc = "notify" /\ request'[q].sid = request[q].sid
  BY Zenon, <1>1, <1>6, <1>9, <1>10
<1>13. SeenFields(seen)
  BY Zenon DEF Inv, TokenInv, SeenFields
<1>14. /\ DOMAIN seen' = DOMAIN seen /\ seen'.minted = seen.minted \cup sent
       /\ seen'.posted = seen.posted /\ seen'.failed = seen.failed /\ seen'.acked = seen.acked
  BY Zenon, <1>5, <1>13 DEF SeenFields
<1>15. jti \in Jtis /\ jti[1] = request[p].sid /\ jti[3] = p /\ jti[1] \notin live
  BY Zenon, <1>2, <1>3, <1>6 DEF Jtis
<1>16. \A i \in seen'.minted : i \in seen.minted \/ i = jti
  BY Zenon, <1>4, <1>14
<1>17. TokenInv'
  <2>1. seen'.minted \subseteq Jtis /\ \A i \in seen'.minted : i[1] \notin live'
    BY Zenon, <1>1, <1>15, <1>16 DEF Inv, TokenInv
  <2>2. \A q \in Procs, i \in seen'.minted :
            request[q].pc = "notify" /\ request[q].sid = i[1] => i[3] = q
    <3>1. SUFFICES ASSUME NEW q \in Procs, NEW i \in seen'.minted,
                          request[q].pc = "notify", request[q].sid = i[1]
                   PROVE  i[3] = q
      BY Zenon
    <3>2. CASE i \in seen.minted
      BY Zenon, <3>1, <3>2 DEF Inv, TokenInv
    <3>3. CASE i = jti
      <4>1. request[q].sid = request[p].sid
        BY Zenon, <1>15, <3>1, <3>3
      <4>2. q = p
        BY Zenon, <1>1, <3>1, <4>1 DEF Inv, TokenInv
      <4> QED  BY Zenon, <1>15, <3>3, <4>2
    <3> QED  BY Zenon, <1>16, <3>2, <3>3
  <2>3. \A i, j \in seen'.minted : i[1] = j[1] => i[3] = j[3]
    <3>1. SUFFICES ASSUME NEW i \in seen'.minted, NEW j \in seen'.minted, i[1] = j[1]
                   PROVE  i[3] = j[3]
      BY Zenon
    <3>2. CASE i \in seen.minted /\ j \in seen.minted
      BY Zenon, <3>1, <3>2 DEF Inv, TokenInv
    <3>3. CASE i = jti
      <4>1. request[p].sid = j[1]
        BY Zenon, <1>15, <3>1, <3>3
      <4> QED  BY Zenon, <1>1, <1>15, <2>2, <3>3, <4>1
    <3>4. CASE j = jti
      <4>1. request[p].sid = i[1]
        BY Zenon, <1>15, <3>1, <3>4
      <4> QED  BY Zenon, <1>1, <1>15, <2>2, <3>4, <4>1
    <3> QED  BY Zenon, <1>16, <3>2, <3>3, <3>4
  <2>4. \A q \in Procs, i \in seen'.minted :
            request'[q].pc = "notify" /\ request'[q].sid = i[1] => i[3] = q
    <3>1. SUFFICES ASSUME NEW q \in Procs, NEW i \in seen'.minted,
                          request'[q].pc = "notify", request'[q].sid = i[1]
                   PROVE  i[3] = q
      BY Zenon
    <3>2. request[q].pc = "notify" /\ request[q].sid = i[1]
      BY Zenon, <1>12, <3>1
    <3> QED  BY Zenon, <2>2, <3>2
  <2>5. \A q, v \in Procs : /\ request'[q].pc = "notify" /\ request'[v].pc = "notify"
                            /\ request'[q].sid = request'[v].sid
                            => q = v
    <3>1. SUFFICES ASSUME NEW q \in Procs, NEW v \in Procs, request'[q].pc = "notify",
                          request'[v].pc = "notify", request'[q].sid = request'[v].sid
                   PROVE  q = v
      BY Zenon
    <3>2. /\ request[q].pc = "notify" /\ request[v].pc = "notify"
          /\ request[q].sid = request[v].sid
      BY Zenon, <1>12, <3>1
    <3> QED  BY Zenon, <3>2 DEF Inv, TokenInv
  <2> QED  BY Zenon, <1>13, <1>14, <2>1, <2>3, <2>4, <2>5 DEF TokenInv, SeenFields
<1>18. PostInv'
  BY Zenon, <1>5, <1>14 DEF Inv, PostInv
<1>19. QueueInv' /\ ConsumerInv' /\ FailedAfterAllAttempts' /\ StoreInv'
  <2>1. seen.minted \subseteq seen'.minted /\ seen.posted \subseteq seen'.posted
    BY Zenon, <1>14
  <2> QED  BY Zenon, <1>1, <1>14, <2>1, QueueKept, ConsumerKept, FailedKept, StoreKept DEF Inv
<1> QED  BY Zenon, <1>11, <1>17, <1>18, <1>19 DEF Inv

-----------------------------------------------------------------------------
(* The deliveries left to waitUntil.                                       *)

\* enqueueRetry: the retry is queued, or the token lost.
LEMMA Enqueued ==
    ASSUME NEW s, NEW jti, NEW attempt \in Nat, SeenFields(s), jti \in s.minted,
           \A n \in 0 .. attempt - 1 : <<jti, n>> \in s.posted,
           enqueueRetry(s, queue, jti, attempt)
    PROVE  /\ Same(s, seen') /\ seen'.posted = s.posted
           /\ \A m \in DOMAIN queue' : m \in DOMAIN queue \/ Backed(m, seen')
<1>1. CASE queue' = queue (+) Sent(BackchannelTask(jti, attempt)) /\ seen' = s
  <2>1. DOMAIN queue' = DOMAIN queue \cup DOMAIN Sent(BackchannelTask(jti, attempt))
    BY Zenon, <1>1, BagPlus
  <2>2. \A m \in DOMAIN Sent(BackchannelTask(jti, attempt)) : Backed(m, s)
    BY Zenon, RetryBacked
  <2> QED  BY Zenon, <1>1, <2>1, <2>2 DEF Same
<1>2. CASE queue' = queue /\ seen' = [s EXCEPT !.lost = @ \cup {jti}]
  BY Zenon, <1>2, LossRecorded
<1> QED  BY Zenon, <1>1, <1>2 DEF enqueueRetry

\* deliver: attempt 0 has been posted when attempt 1 is queued.
LEMMA DeliverKeeps == ASSUME Inv, NEW jti, deliver(jti) PROVE Inv'
<1>1. /\ jti \in sending /\ sending' = sending \ {jti}
      /\ UNCHANGED <<live, request, consumer, audit_hot, archive>>
  BY Zenon DEF deliver
<1>2. PICK ok \in BOOLEAN :
          LET s == deliverLogoutToken(seen, jti, 0, ok) IN
          IF ok THEN seen' = s /\ UNCHANGED queue ELSE enqueueRetry(s, queue, jti, 1)
  BY Zenon DEF deliver
<1>3. PICK s : s = deliverLogoutToken(seen, jti, 0, ok)
  OBVIOUS
<1>4. SeenFields(seen) /\ jti \in seen.minted
  BY Zenon, <1>1 DEF Inv, TokenInv, SeenFields, PostInv
<1>5. Same(seen, s) /\ s.posted = seen.posted \cup {<<jti, 0>>}
  BY <1>3, <1>4, PostRecorded
<1>6. SeenFields(s) /\ jti \in s.minted
  BY Zenon, <1>4, <1>5 DEF SeenFields, Same
<1>7. /\ Same(seen, seen') /\ seen'.posted = s.posted
      /\ \A m \in DOMAIN queue' : m \in DOMAIN queue \/ Backed(m, seen')
  <2>1. CASE seen' = s /\ UNCHANGED queue
    BY Zenon, <1>5, <2>1
  <2>2. CASE enqueueRetry(s, queue, jti, 1)
    <3>1. 0 .. 1 - 1 = {0} /\ 1 \in Nat
      OBVIOUS
    <3>2. \A n \in 0 .. 1 - 1 : <<jti, n>> \in s.posted
      BY Zenon, <1>5, <3>1
    <3>3. /\ Same(s, seen') /\ seen'.posted = s.posted
          /\ \A m \in DOMAIN queue' : m \in DOMAIN queue \/ Backed(m, seen')
      BY Zenon, <1>6, <2>2, <3>1, <3>2, Enqueued
    <3> QED  BY Zenon, <1>5, <3>3 DEF Same
  <2> QED  BY Zenon, <1>2, <1>3, <2>1, <2>2
<1>8. <<jti, 0>>[1] = jti
  OBVIOUS
<1>9. /\ seen.posted \subseteq seen'.posted /\ sending' \subseteq sending
      /\ \A x \in seen'.posted : x \in seen.posted \/ x[1] \in seen.minted
  BY Zenon, <1>1, <1>4, <1>5, <1>7, <1>8
<1> QED  BY Zenon, <1>1, <1>7, <1>9, PostsKeep DEF Inv

\* abandon: the token is lost.
LEMMA AbandonKeeps == ASSUME Inv, NEW jti, abandon(jti) PROVE Inv'
<1>1. /\ sending' = sending \ {jti} /\ seen' = [seen EXCEPT !.lost = @ \cup {jti}]
      /\ UNCHANGED <<live, request, queue, consumer, audit_hot, archive>>
  BY Zenon DEF abandon
<1>2. Same(seen, seen') /\ seen'.posted = seen.posted
  BY Zenon, <1>1, LossRecorded DEF Inv, TokenInv, SeenFields
<1>3. /\ seen.posted \subseteq seen'.posted /\ sending' \subseteq sending
      /\ \A x \in seen'.posted : x \in seen.posted \/ x[1] \in seen.minted
      /\ \A m \in DOMAIN queue' : m \in DOMAIN queue \/ Backed(m, seen')
  BY Zenon, <1>1, <1>2
<1> QED  BY Zenon, <1>1, <1>2, <1>3, PostsKeep DEF Inv

-----------------------------------------------------------------------------
(* The consumer.                                                           *)

\* An invocation goes on with the same batch.
LEMMA ConsumerMoves ==
    ASSUME NEW c, NEW d, NEW s, NEW t, ConsumerOk(c, s), DOMAIN d = DOMAIN c, d.batch = c.batch,
           d.tasks \subseteq c.tasks, d.audit \subseteq c.audit, d.retry \subseteq DOMAIN c.batch,
           s.minted \subseteq t.minted, s.posted \subseteq t.posted
    PROVE  ConsumerOk(d, t)
<1>1. \A i \in DOMAIN c.batch : Backed(c.batch[i], t)
  BY Zenon, BackedGrows DEF ConsumerOk
<1> QED  BY Zenon, <1>1 DEF ConsumerOk

\* createQueue takes messages of the queue.
LEMMA TakeKeeps == ASSUME Inv, NEW batch \in Batches, createQueue(batch) PROVE Inv'
<1>1. /\ queue' = queue (-) ToBag(batch)
      /\ UNCHANGED <<live, request, sending, audit_hot, archive, seen>>
  BY Zenon DEF createQueue
<1>2. PICK c : /\ c = consumer'
               /\ c = [batch |-> batch, retry |-> {}, events |-> {}, acked |-> {},
                       tasks |-> {i \in DOMAIN batch : batch[i].body.kind # "audit"},
                       audit |-> {i \in DOMAIN batch : batch[i].body.kind = "audit"},
                       statements |-> 0, stored |-> FALSE]
  BY Zenon DEF createQueue
<1>3. \A i \in DOMAIN batch : batch[i] \in DOMAIN queue
  BY Zenon DEF Batches, BagToSet
<1>4. \A i \in DOMAIN batch : Backed(batch[i], seen)
  BY Zenon, <1>3 DEF Inv, QueueInv
<1>5. /\ {"batch", "retry", "events", "acked", "tasks", "audit", "statements", "stored"} \subseteq DOMAIN c
      /\ c.batch = batch /\ c.retry = {} /\ c.acked = {} /\ c.stored = FALSE
      /\ c.tasks = {i \in DOMAIN batch : batch[i].body.kind # "audit"}
      /\ c.audit = {i \in DOMAIN batch : batch[i].body.kind = "audit"}
  BY <1>2
<1>6. ConsumerOk(c, seen)
  BY Zenon, <1>4, <1>5 DEF ConsumerOk
<1>7. ConsumerInv'
  BY Zenon, <1>1, <1>2, <1>6 DEF ConsumerInv
<1>8. StoreInv'
  <2>1. Hot({}) = {}
    BY Zenon DEF Hot
  <2> QED  BY Zenon, <1>1, <1>2, <1>5, <2>1 DEF Inv, StoreInv, Stored
<1>9. \A m \in DOMAIN queue' : m \in DOMAIN queue
  BY Zenon, <1>1, BagMinus
<1>10. RequestInv' /\ TokenInv' /\ QueueInv' /\ FailedAfterAllAttempts'
  BY Zenon, <1>1, <1>9, RequestKept, TokenKept, QueueKept, FailedKept DEF Inv
<1>11. PostInv'
  BY Zenon, <1>1 DEF Inv, PostInv
<1> QED  BY Zenon, <1>7, <1>8, <1>10, <1>11 DEF Inv

\* A step of the invocation that posts, and leaves its audit messages alone.
LEMMA TaskKeeps ==
    ASSUME Inv, consumer # None, NEW d, consumer' = d, DOMAIN d = DOMAIN consumer,
           d.batch = consumer.batch, d.tasks \subseteq consumer.tasks, d.audit = consumer.audit,
           d.retry \subseteq DOMAIN consumer.batch, d.acked = consumer.acked,
           d.stored = consumer.stored,
           seen.minted \subseteq seen'.minted, seen.posted \subseteq seen'.posted, seen'.acked = seen.acked,
           UNCHANGED <<audit_hot, archive>>
    PROVE  ConsumerInv' /\ StoreInv'
<1>1. ConsumerOk(consumer, seen)
  BY Zenon DEF Inv, ConsumerInv
<1>2. ConsumerOk(d, seen')
  BY Zenon, <1>1, ConsumerMoves
<1>3. ConsumerInv'
  BY Zenon, <1>2 DEF ConsumerInv
<1>4. StoreInv'
  BY Zenon DEF Inv, StoreInv, Current
<1> QED  BY Zenon, <1>3, <1>4

\* retryBackchannel: attempt n is posted after those before it, and the retry
\* that follows is attempt n + 1; a failure comes after the last.
LEMMA RetryKeeps == ASSUME Inv, retryBackchannel PROVE Inv'
<1>1. consumer # None /\ UNCHANGED <<live, request, sending, audit_hot, archive>>
  BY Zenon DEF retryBackchannel
<1>2. PICK i \in consumer.tasks :
       LET rest == [consumer EXCEPT !.tasks = @ \ {i}]
           task == consumer.batch[i].body
       IN  /\ First(i, consumer.tasks)
           /\ \/ /\ consumer' = [rest EXCEPT !.retry = @ \cup {i}]
                 /\ UNCHANGED <<queue, seen>>
              \/ \E ok \in BOOLEAN :
                     LET s == deliverLogoutToken(seen, task.jti, task.attempt, ok) IN
                     IF ok THEN consumer' = rest /\ seen' = s /\ UNCHANGED queue
                     ELSE IF GiveUp(task.attempt)
                     THEN /\ consumer' = [rest EXCEPT !.events =
                                 @ \cup {Event("logout.backchannel_failed", task.jti)}]
                          /\ seen' = [s EXCEPT !.failed = @ \cup {task.jti}]
                          /\ UNCHANGED queue
                     ELSE /\ consumer' = rest
                          /\ enqueueRetry(s, queue, task.jti, NextAttempt(task.attempt))
  BY Zenon DEF retryBackchannel
<1>3. PICK c : c = consumer /\ ConsumerOk(c, seen)
  BY Zenon, <1>1 DEF Inv, ConsumerInv
<1>4. PICK rest : rest = [c EXCEPT !.tasks = @ \ {i}]
  BY Zenon
<1>5. PICK task, jti, a : task = consumer.batch[i].body /\ jti = task.jti /\ a = task.attempt
  OBVIOUS
<1>6. /\ jti \in seen.minted /\ a \in Nat /\ \A n \in 0 .. a - 1 : <<jti, n>> \in seen.posted
      /\ i \in DOMAIN c.batch
  BY Zenon, <1>2, <1>3, <1>5 DEF ConsumerOk, Backed
<1>7. \/ /\ consumer' = [rest EXCEPT !.retry = @ \cup {i}]
         /\ UNCHANGED <<queue, seen>>
      \/ \E ok \in BOOLEAN :
             LET s == deliverLogoutToken(seen, jti, a, ok) IN
             IF ok THEN consumer' = rest /\ seen' = s /\ UNCHANGED queue
             ELSE IF GiveUp(a)
             THEN /\ consumer' = [rest EXCEPT !.events = @ \cup {Event("logout.backchannel_failed", jti)}]
                  /\ seen' = [s EXCEPT !.failed = @ \cup {jti}]
                  /\ UNCHANGED queue
             ELSE consumer' = rest /\ enqueueRetry(s, queue, jti, NextAttempt(a))
  BY Zenon, <1>2, <1>3, <1>4, <1>5
<1>8. PICK d : d = consumer'
  OBVIOUS
<1>9. \/ d = rest
      \/ d = [rest EXCEPT !.retry = @ \cup {i}]
      \/ d = [rest EXCEPT !.events = @ \cup {Event("logout.backchannel_failed", jti)}]
  BY Zenon, <1>7, <1>8
<1>10. {"batch", "retry", "events", "acked", "tasks", "audit", "statements", "stored"} \subseteq DOMAIN c
  BY Zenon, <1>3 DEF ConsumerOk
<1>11. /\ DOMAIN d = DOMAIN c /\ d.batch = c.batch /\ d.tasks = c.tasks \ {i} /\ d.audit = c.audit
       /\ d.retry \in {c.retry, c.retry \cup {i}} /\ d.acked = c.acked /\ d.stored = c.stored
  BY Zenon, <1>4, <1>9, <1>10
<1>12. d.tasks \subseteq c.tasks /\ d.retry \subseteq DOMAIN c.batch
  BY Zenon, <1>3, <1>6, <1>11 DEF ConsumerOk
<1>13. SeenFields(seen)
  BY Zenon DEF Inv, TokenInv, SeenFields
<1>14. ASSUME Same(seen, seen'), seen.posted \subseteq seen'.posted,
              \A x \in seen'.posted : x \in seen.posted \/ x[1] \in seen.minted,
              \A m \in DOMAIN queue' : m \in DOMAIN queue \/ Backed(m, seen')
       PROVE  Inv'
  <2>1. seen.minted \subseteq seen'.minted /\ seen'.acked = seen.acked /\ sending' \subseteq sending
    BY Zenon, <1>1, <1>14 DEF Same
  <2>2. RequestInv' /\ TokenInv' /\ PostInv' /\ QueueInv' /\ FailedAfterAllAttempts'
    BY Zenon, <1>1, <1>14, <2>1, PostsKeep
  <2>3. ConsumerInv' /\ StoreInv'
    BY Zenon, <1>1, <1>3, <1>8, <1>11, <1>12, <1>14, <2>1, TaskKeeps
  <2> QED  BY Zenon, <2>2, <2>3 DEF Inv
<1>15. CASE UNCHANGED <<queue, seen>>
  <2>1. Same(seen, seen') /\ seen.posted \subseteq seen'.posted
    BY Zenon, <1>15 DEF Same
  <2> QED  BY Zenon, <1>14, <1>15, <2>1
<1>16. ASSUME NEW ok \in BOOLEAN, NEW s, s = deliverLogoutToken(seen, jti, a, ok)
       PROVE  /\ Same(seen, s) /\ s.posted = seen.posted \cup {<<jti, a>>}
              /\ SeenFields(s) /\ jti \in s.minted /\ seen.posted \subseteq s.posted
              /\ \A x \in s.posted : x \in seen.posted \/ x[1] \in seen.minted
              /\ \A n \in 0 .. a : <<jti, n>> \in s.posted
  <2>1. Same(seen, s) /\ s.posted = seen.posted \cup {<<jti, a>>}
    BY <1>13, <1>16, PostRecorded
  <2>2. <<jti, a>>[1] = jti
    OBVIOUS
  <2>3. \A n \in 0 .. a : n = a \/ n \in 0 .. a - 1
    BY <1>6
  <2>4. \A n \in 0 .. a : <<jti, n>> \in s.posted
    BY Zenon, <1>6, <2>1, <2>3
  <2> QED  BY Zenon, <1>6, <1>13, <2>1, <2>2, <2>4 DEF Same, SeenFields
<1>17. ASSUME NEW ok \in BOOLEAN, NEW s, s = deliverLogoutToken(seen, jti, a, ok),
              seen' = s, UNCHANGED queue
       PROVE  Inv'
  BY Zenon, <1>14, <1>16, <1>17
<1>18. ASSUME NEW ok \in BOOLEAN, NEW s, s = deliverLogoutToken(seen, jti, a, ok),
              enqueueRetry(s, queue, jti, NextAttempt(a))
       PROVE  Inv'
  <2>1. NextAttempt(a) \in Nat /\ NextAttempt(a) - 1 = a
    BY <1>6 DEF NextAttempt
  <2>2. \A n \in 0 .. NextAttempt(a) - 1 : <<jti, n>> \in s.posted
    BY Zenon, <1>16, <1>18, <2>1
  <2>3. /\ Same(s, seen') /\ seen'.posted = s.posted
        /\ \A m \in DOMAIN queue' : m \in DOMAIN queue \/ Backed(m, seen')
    BY Zenon, <1>16, <1>18, <2>1, <2>2, Enqueued
  <2>4. Same(seen, seen') /\ Same(seen, s)
    BY Zenon, <1>16, <1>18, <2>3 DEF Same
  <2> QED  BY Zenon, <1>14, <1>16, <1>18, <2>3, <2>4
<1>19. ASSUME NEW ok \in BOOLEAN, NEW s, s = deliverLogoutToken(seen, jti, a, ok), GiveUp(a),
              seen' = [s EXCEPT !.failed = @ \cup {jti}], UNCHANGED queue
       PROVE  Inv'
  <2>1. /\ Same(seen, s) /\ SeenFields(s) /\ seen.posted \subseteq s.posted
        /\ \A x \in s.posted : x \in seen.posted \/ x[1] \in seen.minted
        /\ \A n \in 0 .. a : <<jti, n>> \in s.posted
    BY Zenon, <1>16, <1>19
  <2>2. /\ DOMAIN seen' = DOMAIN s /\ seen'.minted = s.minted /\ seen'.posted = s.posted
        /\ seen'.failed = s.failed \cup {jti} /\ seen'.acked = s.acked
    BY <1>19, <2>1 DEF SeenFields
  <2>3. /\ DOMAIN seen' = DOMAIN seen /\ seen'.minted = seen.minted /\ seen'.acked = seen.acked
        /\ seen'.failed = seen.failed \cup {jti} /\ seen.posted \subseteq seen'.posted
        /\ seen.minted \subseteq seen'.minted
    BY Zenon, <2>1, <2>2 DEF Same
  <2>4. 0 .. MAX_ATTEMPTS \subseteq 0 .. a
    BY <1>6, <1>19, DeliveryAssumption DEF GiveUp
  <2>5. FailedAfterAllAttempts'
    BY Zenon, <2>1, <2>2, <2>3, <2>4 DEF Inv, FailedAfterAllAttempts
  <2>6. RequestInv' /\ TokenInv' /\ QueueInv'
    BY Zenon, <1>1, <1>19, <2>3, RequestKept, TokenKept, QueueKept DEF Inv
  <2>7. PostInv'
    BY Zenon, <1>1, <2>1, <2>2, <2>3 DEF Inv, PostInv
  <2>8. ConsumerInv' /\ StoreInv'
    BY Zenon, <1>1, <1>3, <1>8, <1>11, <1>12, <2>3, TaskKeeps
  <2> QED  BY Zenon, <2>5, <2>6, <2>7, <2>8 DEF Inv
<1> QED  BY Zenon, <1>7, <1>15, <1>17, <1>18, <1>19

\* A group is retried.
LEMMA DeferMoves ==
    ASSUME NEW c, NEW s, NEW g, NEW d, ConsumerOk(c, s), g = Group(c.batch, c.audit),
           DOMAIN d = DOMAIN c, d.batch = c.batch, d.tasks = c.tasks,
           d.audit = c.audit \ g, d.retry = c.retry \cup g
    PROVE  ConsumerOk(d, s)
<1>1. g \subseteq c.audit
  BY Zenon, GroupLeft
<1>2. d.audit \subseteq c.audit /\ d.tasks \subseteq c.tasks /\ d.retry \subseteq DOMAIN c.batch
  BY Zenon, <1>1 DEF ConsumerOk
<1>3. s.minted \subseteq s.minted /\ s.posted \subseteq s.posted
  BY Zenon
<1> QED  BY Zenon, <1>2, <1>3, ConsumerMoves

\* What is stored stays stored.
LEMMA StoredGrows ==
    ASSUME NEW e, NEW hot, NEW hot2, NEW objects, NEW objects2, Stored(e, hot, objects),
           hot \subseteq hot2, objects \subseteq objects2
    PROVE  Stored(e, hot2, objects2)
BY Zenon DEF Stored

\* A step of the invocation that only writes to the stores.
LEMMA WriteKeeps ==
    ASSUME Inv, UNCHANGED <<live, request, sending, queue, seen>>
    PROVE  RequestInv' /\ TokenInv' /\ PostInv' /\ QueueInv' /\ FailedAfterAllAttempts'
<1>1. PostInv'
  BY Zenon DEF Inv, PostInv
<1> QED  BY Zenon, <1>1, RequestKept, TokenKept, QueueKept, FailedKept DEF Inv

\* insertAudit: the hot events of the group are in audit_hot.
LEMMA InsertKeeps == ASSUME Inv, insertAudit PROVE Inv'
<1>1. consumer # None /\ UNCHANGED <<live, request, sending, queue, archive, seen>>
  BY Zenon DEF insertAudit
<1>2. PICK c, g, d : /\ c = consumer /\ g = Group(c.batch, c.audit) /\ d = consumer'
                     /\ ConsumerOk(c, seen)
  BY Zenon, <1>1 DEF Inv, ConsumerInv
<1>3. PICK hot, n : /\ hot = Hot(Events(c.batch, g))
                    /\ \/ /\ d = [[c EXCEPT !.audit = @ \ g, !.retry = @ \cup g, !.stored = FALSE]
                                     EXCEPT !.statements = n]
                          /\ UNCHANGED audit_hot
                       \/ /\ audit_hot' = audit_hot \cup hot
                          /\ d = [c EXCEPT !.statements = n, !.stored = TRUE]
  BY Zenon, <1>2 DEF insertAudit, Deferred, Current
<1>4. Stored(c.acked, audit_hot, archive) /\ Stored(seen.acked, audit_hot, archive)
  BY Zenon, <1>1, <1>2 DEF Inv, StoreInv
<1>5. CASE /\ d = [[c EXCEPT !.audit = @ \ g, !.retry = @ \cup g, !.stored = FALSE]
                      EXCEPT !.statements = n]
           /\ UNCHANGED audit_hot
  <2>1. ConsumerOk(d, seen) /\ d.acked = c.acked /\ d.stored = FALSE
    <3>1. {"batch", "retry", "events", "acked", "tasks", "audit", "statements", "stored"} \subseteq DOMAIN c
      BY Zenon, <1>2 DEF ConsumerOk
    <3>2. /\ DOMAIN d = DOMAIN c /\ d.batch = c.batch /\ d.tasks = c.tasks /\ d.acked = c.acked
          /\ d.audit = c.audit \ g /\ d.retry = c.retry \cup g /\ d.stored = FALSE
      BY <1>5, <3>1
    <3>3. ConsumerOk(d, seen)
      <4>1. ConsumerOk(c, seen) /\ g = Group(c.batch, c.audit)
        BY Zenon, <1>2
      <4> QED  BY Zenon, <3>2, <4>1, DeferMoves
    <3> QED  BY Zenon, <3>2, <3>3
  <2>2. ConsumerInv' /\ StoreInv'
    BY Zenon, <1>1, <1>2, <1>4, <1>5, <2>1 DEF ConsumerInv, StoreInv
  <2> QED  BY Zenon, <1>1, <2>2, WriteKeeps DEF Inv
<1>6. CASE /\ audit_hot' = audit_hot \cup hot
           /\ d = [c EXCEPT !.statements = n, !.stored = TRUE]
  <2>1. {"batch", "retry", "events", "acked", "tasks", "audit", "statements", "stored"} \subseteq DOMAIN c
    BY Zenon, <1>2 DEF ConsumerOk
  <2>2. /\ DOMAIN d = DOMAIN c /\ d.batch = c.batch /\ d.tasks = c.tasks /\ d.acked = c.acked
        /\ d.audit = c.audit /\ d.retry = c.retry
    BY <1>6, <2>1
  <2>3. ConsumerOk(d, seen)
    BY Zenon, <1>2, <2>2 DEF ConsumerOk
  <2>4. ConsumerInv'
    BY Zenon, <1>1, <1>2, <2>3 DEF ConsumerInv
  <2>5. audit_hot \subseteq audit_hot' /\ archive \subseteq archive' /\ hot \subseteq audit_hot'
    BY Zenon, <1>1, <1>6
  <2>6. Stored(d.acked, audit_hot', archive') /\ Stored(seen'.acked, audit_hot', archive')
    BY Zenon, <1>1, <1>4, <2>2, <2>5, StoredGrows
  <2>7. Current' = g
    BY Zenon, <1>2, <2>2 DEF Current
  <2>8. Hot(Events(consumer'.batch, Current')) \subseteq audit_hot'
    BY Zenon, <1>2, <1>3, <2>2, <2>5, <2>7
  <2>9. StoreInv'
    BY Zenon, <1>2, <2>6, <2>8 DEF StoreInv
  <2> QED  BY Zenon, <1>1, <2>4, <2>9, WriteKeeps DEF Inv
<1> QED  BY Zenon, <1>3, <1>5, <1>6

\* putArchive: the group is to be acknowledged with its hot events in audit_hot
\* and all of them in an object of its own.
LEMMA PutKeeps == ASSUME Inv, putArchive PROVE Inv'
<1>1. consumer # None /\ consumer.stored /\ UNCHANGED <<live, request, sending, queue, audit_hot, seen>>
  BY Zenon DEF putArchive
<1>2. PICK c, g, d : /\ c = consumer /\ g = Group(c.batch, c.audit) /\ d = consumer'
                     /\ ConsumerOk(c, seen)
  BY Zenon, <1>1 DEF Inv, ConsumerInv
<1>3. PICK events : /\ events = Events(c.batch, g)
                    /\ \/ /\ d = [c EXCEPT !.audit = @ \ g, !.retry = @ \cup g, !.stored = FALSE]
                          /\ UNCHANGED archive
                       \/ /\ archive' = (archive \ archiveKey(c.batch, g)) \cup {events}
                          /\ d = [c EXCEPT !.audit = @ \ g, !.stored = FALSE, !.acked = @ \cup events]
  BY Zenon, <1>2 DEF putArchive, Deferred, Current
<1>4. Stored(c.acked, audit_hot, archive) /\ Stored(seen.acked, audit_hot, archive)
  BY Zenon, <1>1, <1>2 DEF Inv, StoreInv
<1>5. CASE /\ d = [c EXCEPT !.audit = @ \ g, !.retry = @ \cup g, !.stored = FALSE]
           /\ UNCHANGED archive
  <2>1. ConsumerOk(d, seen) /\ d.acked = c.acked /\ d.stored = FALSE
    <3>1. {"batch", "retry", "events", "acked", "tasks", "audit", "statements", "stored"} \subseteq DOMAIN c
      BY Zenon, <1>2 DEF ConsumerOk
    <3>2. /\ DOMAIN d = DOMAIN c /\ d.batch = c.batch /\ d.tasks = c.tasks /\ d.acked = c.acked
          /\ d.audit = c.audit \ g /\ d.retry = c.retry \cup g /\ d.stored = FALSE
      BY <1>5, <3>1
    <3>3. ConsumerOk(d, seen)
      <4>1. ConsumerOk(c, seen) /\ g = Group(c.batch, c.audit)
        BY Zenon, <1>2
      <4> QED  BY Zenon, <3>2, <4>1, DeferMoves
    <3> QED  BY Zenon, <3>2, <3>3
  <2>2. ConsumerInv' /\ StoreInv'
    BY Zenon, <1>1, <1>2, <1>4, <1>5, <2>1 DEF ConsumerInv, StoreInv
  <2> QED  BY Zenon, <1>1, <2>2, WriteKeeps DEF Inv
<1>6. CASE /\ archive' = (archive \ archiveKey(c.batch, g)) \cup {events}
           /\ d = [c EXCEPT !.audit = @ \ g, !.stored = FALSE, !.acked = @ \cup events]
  <2>1. {"batch", "retry", "events", "acked", "tasks", "audit", "statements", "stored"} \subseteq DOMAIN c
    BY Zenon, <1>2 DEF ConsumerOk
  <2>2. /\ DOMAIN d = DOMAIN c /\ d.batch = c.batch /\ d.tasks = c.tasks
        /\ d.acked = c.acked \cup events /\ d.audit = c.audit \ g /\ d.retry = c.retry
        /\ d.stored = FALSE
    BY <1>6, <2>1
  <2>3. ConsumerOk(d, seen)
    BY Zenon, <1>2, <2>2 DEF ConsumerOk
  <2>4. ConsumerInv'
    BY Zenon, <1>1, <1>2, <2>3 DEF ConsumerInv
  <2>5. audit_hot \subseteq audit_hot' /\ archive \subseteq archive' /\ events \in archive'
    BY Zenon, <1>1, <1>6 DEF archiveKey
  <2>6. Stored(c.acked, audit_hot', archive') /\ Stored(seen'.acked, audit_hot', archive')
    BY Zenon, <1>1, <1>4, <2>5, StoredGrows
  <2>7. Hot(events) \subseteq audit_hot'
    BY Zenon, <1>1, <1>2, <1>3 DEF Inv, StoreInv, Current
  <2>8. Hot(c.acked \cup events) \subseteq Hot(c.acked) \cup Hot(events)
    BY Zenon DEF Hot
  <2>9. Stored(d.acked, audit_hot', archive')
    BY Zenon, <2>2, <2>5, <2>6, <2>7, <2>8 DEF Stored
  <2>10. StoreInv'
    BY Zenon, <1>2, <2>2, <2>6, <2>9 DEF StoreInv
  <2> QED  BY Zenon, <1>1, <2>4, <2>10, WriteKeeps DEF Inv
<1> QED  BY Zenon, <1>3, <1>5, <1>6

\* endBatch and stopConsumer: what is delivered again is what was delivered,
\* and what is acknowledged is stored.
LEMMA EndKeeps == ASSUME Inv, endBatch \/ stopConsumer PROVE Inv'
<1>1. /\ consumer # None /\ consumer' = None /\ ConsumerOk(consumer, seen)
      /\ UNCHANGED <<live, request, sending, audit_hot, archive>>
  BY Zenon DEF endBatch, stopConsumer, Inv, ConsumerInv
<1>2. PICK c : c = consumer /\ ConsumerOk(c, seen)
  BY Zenon, <1>1
<1>3. PICK retry, acked, jtis :
          /\ retry \in {c.retry, DOMAIN c.batch} /\ acked \in {{}, c.acked}
          /\ seen' \in {[seen EXCEPT !.acked = @ \cup acked, !.lost = @ \cup jtis],
                        [seen EXCEPT !.lost = @ \cup jtis]}
          /\ \/ queue' = queue (+) Redelivered(c.batch, retry)
             \/ queue' = (queue (+) Redelivered(c.batch, retry)) (+) Sent(AuditTask(c.events))
  <2>1. CASE endBatch
    <3>1. PICK jtis : jtis = DeadLettered(c.batch, c.retry)
      OBVIOUS
    <3>2. seen' = [seen EXCEPT !.acked = @ \cup c.acked, !.lost = @ \cup jtis]
      BY Zenon, <1>2, <2>1, <3>1 DEF endBatch
    <3>3. \/ queue' = queue (+) Redelivered(c.batch, c.retry)
          \/ queue' = (queue (+) Redelivered(c.batch, c.retry)) (+) Sent(AuditTask(c.events))
      BY Zenon, <1>2, <2>1 DEF endBatch
    <3> QED  BY Zenon, <3>2, <3>3
  <2>2. CASE stopConsumer
    <3>1. PICK jtis : jtis = DeadLettered(c.batch, DOMAIN c.batch)
      OBVIOUS
    <3>2. seen' = [seen EXCEPT !.lost = @ \cup jtis]
      BY Zenon, <1>2, <2>2, <3>1 DEF stopConsumer
    <3>3. queue' = queue (+) Redelivered(c.batch, DOMAIN c.batch)
      BY Zenon, <1>2, <2>2 DEF stopConsumer
    <3> QED  BY Zenon, <3>2, <3>3
  <2> QED  BY Zenon, <2>1, <2>2
<1>4. SeenFields(seen)
  BY Zenon DEF Inv, TokenInv, SeenFields
<1>5. /\ DOMAIN seen' = DOMAIN seen /\ seen'.minted = seen.minted /\ seen'.posted = seen.posted
      /\ seen'.failed = seen.failed /\ seen'.acked \in {seen.acked, seen.acked \cup acked}
  BY Zenon, <1>3, <1>4 DEF SeenFields
<1>6. \A m \in DOMAIN queue' : m \in DOMAIN queue \/ Backed(m, seen)
  <2>1. retry \subseteq DOMAIN c.batch /\ \A i \in DOMAIN c.batch : Backed(c.batch[i], seen)
    BY Zenon, <1>2, <1>3 DEF ConsumerOk
  <2>2. \A m \in DOMAIN Redelivered(c.batch, retry) : Backed(m, seen)
    BY Zenon, <2>1, AgainBacked
  <2>3. \A m \in DOMAIN Sent(AuditTask(c.events)) : Backed(m, seen)
    BY Zenon, AuditBacked
  <2>4. DOMAIN queue' \subseteq DOMAIN queue \cup DOMAIN Redelivered(c.batch, retry)
                                \cup DOMAIN Sent(AuditTask(c.events))
    <3>1. PICK q, a, b : /\ q = queue (+) a /\ a = Redelivered(c.batch, retry)
                         /\ b = Sent(AuditTask(c.events))
      OBVIOUS
    <3>2. DOMAIN q = DOMAIN queue \cup DOMAIN a /\ DOMAIN (q (+) b) = DOMAIN q \cup DOMAIN b
      BY Zenon, <3>1, BagPlus
    <3>3. queue' = q \/ queue' = q (+) b
      BY Zenon, <1>3, <3>1
    <3> QED  BY Zenon, <3>1, <3>2, <3>3
  <2> QED  BY Zenon, <2>2, <2>3, <2>4
<1>7. QueueInv'
  <2>1. \A m \in DOMAIN queue' : Backed(m, seen)
    BY Zenon, <1>6 DEF Inv, QueueInv
  <2>2. seen.minted \subseteq seen'.minted /\ seen.posted \subseteq seen'.posted
    BY Zenon, <1>5
  <2> QED  BY Zenon, <2>1, <2>2, BackedGrows DEF QueueInv
<1>8. RequestInv' /\ TokenInv' /\ FailedAfterAllAttempts'
  BY Zenon, <1>1, <1>5, RequestKept, TokenKept, FailedKept DEF Inv
<1>9. PostInv' /\ ConsumerInv'
  BY Zenon, <1>1, <1>5 DEF Inv, PostInv, ConsumerInv
<1>10. StoreInv'
  <2>1. Stored(seen.acked, audit_hot, archive) /\ Stored(c.acked, audit_hot, archive)
    BY Zenon, <1>1, <1>2 DEF Inv, StoreInv
  <2>2. Stored(seen'.acked, audit_hot, archive)
    BY Zenon, <1>3, <1>5, <2>1 DEF Stored, Hot
  <2> QED  BY Zenon, <1>1, <2>2 DEF StoreInv
<1> QED  BY Zenon, <1>7, <1>8, <1>9, <1>10 DEF Inv

-----------------------------------------------------------------------------
(* The theorems.                                                           *)

\* The initial states.
LEMMA InitInv == ASSUME Init PROVE Inv
<1>1. /\ request = [p \in Procs |-> Idle] /\ sending = {} /\ consumer = None
      /\ queue = EmptyBag
      /\ seen = [minted |-> {}, posted |-> {}, received |-> {}, failed |-> {}, lost |-> {}, acked |-> {}]
  BY Zenon DEF Init
<1>2. {"pc", "sid", "todo", "events"} \subseteq DOMAIN Idle /\ Idle.pc = "idle" /\ Idle.todo = {}
  BY DEF Idle
<1>3. RequestInv /\ \A p \in Procs : request[p].pc # "notify"
  <2>1. \A p \in Procs : request[p] = Idle
    BY Zenon, <1>1
  <2>2. \A p \in Procs : request[p].pc # "notify"
    BY <1>2, <2>1
  <2> QED  BY Zenon, <1>1, <1>2, <2>1, <2>2 DEF RequestInv
<1>4. /\ {"minted", "posted", "received", "failed", "lost", "acked"} \subseteq DOMAIN seen
      /\ seen.minted = {} /\ seen.posted = {} /\ seen.failed = {} /\ seen.acked = {}
  BY <1>1
<1>5. TokenInv /\ PostInv /\ ConsumerInv /\ FailedAfterAllAttempts
  BY Zenon, <1>1, <1>3, <1>4 DEF TokenInv, PostInv, ConsumerInv, FailedAfterAllAttempts
<1>6. QueueInv
  BY Zenon, <1>1 DEF QueueInv, EmptyBag, SetToBag
<1>7. StoreInv
  BY Zenon, <1>1, <1>4 DEF StoreInv, Stored, Hot
<1> QED  BY Zenon, <1>3, <1>5, <1>6, <1>7 DEF Inv

\* A step that changes nothing.
LEMMA StutterKeeps == ASSUME Inv, UNCHANGED vars PROVE Inv'
<1>1. UNCHANGED <<live, request, sending, queue, consumer, audit_hot, archive, seen>>
  BY Zenon DEF vars
<1> QED  BY Zenon, <1>1, RestKept, RequestKept, TokenKept DEF Inv

\* Every step keeps the invariant.
LEMMA NextKeeps == ASSUME Inv, [Next]_vars PROVE Inv'
<1>1. CASE \E p \in Procs : RequestNext(p)
  BY Zenon, <1>1, EndSessionKeeps, NotifyKeeps, WindUpKeeps DEF RequestNext
<1>2. CASE \E jti \in Jtis : deliver(jti) \/ abandon(jti)
  BY Zenon, <1>2, DeliverKeeps, AbandonKeeps
<1>3. CASE \E batch \in Batches : createQueue(batch)
  BY Zenon, <1>3, TakeKeeps
<1>4. CASE Work \/ stopConsumer
  BY Zenon, <1>4, RetryKeeps, InsertKeeps, PutKeeps, EndKeeps DEF Work
<1> QED  BY Zenon, <1>1, <1>2, <1>3, <1>4, StutterKeeps DEF Next

\* The invariant holds in every reachable state: whatever the queue delivers
\* again, refuses or drops, and wherever an isolate stops.
THEOREM InvariantHolds == Spec => []Inv
<1>1. Init => Inv
  BY Zenon, InitInv
<1>2. Inv /\ [Next]_vars => Inv'
  BY Zenon, NextKeeps
<1> QED  BY <1>1, <1>2, PTL DEF Spec

\* TIO-LOGOUT-005, TIO-LOGOUT-012: one logout token for a session and a client,
\* in the first delivery and in every retry.
THEOREM TokensAreOne == Spec => []OneTokenPerClient
<1>1. Inv => OneTokenPerClient
  <2>1. SUFFICES ASSUME Inv, NEW i \in seen.minted, NEW j \in seen.minted, i[1] = j[1], i[2] = j[2]
                 PROVE  i = j
    <3>1. ASSUME Inv PROVE seen.minted \cup {x[1] : x \in seen.posted} \subseteq seen.minted
      BY Zenon, <3>1 DEF Inv, PostInv
    <3> QED  BY Zenon, <3>1 DEF OneTokenPerClient
  <2>2. i \in Jtis /\ j \in Jtis /\ i[3] = j[3]
    BY Zenon, <2>1 DEF Inv, TokenInv
  <2> QED  BY <2>1, <2>2 DEF Jtis
<1> QED  BY <1>1, InvariantHolds, PTL

\* TIO-LOGOUT-012: retryBackchannel reports a failure only after the first
\* delivery and every retry.
THEOREM FailuresAreFinal == Spec => []FailedAfterAllAttempts
<1>1. Inv => FailedAfterAllAttempts
  BY Zenon DEF Inv
<1> QED  BY <1>1, InvariantHolds, PTL

\* TIO-AUDIT-011, TIO-DATA-025: the consumer acknowledges audit events only
\* when audit_hot and the archive have them, and no write takes them away.
THEOREM AcknowledgedIsStored == Spec => []AckedIsStored
<1>1. Inv => AckedIsStored
  BY Zenon DEF Inv, StoreInv, Stored, AckedIsStored
<1> QED  BY <1>1, InvariantHolds, PTL
=============================================================================
