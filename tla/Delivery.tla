------------------------------ MODULE Delivery ------------------------------
(***************************************************************************)
(* What happens after a session has ended: the logout tokens posted to the *)
(* session's clients (logout/rp-logout.ts, logout/backchannel.ts) and the  *)
(* audit events shipped to the archive (audit/sink.ts), both through the   *)
(* TASKS queue and its consumer (queue/consumer.ts).                       *)
(*                                                                         *)
(* Delays are left out: a queued message may be taken at any time.  The    *)
(* queue is external: it delivers in any order, in batches; the            *)
(* acknowledgements of an invocation take effect when it ends, and one     *)
(* that stops before has its whole batch delivered again; a message        *)
(* delivered too often goes to the dead-letter queue.  A jti is named by   *)
(* the session, the client and the request that drew it.                   *)
(***************************************************************************)
EXTENDS Integers, Sequences, FiniteSets, SequencesExt, Bags

CONSTANTS
    Procs,                   \* requests, one each
    Sessions,
    Clients,                 \* the clients of each session, with a logout URI
    None,
    MAX_ATTEMPTS,
    MAX_RETRIES,             \* max_retries of the queue's consumer
    BATCH_SIZE,              \* max_batch_size
    ARCHIVE_GROUP_EVENTS,
    HOT_BUDGET               \* HOT_STATEMENTS_PER_INVOCATION, one event each

ASSUME DeliveryAssumption ==
    /\ {MAX_ATTEMPTS, BATCH_SIZE, ARCHIVE_GROUP_EVENTS, HOT_BUDGET} \subseteq Nat \ {0}
    /\ MAX_RETRIES \in Nat

VARIABLES
    live,          \* the sessions the UserDOs hold live
    request,       \* the request each process runs
    sending,       \* the tokens being posted by the requests' waitUntil
    queue,         \* TASKS: a bag of messages
    consumer,      \* the running invocation of the consumer, or None
    audit_hot,     \* the events in D1
    archive,       \* the objects in R2, sets of events
    seen           \* history: posts made, tokens received, given up or lost, ...

vars == <<live, request, sending, queue, consumer, audit_hot, archive, seen>>

-----------------------------------------------------------------------------
Jtis == Sessions \X Clients \X Procs
Event(type, jti) == [type |-> type, jti |-> jti]

\* isHotType: the steps of every protocol request are archived only.
isHotType(type) == type # "interaction.completed"
Hot(events) == {e \in events : isHotType(e.type)}

BackchannelTask(jti, attempt) == [kind |-> "backchannel_logout", jti |-> jti, attempt |-> attempt]
AuditTask(events) == [kind |-> "audit", events |-> events]

\* env.TASKS.send, which may be refused: that is logged and fails nobody.
Sent(body) == SetToBag({[body |-> body, tries |-> 0]})
Jti(body) == IF body.kind = "audit" THEN {} ELSE {body.jti}

-----------------------------------------------------------------------------
Idle == [pc |-> "idle", sid |-> None, todo |-> {}, events |-> {}]
Done == [pc |-> "done", sid |-> None, todo |-> {}, events |-> {}]

\* Mutant: a session that has already ended is answered like one that ends.
RevokedAgain(sid) == TRUE

\* revokeSession answers a session that has ended before with null.
Revoked(sid) == sid \in live

\* endSession, and every other path that ends sessions: the object first.  The
\* events are those of a logout interaction.
endSession(p, sid) ==
    /\ request[p] = Idle
    /\ live' = live \ {sid}
    /\ request' = [request EXCEPT ![p] =
           IF Revoked(sid)
           THEN [pc |-> "notify", sid |-> sid, todo |-> Clients,
                 events |-> {Event(type, <<sid, None, p>>) :
                                 type \in {"session.revoked", "interaction.completed"}}]
           ELSE Done]
    /\ UNCHANGED <<sending, queue, consumer, audit_hot, archive, seen>>

\* notifyClients, one client: the record is looked up, a token minted, its
\* delivery left to waitUntil.  A lookup that fails skips the client.
notifyClients(p) ==
    /\ request[p].pc = "notify"
    /\ \E c \in request[p].todo, found \in BOOLEAN :
           LET jti == <<request[p].sid, c, p>>
               sent == IF found THEN {jti} ELSE {}
           IN  /\ request' = [request EXCEPT ![p].todo = @ \ {c},
                      ![p].pc = IF request[p].todo = {c} THEN "ship" ELSE @,
                      ![p].events = @ \cup {Event("logout.backchannel_sent", j) : j \in sent}]
               /\ sending' = sending \cup sent
               /\ seen' = [seen EXCEPT !.minted = @ \cup sent]
    /\ UNCHANGED <<live, queue, consumer, audit_hot, archive>>

\* notifyEndedSessions without keys: the clients go unnotified.
notifyEndedSessions(p) ==
    /\ request[p].pc = "notify" /\ request[p].todo = Clients
    /\ request' = [request EXCEPT ![p].pc = "ship", ![p].todo = {}]
    /\ UNCHANGED <<live, sending, queue, consumer, audit_hot, archive, seen>>

\* shipAuditEvents, after the response, unless the isolate stops before it.
shipAuditEvents(p) ==
    /\ request[p].pc = "ship"
    /\ \/ queue' = queue (+) Sent(AuditTask(request[p].events))
       \/ UNCHANGED queue
    /\ request' = [request EXCEPT ![p] = Done]
    /\ UNCHANGED <<live, sending, consumer, audit_hot, archive, seen>>

\* The isolate stops in the middle of a request.
stop(p) ==
    /\ request[p].pc = "notify"
    /\ request' = [request EXCEPT ![p] = Done]
    /\ UNCHANGED <<live, sending, queue, consumer, audit_hot, archive, seen>>

-----------------------------------------------------------------------------
\* deliverLogoutToken: the client has the token when it answers 2xx, and may
\* have it when the answer is an error or a timeout.
deliverLogoutToken(s, jti, attempt, ok) ==
    [s EXCEPT !.posted = @ \cup {<<jti, attempt>>},
              !.received = IF ok THEN @ \cup {jti} ELSE @]

\* enqueueRetry: queued, or refused and lost.
enqueueRetry(s, q, jti, attempt) ==
    \/ queue' = q (+) Sent(BackchannelTask(jti, attempt)) /\ seen' = s
    \/ queue' = q /\ seen' = [s EXCEPT !.lost = @ \cup {jti}]

\* The delivery left to waitUntil, and what follows it.
deliver(jti) ==
    /\ jti \in sending
    /\ sending' = sending \ {jti}
    /\ \E ok \in BOOLEAN :
           LET s == deliverLogoutToken(seen, jti, 0, ok) IN
           IF ok THEN seen' = s /\ UNCHANGED queue ELSE enqueueRetry(s, queue, jti, 1)
    /\ UNCHANGED <<live, request, consumer, audit_hot, archive>>

\* The isolate stops before the delivery has ended.
abandon(jti) ==
    /\ jti \in sending
    /\ sending' = sending \ {jti}
    /\ seen' = [seen EXCEPT !.lost = @ \cup {jti}]
    /\ UNCHANGED <<live, request, queue, consumer, audit_hot, archive>>

-----------------------------------------------------------------------------
\* The messages of a batch are named by their places in it.
Events(batch, group) == UNION {batch[i].body.events : i \in group}
Size(batch, group) == MapThenSumSet(LAMBDA i : Cardinality(batch[i].body.events), group)
First(i, places) == i \in places /\ \A j \in places : i <= j

\* The audit messages are taken in their order, in groups of at most
\* ARCHIVE_GROUP_EVENTS events: the next group, when `audit` are left.
Group(batch, audit) ==
    {i \in audit : First(i, audit) \/ Size(batch, {j \in audit : j <= i}) <= ARCHIVE_GROUP_EVENTS}

\* external: the batches the queue may deliver.
Batches == {b \in UNION {[1 .. n -> BagToSet(queue)] : n \in 1 .. BATCH_SIZE} :
                ToBag(b) \sqsubseteq queue}

\* external: delivered again, unless it has been delivered too often.
Redelivered(batch, retry) ==
    LET again == {i \in retry : batch[i].tries < MAX_RETRIES}
    IN  ToBag([i \in again |-> [batch[i] EXCEPT !.tries = @ + 1]])
DeadLettered(batch, retry) ==
    UNION {Jti(batch[i].body) : i \in {j \in retry : batch[j].tries = MAX_RETRIES}}

\* createQueue's handler takes a batch; the logout retries come first.
createQueue(batch) ==
    /\ consumer = None
    /\ queue' = queue (-) ToBag(batch)
    /\ consumer' = [batch |-> batch, retry |-> {}, events |-> {}, acked |-> {},
                    tasks |-> {i \in DOMAIN batch : batch[i].body.kind # "audit"},
                    audit |-> {i \in DOMAIN batch : batch[i].body.kind = "audit"},
                    statements |-> 0, stored |-> FALSE]
    /\ UNCHANGED <<live, request, sending, audit_hot, archive, seen>>

\* Mutant: the attempt before the last gives up.
LastButOne(attempt) == attempt >= MAX_ATTEMPTS - 1

GiveUp(attempt) == attempt >= MAX_ATTEMPTS

\* Mutant: the task is queued as it came.
SameAttempt(attempt) == attempt

NextAttempt(attempt) == attempt + 1

\* retryBackchannel: done, queued again or given up, and acknowledged; the
\* message is retried when there are no keys to mint the token with.
retryBackchannel ==
    /\ consumer # None
    /\ \E i \in consumer.tasks :
       LET rest == [consumer EXCEPT !.tasks = @ \ {i}]
           task == consumer.batch[i].body
       IN  /\ First(i, consumer.tasks)
           /\ \/ /\ consumer' = [rest EXCEPT !.retry = @ \cup {i}]
                 /\ UNCHANGED <<queue, seen>>
              \/ \E ok \in BOOLEAN :
                     LET s == deliverLogoutToken(seen, task.jti, task.attempt, ok) IN
                     IF ok THEN consumer' = rest /\ seen' = s /\ UNCHANGED queue
                     ELSE IF GiveUp(task.attempt)
                     THEN /\ consumer' = [rest EXCEPT !.events =
                                 @ \cup {Event("logout.backchannel_failed", task.jti)}]
                          /\ seen' = [s EXCEPT !.failed = @ \cup {task.jti}]
                          /\ UNCHANGED queue
                     ELSE /\ consumer' = rest
                          /\ enqueueRetry(s, queue, task.jti, NextAttempt(task.attempt))
    /\ UNCHANGED <<live, request, sending, audit_hot, archive>>

\* The audit messages of the group being handled, and the group retried: over
\* the budget, or a write failed.
Current == Group(consumer.batch, consumer.audit)
Deferred == [consumer EXCEPT !.audit = @ \ Current, !.retry = @ \cup Current, !.stored = FALSE]

\* storeAuditBatch, the hot events: INSERT OR IGNORE, in one D1 batch.
insertAudit ==
    /\ consumer # None /\ consumer.tasks = {} /\ consumer.audit # {} /\ ~consumer.stored
    /\ LET hot == Hot(Events(consumer.batch, Current))
           n == consumer.statements + Cardinality(hot)
       IN  \/ /\ consumer' = [Deferred EXCEPT !.statements = n]
              /\ UNCHANGED audit_hot
           \/ /\ n <= HOT_BUDGET
              /\ audit_hot' = audit_hot \cup hot
              /\ consumer' = [consumer EXCEPT !.statements = n, !.stored = TRUE]
    /\ UNCHANGED <<live, request, sending, queue, archive, seen>>

\* Mutant: the key is the first event's alone.
archiveKeyOfFirst(batch, group) ==
    {object \in archive : \E i \in group : First(i, group)
                              /\ (CHOOSE e \in batch[i].body.events : TRUE) \in object}

\* archiveKey: the objects under the key of a write.  There are none, for the
\* key carries a value fresh for every write.
archiveKey(batch, group) == {}

\* AUDIT_BUCKET.put; the group's messages are acknowledged.
putArchive ==
    /\ consumer # None /\ consumer.stored
    /\ LET events == Events(consumer.batch, Current) IN
       \/ /\ consumer' = Deferred
          /\ UNCHANGED archive
       \/ /\ archive' = (archive \ archiveKey(consumer.batch, Current)) \cup {events}
          /\ consumer' = [consumer EXCEPT !.audit = @ \ Current, !.stored = FALSE,
                                          !.acked = @ \cup events]
    /\ UNCHANGED <<live, request, sending, queue, audit_hot, seen>>

\* The invocation ends: what it did not retry is acknowledged, and its own
\* events are shipped, unless the isolate stops first or the queue refuses.
endBatch ==
    /\ consumer # None /\ consumer.tasks = {} /\ consumer.audit = {}
    /\ LET q == queue (+) Redelivered(consumer.batch, consumer.retry) IN
       queue' \in {q} \cup (IF consumer.events = {} THEN {}
                            ELSE {q (+) Sent(AuditTask(consumer.events))})
    /\ consumer' = None
    /\ seen' = [seen EXCEPT !.acked = @ \cup consumer.acked,
                            !.lost = @ \cup DeadLettered(consumer.batch, consumer.retry)]
    /\ UNCHANGED <<live, request, sending, audit_hot, archive>>

\* The isolate of the consumer stops: nothing is acknowledged.
stopConsumer ==
    /\ consumer # None
    /\ queue' = queue (+) Redelivered(consumer.batch, DOMAIN consumer.batch)
    /\ consumer' = None
    /\ seen' = [seen EXCEPT !.lost = @ \cup DeadLettered(consumer.batch, DOMAIN consumer.batch)]
    /\ UNCHANGED <<live, request, sending, audit_hot, archive>>

-----------------------------------------------------------------------------
Init ==
    /\ live = Sessions
    /\ request = [p \in Procs |-> Idle]
    /\ sending = {}
    /\ queue = EmptyBag
    /\ consumer = None
    /\ audit_hot = {} /\ archive = {}
    /\ seen = [minted |-> {}, posted |-> {}, received |-> {}, failed |-> {}, lost |-> {},
               acked |-> {}]

RequestNext(p) ==
    \/ \E sid \in Sessions : endSession(p, sid)
    \/ notifyClients(p) \/ notifyEndedSessions(p)
    \/ shipAuditEvents(p)
    \/ stop(p)

Work == retryBackchannel \/ insertAudit \/ putArchive \/ endBatch

Next ==
    \/ \E p \in Procs : RequestNext(p)
    \/ \E jti \in Jtis : deliver(jti) \/ abandon(jti)
    \/ \E batch \in Batches : createQueue(batch)
    \/ Work
    \/ stopConsumer

\* waitUntil runs to its end or the isolate stops; the queue goes on
\* delivering every message, and an invocation goes on working.
Fairness ==
    /\ \A jti \in Jtis : WF_vars(deliver(jti))
    /\ WF_vars((\E batch \in Batches : createQueue(batch)) \/ Work)

Spec == Init /\ [][Next]_vars /\ Fairness

-----------------------------------------------------------------------------
\* However many requests end a session at once, a client is sent one logout
\* token for it, and every retry of it, duplicates included, carries the same
\* jti (TIO-LOGOUT-005, TIO-LOGOUT-012).
OneTokenPerClient ==
    \A i, j \in seen.minted \cup {x[1] : x \in seen.posted} : i[1] = j[1] /\ i[2] = j[2] => i = j

\* logout.backchannel_failed is emitted only after the first delivery and
\* every retry have been posted (TIO-LOGOUT-012), whatever the queue
\* delivers twice.
FailedAfterAllAttempts ==
    \A jti \in seen.failed : \A attempt \in 0 .. MAX_ATTEMPTS : <<jti, attempt>> \in seen.posted

\* What has been acknowledged is stored: the hot events in audit_hot, and
\* every event in an object of the archive, which no later write overwrites
\* (TIO-AUDIT-011, TIO-DATA-025).
AckedIsStored ==
    /\ Hot(seen.acked) \subseteq audit_hot
    /\ seen.acked \subseteq UNION archive

\* A minted token is received in the end, or given up with the event after
\* the last retry (TIO-LOGOUT-011, TIO-LOGOUT-012), unless it is lost: an
\* isolate stopped before its first delivery ended, the queue refused a
\* retry, or the message went to the dead-letter queue.
TokenSettles ==
    \A jti \in Jtis :
        jti \in seen.minted ~> jti \in seen.received \cup seen.failed \cup seen.lost

=============================================================================
