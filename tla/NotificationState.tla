-------------------------- MODULE NotificationState --------------------------
(***************************************************************************)
(* The shared state of notifications: the rows of notifications,           *)
(* notification_recipients and notification_delivery, the jobs in Celery's *)
(* queues, the messages on their way through Redis Pub/Sub, and the        *)
(* connections that the two managers of an API process hold.               *)
(***************************************************************************)
EXTENDS Integers, FiniteSets, Sequences

CONSTANTS
    User,
    Online,           \* the users that open connections
    Channel,          \* the channels in use, of EMAIL, SMS, PUSH, WHATSAPP, IN_APP
    Reachable,        \* User -> the channels for which it has a number, a device, an address
    BatchSize,        \* NotificationPipeline.BATCH_SIZE
    MaxRetries,       \* max_retries of process_notification and process_recipient_batch
    ChannelRetries,   \* max_retries of the channel jobs
    MaxRunning,       \* bound on the requests and jobs running at a time
    MaxNotifications, \* bound on the notifications
    MaxFailures,      \* bound on the failures: exceptions, lost messages, dead workers
    MaxEvents         \* bound on the failures and the connections together

ASSUME ConstantsAssumption ==
    /\ Online \subseteq User
    /\ Channel \subseteq {"EMAIL", "SMS", "PUSH", "WHATSAPP", "IN_APP"}
    /\ Reachable \in [User -> SUBSET Channel]
    /\ BatchSize \in Nat \ {0}
    /\ {MaxRetries, ChannelRetries, MaxRunning, MaxNotifications, MaxFailures, MaxEvents} \subseteq Nat

\* No job reads the status of a recipient: SENT comes from its batch, READ
\* from its user, in either order.
RecipientStatus == {"PENDING", "SENT", "READ"}
DeliveryStatus == {"PENDING", "DELIVERED", "FAILED", "PERMANENT_FAILURE"}

Notification == [channels: SUBSET Channel]
Recipient == [notification: Nat, user: User, status: RecipientStatus]
Delivery == [recipient: Nat, channel: Channel, status: DeliveryStatus]

\* ids: the notification to fan out, the recipients of a batch, or the
\* deliveries of a channel's batch.
Kind == {"fan_out", "batch"} \cup Channel
Job == [kind: Kind, ids: SUBSET Nat, tries: Nat]

\* k: the offset of the next page; users: who gets a row of its own next;
\* left: the channels to queue; out: the outcome of each delivery sent and not recorded.
Label == {"add", "recipients", "enqueue", "pages", "insert", "sent", "queue", "publish", "send", "record"}
Handler == [id: Nat, job: Job, pc: Label, k: Nat, users: SUBSET User, left: SUBSET Channel,
            made: SUBSET Nat, out: SUBSET (Nat \X DeliveryStatus)]

SSEConnection == [user: User, closed: BOOLEAN, done: BOOLEAN, unread: BOOLEAN]
WebSocket == [user: User, state: {"connecting", "open", "closed", "done"}]

VARIABLES
    notification, recipient, delivery,  \* rows, by creation
    jobs, running,
    published,     \* the messages in the Pub/Sub channel, by their user
    failures,
    sse, ws,       \* the connections, by creation
    sseOf, wsOf,   \* SSEManager and ConnectionManager _connections: User -> connection, 0 where none
    \* History, read by no action: how often the gateway accepted a delivery;
    \* recipients for whom a job was repeated that had got half-way; whom a
    \* job that expired, died or was given up had still to reach; users that
    \* opened a WebSocket while another was being set up.
    accepted, repeated, lost, crossed

rowVars == <<notification, recipient, delivery>>
streamVars == <<sse, ws, sseOf, wsOf, crossed>>
vars == <<rowVars, jobs, running, published, failures, streamVars, accepted, repeated, lost>>

TypeOK ==
    /\ notification \in Seq(Notification) /\ recipient \in Seq(Recipient) /\ delivery \in Seq(Delivery)
    /\ jobs \subseteq Job /\ running \subseteq Handler
    /\ \A g, h \in running : g.id = h.id => g = h
    /\ published \in Seq(User)
    /\ failures \in 0 .. MaxFailures
    /\ sse \in Seq(SSEConnection) /\ ws \in Seq(WebSocket)
    /\ sseOf \in [User -> 0 .. Len(sse)] /\ wsOf \in [User -> 0 .. Len(ws)]
    /\ accepted \in [DOMAIN delivery -> Nat]
    /\ repeated \subseteq DOMAIN recipient /\ lost \subseteq DOMAIN recipient
    /\ crossed \subseteq User

Init ==
    /\ notification = <<>> /\ recipient = <<>> /\ delivery = <<>>
    /\ jobs = {} /\ running = {} /\ published = <<>> /\ failures = 0
    /\ sse = <<>> /\ ws = <<>>
    /\ sseOf = [u \in User |-> 0] /\ wsOf = [u \in User |-> 0]
    /\ accepted = <<>> /\ repeated = {} /\ lost = {} /\ crossed = {}

-----------------------------------------------------------------------------
NewJob(kind, ids) == [kind |-> kind, ids |-> ids, tries |-> 0]
MayHappen == failures + Len(sse) + Len(ws) < MaxEvents
Count == failures < MaxFailures /\ MayHappen /\ failures' = failures + 1
FreeId == CHOOSE i \in 1 .. MaxRunning : \A h \in running : h.id # i
Free == Cardinality(running) < MaxRunning
New(job, label) == [id |-> FreeId, job |-> job, pc |-> label, k |-> 0, users |-> {}, left |-> {},
                    made |-> {}, out |-> {}]
Become(h, g) == running' = (running \ {h}) \cup {g}
Finish(h) == running' = running \ {h}

RecipientsOf(n) == {i \in DOMAIN recipient : recipient[i].notification = n}
Deliveries(ids) == {d \in DOMAIN delivery : delivery[d].recipient \in ids}

\* The recipients that a job has to reach.
Reaches(job) ==
    CASE job.kind = "fan_out" -> UNION {RecipientsOf(n) : n \in job.ids}
      [] job.kind = "batch" -> job.ids
      [] OTHER -> {delivery[d].recipient : d \in job.ids}

Written(ids, s) == [d \in DOMAIN delivery |-> [delivery[d] EXCEPT !.status = IF d \in ids THEN s ELSE @]]
=============================================================================
