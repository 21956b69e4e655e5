------------------------ MODULE NotificationPipeline ------------------------
(***************************************************************************)
(* NotificationService and the Celery jobs behind it: a notification is    *)
(* fanned out in pages of recipients, each page becomes deliveries, and    *)
(* each channel sends its own.                                             *)
(***************************************************************************)
EXTENDS NotificationState, SequencesExt

(***************************************************************************)
(* create_notification: a commit for the notification, one for each        *)
(* recipient, and the job.  A failure to enqueue is swallowed.             *)
(***************************************************************************)
CreateNotification(channels, users) ==
    /\ Len(notification) < MaxNotifications /\ Free
    /\ notification' = Append(notification, [channels |-> channels])
    /\ running' = running \cup
         {[New(NewJob("fan_out", {Len(notification) + 1}), IF users = {} THEN "enqueue" ELSE "recipients")
              EXCEPT !.users = users]}
    /\ UNCHANGED <<recipient, delivery, jobs, published, failures, streamVars, accepted, repeated, lost>>

AddRecipient(h) ==
    /\ h.pc = "recipients"
    /\ LET u == CHOOSE v \in h.users : TRUE  \* in the order of the request
       IN /\ \E n \in h.job.ids :
              recipient' = Append(recipient, [notification |-> n, user |-> u, status |-> "PENDING"])
          /\ Become(h, [h EXCEPT !.users = @ \ {u}, !.pc = IF h.users = {u} THEN "enqueue" ELSE @])
    /\ UNCHANGED <<notification, delivery, jobs, published, failures, streamVars, accepted, repeated, lost>>

Enqueue(h) ==
    /\ h.pc = "enqueue" /\ Finish(h)
    /\ jobs' = jobs \cup {h.job}
    /\ UNCHANGED <<rowVars, published, failures, streamVars, accepted, repeated, lost>>

MarkAsRead(i) ==
    /\ recipient[i].status # "READ"
    /\ recipient' = [recipient EXCEPT ![i].status = "READ"]
    /\ UNCHANGED <<notification, delivery, jobs, running, published, failures, streamVars, accepted, repeated, lost>>

(***************************************************************************)
(* Jobs                                                                    *)
(***************************************************************************)
StartJob(job) ==
    /\ Free /\ jobs' = jobs \ {job}
    /\ running' = running \cup {New(job, CASE job.kind = "fan_out" -> "pages"
                                         [] job.kind = "batch" -> "insert"
                                         [] OTHER -> "send")}
    /\ UNCHANGED <<rowVars, published, failures, streamVars, accepted, repeated, lost>>

\* One page of the recipients in the order of their ids, and its job; a page
\* that is empty ends the fan-out.  A notification may have expired before the
\* first page.
\* A mutant: a page of one recipient too many.
LongPage(n, offset) ==
    {i \in RecipientsOf(n) : Cardinality({j \in RecipientsOf(n) : j < i}) \in offset .. offset + BatchSize}
Page(n, offset) ==
    {i \in RecipientsOf(n) : Cardinality({j \in RecipientsOf(n) : j < i}) \in offset .. offset + BatchSize - 1}

FanOutPage(h) ==
    /\ h.pc = "pages"
    /\ \E n \in h.job.ids :
        LET page == Page(n, h.k)
        IN /\ IF page = {} THEN jobs' = jobs /\ Finish(h)
                           ELSE /\ jobs' = jobs \cup {NewJob("batch", page)}
                                /\ Become(h, [h EXCEPT !.k = @ + BatchSize])
    /\ UNCHANGED <<rowVars, published, failures, streamVars, accepted, repeated, lost>>

Expire(h) ==
    /\ h.pc = "pages" /\ h.k = 0
    /\ lost' = lost \cup Reaches(h.job) /\ Finish(h)
    /\ UNCHANGED <<rowVars, jobs, published, failures, streamVars, accepted, repeated>>

ChannelsOf(ids) == UNION {notification[recipient[i].notification].channels : i \in ids}

\* A delivery for every recipient and channel, in one commit.
InsertDeliveries(h) ==
    /\ h.pc = "insert"
    /\ LET rows == SetToSeq(h.job.ids \X ChannelsOf(h.job.ids))
       IN /\ delivery' = delivery \o [a \in DOMAIN rows |->
                 [recipient |-> rows[a][1], channel |-> rows[a][2], status |-> "PENDING"]]
          /\ accepted' = accepted \o [a \in DOMAIN rows |-> 0]
          /\ Become(h, [h EXCEPT !.pc = "sent", !.made = {Len(delivery) + a : a \in DOMAIN rows},
                                 !.left = ChannelsOf(h.job.ids)])
    /\ UNCHANGED <<notification, recipient, jobs, published, failures, streamVars, repeated, lost>>

\* The whole batch becomes SENT, with what has been READ meanwhile.
RecipientsSent(h) ==
    /\ h.pc = "sent" /\ Become(h, [h EXCEPT !.pc = "queue"])
    /\ recipient' = [i \in DOMAIN recipient |->
                        IF i \in h.job.ids THEN [recipient[i] EXCEPT !.status = "SENT"] ELSE recipient[i]]
    /\ UNCHANGED <<notification, delivery, jobs, published, failures, streamVars, accepted, repeated, lost>>

\* The next channel: a job of its own, or IN_APP, which counts as delivered
\* before the message is published.
Queued(h, c) == {d \in h.made : delivery[d].channel = c}

QueueChannel(h) ==
    /\ h.pc = "queue"
    /\ IF h.left = {} THEN Finish(h) /\ UNCHANGED <<delivery, jobs>>
       ELSE LET c == CHOOSE d \in h.left : TRUE  \* in the order of the notification's channels
            IN /\ Become(h, [h EXCEPT !.left = @ \ {c}, !.pc = IF c = "IN_APP" THEN "publish" ELSE @])
               /\ IF c = "IN_APP" THEN delivery' = Written(Queued(h, c), "DELIVERED") /\ jobs' = jobs
                                  ELSE jobs' = jobs \cup {NewJob(c, Queued(h, c))} /\ delivery' = delivery
    /\ UNCHANGED <<notification, recipient, published, failures, streamVars, accepted, repeated, lost>>

PublishInApp(h) ==
    /\ h.pc = "publish" /\ Become(h, [h EXCEPT !.pc = "queue"])
    /\ LET ids == SetToSeq({i \in h.job.ids : recipient[i].user \in Online})  \* the others' go nowhere
       IN published' = published \o [a \in DOMAIN ids |-> recipient[ids[a]].user]
    /\ UNCHANGED <<rowVars, jobs, failures, streamVars, accepted, repeated, lost>>

\* A channel's job sends what is PENDING or FAILED all at once.  A user
\* without a number or a device is a permanent failure except on EMAIL,
\* where the gateway fails; an exception from the gateway counts as FAILED.
Outcomes(d) ==
    IF delivery[d].channel \in Reachable[recipient[delivery[d].recipient].user] THEN {"DELIVERED", "FAILED"}
    ELSE IF delivery[d].channel = "EMAIL" THEN {"FAILED"} ELSE {"PERMANENT_FAILURE"}

Unsent(ids) == {d \in ids : delivery[d].status \in {"PENDING", "FAILED"}}

SendBatch(h) ==
    /\ h.pc = "send"
    /\ \E out \in [Unsent(h.job.ids) -> DeliveryStatus] :
        /\ \A d \in DOMAIN out : out[d] \in Outcomes(d)
        /\ accepted' = [d \in DOMAIN delivery |->
               IF d \in DOMAIN out /\ out[d] = "DELIVERED" THEN accepted[d] + 1 ELSE accepted[d]]
        /\ IF DOMAIN out = {} THEN Finish(h)
           ELSE Become(h, [h EXCEPT !.pc = "record", !.out = {<<d, out[d]>> : d \in DOMAIN out}])
    /\ UNCHANGED <<rowVars, jobs, published, failures, streamVars, repeated, lost>>

\* One commit for each outcome: successes, failures, permanent failures.
Next3(out) == CHOOSE s \in {"DELIVERED", "FAILED", "PERMANENT_FAILURE"} :
    /\ \E o \in out : o[2] = s
    /\ s = "FAILED" => ~\E o \in out : o[2] = "DELIVERED"
    /\ s = "PERMANENT_FAILURE" => ~\E o \in out : o[2] \in {"DELIVERED", "FAILED"}

\* A mutant: a delivery that the gateway has taken is SENT.
RecordSent(h) ==
    /\ h.pc = "record" /\ Finish(h)
    /\ delivery' = [d \in DOMAIN delivery |->
           IF <<d, "DELIVERED">> \in h.out THEN [delivery[d] EXCEPT !.status = "SENT"] ELSE delivery[d]]
    /\ UNCHANGED <<notification, recipient, jobs, published, failures, streamVars, accepted, repeated, lost>>

RecordOutcome(h) ==
    /\ h.pc = "record"
    /\ LET s == Next3(h.out)
           rest == {o \in h.out : o[2] # s}
       IN /\ delivery' = Written({o[1] : o \in h.out \ rest}, s)
          /\ IF rest = {} THEN Finish(h) ELSE Become(h, [h EXCEPT !.out = rest])
    /\ UNCHANGED <<notification, recipient, jobs, published, failures, streamVars, accepted, repeated, lost>>

(***************************************************************************)
(* Failures                                                                *)
(***************************************************************************)
Retries(job) == IF job.kind \in {"fan_out", "batch"} THEN MaxRetries ELSE ChannelRetries

HalfWay(h) == h.k > 0 \/ h.pc \in {"sent", "queue", "publish", "record"}

\* A mutant: the exception is caught and not raised again.
JobSwallows(h) ==
    /\ Count /\ h.pc \notin {"recipients", "enqueue"} /\ Finish(h)
    /\ UNCHANGED <<rowVars, jobs, published, streamVars, accepted, repeated, lost>>

\* A job raises and is run again from its start, some time later; what it has
\* committed and queued stays.
JobRaises(h) ==
    /\ Count /\ h.pc \notin {"recipients", "enqueue"} /\ Finish(h)
    /\ IF h.job.tries < Retries(h.job)
       THEN jobs' = jobs \cup {[h.job EXCEPT !.tries = @ + 1]} /\ lost' = lost
       ELSE jobs' = jobs /\ lost' = lost \cup Reaches(h.job)
    /\ repeated' = IF HalfWay(h) THEN repeated \cup Reaches(h.job) ELSE repeated
    /\ UNCHANGED <<rowVars, published, streamVars, accepted>>

\* A request or a worker dies, or the request fails to enqueue its job, which
\* it does not notice; a job had left its queue when it started.
Die(h) ==
    /\ Count /\ Finish(h)
    /\ lost' = lost \cup Reaches(h.job)
    /\ UNCHANGED <<rowVars, jobs, published, streamVars, accepted, repeated>>

PipelineStep(h) ==
    \/ AddRecipient(h) \/ Enqueue(h)
    \/ FanOutPage(h) \/ Expire(h)
    \/ InsertDeliveries(h) \/ RecipientsSent(h) \/ QueueChannel(h) \/ PublishInApp(h)
    \/ SendBatch(h) \/ RecordOutcome(h)
=============================================================================
