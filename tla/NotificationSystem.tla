------------------------- MODULE NotificationSystem -------------------------
(***************************************************************************)
(* Notifications as a whole: requests, the workers of the pipeline, and    *)
(* the connections of an API process.                                      *)
(***************************************************************************)
EXTENDS NotificationPipeline, LiveConnections

Next ==
    \/ CreateNotification(Channel, User)
    \/ \E i \in DOMAIN recipient : recipient[i].user \in Online /\ MarkAsRead(i)
    \/ \E job \in jobs : StartJob(job)
    \/ \E h \in running : PipelineStep(h) \/ JobRaises(h) \/ Die(h)
    \/ ConnectionStep

Spec == Init /\ [][Next]_vars

\* Workers take the jobs that are queued and go on with those they have.
FairSpec ==
    /\ Spec
    /\ WF_vars(\E job \in jobs : StartJob(job))
    /\ \A i \in 1 .. MaxRunning : WF_vars(\E h \in running : h.id = i /\ PipelineStep(h))

-----------------------------------------------------------------------------
\* Nobody gets a notification twice over one channel, whatever the pages and
\* batches it passes through, unless a job had got half-way when it failed
\* and was run again.
SentOnce ==
    \A d, e \in DOMAIN delivery :
        /\ accepted[d] > 0 /\ accepted[e] > 0
        /\ delivery[d].recipient = delivery[e].recipient /\ delivery[d].channel = delivery[e].channel
        => delivery[d].recipient \in repeated \/ (d = e /\ accepted[d] = 1)

\* An open connection is one that messages reach: a user's previous
\* connection, which ends at some later time, never takes out its successor,
\* and a new one leaves none behind that is open and not reached, unless two
\* WebSockets of the user are set up at once.
OpenIsRegistered ==
    /\ \A i \in DOMAIN sse : sse[i].closed \/ sse[i].done \/ sseOf[sse[i].user] = i
    /\ \A i \in DOMAIN ws : ws[i].state = "open" =>
          wsOf[ws[i].user] = i \/ ws[i].user \in crossed

\* Once the fan-out of a notification is queued each of its recipients ends
\* with a delivery over each channel that was made or refused, retries
\* included, unless the notification expired, a worker died or a job was
\* given up.
Decided(i) == i \in DOMAIN recipient /\
    \A c \in notification[recipient[i].notification].channels :
        \E d \in Deliveries({i}) : delivery[d].channel = c /\ delivery[d].status # "PENDING"
FanOutQueued(i) ==
    i \in DOMAIN recipient /\ \E job \in jobs : job.kind = "fan_out" /\ i \in Reaches(job)
Reached ==
    \A i \in 1 .. MaxNotifications * Cardinality(User) :
        FanOutQueued(i) ~> i \in lost \/ Decided(i)
=============================================================================
