--------------------------- MODULE LifecycleSystem ---------------------------
(***************************************************************************)
(* The life of a task as a whole: customers, providers, administrators and *)
(* Celery workers, interleaved commit by commit, with handlers that may    *)
(* die and take their message with them.                                   *)
(***************************************************************************)
EXTENDS ReviewService

Crash(h) ==
    /\ crashes < MaxCrashes
    /\ crashes' = crashes + 1
    /\ Finish(h)
    /\ UNCHANGED <<rowVars, payVars, repVars, told, msgs, requests>>

HandlerStep(h) == RequestStep(h) \/ JobStep(h) \/ ReviewStep(h)

UserRequest(t) ==
    \/ CustomerRequest(t) \/ ProviderRequest(t) \/ BeginAdminCancelTask(t)
    \/ \E u \in User : BeginReview(t, u)

External(t) ==
    \/ CreateTask(t) \/ CustomerPays(t)
    \/ \E pin \in Pin : TellPin(t, pin)
    \/ \E v \in Provider, mode \in PaymentMode : CompleteTask(t, v, mode)

Next ==
    \/ \E h \in running : HandlerStep(h) \/ Crash(h)
    \/ \E m \in msgs : Deliver(m) \/ SyncScore(m)
    \/ \E t \in Task : UserRequest(t) \/ External(t)

Spec == Init /\ [][Next]_vars

(***************************************************************************)
(* Fairness: what runs goes on, and the workers take every message in the  *)
(* end, though all of them may be busy with others again and again.        *)
(***************************************************************************)
Fairness ==
    /\ WF_vars(\E h \in running : HandlerStep(h))
    /\ \A k \in {"complete", "pay"} : SF_vars(\E m \in msgs : m.kind = k /\ Deliver(m))

FairSpec == Spec /\ Fairness

-----------------------------------------------------------------------------
(***************************************************************************)
(* Safety.                                                                 *)
(***************************************************************************)
Running(t, labels) == \E h \in running : h.task = t /\ h.pc \in labels
Completions(t) == {m \in msgs : m.kind = "complete" /\ m.task = t}

\* Nobody pays for work that was not begun and ended in front of the
\* customer: a task is settled, its commission taken or its payout queued
\* only after its customer gave out both PINs, though completion looks at
\* no status and a start may race a cancellation.
PinsBeforeMoney ==
    \A t \in Task :
        task[t].status = "COMPLETED" \/ payout[t] # {} \/ commission[t] > 0 => told[t] = Pin

\* A provider is kept from new work (ON_TASK) only by a task that has not
\* been completed, be it cancelled, or for as long as the completion that
\* frees it is under way.
HeldForAReason ==
    crashes = 0 => \A v \in Provider : duty[v] = "ON_TASK" =>
        \E t \in Task : /\ task[t].provider = v
                       /\ \/ task[t].status # "COMPLETED"
                          \/ Running(t, {"settle_duty"})

\* The price is the estimate or what the customer last agreed to, and no
\* payout was ever of another amount, however request, answer, completion
\* and payment interleave.
Agreed(t) == {k \in 1 .. Len(adjustments[t]) : adjustments[t][k].status = "APPROVED"}
PriceIsAgreed ==
    \A t \in Task :
        /\ IF Agreed(t) = {} THEN task[t].price = Estimate
           ELSE \E k \in Agreed(t) : /\ \A j \in Agreed(t) : j <= k
                                     /\ task[t].price = adjustments[t][k].amount
        /\ payout[t] \subseteq {Estimate} \cup {adjustments[t][k].amount : k \in Agreed(t)}

\* Reviews are double-blind: none is shown, to the other side or on a
\* profile, before both are in, and once both are in and nobody is at work
\* on them, both are shown: simultaneous submissions do not miss each other.
DoubleBlind ==
    \A t \in Task :
        /\ \A u \in User : t \in GetReviewsForUser(u) => BothReviewed(t)
        /\ task[t].status = "COMPLETED" /\ BothReviewed(t) /\ crashes = 0 =>
               \/ Hidden(t) = {}
               \/ Running(t, {"ledger", "notify_score", "reveal_row"})

\* No entry of the credibility ledger is left out of the score: an update
\* that runs too early is followed by another.
ScoreFollowsLedger ==
    crashes = 0 => \A u \in unscored :
        \/ Score(u) \in msgs
        \/ \E h \in running : h.pc = "settle_pay" /\ h.user = u
        \/ \E h \in running : h.pc = "notify_score" /\ Reviewee(h.task, h.user) = u

\* A cancellation is final: no request that finds the task cancelled brings
\* it back, only one that had loaded it before, an acceptance or a completion
\* under way.
CancelledIsFinal ==
    [][\A t \in Task :
          /\ task[t].status = "CANCELLED"
          /\ \A h \in running : h.task = t => h.row.status = "CANCELLED"
          => task'[t].status = "CANCELLED"]_vars

\* A completion that was accepted is paid out or, if the customer pays
\* online, billed, through two messages and whatever else happens to the
\* task meanwhile; only a worker that dies prevents it.
CompletionIsPaid ==
    \A t \in Task : Completions(t) # {} ~> payout[t] # {} \/ crashes > 0

-----------------------------------------------------------------------------
\* docs/payment_architecture.md:47: "The system appends a positive debt entry
\* (+platform_fee, reason=cash_task_commission)": one commission for one task.
OneCommission == \A t \in Task : commission[t] <= 1
=============================================================================
