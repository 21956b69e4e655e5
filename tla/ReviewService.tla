---------------------------- MODULE ReviewService ----------------------------
(***************************************************************************)
(* What follows the completion PIN: the Celery task that settles a task,   *)
(* the one that starts its payment, the double-blind reviews of both       *)
(* sides, and the credibility ledger that all of them write.               *)
(***************************************************************************)
EXTENDS TaskService

Score(u) == [kind |-> "score", user |-> u]

(***************************************************************************)
(* complete_task_assignment.  It looks at no status.                       *)
(***************************************************************************)
CompletionJob(m) ==
    /\ m \in msgs /\ m.kind = "complete"
    /\ msgs' = msgs \ {m}
    /\ assignment' = [assignment EXCEPT ![m.task].status = "COMPLETED"]
    /\ Run([New("settle", m.task, m.user) EXCEPT !.mode = m.mode, !.k = m.n])
    /\ UNCHANGED <<task, adjustments, duty, payVars, repVars, told, boundVars>>

SettleTask(h) ==
    /\ At(h, "settle")
    /\ task' = [task EXCEPT ![h.task].status = "COMPLETED"]
    /\ Goto(h, "settle_duty")
    /\ UNCHANGED <<assignment, adjustments, duty, payVars, repVars, told, msgs, boundVars>>

\* The provider is free, and has a TASK_COMPLETED entry.
SettleUnreleased(h) ==
    /\ At(h, "settle_duty")
    /\ unscored' = unscored \cup {h.user}
    /\ Goto(h, "settle_pay")
    /\ UNCHANGED <<rowVars, payVars, review, told, msgs, boundVars>>

SettleProvider(h) ==
    /\ At(h, "settle_duty")
    /\ duty' = [duty EXCEPT ![h.user] = "ONLINE_AVAILABLE"]
    /\ unscored' = unscored \cup {h.user}
    /\ Goto(h, "settle_pay")
    /\ UNCHANGED <<task, assignment, adjustments, payVars, review, told, msgs, boundVars>>

SettleUnpaid(h) ==
    /\ At(h, "settle_pay")
    /\ msgs' = msgs \cup {Score(h.user)}
    /\ Finish(h)
    /\ UNCHANGED <<rowVars, payVars, repVars, told, boundVars>>

\* The updates of its score and the payment are queued.
SettlePay(h) ==
    /\ At(h, "settle_pay")
    /\ msgs' = msgs \cup {Score(h.user),
                          [kind |-> "pay", task |-> h.task, user |-> h.user, mode |-> h.mode, n |-> h.k]}
    /\ Finish(h)
    /\ UNCHANGED <<rowVars, payVars, repVars, told, boundVars>>

(***************************************************************************)
(* process_task_payment: online, a checkout link and the queued payout; in *)
(* cash, the commission (one commit) and the payout (another), which       *)
(* uq_payout_queue_task_provider_customer refuses the second time.         *)
(***************************************************************************)
PayOnline(m) ==
    /\ m \in msgs /\ m.kind = "pay" /\ m.mode = "ONLINE"
    /\ msgs' = msgs \ {m}
    /\ IF payout[m.task] = {}
       THEN /\ payout' = [payout EXCEPT ![m.task] = {task[m.task].price}]
            /\ task' = [task EXCEPT ![m.task].payment = "PAYMENT_REQUESTED"]
       ELSE UNCHANGED <<payout, task>>
    /\ UNCHANGED <<assignment, adjustments, duty, commission, repVars, told, running, boundVars>>

PayInCash(m) ==
    /\ m \in msgs /\ m.kind = "pay" /\ m.mode = "CASH"
    /\ msgs' = msgs \ {m}
    /\ commission' = [commission EXCEPT ![m.task] = @ + 1]
    /\ task' = [task EXCEPT ![m.task].payment = "CASH_PAID"]
    /\ Run([New("pay_queue", m.task, m.user) EXCEPT !.row = Copy(task[m.task]), !.k = m.n])
    /\ UNCHANGED <<assignment, adjustments, duty, payout, repVars, told, boundVars>>

QueueAnyPayout(h) ==
    /\ At(h, "pay_queue")
    /\ payout' = [payout EXCEPT ![h.task] = @ \cup {h.row.price}]
    /\ Finish(h)
    /\ UNCHANGED <<rowVars, commission, repVars, told, msgs, boundVars>>

QueuePayout(h) ==
    /\ At(h, "pay_queue")
    /\ payout' = [payout EXCEPT ![h.task] = IF @ = {} THEN {h.row.price} ELSE @]
    /\ Finish(h)
    /\ UNCHANGED <<rowVars, commission, repVars, told, msgs, boundVars>>

\* The charge and the transfer (PayoutSystem has them in full).
CustomerPays(t) ==
    /\ task[t].payment = "PAYMENT_REQUESTED"
    /\ task' = [task EXCEPT ![t].payment = "PAID"]
    /\ UNCHANGED <<assignment, adjustments, duty, payVars, repVars, told, msgs, running, boundVars>>

(***************************************************************************)
(* submit_review.  The other participant is the reviewee.                  *)
(***************************************************************************)
Participants(t) == {Customer, task[t].provider} \ {NoProvider}
Reviewee(t, u) == IF u = Customer THEN task[t].provider ELSE Customer
MayReview(t, u) == task[t].status = "COMPLETED" /\ u \in Participants(t) /\ review[t][u] = "none"

\* The apps ask for a review of what is completed and paid.
AwaitsReview(t, u) ==
    /\ task[t].status = "COMPLETED"
    /\ task[t].payment \in {"PAID", "CASH_PAID"}
    /\ review[t][u] = "none"
PendingCustomerReviews == {t \in Task : AwaitsReview(t, Customer)}
PendingProviderReviews(v) == {t \in Task : task[t].provider = v /\ AwaitsReview(t, v)}

BeginReview(t, u) ==
    /\ t \in IF u = Customer THEN PendingCustomerReviews ELSE PendingProviderReviews(u)
    /\ ~Busy(t, u)
    /\ MayReview(t, u)
    /\ Run(New("review", t, u))
    /\ UNCHANGED <<rowVars, payVars, repVars, told, msgs, boundVars>>

InsertReview(h) ==
    /\ At(h, "review")
    /\ review' = [review EXCEPT ![h.task][h.user] = "hidden"]
    /\ Goto(h, "ledger")
    /\ UNCHANGED <<rowVars, payVars, unscored, told, msgs, boundVars>>

AddCredibility(h) ==
    LET u == Reviewee(h.task, h.user)
    IN  /\ At(h, "ledger")
        /\ unscored' = unscored \cup {u}
        /\ Goto(h, "notify_score")
        /\ UNCHANGED <<rowVars, payVars, review, told, msgs, boundVars>>

HasReviewed(t) == {u \in User : review[t][u] # "none"}
Hidden(t) == {u \in User : review[t][u] = "hidden"}
BothReviewed(t) == Participants(t) \subseteq HasReviewed(t)

RevealAtOnce(h) == Goto(h, "reveal_row")

\* _maybe_reveal_reviews reads the reviews of the task, then shows each.
MaybeReveal(h) == IF BothReviewed(h.task) THEN Goto(h, "reveal_row") ELSE Finish(h)

\* Three stars weigh nothing: no entry, no update.
ThreeStars(h) ==
    /\ At(h, "ledger")
    /\ MaybeReveal(h)
    /\ UNCHANGED <<rowVars, payVars, repVars, told, msgs, boundVars>>

QueueScoreOfReviewer(h) ==
    /\ At(h, "notify_score")
    /\ msgs' = msgs \cup {Score(h.user)}
    /\ MaybeReveal(h)
    /\ UNCHANGED <<rowVars, payVars, repVars, told, boundVars>>

QueueScore(h) ==
    /\ At(h, "notify_score")
    /\ msgs' = msgs \cup {Score(Reviewee(h.task, h.user))}
    /\ MaybeReveal(h)
    /\ UNCHANGED <<rowVars, payVars, repVars, told, boundVars>>

RevealOne(h) ==
    /\ At(h, "reveal_row")
    /\ \E u \in Hidden(h.task) : review' = [review EXCEPT ![h.task][u] = "visible"]
    /\ UNCHANGED <<rowVars, payVars, unscored, told, msgs, running, boundVars>>

RevealDone(h) ==
    /\ At(h, "reveal_row")
    /\ Hidden(h.task) = {}
    /\ Finish(h)
    /\ UNCHANGED <<rowVars, payVars, repVars, told, msgs, boundVars>>

\* sync_user_credibility_score: one INSERT ... ON CONFLICT statement.
SyncScore(m) ==
    /\ m \in msgs /\ m.kind = "score"
    /\ msgs' = msgs \ {m}
    /\ unscored' = unscored \ {m.user}
    /\ UNCHANGED <<rowVars, payVars, review, told, running, boundVars>>

GetReviewsForTask(t) == {u \in User : review[t][u] = "visible"}
GetReviewsForUser(u) == {t \in Task : \E w \in GetReviewsForTask(t) : Reviewee(t, w) = u}

-----------------------------------------------------------------------------
JobStep(h) ==
    SettleTask(h) \/ SettleProvider(h) \/ SettlePay(h) \/ QueuePayout(h)

ReviewStep(h) ==
    \/ InsertReview(h) \/ AddCredibility(h) \/ ThreeStars(h) \/ QueueScore(h)
    \/ RevealOne(h) \/ RevealDone(h)

Deliver(m) == CompletionJob(m) \/ PayOnline(m) \/ PayInCash(m)
=============================================================================
