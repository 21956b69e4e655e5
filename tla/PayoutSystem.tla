---------------------------- MODULE PayoutSystem ----------------------------
(***************************************************************************)
(* The online-payment pipeline as a whole: customers, webhooks, payouts,   *)
(* transfer workers, the recovery and reconciliation scans and the         *)
(* gateway, interleaved commit by commit, with handlers that may die.      *)
(***************************************************************************)
EXTENDS PaymentService

(***************************************************************************)
(* The process running a handler dies: its session and every uncommitted   *)
(* change are gone, a consumed Celery message is not delivered again       *)
(* (acks_late is off), a webhook stays unacknowledged.                     *)
(***************************************************************************)
Crash(p) ==
    /\ ~At(p, "idle")
    /\ crashes < MaxCrashes
    /\ crashes' = crashes + 1
    /\ current' = [t \in Task |-> current[t] \ {p}]
    /\ Finish(p)
    /\ UNCHANGED <<transfer, payout, payStatus, attemptLog, txns, debt, settled, externalVars>>

\* A step of the handler running in p.
HandlerStep(p) ==
    \/ WorkerStep(p)
    \/ TransferHookStep(p)
    \/ ChargeHookStep(p)
    \/ PayoutStep(p)
    \/ \E t \in Task : ReconcileUnreachable(p, t) \/ \E a \in Answer : ReconcileLookup(p, t, a)

\* A handler starts in p.
HandlerStart(p) ==
    \/ StartReconcile(p)
    \/ \E t \in Task : ProcessTransfer(p, t) \/ StartPayout(p, t)
    \/ \E e \in hooks : ReceiveTransferHook(p, e) \/ ReceiveChargeHook(p, e)

\* Beat's schedule, the clock, and messages about which nothing is done.
Background(t) ==
    SkipTransfer(t) \/ RecoverStuckTransfer(t) \/ RetryFallsDue(t) \/ AttemptGoesStale(t)

Customer(t) == \E r \in Ref : CustomerPays(t, r) \/ CustomerCardFails(t, r)

Next ==
    \/ \E p \in Session : HandlerStep(p) \/ HandlerStart(p) \/ Crash(p)
    \/ \E t \in Task : Background(t) \/ Customer(t)

Spec == Init /\ [][Next]_vars

(***************************************************************************)
(* Fairness.  A handler that runs goes on (every gateway call has a        *)
(* timeout).  Beat fires again and again, the clock advances, and a free   *)
(* worker takes the next message or pass; the gateway is not unreachable   *)
(* for every look-up of a transfer.  Customers and webhook deliveries owe  *)
(* us nothing.                                                             *)
(***************************************************************************)
Fairness ==
    /\ \A p \in Session : WF_vars(HandlerStep(p))
    /\ \A t \in Task :
        /\ WF_vars(RecoverStuckTransfer(t))
        /\ WF_vars(RetryFallsDue(t))
        /\ WF_vars(AttemptGoesStale(t))
        /\ SF_vars(\E p \in Session : ProcessTransfer(p, t))
        /\ SF_vars(\E p \in Session : \E a \in Answer : ReconcileLookup(p, t, a))
    /\ SF_vars(\E p \in Session : StartReconcile(p))

FairSpec == Spec /\ Fairness

-----------------------------------------------------------------------------
(***************************************************************************)
(* Safety.                                                                 *)
(***************************************************************************)

\* At most one attempt of a transfer is at the gateway at any time, however
\* often its message is enqueued or redelivered (process_transfer's row lock
\* and guard are all that prevents it).
SingleFlight ==
    \A t \in Task : \A p, q \in Session : InCall(p, t) /\ InCall(q, t) => p = q

\* A transfer is attempted max_attempts times at most, although _mark_retry
\* judges by an attempt_count loaded before the call.
AttemptsBounded == \A t \in Task : transfer[t].attempts <= MaxAttempts

\* The audit log: no two records for one attempt number, none for an attempt
\* that was not made, and none that reports a success without a payment,
\* although records are written after the transfer's own commits.
AuditSound ==
    \A t \in Task :
        /\ \A a, b \in attemptLog[t] : a.number = b.number => a = b
        /\ \A a \in attemptLog[t] :
            /\ a.number \in 1 .. transfer[t].attempts
            /\ a.status = "success" => paid[t]

\* Nobody is told that a provider was paid unless the gateway paid: whichever
\* of worker, reconciler, webhook and payout overtakes the others.
NoPhantomPayment ==
    \A t \in Task :
        \/ paid[t]
        \/ /\ transfer[t].status # "COMPLETED"
           /\ payout[t] # "COMPLETED"
           /\ payStatus[t] # "PAID"
           /\ txns[[kind |-> "transfer.success", task |-> t, ref |-> NoRef]] = 0

\* A customer's charge is recorded at most once per reference, under
\* concurrent and repeated deliveries and crashes: the lock_version
\* compare-and-set holds the payout row until the Transaction is committed.
ChargeOnce ==
    \A e \in Event : e.kind \in {"charge.success", "charge.failed"} => txns[e] <= 1

\* No money is sent out before the customer's money came in: a transfer
\* exists only for a task whose full price was charged and recorded.
PaidOnlyAfterCharge ==
    \A t \in Task : transfer[t].status # "NONE" =>
        \E r \in charged[t] \ ShortRef :
            txns[[kind |-> "charge.success", task |-> t, ref |-> r]] > 0

\* Every settlement Transaction has its entry in the debt ledger: they differ
\* by what handlers have between the two commits, and by crashes there.
LedgerCoversSettlements == settled <= Debt0 - debt
-----------------------------------------------------------------------------
(***************************************************************************)
(* What holds while transfers are resolved by the workers and one          *)
(* reconciliation pass at a time alone (no transfer webhook is delivered,  *)
(* no call outlasts the stale cutoff).                                     *)
(***************************************************************************)
TM == INSTANCE TransferMachine WITH
    status <- [t \in Task |-> transfer[t].status],
    attempts <- [t \in Task |-> transfer[t].attempts]

\* The transfers table implements TransferMachine: crashes, repeated
\* messages and the recovery and reconciliation scans included, a transfer
\* follows the transition table and gets one outcome.
TransferPromise == TM!Spec

\* Payout and task never report an outcome that their transfer does not
\* have, although the three rows are committed one after the other.
Agreement ==
    \A t \in Task :
        /\ payout[t] = "COMPLETED" => transfer[t].status = "COMPLETED"
        /\ payout[t] = "CANCELLED" => transfer[t].status = "FAILED"
        /\ payStatus[t] = "PAID" => transfer[t].status = "COMPLETED"
        /\ payStatus[t] = "FAILED" => transfer[t].status = "FAILED"

(***************************************************************************)
(* Liveness.                                                               *)
(***************************************************************************)
\* Every transfer that was created gets a known outcome and keeps it from
\* some point on, whatever message or handler was lost on the way: recovery
\* picks up what is PENDING or RETRYING, reconciliation what is PROCESSING.
TransferSettles ==
    \A t \in Task :
        transfer[t].status # "NONE" ~> [](transfer[t].status \in {"COMPLETED", "FAILED"})
=============================================================================
