---------------------------- MODULE PaymentState ----------------------------
(***************************************************************************)
(* The shared state of the online-payment pipeline: the database rows that *)
(* the payment components read and write, the broker's queue, the webhooks *)
(* the gateway still owes us, and one database session per running handler *)
(* (a Celery task or a FastAPI request).                                   *)
(*                                                                         *)
(* A session keeps an identity map: a row it has loaded is not read again  *)
(* (expire_on_commit=False), so a handler decides on the values it loaded  *)
(* while other sessions commit.  The values held that way are the fields   *)
(* tst, pst and kst of a session.  Every commit of the code is one step,   *)
(* with the refresh of the row that Repository.add and update do after it. *)
(***************************************************************************)
EXTENDS Integers

CONSTANTS
    Task,          \* tasks paid online, all done by one provider
    Session,       \* slots for concurrently running handlers
    Ref,           \* gateway references of customer charges
    ShortRef,      \* references whose amount is below the task's price
    NoTask, NoRef, \* "no value" of the fields task and ref
    MaxAttempts,   \* Transfer.max_attempts
    Gross,         \* PayoutQueue.payout_amount
    Debt0,         \* SUM(provider_debts.amount) at the start
    Roles,         \* the handlers that run in an instance
    MaxCrashes,    \* bound on the number of handlers that die half way
    CallsOutlast   \* may a gateway call outlast the 10-minute stale cutoff, and
                   \* a reconciliation pass the 15 minutes to the next one?

HookKind == {"charge.success", "charge.failed", "transfer.success", "transfer.failed"}
Role == {"worker", "reconciler", "payout"} \cup HookKind

ASSUME ConstantsAssumption ==
    /\ NoTask \notin Task
    /\ NoRef \notin Ref
    /\ ShortRef \subseteq Ref
    /\ MaxAttempts \in Nat \ {0}
    /\ Gross \in Nat \ {0}
    /\ Debt0 \in Nat
    /\ Roles \subseteq Role
    /\ MaxCrashes \in Nat
    /\ CallsOutlast \in BOOLEAN

(***************************************************************************)
(* The status enumerations.  NONE stands for "no such row yet".            *)
(***************************************************************************)
TransferStatus == {"PENDING", "PROCESSING", "RETRYING", "COMPLETED", "FAILED", "CANCELLED"}

VALID_TRANSFER_TRANSITIONS ==
    [s \in TransferStatus |->
        CASE s = "PENDING"    -> {"PROCESSING", "CANCELLED"}
          [] s = "PROCESSING" -> {"COMPLETED", "RETRYING", "FAILED"}
          [] s = "RETRYING"   -> {"PROCESSING", "CANCELLED"}
          [] OTHER            -> {}]

PayoutStatus == {"PENDING", "CUSTOMER_PAID", "TRANSFER_INITIATED", "COMPLETED", "CANCELLED", "FAILED"}

PaymentStatus == {"PENDING", "PAYMENT_REQUESTED", "CUSTOMER_PAID", "TRANSFER_INITIATED",
                  "PAID", "CASH_PAID", "FAILED"}

(***************************************************************************)
(* A transfer row.  due: next_retry_at is NULL or has passed.  stale:      *)
(* updated_at is older than the reconciler's cutoff.                       *)
(***************************************************************************)
TransferRow == [status: TransferStatus \cup {"NONE"}, attempts: Nat,
                due: BOOLEAN, stale: BOOLEAN]

NoTransfer == [status |-> "NONE", attempts |-> 0, due |-> TRUE, stale |-> FALSE]

(***************************************************************************)
(* What a payment gateway call, or a webhook, tells a handler; the same    *)
(* words are the status of a TransferAttempt.                              *)
(***************************************************************************)
Answer == {"none", "success", "temporary_error", "permanent_error", "error", "failed"}

AttemptRow == [number: Nat, status: Answer]

Event == [kind: HookKind, task: Task, ref: Ref \cup {NoRef}]

Label == {"idle",
          "called", "answer", "load", "payout", "task", "log", "reenqueue",  \* TransferService
          "next",                                                            \* the reconciler
          "lock", "mark", "record",                                          \* transfer webhooks
          "charge_lock", "charge_tx", "charge_task", "charge_payout", "notify", \* charge webhooks
          "debt", "offset", "settle", "find", "insert", "send",              \* PaymentService
          "initiated", "task_initiated"}

SessionRow == [pc: Label, role: Role \cup {"none"}, task: Task \cup {NoTask},
               ref: Ref \cup {NoRef}, n: Nat, ans: Answer,
               tst: TransferStatus \cup {"NONE"}, pst: PayoutStatus, kst: PaymentStatus,
               pend: BOOLEAN, todo: SUBSET Task]

Idle == [pc |-> "idle", role |-> "none", task |-> NoTask, ref |-> NoRef, n |-> 0,
         ans |-> "none", tst |-> "NONE", pst |-> "PENDING", kst |-> "PENDING",
         pend |-> FALSE, todo |-> {}]

VARIABLES
    transfer,    \* Task -> its row in transfers (payout_id is unique)
    payout,      \* Task -> PayoutQueue.status
    current,     \* Task -> sessions whose loaded lock_version is the row's
    payStatus,   \* Task -> Task.payment_status
    attemptLog,  \* Task -> its rows in transfer_attempts
    txns,        \* Event -> number of Transaction rows recorded for it
    debt,        \* SUM(provider_debts.amount) of the provider
    settled,     \* SUM of the payout_offset DEBT_SETTLEMENT transactions
    queue,       \* transfers with a process_transfer message in the broker
    hooks,       \* webhook events the gateway may (still) deliver
    charged,     \* Task -> references under which the customer was charged
    paid,        \* Task -> has the gateway moved the provider's money?
    session,     \* Session -> the handler running in it
    crashes      \* handlers that died so far

rowVars == <<transfer, payout, current, payStatus, attemptLog, txns, debt, settled>>
externalVars == <<queue, hooks, charged, paid>>
vars == <<transfer, payout, current, payStatus, attemptLog, txns, debt, settled,
          queue, hooks, charged, paid, session, crashes>>

TypeOK ==
    /\ transfer \in [Task -> TransferRow]
    /\ payout \in [Task -> PayoutStatus]
    /\ current \in [Task -> SUBSET Session]
    /\ payStatus \in [Task -> PaymentStatus]
    /\ attemptLog \in [Task -> SUBSET AttemptRow]
    /\ txns \in [Event -> Nat]
    /\ debt \in Int
    /\ settled \in Nat
    /\ queue \subseteq Task
    /\ hooks \subseteq Event
    /\ charged \in [Task -> SUBSET Ref]
    /\ paid \in [Task -> BOOLEAN]
    /\ session \in [Session -> SessionRow]
    /\ crashes \in Nat

(***************************************************************************)
(* A task whose completion was paid for online: _process_online_payment    *)
(* has requested the payment and inserted the PENDING payout.              *)
(***************************************************************************)
Init ==
    /\ transfer = [t \in Task |-> NoTransfer]
    /\ payout = [t \in Task |-> "PENDING"]
    /\ current = [t \in Task |-> {}]
    /\ payStatus = [t \in Task |-> "PAYMENT_REQUESTED"]
    /\ attemptLog = [t \in Task |-> {}]
    /\ txns = [e \in Event |-> 0]
    /\ debt = Debt0
    /\ settled = 0
    /\ queue = {}
    /\ hooks = {}
    /\ charged = [t \in Task |-> {}]
    /\ paid = [t \in Task |-> FALSE]
    /\ session = [p \in Session |-> Idle]
    /\ crashes = 0

(***************************************************************************)
(* Sessions.                                                               *)
(***************************************************************************)
At(p, label) == session[p].pc = label
JobOf(p) == session[p].task
EventOf(p) == [kind |-> session[p].role, task |-> session[p].task, ref |-> session[p].ref]

Become(p, w) == session' = [session EXCEPT ![p] = w]
Goto(p, label) == Become(p, [session[p] EXCEPT !.pc = label])
Finish(p) == Become(p, Idle)

\* The PayoutQueue row is locked by an UPDATE of p not committed yet: the
\* lock_version CAS of a webhook, or a charge's CUSTOMER_PAID.
HoldsPayoutRow(p, t) ==
    /\ session[p].task = t
    /\ At(p, "mark") \/ At(p, "charge_tx") \/ session[p].pend
PayoutRowFree(p, t) == \A q \in Session \ {p} : ~HoldsPayoutRow(q, t)

\* A handler answers 200: the gateway stops redelivering the event, or
\* delivers it again all the same.
Acknowledge(p) == hooks' \in {hooks, hooks \ {EventOf(p)}}
=============================================================================
