--------------------------- MODULE PaymentService ---------------------------
(***************************************************************************)
(* PaymentService.process_provider_payout and what triggers it: the        *)
(* charge.success webhook of PaymentWebhookProcessor, in whose session it  *)
(* then runs, the admin's trigger_payout_transfer and the Celery task      *)
(* payments.process_provider_payout, each in a session of its own.         *)
(***************************************************************************)
EXTENDS TransferWebhookProcessor

(***************************************************************************)
(* The customer, outside the code: pays through a checkout link, or fails. *)
(***************************************************************************)
CustomerPays(t, r) ==
    /\ r \notin charged[t]
    /\ charged' = [charged EXCEPT ![t] = @ \cup {r}]
    /\ hooks' = hooks \cup {[kind |-> "charge.success", task |-> t, ref |-> r]}
    /\ UNCHANGED <<rowVars, queue, paid, session, crashes>>

CustomerCardFails(t, r) ==
    /\ "charge.failed" \in Roles
    /\ r \notin charged[t]
    /\ hooks' = hooks \cup {[kind |-> "charge.failed", task |-> t, ref |-> r]}
    /\ UNCHANGED <<rowVars, queue, charged, paid, session, crashes>>

(***************************************************************************)
(* handle_charge_success and handle_charge_failed.                         *)
(***************************************************************************)
ReceiveChargeHook(p, e) ==
    /\ e.kind \in Roles \cap {"charge.success", "charge.failed"}
    /\ e \in hooks
    /\ At(p, "idle")
    /\ Become(p, [Idle EXCEPT !.pc = "charge_lock", !.role = e.kind, !.task = e.task,
                              !.ref = e.ref, !.pst = payout[e.task], !.kst = payStatus[e.task]])
    /\ current' = [current EXCEPT ![e.task] = @ \cup {p}]
    /\ UNCHANGED <<transfer, payout, payStatus, attemptLog, txns, debt, settled,
                   externalVars, crashes>>

\* amount < customer_total_price: nothing is recorded.
IgnoreShortCharge(p) ==
    /\ At(p, "charge_lock")
    /\ WinsLock(p)
    /\ txns[EventOf(p)] = 0
    /\ session[p].role = "charge.success"
    /\ session[p].ref \in ShortRef
    /\ ReleaseLock(p)
    /\ Acknowledge(p)
    /\ Finish(p)
    /\ UNCHANGED <<transfer, payout, payStatus, attemptLog, txns, debt, settled,
                   queue, charged, paid, crashes>>

TakeChargeLock(p) ==
    /\ At(p, "charge_lock")
    /\ WinsLock(p)
    /\ txns[EventOf(p)] = 0
    /\ session[p].role = "charge.failed" \/ session[p].ref \notin ShortRef
    /\ Goto(p, "charge_tx")
    /\ UNCHANGED <<rowVars, externalVars, crashes>>

AfterChargeAlways(kind) == "charge_task"
AfterCharge(kind) == IF kind = "charge.success" THEN "charge_task" ELSE "notify"

\* The Transaction's commit also commits lock_version and frees the row; the
\* refresh after it reads the task again (a joined relationship).
RecordCharge(p) ==
    /\ At(p, "charge_tx")
    /\ txns' = [txns EXCEPT ![EventOf(p)] = @ + 1]
    /\ current' = [current EXCEPT ![JobOf(p)] = {}]
    /\ Become(p, [session[p] EXCEPT !.pc = AfterCharge(session[p].role), !.kst = payStatus[JobOf(p)]])
    /\ UNCHANGED <<transfer, payout, payStatus, attemptLog, debt, settled,
                   externalVars, crashes>>

MarkCustomerPaid(p) ==
    /\ At(p, "charge_task")
    /\ session[p].kst \in {"PENDING", "PAYMENT_REQUESTED", "FAILED"}
    /\ payStatus' = [payStatus EXCEPT ![JobOf(p)] = "CUSTOMER_PAID"]
    /\ Become(p, [session[p] EXCEPT !.pc = "charge_payout", !.kst = "CUSTOMER_PAID"])
    /\ UNCHANGED <<transfer, payout, current, attemptLog, txns, debt, settled,
                   externalVars, crashes>>

AlreadyPaid(p) ==
    /\ At(p, "charge_task")
    /\ session[p].kst \notin {"PENDING", "PAYMENT_REQUESTED", "FAILED"}
    /\ Goto(p, "notify")
    /\ UNCHANGED <<rowVars, externalVars, crashes>>

\* UPDATE payout_queue SET status = CUSTOMER_PAID: executed, not committed.
\* The loaded payout follows by its own, possibly outdated, status; the
\* payout is processed if that is CUSTOMER_PAID then.
PayableStatus == {"PENDING", "CANCELLED"}

UpdatePayoutPaid(p) ==
    LET pst == IF session[p].pst \in PayableStatus THEN "CUSTOMER_PAID" ELSE session[p].pst
    IN  /\ At(p, "charge_payout")
        /\ PayoutRowFree(p, JobOf(p))
        /\ Become(p, [session[p] EXCEPT !.pc = IF pst = "CUSTOMER_PAID" THEN "debt" ELSE "notify",
                                        !.pst = pst,
                                        !.pend = payout[JobOf(p)] \in PayableStatus])
        /\ UNCHANGED <<rowVars, externalVars, crashes>>

\* What a commit of p makes of the payout rows.
CommitPayout(p) ==
    IF session[p].pend THEN [payout EXCEPT ![JobOf(p)] = "CUSTOMER_PAID"] ELSE payout

\* notification_service.notify commits what is pending; then the 200.
NotifyPayer(p) ==
    /\ At(p, "notify")
    /\ payout' = CommitPayout(p)
    /\ Acknowledge(p)
    /\ Finish(p)
    /\ UNCHANGED <<transfer, current, payStatus, attemptLog, txns, debt, settled,
                   queue, charged, paid, crashes>>

(***************************************************************************)
(* process_provider_payout.                                                *)
(***************************************************************************)
StartPayout(p, t) ==
    /\ "payout" \in Roles
    /\ At(p, "idle")
    /\ payout[t] = "CUSTOMER_PAID"
    /\ Become(p, [Idle EXCEPT !.pc = "debt", !.role = "payout", !.task = t,
                              !.pst = payout[t], !.kst = payStatus[t]])
    /\ UNCHANGED <<rowVars, externalVars, crashes>>

\* total_debt = SUM(amount); n is debt_offset.
ReadDebt(p) ==
    LET offset == IF debt <= 0 THEN 0 ELSE IF debt < Gross THEN debt ELSE Gross
    IN  /\ At(p, "debt")
        /\ Become(p, [session[p] EXCEPT !.pc = IF offset = 0 THEN "find" ELSE "offset",
                                        !.n = offset])
        /\ UNCHANGED <<rowVars, externalVars, crashes>>

\* The ledger entry: amount = -debt_offset.
OffsetEntryUnsigned(w) == w.n
OffsetEntry(w) == -w.n

OffsetDebt(p) ==
    /\ At(p, "offset")
    /\ debt' = debt + OffsetEntry(session[p])
    /\ payout' = CommitPayout(p)
    /\ Become(p, [session[p] EXCEPT !.pc = "settle", !.pend = FALSE])
    /\ UNCHANGED <<transfer, current, payStatus, attemptLog, txns, settled, externalVars, crashes>>

RecordOffset(p) ==
    /\ At(p, "settle")
    /\ settled' = settled + session[p].n
    /\ Goto(p, "find")
    /\ UNCHANGED <<transfer, payout, current, payStatus, attemptLog, txns, debt,
                   externalVars, crashes>>

\* create_transfer returns the payout's transfer if there is one.
FindTransfer(p) ==
    /\ At(p, "find")
    /\ Goto(p, IF session[p].n = Gross THEN "initiated"
               ELSE IF transfer[JobOf(p)].status = "NONE" THEN "insert" ELSE "send")
    /\ UNCHANGED <<rowVars, externalVars, crashes>>

InsertTransfer(p) ==
    LET t == JobOf(p)
    IN  /\ At(p, "insert")
        /\ transfer[t].status = "NONE"
        /\ transfer' = [transfer EXCEPT ![t] = NewTransfer]
        /\ payout' = CommitPayout(p)
        /\ Become(p, [session[p] EXCEPT !.pc = "send", !.pend = FALSE])
        /\ UNCHANGED <<current, payStatus, attemptLog, txns, debt, settled, externalVars, crashes>>

\* Someone else inserted it: the unique payout_id makes the insert raise.
InsertRaises(p) ==
    /\ At(p, "insert")
    /\ transfer[JobOf(p)].status # "NONE"
    /\ Finish(p)
    /\ UNCHANGED <<rowVars, externalVars, crashes>>

EnqueueTransfer(p) ==
    /\ At(p, "send")
    /\ queue' = queue \cup {JobOf(p)}
    /\ Goto(p, "initiated")
    /\ UNCHANGED <<rowVars, hooks, charged, paid, crashes>>

MarkInitiated(p) ==
    /\ At(p, "initiated")
    /\ PayoutRowFree(p, JobOf(p))
    /\ payout' = [payout EXCEPT ![JobOf(p)] = "TRANSFER_INITIATED"]
    /\ Become(p, [session[p] EXCEPT !.pc = "task_initiated", !.pend = FALSE,
                                    !.kst = payStatus[JobOf(p)]])
    /\ UNCHANGED <<transfer, current, payStatus, attemptLog, txns, debt, settled,
                   externalVars, crashes>>

MarkTaskInitiated(p) ==
    /\ At(p, "task_initiated")
    /\ payStatus' = IF session[p].kst = "TRANSFER_INITIATED" THEN payStatus
                    ELSE [payStatus EXCEPT ![JobOf(p)] = "TRANSFER_INITIATED"]
    /\ IF session[p].role = "payout" THEN Finish(p) ELSE Goto(p, "notify")
    /\ UNCHANGED <<transfer, payout, current, attemptLog, txns, debt, settled,
                   externalVars, crashes>>

ChargeHookStep(p) ==
    \/ IgnoreShortCharge(p) \/ TakeChargeLock(p) \/ RecordCharge(p) \/ MarkCustomerPaid(p)
    \/ AlreadyPaid(p) \/ UpdatePayoutPaid(p) \/ NotifyPayer(p)

PayoutStep(p) ==
    \/ ReadDebt(p) \/ OffsetDebt(p) \/ RecordOffset(p) \/ FindTransfer(p) \/ InsertTransfer(p)
    \/ InsertRaises(p) \/ EnqueueTransfer(p) \/ MarkInitiated(p) \/ MarkTaskInitiated(p)
=============================================================================
