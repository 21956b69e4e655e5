---------------------- MODULE TransferWebhookProcessor ----------------------
(***************************************************************************)
(* TransferWebhookProcessor: transfer.success and transfer.failed.  The    *)
(* handler loads the payout (and its task), takes the payout row with a    *)
(* compare-and-set of lock_version, checks that the event was not recorded *)
(* yet, loads the transfer and marks it.  The row is held until the        *)
(* handler's next commit.                                                  *)
(***************************************************************************)
EXTENDS TransferService

TransferHook == {"transfer.success", "transfer.failed"}

HookAnswerAlways(kind) == "success"
HookAnswer(kind) == IF kind = "transfer.success" THEN "success" ELSE "failed"

ReceiveTransferHook(p, e) ==
    /\ e.kind \in Roles \cap TransferHook
    /\ e \in hooks
    /\ At(p, "idle")
    /\ Become(p, [Idle EXCEPT !.pc = "lock", !.role = e.kind, !.task = e.task, !.ref = e.ref,
                              !.ans = HookAnswer(e.kind),
                              !.pst = payout[e.task], !.kst = payStatus[e.task]])
    /\ current' = [current EXCEPT ![e.task] = @ \cup {p}]
    /\ UNCHANGED <<transfer, payout, payStatus, attemptLog, txns, debt, settled,
                   externalVars, crashes>>

\* UPDATE payout_queue SET lock_version = v + 1 WHERE lock_version = v waits
\* for the row and changes it if nobody else did.
WinsLockInMemory(p) == p \in current[JobOf(p)]
WinsLock(p) == PayoutRowFree(p, JobOf(p)) /\ p \in current[JobOf(p)]

\* lock_version moved since it was loaded: rowcount = 0, the event is
\* answered 200 and skipped.
SkipLockLost(p) ==
    /\ At(p, "lock") \/ At(p, "charge_lock")
    /\ PayoutRowFree(p, JobOf(p))
    /\ p \notin current[JobOf(p)]
    /\ Acknowledge(p)
    /\ Finish(p)
    /\ UNCHANGED <<rowVars, queue, charged, paid, crashes>>

\* A Transaction for the event exists.  The logger's flush at the end of the
\* request commits the new lock_version, unless nothing is logged (IS_LOCAL).
ReleaseLock(p) ==
    current' \in {[current EXCEPT ![JobOf(p)] = {}], [current EXCEPT ![JobOf(p)] = @ \ {p}]}

SkipAlreadyRecorded(p) ==
    /\ At(p, "lock") \/ At(p, "charge_lock")
    /\ WinsLock(p)
    /\ txns[EventOf(p)] > 0
    /\ ReleaseLock(p)
    /\ Acknowledge(p)
    /\ Finish(p)
    /\ UNCHANGED <<transfer, payout, payStatus, attemptLog, txns, debt, settled,
                   queue, charged, paid, crashes>>

TakeLock(p) ==
    /\ At(p, "lock")
    /\ WinsLock(p)
    /\ txns[EventOf(p)] = 0
    /\ Become(p, [session[p] EXCEPT !.pc = "mark", !.tst = transfer[JobOf(p)].status])
    /\ UNCHANGED <<rowVars, externalVars, crashes>>

\* _mark_completed or _mark_failed, as far as their first commit.
HookMarks(p) ==
    LET t == JobOf(p)
        s == Outcome(session[p])
    IN  /\ At(p, "mark")
        /\ session[p].tst # s
        /\ s \in VALID_TRANSFER_TRANSITIONS[session[p].tst]
        /\ transfer' = [transfer EXCEPT ![t] = Transition(@, s)]
        /\ current' = [current EXCEPT ![t] = {}]
        /\ Goto(p, "payout")
        /\ UNCHANGED <<payout, payStatus, attemptLog, txns, debt, settled,
                       externalVars, crashes>>

\* _transition raises ValueError: the request ends with a 500, and the
\* gateway delivers the event again.
HookRaises(p) ==
    LET s == Outcome(session[p])
    IN  /\ At(p, "mark")
        /\ session[p].tst # s
        /\ s \notin VALID_TRANSFER_TRANSITIONS[session[p].tst]
        /\ ReleaseLock(p)
        /\ Finish(p)
        /\ UNCHANGED <<transfer, payout, payStatus, attemptLog, txns, debt, settled,
                       externalVars, crashes>>

\* The transfer already has the event's status: only payout and task are
\* brought in line, the payout by what its row says now.
FallbackPayout(s, pst) ==
    IF s = "COMPLETED"
    THEN IF pst \in {"PENDING", "CUSTOMER_PAID", "TRANSFER_INITIATED"} THEN "COMPLETED" ELSE pst
    ELSE IF pst = "COMPLETED" THEN pst ELSE "CANCELLED"

\* The commit of the task takes the payout along.
HookFallback(p) ==
    LET t == JobOf(p)
        s == Outcome(session[p])
        new == TaskAfter(s, session[p].kst)
    IN  /\ At(p, "mark")
        /\ session[p].tst = s
        /\ session[p].kst # "PAID"
        /\ payout' = [payout EXCEPT ![t] = FallbackPayout(s, @)]
        /\ payStatus' = IF new = session[p].kst THEN payStatus ELSE [payStatus EXCEPT ![t] = new]
        /\ current' = [current EXCEPT ![t] = {}]
        /\ Goto(p, "record")
        /\ UNCHANGED <<transfer, attemptLog, txns, debt, settled, externalVars, crashes>>

\* The task is PAID already: the commit of the Transaction takes it along.
HookFallbackPaid(p) ==
    LET t == JobOf(p)
    IN  /\ At(p, "mark")
        /\ session[p].tst = Outcome(session[p])
        /\ session[p].kst = "PAID"
        /\ payout' = [payout EXCEPT ![t] = FallbackPayout(session[p].tst, @)]
        /\ current' = [current EXCEPT ![t] = {}]
        /\ txns' = [txns EXCEPT ![EventOf(p)] = @ + 1]
        /\ Acknowledge(p)
        /\ Finish(p)
        /\ UNCHANGED <<transfer, payStatus, attemptLog, debt, settled, queue, charged, paid, crashes>>

\* The audit Transaction, then the notification and the 200.
RecordTransaction(p) ==
    /\ At(p, "record")
    /\ txns' = [txns EXCEPT ![EventOf(p)] = @ + 1]
    /\ Acknowledge(p)
    /\ Finish(p)
    /\ UNCHANGED <<transfer, payout, current, payStatus, attemptLog, debt, settled,
                   queue, charged, paid, crashes>>

TransferHookStep(p) ==
    \/ SkipLockLost(p) \/ SkipAlreadyRecorded(p) \/ TakeLock(p) \/ HookMarks(p) \/ HookRaises(p)
    \/ HookFallback(p) \/ HookFallbackPaid(p) \/ RecordTransaction(p)
=============================================================================
