-------------------------- MODULE TransferService ---------------------------
(***************************************************************************)
(* TransferService and the Celery tasks that drive it: one attempt of a    *)
(* transfer by a worker, the recovery scan, the reconciliation of stuck    *)
(* attempts, and the gateway they call.  _mark_completed, _mark_retry and  *)
(* _mark_failed are shared with the transfer webhooks.                     *)
(***************************************************************************)
EXTENDS PaymentState

\* create_transfer's insert; the select before it is PaymentService's
\* FindTransfer.
NewTransfer == [NoTransfer EXCEPT !.status = "PENDING"]

\* _transition and the fields each caller sets with it, in one commit.
Transition(row, s) == [row EXCEPT !.status = s, !.stale = FALSE, !.due = s # "RETRYING"]

\* Where a worker may take a transfer up, and where the recovery scan finds
\* it.  (Definitions that the PROJECT file lists as mutants precede what
\* they are a faulty version of; nothing else uses them.)
ProcessableProcessing == {"PENDING", "RETRYING", "PROCESSING"}
ProcessableFailed == {"PENDING", "RETRYING", "FAILED"}
Processable == {"PENDING", "RETRYING"}

RecoverablePending == {"PENDING"}
Recoverable == {"PENDING", "RETRYING"}

\* The status an attempt ends in: _mark_completed, _mark_retry (FAILED once
\* attempt_count reaches max_attempts), _mark_failed.
OutcomeOffByOne(w) ==
    IF w.ans = "success" THEN "COMPLETED"
    ELSE IF w.ans = "temporary_error" /\ w.n <= MaxAttempts THEN "RETRYING"
    ELSE "FAILED"

Outcome(w) ==
    IF w.ans = "success" THEN "COMPLETED"
    ELSE IF w.ans = "temporary_error" /\ w.n < MaxAttempts THEN "RETRYING"
    ELSE "FAILED"

InCall(p, t) ==
    /\ session[p].role = "worker"
    /\ session[p].task = t
    /\ At(p, "called") \/ At(p, "answer")

(***************************************************************************)
(* process_transfer, up to the commit that releases the row lock: the      *)
(* message is consumed, or will be delivered once more.                    *)
(***************************************************************************)
ConsumeMessage(t) ==
    /\ t \in queue
    /\ queue' \in {queue, queue \ {t}}

ProcessTransfer(p, t) ==
    /\ "worker" \in Roles
    /\ At(p, "idle")
    /\ ConsumeMessage(t)
    /\ transfer[t].status \in Processable
    /\ transfer' = [transfer EXCEPT ![t].status = "PROCESSING",
                                    ![t].attempts = @ + 1, ![t].stale = FALSE]
    /\ Become(p, [Idle EXCEPT !.pc = "called", !.role = "worker",
                              !.task = t, !.n = transfer[t].attempts + 1])
    /\ UNCHANGED <<payout, current, payStatus, attemptLog, txns, debt, settled,
                   hooks, charged, paid, crashes>>

\* Already COMPLETED, or not in a processable state: nothing is done.
SkipTransfer(t) ==
    /\ "worker" \in Roles
    /\ ConsumeMessage(t)
    /\ transfer[t].status \notin Processable
    /\ UNCHANGED <<rowVars, hooks, charged, paid, session, crashes>>

\* _resolve_destination finds no active payment account.
NoPaymentAccount(p) ==
    /\ At(p, "called")
    /\ Become(p, [session[p] EXCEPT !.pc = "answer", !.ans = "error"])
    /\ UNCHANGED <<rowVars, externalVars, crashes>>

(***************************************************************************)
(* provider.transfer: the gateway acts, then the answer arrives or times   *)
(* out.  A repeated reference moves no more money.                         *)
(***************************************************************************)
Answered(p, answers) ==
    \E a \in answers : Become(p, [session[p] EXCEPT !.pc = "answer", !.ans = a])

GatewayPays(p) ==
    /\ At(p, "called")
    /\ paid' = [paid EXCEPT ![JobOf(p)] = TRUE]
    /\ hooks' = hooks \cup {[kind |-> "transfer.success", task |-> JobOf(p), ref |-> NoRef]}
    /\ Answered(p, {"success", "temporary_error"})
    /\ UNCHANGED <<rowVars, queue, charged, crashes>>

GatewayRejects(p) ==
    /\ At(p, "called")
    /\ ~paid[JobOf(p)]
    /\ hooks' = hooks \cup {[kind |-> "transfer.failed", task |-> JobOf(p), ref |-> NoRef]}
    /\ Answered(p, {"permanent_error", "temporary_error"})
    /\ UNCHANGED <<rowVars, queue, charged, paid, crashes>>

GatewayUnreachable(p) ==
    /\ At(p, "called")
    /\ Answered(p, {"temporary_error"})
    /\ UNCHANGED <<rowVars, externalVars, crashes>>

(***************************************************************************)
(* _mark_completed / _mark_retry / _mark_failed, commit by commit.  The    *)
(* status the transition is judged by is the session's: PROCESSING for a   *)
(* worker since its own commit, for the reconciler since it loaded its     *)
(* batch.  Whatever the row says by now is overwritten.                    *)
(***************************************************************************)
Mark(p) ==
    LET t == JobOf(p)
        s == Outcome(session[p])
    IN  /\ At(p, "answer")
        /\ s \in VALID_TRANSFER_TRANSITIONS["PROCESSING"]
        /\ transfer' = [transfer EXCEPT ![t] = Transition(@, s)]
        /\ Goto(p, IF s = "RETRYING" THEN "log" ELSE "load")
        /\ UNCHANGED <<payout, current, payStatus, attemptLog, txns, debt, settled,
                       externalVars, crashes>>

\* payout_queue_repo.get: the payout, and its task by a joined load.
LoadPayout(p) ==
    /\ At(p, "load")
    /\ Become(p, [session[p] EXCEPT !.pc = "payout", !.pst = payout[JobOf(p)],
                                    !.kst = payStatus[JobOf(p)]])
    /\ UNCHANGED <<rowVars, externalVars, crashes>>

PayoutAfterPaid(s, pst) == IF s = "COMPLETED" THEN "PAID" ELSE pst

PayoutAfter(s, pst) ==
    IF s = "COMPLETED" THEN "COMPLETED" ELSE IF pst = "COMPLETED" THEN pst ELSE "CANCELLED"
TaskAfter(s, kst) ==
    IF s = "COMPLETED" THEN "PAID" ELSE IF kst = "PAID" THEN kst ELSE "FAILED"

\* An attribute that does not change in memory is not written.  Saving the
\* payout (a completed one is not cancelled) reads it, and its task, again.
MarkPayout(p) ==
    LET t == JobOf(p)
        new == PayoutAfter(Outcome(session[p]), session[p].pst)
    IN  /\ At(p, "payout")
        /\ PayoutRowFree(p, t)
        /\ payout' = IF new = session[p].pst THEN payout ELSE [payout EXCEPT ![t] = new]
        /\ Become(p, [session[p] EXCEPT !.pc = "task",
                            !.kst = IF Outcome(session[p]) # "COMPLETED" /\ session[p].pst = "COMPLETED"
                                    THEN session[p].kst ELSE payStatus[t]])
        /\ UNCHANGED <<transfer, current, payStatus, attemptLog, txns, debt, settled,
                       externalVars, crashes>>

AfterMark(w) ==
    CASE w.role = "worker"     -> [w EXCEPT !.pc = "log"]
      [] w.role = "reconciler" -> IF w.todo = {} THEN Idle
                                  ELSE [Idle EXCEPT !.pc = "next", !.role = w.role, !.todo = w.todo]
      [] OTHER                 -> [w EXCEPT !.pc = "record"]

MarkTask(p) ==
    LET t == JobOf(p)
        new == TaskAfter(Outcome(session[p]), session[p].kst)
    IN  /\ At(p, "task")
        /\ payStatus' = IF new = session[p].kst THEN payStatus ELSE [payStatus EXCEPT ![t] = new]
        /\ Become(p, AfterMark(session[p]))
        /\ UNCHANGED <<transfer, payout, current, attemptLog, txns, debt, settled,
                       externalVars, crashes>>

NextAttemptOf(w) == [number |-> w.n + 1, status |-> w.ans]
AttemptOf(w) == [number |-> w.n, status |-> w.ans]

RecordAttempt(p) ==
    LET w == session[p]
    IN  /\ At(p, "log")
        /\ attemptLog' = [attemptLog EXCEPT ![w.task] = @ \cup {AttemptOf(w)}]
        /\ IF Outcome(w) = "RETRYING" THEN Goto(p, "reenqueue") ELSE Finish(p)
        /\ UNCHANGED <<transfer, payout, current, payStatus, txns, debt, settled,
                       externalVars, crashes>>

\* process_transfer_task schedules itself again (Celery countdown).
Reenqueue(p) ==
    /\ At(p, "reenqueue")
    /\ queue' = queue \cup {JobOf(p)}
    /\ Finish(p)
    /\ UNCHANGED <<rowVars, hooks, charged, paid, crashes>>

(***************************************************************************)
(* The recovery scan, every 10 minutes.                                    *)
(***************************************************************************)
RecoverStuckTransfer(t) ==
    /\ transfer[t].status \in Recoverable
    /\ transfer[t].due
    /\ queue' = queue \cup {t}
    /\ UNCHANGED <<rowVars, hooks, charged, paid, session, crashes>>

(***************************************************************************)
(* The reconciliation scan, every 15 minutes: its session loads the stale  *)
(* PROCESSING rows once, then looks each of them up.                       *)
(***************************************************************************)
ProcessingTransfers == {t \in Task : transfer[t].status = "PROCESSING"}
StaleTransfers == {t \in Task : transfer[t].status = "PROCESSING" /\ transfer[t].stale}

StartReconcile(p) ==
    /\ "reconciler" \in Roles
    /\ At(p, "idle")
    /\ StaleTransfers # {}
    /\ CallsOutlast \/ \A q \in Session : session[q].role # "reconciler"
    /\ Become(p, [Idle EXCEPT !.pc = "next", !.role = "reconciler",
                              !.todo = StaleTransfers])
    /\ UNCHANGED <<rowVars, externalVars, crashes>>

\* provider.get_transfer answers success or failed, never anything else.
\* The lookup key of a PROCESSING row is its idempotency_key, which is not
\* the reference the payment was sent with: a payment that was made may be
\* reported as failed, one that was not is never reported as a success.
ReconcileLookup(p, t, a) ==
    /\ At(p, "next")
    /\ t \in session[p].todo
    /\ a \in {"success", "failed"}
    /\ a = "success" => paid[t]
    /\ Become(p, [session[p] EXCEPT !.pc = "answer", !.task = t, !.ans = a,
                                    !.todo = @ \ {t}])
    /\ UNCHANGED <<rowVars, externalVars, crashes>>

\* TemporaryProviderError: left for the next pass.
ReconcileUnreachable(p, t) ==
    /\ At(p, "next")
    /\ t \in session[p].todo
    /\ IF session[p].todo = {t} THEN Finish(p)
       ELSE Become(p, [session[p] EXCEPT !.todo = @ \ {t}])
    /\ UNCHANGED <<rowVars, externalVars, crashes>>

(***************************************************************************)
(* Time: a retry falls due, an attempt passes the stale cutoff.            *)
(***************************************************************************)
RetryFallsDue(t) ==
    /\ transfer[t].status = "RETRYING"
    /\ ~transfer[t].due
    /\ transfer' = [transfer EXCEPT ![t].due = TRUE]
    /\ UNCHANGED <<payout, current, payStatus, attemptLog, txns, debt, settled,
                   externalVars, session, crashes>>

AttemptGoesStale(t) ==
    /\ transfer[t].status = "PROCESSING"
    /\ ~transfer[t].stale
    /\ CallsOutlast \/ \A p \in Session : ~InCall(p, t)
    /\ transfer' = [transfer EXCEPT ![t].stale = TRUE]
    /\ UNCHANGED <<payout, current, payStatus, attemptLog, txns, debt, settled,
                   externalVars, session, crashes>>

WorkerStep(p) ==
    \/ NoPaymentAccount(p) \/ GatewayPays(p) \/ GatewayRejects(p) \/ GatewayUnreachable(p)
    \/ Mark(p) \/ LoadPayout(p) \/ MarkPayout(p) \/ MarkTask(p)
    \/ RecordAttempt(p) \/ Reenqueue(p)
=============================================================================
