---------------------------- MODULE PayoutProofs ----------------------------
(***************************************************************************)
(* The safety theorems of PayoutSystem.  Each invariant is proved from     *)
(* TypeInv and from RowsInv, which says where a handler's program can be.  *)
(***************************************************************************)
EXTENDS PayoutTypes, FiniteSetTheorems

-----------------------------------------------------------------------------
(***************************************************************************)
(* Control flow: which role executes which step, and what it knows there.  *)
(***************************************************************************)
ChargeHook == {"charge.success", "charge.failed"}

RowOK(w) ==
    /\ w.pc = "called" => w.role = "worker"
    /\ w.pc = "next" => w.role = "reconciler"
    /\ w.pc \in {"answer", "load"} => w.role \in {"worker", "reconciler"}
    /\ w.pc \in {"payout", "task"} => w.role \in {"worker", "reconciler"} \cup TransferHook
    /\ w.pc \in {"lock", "mark", "record"} => w.role \in TransferHook
    /\ w.pc \in {"charge_lock", "charge_tx"} => w.role \in ChargeHook
    /\ w.ans = "temporary_error" => w.role = "worker"
    /\ w.role = "transfer.success" => w.ans = "success"

RowsInv == \A p \in Session : RowOK(session[p])

LEMMA RowBecomes ==
    ASSUME TypeInv, RowsInv, NEW p \in Session, NEW w, RowOK(w), Become(p, w)
    PROVE  RowsInv'
BY DEF TypeInv, RowsInv, Become

LEMMA WorkerRows ==
    ASSUME TypeInv, RowsInv, NEW p \in Session, WorkerStep(p)
    PROVE  RowsInv'
<1> session[p] \in SessionRow /\ RowOK(session[p])
    BY DEF TypeInv, TypeOK, RowsInv
<1>1. CASE NoPaymentAccount(p)
    BY <1>1, RowBecomes DEF NoPaymentAccount, At, RowOK, SessionRow
<1>2. CASE GatewayPays(p)
    BY <1>2, RowBecomes DEF GatewayPays, Answered, At, RowOK, SessionRow
<1>3. CASE GatewayRejects(p)
    BY <1>3, RowBecomes DEF GatewayRejects, Answered, At, RowOK, SessionRow
<1>4. CASE GatewayUnreachable(p)
    BY <1>4, RowBecomes DEF GatewayUnreachable, Answered, At, RowOK, SessionRow
<1>5. CASE Mark(p)
    BY <1>5, RowBecomes DEF Mark, Goto, At, RowOK, SessionRow
<1>6. CASE LoadPayout(p)
    BY <1>6, RowBecomes DEF LoadPayout, At, RowOK, SessionRow
<1>7. CASE MarkPayout(p)
    BY <1>7, RowBecomes DEF MarkPayout, At, RowOK, SessionRow
<1>8. CASE MarkTask(p)
    BY <1>8, RowBecomes DEF MarkTask, AfterMark, Idle, At, RowOK, SessionRow
<1>9. CASE RecordAttempt(p)
    BY <1>9, RowBecomes DEF RecordAttempt, AttemptOf, Finish, Goto, Idle, At, RowOK, SessionRow
<1>10. CASE Reenqueue(p)
    BY <1>10, RowBecomes DEF Reenqueue, Finish, Idle, At, RowOK, SessionRow
<1> QED
    BY <1>1, <1>2, <1>3, <1>4, <1>5, <1>6, <1>7, <1>8, <1>9, <1>10 DEF WorkerStep

LEMMA TransferHookRows ==
    ASSUME TypeInv, RowsInv, NEW p \in Session, TransferHookStep(p)
    PROVE  RowsInv'
<1> session[p] \in SessionRow /\ RowOK(session[p])
    BY DEF TypeInv, TypeOK, RowsInv
<1>1. CASE SkipLockLost(p)
    BY <1>1, RowBecomes DEF SkipLockLost, Finish, Idle, At, RowOK, SessionRow
<1>2. CASE SkipAlreadyRecorded(p)
    BY <1>2, RowBecomes DEF SkipAlreadyRecorded, WinsLock, Finish, Idle, At, RowOK, SessionRow
<1>3. CASE TakeLock(p)
    BY <1>3, RowBecomes DEF TakeLock, WinsLock, At, RowOK, SessionRow
<1>4. CASE HookMarks(p)
    BY <1>4, RowBecomes DEF HookMarks, Goto, At, RowOK, SessionRow
<1>5. CASE HookRaises(p)
    BY <1>5, RowBecomes DEF HookRaises, Finish, Idle, At, RowOK, SessionRow
<1>6. CASE HookFallback(p)
    BY <1>6, RowBecomes DEF HookFallback, Goto, At, RowOK, SessionRow
<1>7. CASE HookFallbackPaid(p)
    BY <1>7, RowBecomes DEF HookFallbackPaid, Finish, Idle, At, RowOK, SessionRow
<1>8. CASE RecordTransaction(p)
    BY <1>8, RowBecomes DEF RecordTransaction, Finish, Idle, At, RowOK, SessionRow
<1> QED
    BY <1>1, <1>2, <1>3, <1>4, <1>5, <1>6, <1>7, <1>8 DEF TransferHookStep

LEMMA ChargeHookRows ==
    ASSUME TypeInv, RowsInv, NEW p \in Session, ChargeHookStep(p)
    PROVE  RowsInv'
<1> session[p] \in SessionRow /\ RowOK(session[p])
    BY DEF TypeInv, TypeOK, RowsInv
<1>1. CASE IgnoreShortCharge(p)
    BY <1>1, RowBecomes DEF IgnoreShortCharge, WinsLock, Finish, Idle, At, RowOK, SessionRow
<1>2. CASE TakeChargeLock(p)
    BY <1>2, RowBecomes DEF TakeChargeLock, WinsLock, Goto, At, RowOK, SessionRow
<1>3. CASE RecordCharge(p)
    BY <1>3, RowBecomes DEF RecordCharge, AfterCharge, At, RowOK, SessionRow
<1>4. CASE MarkCustomerPaid(p)
    BY <1>4, RowBecomes DEF MarkCustomerPaid, At, RowOK, SessionRow
<1>5. CASE AlreadyPaid(p)
    BY <1>5, RowBecomes DEF AlreadyPaid, Goto, At, RowOK, SessionRow
<1>6. CASE UpdatePayoutPaid(p)
    BY <1>6, RowBecomes DEF UpdatePayoutPaid, At, RowOK, SessionRow
<1>7. CASE NotifyPayer(p)
    BY <1>7, RowBecomes DEF NotifyPayer, Finish, Idle, At, RowOK, SessionRow
<1> QED
    BY <1>1, <1>2, <1>3, <1>4, <1>5, <1>6, <1>7 DEF ChargeHookStep

LEMMA PayoutRows ==
    ASSUME TypeInv, RowsInv, NEW p \in Session, PayoutStep(p)
    PROVE  RowsInv'
<1> session[p] \in SessionRow /\ RowOK(session[p])
    BY DEF TypeInv, TypeOK, RowsInv
<1>1. CASE ReadDebt(p)
    BY <1>1, RowBecomes, ZenonT(60) DEF ReadDebt, At, RowOK, SessionRow
<1>2. CASE OffsetDebt(p)
    BY <1>2, RowBecomes DEF OffsetDebt, OffsetEntry, At, RowOK, SessionRow
<1>3. CASE RecordOffset(p)
    BY <1>3, RowBecomes DEF RecordOffset, Goto, At, RowOK, SessionRow
<1>4. CASE FindTransfer(p)
    BY <1>4, RowBecomes DEF FindTransfer, Goto, At, RowOK, SessionRow
<1>5. CASE InsertTransfer(p)
    BY <1>5, RowBecomes DEF InsertTransfer, At, RowOK, SessionRow
<1>6. CASE InsertRaises(p)
    BY <1>6, RowBecomes DEF InsertRaises, Finish, Idle, At, RowOK, SessionRow
<1>7. CASE EnqueueTransfer(p)
    BY <1>7, RowBecomes DEF EnqueueTransfer, Goto, At, RowOK, SessionRow
<1>8. CASE MarkInitiated(p)
    BY <1>8, RowBecomes DEF MarkInitiated, At, RowOK, SessionRow
<1>9. CASE MarkTaskInitiated(p)
    BY <1>9, RowBecomes DEF MarkTaskInitiated, Finish, Goto, Idle, At, RowOK, SessionRow
<1> QED
    BY <1>1, <1>2, <1>3, <1>4, <1>5, <1>6, <1>7, <1>8, <1>9 DEF PayoutStep

LEMMA RowsNext == TypeInv /\ RowsInv /\ [Next]_vars => RowsInv'
<1> SUFFICES ASSUME TypeInv, RowsInv, [Next]_vars
             PROVE  RowsInv'
    OBVIOUS
<1>1. ASSUME NEW p \in Session, NEW t \in Task, ReconcileUnreachable(p, t)
      PROVE  RowsInv'
    BY <1>1, RowBecomes, SMTT(30)
       DEF ReconcileUnreachable, Finish, Idle, At, RowOK, RowsInv, SessionRow, TypeInv, TypeOK
<1>2. ASSUME NEW p \in Session, NEW t \in Task, NEW a \in Answer, ReconcileLookup(p, t, a)
      PROVE  RowsInv'
  <2> DEFINE w == [session[p] EXCEPT !.pc = "answer", !.task = t, !.ans = a, !.todo = @ \ {t}]
  <2>1. session[p] \in SessionRow /\ session[p].role = "reconciler"
    BY <1>2 DEF ReconcileLookup, At, RowOK, RowsInv, TypeInv, TypeOK
  <2>2. w.pc = "answer" /\ w.role = "reconciler" /\ w.ans = a
    BY <2>1 DEF SessionRow
  <2> QED
    BY <1>2, <2>2, RowBecomes DEF ReconcileLookup, RowOK
<1>3. ASSUME NEW p \in Session, HandlerStep(p)
      PROVE  RowsInv'
    BY <1>1, <1>2, <1>3, WorkerRows, TransferHookRows, ChargeHookRows, PayoutRows DEF HandlerStep
<1>4. ASSUME NEW p \in Session, StartReconcile(p)
      PROVE  RowsInv'
    BY <1>4, RowBecomes DEF StartReconcile, Idle, RowOK
<1>5. ASSUME NEW p \in Session, NEW t \in Task, ProcessTransfer(p, t)
      PROVE  RowsInv'
    BY <1>5, RowBecomes DEF ProcessTransfer, Processable, Idle, RowOK
<1>6. ASSUME NEW p \in Session, NEW t \in Task, StartPayout(p, t)
      PROVE  RowsInv'
    BY <1>6, RowBecomes DEF StartPayout, Idle, RowOK
<1>7. ASSUME NEW p \in Session, NEW e \in hooks, ReceiveTransferHook(p, e)
      PROVE  RowsInv'
    BY <1>7, RowBecomes DEF ReceiveTransferHook, Idle, RowOK, HookAnswer, TransferHook
<1>8. ASSUME NEW p \in Session, NEW e \in hooks, ReceiveChargeHook(p, e)
      PROVE  RowsInv'
    BY <1>8, RowBecomes DEF ReceiveChargeHook, Idle, RowOK, ChargeHook
<1>9. ASSUME NEW p \in Session, Crash(p)
      PROVE  RowsInv'
    BY <1>9, RowBecomes DEF Crash, Finish, Idle, RowOK
<1>10. ASSUME NEW t \in Task, Background(t) \/ Customer(t)
       PROVE  RowsInv'
    BY <1>10 DEF Background, Customer, SkipTransfer, Processable, RecoverStuckTransfer, Recoverable, RetryFallsDue,
                 AttemptGoesStale, CustomerPays, CustomerCardFails, RowsInv
<1> QED
    BY <1>3, <1>4, <1>5, <1>6, <1>7, <1>8, <1>9, <1>10 DEF Next, HandlerStart, vars, RowsInv

LEMMA Control == Spec => []RowsInv
<1>1. Init => RowsInv
    BY DEF Init, RowsInv, RowOK, Idle
<1> QED
    BY <1>1, RowsNext, Typing, PTL DEF Spec

-----------------------------------------------------------------------------
(***************************************************************************)
(* Single flight and bounded attempts.  While a worker is at the gateway   *)
(* its transfer is PROCESSING, or has been resolved by someone else: never *)
(* in a state another worker would start from.  So the attempt_count it    *)
(* loaded is still the row's.                                              *)
(***************************************************************************)
FlightInv ==
    /\ SingleFlight
    /\ AttemptsBounded
    /\ \A p \in Session, t \in Task : InCall(p, t) =>
           /\ transfer[t].status \in {"PROCESSING", "COMPLETED", "FAILED"}
           /\ session[p].n = transfer[t].attempts
    /\ \A t \in Task : transfer[t].status \in {"PENDING", "RETRYING"} =>
           transfer[t].attempts < MaxAttempts

\* A handler that is not a worker at the gateway afterwards disturbs nothing.
LEMMA FlightAway ==
    ASSUME TypeInv, FlightInv, NEW p \in Session, NEW w, Become(p, w), transfer' = transfer,
           w.pc \in {"called", "answer"} => w.role # "worker"
    PROVE  FlightInv'
BY DEF TypeInv, FlightInv, SingleFlight, AttemptsBounded, InCall, At, Become

\* Nor does a worker that stays there.
LEMMA FlightStays ==
    ASSUME TypeInv, FlightInv, NEW p \in Session, NEW w, Become(p, w), transfer' = transfer,
           w.task = session[p].task, w.n = session[p].n, w.role = session[p].role,
           session[p].role = "worker", At(p, "called")
    PROVE  FlightInv'
BY DEF TypeInv, FlightInv, SingleFlight, AttemptsBounded, InCall, At, Become

\* The end of an attempt, or of a reconciliation.
LEMMA FlightMarks ==
    ASSUME TypeInv, RowsInv, FlightInv, NEW p \in Session, Mark(p)
    PROVE  FlightInv'
<1> DEFINE l == IF Outcome(session[p]) = "RETRYING" THEN "log" ELSE "load"
<1>1. PICK t \in Task : session[p].task = t
    BY Busy DEF Mark, At
<1>0. session[p] \in SessionRow /\ RowOK(session[p])
    BY DEF RowsInv, TypeInv, TypeOK
<1>2. Become(p, [session[p] EXCEPT !.pc = l])
    BY DEF Mark, Goto
<1>3. \A q \in Session : session'[q] = IF q = p THEN [session[p] EXCEPT !.pc = l] ELSE session[q]
    BY <1>2 DEF Become, TypeInv
<1>4. \A q \in Session, u \in Task : ~InCall(p, u)' /\ (InCall(q, u)' => q # p /\ InCall(q, u))
    BY <1>0, <1>1, <1>3 DEF InCall, At, SessionRow
<1>5. /\ \A u \in Task \ {t} : transfer'[u] = transfer[u]
      /\ transfer'[t].status = Outcome(session[p])
      /\ transfer'[t].attempts = transfer[t].attempts
    BY <1>0, <1>1 DEF Mark, JobOf, Transition, TypeInv, TypeOK, TransferRow
<1>6. CASE Outcome(session[p]) = "RETRYING"
  <2>1. InCall(p, t) /\ session[p].n < MaxAttempts
    BY <1>0, <1>1, <1>6 DEF Outcome, RowOK, InCall, Mark, At
  <2>2. \A q \in Session : ~InCall(q, t)'
    BY <1>0, <1>1, <1>4, <2>1 DEF FlightInv, SingleFlight
  <2> QED
    BY <1>0, <1>1, <1>3, <1>4, <1>5, <2>1, <2>2 DEF FlightInv, SingleFlight, AttemptsBounded
<1>7. CASE Outcome(session[p]) # "RETRYING"
  <2>1. Outcome(session[p]) \in {"COMPLETED", "FAILED"}
    BY <1>7 DEF Outcome
  <2>2. \A q \in Session, u \in Task : InCall(q, u)' => session'[q].n = session[q].n
    BY <1>3, <1>4
  <2> QED
    BY <1>0, <1>1, <1>4, <1>5, <2>1, <2>2 DEF FlightInv, SingleFlight, AttemptsBounded
<1> QED
    BY <1>6, <1>7

LEMMA FlightHookMarks ==
    ASSUME TypeInv, RowsInv, FlightInv, NEW p \in Session, HookMarks(p)
    PROVE  FlightInv'
<1> DEFINE t == session[p].task
<1>1. session[p] \in SessionRow /\ t \in Task /\ RowOK(session[p])
    BY Busy DEF HookMarks, At, ActiveRow, RowsInv
<1>2. \A q \in Session : session'[q] = IF q = p THEN [session[p] EXCEPT !.pc = "payout"] ELSE session[q]
    BY DEF HookMarks, Goto, Become, TypeInv
<1>3. \A q \in Session, u \in Task : InCall(q, u)' => InCall(q, u) /\ session'[q].n = session[q].n
    BY <1>1, <1>2 DEF InCall, At, SessionRow
<1>4. Outcome(session[p]) \in {"COMPLETED", "FAILED"}
    BY <1>1 DEF Outcome, RowOK, HookMarks, At, TransferHook
<1>5. /\ \A u \in Task \ {t} : transfer'[u] = transfer[u]
      /\ transfer'[t].status = Outcome(session[p])
      /\ transfer'[t].attempts = transfer[t].attempts
    BY <1>1 DEF HookMarks, JobOf, Transition, TypeInv, TypeOK, TransferRow
<1> QED
    BY <1>1, <1>3, <1>4, <1>5 DEF FlightInv, SingleFlight, AttemptsBounded

LEMMA FlightInsertTransfer ==
    ASSUME TypeInv, RowsInv, FlightInv, NEW p \in Session, InsertTransfer(p)
    PROVE  FlightInv'
<1> DEFINE t == session[p].task
<1>1. session[p] \in SessionRow /\ t \in Task
    BY Busy DEF InsertTransfer, At, ActiveRow
<1>2. \A q \in Session : session'[q] = IF q = p THEN [session[p] EXCEPT !.pc = "send",
       !.pend = FALSE]
                                       ELSE session[q]
    BY DEF InsertTransfer, Become, TypeInv
<1>3. \A q \in Session, u \in Task : InCall(q, u)' => InCall(q, u) /\ session'[q].n = session[q].n
    BY <1>1, <1>2 DEF InCall, At, SessionRow
<1>4. \A q \in Session : ~InCall(q, t)
    BY <1>1 DEF FlightInv, InsertTransfer, JobOf
<1>5. /\ \A u \in Task \ {t} : transfer'[u] = transfer[u]
      /\ transfer'[t].status = "PENDING"
      /\ transfer'[t].attempts = 0
    BY <1>1 DEF InsertTransfer, JobOf, NewTransfer, NoTransfer, TypeInv, TypeOK
<1> QED
    BY <1>1, <1>3, <1>4, <1>5, ConstantsAssumption DEF FlightInv, SingleFlight, AttemptsBounded

LEMMA FlightProcessTransfer ==
    ASSUME TypeInv, FlightInv, NEW p \in Session, NEW t \in Task, ProcessTransfer(p, t)
    PROVE  FlightInv'
<1> DEFINE w == [Idle EXCEPT !.pc = "called", !.role = "worker", !.task = t,
                             !.n = transfer[t].attempts + 1]
<1>1. w.pc = "called" /\ w.role = "worker" /\ w.task = t /\ w.n = transfer[t].attempts + 1
    BY DEF Idle
<1>2. \A q \in Session : session'[q] = IF q = p THEN w ELSE session[q]
    BY DEF ProcessTransfer, Processable, Become, TypeInv
<1> HIDE DEF w
<1>3. \A q \in Session, u \in Task :
          InCall(q, u)' => \/ q = p /\ u = t
                           \/ InCall(q, u) /\ session'[q].n = session[q].n
    BY <1>1, <1>2 DEF InCall, At
<1>4. \A q \in Session : ~InCall(q, t)
    BY DEF FlightInv, ProcessTransfer, Processable
<1>5. transfer[t] \in TransferRow
    BY DEF TypeInv, TypeOK
<1>6. /\ \A u \in Task \ {t} : transfer'[u] = transfer[u]
      /\ transfer'[t].status = "PROCESSING"
      /\ transfer'[t].attempts = transfer[t].attempts + 1
    BY <1>5 DEF ProcessTransfer, Processable, TypeInv, TypeOK, TransferRow
<1>7. transfer[t].attempts < MaxAttempts /\ transfer[t].attempts \in Nat /\ MaxAttempts \in Nat
    BY <1>5, ConstantsAssumption DEF FlightInv, ProcessTransfer, Processable, TransferRow
<1>8. SingleFlight'
    BY <1>3, <1>4 DEF FlightInv, SingleFlight
<1>9. AttemptsBounded'
    BY <1>6, <1>7 DEF FlightInv, AttemptsBounded
<1>10. \A q \in Session, u \in Task : InCall(q, u)' =>
           /\ transfer'[u].status \in {"PROCESSING", "COMPLETED", "FAILED"}
           /\ session'[q].n = transfer'[u].attempts
  <2> SUFFICES ASSUME NEW q \in Session, NEW u \in Task, InCall(q, u)'
               PROVE  /\ transfer'[u].status \in {"PROCESSING", "COMPLETED", "FAILED"}
                      /\ session'[q].n = transfer'[u].attempts
    OBVIOUS
  <2>1. CASE u = t
    BY <1>1, <1>2, <1>3, <1>4, <1>6, <2>1
  <2>2. CASE u # t
    BY <1>3, <1>6, <2>2 DEF FlightInv
  <2> QED
    BY <2>1, <2>2
<1>11. \A u \in Task : transfer'[u].status \in {"PENDING", "RETRYING"} =>
           transfer'[u].attempts < MaxAttempts
    BY <1>6 DEF FlightInv
<1> QED
    BY <1>8, <1>9, <1>10, <1>11 DEF FlightInv

LEMMA WorkerFlight ==
    ASSUME TypeInv, RowsInv, FlightInv, NEW p \in Session, WorkerStep(p)
    PROVE  FlightInv'
<1> session[p] \in SessionRow /\ RowOK(session[p])
    BY DEF TypeInv, TypeOK, RowsInv
<1>1. CASE NoPaymentAccount(p)
    BY <1>1, FlightStays DEF NoPaymentAccount, At, RowOK, SessionRow, rowVars
<1>2. CASE GatewayPays(p)
    BY <1>2, FlightStays DEF GatewayPays, Answered, At, RowOK, SessionRow, rowVars
<1>3. CASE GatewayRejects(p)
    BY <1>3, FlightStays DEF GatewayRejects, Answered, At, RowOK, SessionRow, rowVars
<1>4. CASE GatewayUnreachable(p)
    BY <1>4, FlightStays DEF GatewayUnreachable, Answered, At, RowOK, SessionRow, rowVars
<1>5. CASE Mark(p)
    BY <1>5, FlightMarks
<1>6. CASE LoadPayout(p)
    BY <1>6, FlightAway DEF LoadPayout, At, RowOK, SessionRow, rowVars
<1>7. CASE MarkPayout(p)
    BY <1>7, FlightAway DEF MarkPayout, At, RowOK, SessionRow, rowVars
<1>8. CASE MarkTask(p)
    BY <1>8, FlightAway DEF MarkTask, AfterMark, Idle, At, RowOK, SessionRow, rowVars
<1>9. CASE RecordAttempt(p)
    BY <1>9, FlightAway DEF RecordAttempt, AttemptOf, Finish, Goto, Idle, At, RowOK, SessionRow, rowVars
<1>10. CASE Reenqueue(p)
    BY <1>10, FlightAway DEF Reenqueue, Finish, Idle, At, RowOK, SessionRow, rowVars
<1> QED
    BY <1>1, <1>2, <1>3, <1>4, <1>5, <1>6, <1>7, <1>8, <1>9, <1>10 DEF WorkerStep

LEMMA TransferHookFlight ==
    ASSUME TypeInv, RowsInv, FlightInv, NEW p \in Session, TransferHookStep(p)
    PROVE  FlightInv'
<1> session[p] \in SessionRow /\ RowOK(session[p])
    BY DEF TypeInv, TypeOK, RowsInv
<1>1. CASE SkipLockLost(p)
    BY <1>1, FlightAway DEF SkipLockLost, Finish, Idle, At, RowOK, SessionRow, rowVars
<1>2. CASE SkipAlreadyRecorded(p)
    BY <1>2, FlightAway DEF SkipAlreadyRecorded, WinsLock, Finish, Idle, At, RowOK, SessionRow, rowVars
<1>3. CASE TakeLock(p)
    BY <1>3, FlightAway DEF TakeLock, WinsLock, At, RowOK, SessionRow, rowVars
<1>4. CASE HookMarks(p)
    BY <1>4, FlightHookMarks
<1>5. CASE HookRaises(p)
    BY <1>5, FlightAway DEF HookRaises, Finish, Idle, At, RowOK, SessionRow, rowVars
<1>6. CASE HookFallback(p)
    BY <1>6, FlightAway DEF HookFallback, Goto, At, RowOK, SessionRow, rowVars
<1>7. CASE HookFallbackPaid(p)
    BY <1>7, FlightAway DEF HookFallbackPaid, Finish, Idle, At, RowOK, SessionRow, rowVars
<1>8. CASE RecordTransaction(p)
    BY <1>8, FlightAway DEF RecordTransaction, Finish, Idle, At, RowOK, SessionRow, rowVars
<1> QED
    BY <1>1, <1>2, <1>3, <1>4, <1>5, <1>6, <1>7, <1>8 DEF TransferHookStep

LEMMA ChargeHookFlight ==
    ASSUME TypeInv, RowsInv, FlightInv, NEW p \in Session, ChargeHookStep(p)
    PROVE  FlightInv'
<1> session[p] \in SessionRow /\ RowOK(session[p])
    BY DEF TypeInv, TypeOK, RowsInv
<1>1. CASE IgnoreShortCharge(p)
    BY <1>1, FlightAway DEF IgnoreShortCharge, WinsLock, Finish, Idle, At, RowOK, SessionRow, rowVars
<1>2. CASE TakeChargeLock(p)
    BY <1>2, FlightAway DEF TakeChargeLock, WinsLock, Goto, At, RowOK, SessionRow, rowVars
<1>3. CASE RecordCharge(p)
    BY <1>3, FlightAway DEF RecordCharge, AfterCharge, At, RowOK, SessionRow, rowVars
<1>4. CASE MarkCustomerPaid(p)
    BY <1>4, FlightAway DEF MarkCustomerPaid, At, RowOK, SessionRow, rowVars
<1>5. CASE AlreadyPaid(p)
    BY <1>5, FlightAway DEF AlreadyPaid, Goto, At, RowOK, SessionRow, rowVars
<1>6. CASE UpdatePayoutPaid(p)
    BY <1>6, FlightAway DEF UpdatePayoutPaid, At, RowOK, SessionRow, rowVars
<1>7. CASE NotifyPayer(p)
    BY <1>7, FlightAway DEF NotifyPayer, Finish, Idle, At, RowOK, SessionRow, rowVars
<1> QED
    BY <1>1, <1>2, <1>3, <1>4, <1>5, <1>6, <1>7 DEF ChargeHookStep

LEMMA PayoutFlight ==
    ASSUME TypeInv, RowsInv, FlightInv, NEW p \in Session, PayoutStep(p)
    PROVE  FlightInv'
<1> session[p] \in SessionRow /\ RowOK(session[p])
    BY DEF TypeInv, TypeOK, RowsInv
<1>1. CASE ReadDebt(p)
    BY <1>1, FlightAway DEF ReadDebt, At, RowOK, SessionRow, rowVars
<1>2. CASE OffsetDebt(p)
    BY <1>2, FlightAway DEF OffsetDebt, OffsetEntry, At, RowOK, SessionRow, rowVars
<1>3. CASE RecordOffset(p)
    BY <1>3, FlightAway DEF RecordOffset, Goto, At, RowOK, SessionRow, rowVars
<1>4. CASE FindTransfer(p)
    BY <1>4, FlightAway DEF FindTransfer, Goto, At, RowOK, SessionRow, rowVars
<1>5. CASE InsertTransfer(p)
    BY <1>5, FlightInsertTransfer
<1>6. CASE InsertRaises(p)
    BY <1>6, FlightAway DEF InsertRaises, Finish, Idle, At, RowOK, SessionRow, rowVars
<1>7. CASE EnqueueTransfer(p)
    BY <1>7, FlightAway DEF EnqueueTransfer, Goto, At, RowOK, SessionRow, rowVars
<1>8. CASE MarkInitiated(p)
    BY <1>8, FlightAway DEF MarkInitiated, At, RowOK, SessionRow, rowVars
<1>9. CASE MarkTaskInitiated(p)
    BY <1>9, FlightAway DEF MarkTaskInitiated, Finish, Goto, Idle, At, RowOK, SessionRow, rowVars
<1> QED
    BY <1>1, <1>2, <1>3, <1>4, <1>5, <1>6, <1>7, <1>8, <1>9 DEF PayoutStep

LEMMA FlightNext == TypeInv /\ RowsInv /\ FlightInv /\ [Next]_vars => FlightInv'
<1> SUFFICES ASSUME TypeInv, RowsInv, FlightInv, [Next]_vars
             PROVE  FlightInv'
    OBVIOUS
<1>1. ASSUME NEW p \in Session, NEW t \in Task, ReconcileUnreachable(p, t)
      PROVE  FlightInv'
    BY <1>1, FlightAway
       DEF ReconcileUnreachable, Finish, Idle, At, rowVars, SessionRow, TypeInv, TypeOK
<1>2. ASSUME NEW p \in Session, NEW t \in Task, NEW a \in Answer, ReconcileLookup(p, t, a)
      PROVE  FlightInv'
    BY <1>2, FlightAway, ZenonT(60)
       DEF ReconcileLookup, At, RowOK, RowsInv, rowVars, SessionRow, TypeInv, TypeOK
<1>3. ASSUME NEW p \in Session, HandlerStep(p)
      PROVE  FlightInv'
    BY <1>1, <1>2, <1>3, WorkerFlight, TransferHookFlight, ChargeHookFlight, PayoutFlight
       DEF HandlerStep
<1>4. ASSUME NEW p \in Session, StartReconcile(p)
      PROVE  FlightInv'
    BY <1>4, FlightAway DEF StartReconcile, Idle, rowVars
<1>5. ASSUME NEW p \in Session, NEW t \in Task, StartPayout(p, t)
      PROVE  FlightInv'
    BY <1>5, FlightAway DEF StartPayout, Idle, rowVars
<1>6. ASSUME NEW p \in Session, NEW e \in hooks, ReceiveTransferHook(p,
       e) \/ ReceiveChargeHook(p, e)
      PROVE  FlightInv'
    BY <1>6, FlightAway DEF ReceiveTransferHook, ReceiveChargeHook, Idle
<1>7. ASSUME NEW p \in Session, Crash(p)
      PROVE  FlightInv'
    BY <1>7, FlightAway DEF Crash, Finish, Idle
<1>8. ASSUME NEW t \in Task, RetryFallsDue(t) \/ AttemptGoesStale(t)
      PROVE  FlightInv'
  <2>1. transfer \in [Task -> TransferRow] /\ session' = session
    BY <1>8 DEF RetryFallsDue, AttemptGoesStale, TypeInv, TypeOK
  <2>2. \/ transfer' = [transfer EXCEPT ![t].due = TRUE]
        \/ transfer' = [transfer EXCEPT ![t].stale = TRUE]
    BY <1>8 DEF RetryFallsDue, AttemptGoesStale
  <2>3. \A u \in Task : /\ transfer'[u].status = transfer[u].status
                        /\ transfer'[u].attempts = transfer[u].attempts
    BY <2>1, <2>2 DEF TransferRow
  <2> QED
    BY <2>1, <2>3 DEF FlightInv, SingleFlight, AttemptsBounded, InCall, At
<1>9. CASE UNCHANGED <<transfer, session>>
    BY <1>9 DEF FlightInv, SingleFlight, AttemptsBounded, InCall, At
<1>10. ASSUME NEW t \in Task, Background(t) \/ Customer(t)
       PROVE  FlightInv'
    BY <1>8, <1>9, <1>10 DEF Background, Customer, SkipTransfer, Processable, RecoverStuckTransfer, Recoverable,
                             CustomerPays, CustomerCardFails, rowVars
<1> QED
    BY <1>3, <1>4, <1>5, <1>6, <1>7, <1>9, <1>10, FlightProcessTransfer DEF Next, HandlerStart,
       vars

LEMMA Flight == Spec => []FlightInv
<1>1. Init => FlightInv
    BY ConstantsAssumption
       DEF Init, FlightInv, SingleFlight, AttemptsBounded, InCall, At, Idle, NoTransfer
<1> QED
    BY <1>1, FlightNext, Typing, Control, PTL DEF Spec

\* A transfer never has two attempts at the gateway at once, for any number
\* of workers, repeated messages, scans, webhooks and crashes.
THEOREM OneAttemptAtATime == Spec => []SingleFlight
BY Flight, PTL DEF FlightInv

\* No transfer is attempted more than max_attempts times.
THEOREM AttemptsStayBounded == Spec => []AttemptsBounded
BY Flight, PTL DEF FlightInv

-----------------------------------------------------------------------------
(***************************************************************************)
(* No phantom payment.  Whoever knows of a success, a handler or a webhook *)
(* on its way, knows it from the gateway; nothing else makes a row say so. *)
(***************************************************************************)
Success(t) == [kind |-> "transfer.success", task |-> t, ref |-> NoRef]

PhantomInv ==
    /\ NoPhantomPayment
    /\ \A e \in hooks : e.kind = "transfer.success" => paid[e.task]
    /\ \A p \in Session : session[p].ans = "success" =>
           session[p].task \in Task /\ paid[session[p].task]

LEMMA PhantomStep ==
    ASSUME TypeInv, PhantomInv, NEW p \in Session, NEW w, Become(p, w), paid' = paid,
           \A e \in hooks' : e.kind = "transfer.success" => e \in hooks,
           w.ans = "success" => w.task \in Task /\ paid[w.task],
           \A t \in Task :
               \/ paid[t]
               \/ /\ transfer'[t].status = "COMPLETED" => transfer[t].status = "COMPLETED"
                  /\ payout'[t] = "COMPLETED" => payout[t] = "COMPLETED"
                  /\ payStatus'[t] = "PAID" => payStatus[t] = "PAID"
                  /\ txns'[Success(t)] = txns[Success(t)]
    PROVE  PhantomInv'
<1>1. NoPhantomPayment'
    BY DEF PhantomInv, NoPhantomPayment, Success
<1>2. \A q \in Session : session'[q] = IF q = p THEN w ELSE session[q]
    BY DEF Become, TypeInv
<1> QED
    BY <1>1, <1>2 DEF PhantomInv

\* The gateway pays: the only step that makes money move.
LEMMA PhantomPays ==
    ASSUME TypeInv, RowsInv, PhantomInv, NEW p \in Session, GatewayPays(p)
    PROVE  PhantomInv'
<1>1. PICK t \in Task : session[p].task = t
    BY Busy DEF GatewayPays, At
<1>2. session[p] \in SessionRow
    BY DEF TypeInv, TypeOK
<1>3. /\ \A u \in Task : paid[u] => paid'[u]
      /\ paid'[t]
    BY <1>1 DEF GatewayPays, JobOf, TypeInv, TypeOK
<1>4. PICK a \in Answer : Become(p, [session[p] EXCEPT !.pc = "answer", !.ans = a])
    BY Statuses DEF GatewayPays, Answered
<1>5. /\ session'[p].task = t
      /\ \A q \in Session \ {p} : session'[q] = session[q]
    BY <1>1, <1>2, <1>4 DEF Become, TypeInv, SessionRow
<1>6. \A q \in Session : session'[q].ans = "success" =>
          session'[q].task \in Task /\ paid'[session'[q].task]
    BY <1>3, <1>5 DEF PhantomInv
<1>7. \A e \in hooks' : e.kind = "transfer.success" => paid'[e.task]
  <2>1. \A e \in hooks : e.task \in Task
    BY DEF TypeInv, TypeOK, Event
  <2> QED
    BY <1>1, <1>3, <2>1 DEF GatewayPays, JobOf, PhantomInv
<1>8. NoPhantomPayment'
    BY <1>3 DEF GatewayPays, rowVars, PhantomInv, NoPhantomPayment
<1> QED
    BY <1>6, <1>7, <1>8 DEF PhantomInv

LEMMA WorkerPhantom ==
    ASSUME TypeInv, RowsInv, PhantomInv, NEW p \in Session, WorkerStep(p)
    PROVE  PhantomInv'
<1>a. session[p] \in SessionRow /\ RowOK(session[p])
    BY DEF RowsInv, TypeInv, TypeOK
<1>b. session[p].ans = "success" => session[p].task \in Task /\ paid[session[p].task]
    BY DEF PhantomInv
<1>c. \A t \in Task : \A s : Transition(transfer[t], s).status = s
    BY DEF Transition, TypeInv, TypeOK, TransferRow
<1>1. CASE NoPaymentAccount(p)
    BY <1>1, <1>a, <1>b, PhantomStep DEF NoPaymentAccount, At, RowOK, SessionRow, rowVars,
       externalVars
<1>2. CASE GatewayPays(p)
    BY <1>2, PhantomPays
<1>3. CASE GatewayRejects(p)
  <2>1. PICK b \in {"permanent_error", "temporary_error"} :
            Become(p, [session[p] EXCEPT !.pc = "answer", !.ans = b])
    BY <1>3 DEF GatewayRejects, Answered
  <2>2. [session[p] EXCEPT !.pc = "answer", !.ans = b].ans # "success"
    BY <1>a, <2>1 DEF SessionRow
  <2>3. \A e \in hooks' : e.kind = "transfer.success" => e \in hooks
    BY <1>3 DEF GatewayRejects
  <2>4. UNCHANGED <<transfer, payout, payStatus, txns, paid>>
    BY <1>3 DEF GatewayRejects, rowVars
  <2> QED
    BY <2>1, <2>2, <2>3, <2>4, PhantomStep
<1>4. CASE GatewayUnreachable(p)
    BY <1>4, <1>a, <1>b, PhantomStep DEF GatewayUnreachable, Answered, At, RowOK, SessionRow,
       rowVars, externalVars
<1>5. CASE Mark(p)
  <2>1. \A t \in Task :
            \/ paid[t]
            \/ /\ transfer'[t].status = "COMPLETED" => transfer[t].status = "COMPLETED"
               /\ payout'[t] = "COMPLETED" => payout[t] = "COMPLETED"
               /\ payStatus'[t] = "PAID" => payStatus[t] = "PAID"
               /\ txns'[Success(t)] = txns[Success(t)]
    BY <1>5, <1>a, <1>b, <1>c DEF Mark, Outcome, At, JobOf, RowOK, TransferHook, ChargeHook,
       TypeInv, TypeOK
  <2> QED
    BY <1>5, <1>a, <1>b, <2>1, PhantomStep DEF Mark, Goto, At, RowOK, SessionRow, rowVars,
       externalVars
<1>6. CASE LoadPayout(p)
    BY <1>6, <1>a, <1>b, PhantomStep DEF LoadPayout, At, RowOK, SessionRow, rowVars, externalVars
<1>7. CASE MarkPayout(p)
  <2>1. \A t \in Task :
            \/ paid[t]
            \/ /\ transfer'[t].status = "COMPLETED" => transfer[t].status = "COMPLETED"
               /\ payout'[t] = "COMPLETED" => payout[t] = "COMPLETED"
               /\ payStatus'[t] = "PAID" => payStatus[t] = "PAID"
               /\ txns'[Success(t)] = txns[Success(t)]
    BY <1>7, <1>a, <1>b, <1>c DEF MarkPayout, Outcome, PayoutAfter, At, JobOf, RowOK,
       TransferHook, ChargeHook, TypeInv, TypeOK
  <2> QED
    BY <1>7, <1>a, <1>b, <2>1, PhantomStep DEF MarkPayout, At, RowOK, SessionRow, rowVars,
       externalVars
<1>8. CASE MarkTask(p)
  <2>1. \A t \in Task :
            \/ paid[t]
            \/ /\ transfer'[t].status = "COMPLETED" => transfer[t].status = "COMPLETED"
               /\ payout'[t] = "COMPLETED" => payout[t] = "COMPLETED"
               /\ payStatus'[t] = "PAID" => payStatus[t] = "PAID"
               /\ txns'[Success(t)] = txns[Success(t)]
    BY <1>8, <1>a, <1>b, <1>c DEF MarkTask, Outcome, TaskAfter, At, JobOf, RowOK, TransferHook,
       ChargeHook, TypeInv, TypeOK
  <2> QED
    BY <1>8, <1>a, <1>b, <2>1, PhantomStep, ZenonT(60) DEF MarkTask, AfterMark, Idle, At, RowOK, SessionRow,
       rowVars, externalVars
<1>9. CASE RecordAttempt(p)
    BY <1>9, <1>a, <1>b, PhantomStep DEF RecordAttempt, AttemptOf, Finish, Goto, Idle, At, RowOK,
       SessionRow, rowVars, externalVars
<1>10. CASE Reenqueue(p)
    BY <1>10, <1>a, <1>b, PhantomStep DEF Reenqueue, Finish, Idle, At, RowOK, SessionRow,
       rowVars, externalVars
<1> QED
    BY <1>1, <1>2, <1>3, <1>4, <1>5, <1>6, <1>7, <1>8, <1>9, <1>10 DEF WorkerStep

LEMMA TransferHookPhantom ==
    ASSUME TypeInv, RowsInv, PhantomInv, NEW p \in Session, TransferHookStep(p)
    PROVE  PhantomInv'
<1>a. session[p] \in SessionRow /\ RowOK(session[p])
    BY DEF RowsInv, TypeInv, TypeOK
<1>b. session[p].ans = "success" => session[p].task \in Task /\ paid[session[p].task]
    BY DEF PhantomInv
<1>c. \A t \in Task : \A s : Transition(transfer[t], s).status = s
    BY DEF Transition, TypeInv, TypeOK, TransferRow
<1>1. CASE SkipLockLost(p)
    BY <1>1, <1>a, <1>b, PhantomStep DEF SkipLockLost, Finish, Idle, At, RowOK, SessionRow,
       rowVars, externalVars, Acknowledge
<1>2. CASE SkipAlreadyRecorded(p)
    BY <1>2, <1>a, <1>b, PhantomStep DEF SkipAlreadyRecorded, WinsLock, Finish, Idle, At, RowOK,
       SessionRow, rowVars, externalVars, Acknowledge
<1>3. CASE TakeLock(p)
    BY <1>3, <1>a, <1>b, PhantomStep DEF TakeLock, WinsLock, At, RowOK, SessionRow, rowVars, externalVars
<1>4. CASE HookMarks(p)
  <2>1. \A t \in Task :
            \/ paid[t]
            \/ /\ transfer'[t].status = "COMPLETED" => transfer[t].status = "COMPLETED"
               /\ payout'[t] = "COMPLETED" => payout[t] = "COMPLETED"
               /\ payStatus'[t] = "PAID" => payStatus[t] = "PAID"
               /\ txns'[Success(t)] = txns[Success(t)]
    BY <1>4, <1>a, <1>b, <1>c DEF HookMarks, Outcome, At, JobOf, RowOK, TransferHook, ChargeHook,
       TypeInv, TypeOK
  <2> QED
    BY <1>4, <1>a, <1>b, <2>1, PhantomStep DEF HookMarks, Goto, At, RowOK, SessionRow, rowVars,
       externalVars
<1>5. CASE HookRaises(p)
    BY <1>5, <1>a, <1>b, PhantomStep DEF HookRaises, Finish, Idle, At, RowOK, SessionRow,
       rowVars, externalVars
<1>6. CASE HookFallback(p)
  <2>1. \A t \in Task :
            \/ paid[t]
            \/ /\ transfer'[t].status = "COMPLETED" => transfer[t].status = "COMPLETED"
               /\ payout'[t] = "COMPLETED" => payout[t] = "COMPLETED"
               /\ payStatus'[t] = "PAID" => payStatus[t] = "PAID"
               /\ txns'[Success(t)] = txns[Success(t)]
    BY <1>6, <1>a, <1>b, <1>c DEF HookFallback, Outcome, TaskAfter, FallbackPayout, At, JobOf,
       RowOK, TransferHook, ChargeHook, TypeInv, TypeOK
  <2> QED
    BY <1>6, <1>a, <1>b, <2>1, PhantomStep DEF HookFallback, Goto, At, RowOK, SessionRow,
       rowVars, externalVars
<1>7. CASE HookFallbackPaid(p)
  <2>1. \A t \in Task :
            \/ paid[t]
            \/ /\ transfer'[t].status = "COMPLETED" => transfer[t].status = "COMPLETED"
               /\ payout'[t] = "COMPLETED" => payout[t] = "COMPLETED"
               /\ payStatus'[t] = "PAID" => payStatus[t] = "PAID"
               /\ txns'[Success(t)] = txns[Success(t)]
    BY <1>7, <1>a, <1>b, <1>c DEF HookFallbackPaid, Outcome, FallbackPayout, EventOf, Success,
       At, JobOf, RowOK, TransferHook, ChargeHook, TypeInv, TypeOK
  <2> QED
    BY <1>7, <1>a, <1>b, <2>1, PhantomStep DEF HookFallbackPaid, Finish, Idle, At, RowOK,
       SessionRow, rowVars, externalVars, Acknowledge
<1>8. CASE RecordTransaction(p)
  <2>1. \A t \in Task :
            \/ paid[t]
            \/ /\ transfer'[t].status = "COMPLETED" => transfer[t].status = "COMPLETED"
               /\ payout'[t] = "COMPLETED" => payout[t] = "COMPLETED"
               /\ payStatus'[t] = "PAID" => payStatus[t] = "PAID"
               /\ txns'[Success(t)] = txns[Success(t)]
    BY <1>8, <1>a, <1>b, <1>c DEF RecordTransaction, EventOf, Success, At, JobOf, RowOK,
       TransferHook, ChargeHook, TypeInv, TypeOK
  <2> QED
    BY <1>8, <1>a, <1>b, <2>1, PhantomStep DEF RecordTransaction, Finish, Idle, At, RowOK,
       SessionRow, rowVars, externalVars, Acknowledge
<1> QED
    BY <1>1, <1>2, <1>3, <1>4, <1>5, <1>6, <1>7, <1>8 DEF TransferHookStep

LEMMA ChargeHookPhantom ==
    ASSUME TypeInv, RowsInv, PhantomInv, NEW p \in Session, ChargeHookStep(p)
    PROVE  PhantomInv'
<1>a. session[p] \in SessionRow /\ RowOK(session[p])
    BY DEF RowsInv, TypeInv, TypeOK
<1>b. session[p].ans = "success" => session[p].task \in Task /\ paid[session[p].task]
    BY DEF PhantomInv
<1>c. \A t \in Task : \A s : Transition(transfer[t], s).status = s
    BY DEF Transition, TypeInv, TypeOK, TransferRow
<1>1. CASE IgnoreShortCharge(p)
    BY <1>1, <1>a, <1>b, PhantomStep DEF IgnoreShortCharge, WinsLock, Finish, Idle, At, RowOK, SessionRow,
       rowVars, externalVars, Acknowledge
<1>2. CASE TakeChargeLock(p)
    BY <1>2, <1>a, <1>b, PhantomStep DEF TakeChargeLock, WinsLock, Goto, At, RowOK, SessionRow, rowVars,
       externalVars
<1>3. CASE RecordCharge(p)
  <2>1. \A t \in Task :
            \/ paid[t]
            \/ /\ transfer'[t].status = "COMPLETED" => transfer[t].status = "COMPLETED"
               /\ payout'[t] = "COMPLETED" => payout[t] = "COMPLETED"
               /\ payStatus'[t] = "PAID" => payStatus[t] = "PAID"
               /\ txns'[Success(t)] = txns[Success(t)]
    BY <1>3, <1>a, <1>b, <1>c DEF RecordCharge, AfterCharge, EventOf, Success, At, JobOf, RowOK, TransferHook,
       ChargeHook, TypeInv, TypeOK
  <2> QED
    BY <1>3, <1>a, <1>b, <2>1, PhantomStep DEF RecordCharge, AfterCharge, At, RowOK, SessionRow,
       rowVars, externalVars
<1>4. CASE MarkCustomerPaid(p)
  <2>1. \A t \in Task :
            \/ paid[t]
            \/ /\ transfer'[t].status = "COMPLETED" => transfer[t].status = "COMPLETED"
               /\ payout'[t] = "COMPLETED" => payout[t] = "COMPLETED"
               /\ payStatus'[t] = "PAID" => payStatus[t] = "PAID"
               /\ txns'[Success(t)] = txns[Success(t)]
    BY <1>4, <1>a, <1>b, <1>c DEF MarkCustomerPaid, At, JobOf, RowOK, TransferHook, ChargeHook,
       TypeInv, TypeOK
  <2> QED
    BY <1>4, <1>a, <1>b, <2>1, PhantomStep DEF MarkCustomerPaid, At, RowOK, SessionRow, rowVars,
       externalVars
<1>5. CASE AlreadyPaid(p)
    BY <1>5, <1>a, <1>b, PhantomStep DEF AlreadyPaid, Goto, At, RowOK, SessionRow, rowVars,
       externalVars
<1>6. CASE UpdatePayoutPaid(p)
    BY <1>6, <1>a, <1>b, PhantomStep DEF UpdatePayoutPaid, At, RowOK, SessionRow, rowVars,
       externalVars
<1>7. CASE NotifyPayer(p)
  <2>1. \A t \in Task :
            \/ paid[t]
            \/ /\ transfer'[t].status = "COMPLETED" => transfer[t].status = "COMPLETED"
               /\ payout'[t] = "COMPLETED" => payout[t] = "COMPLETED"
               /\ payStatus'[t] = "PAID" => payStatus[t] = "PAID"
               /\ txns'[Success(t)] = txns[Success(t)]
    BY <1>7, <1>a, <1>b, <1>c DEF NotifyPayer, CommitPayout, At, JobOf, RowOK, TransferHook,
       ChargeHook, TypeInv, TypeOK
  <2> QED
    BY <1>7, <1>a, <1>b, <2>1, PhantomStep DEF NotifyPayer, Finish, Idle, At, RowOK, SessionRow,
       rowVars, externalVars, Acknowledge
<1> QED
    BY <1>1, <1>2, <1>3, <1>4, <1>5, <1>6, <1>7 DEF ChargeHookStep

LEMMA PayoutPhantom ==
    ASSUME TypeInv, RowsInv, PhantomInv, NEW p \in Session, PayoutStep(p)
    PROVE  PhantomInv'
<1>a. session[p] \in SessionRow /\ RowOK(session[p])
    BY DEF RowsInv, TypeInv, TypeOK
<1>b. session[p].ans = "success" => session[p].task \in Task /\ paid[session[p].task]
    BY DEF PhantomInv
<1>c. \A t \in Task : \A s : Transition(transfer[t], s).status = s
    BY DEF Transition, TypeInv, TypeOK, TransferRow
<1>1. CASE ReadDebt(p)
    BY <1>1, <1>a, <1>b, PhantomStep DEF ReadDebt, At, RowOK, SessionRow, rowVars, externalVars
<1>2. CASE OffsetDebt(p)
  <2>1. \A t \in Task :
            \/ paid[t]
            \/ /\ transfer'[t].status = "COMPLETED" => transfer[t].status = "COMPLETED"
               /\ payout'[t] = "COMPLETED" => payout[t] = "COMPLETED"
               /\ payStatus'[t] = "PAID" => payStatus[t] = "PAID"
               /\ txns'[Success(t)] = txns[Success(t)]
    BY <1>2, <1>a, <1>b, <1>c DEF OffsetDebt, OffsetEntry, CommitPayout, At, JobOf, RowOK, TransferHook,
       ChargeHook, TypeInv, TypeOK
  <2> QED
    BY <1>2, <1>a, <1>b, <2>1, PhantomStep DEF OffsetDebt, OffsetEntry, At, RowOK, SessionRow, rowVars,
       externalVars
<1>3. CASE RecordOffset(p)
    BY <1>3, <1>a, <1>b, PhantomStep DEF RecordOffset, Goto, At, RowOK, SessionRow, rowVars,
       externalVars
<1>4. CASE FindTransfer(p)
    BY <1>4, <1>a, <1>b, PhantomStep DEF FindTransfer, Goto, At, RowOK, SessionRow, rowVars,
       externalVars
<1>5. CASE InsertTransfer(p)
  <2>1. \A t \in Task :
            \/ paid[t]
            \/ /\ transfer'[t].status = "COMPLETED" => transfer[t].status = "COMPLETED"
               /\ payout'[t] = "COMPLETED" => payout[t] = "COMPLETED"
               /\ payStatus'[t] = "PAID" => payStatus[t] = "PAID"
               /\ txns'[Success(t)] = txns[Success(t)]
    BY <1>5, <1>a, <1>b, <1>c DEF InsertTransfer, CommitPayout, NewTransfer, NoTransfer, At,
       JobOf, RowOK, TransferHook, ChargeHook, TypeInv, TypeOK
  <2> QED
    BY <1>5, <1>a, <1>b, <2>1, PhantomStep DEF InsertTransfer, At, RowOK, SessionRow, rowVars,
       externalVars
<1>6. CASE InsertRaises(p)
    BY <1>6, <1>a, <1>b, PhantomStep DEF InsertRaises, Finish, Idle, At, RowOK, SessionRow,
       rowVars, externalVars
<1>7. CASE EnqueueTransfer(p)
    BY <1>7, <1>a, <1>b, PhantomStep DEF EnqueueTransfer, Goto, At, RowOK, SessionRow, rowVars,
       externalVars
<1>8. CASE MarkInitiated(p)
  <2>1. \A t \in Task :
            \/ paid[t]
            \/ /\ transfer'[t].status = "COMPLETED" => transfer[t].status = "COMPLETED"
               /\ payout'[t] = "COMPLETED" => payout[t] = "COMPLETED"
               /\ payStatus'[t] = "PAID" => payStatus[t] = "PAID"
               /\ txns'[Success(t)] = txns[Success(t)]
    BY <1>8, <1>a, <1>b, <1>c DEF MarkInitiated, At, JobOf, RowOK, TransferHook, ChargeHook,
       TypeInv, TypeOK
  <2> QED
    BY <1>8, <1>a, <1>b, <2>1, PhantomStep DEF MarkInitiated, At, RowOK, SessionRow, rowVars,
       externalVars
<1>9. CASE MarkTaskInitiated(p)
  <2>1. \A t \in Task :
            \/ paid[t]
            \/ /\ transfer'[t].status = "COMPLETED" => transfer[t].status = "COMPLETED"
               /\ payout'[t] = "COMPLETED" => payout[t] = "COMPLETED"
               /\ payStatus'[t] = "PAID" => payStatus[t] = "PAID"
               /\ txns'[Success(t)] = txns[Success(t)]
    BY <1>9, <1>a, <1>b, <1>c DEF MarkTaskInitiated, At, JobOf, RowOK, TransferHook, ChargeHook,
       TypeInv, TypeOK
  <2> QED
    BY <1>9, <1>a, <1>b, <2>1, PhantomStep DEF MarkTaskInitiated, Finish, Goto, Idle, At, RowOK,
       SessionRow, rowVars, externalVars
<1> QED
    BY <1>1, <1>2, <1>3, <1>4, <1>5, <1>6, <1>7, <1>8, <1>9 DEF PayoutStep

LEMMA PhantomNext == TypeInv /\ RowsInv /\ PhantomInv /\ [Next]_vars => PhantomInv'
<1> SUFFICES ASSUME TypeInv, RowsInv, PhantomInv, [Next]_vars
             PROVE  PhantomInv'
    OBVIOUS
<1>1. ASSUME NEW p \in Session, NEW t \in Task, ReconcileUnreachable(p, t)
      PROVE  PhantomInv'
  <2>1. session[p] \in SessionRow
    BY DEF TypeInv, TypeOK
  <2> QED
    BY <1>1, <2>1, PhantomStep
       DEF ReconcileUnreachable, Finish, Idle, rowVars, externalVars, SessionRow, PhantomInv
<1>2. ASSUME NEW p \in Session, NEW t \in Task, NEW a \in Answer, ReconcileLookup(p, t, a)
      PROVE  PhantomInv'
  <2> DEFINE w == [session[p] EXCEPT !.pc = "answer", !.task = t, !.ans = a, !.todo = @ \ {t}]
  <2>1. w.task = t /\ w.ans = a
    BY DEF TypeInv, TypeOK, SessionRow
  <2> QED
    BY <1>2, <2>1, PhantomStep DEF ReconcileLookup, rowVars, externalVars
<1>3. ASSUME NEW p \in Session, HandlerStep(p)
      PROVE  PhantomInv'
    BY <1>1, <1>2, <1>3, WorkerPhantom, TransferHookPhantom, ChargeHookPhantom, PayoutPhantom
       DEF HandlerStep
<1>4. ASSUME NEW p \in Session, StartReconcile(p)
      PROVE  PhantomInv'
    BY <1>4, PhantomStep DEF StartReconcile, Idle, rowVars, externalVars
<1>5. ASSUME NEW p \in Session, NEW t \in Task, ProcessTransfer(p, t)
      PROVE  PhantomInv'
  <2>1. \A u \in Task : transfer'[u].status = "COMPLETED" => transfer[u].status = "COMPLETED"
    BY <1>5 DEF ProcessTransfer, Processable, TypeInv, TypeOK, TransferRow
  <2> QED
    BY <1>5, <2>1, PhantomStep DEF ProcessTransfer, Processable, Idle
<1>6. ASSUME NEW p \in Session, NEW t \in Task, StartPayout(p, t)
      PROVE  PhantomInv'
    BY <1>6, PhantomStep DEF StartPayout, Idle, rowVars, externalVars
<1>7. ASSUME NEW p \in Session, NEW e \in hooks, ReceiveTransferHook(p, e)
      PROVE  PhantomInv'
  <2>1. HookAnswer(e.kind) = "success" => e.task \in Task /\ paid[e.task]
    BY DEF HookAnswer, PhantomInv, TypeInv, TypeOK, Event
  <2> QED
    BY <1>7, <2>1, PhantomStep DEF ReceiveTransferHook, Idle, externalVars
<1>8. ASSUME NEW p \in Session, NEW e \in hooks, ReceiveChargeHook(p, e)
      PROVE  PhantomInv'
    BY <1>8, PhantomStep DEF ReceiveChargeHook, Idle, externalVars
<1>9. ASSUME NEW p \in Session, Crash(p)
      PROVE  PhantomInv'
    BY <1>9, PhantomStep DEF Crash, Finish, Idle, externalVars
<1>10. ASSUME NEW t \in Task, RetryFallsDue(t) \/ AttemptGoesStale(t)
       PROVE  PhantomInv'
  <2>1. \A u \in Task : transfer'[u].status = transfer[u].status
    BY <1>10, SMTT(30) DEF RetryFallsDue, AttemptGoesStale, TypeInv, TypeOK, TransferRow
  <2> QED
    BY <1>10, <2>1 DEF RetryFallsDue, AttemptGoesStale, externalVars, PhantomInv, NoPhantomPayment
<1>11. CASE UNCHANGED <<transfer, payout, payStatus, txns, paid, session>> /\
            \A e \in hooks' : e.kind = "transfer.success" => e \in hooks
    BY <1>11 DEF PhantomInv, NoPhantomPayment
<1>12. ASSUME NEW t \in Task, Background(t) \/ Customer(t)
       PROVE  PhantomInv'
    BY <1>10, <1>11, <1>12 DEF Background, Customer, SkipTransfer, Processable, RecoverStuckTransfer, Recoverable,
                               CustomerPays, CustomerCardFails, rowVars
<1>13. CASE UNCHANGED vars
    BY <1>11, <1>13 DEF vars
<1> QED
    BY <1>3, <1>4, <1>5, <1>6, <1>7, <1>8, <1>9, <1>12, <1>13 DEF Next, HandlerStart

LEMMA Phantom == Spec => []PhantomInv
<1>1. Init => PhantomInv
    BY DEF Init, PhantomInv, NoPhantomPayment, Idle, NoTransfer, Event, HookKind
<1> QED
    BY <1>1, PhantomNext, Typing, Control, PTL DEF Spec

\* No row says that a provider was paid unless the gateway has paid.
THEOREM OnlyTruePayments == Spec => []NoPhantomPayment
BY Phantom, PTL DEF PhantomInv

-----------------------------------------------------------------------------
(***************************************************************************)
(* A charge is recorded once.  Between the compare-and-set of lock_version *)
(* and the commit of the Transaction a webhook holds the payout row alone, *)
(* and has seen that no Transaction for its reference is committed.        *)
(***************************************************************************)
ChargeInv ==
    /\ ChargeOnce
    /\ \A p \in Session : At(p, "charge_tx") => txns[EventOf(p)] = 0
    /\ \A p, q \in Session :
           At(p, "charge_tx") /\ At(q, "charge_tx") /\ JobOf(p) = JobOf(q) => p = q

LEMMA ChargeEvents ==
    ASSUME TypeInv, RowsInv, NEW p \in Session, At(p, "charge_tx")
    PROVE  EventOf(p) \in Event /\ EventOf(p).kind \in ChargeHook
<1>1. session[p] \in SessionRow /\ session[p].task \in Task
    BY Busy DEF At, TypeInv, TypeOK
<1>2. session[p].role \in ChargeHook
    BY DEF RowsInv, RowOK, At
<1> QED
    BY <1>1, <1>2 DEF EventOf, Event, ChargeHook, HookKind, SessionRow

\* A handler that is elsewhere afterwards, and records no charge.
LEMMA ChargeAway ==
    ASSUME TypeInv, RowsInv, ChargeInv, NEW p \in Session, NEW w, Become(p, w),
       w.pc # "charge_tx",
           \A e \in Event : e.kind \in ChargeHook => txns'[e] = txns[e]
    PROVE  ChargeInv'
<1>1. \A q \in Session : session'[q] = IF q = p THEN w ELSE session[q]
    BY DEF Become, TypeInv
<1>2. \A q \in Session : At(q, "charge_tx")' => At(q, "charge_tx") /\ session'[q] = session[q]
    BY <1>1 DEF At
<1>3. \A q \in Session : At(q, "charge_tx")' => txns'[EventOf(q)'] = 0
    BY <1>2, ChargeEvents DEF ChargeInv, EventOf
<1>4. ChargeOnce'
    BY DEF ChargeInv, ChargeOnce, ChargeHook
<1> QED
    BY <1>2, <1>3, <1>4 DEF ChargeInv, JobOf

LEMMA ChargeTakes ==
    ASSUME TypeInv, RowsInv, ChargeInv, NEW p \in Session, TakeChargeLock(p)
    PROVE  ChargeInv'
<1>1. session[p] \in SessionRow
    BY DEF TypeInv, TypeOK
<1>2. \A q \in Session :
          session'[q] = IF q = p THEN [session[p] EXCEPT !.pc = "charge_tx"] ELSE session[q]
    BY DEF TakeChargeLock, WinsLock, Goto, Become, TypeInv
<1>3. /\ session'[p].task = session[p].task
      /\ session'[p].role = session[p].role
      /\ session'[p].ref = session[p].ref
    BY <1>1, <1>2 DEF SessionRow
<1>4. txns' = txns /\ txns[EventOf(p)] = 0
    BY DEF TakeChargeLock, WinsLock, rowVars
<1>5. \A q \in Session \ {p} : At(q, "charge_tx") => session[q].task # session[p].task
    BY DEF TakeChargeLock, WinsLock, PayoutRowFree, HoldsPayoutRow, JobOf
<1>6. ChargeOnce'
    BY <1>4 DEF ChargeInv, ChargeOnce
<1>7. \A q \in Session : At(q, "charge_tx")' => txns'[EventOf(q)'] = 0
    BY <1>2, <1>3, <1>4 DEF ChargeInv, EventOf, At
<1>8. \A q, r \in Session :
          At(q, "charge_tx")' /\ At(r, "charge_tx")' /\ JobOf(q)' = JobOf(r)' => q = r
    BY <1>2, <1>3, <1>5 DEF ChargeInv, JobOf, At
<1> QED
    BY <1>6, <1>7, <1>8 DEF ChargeInv

LEMMA ChargeRecords ==
    ASSUME TypeInv, RowsInv, ChargeInv, NEW p \in Session, RecordCharge(p)
    PROVE  ChargeInv'
<1>1. At(p, "charge_tx")
    BY DEF RecordCharge, AfterCharge
<1>2. EventOf(p) \in Event /\ txns[EventOf(p)] = 0 /\ txns \in [Event -> Nat]
    BY <1>1, ChargeEvents DEF ChargeInv, TypeInv, TypeOK
<1>3. /\ txns'[EventOf(p)] = 1
      /\ \A e \in Event \ {EventOf(p)} : txns'[e] = txns[e]
    BY <1>2 DEF RecordCharge, AfterCharge
<1>4. session[p] \in SessionRow
    BY DEF TypeInv, TypeOK
<1>5. \A q \in Session \ {p} : session'[q] = session[q]
    BY DEF RecordCharge, AfterCharge, Become, TypeInv
<1>6. session'[p].pc # "charge_tx"
    BY <1>4 DEF RecordCharge, AfterCharge, Become, TypeInv, SessionRow
<1>7. \A q \in Session : At(q, "charge_tx")' => q # p /\ At(q,
       "charge_tx") /\ session'[q] = session[q]
    BY <1>5, <1>6 DEF At
<1>8. \A q \in Session : At(q, "charge_tx")' => EventOf(q) # EventOf(p) /\ EventOf(q) \in Event
    BY <1>1, <1>7, ChargeEvents DEF ChargeInv, EventOf, JobOf
<1>9. \A q \in Session : At(q, "charge_tx")' => txns'[EventOf(q)'] = 0
    BY <1>3, <1>7, <1>8 DEF ChargeInv, EventOf
<1>10. ChargeOnce'
    BY <1>3 DEF ChargeInv, ChargeOnce
<1> QED
    BY <1>7, <1>9, <1>10 DEF ChargeInv, JobOf

\* The Transactions of the transfer webhooks are not charges.
LEMMA ChargeUntouched ==
    ASSUME TypeInv, RowsInv, NEW p \in Session, HookFallbackPaid(p) \/ RecordTransaction(p)
    PROVE  \A e \in Event : e.kind \in ChargeHook => txns'[e] = txns[e]
<1>1. EventOf(p).kind \notin ChargeHook
    BY DEF HookFallbackPaid, RecordTransaction, RowsInv, RowOK, At, EventOf, TransferHook,
       ChargeHook
<1> QED
    BY <1>1 DEF HookFallbackPaid, RecordTransaction, TypeInv, TypeOK

LEMMA WorkerCharge ==
    ASSUME TypeInv, RowsInv, ChargeInv, NEW p \in Session, WorkerStep(p)
    PROVE  ChargeInv'
<1>a. session[p] \in SessionRow /\ RowOK(session[p])
    BY DEF RowsInv, TypeInv, TypeOK
<1>1. CASE NoPaymentAccount(p)
    BY <1>1, <1>a, ChargeAway DEF NoPaymentAccount, SessionRow, rowVars
<1>2. CASE GatewayPays(p)
    BY <1>2, <1>a, ChargeAway DEF GatewayPays, Answered, SessionRow, rowVars
<1>3. CASE GatewayRejects(p)
    BY <1>3, <1>a, ChargeAway DEF GatewayRejects, Answered, SessionRow, rowVars
<1>4. CASE GatewayUnreachable(p)
    BY <1>4, <1>a, ChargeAway DEF GatewayUnreachable, Answered, SessionRow, rowVars
<1>5. CASE Mark(p)
    BY <1>5, <1>a, ChargeAway DEF Mark, Goto, SessionRow, rowVars
<1>6. CASE LoadPayout(p)
    BY <1>6, <1>a, ChargeAway DEF LoadPayout, SessionRow, rowVars
<1>7. CASE MarkPayout(p)
    BY <1>7, <1>a, ChargeAway DEF MarkPayout, SessionRow, rowVars
<1>8. CASE MarkTask(p)
    BY <1>8, <1>a, ChargeAway DEF MarkTask, AfterMark, Idle, SessionRow, rowVars
<1>9. CASE RecordAttempt(p)
    BY <1>9, <1>a, ChargeAway DEF RecordAttempt, AttemptOf, Finish, Goto, Idle, SessionRow, rowVars
<1>10. CASE Reenqueue(p)
    BY <1>10, <1>a, ChargeAway DEF Reenqueue, Finish, Idle, SessionRow, rowVars
<1> QED
    BY <1>1, <1>2, <1>3, <1>4, <1>5, <1>6, <1>7, <1>8, <1>9, <1>10 DEF WorkerStep

LEMMA TransferHookCharge ==
    ASSUME TypeInv, RowsInv, ChargeInv, NEW p \in Session, TransferHookStep(p)
    PROVE  ChargeInv'
<1>a. session[p] \in SessionRow /\ RowOK(session[p])
    BY DEF RowsInv, TypeInv, TypeOK
<1>1. CASE SkipLockLost(p)
    BY <1>1, <1>a, ChargeAway DEF SkipLockLost, Finish, Idle, SessionRow, rowVars
<1>2. CASE SkipAlreadyRecorded(p)
    BY <1>2, <1>a, ChargeAway DEF SkipAlreadyRecorded, WinsLock, Finish, Idle, SessionRow, rowVars
<1>3. CASE TakeLock(p)
    BY <1>3, <1>a, ChargeAway DEF TakeLock, WinsLock, SessionRow, rowVars
<1>4. CASE HookMarks(p)
    BY <1>4, <1>a, ChargeAway DEF HookMarks, Goto, SessionRow, rowVars
<1>5. CASE HookRaises(p)
    BY <1>5, <1>a, ChargeAway DEF HookRaises, Finish, Idle, SessionRow, rowVars
<1>6. CASE HookFallback(p)
    BY <1>6, <1>a, ChargeAway DEF HookFallback, Goto, SessionRow, rowVars
<1>7. CASE HookFallbackPaid(p)
    BY <1>7, <1>a, ChargeAway, ChargeUntouched DEF HookFallbackPaid, Finish, Idle, SessionRow
<1>8. CASE RecordTransaction(p)
    BY <1>8, <1>a, ChargeAway, ChargeUntouched DEF RecordTransaction, Finish, Idle, SessionRow
<1> QED
    BY <1>1, <1>2, <1>3, <1>4, <1>5, <1>6, <1>7, <1>8 DEF TransferHookStep

LEMMA ChargeHookCharge ==
    ASSUME TypeInv, RowsInv, ChargeInv, NEW p \in Session, ChargeHookStep(p)
    PROVE  ChargeInv'
<1>a. session[p] \in SessionRow /\ RowOK(session[p])
    BY DEF RowsInv, TypeInv, TypeOK
<1>1. CASE IgnoreShortCharge(p)
    BY <1>1, <1>a, ChargeAway DEF IgnoreShortCharge, WinsLock, Finish, Idle, SessionRow, rowVars
<1>2. CASE TakeChargeLock(p)
    BY <1>2, ChargeTakes
<1>3. CASE RecordCharge(p)
    BY <1>3, ChargeRecords
<1>4. CASE MarkCustomerPaid(p)
    BY <1>4, <1>a, ChargeAway DEF MarkCustomerPaid, SessionRow, rowVars
<1>5. CASE AlreadyPaid(p)
    BY <1>5, <1>a, ChargeAway DEF AlreadyPaid, Goto, SessionRow, rowVars
<1>6. CASE UpdatePayoutPaid(p)
    BY <1>6, <1>a, ChargeAway DEF UpdatePayoutPaid, SessionRow, rowVars
<1>7. CASE NotifyPayer(p)
    BY <1>7, <1>a, ChargeAway DEF NotifyPayer, Finish, Idle, SessionRow, rowVars
<1> QED
    BY <1>1, <1>2, <1>3, <1>4, <1>5, <1>6, <1>7 DEF ChargeHookStep

LEMMA PayoutCharge ==
    ASSUME TypeInv, RowsInv, ChargeInv, NEW p \in Session, PayoutStep(p)
    PROVE  ChargeInv'
<1>a. session[p] \in SessionRow /\ RowOK(session[p])
    BY DEF RowsInv, TypeInv, TypeOK
<1>1. CASE ReadDebt(p)
    BY <1>1, <1>a, ChargeAway DEF ReadDebt, SessionRow, rowVars
<1>2. CASE OffsetDebt(p)
    BY <1>2, <1>a, ChargeAway DEF OffsetDebt, OffsetEntry, SessionRow, rowVars
<1>3. CASE RecordOffset(p)
    BY <1>3, <1>a, ChargeAway DEF RecordOffset, Goto, SessionRow, rowVars
<1>4. CASE FindTransfer(p)
    BY <1>4, <1>a, ChargeAway DEF FindTransfer, Goto, SessionRow, rowVars
<1>5. CASE InsertTransfer(p)
    BY <1>5, <1>a, ChargeAway DEF InsertTransfer, SessionRow, rowVars
<1>6. CASE InsertRaises(p)
    BY <1>6, <1>a, ChargeAway DEF InsertRaises, Finish, Idle, SessionRow, rowVars
<1>7. CASE EnqueueTransfer(p)
    BY <1>7, <1>a, ChargeAway DEF EnqueueTransfer, Goto, SessionRow, rowVars
<1>8. CASE MarkInitiated(p)
    BY <1>8, <1>a, ChargeAway DEF MarkInitiated, SessionRow, rowVars
<1>9. CASE MarkTaskInitiated(p)
    BY <1>9, <1>a, ChargeAway DEF MarkTaskInitiated, Finish, Goto, Idle, SessionRow, rowVars
<1> QED
    BY <1>1, <1>2, <1>3, <1>4, <1>5, <1>6, <1>7, <1>8, <1>9 DEF PayoutStep

LEMMA ChargeNext == TypeInv /\ RowsInv /\ ChargeInv /\ [Next]_vars => ChargeInv'
<1> SUFFICES ASSUME TypeInv, RowsInv, ChargeInv, [Next]_vars
             PROVE  ChargeInv'
    OBVIOUS
<1>1. ASSUME NEW p \in Session, NEW t \in Task, NEW a \in Answer,
             ReconcileUnreachable(p, t) \/ ReconcileLookup(p, t, a)
      PROVE  ChargeInv'
  <2>1. session[p] \in SessionRow
    BY DEF TypeInv, TypeOK
  <2> QED
    BY <1>1, <2>1, ChargeAway
       DEF ReconcileUnreachable, ReconcileLookup, Finish, Idle, At, rowVars, SessionRow
<1>2. ASSUME NEW p \in Session, HandlerStep(p)
      PROVE  ChargeInv'
    BY <1>1, <1>2, Statuses, WorkerCharge, TransferHookCharge, ChargeHookCharge, PayoutCharge
       DEF HandlerStep
<1>3. ASSUME NEW p \in Session, StartReconcile(p)
      PROVE  ChargeInv'
    BY <1>3, ChargeAway DEF StartReconcile, Idle, rowVars
<1>4. ASSUME NEW p \in Session, NEW t \in Task, ProcessTransfer(p, t) \/ StartPayout(p, t)
      PROVE  ChargeInv'
    BY <1>4, ChargeAway DEF ProcessTransfer, Processable, StartPayout, Idle, rowVars
<1>5. ASSUME NEW p \in Session, NEW e \in hooks, ReceiveTransferHook(p,
       e) \/ ReceiveChargeHook(p, e)
      PROVE  ChargeInv'
    BY <1>5, ChargeAway DEF ReceiveTransferHook, ReceiveChargeHook, Idle
<1>6. ASSUME NEW p \in Session, Crash(p)
      PROVE  ChargeInv'
    BY <1>6, ChargeAway DEF Crash, Finish, Idle
<1>7. CASE UNCHANGED <<txns, session>>
    BY <1>7 DEF ChargeInv, ChargeOnce, At, EventOf, JobOf
<1>8. ASSUME NEW t \in Task, Background(t) \/ Customer(t)
      PROVE  ChargeInv'
    BY <1>7, <1>8 DEF Background, Customer, SkipTransfer, Processable, RecoverStuckTransfer, Recoverable, RetryFallsDue,
                      AttemptGoesStale, CustomerPays, CustomerCardFails, rowVars
<1> QED
    BY <1>2, <1>3, <1>4, <1>5, <1>6, <1>7, <1>8 DEF Next, HandlerStart, vars

\* A charge.success or charge.failed event is recorded at most once per
\* reference, under any number of concurrent deliveries and crashes.
THEOREM ChargesRecordedOnce == Spec => []ChargeOnce
<1>1. Init => ChargeInv
    BY DEF Init, ChargeInv, ChargeOnce, At, Idle
<1>2. ChargeInv => ChargeOnce
    BY DEF ChargeInv
<1> QED
    BY <1>1, <1>2, ChargeNext, Typing, Control, PTL DEF Spec

-----------------------------------------------------------------------------
(***************************************************************************)
(* The customer's money comes first.  Everything the pipeline does for a   *)
(* task, from the commit of the charge's Transaction on, it does for a     *)
(* funded task; what a charge webhook still has to find out is that its    *)
(* reference is a charge of the full price.                                *)
(***************************************************************************)
ChargeEvent(t, r) == [kind |-> "charge.success", task |-> t, ref |-> r]

Funded == {t \in Task : \E r \in charged[t] \ ShortRef : txns[ChargeEvent(t, r)] > 0}

\* Where a handler may be whose task is not funded (yet).
Unfunded == {"idle", "next", "charge_lock", "charge_tx", "notify"}

FundRow(w, F, C) ==
    /\ w.pc \notin Unfunded \/ w.pend => w.task \in F
    /\ w.todo \subseteq F
    /\ w.role = "charge.success" /\ w.pc \in {"charge_lock", "charge_tx"} =>
           /\ w.ref \in C[w.task]
           /\ w.pc = "charge_tx" => w.ref \notin ShortRef

FundHook(e, F, C) ==
    IF e.kind = "charge.success" THEN e.ref \in C[e.task]
    ELSE e.kind \in TransferHook => e.task \in F

FundInv ==
    /\ \A t \in Task : transfer[t].status # "NONE" \/ payout[t] = "CUSTOMER_PAID" => t \in Funded
    /\ \A p \in Session : FundRow(session[p], Funded, charged)
    /\ \A e \in hooks : FundHook(e, Funded, charged)

\* A funded task stays funded.
LEMMA FundGrows ==
    ASSUME TypeInv, \A t \in Task : charged[t] \subseteq charged'[t],
           \A t \in Task, r \in Ref : txns[ChargeEvent(t, r)] > 0 => txns'[ChargeEvent(t, r)] > 0
    PROVE  Funded \subseteq Funded'
<1>1. \A t \in Task : charged[t] \subseteq Ref
    BY DEF TypeInv, TypeOK
<1> QED
    BY <1>1 DEF Funded

LEMMA FundStep ==
    ASSUME TypeInv, FundInv, NEW p \in Session, NEW w, Become(p, w),
           Funded \subseteq Funded', charged' = charged,
           FundRow(w, Funded', charged),
           \A t \in Task :
               /\ transfer'[t].status # "NONE" => transfer[t].status # "NONE" \/ t \in Funded'
               /\ payout'[t] = "CUSTOMER_PAID" => payout[t] = "CUSTOMER_PAID" \/ t \in Funded',
           \A e \in hooks' : e \in hooks \/ FundHook(e, Funded', charged)
    PROVE  FundInv'
<1>1. \A q \in Session : session'[q] = IF q = p THEN w ELSE session[q]
    BY DEF Become, TypeInv
<1>2. \A q \in Session : FundRow(session'[q], Funded', charged')
    BY <1>1 DEF FundInv, FundRow
<1>3. \A e \in hooks' : FundHook(e, Funded', charged')
    BY DEF FundInv, FundHook
<1>4. \A t \in Task : transfer'[t].status # "NONE" \/ payout'[t] = "CUSTOMER_PAID" => t \in Funded'
    BY DEF FundInv
<1> QED
    BY <1>2, <1>3, <1>4 DEF FundInv

\* A step that records no charge.
LEMMA FundKeeps ==
    ASSUME TypeInv, FundInv, NEW p \in Session, NEW w, Become(p, w),
           UNCHANGED <<charged, txns>>, FundRow(w, Funded, charged),
           \A t \in Task :
               /\ transfer'[t].status # "NONE" => transfer[t].status # "NONE" \/ t \in Funded
               /\ payout'[t] = "CUSTOMER_PAID" => payout[t] = "CUSTOMER_PAID" \/ t \in Funded,
           \A e \in hooks' : e \in hooks \/ FundHook(e, Funded, charged)
    PROVE  FundInv'
<1>1. Funded' = Funded
    BY DEF Funded
<1> HIDE DEF Funded
<1> QED
    BY <1>1, FundStep

\* A transition, of a transfer that exists because its task is funded.
LEMMA FundMarks ==
    ASSUME TypeInv, NEW t \in Funded, NEW s, transfer' = [transfer EXCEPT ![t] = Transition(@, s)]
    PROVE  \A u \in Task : transfer'[u].status # "NONE" => transfer[u].status # "NONE" \/ u \in Funded
<1>1. t \in Task /\ transfer \in [Task -> TransferRow]
    BY DEF Funded, TypeInv, TypeOK
<1> HIDE DEF Funded
<1> QED
    BY <1>1

\* What a handler's commit makes of the payouts.
LEMMA FundCommits ==
    ASSUME TypeInv, FundInv, NEW p \in Session, payout' = CommitPayout(p)
    PROVE  \A u \in Task : payout'[u] = "CUSTOMER_PAID" => payout[u] = "CUSTOMER_PAID" \/ u \in Funded
BY DEF CommitPayout, JobOf, FundInv, FundRow, TypeInv, TypeOK

\* The Transaction of a full charge.
LEMMA FundRecords ==
    ASSUME TypeInv, RowsInv, FundInv, NEW p \in Session, RecordCharge(p)
    PROVE  FundInv'
<1> DEFINE t == session[p].task
           r == session[p].ref
           l == AfterCharge(session[p].role)
           w == [session[p] EXCEPT !.pc = l, !.kst = payStatus[t]]
<1>1. /\ session[p] \in SessionRow /\ t \in Task /\ session[p].role \in ChargeHook
      /\ FundRow(session[p], Funded, charged)
      /\ EventOf(p) \in Event /\ txns \in [Event -> Nat]
    BY Busy, ChargeEvents DEF RecordCharge, RowsInv, RowOK, FundInv, At, TypeInv, TypeOK
<1>2. \A e \in Event : txns'[e] = IF e = EventOf(p) THEN txns[e] + 1 ELSE txns[e]
    BY <1>1 DEF RecordCharge
<1>3. Funded \subseteq Funded'
  <2>1. \A u \in Task, s \in Ref : ChargeEvent(u, s) \in Event
    BY DEF ChargeEvent, Event, HookKind
  <2>2. \A u \in Task, s \in Ref : txns[ChargeEvent(u, s)] > 0 => txns'[ChargeEvent(u, s)] > 0
    BY <1>1, <1>2, <2>1
  <2>3. charged' = charged
    BY DEF RecordCharge, externalVars
  <2> QED
    BY <2>2, <2>3, FundGrows
<1>4. session[p].role = "charge.success" => t \in Funded'
  <2> SUFFICES ASSUME session[p].role = "charge.success" PROVE t \in Funded'
    OBVIOUS
  <2>1. r \in charged[t] \ ShortRef
    BY <1>1 DEF FundRow, RecordCharge, At
  <2>2. EventOf(p) = ChargeEvent(t, r)
    BY DEF EventOf, ChargeEvent
  <2>3. txns'[ChargeEvent(t, r)] > 0
    BY <1>1, <1>2, <2>2
  <2>4. charged' = charged
    BY DEF RecordCharge, externalVars
  <2> QED
    BY <1>1, <2>1, <2>3, <2>4 DEF Funded
<1>5. w.pc = l /\ w.pend = session[p].pend /\ w.task = t /\ w.todo = session[p].todo
    BY <1>1 DEF SessionRow
<1>6. l = IF session[p].role = "charge.success" THEN "charge_task" ELSE "notify"
    BY DEF AfterCharge
<1>7. Become(p, w)
    BY DEF RecordCharge, JobOf
<1> HIDE DEF w, l
<1>8. FundRow(w, Funded', charged)
    BY <1>1, <1>3, <1>4, <1>5, <1>6 DEF FundRow, Unfunded
<1> QED
    BY <1>3, <1>7, <1>8, FundStep DEF RecordCharge, externalVars

\* The Transactions of the transfer webhooks.
LEMMA FundOthers ==
    ASSUME TypeInv, RowsInv, NEW p \in Session, HookFallbackPaid(p) \/ RecordTransaction(p)
    PROVE  Funded \subseteq Funded'
<1>1. \A t \in Task, r \in Ref : ChargeEvent(t, r) \in Event /\ ChargeEvent(t, r).kind \in ChargeHook
    BY DEF ChargeEvent, Event, HookKind, ChargeHook
<1>2. \A t \in Task, r \in Ref : txns'[ChargeEvent(t, r)] = txns[ChargeEvent(t, r)]
    BY <1>1, ChargeUntouched
<1>3. charged' = charged
    BY DEF HookFallbackPaid, RecordTransaction
<1> QED
    BY <1>2, <1>3, FundGrows

LEMMA WorkerFund ==
    ASSUME TypeInv, RowsInv, FundInv, NEW p \in Session, WorkerStep(p)
    PROVE  FundInv'
<1>a. session[p] \in SessionRow /\ session[p].todo \subseteq Task /\ RowOK(session[p])
    BY DEF RowsInv, TypeInv, TypeOK, SessionRow
<1>b. FundRow(session[p], Funded, charged)
    BY DEF FundInv
<1>1. CASE NoPaymentAccount(p)
    BY <1>1, <1>a, <1>b, FundKeeps
       DEF NoPaymentAccount, FundRow, At, SessionRow, rowVars, externalVars, Unfunded,
           Acknowledge, TransferHook
<1>2. CASE GatewayPays(p)
  <2>1. PICK a : Become(p, [session[p] EXCEPT !.pc = "answer", !.ans = a])
    BY <1>2 DEF GatewayPays, Answered
  <2>2. session[p].task \in Funded /\ FundRow([session[p] EXCEPT !.pc = "answer", !.ans = a], Funded, charged)
    BY <1>2, <1>a, <1>b DEF GatewayPays, FundRow, Unfunded, At, SessionRow
  <2>3. \A e \in hooks' : e \in hooks \/ FundHook(e, Funded, charged)
    BY <1>2, <2>2 DEF GatewayPays, FundHook, JobOf
  <2> QED
    BY <1>2, <2>1, <2>2, <2>3, FundKeeps DEF GatewayPays, rowVars
<1>3. CASE GatewayRejects(p)
  <2>1. PICK a : Become(p, [session[p] EXCEPT !.pc = "answer", !.ans = a])
    BY <1>3 DEF GatewayRejects, Answered
  <2>2. session[p].task \in Funded /\ FundRow([session[p] EXCEPT !.pc = "answer", !.ans = a], Funded, charged)
    BY <1>3, <1>a, <1>b DEF GatewayRejects, FundRow, Unfunded, At, SessionRow
  <2>3. \A e \in hooks' : e \in hooks \/ FundHook(e, Funded, charged)
    BY <1>3, <2>2 DEF GatewayRejects, FundHook, JobOf
  <2> QED
    BY <1>3, <2>1, <2>2, <2>3, FundKeeps DEF GatewayRejects, rowVars
<1>4. CASE GatewayUnreachable(p)
    BY <1>4, <1>a, <1>b, FundKeeps
       DEF GatewayUnreachable, Answered, FundRow, At, SessionRow, rowVars, externalVars,
           Unfunded, Acknowledge, TransferHook
<1>5. CASE Mark(p)
    BY <1>5, <1>a, <1>b, FundKeeps, FundMarks
       DEF Mark, Goto, FundRow, At, SessionRow, rowVars, externalVars, JobOf, Unfunded
<1>6. CASE LoadPayout(p)
    BY <1>6, <1>a, <1>b, FundKeeps
       DEF LoadPayout, FundRow, At, SessionRow, rowVars, externalVars, Unfunded, Acknowledge,
           TransferHook
<1>7. CASE MarkPayout(p)
    BY <1>7, <1>a, <1>b, FundKeeps, Busy
       DEF MarkPayout, FundRow, At, SessionRow, rowVars, externalVars, Unfunded, PayoutAfter,
           JobOf, TypeInv, TypeOK
<1>8. CASE MarkTask(p)
    BY <1>8, <1>a, <1>b, FundKeeps
       DEF MarkTask, AfterMark, Idle, FundRow, At, SessionRow, rowVars, externalVars, Unfunded,
           Acknowledge, TransferHook
<1>9. CASE RecordAttempt(p)
    BY <1>9, <1>a, <1>b, FundKeeps
       DEF RecordAttempt, AttemptOf, Finish, Goto, Idle, FundRow, At, SessionRow, rowVars,
           externalVars, Unfunded, Acknowledge, TransferHook
<1>10. CASE Reenqueue(p)
    BY <1>10, <1>a, <1>b, FundKeeps
       DEF Reenqueue, Finish, Idle, FundRow, At, SessionRow, rowVars, externalVars, Unfunded,
           Acknowledge, TransferHook
<1> QED
    BY <1>1, <1>2, <1>3, <1>4, <1>5, <1>6, <1>7, <1>8, <1>9, <1>10 DEF WorkerStep

LEMMA TransferHookFund ==
    ASSUME TypeInv, RowsInv, FundInv, NEW p \in Session, TransferHookStep(p)
    PROVE  FundInv'
<1>a. session[p] \in SessionRow /\ session[p].todo \subseteq Task /\ RowOK(session[p])
    BY DEF RowsInv, TypeInv, TypeOK, SessionRow
<1>b. FundRow(session[p], Funded, charged)
    BY DEF FundInv
<1>1. CASE SkipLockLost(p)
    BY <1>1, <1>a, <1>b, FundKeeps
       DEF SkipLockLost, Finish, Idle, FundRow, At, SessionRow, rowVars, externalVars, Unfunded,
           Acknowledge, TransferHook
<1>2. CASE SkipAlreadyRecorded(p)
    BY <1>2, <1>a, <1>b, FundKeeps
       DEF SkipAlreadyRecorded, WinsLock, Finish, Idle, FundRow, At, SessionRow, rowVars,
           externalVars, Unfunded, Acknowledge, TransferHook
<1>3. CASE TakeLock(p)
    BY <1>3, <1>a, <1>b, FundKeeps
       DEF TakeLock, WinsLock, FundRow, At, SessionRow, rowVars, externalVars, Unfunded,
           Acknowledge, TransferHook
<1>4. CASE HookMarks(p)
    BY <1>4, <1>a, <1>b, FundKeeps, FundMarks
       DEF HookMarks, Goto, FundRow, At, SessionRow, rowVars, externalVars, JobOf, Unfunded
<1>5. CASE HookRaises(p)
    BY <1>5, <1>a, <1>b, FundKeeps
       DEF HookRaises, Finish, Idle, FundRow, At, SessionRow, rowVars, externalVars, Unfunded,
           Acknowledge, TransferHook
<1>6. CASE HookFallback(p)
    BY <1>6, <1>a, <1>b, FundKeeps, Busy
       DEF HookFallback, Goto, FundRow, At, SessionRow, rowVars, externalVars, Unfunded,
           FallbackPayout, JobOf, TypeInv, TypeOK
<1>7. CASE HookFallbackPaid(p)
    BY <1>7, <1>a, <1>b, FundStep, FundOthers, Busy
       DEF HookFallbackPaid, Finish, Idle, FundRow, At, SessionRow, rowVars, externalVars,
           Unfunded, FallbackPayout, JobOf, Acknowledge, TypeInv, TypeOK
<1>8. CASE RecordTransaction(p)
    BY <1>8, <1>a, <1>b, FundStep, FundOthers
       DEF RecordTransaction, Finish, Idle, FundRow, At, SessionRow, rowVars, externalVars,
           Unfunded, Acknowledge
<1> QED
    BY <1>1, <1>2, <1>3, <1>4, <1>5, <1>6, <1>7, <1>8 DEF TransferHookStep

LEMMA ChargeHookFund ==
    ASSUME TypeInv, RowsInv, FundInv, NEW p \in Session, ChargeHookStep(p)
    PROVE  FundInv'
<1>a. session[p] \in SessionRow /\ session[p].todo \subseteq Task /\ RowOK(session[p])
    BY DEF RowsInv, TypeInv, TypeOK, SessionRow
<1>b. FundRow(session[p], Funded, charged)
    BY DEF FundInv
<1>1. CASE IgnoreShortCharge(p)
    BY <1>1, <1>a, <1>b, FundKeeps
       DEF IgnoreShortCharge, WinsLock, Finish, Idle, FundRow, At, SessionRow, rowVars,
           externalVars, Unfunded, Acknowledge, TransferHook
<1>2. CASE TakeChargeLock(p)
    BY <1>2, <1>a, <1>b, FundKeeps
       DEF TakeChargeLock, WinsLock, Goto, FundRow, At, SessionRow, rowVars, externalVars,
           Unfunded, Acknowledge, TransferHook
<1>3. CASE RecordCharge(p)
    BY <1>3, FundRecords
<1>4. CASE MarkCustomerPaid(p)
    BY <1>4, <1>a, <1>b, FundKeeps
       DEF MarkCustomerPaid, FundRow, At, SessionRow, rowVars, externalVars, Unfunded,
           Acknowledge, TransferHook
<1>5. CASE AlreadyPaid(p)
    BY <1>5, <1>a, <1>b, FundKeeps
       DEF AlreadyPaid, Goto, FundRow, At, SessionRow, rowVars, externalVars, Unfunded,
           Acknowledge, TransferHook
<1>6. CASE UpdatePayoutPaid(p)
    BY <1>6, <1>a, <1>b, FundKeeps
       DEF UpdatePayoutPaid, FundRow, At, SessionRow, rowVars, externalVars, Unfunded,
           Acknowledge, TransferHook
<1>7. CASE NotifyPayer(p)
    BY <1>7, <1>a, <1>b, FundKeeps, FundCommits
       DEF NotifyPayer, Finish, Idle, FundRow, At, SessionRow, rowVars, externalVars, Unfunded,
           Acknowledge
<1> QED
    BY <1>1, <1>2, <1>3, <1>4, <1>5, <1>6, <1>7 DEF ChargeHookStep

LEMMA PayoutFund ==
    ASSUME TypeInv, RowsInv, FundInv, NEW p \in Session, PayoutStep(p)
    PROVE  FundInv'
<1>a. session[p] \in SessionRow /\ session[p].todo \subseteq Task /\ RowOK(session[p])
    BY DEF RowsInv, TypeInv, TypeOK, SessionRow
<1>b. FundRow(session[p], Funded, charged)
    BY DEF FundInv
<1>1. CASE ReadDebt(p)
    BY <1>1, <1>a, <1>b, FundKeeps
       DEF ReadDebt, FundRow, At, SessionRow, rowVars, externalVars, Unfunded, Acknowledge,
           TransferHook
<1>2. CASE OffsetDebt(p)
    BY <1>2, <1>a, <1>b, FundKeeps, FundCommits
       DEF OffsetDebt, OffsetEntry, FundRow, At, SessionRow, rowVars, externalVars, Unfunded
<1>3. CASE RecordOffset(p)
    BY <1>3, <1>a, <1>b, FundKeeps
       DEF RecordOffset, Goto, FundRow, At, SessionRow, rowVars, externalVars, Unfunded,
           Acknowledge, TransferHook
<1>4. CASE FindTransfer(p)
    BY <1>4, <1>a, <1>b, FundKeeps
       DEF FindTransfer, Goto, FundRow, At, SessionRow, rowVars, externalVars, Unfunded,
           Acknowledge, TransferHook
<1>5. CASE InsertTransfer(p)
    BY <1>5, <1>a, <1>b, FundKeeps, FundCommits, Busy
       DEF InsertTransfer, FundRow, At, SessionRow, rowVars, externalVars, Unfunded, JobOf,
           TypeInv, TypeOK
<1>6. CASE InsertRaises(p)
    BY <1>6, <1>a, <1>b, FundKeeps
       DEF InsertRaises, Finish, Idle, FundRow, At, SessionRow, rowVars, externalVars, Unfunded,
           Acknowledge, TransferHook
<1>7. CASE EnqueueTransfer(p)
    BY <1>7, <1>a, <1>b, FundKeeps
       DEF EnqueueTransfer, Goto, FundRow, At, SessionRow, rowVars, externalVars, Unfunded,
           Acknowledge, TransferHook
<1>8. CASE MarkInitiated(p)
    BY <1>8, <1>a, <1>b, FundKeeps, Busy
       DEF MarkInitiated, FundRow, At, SessionRow, rowVars, externalVars, Unfunded, JobOf,
           TypeInv, TypeOK
<1>9. CASE MarkTaskInitiated(p)
    BY <1>9, <1>a, <1>b, FundKeeps
       DEF MarkTaskInitiated, Finish, Goto, Idle, FundRow, At, SessionRow, rowVars, externalVars,
           Unfunded, Acknowledge, TransferHook
<1> QED
    BY <1>1, <1>2, <1>3, <1>4, <1>5, <1>6, <1>7, <1>8, <1>9 DEF PayoutStep

LEMMA FundNext == TypeInv /\ RowsInv /\ FundInv /\ [Next]_vars => FundInv'
<1> SUFFICES ASSUME TypeInv, RowsInv, FundInv, [Next]_vars
             PROVE  FundInv'
    OBVIOUS
<1>1. ASSUME NEW p \in Session, NEW t \in Task, NEW a \in Answer,
             ReconcileUnreachable(p, t) \/ ReconcileLookup(p, t, a)
      PROVE  FundInv'
  <2>1. session[p] \in SessionRow /\ FundRow(session[p], Funded, charged) /\ RowOK(session[p])
    BY DEF TypeInv, TypeOK, FundInv, RowsInv
  <2>2. CASE ReconcileUnreachable(p, t)
    BY <2>1, <2>2, FundKeeps
       DEF ReconcileUnreachable, Finish, Idle, At, rowVars, externalVars, SessionRow, FundRow, Unfunded
  <2>3. CASE ReconcileLookup(p, t, a)
    <3> DEFINE w == [session[p] EXCEPT !.pc = "answer", !.task = t, !.ans = a, !.todo = @ \ {t}]
    <3>1. /\ w.pc = "answer" /\ w.task = t /\ w.pend = session[p].pend
          /\ w.todo = session[p].todo \ {t}
      BY <2>1 DEF SessionRow
    <3>2. Become(p, w) /\ t \in session[p].todo
      BY <2>3 DEF ReconcileLookup
    <3> HIDE DEF w
    <3>3. FundRow(w, Funded, charged)
      BY <2>1, <3>1, <3>2 DEF FundRow
    <3> QED
      BY <2>3, <3>2, <3>3, FundKeeps DEF ReconcileLookup, rowVars, externalVars
  <2> QED
    BY <1>1, <2>2, <2>3
<1>2. ASSUME NEW p \in Session, HandlerStep(p)
      PROVE  FundInv'
    BY <1>1, <1>2, Statuses, WorkerFund, TransferHookFund, ChargeHookFund, PayoutFund
       DEF HandlerStep
<1>3. ASSUME NEW p \in Session, StartReconcile(p)
      PROVE  FundInv'
  <2>1. StaleTransfers \subseteq Funded
    BY DEF StaleTransfers, FundInv
  <2> QED
    BY <1>3, <2>1, FundKeeps DEF StartReconcile, Idle, FundRow, Unfunded, rowVars, externalVars
<1>4. ASSUME NEW p \in Session, NEW t \in Task, ProcessTransfer(p, t)
      PROVE  FundInv'
  <2>1. t \in Funded /\ transfer[t].status # "NONE"
    BY <1>4 DEF ProcessTransfer, Processable, FundInv
  <2>2. \A u \in Task : transfer'[u].status # "NONE" => transfer[u].status # "NONE"
    BY <1>4, <2>1 DEF ProcessTransfer, TypeInv, TypeOK
  <2> QED
    BY <1>4, <2>1, <2>2, FundKeeps DEF ProcessTransfer, Idle, FundRow
<1>5. ASSUME NEW p \in Session, NEW t \in Task, StartPayout(p, t)
      PROVE  FundInv'
  <2>1. t \in Funded
    BY <1>5 DEF StartPayout, FundInv
  <2> QED
    BY <1>5, <2>1, FundKeeps DEF StartPayout, Idle, FundRow, rowVars, externalVars
<1>6. ASSUME NEW p \in Session, NEW e \in hooks,
             ReceiveTransferHook(p, e) \/ ReceiveChargeHook(p, e)
      PROVE  FundInv'
  <2>1. FundHook(e, Funded, charged)
    BY DEF FundInv
  <2> QED
    BY <1>6, <2>1, FundKeeps
       DEF ReceiveTransferHook, ReceiveChargeHook, Idle, FundRow, FundHook, Unfunded, TransferHook, externalVars
<1>7. ASSUME NEW p \in Session, Crash(p)
      PROVE  FundInv'
    BY <1>7, FundKeeps DEF Crash, Finish, Idle, FundRow, Unfunded, externalVars
<1>8. CASE /\ UNCHANGED <<payout, txns, session>>
           /\ \A t \in Task : charged[t] \subseteq charged'[t]
           /\ \A t \in Task : transfer'[t].status = transfer[t].status
           /\ \A e \in hooks' : e \in hooks \/ FundHook(e, {}, charged')
  <2>1. Funded \subseteq Funded'
    BY <1>8, FundGrows
  <2>2. \A p \in Session : session[p].role = "charge.success" /\ session[p].pc \in {"charge_lock", "charge_tx"} =>
            session[p].task \in Task
    BY Busy DEF At
  <2>3. \A e \in hooks : e.task \in Task
    BY DEF TypeInv, TypeOK, Event
  <2>4. \A p \in Session : FundRow(session'[p], Funded', charged')
    BY <1>8, <2>1, <2>2 DEF FundInv, FundRow
  <2>5. \A e \in hooks' : FundHook(e, Funded', charged')
    BY <1>8, <2>1, <2>3 DEF FundInv, FundHook
  <2> QED
    BY <1>8, <2>1, <2>4, <2>5 DEF FundInv
<1>9. ASSUME NEW t \in Task, RetryFallsDue(t) \/ AttemptGoesStale(t)
      PROVE  FundInv'
  <2>1. transfer \in [Task -> TransferRow]
    BY DEF TypeInv, TypeOK
  <2>2. \/ transfer' = [transfer EXCEPT ![t].due = TRUE]
        \/ transfer' = [transfer EXCEPT ![t].stale = TRUE]
    BY <1>9 DEF RetryFallsDue, AttemptGoesStale
  <2>3. \A u \in Task : transfer'[u].status = transfer[u].status
    BY <2>1, <2>2 DEF TransferRow
  <2> QED
    BY <1>8, <1>9, <2>3 DEF RetryFallsDue, AttemptGoesStale, externalVars
<1>10. ASSUME NEW t \in Task, NEW r \in Ref, CustomerPays(t, r) \/ CustomerCardFails(t, r)
       PROVE  FundInv'
  <2>1. \A u \in Task : charged[u] \subseteq charged'[u]
    BY <1>10 DEF CustomerPays, CustomerCardFails, TypeInv, TypeOK
  <2>2. \A e \in hooks' : e \in hooks \/ FundHook(e, {}, charged')
    BY <1>10 DEF CustomerPays, CustomerCardFails, FundHook, TransferHook, TypeInv, TypeOK
  <2> QED
    BY <1>8, <1>10, <2>1, <2>2 DEF CustomerPays, CustomerCardFails, rowVars
<1>11. ASSUME NEW t \in Task, Background(t) \/ Customer(t)
       PROVE  FundInv'
    BY <1>8, <1>9, <1>10, <1>11 DEF Background, Customer, SkipTransfer, RecoverStuckTransfer, rowVars
<1>12. CASE UNCHANGED vars
    BY <1>8, <1>12 DEF vars
<1> QED
    BY <1>2, <1>3, <1>4, <1>5, <1>6, <1>7, <1>11, <1>12 DEF Next, HandlerStart

\* No transfer is created, for any customer, charge, payout trigger and
\* crash, before a charge of the task's full price is recorded.
THEOREM NoTransferBeforeCharge == Spec => []PaidOnlyAfterCharge
<1>1. Init => FundInv
    BY DEF Init, FundInv, FundRow, Unfunded, Idle, NoTransfer
<1>2. FundInv => PaidOnlyAfterCharge
    BY DEF FundInv, Funded, ChargeEvent, PaidOnlyAfterCharge
<1> QED
    BY <1>1, <1>2, FundNext, Typing, Control, PTL DEF Spec

-----------------------------------------------------------------------------
(***************************************************************************)
(* The debt ledger.  What is settled is covered by what was taken off the  *)
(* debt, with what handlers have deducted and not yet recorded: Unrecorded *)
(* holds one element per unit of money, so the sum is a cardinality.       *)
(***************************************************************************)
Unrecorded == {x \in Session \X Nat : At(x[1], "settle") /\ x[2] \in 1 .. session[x[1]].n}

LedgerInv ==
    /\ IsFiniteSet(Unrecorded)
    /\ settled + Cardinality(Unrecorded) <= Debt0 - debt

\* A handler that has nothing to record afterwards, and moved no money.
LEMMA LedgerAway ==
    ASSUME TypeInv, LedgerInv, NEW p \in Session, NEW w, Become(p, w), w.pc # "settle",
           debt' = debt, settled' = settled
    PROVE  LedgerInv'
<1>1. \A q \in Session : session'[q] = IF q = p THEN w ELSE session[q]
    BY DEF Become, TypeInv
<1>2. Unrecorded' \subseteq Unrecorded
    BY <1>1 DEF Unrecorded, At
<1>3. /\ IsFiniteSet(Unrecorded')
      /\ Cardinality(Unrecorded') <= Cardinality(Unrecorded)
      /\ Cardinality(Unrecorded') \in Nat /\ Cardinality(Unrecorded) \in Nat
    BY <1>2, FS_Subset, FS_CardinalityType DEF LedgerInv
<1>4. debt \in Int /\ settled \in Nat /\ Debt0 \in Int
    BY ConstantsAssumption DEF TypeInv, TypeOK
<1> QED
    BY <1>3, <1>4 DEF LedgerInv

\* The units of one handler.
Units(p, n) == {<<p, i>> : i \in 1 .. n}

LEMMA UnitsCounted ==
    ASSUME NEW p, NEW n \in Nat
    PROVE  IsFiniteSet(Units(p, n)) /\ Cardinality(Units(p, n)) = n
<1> DEFINE f == [i \in 1 .. n |-> <<p, i>>]
<1>1. IsFiniteSet(1 .. n) /\ Cardinality(1 .. n) = n
    BY FS_Interval
<1>2. f \in Bijection(1 .. n, Units(p, n))
    BY DEF Bijection, Injection, Surjection, IsInjective, Units
<1> HIDE DEF f
<1>3. ExistsBijection(1 .. n, Units(p, n))
    BY <1>2 DEF ExistsBijection
<1> QED
    BY <1>1, <1>3, FS_Bijection

\* The deduction, committed before its settlement is recorded.
LEMMA LedgerDeducts ==
    ASSUME TypeInv, LedgerInv, NEW p \in Session, OffsetDebt(p)
    PROVE  LedgerInv'
<1> DEFINE n == session[p].n
           mine == Units(p, n)
<1>1. session[p] \in SessionRow /\ n \in Nat
    BY DEF TypeInv, TypeOK, SessionRow
<1>2. \A q \in Session :
          session'[q] = IF q = p THEN [session[p] EXCEPT !.pc = "settle", !.pend = FALSE] ELSE session[q]
    BY DEF OffsetDebt, OffsetEntry, Become, TypeInv
<1>3. session'[p].pc = "settle" /\ session'[p].n = n
    BY <1>1, <1>2 DEF SessionRow
<1>4. Unrecorded' = Unrecorded \cup mine
  <2>1. \A x \in Session \X Nat :
            x \in mine <=> x[1] = p /\ x[2] \in 1 .. n
    BY <1>1 DEF Units
  <2>2. mine \subseteq Session \X Nat
    BY <1>1 DEF Units
  <2>3. ~At(p, "settle")
    BY DEF OffsetDebt, OffsetEntry, At
  <2> HIDE DEF mine, n
  <2> QED
    BY <1>2, <1>3, <2>1, <2>2, <2>3 DEF Unrecorded, At
<1>5. IsFiniteSet(mine) /\ Cardinality(mine) = n
    BY <1>1, UnitsCounted
<1> HIDE DEF mine
<1>6. /\ IsFiniteSet(Unrecorded \cup mine)
      /\ Cardinality(Unrecorded \cup mine) <= Cardinality(Unrecorded) + n
  <2>1. /\ IsFiniteSet(Unrecorded \cup mine)
        /\ IsFiniteSet(Unrecorded \cap mine)
        /\ Cardinality(Unrecorded \cup mine) =
               Cardinality(Unrecorded) + n - Cardinality(Unrecorded \cap mine)
    BY <1>5, FS_Union, FS_Intersection DEF LedgerInv
  <2>2. Cardinality(Unrecorded \cap mine) \in Nat /\ Cardinality(Unrecorded) \in Nat
    BY <2>1, FS_CardinalityType DEF LedgerInv
  <2> QED
    BY <1>1, <2>1, <2>2
<1>7. Cardinality(Unrecorded \cup mine) \in Nat /\ Cardinality(Unrecorded) \in Nat
    BY <1>6, FS_CardinalityType DEF LedgerInv
<1>8. debt \in Int /\ settled \in Nat /\ Debt0 \in Int
    BY ConstantsAssumption DEF TypeInv, TypeOK
<1>9. debt' = debt - n /\ settled' = settled
    BY <1>1, <1>8 DEF OffsetDebt, OffsetEntry
<1> HIDE DEF n
<1> QED
    BY <1>1, <1>4, <1>6, <1>7, <1>8, <1>9 DEF LedgerInv

\* The record of the settlement.
LEMMA LedgerRecords ==
    ASSUME TypeInv, LedgerInv, NEW p \in Session, RecordOffset(p)
    PROVE  LedgerInv'
<1> DEFINE n == session[p].n
           mine == Units(p, n)
<1>1. session[p] \in SessionRow /\ n \in Nat
    BY DEF TypeInv, TypeOK, SessionRow
<1>2. \A q \in Session :
          session'[q] = IF q = p THEN [session[p] EXCEPT !.pc = "find"] ELSE session[q]
    BY DEF RecordOffset, Goto, Become, TypeInv
<1>3. session'[p].pc = "find"
    BY <1>1, <1>2 DEF SessionRow
<1>4. Unrecorded' \subseteq Unrecorded \ mine /\ mine \subseteq Unrecorded
  <2>1. \A x \in Session \X Nat :
            x \in mine <=> x[1] = p /\ x[2] \in 1 .. n
    BY <1>1 DEF Units
  <2>2. mine \subseteq Session \X Nat
    BY <1>1 DEF Units
  <2>3. At(p, "settle")
    BY DEF RecordOffset
  <2> HIDE DEF mine
  <2> QED
    BY <1>2, <1>3, <2>1, <2>2, <2>3 DEF Unrecorded, At
<1>5. IsFiniteSet(mine) /\ Cardinality(mine) = n
    BY <1>1, UnitsCounted
<1> HIDE DEF mine
<1>6. /\ IsFiniteSet(Unrecorded \ mine)
      /\ Cardinality(Unrecorded \ mine) = Cardinality(Unrecorded) - n
  <2>1. Unrecorded \cap mine = mine
    BY <1>4
  <2>2. /\ IsFiniteSet(Unrecorded \ mine)
        /\ Cardinality(Unrecorded \ mine) =
               Cardinality(Unrecorded) - Cardinality(Unrecorded \cap mine)
    BY FS_Difference DEF LedgerInv
  <2> QED
    BY <1>5, <2>1, <2>2
<1>7. /\ IsFiniteSet(Unrecorded')
      /\ Cardinality(Unrecorded') <= Cardinality(Unrecorded) - n
    BY <1>4, <1>6, FS_Subset
<1>8. Cardinality(Unrecorded') \in Nat /\ Cardinality(Unrecorded) \in Nat
    BY <1>7, FS_CardinalityType DEF LedgerInv
<1>9. debt \in Int /\ settled \in Nat /\ Debt0 \in Int
    BY ConstantsAssumption DEF TypeInv, TypeOK
<1>10. debt' = debt /\ settled' = settled + n
    BY DEF RecordOffset
<1> HIDE DEF n
<1> QED
    BY <1>1, <1>7, <1>8, <1>9, <1>10 DEF LedgerInv

LEMMA WorkerLedger ==
    ASSUME TypeInv, LedgerInv, NEW p \in Session, WorkerStep(p)
    PROVE  LedgerInv'
<1>a. session[p] \in SessionRow
    BY DEF TypeInv, TypeOK
<1>1. CASE NoPaymentAccount(p)
    BY <1>1, <1>a, LedgerAway DEF NoPaymentAccount, At, SessionRow, rowVars
<1>2. CASE GatewayPays(p)
    BY <1>2, <1>a, LedgerAway DEF GatewayPays, Answered, At, SessionRow, rowVars
<1>3. CASE GatewayRejects(p)
    BY <1>3, <1>a, LedgerAway DEF GatewayRejects, Answered, At, SessionRow, rowVars
<1>4. CASE GatewayUnreachable(p)
    BY <1>4, <1>a, LedgerAway DEF GatewayUnreachable, Answered, At, SessionRow, rowVars
<1>5. CASE Mark(p)
    BY <1>5, <1>a, LedgerAway DEF Mark, Goto, At, SessionRow, rowVars
<1>6. CASE LoadPayout(p)
    BY <1>6, <1>a, LedgerAway DEF LoadPayout, At, SessionRow, rowVars
<1>7. CASE MarkPayout(p)
    BY <1>7, <1>a, LedgerAway DEF MarkPayout, At, SessionRow, rowVars
<1>8. CASE MarkTask(p)
    BY <1>8, <1>a, LedgerAway DEF MarkTask, AfterMark, Idle, At, SessionRow, rowVars
<1>9. CASE RecordAttempt(p)
    BY <1>9, <1>a, LedgerAway
       DEF RecordAttempt, AttemptOf, Finish, Goto, Idle, At, SessionRow, rowVars
<1>10. CASE Reenqueue(p)
    BY <1>10, <1>a, LedgerAway DEF Reenqueue, Finish, Idle, At, SessionRow, rowVars
<1> QED
    BY <1>1, <1>2, <1>3, <1>4, <1>5, <1>6, <1>7, <1>8, <1>9, <1>10 DEF WorkerStep

LEMMA TransferHookLedger ==
    ASSUME TypeInv, LedgerInv, NEW p \in Session, TransferHookStep(p)
    PROVE  LedgerInv'
<1>a. session[p] \in SessionRow
    BY DEF TypeInv, TypeOK
<1>1. CASE SkipLockLost(p)
    BY <1>1, <1>a, LedgerAway DEF SkipLockLost, Finish, Idle, At, SessionRow, rowVars
<1>2. CASE SkipAlreadyRecorded(p)
    BY <1>2, <1>a, LedgerAway
       DEF SkipAlreadyRecorded, WinsLock, Finish, Idle, At, SessionRow, rowVars
<1>3. CASE TakeLock(p)
    BY <1>3, <1>a, LedgerAway DEF TakeLock, WinsLock, At, SessionRow, rowVars
<1>4. CASE HookMarks(p)
    BY <1>4, <1>a, LedgerAway DEF HookMarks, Goto, At, SessionRow, rowVars
<1>5. CASE HookRaises(p)
    BY <1>5, <1>a, LedgerAway DEF HookRaises, Finish, Idle, At, SessionRow, rowVars
<1>6. CASE HookFallback(p)
    BY <1>6, <1>a, LedgerAway DEF HookFallback, Goto, At, SessionRow, rowVars
<1>7. CASE HookFallbackPaid(p)
    BY <1>7, <1>a, LedgerAway DEF HookFallbackPaid, Finish, Idle, At, SessionRow, rowVars
<1>8. CASE RecordTransaction(p)
    BY <1>8, <1>a, LedgerAway DEF RecordTransaction, Finish, Idle, At, SessionRow, rowVars
<1> QED
    BY <1>1, <1>2, <1>3, <1>4, <1>5, <1>6, <1>7, <1>8 DEF TransferHookStep

LEMMA ChargeHookLedger ==
    ASSUME TypeInv, LedgerInv, NEW p \in Session, ChargeHookStep(p)
    PROVE  LedgerInv'
<1>a. session[p] \in SessionRow
    BY DEF TypeInv, TypeOK
<1>1. CASE IgnoreShortCharge(p)
    BY <1>1, <1>a, LedgerAway DEF IgnoreShortCharge, WinsLock, Finish, Idle, At, SessionRow, rowVars
<1>2. CASE TakeChargeLock(p)
    BY <1>2, <1>a, LedgerAway DEF TakeChargeLock, WinsLock, Goto, At, SessionRow, rowVars
<1>3. CASE RecordCharge(p)
    BY <1>3, <1>a, LedgerAway DEF RecordCharge, AfterCharge, At, SessionRow, rowVars
<1>4. CASE MarkCustomerPaid(p)
    BY <1>4, <1>a, LedgerAway DEF MarkCustomerPaid, At, SessionRow, rowVars
<1>5. CASE AlreadyPaid(p)
    BY <1>5, <1>a, LedgerAway DEF AlreadyPaid, Goto, At, SessionRow, rowVars
<1>6. CASE UpdatePayoutPaid(p)
    BY <1>6, <1>a, LedgerAway DEF UpdatePayoutPaid, At, SessionRow, rowVars
<1>7. CASE NotifyPayer(p)
    BY <1>7, <1>a, LedgerAway DEF NotifyPayer, Finish, Idle, At, SessionRow, rowVars
<1> QED
    BY <1>1, <1>2, <1>3, <1>4, <1>5, <1>6, <1>7 DEF ChargeHookStep

LEMMA PayoutLedger ==
    ASSUME TypeInv, LedgerInv, NEW p \in Session, PayoutStep(p)
    PROVE  LedgerInv'
<1>a. session[p] \in SessionRow
    BY DEF TypeInv, TypeOK
<1>1. CASE ReadDebt(p)
    BY <1>1, <1>a, LedgerAway DEF ReadDebt, At, SessionRow, rowVars
<1>2. CASE OffsetDebt(p)
    BY <1>2, LedgerDeducts
<1>3. CASE RecordOffset(p)
    BY <1>3, LedgerRecords
<1>4. CASE FindTransfer(p)
    BY <1>4, <1>a, LedgerAway DEF FindTransfer, Goto, At, SessionRow, rowVars
<1>5. CASE InsertTransfer(p)
    BY <1>5, <1>a, LedgerAway DEF InsertTransfer, At, SessionRow, rowVars
<1>6. CASE InsertRaises(p)
    BY <1>6, <1>a, LedgerAway DEF InsertRaises, Finish, Idle, At, SessionRow, rowVars
<1>7. CASE EnqueueTransfer(p)
    BY <1>7, <1>a, LedgerAway DEF EnqueueTransfer, Goto, At, SessionRow, rowVars
<1>8. CASE MarkInitiated(p)
    BY <1>8, <1>a, LedgerAway DEF MarkInitiated, At, SessionRow, rowVars
<1>9. CASE MarkTaskInitiated(p)
    BY <1>9, <1>a, LedgerAway DEF MarkTaskInitiated, Finish, Goto, Idle, At, SessionRow, rowVars
<1> QED
    BY <1>1, <1>2, <1>3, <1>4, <1>5, <1>6, <1>7, <1>8, <1>9 DEF PayoutStep

LEMMA LedgerNext == TypeInv /\ LedgerInv /\ [Next]_vars => LedgerInv'
<1> SUFFICES ASSUME TypeInv, LedgerInv, [Next]_vars
             PROVE  LedgerInv'
    OBVIOUS
<1>1. ASSUME NEW p \in Session, NEW t \in Task, NEW a \in Answer,
             ReconcileUnreachable(p, t) \/ ReconcileLookup(p, t, a)
      PROVE  LedgerInv'
  <2>1. session[p] \in SessionRow
    BY DEF TypeInv, TypeOK
  <2> QED
    BY <1>1, <2>1, LedgerAway
       DEF ReconcileUnreachable, ReconcileLookup, Finish, Idle, At, rowVars, SessionRow
<1>2. ASSUME NEW p \in Session, HandlerStep(p)
      PROVE  LedgerInv'
    BY <1>1, <1>2, Statuses, WorkerLedger, TransferHookLedger, ChargeHookLedger, PayoutLedger
       DEF HandlerStep
<1>3. ASSUME NEW p \in Session, StartReconcile(p)
      PROVE  LedgerInv'
    BY <1>3, LedgerAway DEF StartReconcile, Idle, rowVars
<1>4. ASSUME NEW p \in Session, NEW t \in Task, ProcessTransfer(p, t) \/ StartPayout(p, t)
      PROVE  LedgerInv'
    BY <1>4, LedgerAway DEF ProcessTransfer, StartPayout, Idle, rowVars
<1>5. ASSUME NEW p \in Session, NEW e \in hooks,
             ReceiveTransferHook(p, e) \/ ReceiveChargeHook(p, e)
      PROVE  LedgerInv'
    BY <1>5, LedgerAway DEF ReceiveTransferHook, ReceiveChargeHook, Idle
<1>6. ASSUME NEW p \in Session, Crash(p)
      PROVE  LedgerInv'
    BY <1>6, LedgerAway DEF Crash, Finish, Idle
<1>7. CASE UNCHANGED <<debt, settled, session>>
  <2>1. Unrecorded' = Unrecorded
    BY <1>7 DEF Unrecorded, At
  <2> QED
    BY <1>7, <2>1 DEF LedgerInv
<1>8. ASSUME NEW t \in Task, Background(t) \/ Customer(t)
      PROVE  LedgerInv'
    BY <1>7, <1>8 DEF Background, Customer, SkipTransfer, RecoverStuckTransfer, RetryFallsDue,
                      AttemptGoesStale, CustomerPays, CustomerCardFails, rowVars
<1> QED
    BY <1>2, <1>3, <1>4, <1>5, <1>6, <1>7, <1>8 DEF Next, HandlerStart, vars

\* Every settlement recorded as a Transaction is an entry of the debt
\* ledger, however many payouts of the provider run at once and wherever
\* they die: the two are committed by different transactions.
THEOREM SettlementsAreCovered == Spec => []LedgerCoversSettlements
<1>1. Init => LedgerInv
  <2> SUFFICES ASSUME Init PROVE LedgerInv
    OBVIOUS
  <2>1. Unrecorded = {}
    BY DEF Init, Unrecorded, At, Idle
  <2> QED
    BY <2>1, FS_EmptySet, ConstantsAssumption DEF Init, LedgerInv
<1>2. TypeInv /\ LedgerInv => LedgerCoversSettlements
  <2> SUFFICES ASSUME TypeInv, LedgerInv PROVE LedgerCoversSettlements
    OBVIOUS
  <2>1. Cardinality(Unrecorded) \in Nat
    BY FS_CardinalityType DEF LedgerInv
  <2> QED
    BY <2>1, ConstantsAssumption DEF LedgerInv, LedgerCoversSettlements, TypeInv, TypeOK
<1> QED
    BY <1>1, <1>2, LedgerNext, Typing, PTL DEF Spec

-----------------------------------------------------------------------------
(***************************************************************************)
(* The audit log.  A worker owes the record of its attempt from the start  *)
(* of the call until it writes it: the attempt's number is its alone, is   *)
(* not in the log yet and was counted in the row.                          *)
(***************************************************************************)
Unlogged(w) ==
    \/ w.pc = "log"
    \/ w.role = "worker" /\ w.pc \in {"called", "answer", "load", "payout", "task"}

Owes(w, t, n) == Unlogged(w) /\ w.task = t /\ w.n = n

AuditInv ==
    /\ AuditSound
    /\ \A t \in Task : transfer[t].status = "NONE" => transfer[t].attempts = 0
    /\ \A p \in Session, t \in Task : Unlogged(session[p]) /\ session[p].task = t =>
           /\ session[p].n \in 1 .. transfer[t].attempts
           /\ \A a \in attemptLog[t] : a.number # session[p].n
    /\ \A p, q \in Session, t \in Task, n \in Nat :
           Owes(session[p], t, n) /\ Owes(session[q], t, n) => p = q

\* A step that writes no record and starts no attempt.
LEMMA AuditStep ==
    ASSUME TypeInv, AuditInv, NEW p \in Session, NEW w, Become(p, w), attemptLog' = attemptLog,
           Unlogged(w) =>
               Unlogged(session[p]) /\ w.task = session[p].task /\ w.n = session[p].n,
           \A t \in Task :
               /\ paid[t] => paid'[t]
               /\ transfer'[t].attempts = transfer[t].attempts
               /\ transfer'[t].status = "NONE" => transfer[t].status = "NONE"
    PROVE  AuditInv'
<1>1. \A q \in Session : session'[q] = IF q = p THEN w ELSE session[q]
    BY DEF Become, TypeInv
<1>2. AuditSound'
    BY DEF AuditInv, AuditSound
<1>3. \A q \in Session : Unlogged(session'[q]) =>
          Unlogged(session[q]) /\ session'[q].task = session[q].task /\ session'[q].n = session[q].n
    BY <1>1
<1>4. \A t \in Task : transfer'[t].status = "NONE" => transfer'[t].attempts = 0
    BY DEF AuditInv
<1>5. \A q \in Session, t \in Task : Unlogged(session'[q]) /\ session'[q].task = t =>
          /\ session'[q].n \in 1 .. transfer'[t].attempts
          /\ \A a \in attemptLog'[t] : a.number # session'[q].n
    BY <1>3 DEF AuditInv
<1>6. \A q, r \in Session, t \in Task, n \in Nat :
          Owes(session'[q], t, n) /\ Owes(session'[r], t, n) => q = r
  <2>1. \A q \in Session, t \in Task, n \in Nat : Owes(session'[q], t, n) => Owes(session[q], t, n)
    BY <1>3 DEF Owes
  <2> QED
    BY <2>1 DEF AuditInv
<1> QED
    BY <1>2, <1>4, <1>5, <1>6 DEF AuditInv

\* A transition counts nothing.
LEMMA AuditTransition ==
    ASSUME TypeInv, NEW t \in Task, NEW s \in TransferStatus,
           transfer' = [transfer EXCEPT ![t] = Transition(@, s)]
    PROVE  \A u \in Task :
               /\ transfer'[u].attempts = transfer[u].attempts
               /\ transfer'[u].status = "NONE" => transfer[u].status = "NONE"
<1>1. transfer \in [Task -> TransferRow]
    BY DEF TypeInv, TypeOK
<1>2. \A u \in Task : transfer'[u] = IF u = t THEN Transition(transfer[t], s) ELSE transfer[u]
    BY <1>1
<1>3. Transition(transfer[t], s).attempts = transfer[t].attempts /\ Transition(transfer[t], s).status = s
    BY <1>1 DEF Transition, TransferRow
<1> QED
    BY <1>2, <1>3 DEF TransferStatus

\* The insert of a transfer: the row it makes counts from 0 again, as the
\* missing one did.
LEMMA AuditInsert ==
    ASSUME TypeInv, AuditInv, NEW p \in Session, InsertTransfer(p)
    PROVE  \A u \in Task :
               /\ transfer'[u].attempts = transfer[u].attempts
               /\ transfer'[u].status = "NONE" => transfer[u].status = "NONE"
<1>1. transfer \in [Task -> TransferRow] /\ session[p].task \in Task
    BY Busy DEF InsertTransfer, At, TypeInv, TypeOK
<1>2. transfer[session[p].task].attempts = 0
    BY <1>1 DEF InsertTransfer, JobOf, AuditInv
<1>3. NewTransfer.attempts = 0 /\ NewTransfer.status = "PENDING"
    BY DEF NewTransfer, NoTransfer
<1>4. \A u \in Task : transfer'[u] = IF u = session[p].task THEN NewTransfer ELSE transfer[u]
    BY <1>1 DEF InsertTransfer, JobOf
<1> QED
    BY <1>2, <1>3, <1>4

\* The start of an attempt takes the next number.
LEMMA AuditStarts ==
    ASSUME TypeInv, AuditInv, NEW p \in Session, NEW t \in Task, ProcessTransfer(p, t)
    PROVE  AuditInv'
<1> DEFINE k == transfer[t].attempts
           w == [Idle EXCEPT !.pc = "called", !.role = "worker", !.task = t, !.n = k + 1]
<1>1. transfer \in [Task -> TransferRow] /\ transfer[t] \in TransferRow /\ k \in Nat
    BY DEF TypeInv, TypeOK, TransferRow
<1>2. w.task = t /\ w.n = k + 1 /\ Unlogged(w)
    BY DEF Idle, Unlogged
<1>3. \A q \in Session : session'[q] = IF q = p THEN w ELSE session[q]
    BY DEF ProcessTransfer, Become, TypeInv
<1>4. /\ \A u \in Task \ {t} : transfer'[u] = transfer[u]
      /\ transfer'[t].attempts = k + 1 /\ transfer'[t].status = "PROCESSING"
    BY <1>1 DEF ProcessTransfer, TransferRow
<1>5. UNCHANGED <<attemptLog, paid>>
    BY DEF ProcessTransfer
<1> HIDE DEF k, w
<1>6. \A u \in Task : transfer[u].attempts \in Nat /\ transfer'[u].attempts \in Nat
      /\ transfer[u].attempts <= transfer'[u].attempts
    BY <1>1, <1>4 DEF TransferRow, k
<1>7. AuditSound'
  <2> SUFFICES ASSUME NEW u \in Task
               PROVE  /\ \A a, b \in attemptLog'[u] : a.number = b.number => a = b
                      /\ \A a \in attemptLog'[u] :
                             /\ a.number \in 1 .. transfer'[u].attempts
                             /\ a.status = "success" => paid'[u]
    BY DEF AuditSound
  <2> QED
    BY <1>5, <1>6 DEF AuditInv, AuditSound
<1>8. \A a \in attemptLog[t] : a.number <= k
    BY <1>1 DEF AuditInv, AuditSound, k
<1>9. \A q \in Session, u \in Task : Unlogged(session'[q]) /\ session'[q].task = u =>
          /\ session'[q].n \in 1 .. transfer'[u].attempts
          /\ \A a \in attemptLog'[u] : a.number # session'[q].n
  <2> SUFFICES ASSUME NEW q \in Session, NEW u \in Task,
                      Unlogged(session'[q]), session'[q].task = u
               PROVE  /\ session'[q].n \in 1 .. transfer'[u].attempts
                      /\ \A a \in attemptLog'[u] : a.number # session'[q].n
    OBVIOUS
  <2>1. CASE q = p
    <3>1. u = t /\ session'[q].n = k + 1
      BY <1>2, <1>3, <2>1
    <3>2. \A a \in attemptLog[t] : a.number # k + 1
      BY <1>1, <1>8 DEF AuditInv, AuditSound
    <3> QED
      BY <1>1, <1>4, <1>5, <3>1, <3>2
  <2>2. CASE q # p
    <3>1. session[q].n \in 1 .. transfer[u].attempts /\ \A a \in attemptLog[u] : a.number # session[q].n
      BY <1>3, <2>2 DEF AuditInv
    <3> QED
      BY <1>3, <1>5, <1>6, <2>2, <3>1
  <2> QED
    BY <2>1, <2>2
<1>10. \A q, r \in Session, u \in Task, n \in Nat :
           Owes(session'[q], u, n) /\ Owes(session'[r], u, n) => q = r
  <2>1. \A q \in Session : Owes(session[q], t, k + 1) => FALSE
    <3> SUFFICES ASSUME NEW q \in Session, Owes(session[q], t, k + 1) PROVE FALSE
      OBVIOUS
    <3>1. k + 1 \in 1 .. k
      BY DEF Owes, AuditInv, k
    <3> QED
      BY <1>1, <3>1
  <2>2. \A q \in Session, u \in Task, n \in Nat :
            Owes(session'[q], u, n) => \/ q = p /\ u = t /\ n = k + 1
                                       \/ q # p /\ Owes(session[q], u, n)
    BY <1>2, <1>3 DEF Owes
  <2> QED
    BY <2>1, <2>2 DEF AuditInv
<1>11. \A u \in Task : transfer'[u].status = "NONE" => transfer'[u].attempts = 0
    BY <1>4 DEF AuditInv
<1> QED
    BY <1>7, <1>9, <1>10, <1>11 DEF AuditInv

\* The record of an attempt: of a success only after the gateway paid.
LEMMA AuditRecords ==
    ASSUME TypeInv, PhantomInv, AuditInv, NEW p \in Session, RecordAttempt(p)
    PROVE  AuditInv'
<1> DEFINE t == session[p].task
           row == AttemptOf(session[p])
<1>1. session[p] \in SessionRow /\ t \in Task /\ session[p].n \in Nat
    BY Busy DEF RecordAttempt, At, TypeInv, TypeOK, SessionRow
<1>2. row.number = session[p].n /\ row.status = session[p].ans
    BY DEF AttemptOf
<1>3. Unlogged(session[p])
    BY DEF RecordAttempt, At, Unlogged
<1>4. PICK w : Become(p, w) /\ ~Unlogged(w)
    BY <1>1 DEF RecordAttempt, Finish, Goto, Idle, Unlogged, SessionRow
<1>5. \A q \in Session : session'[q] = IF q = p THEN w ELSE session[q]
    BY <1>4 DEF Become, TypeInv
<1>6. \A u \in Task : attemptLog'[u] = IF u = t THEN attemptLog[t] \cup {row} ELSE attemptLog[u]
    BY <1>1 DEF RecordAttempt, TypeInv, TypeOK
<1>7. UNCHANGED <<transfer, paid>>
    BY DEF RecordAttempt, externalVars
<1>8. session[p].ans = "success" => paid[t]
    BY DEF PhantomInv
<1>9. session[p].n \in 1 .. transfer[t].attempts /\ \A a \in attemptLog[t] : a.number # session[p].n
    BY <1>1, <1>3 DEF AuditInv
<1>10. \A q \in Session \ {p} : Unlogged(session[q]) /\ session[q].task = t => session[q].n # session[p].n
  <2>1. \A q \in Session : Unlogged(session[q]) /\ session[q].task = t /\ session[q].n = session[p].n
           => Owes(session[q], t, session[p].n)
    BY DEF Owes
  <2> QED
    BY <1>1, <1>3, <2>1 DEF AuditInv, Owes
<1> HIDE DEF t, row
<1>11. AuditSound'
  <2>1. \A u \in Task : \A a, b \in attemptLog'[u] : a.number = b.number => a = b
    BY <1>2, <1>6, <1>9 DEF AuditInv, AuditSound
  <2>2. \A u \in Task : \A a \in attemptLog'[u] :
            /\ a.number \in 1 .. transfer'[u].attempts
            /\ a.status = "success" => paid'[u]
    BY <1>2, <1>6, <1>7, <1>8, <1>9 DEF AuditInv, AuditSound
  <2> QED
    BY <2>1, <2>2 DEF AuditSound
<1>12. \A q \in Session : Unlogged(session'[q]) => q # p /\ session'[q] = session[q]
    BY <1>4, <1>5
<1>13. \A q \in Session, u \in Task : Unlogged(session'[q]) /\ session'[q].task = u =>
           /\ session'[q].n \in 1 .. transfer'[u].attempts
           /\ \A a \in attemptLog'[u] : a.number # session'[q].n
    BY <1>2, <1>6, <1>7, <1>10, <1>12 DEF AuditInv
<1>14. \A q, r \in Session, u \in Task, n \in Nat :
           Owes(session'[q], u, n) /\ Owes(session'[r], u, n) => q = r
    BY <1>12 DEF AuditInv, Owes
<1> QED
    BY <1>7, <1>11, <1>13, <1>14 DEF AuditInv

LEMMA WorkerAudit ==
    ASSUME TypeInv, RowsInv, PhantomInv, AuditInv, NEW p \in Session, WorkerStep(p)
    PROVE  AuditInv'
<1>a. session[p] \in SessionRow /\ RowOK(session[p])
    BY DEF RowsInv, TypeInv, TypeOK
<1>1. CASE NoPaymentAccount(p)
    BY <1>1, <1>a, AuditStep
       DEF NoPaymentAccount, Unlogged, RowOK, At, SessionRow, rowVars, externalVars
<1>2. CASE GatewayPays(p)
  <2>1. PICK b : Become(p, [session[p] EXCEPT !.pc = "answer", !.ans = b])
    BY <1>2 DEF GatewayPays, Answered
  <2>2. \A t \in Task : paid[t] => paid'[t]
    BY <1>2 DEF GatewayPays, TypeInv, TypeOK
  <2> QED
    BY <1>2, <1>a, <2>1, <2>2, AuditStep DEF GatewayPays, Unlogged, RowOK, At, SessionRow, rowVars
<1>3. CASE GatewayRejects(p)
    BY <1>3, <1>a, AuditStep
       DEF GatewayRejects, Answered, Unlogged, RowOK, At, SessionRow, rowVars, externalVars
<1>4. CASE GatewayUnreachable(p)
    BY <1>4, <1>a, AuditStep
       DEF GatewayUnreachable, Answered, Unlogged, RowOK, At, SessionRow, rowVars, externalVars
<1>5. CASE Mark(p)
  <2>1. session[p].task \in Task /\ Outcome(session[p]) \in TransferStatus
    BY <1>5, Busy DEF Mark, At, Outcome, TransferStatus
  <2>2. \A u \in Task :
            /\ transfer'[u].attempts = transfer[u].attempts
            /\ transfer'[u].status = "NONE" => transfer[u].status = "NONE"
    BY <1>5, <2>1, AuditTransition DEF Mark, JobOf
  <2> QED
    BY <1>5, <1>a, <2>2, AuditStep DEF Mark, Goto, Unlogged, RowOK, Outcome, TransferHook, At, SessionRow, externalVars
<1>6. CASE LoadPayout(p)
    BY <1>6, <1>a, AuditStep DEF LoadPayout, Unlogged, RowOK, At, SessionRow, rowVars, externalVars
<1>7. CASE MarkPayout(p)
    BY <1>7, <1>a, AuditStep DEF MarkPayout, Unlogged, RowOK, At, SessionRow, rowVars, externalVars
<1>8. CASE MarkTask(p)
    BY <1>8, <1>a, AuditStep
       DEF MarkTask, AfterMark, Idle, Unlogged, RowOK, At, SessionRow, rowVars, externalVars
<1>9. CASE RecordAttempt(p)
    BY <1>9, AuditRecords
<1>10. CASE Reenqueue(p)
    BY <1>10, <1>a, AuditStep
       DEF Reenqueue, Finish, Idle, Unlogged, RowOK, At, SessionRow, rowVars, externalVars
<1> QED
    BY <1>1, <1>2, <1>3, <1>4, <1>5, <1>6, <1>7, <1>8, <1>9, <1>10 DEF WorkerStep

LEMMA TransferHookAudit ==
    ASSUME TypeInv, RowsInv, AuditInv, NEW p \in Session, TransferHookStep(p)
    PROVE  AuditInv'
<1>a. session[p] \in SessionRow /\ RowOK(session[p])
    BY DEF RowsInv, TypeInv, TypeOK
<1>1. CASE SkipLockLost(p)
    BY <1>1, <1>a, AuditStep
       DEF SkipLockLost, Finish, Idle, Unlogged, RowOK, At, SessionRow, rowVars, externalVars,
           TransferHook
<1>2. CASE SkipAlreadyRecorded(p)
    BY <1>2, <1>a, AuditStep
       DEF SkipAlreadyRecorded, WinsLock, Finish, Idle, Unlogged, RowOK, At, SessionRow, rowVars,
           externalVars, TransferHook
<1>3. CASE TakeLock(p)
    BY <1>3, <1>a, AuditStep
       DEF TakeLock, WinsLock, Unlogged, RowOK, At, SessionRow, rowVars, externalVars,
           TransferHook
<1>4. CASE HookMarks(p)
  <2>1. session[p].task \in Task /\ Outcome(session[p]) \in TransferStatus
    BY <1>4, Busy DEF HookMarks, At, Outcome, TransferStatus
  <2>2. \A u \in Task :
            /\ transfer'[u].attempts = transfer[u].attempts
            /\ transfer'[u].status = "NONE" => transfer[u].status = "NONE"
    BY <1>4, <2>1, AuditTransition DEF HookMarks, JobOf
  <2> QED
    BY <1>4, <1>a, <2>2, AuditStep DEF HookMarks, Goto, Unlogged, RowOK, Outcome, TransferHook, At, SessionRow, externalVars
<1>5. CASE HookRaises(p)
    BY <1>5, <1>a, AuditStep
       DEF HookRaises, Finish, Idle, Unlogged, RowOK, At, SessionRow, rowVars, externalVars,
           TransferHook
<1>6. CASE HookFallback(p)
    BY <1>6, <1>a, AuditStep
       DEF HookFallback, Goto, Unlogged, RowOK, At, SessionRow, rowVars, externalVars,
           TransferHook
<1>7. CASE HookFallbackPaid(p)
    BY <1>7, <1>a, AuditStep
       DEF HookFallbackPaid, Finish, Idle, Unlogged, RowOK, At, SessionRow, rowVars,
           externalVars, TransferHook
<1>8. CASE RecordTransaction(p)
    BY <1>8, <1>a, AuditStep
       DEF RecordTransaction, Finish, Idle, Unlogged, RowOK, At, SessionRow, rowVars,
           externalVars, TransferHook
<1> QED
    BY <1>1, <1>2, <1>3, <1>4, <1>5, <1>6, <1>7, <1>8 DEF TransferHookStep

LEMMA ChargeHookAudit ==
    ASSUME TypeInv, RowsInv, AuditInv, NEW p \in Session, ChargeHookStep(p)
    PROVE  AuditInv'
<1>a. session[p] \in SessionRow /\ RowOK(session[p])
    BY DEF RowsInv, TypeInv, TypeOK
<1>1. CASE IgnoreShortCharge(p)
    BY <1>1, <1>a, AuditStep
       DEF IgnoreShortCharge, WinsLock, Finish, Idle, Unlogged, RowOK, At, SessionRow, rowVars,
           externalVars
<1>2. CASE TakeChargeLock(p)
    BY <1>2, <1>a, AuditStep
       DEF TakeChargeLock, WinsLock, Goto, Unlogged, RowOK, At, SessionRow, rowVars, externalVars
<1>3. CASE RecordCharge(p)
    BY <1>3, <1>a, AuditStep
       DEF RecordCharge, AfterCharge, Unlogged, RowOK, At, SessionRow, rowVars, externalVars
<1>4. CASE MarkCustomerPaid(p)
    BY <1>4, <1>a, AuditStep
       DEF MarkCustomerPaid, Unlogged, RowOK, At, SessionRow, rowVars, externalVars
<1>5. CASE AlreadyPaid(p)
    BY <1>5, <1>a, AuditStep
       DEF AlreadyPaid, Goto, Unlogged, RowOK, At, SessionRow, rowVars, externalVars
<1>6. CASE UpdatePayoutPaid(p)
    BY <1>6, <1>a, AuditStep
       DEF UpdatePayoutPaid, Unlogged, RowOK, At, SessionRow, rowVars, externalVars
<1>7. CASE NotifyPayer(p)
    BY <1>7, <1>a, AuditStep
       DEF NotifyPayer, Finish, Idle, Unlogged, RowOK, At, SessionRow, rowVars, externalVars
<1> QED
    BY <1>1, <1>2, <1>3, <1>4, <1>5, <1>6, <1>7 DEF ChargeHookStep

LEMMA PayoutAudit ==
    ASSUME TypeInv, RowsInv, AuditInv, NEW p \in Session, PayoutStep(p)
    PROVE  AuditInv'
<1>a. session[p] \in SessionRow /\ RowOK(session[p])
    BY DEF RowsInv, TypeInv, TypeOK
<1>1. CASE ReadDebt(p)
    BY <1>1, <1>a, AuditStep DEF ReadDebt, Unlogged, RowOK, At, SessionRow, rowVars, externalVars
<1>2. CASE OffsetDebt(p)
    BY <1>2, <1>a, AuditStep
       DEF OffsetDebt, OffsetEntry, Unlogged, RowOK, At, SessionRow, rowVars, externalVars
<1>3. CASE RecordOffset(p)
    BY <1>3, <1>a, AuditStep
       DEF RecordOffset, Goto, Unlogged, RowOK, At, SessionRow, rowVars, externalVars
<1>4. CASE FindTransfer(p)
    BY <1>4, <1>a, AuditStep
       DEF FindTransfer, Goto, Unlogged, RowOK, At, SessionRow, rowVars, externalVars
<1>5. CASE InsertTransfer(p)
    BY <1>5, <1>a, AuditStep, AuditInsert
       DEF InsertTransfer, Unlogged, RowOK, At, SessionRow, rowVars, externalVars
<1>6. CASE InsertRaises(p)
    BY <1>6, <1>a, AuditStep
       DEF InsertRaises, Finish, Idle, Unlogged, RowOK, At, SessionRow, rowVars, externalVars
<1>7. CASE EnqueueTransfer(p)
    BY <1>7, <1>a, AuditStep
       DEF EnqueueTransfer, Goto, Unlogged, RowOK, At, SessionRow, rowVars, externalVars
<1>8. CASE MarkInitiated(p)
    BY <1>8, <1>a, AuditStep
       DEF MarkInitiated, Unlogged, RowOK, At, SessionRow, rowVars, externalVars
<1>9. CASE MarkTaskInitiated(p)
    BY <1>9, <1>a, AuditStep
       DEF MarkTaskInitiated, Finish, Goto, Idle, Unlogged, RowOK, At, SessionRow, rowVars,
           externalVars
<1> QED
    BY <1>1, <1>2, <1>3, <1>4, <1>5, <1>6, <1>7, <1>8, <1>9 DEF PayoutStep

LEMMA AuditNext == TypeInv /\ RowsInv /\ PhantomInv /\ AuditInv /\ [Next]_vars => AuditInv'
<1> SUFFICES ASSUME TypeInv, RowsInv, PhantomInv, AuditInv, [Next]_vars
             PROVE  AuditInv'
    OBVIOUS
<1>1. ASSUME NEW p \in Session, NEW t \in Task, NEW a \in Answer,
             ReconcileUnreachable(p, t) \/ ReconcileLookup(p, t, a)
      PROVE  AuditInv'
  <2>1. session[p] \in SessionRow /\ RowOK(session[p])
    BY DEF TypeInv, TypeOK, RowsInv
  <2>2. CASE ReconcileUnreachable(p, t)
    BY <2>1, <2>2, AuditStep
       DEF ReconcileUnreachable, Finish, Idle, At, RowOK, Unlogged, rowVars, externalVars, SessionRow
  <2>3. CASE ReconcileLookup(p, t, a)
    <3> DEFINE w == [session[p] EXCEPT !.pc = "answer", !.task = t, !.ans = a, !.todo = @ \ {t}]
    <3>1. w.pc = "answer" /\ w.role = session[p].role
      BY <2>1 DEF SessionRow
    <3>2. Become(p, w) /\ session[p].role = "reconciler"
      BY <2>1, <2>3 DEF ReconcileLookup, At, RowOK
    <3> HIDE DEF w
    <3>3. ~Unlogged(w)
      BY <3>1, <3>2 DEF Unlogged
    <3> QED
      BY <2>3, <3>2, <3>3, AuditStep DEF ReconcileLookup, rowVars, externalVars
  <2> QED
    BY <1>1, <2>2, <2>3
<1>2. ASSUME NEW p \in Session, HandlerStep(p)
      PROVE  AuditInv'
    BY <1>1, <1>2, Statuses, WorkerAudit, TransferHookAudit, ChargeHookAudit, PayoutAudit
       DEF HandlerStep
<1>3. ASSUME NEW p \in Session, StartReconcile(p)
      PROVE  AuditInv'
    BY <1>3, AuditStep DEF StartReconcile, Idle, Unlogged, rowVars, externalVars
<1>4. ASSUME NEW p \in Session, NEW t \in Task, StartPayout(p, t)
      PROVE  AuditInv'
    BY <1>4, AuditStep DEF StartPayout, Idle, Unlogged, rowVars, externalVars
<1>5. ASSUME NEW p \in Session, NEW e \in hooks,
             ReceiveTransferHook(p, e) \/ ReceiveChargeHook(p, e)
      PROVE  AuditInv'
    BY <1>5, AuditStep
       DEF ReceiveTransferHook, ReceiveChargeHook, Idle, Unlogged, TransferHook, externalVars
<1>6. ASSUME NEW p \in Session, Crash(p)
      PROVE  AuditInv'
    BY <1>6, AuditStep DEF Crash, Finish, Idle, Unlogged, externalVars
<1>7. CASE /\ UNCHANGED <<attemptLog, paid, session>>
           /\ \A t \in Task : /\ transfer'[t].status = transfer[t].status
                              /\ transfer'[t].attempts = transfer[t].attempts
    BY <1>7 DEF AuditInv, AuditSound
<1>8. ASSUME NEW t \in Task, RetryFallsDue(t) \/ AttemptGoesStale(t)
      PROVE  AuditInv'
  <2>1. transfer \in [Task -> TransferRow]
    BY DEF TypeInv, TypeOK
  <2>2. \/ transfer' = [transfer EXCEPT ![t].due = TRUE]
        \/ transfer' = [transfer EXCEPT ![t].stale = TRUE]
    BY <1>8 DEF RetryFallsDue, AttemptGoesStale
  <2>3. \A u \in Task : /\ transfer'[u].status = transfer[u].status
                        /\ transfer'[u].attempts = transfer[u].attempts
    BY <2>1, <2>2 DEF TransferRow
  <2> QED
    BY <1>7, <1>8, <2>3 DEF RetryFallsDue, AttemptGoesStale, externalVars
<1>9. ASSUME NEW t \in Task, Background(t) \/ Customer(t)
      PROVE  AuditInv'
    BY <1>7, <1>8, <1>9 DEF Background, Customer, SkipTransfer, RecoverStuckTransfer,
                            CustomerPays, CustomerCardFails, rowVars
<1>10. CASE UNCHANGED vars
    BY <1>7, <1>10 DEF vars
<1> QED
    BY <1>2, <1>3, <1>4, <1>5, <1>6, <1>9, <1>10, AuditStarts DEF Next, HandlerStart

LEMMA Audit == Spec => []AuditInv
<1>1. Init => AuditInv
    BY DEF Init, AuditInv, AuditSound, Unlogged, Owes, Idle, NoTransfer
<1> QED
    BY <1>1, AuditNext, Typing, Control, Phantom, PTL DEF Spec

\* The audit log never has two records for one attempt, one for an attempt
\* that was not made, or a success without a payment, although a worker
\* writes its record after the commits of the transfer, payout and task.
THEOREM AuditLogIsSound == Spec => []AuditSound
BY Audit, PTL DEF AuditInv

-----------------------------------------------------------------------------
(***************************************************************************)
(* Resolution without transfer webhooks, while no call outlasts the stale  *)
(* cutoff.  A PROCESSING transfer belongs to the worker at the gateway     *)
(* while it is fresh, and to the one reconciler once it is stale: whoever  *)
(* marks it is alone, so an outcome is never overwritten and what the      *)
(* marker then writes to payout and task is still true.                    *)
(***************************************************************************)
Solo == Roles \cap TransferHook = {} /\ ~CallsOutlast

Calls(w, t) == w.role = "worker" /\ w.pc \in {"called", "answer"} /\ w.task = t
Resolves(w, t) ==
    w.role = "reconciler" /\ (t \in w.todo \/ (w.pc = "answer" /\ w.task = t))
Settles(w, t) == w.pc \in {"load", "payout", "task"} /\ w.task = t

ResolveInv ==
    /\ Agreement
    /\ \A p \in Session :
           /\ session[p].role \notin TransferHook
           /\ session[p].role = "reconciler" /\ session[p].pc = "answer" =>
                  session[p].task \notin session[p].todo
    /\ \A p, q \in Session :
           session[p].role = "reconciler" /\ session[q].role = "reconciler" => p = q
    /\ \A p \in Session, t \in Task :
           /\ Calls(session[p], t) => transfer[t].status = "PROCESSING" /\ ~transfer[t].stale
           /\ Resolves(session[p], t) => transfer[t].status = "PROCESSING" /\ transfer[t].stale
           /\ Settles(session[p], t) =>
                  /\ Outcome(session[p]) \in {"COMPLETED", "FAILED"}
                  /\ transfer[t].status = Outcome(session[p])

\* A step that changes no transfer: the handler's part in a transfer may only
\* end, and what it writes to payout and task must agree with the transfer.
LEMMA ResolveStep ==
    ASSUME TypeInv, ResolveInv, NEW p \in Session, NEW w, Become(p, w), transfer' = transfer,
           w.role \notin TransferHook,
           w.role = "reconciler" =>
               /\ session[p].role = "reconciler"
               /\ w.pc = "answer" => w.task \notin w.todo,
           \A t \in Task :
               /\ Calls(w, t) => Calls(session[p], t)
               /\ Resolves(w, t) => Resolves(session[p], t)
               /\ Settles(w, t) => Settles(session[p], t) /\ Outcome(w) = Outcome(session[p]),
           \A t \in Task :
               /\ payout'[t] = "COMPLETED" => payout[t] = "COMPLETED" \/ transfer[t].status = "COMPLETED"
               /\ payout'[t] = "CANCELLED" => payout[t] = "CANCELLED" \/ transfer[t].status = "FAILED"
               /\ payStatus'[t] = "PAID" => payStatus[t] = "PAID" \/ transfer[t].status = "COMPLETED"
               /\ payStatus'[t] = "FAILED" => payStatus[t] = "FAILED" \/ transfer[t].status = "FAILED"
    PROVE  ResolveInv'
<1>1. \A q \in Session : session'[q] = IF q = p THEN w ELSE session[q]
    BY DEF Become, TypeInv
<1>2. Agreement'
    BY DEF ResolveInv, Agreement
<1>3. \A q \in Session :
          /\ session'[q].role \notin TransferHook
          /\ session'[q].role = "reconciler" => session[q].role = "reconciler"
          /\ session'[q].role = "reconciler" /\ session'[q].pc = "answer" =>
                 session'[q].task \notin session'[q].todo
    BY <1>1 DEF ResolveInv
<1>4. \A q, r \in Session :
          session'[q].role = "reconciler" /\ session'[r].role = "reconciler" => q = r
    BY <1>3 DEF ResolveInv
<1>5. \A q \in Session, t \in Task :
          /\ Calls(session'[q], t) => Calls(session[q], t)
          /\ Resolves(session'[q], t) => Resolves(session[q], t)
          /\ Settles(session'[q], t) =>
                 Settles(session[q], t) /\ Outcome(session'[q]) = Outcome(session[q])
    BY <1>1
<1>6. \A q \in Session, t \in Task :
           /\ Calls(session'[q], t) => transfer'[t].status = "PROCESSING" /\ ~transfer'[t].stale
           /\ Resolves(session'[q], t) => transfer'[t].status = "PROCESSING" /\ transfer'[t].stale
           /\ Settles(session'[q], t) =>
                  /\ Outcome(session'[q]) \in {"COMPLETED", "FAILED"}
                  /\ transfer'[t].status = Outcome(session'[q])
    BY <1>5 DEF ResolveInv
<1> HIDE DEF Outcome
<1> QED
    BY <1>2, <1>3, <1>4, <1>6 DEF ResolveInv, Outcome

\* A handler that has no part in a transfer afterwards, but its batch.
LEMMA ResolveAway ==
    ASSUME TypeInv, ResolveInv, NEW p \in Session, NEW w, Become(p, w), transfer' = transfer,
           w.pc \notin {"called", "answer", "load", "payout", "task"},
           \/ w.role \notin TransferHook \cup {"reconciler"}
           \/ w.role = session[p].role /\ w.todo \subseteq session[p].todo,
           \A t \in Task :
               /\ payout'[t] = "COMPLETED" => payout[t] = "COMPLETED" \/ transfer[t].status = "COMPLETED"
               /\ payout'[t] = "CANCELLED" => payout[t] = "CANCELLED" \/ transfer[t].status = "FAILED"
               /\ payStatus'[t] = "PAID" => payStatus[t] = "PAID" \/ transfer[t].status = "COMPLETED"
               /\ payStatus'[t] = "FAILED" => payStatus[t] = "FAILED" \/ transfer[t].status = "FAILED"
    PROVE  ResolveInv'
<1>1. w.role \notin TransferHook /\ (w.role = "reconciler" => session[p].role = "reconciler")
    BY DEF ResolveInv
<1>2. \A t \in Task :
          /\ ~Calls(w, t) /\ ~Settles(w, t)
          /\ Resolves(w, t) => Resolves(session[p], t)
    BY DEF Calls, Settles, Resolves
<1> QED
    BY <1>1, <1>2, ResolveStep

\* A handler that goes on with its attempt, or with what follows its mark.
LEMMA ResolveStays ==
    ASSUME TypeInv, ResolveInv, NEW p \in Session, NEW w, Become(p, w), transfer' = transfer,
           w.role = session[p].role, w.task = session[p].task, w.todo = session[p].todo,
           \/ session[p].role = "worker" /\ session[p].pc = "called" /\ w.pc = "answer"
           \/ /\ session[p].pc \in {"load", "payout"} /\ w.pc \in {"payout", "task"}
              /\ w.ans = session[p].ans /\ w.n = session[p].n,
           \A t \in Task :
               /\ payout'[t] = "COMPLETED" => payout[t] = "COMPLETED" \/ transfer[t].status = "COMPLETED"
               /\ payout'[t] = "CANCELLED" => payout[t] = "CANCELLED" \/ transfer[t].status = "FAILED"
               /\ payStatus'[t] = "PAID" => payStatus[t] = "PAID" \/ transfer[t].status = "COMPLETED"
               /\ payStatus'[t] = "FAILED" => payStatus[t] = "FAILED" \/ transfer[t].status = "FAILED"
    PROVE  ResolveInv'
<1>1. w.role \notin TransferHook /\ (w.role = "reconciler" /\ w.pc = "answer" => FALSE)
    BY DEF ResolveInv
<1>2. \A t \in Task :
          /\ Calls(w, t) => Calls(session[p], t)
          /\ Settles(w, t) => Settles(session[p], t) /\ Outcome(w) = Outcome(session[p])
          /\ Resolves(w, t) => Resolves(session[p], t)
    BY DEF Calls, Settles, Resolves, Outcome
<1> QED
    BY <1>1, <1>2, ResolveStep

\* A step that changes the row of one transfer, which has no outcome before:
\* nobody else has a part in it, and the handler's part fits the new row.
LEMMA ResolveRow ==
    ASSUME TypeInv, ResolveInv, NEW p \in Session, NEW w, Become(p, w), NEW t \in Task,
           \A u \in Task \ {t} : transfer'[u] = transfer[u],
           transfer[t].status \notin {"COMPLETED", "FAILED"},
           \A q \in Session \ {p} :
               ~Calls(session[q], t) /\ ~Resolves(session[q], t) /\ ~Settles(session[q], t),
           w.role \notin TransferHook,
           w.role = "reconciler" => session[p].role = "reconciler" /\ w.pc # "answer",
           \A u \in Task \ {t} :
               /\ Calls(w, u) => Calls(session[p], u)
               /\ Resolves(w, u) => Resolves(session[p], u)
               /\ ~Settles(w, u),
           Calls(w, t) => transfer'[t].status = "PROCESSING" /\ ~transfer'[t].stale,
           ~Resolves(w, t),
           Settles(w, t) =>
               Outcome(w) \in {"COMPLETED", "FAILED"} /\ transfer'[t].status = Outcome(w),
           payStatus' = payStatus,
           \A u \in Task : payout'[u] \in {payout[u], "CUSTOMER_PAID"}
    PROVE  ResolveInv'
<1>1. \A q \in Session : session'[q] = IF q = p THEN w ELSE session[q]
    BY DEF Become, TypeInv
<1>2. Agreement'
    BY DEF ResolveInv, Agreement
<1>3. \A q \in Session :
          /\ session'[q].role \notin TransferHook
          /\ session'[q].role = "reconciler" => session[q].role = "reconciler"
          /\ session'[q].role = "reconciler" /\ session'[q].pc = "answer" =>
                 session'[q].task \notin session'[q].todo
    BY <1>1 DEF ResolveInv
<1>4. \A q, r \in Session :
          session'[q].role = "reconciler" /\ session'[r].role = "reconciler" => q = r
    BY <1>3 DEF ResolveInv
<1>5. \A q \in Session, u \in Task :
           /\ Calls(session'[q], u) => transfer'[u].status = "PROCESSING" /\ ~transfer'[u].stale
           /\ Resolves(session'[q], u) => transfer'[u].status = "PROCESSING" /\ transfer'[u].stale
           /\ Settles(session'[q], u) =>
                  /\ Outcome(session'[q]) \in {"COMPLETED", "FAILED"}
                  /\ transfer'[u].status = Outcome(session'[q])
  <2> SUFFICES ASSUME NEW q \in Session, NEW u \in Task
               PROVE  /\ Calls(session'[q], u) => transfer'[u].status = "PROCESSING" /\ ~transfer'[u].stale
                      /\ Resolves(session'[q], u) => transfer'[u].status = "PROCESSING" /\ transfer'[u].stale
                      /\ Settles(session'[q], u) =>
                             /\ Outcome(session'[q]) \in {"COMPLETED", "FAILED"}
                             /\ transfer'[u].status = Outcome(session'[q])
    OBVIOUS
  <2>1. CASE q = p /\ u = t
    BY <1>1, <2>1
  <2>2. CASE q = p /\ u # t
    BY <1>1, <2>2 DEF ResolveInv
  <2>3. CASE q # p /\ u = t
    BY <1>1, <2>3
  <2>4. CASE q # p /\ u # t
    BY <1>1, <2>4 DEF ResolveInv
  <2> QED
    BY <2>1, <2>2, <2>3, <2>4
<1> QED
    BY <1>2, <1>3, <1>4, <1>5 DEF ResolveInv

\* Whoever marks a transfer is alone with it.
LEMMA MarksAlone ==
    ASSUME TypeInv, RowsInv, FlightInv, ResolveInv, NEW p \in Session, Mark(p)
    PROVE  /\ session[p].task \in Task
           /\ transfer[session[p].task].status = "PROCESSING"
           /\ \A q \in Session \ {p} :
                  /\ ~Calls(session[q], session[p].task)
                  /\ ~Resolves(session[q], session[p].task)
                  /\ ~Settles(session[q], session[p].task)
<1> DEFINE t == session[p].task
<1>1. t \in Task /\ session[p].role \in {"worker", "reconciler"} /\ session[p].pc = "answer"
    BY Busy DEF Mark, At, RowsInv, RowOK
<1>2. CASE session[p].role = "worker"
  <2>1. Calls(session[p], t) /\ InCall(p, t)
    BY <1>1, <1>2 DEF Calls, InCall, At
  <2>2. transfer[t].status = "PROCESSING" /\ ~transfer[t].stale
    BY <1>1, <2>1 DEF ResolveInv
  <2>3. \A q \in Session \ {p} : ~Calls(session[q], t)
    BY <1>1, <2>1 DEF FlightInv, SingleFlight, Calls, InCall, At
  <2> QED
    BY <1>1, <2>2, <2>3 DEF ResolveInv
<1>3. CASE session[p].role = "reconciler"
  <2>1. Resolves(session[p], t)
    BY <1>1, <1>3 DEF Resolves
  <2>2. transfer[t].status = "PROCESSING" /\ transfer[t].stale
    BY <1>1, <2>1 DEF ResolveInv
  <2>3. \A q \in Session \ {p} : ~Resolves(session[q], t)
    BY <1>3 DEF ResolveInv, Resolves
  <2> QED
    BY <1>1, <2>2, <2>3 DEF ResolveInv
<1> QED
    BY <1>1, <1>2, <1>3

LEMMA MarkedRow ==
    ASSUME TypeInv, NEW p \in Session, Mark(p), session[p].task \in Task
    PROVE  /\ \A u \in Task \ {session[p].task} : transfer'[u] = transfer[u]
           /\ transfer'[session[p].task].status = Outcome(session[p])
           /\ transfer'[session[p].task].attempts = transfer[session[p].task].attempts
BY DEF Mark, JobOf, Transition, TypeInv, TypeOK, TransferRow

LEMMA ResolveMarks ==
    ASSUME TypeInv, RowsInv, FlightInv, ResolveInv, NEW p \in Session, Mark(p)
    PROVE  ResolveInv'
<1> DEFINE s == Outcome(session[p])
           t == session[p].task
           l == IF s = "RETRYING" THEN "log" ELSE "load"
           w == [session[p] EXCEPT !.pc = l]
<1>1. session[p] \in SessionRow /\ session[p].pc = "answer"
    BY DEF TypeInv, TypeOK, Mark, At
<1>2. /\ w.pc = l /\ w.role = session[p].role /\ w.task = t /\ w.todo = session[p].todo
      /\ Outcome(w) = s
    BY <1>1 DEF SessionRow, Outcome
<1>3. Become(p, w)
    BY DEF Mark, Goto
<1>4. s \in {"COMPLETED", "FAILED", "RETRYING"}
    BY DEF Outcome
<1>5. w.role \notin TransferHook /\ (w.role = "reconciler" => t \notin w.todo)
    BY <1>1, <1>2 DEF ResolveInv
<1>6. ~Resolves(w, t) /\ \A u \in Task : Resolves(w, u) => Resolves(session[p], u)
    BY <1>2, <1>5 DEF Resolves
<1>7. \A u \in Task : ~Calls(w, u) /\ (u # t => ~Settles(w, u))
    BY <1>2 DEF Calls, Settles
<1>8. Settles(w, t) => s \in {"COMPLETED", "FAILED"}
    BY <1>2, <1>4 DEF Settles
<1>9. UNCHANGED <<payout, payStatus>>
    BY DEF Mark
<1>10. w.pc \in {"log", "load"}
    BY <1>2
<1>11. /\ t \in Task /\ transfer[t].status = "PROCESSING"
       /\ \A q \in Session \ {p} :
              ~Calls(session[q], t) /\ ~Resolves(session[q], t) /\ ~Settles(session[q], t)
    BY MarksAlone
<1>12. /\ \A u \in Task \ {t} : transfer'[u] = transfer[u]
       /\ transfer'[t].status = s
    BY <1>11, MarkedRow
<1>13. w.role = session[p].role
    BY <1>2
<1>14. /\ Calls(w, t) => transfer'[t].status = "PROCESSING" /\ ~transfer'[t].stale
       /\ Settles(w, t) =>
              Outcome(w) \in {"COMPLETED", "FAILED"} /\ transfer'[t].status = Outcome(w)
    BY <1>2, <1>7, <1>8, <1>11, <1>12
<1>15. \A u \in Task : payout'[u] \in {payout[u], "CUSTOMER_PAID"}
    BY <1>9
<1> HIDE DEF w, s, l, t
<1> QED
    BY <1>3, <1>5, <1>6, <1>7, <1>9, <1>10, <1>11, <1>12, <1>13, <1>14, <1>15, ResolveRow

LEMMA InsertedRow ==
    ASSUME TypeInv, NEW p \in Session, InsertTransfer(p)
    PROVE  /\ session[p].task \in Task
           /\ transfer[session[p].task].status = "NONE"
           /\ \A u \in Task \ {session[p].task} : transfer'[u] = transfer[u]
           /\ transfer'[session[p].task].status = "PENDING"
           /\ transfer'[session[p].task].attempts = 0
<1>1. transfer \in [Task -> TransferRow] /\ session[p].task \in Task
    BY Busy DEF InsertTransfer, At, TypeInv, TypeOK
<1>2. NewTransfer.attempts = 0 /\ NewTransfer.status = "PENDING"
    BY DEF NewTransfer, NoTransfer
<1>3. transfer[session[p].task].status = "NONE" /\
          \A u \in Task : transfer'[u] = IF u = session[p].task THEN NewTransfer ELSE transfer[u]
    BY <1>1 DEF InsertTransfer, JobOf
<1> QED
    BY <1>1, <1>2, <1>3

LEMMA ResolveInserts ==
    ASSUME TypeInv, RowsInv, ResolveInv, NEW p \in Session, InsertTransfer(p)
    PROVE  ResolveInv'
<1> DEFINE t == session[p].task
           w == [session[p] EXCEPT !.pc = "send", !.pend = FALSE]
<1>1. session[p] \in SessionRow /\ session[p].role \notin TransferHook
    BY DEF TypeInv, TypeOK, ResolveInv
<1>2. w.pc = "send" /\ w.role = session[p].role /\ w.todo = session[p].todo
    BY <1>1 DEF SessionRow
<1>3. Become(p, w) /\ payStatus' = payStatus
    BY DEF InsertTransfer
<1>4. \A q \in Session : ~Calls(session[q], t) /\ ~Resolves(session[q], t) /\ ~Settles(session[q], t)
    BY InsertedRow DEF ResolveInv
<1>5. \A u \in Task : payout'[u] \in {payout[u], "CUSTOMER_PAID"}
    BY DEF InsertTransfer, CommitPayout, JobOf, TypeInv, TypeOK
<1> HIDE DEF w
<1>6. /\ \A u \in Task : ~Calls(w, u) /\ ~Settles(w, u) /\ (Resolves(w, u) => Resolves(session[p], u))
    BY <1>2 DEF Calls, Settles, Resolves
<1> QED
    BY <1>1, <1>2, <1>3, <1>4, <1>5, <1>6, InsertedRow, ResolveRow

LEMMA StartedRow ==
    ASSUME TypeInv, NEW p \in Session, NEW t \in Task, ProcessTransfer(p, t)
    PROVE  /\ transfer[t].status \in {"PENDING", "RETRYING"}
           /\ \A u \in Task \ {t} : transfer'[u] = transfer[u]
           /\ transfer'[t].status = "PROCESSING"
           /\ transfer'[t].attempts = transfer[t].attempts + 1
           /\ ~transfer'[t].stale
BY DEF ProcessTransfer, Processable, TypeInv, TypeOK, TransferRow

LEMMA ResolveStarts ==
    ASSUME TypeInv, RowsInv, ResolveInv, NEW p \in Session, NEW t \in Task, ProcessTransfer(p, t)
    PROVE  ResolveInv'
<1> DEFINE w == [Idle EXCEPT !.pc = "called", !.role = "worker", !.task = t,
                             !.n = transfer[t].attempts + 1]
<1>1. w.pc = "called" /\ w.role = "worker" /\ w.task = t
    BY DEF Idle
<1>2. Become(p, w) /\ UNCHANGED <<payout, payStatus>>
    BY DEF ProcessTransfer
<1>3. \A q \in Session : ~Calls(session[q], t) /\ ~Resolves(session[q], t) /\ ~Settles(session[q], t)
    BY StartedRow DEF ResolveInv
<1> HIDE DEF w
<1>4. \A u \in Task : ~Settles(w, u) /\ ~Resolves(w, u) /\ (Calls(w, u) => u = t)
    BY <1>1 DEF Calls, Settles, Resolves
<1>5. w.role \notin TransferHook
    BY <1>1 DEF TransferHook
<1> QED
    BY <1>1, <1>2, <1>3, <1>4, <1>5, StartedRow, ResolveRow

LEMMA WorkerResolve ==
    ASSUME TypeInv, RowsInv, FlightInv, ResolveInv, NEW p \in Session, WorkerStep(p)
    PROVE  ResolveInv'
<1>a. session[p] \in SessionRow /\ RowOK(session[p])
    BY DEF RowsInv, TypeInv, TypeOK
<1>b. session[p].role \notin TransferHook
    BY DEF ResolveInv
<1>1. CASE NoPaymentAccount(p)
    BY <1>1, <1>a, <1>b, ResolveStays DEF NoPaymentAccount, At, SessionRow, rowVars, RowOK
<1>2. CASE GatewayPays(p)
  <2>1. PICK b : Become(p, [session[p] EXCEPT !.pc = "answer", !.ans = b])
    BY <1>2 DEF GatewayPays, Answered
  <2> QED
    BY <1>2, <1>a, <1>b, <2>1, ResolveStays DEF GatewayPays, RowOK, At, SessionRow, rowVars
<1>3. CASE GatewayRejects(p)
  <2>1. PICK b : Become(p, [session[p] EXCEPT !.pc = "answer", !.ans = b])
    BY <1>3 DEF GatewayRejects, Answered
  <2> QED
    BY <1>3, <1>a, <1>b, <2>1, ResolveStays DEF GatewayRejects, RowOK, At, SessionRow, rowVars
<1>4. CASE GatewayUnreachable(p)
  <2>1. PICK b : Become(p, [session[p] EXCEPT !.pc = "answer", !.ans = b])
    BY <1>4 DEF GatewayUnreachable, Answered
  <2> QED
    BY <1>4, <1>a, <1>b, <2>1, ResolveStays DEF GatewayUnreachable, RowOK, At, SessionRow, rowVars
<1>5. CASE Mark(p)
    BY <1>5, ResolveMarks
<1>6. CASE LoadPayout(p)
    BY <1>6, <1>a, <1>b, ResolveStays DEF LoadPayout, At, SessionRow, rowVars, RowOK
<1>7. CASE MarkPayout(p)
  <2> DEFINE t == session[p].task
             new == PayoutAfter(Outcome(session[p]), session[p].pst)
  <2>1. t \in Task /\ Settles(session[p], t)
    BY <1>7, Busy DEF MarkPayout, At, Settles
  <2>2. transfer[t].status = Outcome(session[p]) /\ Outcome(session[p]) \in {"COMPLETED", "FAILED"}
    BY <2>1 DEF ResolveInv
  <2>3. \A u \in Task : payout'[u] = IF u = t /\ new # session[p].pst THEN new ELSE payout[u]
    BY <1>7, <2>1 DEF MarkPayout, JobOf, TypeInv, TypeOK
  <2>4. new # session[p].pst => new = IF Outcome(session[p]) = "COMPLETED" THEN "COMPLETED" ELSE "CANCELLED"
    BY DEF PayoutAfter
  <2>5. PICK k : Become(p, [session[p] EXCEPT !.pc = "task", !.kst = k])
    BY <1>7 DEF MarkPayout
  <2>6. UNCHANGED <<transfer, payStatus>> /\ session[p].pc = "payout"
    BY <1>7 DEF MarkPayout, At
  <2> HIDE DEF t, new
  <2>7. \A u \in Task :
            /\ payout'[u] = "COMPLETED" => payout[u] = "COMPLETED" \/ transfer[u].status = "COMPLETED"
            /\ payout'[u] = "CANCELLED" => payout[u] = "CANCELLED" \/ transfer[u].status = "FAILED"
    BY <2>2, <2>3, <2>4
  <2> QED
    BY <1>a, <2>5, <2>6, <2>7, ResolveStays DEF SessionRow
<1>8. CASE MarkTask(p)
  <2> DEFINE t == session[p].task
             new == TaskAfter(Outcome(session[p]), session[p].kst)
  <2>1. t \in Task /\ Settles(session[p], t)
    BY <1>8, Busy DEF MarkTask, At, Settles
  <2>2. transfer[t].status = Outcome(session[p]) /\ Outcome(session[p]) \in {"COMPLETED", "FAILED"}
    BY <2>1 DEF ResolveInv
  <2>3. \A u \in Task : payStatus'[u] = IF u = t /\ new # session[p].kst THEN new ELSE payStatus[u]
    BY <1>8, <2>1 DEF MarkTask, JobOf, TypeInv, TypeOK
  <2>4. new # session[p].kst => new = IF Outcome(session[p]) = "COMPLETED" THEN "PAID" ELSE "FAILED"
    BY DEF TaskAfter
  <2>5. UNCHANGED <<transfer, payout>> /\ Become(p, AfterMark(session[p]))
    BY <1>8 DEF MarkTask
  <2> HIDE DEF t, new
  <2>6. \A u \in Task :
            /\ payStatus'[u] = "PAID" => payStatus[u] = "PAID" \/ transfer[u].status = "COMPLETED"
            /\ payStatus'[u] = "FAILED" => payStatus[u] = "FAILED" \/ transfer[u].status = "FAILED"
    BY <2>2, <2>3, <2>4
  <2>7. /\ AfterMark(session[p]).pc \in {"log", "idle", "next", "record"}
        /\ \/ AfterMark(session[p]).role = "none"
           \/ /\ AfterMark(session[p]).role = session[p].role
              /\ AfterMark(session[p]).todo = session[p].todo
    BY <1>a DEF AfterMark, Idle, SessionRow
  <2> QED
    BY <2>5, <2>6, <2>7, ResolveAway DEF TransferHook
<1>9. CASE RecordAttempt(p)
    BY <1>9, <1>a, <1>b, ResolveAway
       DEF RecordAttempt, AttemptOf, Finish, Goto, Idle, At, SessionRow, rowVars, TransferHook
<1>10. CASE Reenqueue(p)
    BY <1>10, <1>a, <1>b, ResolveAway
       DEF Reenqueue, Finish, Idle, At, SessionRow, rowVars, TransferHook
<1> QED
    BY <1>1, <1>2, <1>3, <1>4, <1>5, <1>6, <1>7, <1>8, <1>9, <1>10 DEF WorkerStep

\* No transfer webhook is at work: only the lock step, shared with the
\* charge webhooks, is taken.
LEMMA TransferHookResolve ==
    ASSUME TypeInv, RowsInv, ResolveInv, NEW p \in Session, TransferHookStep(p)
    PROVE  ResolveInv'
<1>a. session[p] \in SessionRow /\ RowOK(session[p]) /\ session[p].role \notin TransferHook
    BY DEF RowsInv, ResolveInv, TypeInv, TypeOK
<1>1. ~At(p, "mark") /\ ~At(p, "record") /\ ~At(p, "lock")
    BY <1>a DEF RowOK, At
<1>2. Become(p, Idle) /\ UNCHANGED <<transfer, payout, payStatus>>
    BY <1>1 DEF TransferHookStep, SkipLockLost, SkipAlreadyRecorded, TakeLock, HookMarks, HookRaises,
                HookFallback, HookFallbackPaid, RecordTransaction, Finish, rowVars
<1> QED
    BY <1>2, ResolveAway DEF Idle, TransferHook

LEMMA ChargeHookResolve ==
    ASSUME TypeInv, RowsInv, ResolveInv, NEW p \in Session, ChargeHookStep(p)
    PROVE  ResolveInv'
<1>a. session[p] \in SessionRow /\ RowOK(session[p])
    BY DEF RowsInv, TypeInv, TypeOK
<1>b. session[p].role \notin TransferHook
    BY DEF ResolveInv
<1>1. CASE IgnoreShortCharge(p)
    BY <1>1, <1>a, <1>b, ResolveAway
       DEF IgnoreShortCharge, WinsLock, Finish, Idle, At, SessionRow, rowVars, TransferHook
<1>2. CASE TakeChargeLock(p)
    BY <1>2, <1>a, <1>b, ResolveAway
       DEF TakeChargeLock, WinsLock, Goto, At, SessionRow, rowVars, TransferHook
<1>3. CASE RecordCharge(p)
    BY <1>3, <1>a, <1>b, ResolveAway
       DEF RecordCharge, AfterCharge, At, SessionRow, rowVars, TransferHook
<1>4. CASE MarkCustomerPaid(p)
    BY <1>4, <1>a, <1>b, ResolveAway
       DEF MarkCustomerPaid, At, SessionRow, rowVars, JobOf, TypeInv, TypeOK
<1>5. CASE AlreadyPaid(p)
    BY <1>5, <1>a, <1>b, ResolveAway DEF AlreadyPaid, Goto, At, SessionRow, rowVars, TransferHook
<1>6. CASE UpdatePayoutPaid(p)
    BY <1>6, <1>a, <1>b, ResolveAway DEF UpdatePayoutPaid, At, SessionRow, rowVars, TransferHook
<1>7. CASE NotifyPayer(p)
    BY <1>7, <1>a, <1>b, ResolveAway
       DEF NotifyPayer, Finish, Idle, At, SessionRow, rowVars, CommitPayout, TransferHook, JobOf,
           TypeInv, TypeOK
<1> QED
    BY <1>1, <1>2, <1>3, <1>4, <1>5, <1>6, <1>7 DEF ChargeHookStep

LEMMA PayoutResolve ==
    ASSUME TypeInv, RowsInv, ResolveInv, NEW p \in Session, PayoutStep(p)
    PROVE  ResolveInv'
<1>a. session[p] \in SessionRow /\ RowOK(session[p])
    BY DEF RowsInv, TypeInv, TypeOK
<1>b. session[p].role \notin TransferHook
    BY DEF ResolveInv
<1>1. CASE ReadDebt(p)
    BY <1>1, <1>a, <1>b, ResolveAway DEF ReadDebt, At, SessionRow, rowVars, TransferHook
<1>2. CASE OffsetDebt(p)
    BY <1>2, <1>a, <1>b, ResolveAway
       DEF OffsetDebt, OffsetEntry, At, SessionRow, rowVars, CommitPayout, TransferHook, JobOf,
           TypeInv, TypeOK
<1>3. CASE RecordOffset(p)
    BY <1>3, <1>a, <1>b, ResolveAway DEF RecordOffset, Goto, At, SessionRow, rowVars, TransferHook
<1>4. CASE FindTransfer(p)
    BY <1>4, <1>a, <1>b, ResolveAway DEF FindTransfer, Goto, At, SessionRow, rowVars, TransferHook
<1>5. CASE InsertTransfer(p)
    BY <1>5, ResolveInserts
<1>6. CASE InsertRaises(p)
    BY <1>6, <1>a, <1>b, ResolveAway
       DEF InsertRaises, Finish, Idle, At, SessionRow, rowVars, TransferHook
<1>7. CASE EnqueueTransfer(p)
    BY <1>7, <1>a, <1>b, ResolveAway
       DEF EnqueueTransfer, Goto, At, SessionRow, rowVars, TransferHook
<1>8. CASE MarkInitiated(p)
    BY <1>8, <1>a, <1>b, ResolveAway
       DEF MarkInitiated, At, SessionRow, rowVars, JobOf, TypeInv, TypeOK
<1>9. CASE MarkTaskInitiated(p)
    BY <1>9, <1>a, <1>b, ResolveAway
       DEF MarkTaskInitiated, Finish, Goto, Idle, At, SessionRow, rowVars, TransferHook, JobOf,
           TypeInv, TypeOK
<1> QED
    BY <1>1, <1>2, <1>3, <1>4, <1>5, <1>6, <1>7, <1>8, <1>9 DEF PayoutStep

LEMMA ResolveNext ==
    ASSUME Solo
    PROVE  TypeInv /\ RowsInv /\ FlightInv /\ ResolveInv /\ [Next]_vars => ResolveInv'
<1> SUFFICES ASSUME TypeInv, RowsInv, FlightInv, ResolveInv, [Next]_vars
             PROVE  ResolveInv'
    OBVIOUS
<1>1. ASSUME NEW p \in Session, NEW t \in Task, NEW a \in Answer,
             ReconcileUnreachable(p, t) \/ ReconcileLookup(p, t, a)
      PROVE  ResolveInv'
  <2>1. session[p] \in SessionRow /\ RowOK(session[p]) /\ session[p].role \notin TransferHook
    BY DEF TypeInv, TypeOK, RowsInv, ResolveInv
  <2>2. CASE ReconcileUnreachable(p, t)
    BY <2>1, <2>2, ResolveAway
       DEF ReconcileUnreachable, Finish, Idle, At, TransferHook, rowVars, SessionRow
  <2>3. CASE ReconcileLookup(p, t, a)
    <3> DEFINE w == [session[p] EXCEPT !.pc = "answer", !.task = t, !.ans = a, !.todo = @ \ {t}]
    <3>1. /\ w.pc = "answer" /\ w.role = session[p].role /\ w.task = t
          /\ w.todo = session[p].todo \ {t}
      BY <2>1 DEF SessionRow
    <3>2. Become(p, w) /\ t \in session[p].todo /\ session[p].role = "reconciler"
      BY <2>1, <2>3 DEF ReconcileLookup, At, RowOK
    <3> HIDE DEF w
    <3>3. \A u \in Task : /\ Resolves(w, u) => Resolves(session[p], u)
                          /\ ~Calls(w, u) /\ ~Settles(w, u)
      BY <3>1, <3>2 DEF Resolves, Calls, Settles
    <3> QED
      BY <2>1, <2>3, <3>1, <3>2, <3>3, ResolveStep DEF ReconcileLookup, rowVars
  <2> QED
    BY <1>1, <2>2, <2>3
<1>2. ASSUME NEW p \in Session, HandlerStep(p)
      PROVE  ResolveInv'
    BY <1>1, <1>2, Statuses, WorkerResolve, TransferHookResolve, ChargeHookResolve, PayoutResolve
       DEF HandlerStep
<1>3. ASSUME NEW p \in Session, StartReconcile(p)
      PROVE  ResolveInv'
  <2> DEFINE w == [Idle EXCEPT !.pc = "next", !.role = "reconciler", !.todo = StaleTransfers]
  <2>1. w.pc = "next" /\ w.role = "reconciler" /\ w.todo = StaleTransfers
    BY DEF Idle
  <2>2. \A q \in Session : session'[q] = IF q = p THEN w ELSE session[q]
    BY <1>3 DEF StartReconcile, Become, TypeInv
  <2>3. \A q \in Session : session[q].role # "reconciler"
    BY <1>3 DEF StartReconcile, Solo
  <2>4. UNCHANGED <<transfer, payout, payStatus>>
    BY <1>3 DEF StartReconcile, rowVars
  <2> HIDE DEF w
  <2>5. \A q, r \in Session :
            session'[q].role = "reconciler" /\ session'[r].role = "reconciler" => q = r
    BY <2>2, <2>3
  <2>6. \A q \in Session :
            /\ session'[q].role \notin TransferHook
            /\ session'[q].role = "reconciler" /\ session'[q].pc = "answer" =>
                   session'[q].task \notin session'[q].todo
    BY <2>1, <2>2 DEF ResolveInv, TransferHook
  <2>7. \A u \in Task : ~Calls(w, u) /\ ~Settles(w, u) /\
            (Resolves(w, u) => transfer[u].status = "PROCESSING" /\ transfer[u].stale)
    BY <2>1 DEF Calls, Settles, Resolves, StaleTransfers
  <2>8. \A q \in Session, u \in Task :
           /\ Calls(session'[q], u) => transfer'[u].status = "PROCESSING" /\ ~transfer'[u].stale
           /\ Resolves(session'[q], u) => transfer'[u].status = "PROCESSING" /\ transfer'[u].stale
           /\ Settles(session'[q], u) =>
                  /\ Outcome(session'[q]) \in {"COMPLETED", "FAILED"}
                  /\ transfer'[u].status = Outcome(session'[q])
    BY <2>2, <2>4, <2>7 DEF ResolveInv
  <2>9. Agreement'
    BY <2>4 DEF ResolveInv, Agreement
  <2> QED
    BY <2>5, <2>6, <2>8, <2>9 DEF ResolveInv
<1>4. ASSUME NEW p \in Session, NEW t \in Task, StartPayout(p, t)
      PROVE  ResolveInv'
    BY <1>4, ResolveAway DEF StartPayout, Idle, TransferHook, rowVars
<1>5. ASSUME NEW p \in Session, NEW e \in hooks,
             ReceiveTransferHook(p, e) \/ ReceiveChargeHook(p, e)
      PROVE  ResolveInv'
    BY <1>5, ResolveAway
       DEF ReceiveTransferHook, ReceiveChargeHook, Idle, TransferHook, Solo
<1>6. ASSUME NEW p \in Session, Crash(p)
      PROVE  ResolveInv'
    BY <1>6, ResolveAway DEF Crash, Finish, Idle, TransferHook
<1>7. CASE UNCHANGED <<payout, payStatus, session>> /\
           \A t \in Task :
               /\ transfer'[t].status = transfer[t].status
               /\ \/ transfer'[t].stale = transfer[t].stale
                  \/ ~transfer[t].stale /\ \A q \in Session : ~Calls(session[q], t)
  <2>1. Agreement'
    BY <1>7 DEF ResolveInv, Agreement
  <2>2. \A q \in Session, u \in Task :
           /\ Calls(session'[q], u) => transfer'[u].status = "PROCESSING" /\ ~transfer'[u].stale
           /\ Resolves(session'[q], u) => transfer'[u].status = "PROCESSING" /\ transfer'[u].stale
           /\ Settles(session'[q], u) =>
                  /\ Outcome(session'[q]) \in {"COMPLETED", "FAILED"}
                  /\ transfer'[u].status = Outcome(session'[q])
    BY <1>7 DEF ResolveInv
  <2> QED
    BY <1>7, <2>1, <2>2 DEF ResolveInv
<1>8. ASSUME NEW t \in Task, RetryFallsDue(t)
      PROVE  ResolveInv'
  <2>1. \A u \in Task : transfer'[u].status = transfer[u].status /\ transfer'[u].stale = transfer[u].stale
    BY <1>8 DEF RetryFallsDue, TypeInv, TypeOK, TransferRow
  <2> QED
    BY <1>7, <1>8, <2>1 DEF RetryFallsDue
<1>9. ASSUME NEW t \in Task, AttemptGoesStale(t)
      PROVE  ResolveInv'
  <2>1. \A u \in Task : /\ transfer'[u].status = transfer[u].status
                        /\ u # t => transfer'[u].stale = transfer[u].stale
    BY <1>9 DEF AttemptGoesStale, TypeInv, TypeOK, TransferRow
  <2>2. ~transfer[t].stale /\ \A q \in Session : ~Calls(session[q], t)
    BY <1>9 DEF AttemptGoesStale, Solo, Calls, InCall, At
  <2> QED
    BY <1>7, <1>9, <2>1, <2>2 DEF AttemptGoesStale
<1>10. ASSUME NEW t \in Task, Background(t) \/ Customer(t)
       PROVE  ResolveInv'
    BY <1>7, <1>8, <1>9, <1>10 DEF Background, Customer, SkipTransfer, RecoverStuckTransfer,
                                   CustomerPays, CustomerCardFails, rowVars
<1>11. CASE UNCHANGED vars
    BY <1>7, <1>11 DEF vars
<1> QED
    BY <1>2, <1>3, <1>4, <1>5, <1>6, <1>10, <1>11, ResolveStarts DEF Next, HandlerStart

LEMMA Resolution ==
    ASSUME Solo
    PROVE  Spec => []ResolveInv
<1>1. Init => ResolveInv
    BY DEF Init, ResolveInv, Agreement, Calls, Resolves, Settles, TransferHook, Idle, NoTransfer
<1> QED
    BY <1>1, ResolveNext, Typing, Control, Flight, PTL DEF Spec

\* Without transfer webhooks, and while no call outlasts the stale cutoff,
\* payout and task never report an outcome their transfer does not have, for
\* any number of workers, payouts, charges and crashes.
THEOREM RowsAgree ==
    ASSUME Solo
    PROVE  Spec => []Agreement
BY Resolution, PTL DEF ResolveInv

-----------------------------------------------------------------------------
(***************************************************************************)
(* The refinement.  Under the same assumptions the transfers table         *)
(* implements TransferMachine: four actions map to its four, every other   *)
(* one leaves status and attempts alone.                                   *)
(***************************************************************************)
LEMMA MapsUnchanged ==
    ASSUME \A t \in Task : /\ transfer'[t].status = transfer[t].status
                           /\ transfer'[t].attempts = transfer[t].attempts
    PROVE  UNCHANGED TM!vars
<1>1. [t \in Task |-> transfer[t].status]' = [t \in Task |-> transfer[t].status]
    OBVIOUS
<1>2. [t \in Task |-> transfer[t].attempts]' = [t \in Task |-> transfer[t].attempts]
    OBVIOUS
<1> QED
    BY <1>1, <1>2 DEF TM!vars

LEMMA MapsRow ==
    ASSUME NEW t \in Task, NEW s, NEW k,
           \A u \in Task \ {t} : transfer'[u] = transfer[u],
           transfer'[t].status = s, transfer'[t].attempts = k
    PROVE  /\ [u \in Task |-> transfer[u].status]' = [[u \in Task |-> transfer[u].status] EXCEPT ![t] = s]
           /\ [u \in Task |-> transfer[u].attempts]' = [[u \in Task |-> transfer[u].attempts] EXCEPT ![t] = k]
OBVIOUS

\* A refinement step by the kind of change of one row.
LEMMA MapsCreate ==
    ASSUME TypeInv, AuditInv, NEW p \in Session, InsertTransfer(p)
    PROVE  TM!Next
<1>0. PICK t \in Task : session[p].task = t
    BY InsertedRow
<1>1. transfer[t].status = "NONE" /\ transfer[t].attempts = 0
    BY <1>0, InsertedRow DEF AuditInv
<1>2. /\ [u \in Task |-> transfer[u].status]' =
             [[u \in Task |-> transfer[u].status] EXCEPT ![t] = "PENDING"]
      /\ [u \in Task |-> transfer[u].attempts]' =
             [[u \in Task |-> transfer[u].attempts] EXCEPT ![t] = 0]
  <2>1. /\ \A u \in Task \ {t} : transfer'[u] = transfer[u]
        /\ transfer'[t].status = "PENDING" /\ transfer'[t].attempts = 0
    BY <1>0, InsertedRow
  <2> QED
    BY <2>1, MapsRow, Zenon
<1>3. [[u \in Task |-> transfer[u].attempts] EXCEPT ![t] = 0] = [u \in Task |-> transfer[u].attempts]
    BY <1>1
<1>4. TM!Create(t)
    BY <1>1, <1>2, <1>3 DEF TM!Create
<1> QED
    BY <1>4, Zenon DEF TM!Next

LEMMA MapsAttempt ==
    ASSUME TypeInv, FlightInv, NEW p \in Session, NEW t \in Task, ProcessTransfer(p, t)
    PROVE  TM!Next
<1>1. transfer[t].status \in {"PENDING", "RETRYING"} /\ transfer[t].attempts < MaxAttempts
    BY StartedRow DEF FlightInv
<1>2. /\ [u \in Task |-> transfer[u].status]' =
             [[u \in Task |-> transfer[u].status] EXCEPT ![t] = "PROCESSING"]
      /\ [u \in Task |-> transfer[u].attempts]' =
             [[u \in Task |-> transfer[u].attempts] EXCEPT ![t] = transfer[t].attempts + 1]
  <2>1. /\ \A u \in Task \ {t} : transfer'[u] = transfer[u]
        /\ transfer'[t].status = "PROCESSING" /\ transfer'[t].attempts = transfer[t].attempts + 1
    BY StartedRow
  <2> QED
    BY <2>1, MapsRow, Zenon
<1>3. TM!Attempt(t)
    BY <1>1, <1>2 DEF TM!Attempt
<1> QED
    BY <1>3, Zenon DEF TM!Next

LEMMA MapsMark ==
    ASSUME TypeInv, RowsInv, FlightInv, ResolveInv, NEW p \in Session, Mark(p)
    PROVE  TM!Next
<1> DEFINE s == Outcome(session[p])
<1>0. PICK t \in Task : session[p].task = t
    BY MarksAlone
<1>1. transfer[t].status = "PROCESSING"
    BY <1>0, MarksAlone
<1>2. /\ [u \in Task |-> transfer[u].status]' =
             [[u \in Task |-> transfer[u].status] EXCEPT ![t] = s]
      /\ [u \in Task |-> transfer[u].attempts]' =
             [[u \in Task |-> transfer[u].attempts] EXCEPT ![t] = transfer[t].attempts]
  <2>1. /\ \A u \in Task \ {t} : transfer'[u] = transfer[u]
        /\ transfer'[t].status = s /\ transfer'[t].attempts = transfer[t].attempts
    BY <1>0, MarkedRow
  <2> HIDE DEF s
  <2> QED
    BY <1>1, <2>1, MapsRow, Zenon
<1>3. [[u \in Task |-> transfer[u].attempts] EXCEPT ![t] = transfer[t].attempts]
          = [u \in Task |-> transfer[u].attempts]
    BY <1>1
<1>4. s = "RETRYING" => transfer[t].attempts < MaxAttempts
  <2> SUFFICES ASSUME s = "RETRYING" PROVE transfer[t].attempts < MaxAttempts
    OBVIOUS
  <2>1. InCall(p, t) /\ session[p].n < MaxAttempts
    BY <1>0 DEF Outcome, RowsInv, RowOK, InCall, Mark, At
  <2> QED
    BY <1>1, <2>1 DEF FlightInv
<1>5. s \in {"COMPLETED", "FAILED", "RETRYING"}
    BY DEF Outcome
<1> HIDE DEF s
<1>6. CASE s = "RETRYING"
  <2>1. TM!Retry(t)
    BY <1>1, <1>2, <1>3, <1>4, <1>6 DEF TM!Retry
  <2> QED
    BY <2>1, Zenon DEF TM!Next
<1>7. CASE s # "RETRYING"
  <2>1. TM!Resolve(t)
    BY <1>1, <1>2, <1>3, <1>5, <1>7 DEF TM!Resolve
  <2> QED
    BY <2>1, Zenon DEF TM!Next
<1> QED
    BY <1>6, <1>7

LEMMA MapsHandler ==
    ASSUME TypeInv, RowsInv, FlightInv, AuditInv, ResolveInv, NEW p \in Session, HandlerStep(p)
    PROVE  TM!Next \/ UNCHANGED TM!vars
<1>a. session[p].role \notin TransferHook /\ RowOK(session[p])
    BY DEF RowsInv, ResolveInv
<1>1. CASE WorkerStep(p)
  <2>1. Mark(p) \/ transfer' = transfer
    BY <1>1 DEF WorkerStep, NoPaymentAccount, GatewayPays, GatewayRejects, GatewayUnreachable,
                LoadPayout, MarkPayout, MarkTask, RecordAttempt, Reenqueue, rowVars
  <2> QED
    BY <2>1, MapsMark, MapsUnchanged
<1>2. CASE TransferHookStep(p)
  <2>1. ~At(p, "mark")
    BY <1>a DEF RowOK, At
  <2>2. transfer' = transfer
    BY <1>2, <2>1 DEF TransferHookStep, SkipLockLost, SkipAlreadyRecorded, TakeLock, HookMarks,
                      HookRaises, HookFallback, HookFallbackPaid, RecordTransaction, rowVars
  <2> QED
    BY <2>2, MapsUnchanged
<1>3. CASE ChargeHookStep(p)
  <2>1. transfer' = transfer
    BY <1>3 DEF ChargeHookStep, IgnoreShortCharge, TakeChargeLock, RecordCharge, MarkCustomerPaid,
                AlreadyPaid, UpdatePayoutPaid, NotifyPayer, rowVars
  <2> QED
    BY <2>1, MapsUnchanged
<1>4. CASE PayoutStep(p)
  <2>1. InsertTransfer(p) \/ transfer' = transfer
    BY <1>4 DEF PayoutStep, ReadDebt, OffsetDebt, RecordOffset, FindTransfer, InsertRaises,
                EnqueueTransfer, MarkInitiated, MarkTaskInitiated, rowVars
  <2> QED
    BY <2>1, MapsCreate, MapsUnchanged
<1>5. ASSUME NEW t \in Task, NEW a \in Answer,
             ReconcileUnreachable(p, t) \/ ReconcileLookup(p, t, a)
      PROVE  UNCHANGED TM!vars
    BY <1>5, MapsUnchanged DEF ReconcileUnreachable, ReconcileLookup, rowVars
<1> QED
    BY <1>1, <1>2, <1>3, <1>4, <1>5, Statuses DEF HandlerStep

LEMMA MapsNext ==
    TypeInv /\ RowsInv /\ FlightInv /\ AuditInv /\ ResolveInv /\ [Next]_vars => [TM!Next]_TM!vars
<1> SUFFICES ASSUME TypeInv, RowsInv, FlightInv, AuditInv, ResolveInv, [Next]_vars
             PROVE  TM!Next \/ UNCHANGED TM!vars
    OBVIOUS
<1>1. ASSUME NEW p \in Session, HandlerStart(p)
      PROVE  TM!Next \/ UNCHANGED TM!vars
  <2>1. (\E t \in Task : ProcessTransfer(p, t)) \/ transfer' = transfer
    BY <1>1 DEF HandlerStart, StartReconcile, StartPayout, ReceiveTransferHook, ReceiveChargeHook, rowVars
  <2> QED
    BY <2>1, MapsAttempt, MapsUnchanged
<1>2. ASSUME NEW p \in Session, Crash(p)
      PROVE  UNCHANGED TM!vars
    BY <1>2, MapsUnchanged DEF Crash
<1>3. ASSUME NEW t \in Task, Background(t) \/ Customer(t)
      PROVE  UNCHANGED TM!vars
  <2>1. \A u \in Task : /\ transfer'[u].status = transfer[u].status
                        /\ transfer'[u].attempts = transfer[u].attempts
    <3>1. transfer \in [Task -> TransferRow]
      BY DEF TypeInv, TypeOK
    <3>2. \/ transfer' = [transfer EXCEPT ![t].due = TRUE]
          \/ transfer' = [transfer EXCEPT ![t].stale = TRUE]
          \/ transfer' = transfer
      BY <1>3 DEF Background, Customer, SkipTransfer, RecoverStuckTransfer, RetryFallsDue,
                  AttemptGoesStale, CustomerPays, CustomerCardFails, rowVars
    <3> QED
      BY <3>1, <3>2 DEF TransferRow
  <2> QED
    BY <2>1, MapsUnchanged
<1>4. CASE UNCHANGED vars
    BY <1>4, MapsUnchanged DEF vars
<1> QED
    BY <1>1, <1>2, <1>3, <1>4, MapsHandler DEF Next

\* What TransferService's docstring promises: without transfer webhooks and
\* calls that outlast the cutoff, every transfer follows the transition
\* table, in at most MaxAttempts attempts, to one outcome, for any number of
\* workers, messages, scans and crashes.
THEOREM TransfersKeepThePromise ==
    ASSUME Solo
    PROVE  Spec => TransferPromise
<1>1. Init => TM!Init
    BY DEF Init, TM!Init, NoTransfer
<1> QED
    BY <1>1, MapsNext, Resolution, Typing, Control, Flight, Audit, PTL DEF Spec, TransferPromise, TM!Spec
=============================================================================
