---------------------------- MODULE PayoutTypes -----------------------------
EXTENDS PayoutSystem, TLAPS

-----------------------------------------------------------------------------
(***************************************************************************)
(* Sessions.  Besides its type, a handler at work has a task: ActiveRow    *)
(* is what makes TypeOK inductive.                                         *)
(***************************************************************************)
ActiveRow == {w \in SessionRow : w.pc \in {"idle", "next"} \/ w.task \in Task}

TypeInv == TypeOK /\ session \in [Session -> ActiveRow]

LEMMA Labels ==
    /\ "idle" \in Label /\ "called" \in Label /\ "answer" \in Label /\ "load" \in Label
    /\ "payout" \in Label /\ "task" \in Label /\ "log" \in Label /\ "reenqueue" \in Label
    /\ "next" \in Label /\ "lock" \in Label /\ "mark" \in Label /\ "record" \in Label
    /\ "charge_lock" \in Label /\ "charge_tx" \in Label /\ "charge_task" \in Label
    /\ "charge_payout" \in Label /\ "notify" \in Label /\ "debt" \in Label
    /\ "offset" \in Label /\ "settle" \in Label /\ "find" \in Label /\ "insert" \in Label
    /\ "send" \in Label /\ "initiated" \in Label /\ "task_initiated" \in Label
BY DEF Label

LEMMA Statuses ==
    /\ Answer = {"none", "success", "temporary_error", "permanent_error", "error", "failed"}
    /\ {"PENDING", "CUSTOMER_PAID", "TRANSFER_INITIATED", "COMPLETED", "CANCELLED"} \subseteq PayoutStatus
    /\ {"PENDING", "CUSTOMER_PAID", "TRANSFER_INITIATED", "PAID", "FAILED"} \subseteq PaymentStatus
BY DEF Answer, PayoutStatus, PaymentStatus

\* The rows handlers move between.
LEMMA Rows ==
    ASSUME NEW w \in ActiveRow, w.task \in Task, NEW l \in Label
    PROVE  /\ [w EXCEPT !.pc = l] \in ActiveRow
           /\ \A a \in Answer : [w EXCEPT !.pc = l, !.ans = a] \in ActiveRow
           /\ \A n \in Nat : [w EXCEPT !.pc = l, !.n = n] \in ActiveRow
           /\ \A b \in BOOLEAN : [w EXCEPT !.pc = l, !.pend = b] \in ActiveRow
           /\ \A s \in TransferStatus \cup {"NONE"} : [w EXCEPT !.pc = l, !.tst = s] \in ActiveRow
           /\ \A k \in PaymentStatus : [w EXCEPT !.pc = l, !.kst = k] \in ActiveRow
           /\ \A s \in PayoutStatus, k \in PaymentStatus :
                  [w EXCEPT !.pc = l, !.pst = s, !.kst = k] \in ActiveRow
           /\ \A s \in PayoutStatus, b \in BOOLEAN :
                  [w EXCEPT !.pc = l, !.pst = s, !.pend = b] \in ActiveRow
           /\ \A b \in BOOLEAN, k \in PaymentStatus :
                  [w EXCEPT !.pc = l, !.pend = b, !.kst = k] \in ActiveRow
<1> USE DEF ActiveRow, SessionRow
<1>1. [w EXCEPT !.pc = l] \in ActiveRow
    OBVIOUS
<1>2. \A a \in Answer : [w EXCEPT !.pc = l, !.ans = a] \in ActiveRow
    OBVIOUS
<1>3. \A n \in Nat : [w EXCEPT !.pc = l, !.n = n] \in ActiveRow
    OBVIOUS
<1>4. \A b \in BOOLEAN : [w EXCEPT !.pc = l, !.pend = b] \in ActiveRow
    OBVIOUS
<1>5. \A s \in TransferStatus \cup {"NONE"} : [w EXCEPT !.pc = l, !.tst = s] \in ActiveRow
    OBVIOUS
<1>6. \A k \in PaymentStatus : [w EXCEPT !.pc = l, !.kst = k] \in ActiveRow
    OBVIOUS
<1>7. \A s \in PayoutStatus, k \in PaymentStatus :
          [w EXCEPT !.pc = l, !.pst = s, !.kst = k] \in ActiveRow
    OBVIOUS
<1>8. \A s \in PayoutStatus, b \in BOOLEAN :
          [w EXCEPT !.pc = l, !.pst = s, !.pend = b] \in ActiveRow
    OBVIOUS
<1>9. \A b \in BOOLEAN, k \in PaymentStatus :
          [w EXCEPT !.pc = l, !.pend = b, !.kst = k] \in ActiveRow
    OBVIOUS
<1> QED BY <1>1, <1>2, <1>3, <1>4, <1>5, <1>6, <1>7, <1>8, <1>9

LEMMA IdleIsActive == Idle \in ActiveRow
BY DEF Idle, ActiveRow, SessionRow, Label, Answer, PayoutStatus, PaymentStatus

LEMMA Becomes ==
    ASSUME session \in [Session -> ActiveRow], NEW p \in Session, NEW w \in ActiveRow, Become(p, w)
    PROVE  session' \in [Session -> ActiveRow]
BY DEF Become

\* A handler at work has a task.
LEMMA Busy ==
    ASSUME TypeInv, NEW p \in Session, ~At(p, "idle"), ~At(p, "next")
    PROVE  session[p] \in ActiveRow /\ session[p].task \in Task
BY DEF TypeInv, ActiveRow, At

LEMMA Goes ==
    ASSUME TypeInv, NEW p \in Session, NEW l \in Label, ~At(p, "idle"), ~At(p, "next"), Goto(p, l)
    PROVE  session' \in [Session -> ActiveRow]
BY Busy, Rows, Becomes DEF Goto, TypeInv

LEMMA Finishes ==
    ASSUME TypeInv, NEW p \in Session, Finish(p)
    PROVE  session' \in [Session -> ActiveRow]
BY IdleIsActive, Becomes DEF Finish, TypeInv

\* Steps that change nothing but the session.
LEMMA OnlySession ==
    ASSUME TypeInv, UNCHANGED <<rowVars, externalVars, crashes>>, session' \in [Session -> ActiveRow]
    PROVE  TypeInv'
BY DEF TypeInv, TypeOK, rowVars, externalVars, ActiveRow

\* The sessions are of the type TypeOK gives them.
LEMMA Typed ==
    ASSUME session' \in [Session -> ActiveRow]
    PROVE  session' \in [Session -> SessionRow]
BY DEF ActiveRow

\* A transition keeps the rows of transfers typed.
LEMMA Marks ==
    ASSUME TypeInv, NEW t \in Task, NEW s \in TransferStatus,
           transfer' = [transfer EXCEPT ![t] = Transition(@, s)]
    PROVE  transfer' \in [Task -> TransferRow]
<1>1. transfer \in [Task -> TransferRow]
    BY DEF TypeInv, TypeOK
<1>2. \A row \in TransferRow : Transition(row, s) \in TransferRow
    BY DEF TransferRow, Transition
<1> QED
    BY <1>1, <1>2

\* So does recording a Transaction with their counters.
LEMMA Counts ==
    ASSUME TypeInv, NEW e, txns' = [txns EXCEPT ![e] = @ + 1]
    PROVE  txns' \in [Event -> Nat]
<1>1. txns \in [Event -> Nat]
    BY DEF TypeInv, TypeOK
<1>2. CASE e \in Event
    BY <1>1, <1>2
<1>3. CASE e \notin Event
    BY <1>1, <1>3
<1> QED
    BY <1>2, <1>3

LEMMA WorkerTypes ==
    ASSUME TypeInv, NEW p \in Session, WorkerStep(p)
    PROVE  TypeInv'
<1>1. CASE NoPaymentAccount(p)
  <2>1. session' \in [Session -> ActiveRow]
    BY <1>1, Labels, Statuses, Busy, Rows, Becomes DEF NoPaymentAccount, At, TypeInv
  <2> QED
    BY <1>1, <2>1, OnlySession DEF NoPaymentAccount
<1>2. CASE GatewayPays(p)
  <2>1. session' \in [Session -> ActiveRow]
    BY <1>2, Labels, Statuses, Busy, Rows, Becomes DEF GatewayPays, Answered, At, TypeInv
  <2>2. [kind |-> "transfer.success", task |-> JobOf(p), ref |-> NoRef] \in Event
    BY <1>2, Busy DEF GatewayPays, At, Event, HookKind, JobOf
  <2>3. hooks' \subseteq Event
    BY <1>2, <2>2 DEF GatewayPays, TypeInv, TypeOK
  <2>4. paid' \in [Task -> BOOLEAN]
    BY <1>2 DEF GatewayPays, TypeInv, TypeOK
  <2> QED
    BY <1>2, <2>1, <2>3, <2>4, Typed DEF GatewayPays, TypeInv, TypeOK, rowVars, externalVars
<1>3. CASE GatewayRejects(p)
  <2>1. session' \in [Session -> ActiveRow]
    BY <1>3, Labels, Statuses, Busy, Rows, Becomes DEF GatewayRejects, Answered, At, TypeInv
  <2>2. [kind |-> "transfer.failed", task |-> JobOf(p), ref |-> NoRef] \in Event
    BY <1>3, Busy DEF GatewayRejects, At, Event, HookKind, JobOf
  <2>3. hooks' \subseteq Event
    BY <1>3, <2>2 DEF GatewayRejects, TypeInv, TypeOK
  <2> QED
    BY <1>3, <2>1, <2>3, Typed DEF GatewayRejects, TypeInv, TypeOK, rowVars, externalVars
<1>4. CASE GatewayUnreachable(p)
  <2>1. session' \in [Session -> ActiveRow]
    BY <1>4, Labels, Statuses, Busy, Rows, Becomes DEF GatewayUnreachable, Answered, At, TypeInv
  <2> QED
    BY <1>4, <2>1, OnlySession DEF GatewayUnreachable
<1>5. CASE Mark(p)
  <2>1. session' \in [Session -> ActiveRow]
    BY <1>5, Labels, Goes DEF Mark, At
  <2>2. Outcome(session[p]) \in TransferStatus
    BY DEF Outcome, TransferStatus
  <2>3. transfer' \in [Task -> TransferRow]
    BY <1>5, <2>2, Marks, Busy DEF Mark, JobOf, At
  <2> QED
    BY <1>5, <2>1, <2>3, Typed DEF Mark, TypeInv, TypeOK, rowVars, externalVars
<1>6. CASE LoadPayout(p)
  <2>1. session[p].task \in Task
    BY <1>6, Busy DEF LoadPayout, At
  <2>2. payout[session[p].task] \in PayoutStatus /\ payStatus[session[p].task] \in PaymentStatus
    BY <2>1 DEF TypeInv, TypeOK
  <2>3. session' \in [Session -> ActiveRow]
    BY <1>6, <2>1, <2>2, Labels, Rows, Becomes DEF LoadPayout, JobOf, TypeInv
  <2> QED
    BY <1>6, <2>3, OnlySession DEF LoadPayout
<1>7. CASE MarkPayout(p)
  <2>1. session[p] \in ActiveRow /\ session[p].kst \in PaymentStatus /\ session[p].task \in Task
    BY <1>7, Busy DEF MarkPayout, At, ActiveRow, SessionRow
  <2>2. PICK k \in PaymentStatus : Become(p, [session[p] EXCEPT !.pc = "task", !.kst = k])
    BY <1>7, <2>1 DEF MarkPayout, JobOf, TypeInv, TypeOK
  <2>3. session' \in [Session -> ActiveRow]
    BY <2>1, <2>2, Labels, Rows, Becomes DEF TypeInv
  <2>4. payout' \in [Task -> PayoutStatus]
    BY <1>7, Statuses DEF MarkPayout, PayoutAfter, TypeInv, TypeOK
  <2> QED
    BY <1>7, <2>3, <2>4, Typed DEF MarkPayout, TypeInv, TypeOK, rowVars, externalVars
<1>8. CASE MarkTask(p)
  <2>1. session[p] \in ActiveRow /\ session[p].task \in Task
    BY <1>8, Busy DEF MarkTask, At
  <2>2. [Idle EXCEPT !.pc = "next", !.role = session[p].role, !.todo = session[p].todo] \in ActiveRow
    BY <2>1, IdleIsActive, Labels DEF ActiveRow, SessionRow
  <2>3. AfterMark(session[p]) \in ActiveRow
    BY <2>1, <2>2, Labels, Rows, IdleIsActive DEF AfterMark
  <2>4. session' \in [Session -> ActiveRow]
    BY <1>8, <2>3, Becomes DEF MarkTask, TypeInv
  <2>5. payStatus' \in [Task -> PaymentStatus]
    BY <1>8, Statuses DEF MarkTask, TaskAfter, TypeInv, TypeOK
  <2> QED
    BY <1>8, <2>4, <2>5, Typed DEF MarkTask, TypeInv, TypeOK, rowVars, externalVars
<1>9. CASE RecordAttempt(p)
  <2>1. session' \in [Session -> ActiveRow]
    BY <1>9, Labels, Goes, Finishes DEF RecordAttempt, AttemptOf, At
  <2>2. [number |-> session[p].n, status |-> session[p].ans] \in AttemptRow
    BY <1>9, Busy DEF RecordAttempt, AttemptOf, At, AttemptRow, ActiveRow, SessionRow
  <2>3. attemptLog' \in [Task -> SUBSET AttemptRow]
    BY <1>9, <2>2 DEF RecordAttempt, AttemptOf, TypeInv, TypeOK
  <2> QED
    BY <1>9, <2>1, <2>3, Typed DEF RecordAttempt, AttemptOf, TypeInv, TypeOK, rowVars, externalVars
<1>10. CASE Reenqueue(p)
  <2>1. session' \in [Session -> ActiveRow]
    BY <1>10, Finishes DEF Reenqueue
  <2>2. queue' \subseteq Task
    BY <1>10, Busy DEF Reenqueue, At, JobOf, TypeInv, TypeOK
  <2> QED
    BY <1>10, <2>1, <2>2, Typed DEF Reenqueue, TypeInv, TypeOK, rowVars, externalVars
<1> QED
    BY <1>1, <1>2, <1>3, <1>4, <1>5, <1>6, <1>7, <1>8, <1>9, <1>10 DEF WorkerStep

LEMMA TransferHookTypes ==
    ASSUME TypeInv, NEW p \in Session, TransferHookStep(p)
    PROVE  TypeInv'
<1>1. CASE SkipLockLost(p)
  <2>1. session' \in [Session -> ActiveRow]
    BY <1>1, Finishes DEF SkipLockLost
  <2>2. hooks' \subseteq Event
    BY <1>1 DEF SkipLockLost, Acknowledge, TypeInv, TypeOK
  <2> QED
    BY <1>1, <2>1, <2>2, Typed DEF SkipLockLost, TypeInv, TypeOK, rowVars, externalVars
<1>2. CASE SkipAlreadyRecorded(p)
  <2>1. session' \in [Session -> ActiveRow]
    BY <1>2, Finishes DEF SkipAlreadyRecorded, WinsLock
  <2>2. hooks' \subseteq Event
    BY <1>2 DEF SkipAlreadyRecorded, WinsLock, Acknowledge, TypeInv, TypeOK
  <2>3. current' \in [Task -> SUBSET Session]
    BY <1>2 DEF SkipAlreadyRecorded, WinsLock, ReleaseLock, TypeInv, TypeOK
  <2> QED
    BY <1>2, <2>1, <2>2, <2>3, Typed DEF SkipAlreadyRecorded, WinsLock, TypeInv, TypeOK, rowVars, externalVars
<1>3. CASE TakeLock(p)
  <2>1. session[p].task \in Task
    BY <1>3, Busy DEF TakeLock, WinsLock, At
  <2>2. transfer[session[p].task].status \in TransferStatus \cup {"NONE"}
    BY <2>1 DEF TypeInv, TypeOK, TransferRow
  <2>3. session' \in [Session -> ActiveRow]
    BY <1>3, <2>1, <2>2, Labels, Rows, Becomes DEF TakeLock, WinsLock, JobOf, TypeInv
  <2> QED
    BY <1>3, <2>3, OnlySession DEF TakeLock, WinsLock
<1>4. CASE HookMarks(p)
  <2>1. session' \in [Session -> ActiveRow]
    BY <1>4, Labels, Goes DEF HookMarks, At
  <2>2. Outcome(session[p]) \in TransferStatus
    BY DEF Outcome, TransferStatus
  <2>3. transfer' \in [Task -> TransferRow]
    BY <1>4, <2>2, Marks, Busy DEF HookMarks, JobOf, At
  <2>4. current' \in [Task -> SUBSET Session]
    BY <1>4 DEF HookMarks, TypeInv, TypeOK
  <2> QED
    BY <1>4, <2>1, <2>3, <2>4, Typed DEF HookMarks, TypeInv, TypeOK, rowVars, externalVars
<1>5. CASE HookRaises(p)
  <2>1. session' \in [Session -> ActiveRow]
    BY <1>5, Finishes DEF HookRaises
  <2>2. current' \in [Task -> SUBSET Session]
    BY <1>5 DEF HookRaises, ReleaseLock, TypeInv, TypeOK
  <2> QED
    BY <1>5, <2>1, <2>2, Typed DEF HookRaises, TypeInv, TypeOK, rowVars, externalVars
<1>6. CASE HookFallback(p)
  <2>1. session' \in [Session -> ActiveRow]
    BY <1>6, Labels, Goes DEF HookFallback, At
  <2>2. payout' \in [Task -> PayoutStatus]
    BY <1>6, Statuses DEF HookFallback, FallbackPayout, TypeInv, TypeOK
  <2>3. payStatus' \in [Task -> PaymentStatus]
    BY <1>6, Statuses DEF HookFallback, TaskAfter, TypeInv, TypeOK
  <2>4. current' \in [Task -> SUBSET Session]
    BY <1>6 DEF HookFallback, TypeInv, TypeOK
  <2> QED
    BY <1>6, <2>1, <2>2, <2>3, <2>4, Typed DEF HookFallback, TypeInv, TypeOK, rowVars, externalVars
<1>7. CASE HookFallbackPaid(p)
  <2>1. session' \in [Session -> ActiveRow]
    BY <1>7, Finishes DEF HookFallbackPaid
  <2>2. payout' \in [Task -> PayoutStatus]
    BY <1>7, Statuses DEF HookFallbackPaid, FallbackPayout, TypeInv, TypeOK
  <2>3. current' \in [Task -> SUBSET Session]
    BY <1>7 DEF HookFallbackPaid, TypeInv, TypeOK
  <2>4. txns' \in [Event -> Nat]
    BY <1>7, Counts DEF HookFallbackPaid
  <2>5. hooks' \subseteq Event
    BY <1>7 DEF HookFallbackPaid, Acknowledge, TypeInv, TypeOK
  <2> QED
    BY <1>7, <2>1, <2>2, <2>3, <2>4, <2>5, Typed DEF HookFallbackPaid, TypeInv, TypeOK, rowVars, externalVars
<1>8. CASE RecordTransaction(p)
  <2>1. session' \in [Session -> ActiveRow]
    BY <1>8, Finishes DEF RecordTransaction
  <2>2. txns' \in [Event -> Nat]
    BY <1>8, Counts DEF RecordTransaction
  <2>3. hooks' \subseteq Event
    BY <1>8 DEF RecordTransaction, Acknowledge, TypeInv, TypeOK
  <2> QED
    BY <1>8, <2>1, <2>2, <2>3, Typed DEF RecordTransaction, TypeInv, TypeOK, rowVars, externalVars
<1> QED
    BY <1>1, <1>2, <1>3, <1>4, <1>5, <1>6, <1>7, <1>8 DEF TransferHookStep

LEMMA ChargeHookTypes ==
    ASSUME TypeInv, NEW p \in Session, ChargeHookStep(p)
    PROVE  TypeInv'
<1>1. CASE IgnoreShortCharge(p)
  <2>1. session' \in [Session -> ActiveRow]
    BY <1>1, Finishes DEF IgnoreShortCharge, WinsLock
  <2>2. current' \in [Task -> SUBSET Session]
    BY <1>1 DEF IgnoreShortCharge, WinsLock, ReleaseLock, TypeInv, TypeOK
  <2>3. hooks' \subseteq Event
    BY <1>1 DEF IgnoreShortCharge, WinsLock, Acknowledge, TypeInv, TypeOK
  <2> QED
    BY <1>1, <2>1, <2>2, <2>3, Typed DEF IgnoreShortCharge, WinsLock, TypeInv, TypeOK, rowVars, externalVars
<1>2. CASE TakeChargeLock(p)
  <2>1. session' \in [Session -> ActiveRow]
    BY <1>2, Labels, Goes DEF TakeChargeLock, WinsLock, At
  <2> QED
    BY <1>2, <2>1, OnlySession DEF TakeChargeLock, WinsLock
<1>3. CASE RecordCharge(p)
  <2>0. /\ session[p] \in ActiveRow /\ session[p].task \in Task
        /\ payStatus[session[p].task] \in PaymentStatus
    BY <1>3, Busy DEF RecordCharge, At, TypeInv, TypeOK
  <2>a. PICK k \in PaymentStatus, l \in {"charge_task", "notify"} :
            Become(p, [session[p] EXCEPT !.pc = l, !.kst = k])
    BY <1>3, <2>0 DEF RecordCharge, AfterCharge, JobOf
  <2>b. [session[p] EXCEPT !.pc = l, !.kst = k] \in ActiveRow
    BY <2>0, <2>a, Labels, Rows
  <2>1. session' \in [Session -> ActiveRow]
    BY <2>a, <2>b, Becomes DEF TypeInv
  <2>2. txns' \in [Event -> Nat]
    BY <1>3, Counts DEF RecordCharge, AfterCharge
  <2>3. current' \in [Task -> SUBSET Session]
    BY <1>3 DEF RecordCharge, AfterCharge, TypeInv, TypeOK
  <2> QED
    BY <1>3, <2>1, <2>2, <2>3, Typed DEF RecordCharge, AfterCharge, TypeInv, TypeOK, rowVars, externalVars
<1>4. CASE MarkCustomerPaid(p)
  <2>1. session' \in [Session -> ActiveRow]
    BY <1>4, Labels, Statuses, Busy, Rows, Becomes DEF MarkCustomerPaid, At, TypeInv
  <2>2. payStatus' \in [Task -> PaymentStatus]
    BY <1>4, Statuses DEF MarkCustomerPaid, TypeInv, TypeOK
  <2> QED
    BY <1>4, <2>1, <2>2, Typed DEF MarkCustomerPaid, TypeInv, TypeOK, rowVars, externalVars
<1>5. CASE AlreadyPaid(p)
  <2>1. session' \in [Session -> ActiveRow]
    BY <1>5, Labels, Goes DEF AlreadyPaid, At
  <2> QED
    BY <1>5, <2>1, OnlySession DEF AlreadyPaid
<1>6. CASE UpdatePayoutPaid(p)
  <2> DEFINE pst == IF session[p].pst \in PayableStatus THEN "CUSTOMER_PAID" ELSE session[p].pst
  <2> DEFINE late == payout[JobOf(p)] \in PayableStatus
  <2>1. session[p] \in ActiveRow /\ session[p].task \in Task
    BY <1>6, Busy DEF UpdatePayoutPaid, At
  <2>2. pst \in PayoutStatus /\ late \in BOOLEAN
    BY <2>1, Statuses DEF ActiveRow, SessionRow
  <2> HIDE DEF pst, late
  <2>3. Become(p, [session[p] EXCEPT !.pc = IF pst = "CUSTOMER_PAID" THEN "debt" ELSE "notify",
                                        !.pst = pst, !.pend = late])
    BY <1>6 DEF UpdatePayoutPaid, pst, late
  <2>4. session' \in [Session -> ActiveRow]
    BY <2>1, <2>2, <2>3, Labels, Rows, Becomes, ZenonT(60) DEF TypeInv
  <2> QED
    BY <1>6, <2>4, OnlySession DEF UpdatePayoutPaid
<1>7. CASE NotifyPayer(p)
  <2>1. session' \in [Session -> ActiveRow]
    BY <1>7, Finishes DEF NotifyPayer
  <2>2. payout' \in [Task -> PayoutStatus]
    BY <1>7, Statuses DEF NotifyPayer, CommitPayout, TypeInv, TypeOK
  <2>3. hooks' \subseteq Event
    BY <1>7 DEF NotifyPayer, Acknowledge, TypeInv, TypeOK
  <2> QED
    BY <1>7, <2>1, <2>2, <2>3, Typed DEF NotifyPayer, TypeInv, TypeOK, rowVars, externalVars
<1> QED
    BY <1>1, <1>2, <1>3, <1>4, <1>5, <1>6, <1>7 DEF ChargeHookStep

LEMMA PayoutTypes ==
    ASSUME TypeInv, NEW p \in Session, PayoutStep(p)
    PROVE  TypeInv'
<1>1. CASE ReadDebt(p)
  <2> DEFINE offset == IF debt <= 0 THEN 0 ELSE IF debt < Gross THEN debt ELSE Gross
  <2>1. offset \in Nat
    BY ConstantsAssumption DEF TypeInv, TypeOK
  <2> HIDE DEF offset
  <2>2. Become(p, [session[p] EXCEPT !.pc = IF offset = 0 THEN "find" ELSE "offset", !.n = offset])
    BY <1>1 DEF ReadDebt, offset
  <2>3. session' \in [Session -> ActiveRow]
    BY <1>1, <2>1, <2>2, Labels, Busy, Rows, Becomes DEF ReadDebt, At, TypeInv
  <2> QED
    BY <1>1, <2>3, OnlySession DEF ReadDebt
<1>2. CASE OffsetDebt(p)
  <2>1. session' \in [Session -> ActiveRow]
    BY <1>2, Labels, Busy, Rows, Becomes DEF OffsetDebt, OffsetEntry, At, TypeInv
  <2>2. debt' \in Int
    BY <1>2, Busy DEF OffsetDebt, OffsetEntry, At, ActiveRow, SessionRow, TypeInv, TypeOK
  <2>3. payout' \in [Task -> PayoutStatus]
    BY <1>2, Statuses DEF OffsetDebt, OffsetEntry, CommitPayout, TypeInv, TypeOK
  <2> QED
    BY <1>2, <2>1, <2>2, <2>3, Typed DEF OffsetDebt, OffsetEntry, TypeInv, TypeOK, rowVars, externalVars
<1>3. CASE RecordOffset(p)
  <2>1. session' \in [Session -> ActiveRow]
    BY <1>3, Labels, Goes DEF RecordOffset, At
  <2>2. settled' \in Nat
    BY <1>3, Busy DEF RecordOffset, At, ActiveRow, SessionRow, TypeInv, TypeOK
  <2> QED
    BY <1>3, <2>1, <2>2, Typed DEF RecordOffset, TypeInv, TypeOK, rowVars, externalVars
<1>4. CASE FindTransfer(p)
  <2>1. session' \in [Session -> ActiveRow]
    BY <1>4, Labels, Goes DEF FindTransfer, At
  <2> QED
    BY <1>4, <2>1, OnlySession DEF FindTransfer
<1>5. CASE InsertTransfer(p)
  <2>1. session' \in [Session -> ActiveRow]
    BY <1>5, Labels, Busy, Rows, Becomes DEF InsertTransfer, At, TypeInv
  <2>2. transfer' \in [Task -> TransferRow]
    BY <1>5 DEF InsertTransfer, NewTransfer, NoTransfer, TransferRow, TransferStatus, TypeInv, TypeOK
  <2>3. payout' \in [Task -> PayoutStatus]
    BY <1>5, Statuses DEF InsertTransfer, CommitPayout, TypeInv, TypeOK
  <2> QED
    BY <1>5, <2>1, <2>2, <2>3, Typed DEF InsertTransfer, TypeInv, TypeOK, rowVars, externalVars
<1>6. CASE InsertRaises(p)
  <2>1. session' \in [Session -> ActiveRow]
    BY <1>6, Finishes DEF InsertRaises
  <2> QED
    BY <1>6, <2>1, OnlySession DEF InsertRaises
<1>7. CASE EnqueueTransfer(p)
  <2>1. session' \in [Session -> ActiveRow]
    BY <1>7, Labels, Goes DEF EnqueueTransfer, At
  <2>2. queue' \subseteq Task
    BY <1>7, Busy DEF EnqueueTransfer, At, JobOf, TypeInv, TypeOK
  <2> QED
    BY <1>7, <2>1, <2>2, Typed DEF EnqueueTransfer, TypeInv, TypeOK, rowVars, externalVars
<1>8. CASE MarkInitiated(p)
  <2>0. /\ session[p] \in ActiveRow /\ session[p].task \in Task
        /\ payStatus[session[p].task] \in PaymentStatus
    BY <1>8, Busy DEF MarkInitiated, At, TypeInv, TypeOK
  <2>a. PICK k \in PaymentStatus :
            Become(p, [session[p] EXCEPT !.pc = "task_initiated", !.pend = FALSE, !.kst = k])
    BY <1>8, <2>0 DEF MarkInitiated, JobOf
  <2>b. [session[p] EXCEPT !.pc = "task_initiated", !.pend = FALSE, !.kst = k] \in ActiveRow
    BY <2>0, <2>a, Labels, Rows
  <2>1. session' \in [Session -> ActiveRow]
    BY <2>a, <2>b, Becomes DEF TypeInv
  <2>2. payout' \in [Task -> PayoutStatus]
    BY <1>8, Statuses DEF MarkInitiated, CommitPayout, TypeInv, TypeOK
  <2> QED
    BY <1>8, <2>1, <2>2, Typed DEF MarkInitiated, TypeInv, TypeOK, rowVars, externalVars
<1>9. CASE MarkTaskInitiated(p)
  <2>1. session' \in [Session -> ActiveRow]
    BY <1>9, Labels, Goes, Finishes DEF MarkTaskInitiated, At
  <2>2. payStatus' \in [Task -> PaymentStatus]
    BY <1>9, Statuses DEF MarkTaskInitiated, TypeInv, TypeOK
  <2> QED
    BY <1>9, <2>1, <2>2, Typed DEF MarkTaskInitiated, TypeInv, TypeOK, rowVars, externalVars
<1> QED
    BY <1>1, <1>2, <1>3, <1>4, <1>5, <1>6, <1>7, <1>8, <1>9 DEF PayoutStep

LEMMA ReconcilerTypes ==
    ASSUME TypeInv, NEW p \in Session, NEW t \in Task,
           ReconcileUnreachable(p, t) \/ \E a \in Answer : ReconcileLookup(p, t, a)
    PROVE  TypeInv'
<1>1. CASE ReconcileUnreachable(p, t)
  <2>1. [session[p] EXCEPT !.todo = @ \ {t}] \in ActiveRow
    BY <1>1 DEF ReconcileUnreachable, At, TypeInv, ActiveRow, SessionRow
  <2>2. session' \in [Session -> ActiveRow]
    BY <1>1, <2>1, Becomes, Finishes DEF ReconcileUnreachable, TypeInv
  <2> QED
    BY <1>1, <2>2, OnlySession DEF ReconcileUnreachable
<1>2. CASE \E a \in Answer : ReconcileLookup(p, t, a)
  <2>1. PICK a \in Answer : ReconcileLookup(p, t, a)
    BY <1>2
  <2>2. [session[p] EXCEPT !.pc = "answer", !.task = t, !.ans = a, !.todo = @ \ {t}] \in ActiveRow
    BY Labels, ZenonT(60) DEF TypeInv, ActiveRow, SessionRow
  <2>3. session' \in [Session -> ActiveRow]
    BY <2>1, <2>2, Becomes DEF ReconcileLookup, TypeInv
  <2> QED
    BY <2>1, <2>3, OnlySession DEF ReconcileLookup
<1> QED
    BY <1>1, <1>2

LEMMA StartTypes ==
    ASSUME TypeInv, NEW p \in Session, HandlerStart(p)
    PROVE  TypeInv'
<1>1. CASE StartReconcile(p)
  <2>1. [Idle EXCEPT !.pc = "next", !.role = "reconciler", !.todo = StaleTransfers] \in ActiveRow
    BY IdleIsActive, Labels DEF ActiveRow, SessionRow, StaleTransfers, Role
  <2>2. session' \in [Session -> ActiveRow]
    BY <1>1, <2>1, Becomes DEF StartReconcile, TypeInv
  <2> QED
    BY <1>1, <2>2, OnlySession DEF StartReconcile
<1>2. ASSUME NEW t \in Task, ProcessTransfer(p, t)
      PROVE  TypeInv'
  <2>1. transfer[t] \in TransferRow
    BY DEF TypeInv, TypeOK
  <2>2. transfer[t].attempts + 1 \in Nat
    BY <2>1 DEF TransferRow
  <2>3. [Idle EXCEPT !.pc = "called", !.role = "worker", !.task = t,
                     !.n = transfer[t].attempts + 1] \in ActiveRow
    BY <2>2, IdleIsActive, Labels DEF ActiveRow, SessionRow, Role
  <2>4. session' \in [Session -> ActiveRow]
    BY <1>2, <2>3, Becomes DEF ProcessTransfer, Processable, TypeInv
  <2>5. transfer' \in [Task -> TransferRow]
    BY <1>2, <2>1, SMTT(30) DEF ProcessTransfer, Processable, TypeInv, TypeOK, TransferRow, TransferStatus
  <2> QED
    BY <1>2, <2>4, <2>5, Typed DEF ProcessTransfer, Processable, ConsumeMessage, TypeInv, TypeOK
<1>3. ASSUME NEW t \in Task, StartPayout(p, t)
      PROVE  TypeInv'
  <2>1. payout[t] \in PayoutStatus /\ payStatus[t] \in PaymentStatus
    BY DEF TypeInv, TypeOK
  <2>2. [Idle EXCEPT !.pc = "debt", !.role = "payout", !.task = t,
                     !.pst = payout[t], !.kst = payStatus[t]] \in ActiveRow
    BY <2>1, IdleIsActive, Labels DEF ActiveRow, SessionRow, Role
  <2>3. session' \in [Session -> ActiveRow]
    BY <1>3, <2>2, Becomes DEF StartPayout, TypeInv
  <2> QED
    BY <1>3, <2>3, OnlySession DEF StartPayout
<1>4. ASSUME NEW e \in hooks, ReceiveTransferHook(p, e)
      PROVE  TypeInv'
  <2>1. e.kind \in HookKind /\ e.task \in Task /\ e.ref \in Ref \cup {NoRef}
    BY DEF TypeInv, TypeOK, Event
  <2>2. payout[e.task] \in PayoutStatus /\ payStatus[e.task] \in PaymentStatus
    BY <2>1 DEF TypeInv, TypeOK
  <2>3. HookAnswer(e.kind) \in Answer
    BY Statuses DEF HookAnswer
  <2>4. [Idle EXCEPT !.pc = "lock", !.role = e.kind, !.task = e.task, !.ref = e.ref,
                     !.ans = HookAnswer(e.kind),
                     !.pst = payout[e.task], !.kst = payStatus[e.task]] \in ActiveRow
    BY <2>1, <2>2, <2>3, IdleIsActive, Labels DEF ActiveRow, SessionRow, Role
  <2>5. session' \in [Session -> ActiveRow]
    BY <1>4, <2>4, Becomes DEF ReceiveTransferHook, TypeInv
  <2>6. current' \in [Task -> SUBSET Session]
    BY <1>4 DEF ReceiveTransferHook, TypeInv, TypeOK
  <2> QED
    BY <1>4, <2>5, <2>6, Typed DEF ReceiveTransferHook, TypeInv, TypeOK, externalVars
<1>5. ASSUME NEW e \in hooks, ReceiveChargeHook(p, e)
      PROVE  TypeInv'
  <2>1. e.kind \in HookKind /\ e.task \in Task /\ e.ref \in Ref \cup {NoRef}
    BY DEF TypeInv, TypeOK, Event
  <2>2. payout[e.task] \in PayoutStatus /\ payStatus[e.task] \in PaymentStatus
    BY <2>1 DEF TypeInv, TypeOK
  <2>3. [Idle EXCEPT !.pc = "charge_lock", !.role = e.kind, !.task = e.task, !.ref = e.ref,
                     !.pst = payout[e.task], !.kst = payStatus[e.task]] \in ActiveRow
    BY <2>1, <2>2, IdleIsActive, Labels DEF ActiveRow, SessionRow, Role
  <2>4. session' \in [Session -> ActiveRow]
    BY <1>5, <2>3, Becomes DEF ReceiveChargeHook, TypeInv
  <2>5. current' \in [Task -> SUBSET Session]
    BY <1>5 DEF ReceiveChargeHook, TypeInv, TypeOK
  <2> QED
    BY <1>5, <2>4, <2>5, Typed DEF ReceiveChargeHook, TypeInv, TypeOK, externalVars
<1> QED
    BY <1>1, <1>2, <1>3, <1>4, <1>5 DEF HandlerStart

LEMMA EnvironmentTypes ==
    ASSUME TypeInv, NEW t \in Task, Background(t) \/ Customer(t)
    PROVE  TypeInv'
<1>1. CASE SkipTransfer(t)
    BY <1>1 DEF SkipTransfer, Processable, ConsumeMessage, TypeInv, TypeOK, rowVars
<1>2. CASE RecoverStuckTransfer(t)
    BY <1>2 DEF RecoverStuckTransfer, Recoverable, TypeInv, TypeOK, rowVars
<1>3. CASE RetryFallsDue(t)
  <2>1. transfer' \in [Task -> TransferRow]
    BY <1>3, ZenonT(60) DEF RetryFallsDue, TypeInv, TypeOK, TransferRow
  <2> QED
    BY <1>3, <2>1 DEF RetryFallsDue, TypeInv, TypeOK, externalVars
<1>4. CASE AttemptGoesStale(t)
  <2>1. transfer' \in [Task -> TransferRow]
    BY <1>4, ZenonT(60) DEF AttemptGoesStale, TypeInv, TypeOK, TransferRow
  <2> QED
    BY <1>4, <2>1 DEF AttemptGoesStale, TypeInv, TypeOK, externalVars
<1>5. ASSUME NEW r \in Ref, CustomerPays(t, r)
      PROVE  TypeInv'
  <2>1. [kind |-> "charge.success", task |-> t, ref |-> r] \in Event
    BY DEF Event, HookKind
  <2> QED
    BY <1>5, <2>1 DEF CustomerPays, TypeInv, TypeOK, rowVars
<1>6. ASSUME NEW r \in Ref, CustomerCardFails(t, r)
      PROVE  TypeInv'
  <2>1. [kind |-> "charge.failed", task |-> t, ref |-> r] \in Event
    BY DEF Event, HookKind
  <2> QED
    BY <1>6, <2>1 DEF CustomerCardFails, TypeInv, TypeOK, rowVars
<1> QED
    BY <1>1, <1>2, <1>3, <1>4, <1>5, <1>6 DEF Background, Customer

LEMMA CrashTypes ==
    ASSUME TypeInv, NEW p \in Session, Crash(p)
    PROVE  TypeInv'
<1>1. session' \in [Session -> ActiveRow]
    BY Finishes DEF Crash
<1>2. current' \in [Task -> SUBSET Session]
    BY DEF Crash, TypeInv, TypeOK
<1> QED
    BY <1>1, <1>2, Typed DEF Crash, TypeInv, TypeOK, externalVars

LEMMA TypeInit == Init => TypeInv
<1> SUFFICES ASSUME Init
             PROVE  TypeInv
    OBVIOUS
<1>1. NoTransfer \in TransferRow
    BY DEF NoTransfer, TransferRow
<1>2. session \in [Session -> ActiveRow]
    BY IdleIsActive DEF Init
<1>3. session \in [Session -> SessionRow]
    BY <1>2 DEF ActiveRow
<1> QED
    BY <1>1, <1>2, <1>3, Statuses, ConstantsAssumption
       DEF Init, TypeInv, TypeOK, PaymentStatus

LEMMA TypeNext == TypeInv /\ [Next]_vars => TypeInv'
<1> SUFFICES ASSUME TypeInv, [Next]_vars
             PROVE  TypeInv'
    OBVIOUS
<1>1. ASSUME NEW p \in Session, HandlerStep(p)
      PROVE  TypeInv'
    BY <1>1, WorkerTypes, TransferHookTypes, ChargeHookTypes, PayoutTypes, ReconcilerTypes
       DEF HandlerStep
<1>2. ASSUME NEW p \in Session, HandlerStart(p) \/ Crash(p)
      PROVE  TypeInv'
    BY <1>2, StartTypes, CrashTypes
<1>3. ASSUME NEW t \in Task, Background(t) \/ Customer(t)
      PROVE  TypeInv'
    BY <1>3, EnvironmentTypes
<1>4. CASE UNCHANGED vars
    BY <1>4 DEF vars, TypeInv, TypeOK
<1> QED
    BY <1>1, <1>2, <1>3, <1>4 DEF Next

LEMMA Typing == Spec => []TypeInv
BY TypeInit, TypeNext, PTL DEF Spec

\* Every reachable state is of the declared types, whatever the tasks,
\* handlers, references and bounds.
THEOREM TypeCorrect == Spec => []TypeOK
BY Typing, PTL DEF TypeInv
=============================================================================
