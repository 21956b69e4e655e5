--------------------------- MODULE LifecycleTypes ---------------------------
(***************************************************************************)
(* Type correctness of LifecycleSystem, and PinsBeforeMoney, which the     *)
(* types rest on: the other side of a review exists because the task was   *)
(* started, and a task is started because its customer told a PIN.         *)
(***************************************************************************)
EXTENDS LifecycleSystem, FiniteSetTheorems, SequenceTheorems, TLAPS

Accepting == {"accept", "accept_row", "accept_duty"}
Reviewing == {"review", "ledger", "notify_score", "reveal_row"}
Responding == {"approve", "reject"}
Jobs == {"complete", "pay"}

\* A task that no cancelled draft can take back any more.
Dropping(t) == \E h \in running : h.task = t /\ h.pc = "drop"
Past(t) == task[t].status \notin {"ABSENT", "DRAFT"} /\ ~Dropping(t)
Lasting(t) == Past(t) /\ task[t].provider # NoProvider

TaskOK(t) ==
    /\ task[t].status = "OPEN" => Past(t)
    /\ task[t].status = "ASSIGNED" => Lasting(t)
    /\ task[t].status = "IN_PROGRESS" => "start" \in told[t]
    /\ task[t].status = "COMPLETED" \/ payout[t] # {} \/ commission[t] > 0 => told[t] = Pin
    /\ "completion" \in told[t] => "start" \in told[t]
    /\ told[t] # {} => Lasting(t)

HandlerOK(h) ==
    /\ h.pc \in {"confirm", "drop"} => h.user = Customer
    /\ h.pc \in Accepting => h.user \in Provider /\ Past(h.task)
    /\ h.pc = "start" => "start" \in told[h.task]
    /\ h.pc \in Workers => h.user \in Provider /\ told[h.task] = Pin
    /\ h.pc \in Reviewing => h.user \in User /\ told[h.task] = Pin
    /\ h.pc \in Responding => h.k \in 1 .. Len(adjustments[h.task])

MessageOK(m) == m.kind \in Jobs => told[m.task] = Pin

\* A draft is confirmed or cancelled.
OneWay == \A g, h \in running : g.pc = "confirm" /\ h.pc = "drop" => g.task # h.task

IInv ==
    /\ TypeOK
    /\ \A t \in Task : TaskOK(t)
    /\ \A h \in running : HandlerOK(h)
    /\ \A m \in msgs : MessageOK(m)
    /\ OneWay

-----------------------------------------------------------------------------
(***************************************************************************)
(* Steps in general.                                                       *)
(***************************************************************************)
\* What no step takes back.
Steady ==
    /\ \A t \in Task : told[t] \subseteq told'[t] /\ told'[t] \subseteq Pin
    /\ \A t \in Task : Past(t) => Past(t)'
    /\ \A t \in Task : Len(adjustments[t]) <= Len(adjustments'[t])

RowsTyped ==
    /\ task \in [Task -> TaskRow]
    /\ assignment \in [Task -> AssignmentRow]
    /\ adjustments \in [Task -> Seq(Adjustment)]
    /\ duty \in [Provider -> DutyStatus]
    /\ payout \in [Task -> SUBSET (Amounts \cup {Estimate})]
    /\ \A t \in Task : Cardinality(payout[t]) <= 1
    /\ commission \in [Task -> Nat]
    /\ review \in [Task -> [User -> {"none", "hidden", "visible"}]]
    /\ unscored \subseteq User

LEMMA KeptHandler ==
    ASSUME IInv, Steady, NEW h \in HandlerRow, HandlerOK(h), adjustments' \in [Task -> Seq(Adjustment)]
    PROVE  HandlerOK(h)'
<1>1. h.task \in Task
    BY DEF HandlerRow
<1>2. told[h.task] = Pin => told'[h.task] = Pin
    BY <1>1 DEF Steady
<1>3. Len(adjustments[h.task]) \in Nat /\ Len(adjustments'[h.task]) \in Nat
    BY <1>1, LenProperties DEF IInv, TypeOK
<1>4. h.k \in 1 .. Len(adjustments[h.task]) => h.k \in 1 .. Len(adjustments'[h.task])
    BY <1>1, <1>3 DEF Steady
<1> QED
    BY <1>1, <1>2, <1>4 DEF HandlerOK, Steady

LEMMA KeptMessage ==
    ASSUME IInv, Steady, NEW m \in msgs
    PROVE  MessageOK(m)'
<1> SUFFICES ASSUME m.kind \in Jobs
            PROVE  told'[m.task] = Pin
    BY DEF MessageOK
<1>1. m.task \in Task
    BY DEF IInv, TypeOK, Message, Jobs
<1>2. told[m.task] = Pin
    BY DEF IInv, MessageOK
<1> QED
    BY <1>1, <1>2 DEF Steady

\* A step is made of what it does to the rows, of the handlers and messages
\* that are new, and of what it keeps.
LEMMA Steps ==
    ASSUME IInv, Steady, RowsTyped', told' \in [Task -> SUBSET Pin],
           requests' \in Nat, crashes' \in Nat, OneWay',
           \A t \in Task : TaskOK(t)',
           \A h \in running' \ running : h \in HandlerRow /\ HandlerOK(h)',
           \A m \in msgs' \ msgs : m \in Message /\ MessageOK(m)'
    PROVE  IInv'
<1>1. \A h \in running' : h \in HandlerRow /\ HandlerOK(h)'
  <2>1. \A h \in running : h \in HandlerRow /\ HandlerOK(h)
    BY DEF IInv, TypeOK
  <2> QED
    BY <2>1, KeptHandler DEF RowsTyped
<1>2. \A m \in msgs' : m \in Message /\ MessageOK(m)'
  <2>1. \A m \in msgs : m \in Message
    BY DEF IInv, TypeOK
  <2> QED
    BY <2>1, KeptMessage
<1>3. TypeOK'
    BY <1>1, <1>2 DEF TypeOK, RowsTyped
<1> QED
    BY <1>1, <1>2, <1>3 DEF IInv

\* A step that leaves tasks, PINs, adjustments and money alone.
LEMMA Quiet ==
    ASSUME IInv, UNCHANGED <<task, told, adjustments, payVars>>,
           assignment' \in [Task -> AssignmentRow], duty' \in [Provider -> DutyStatus],
           review' \in [Task -> [User -> {"none", "hidden", "visible"}]], unscored' \subseteq User,
           requests' \in Nat, crashes' \in Nat,
           \A h \in running' \ running :
               h \in HandlerRow /\ HandlerOK(h) /\ h.pc \notin {"confirm", "drop"},
           \A m \in msgs' \ msgs : m \in Message /\ MessageOK(m)
    PROVE  IInv'
<1>1. \A t \in Task : Dropping(t)' => Dropping(t)
    BY DEF Dropping
<1>2. \A t \in Task : Past(t) => Past(t)'
    BY <1>1 DEF Past
<1>3. Steady
  <2>1. \A t \in Task : Len(adjustments[t]) \in Nat
    BY LenProperties DEF IInv, TypeOK
  <2> QED
    BY <1>2, <2>1 DEF Steady, IInv, TypeOK
<1>4. RowsTyped' /\ told' \in [Task -> SUBSET Pin]
    BY DEF RowsTyped, IInv, TypeOK, payVars
<1>5. OneWay'
    BY DEF OneWay, IInv
<1>6. \A t \in Task : TaskOK(t)'
    BY <1>2 DEF IInv, TaskOK, Lasting, payVars
<1>7. \A h \in running' \ running : h \in HandlerRow /\ HandlerOK(h)'
    BY <1>3, <1>4, KeptHandler DEF RowsTyped
<1>8. \A m \in msgs' \ msgs : m \in Message /\ MessageOK(m)'
    BY DEF MessageOK
<1> QED
    BY <1>3, <1>4, <1>5, <1>6, <1>7, <1>8, Steps

\* What the row of a task may become while its PINs and money stay.
Becomes(t, row) ==
    /\ row \in TaskRow
    /\ Past(t) => row.status \notin {"ABSENT", "DRAFT"}
    /\ row.status \in {"OPEN", "ASSIGNED"} => ~Dropping(t)
    /\ row.status = "ASSIGNED" => row.provider # NoProvider
    /\ row.status = "IN_PROGRESS" => "start" \in told[t]
    /\ row.status = "COMPLETED" => told[t] = Pin
    /\ told[t] # {} => row.provider # NoProvider

LEMMA Rewrites ==
    ASSUME IInv, NEW t \in Task, NEW row, Becomes(t, row), task' = [task EXCEPT ![t] = row],
           UNCHANGED <<assignment, adjustments, duty, payVars, repVars, told, boundVars>>,
           \A h \in running' \ running :
               h \in HandlerRow /\ HandlerOK(h) /\ h.pc \notin {"confirm", "drop"},
           msgs' \subseteq msgs
    PROVE  IInv'
<1>1. \A u \in Task : Dropping(u)' => Dropping(u)
    BY DEF Dropping
<1>2. \A u \in Task : task'[u] = IF u = t THEN row ELSE task[u]
    BY DEF IInv, TypeOK
<1>3. \A u \in Task : Past(u) => Past(u)'
    BY <1>1, <1>2 DEF Past, Becomes
<1>4. Steady
  <2>1. \A u \in Task : Len(adjustments[u]) \in Nat
    BY LenProperties DEF IInv, TypeOK
  <2> QED
    BY <1>3, <2>1 DEF Steady, IInv, TypeOK
<1>5. RowsTyped' /\ told' \in [Task -> SUBSET Pin] /\ requests' \in Nat /\ crashes' \in Nat
    BY DEF RowsTyped, IInv, TypeOK, payVars, repVars, boundVars, Becomes
<1>6. OneWay'
    BY DEF OneWay, IInv
<1>7. ASSUME NEW u \in Task
      PROVE  TaskOK(u)'
  <2>1. TaskOK(u)
    BY DEF IInv
  <2>2. CASE u = t
    <3>1. task'[u] = row /\ (row.status \in {"OPEN", "ASSIGNED"} => Past(u)')
        BY <1>1, <1>2, <2>2 DEF Past, Becomes
    <3>2. told[u] # {} => Lasting(u)'
        BY <1>3, <2>1, <2>2, <3>1 DEF TaskOK, Lasting, Becomes
    <3>3. row.status = "ASSIGNED" => Lasting(u)'
        BY <2>2, <3>1 DEF Lasting, Becomes
    <3> QED
        BY <2>1, <2>2, <3>1, <3>2, <3>3 DEF TaskOK, Becomes, payVars
  <2>3. CASE u # t
    BY <1>2, <1>3, <2>1, <2>3 DEF TaskOK, Lasting, payVars
  <2> QED
    BY <2>2, <2>3
<1>8. \A h \in running' \ running : h \in HandlerRow /\ HandlerOK(h)'
    BY <1>4, <1>5, KeptHandler DEF RowsTyped
<1> QED
    BY <1>4, <1>5, <1>6, <1>7, <1>8, Steps

-----------------------------------------------------------------------------
(***************************************************************************)
(* Rows of handlers.                                                       *)
(***************************************************************************)
LEMMA Labels ==
    Label = {"confirm", "drop", "cancel", "cancel_row", "cancel_duty",
             "accept", "accept_row", "accept_duty", "start", "start_row", "ask", "approve", "reject",
             "settle", "settle_duty", "settle_pay", "pay_queue",
             "review", "ledger", "notify_score", "reveal_row"}
BY DEF Label

LEMMA Copies ==
    ASSUME NEW row \in TaskRow
    PROVE  Copy(row) \in TaskRow
BY ConstantsAssumption DEF Copy, NewTask, TaskRow, TaskStatus, PaymentStatus

LEMMA Defaults ==
    /\ NewTask \in TaskRow /\ NoAssignment \in AssignmentRow
    /\ NewTask.status = "ABSENT" /\ NewTask.provider = NoProvider
BY DEF NewTask, TaskRow, TaskStatus, PaymentStatus, NoAssignment, AssignmentRow, TaskAssignmentStatus

LEMMA NewRow ==
    ASSUME NEW label \in Label, NEW t \in Task, NEW u \in User \cup {NoProvider}
    PROVE  /\ New(label, t, u) \in HandlerRow
           /\ New(label, t, u).pc = label /\ New(label, t, u).task = t /\ New(label, t, u).user = u
BY Defaults DEF New, HandlerRow, PaymentMode

LEMMA LoadedRow ==
    ASSUME IInv, NEW label \in Label, NEW t \in Task, NEW u \in User \cup {NoProvider}
    PROVE  /\ Loaded(label, t, u) \in HandlerRow
           /\ Loaded(label, t, u).pc = label /\ Loaded(label, t, u).task = t
           /\ Loaded(label, t, u).user = u
<1>1. Copy(task[t]) \in TaskRow /\ assignment[t] \in AssignmentRow
    BY Copies DEF IInv, TypeOK
<1> QED
    BY <1>1, NewRow DEF Loaded, New, HandlerRow

LEMMA MovedRow ==
    ASSUME NEW h \in HandlerRow, NEW label \in Label
    PROVE  /\ [h EXCEPT !.pc = label] \in HandlerRow
           /\ [h EXCEPT !.pc = label].pc = label
           /\ [h EXCEPT !.pc = label].task = h.task /\ [h EXCEPT !.pc = label].user = h.user
           /\ [h EXCEPT !.pc = label].k = h.k
BY DEF HandlerRow

LEMMA Typed ==
    ASSUME IInv, NEW h \in running
    PROVE  /\ h \in HandlerRow /\ HandlerOK(h) /\ h.task \in Task
           /\ h.user \in User \cup {NoProvider}
           /\ task[h.task] \in TaskRow /\ TaskOK(h.task)
<1>1. h \in HandlerRow /\ HandlerOK(h)
    BY DEF IInv, TypeOK
<1>2. h.task \in Task /\ h.user \in User \cup {NoProvider}
    BY <1>1 DEF HandlerRow
<1> QED
    BY <1>1, <1>2 DEF IInv, TypeOK

\* Labels that HandlerOK asks nothing of.
Free == {"cancel", "cancel_row", "cancel_duty", "start_row", "ask"}

LEMMA FreeRow ==
    ASSUME NEW w, w.pc \in Free
    PROVE  HandlerOK(w) /\ w.pc \in Label /\ w.pc \notin {"confirm", "drop"}
BY DEF Free, HandlerOK, Accepting, Workers, Reviewing, Responding, Label

-----------------------------------------------------------------------------
(***************************************************************************)
(* Requests that are loaded, and the steps that write no task.             *)
(***************************************************************************)

LEMMA CancelLoads ==
    ASSUME IInv, NEW t \in Task, BeginCancelTask(t) \/ BeginAdminCancelTask(t)
    PROVE  IInv'
<1>1. /\ Customer \in User \cup {NoProvider} /\ NoProvider \in User \cup {NoProvider}
      /\ "cancel" \in Label /\ "cancel" \in Free
    BY DEF User, Label, Free
<1> DEFINE w == Loaded("cancel", t, NoProvider)
           admin == [w EXCEPT !.admin = TRUE]
<1>2. w \in HandlerRow /\ w.pc = "cancel"
    BY <1>1, LoadedRow
<1>3. admin \in HandlerRow /\ admin.pc = "cancel"
    BY <1>2 DEF HandlerRow
<1>4. Loaded("cancel", t, Customer) \in HandlerRow /\ Loaded("cancel", t, Customer).pc = "cancel"
    BY <1>1, LoadedRow
<1>5. \A h \in running' \ running : h \in HandlerRow /\ h.pc = "cancel"
    BY <1>3, <1>4 DEF BeginCancelTask, BeginAdminCancelTask, Load, Run
<1>6. UNCHANGED <<rowVars, payVars, repVars, told, msgs, crashes>> /\ requests' \in Nat
    BY DEF BeginCancelTask, BeginAdminCancelTask, Counted, IInv, TypeOK
<1> QED
    BY <1>1, <1>5, <1>6, FreeRow, Quiet DEF rowVars, payVars, repVars, IInv, TypeOK

LEMMA StartLoads ==
    ASSUME IInv, NEW t \in Task, NEW v \in Provider, BeginStartTask(t, v)
    PROVE  IInv'
<1> DEFINE w == Loaded("start", t, v)
<1>1. w \in HandlerRow /\ w.pc = "start" /\ w.task = t
    BY LoadedRow DEF User, Label
<1>2. HandlerOK(w)
    BY <1>1 DEF HandlerOK, Accepting, Workers, Reviewing, Responding, BeginStartTask, MayStart
<1>3. \A h \in running' \ running : h = w
    BY DEF BeginStartTask, Load, Run
<1>4. UNCHANGED <<rowVars, payVars, repVars, told, msgs, boundVars>>
    BY DEF BeginStartTask
<1> QED
    BY <1>1, <1>2, <1>3, <1>4, Quiet DEF rowVars, payVars, repVars, boundVars, IInv, TypeOK

LEMMA AskLoads ==
    ASSUME IInv, NEW t \in Task, NEW v \in Provider, BeginRequestAdjustment(t, v)
    PROVE  IInv'
<1>1. v \in User \cup {NoProvider} /\ "ask" \in Label /\ "ask" \in Free
    BY DEF User, Label, Free
<1>2. Loaded("ask", t, v) \in HandlerRow /\ Loaded("ask", t, v).pc = "ask"
    BY <1>1, LoadedRow
<1>3. \A h \in running' \ running : h = Loaded("ask", t, v)
    BY DEF BeginRequestAdjustment, Load, Run
<1>4. UNCHANGED <<rowVars, payVars, repVars, told, msgs, boundVars>>
    BY DEF BeginRequestAdjustment
<1> QED
    BY <1>1, <1>2, <1>3, <1>4, FreeRow, Quiet DEF rowVars, payVars, repVars, boundVars, IInv, TypeOK

LEMMA ResponseLoads ==
    ASSUME IInv, NEW t \in Task, NEW k \in Nat, NEW approved \in BOOLEAN, BeginRespond(t, k, approved)
    PROVE  IInv'
<1> DEFINE label == IF approved THEN "approve" ELSE "reject"
           l == Loaded(label, t, Customer)
           w == [l EXCEPT !.k = k]
<1>1. l \in HandlerRow /\ l.pc = label /\ l.task = t
    BY LoadedRow DEF User, Label
<1>2. w \in HandlerRow /\ w.pc \in Responding /\ w.task = t /\ w.k = k
    BY <1>1 DEF HandlerRow, Responding
<1>3. k \in 1 .. Len(adjustments[t])
    BY DEF BeginRespond, MayRespond
<1>4. HandlerOK(w) /\ w.pc \notin {"confirm", "drop"}
    BY <1>2, <1>3 DEF HandlerOK, Accepting, Workers, Reviewing, Responding
<1>5. \A h \in running' \ running : h = w
    BY DEF BeginRespond, Run
<1>6. UNCHANGED <<rowVars, payVars, repVars, told, msgs, boundVars>>
    BY DEF BeginRespond
<1> QED
    BY <1>2, <1>4, <1>5, <1>6, Quiet DEF rowVars, payVars, repVars, boundVars, IInv, TypeOK

LEMMA ReviewLoads ==
    ASSUME IInv, NEW t \in Task, NEW u \in User, BeginReview(t, u)
    PROVE  IInv'
<1> DEFINE w == New("review", t, u)
<1>1. w \in HandlerRow /\ w.pc = "review" /\ w.task = t /\ w.user = u
    BY NewRow DEF Label
<1>2. told[t] = Pin
    BY DEF BeginReview, MayReview, IInv, TaskOK
<1>3. HandlerOK(w)
    BY <1>1, <1>2 DEF HandlerOK, Accepting, Workers, Reviewing, Responding
<1>4. \A h \in running' \ running : h = w
    BY DEF BeginReview, Run
<1>5. UNCHANGED <<rowVars, payVars, repVars, told, msgs, boundVars>>
    BY DEF BeginReview
<1> QED
    BY <1>1, <1>3, <1>4, <1>5, Quiet DEF rowVars, payVars, repVars, boundVars, IInv, TypeOK

LEMMA AcceptLoads ==
    ASSUME IInv, NEW t \in Task, NEW v \in Provider, BeginAccept(t, v)
    PROVE  IInv'
<1> DEFINE w == New("accept", t, v)
<1>1. w \in HandlerRow /\ w.pc = "accept" /\ w.task = t /\ w.user = v
    BY NewRow DEF User, Label
<1>2. Past(t)
    BY DEF BeginAccept, IInv, TaskOK
<1>3. HandlerOK(w)
    BY <1>1, <1>2 DEF HandlerOK, Accepting, Workers, Reviewing, Responding
<1>4. \A h \in running' \ running : h = w
    BY DEF BeginAccept, Run
<1>5. UNCHANGED <<task, assignment, adjustments, payVars, repVars, told, msgs, boundVars>>
    BY DEF BeginAccept
<1>6. duty' \in [Provider -> DutyStatus]
    BY DEF BeginAccept, IInv, TypeOK, DutyStatus
<1> QED
    BY <1>1, <1>3, <1>4, <1>5, <1>6, Quiet DEF payVars, repVars, boundVars, IInv, TypeOK

LEMMA CompletionQueued ==
    ASSUME IInv, NEW t \in Task, NEW v \in Provider, NEW mode \in PaymentMode, CompleteTask(t, v, mode)
    PROVE  IInv'
<1> DEFINE m == [kind |-> "complete", task |-> t, user |-> v, mode |-> mode, n |-> requests]
<1>1. told[t] = Pin
  <2>1. "start" \in told[t] /\ "completion" \in told[t] /\ told[t] \subseteq Pin
    BY DEF CompleteTask, MayComplete, IInv, TaskOK, TypeOK
  <2> QED
    BY <2>1 DEF Pin
<1>2. m \in Message /\ MessageOK(m)
    BY <1>1 DEF Message, MessageOK, IInv, TypeOK
<1>3. \A n \in msgs' \ msgs : n = m
    BY DEF CompleteTask
<1>4. UNCHANGED <<rowVars, payVars, repVars, told, running, crashes>> /\ requests' \in Nat
    BY DEF CompleteTask, Counted, IInv, TypeOK
<1> QED
    BY <1>2, <1>3, <1>4, Quiet DEF rowVars, payVars, repVars, IInv, TypeOK

-----------------------------------------------------------------------------
(***************************************************************************)
(* Handlers that go on without writing a task.                             *)
(***************************************************************************)
LEMMA Advance ==
    ASSUME IInv, NEW h \in running, NEW label,
           \/ h.pc \in Accepting /\ label \in Accepting
           \/ h.pc \in Workers /\ label \in Workers
           \/ h.pc \in Reviewing /\ label \in Reviewing
           \/ label \in Free
    PROVE  LET w == [h EXCEPT !.pc = label]
           IN  w \in HandlerRow /\ HandlerOK(w) /\ w.pc \notin {"confirm", "drop"}
<1>1. label \in Label
    BY DEF Accepting, Workers, Reviewing, Free, Label
<1>2. h \in HandlerRow /\ HandlerOK(h)
    BY Typed
<1>3. PICK w : w = [h EXCEPT !.pc = label]
    OBVIOUS
<1>4. w \in HandlerRow /\ w.pc = label /\ w.task = h.task /\ w.user = h.user
    BY <1>1, <1>2, <1>3, MovedRow
<1>5. HandlerOK(w) /\ w.pc \notin {"confirm", "drop"}
    BY <1>2, <1>4 DEF HandlerOK, Accepting, Workers, Reviewing, Responding, Free
<1> QED
    BY <1>3, <1>4, <1>5

\* The handler moves on, finishes or waits, and nothing new is in the broker
\* but what MessageOK allows.
LEMMA QuietStep ==
    ASSUME IInv, NEW h \in running, NEW label,
           \/ h.pc \in Accepting /\ label \in Accepting
           \/ h.pc \in Workers /\ label \in Workers
           \/ h.pc \in Reviewing /\ label \in Reviewing
           \/ label \in Free,
           Goto(h, label) \/ Finish(h) \/ UNCHANGED running,
           UNCHANGED <<task, told, adjustments, payVars, requests>>, crashes' \in Nat,
           assignment' \in [Task -> AssignmentRow], duty' \in [Provider -> DutyStatus],
           review' \in [Task -> [User -> {"none", "hidden", "visible"}]], unscored' \subseteq User,
           \A m \in msgs' \ msgs : m \in Message /\ MessageOK(m)
    PROVE  IInv'
<1> DEFINE w == [h EXCEPT !.pc = label]
<1>1. w \in HandlerRow /\ HandlerOK(w) /\ w.pc \notin {"confirm", "drop"}
    BY Advance
<1>2. \A g \in running' \ running : g = w
    BY DEF Goto, Become, Finish
<1>3. requests' \in Nat
    BY DEF IInv, TypeOK
<1> HIDE DEF w
<1> QED
    BY <1>1, <1>2, <1>3, Quiet

LEMMA Scores ==
    ASSUME NEW u \in User
    PROVE  Score(u) \in Message /\ MessageOK(Score(u))
BY DEF Score, Message, MessageOK, Jobs

LEMMA AssignmentSaved ==
    ASSUME IInv, NEW h \in running, NEW s \in TaskAssignmentStatus, SaveAssignment(h, s)
    PROVE  assignment' \in [Task -> AssignmentRow]
<1>1. assignment \in [Task -> AssignmentRow] /\ h.task \in Task
    BY Typed DEF IInv, TypeOK
<1>2. PICK new \in TaskAssignmentStatus : new = Written(h.asg.status, assignment[h.task].status, s)
    BY <1>1 DEF Written, AssignmentRow
<1>3. assignment' = [assignment EXCEPT ![h.task].status = new]
    BY <1>2 DEF SaveAssignment
<1>4. [assignment[h.task] EXCEPT !.status = new] \in AssignmentRow
    BY <1>1 DEF AssignmentRow
<1> QED
    BY <1>1, <1>3, <1>4

LEMMA RequestGoesOn ==
    ASSUME IInv, NEW h \in running,
           \/ CancelAssignment(h) \/ CancelReleases(h)
           \/ AcceptAssignment(h) \/ AcceptDuty(h) \/ StartAssignment(h)
    PROVE  IInv'
<1>1. CASE CancelAssignment(h)
  <2>1. assignment' \in [Task -> AssignmentRow]
    BY <1>1, AssignmentSaved DEF CancelAssignment, TaskAssignmentStatus
  <2>2. Goto(h, "cancel_duty") \/ Finish(h)
    BY <1>1 DEF CancelAssignment
  <2>3. UNCHANGED <<task, adjustments, duty, payVars, repVars, told, msgs, boundVars>>
    BY <1>1 DEF CancelAssignment
  <2>4. "cancel_duty" \in Free
    BY DEF Free
  <2> QED
    BY <2>1, <2>2, <2>3, <2>4, QuietStep DEF repVars, boundVars, IInv, TypeOK
<1>2. CASE CancelReleases(h)
  <2>1. duty' \in [Provider -> DutyStatus]
    BY <1>2 DEF CancelReleases, IInv, TypeOK, DutyStatus
  <2>2. "cancel" \in Free
    BY DEF Free
  <2>3. UNCHANGED <<task, assignment, adjustments, payVars, repVars, told, msgs, boundVars>> /\ Finish(h)
    BY <1>2 DEF CancelReleases
  <2> QED
    BY <2>1, <2>2, <2>3, QuietStep DEF repVars, boundVars, IInv, TypeOK
<1>3. CASE AcceptAssignment(h)
  <2>1. h.pc \in Accepting /\ h.user \in Provider
    BY <1>3, Typed DEF AcceptAssignment, At, Accepting, HandlerOK
  <2>2. assignment' \in [Task -> AssignmentRow]
    BY <1>3, <2>1 DEF AcceptAssignment, IInv, TypeOK, AssignmentRow, TaskAssignmentStatus
  <2>3. UNCHANGED <<task, adjustments, duty, payVars, repVars, told, msgs, boundVars>>
    BY <1>3 DEF AcceptAssignment
  <2>4. Goto(h, "accept_duty") /\ "accept_duty" \in Accepting
    BY <1>3 DEF AcceptAssignment, Accepting
  <2> QED
    BY <2>1, <2>2, <2>3, <2>4, QuietStep DEF repVars, boundVars, IInv, TypeOK
<1>4. CASE AcceptDuty(h)
  <2>1. duty' \in [Provider -> DutyStatus]
    BY <1>4 DEF AcceptDuty, IInv, TypeOK, DutyStatus
  <2>2. "cancel" \in Free
    BY DEF Free
  <2>3. UNCHANGED <<task, assignment, adjustments, payVars, repVars, told, msgs, boundVars>> /\ Finish(h)
    BY <1>4 DEF AcceptDuty
  <2> QED
    BY <2>1, <2>2, <2>3, QuietStep DEF repVars, boundVars, IInv, TypeOK
<1>5. CASE StartAssignment(h)
  <2>1. assignment' \in [Task -> AssignmentRow]
    BY <1>5, AssignmentSaved DEF StartAssignment, TaskAssignmentStatus
  <2>2. "cancel" \in Free
    BY DEF Free
  <2>3. UNCHANGED <<task, adjustments, duty, payVars, repVars, told, msgs, boundVars>> /\ Finish(h)
    BY <1>5 DEF StartAssignment
  <2> QED
    BY <2>1, <2>2, <2>3, QuietStep DEF repVars, boundVars, IInv, TypeOK
<1> QED
    BY <1>1, <1>2, <1>3, <1>4, <1>5

LEMMA CompletionTaken ==
    ASSUME IInv, NEW m \in msgs, CompletionJob(m)
    PROVE  IInv'
<1>1. m \in Message /\ m.kind = "complete"
    BY DEF CompletionJob, IInv, TypeOK
<1>2. m.task \in Task /\ m.user \in Provider /\ m.mode \in PaymentMode /\ m.n \in Nat
    BY <1>1 DEF Message
<1>3. told[m.task] = Pin
    BY <1>1 DEF IInv, MessageOK, Jobs
<1> DEFINE new == New("settle", m.task, m.user)
           w == [new EXCEPT !.mode = m.mode, !.k = m.n]
<1>4. new \in HandlerRow /\ new.pc = "settle" /\ new.task = m.task /\ new.user = m.user
    BY <1>2, NewRow DEF Label, User
<1>5. w \in HandlerRow /\ w.pc = "settle" /\ w.task = m.task /\ w.user = m.user
    BY <1>2, <1>4 DEF HandlerRow
<1>6. HandlerOK(w)
    BY <1>2, <1>3, <1>5 DEF HandlerOK, Accepting, Workers, Reviewing, Responding
<1>7. (\A h \in running' \ running : h = w) /\ msgs' \subseteq msgs
    BY DEF CompletionJob, Run
<1>8. assignment' \in [Task -> AssignmentRow]
  <2>1. assignment' = [assignment EXCEPT ![m.task].status = "COMPLETED"]
    BY DEF CompletionJob
  <2>2. assignment \in [Task -> AssignmentRow]
    BY DEF IInv, TypeOK
  <2>3. [assignment[m.task] EXCEPT !.status = "COMPLETED"] \in AssignmentRow
    BY <1>2, <2>2 DEF AssignmentRow, TaskAssignmentStatus
  <2> QED
    BY <2>1, <2>2, <2>3
<1>9. UNCHANGED <<task, adjustments, duty, payVars, repVars, told, boundVars>>
    BY DEF CompletionJob
<1> QED
    BY <1>5, <1>6, <1>7, <1>8, <1>9, Quiet DEF repVars, boundVars, IInv, TypeOK

LEMMA JobGoesOn ==
    ASSUME IInv, NEW h \in running, SettleProvider(h) \/ SettlePay(h)
    PROVE  IInv'
<1>1. h \in HandlerRow /\ h.pc \in Workers /\ h.user \in Provider /\ told[h.task] = Pin
    BY Typed DEF SettleProvider, SettlePay, At, Workers, HandlerOK
<1>2. "settle_pay" \in Workers /\ h.user \in User
    BY <1>1 DEF Workers, User
<1>3. CASE SettleProvider(h)
  <2>1. duty' \in [Provider -> DutyStatus] /\ unscored' \subseteq User
    BY <1>2, <1>3 DEF SettleProvider, IInv, TypeOK, DutyStatus
  <2>2. UNCHANGED <<task, assignment, adjustments, payVars, review, told, msgs, boundVars>>
    BY <1>3 DEF SettleProvider
  <2>3. Goto(h, "settle_pay")
    BY <1>3 DEF SettleProvider
  <2> QED
    BY <1>1, <1>2, <2>1, <2>2, <2>3, QuietStep DEF boundVars, IInv, TypeOK
<1>4. CASE SettlePay(h)
  <2> DEFINE m == [kind |-> "pay", task |-> h.task, user |-> h.user, mode |-> h.mode, n |-> h.k]
  <2>1. m \in Message /\ MessageOK(m)
    BY <1>1 DEF HandlerRow, Message, MessageOK
  <2>2. msgs' = msgs \cup {Score(h.user), m}
    BY <1>4 DEF SettlePay
  <2>3. \A n \in msgs' \ msgs : n \in Message /\ MessageOK(n)
    BY <1>2, <2>1, <2>2, Scores
  <2>4. UNCHANGED <<rowVars, payVars, repVars, told, boundVars>> /\ Finish(h)
    BY <1>4 DEF SettlePay
  <2> QED
    BY <1>1, <1>2, <2>3, <2>4, QuietStep DEF rowVars, repVars, boundVars, IInv, TypeOK
<1> QED
    BY <1>3, <1>4

LEMMA ReviewGoesOn ==
    ASSUME IInv, NEW h \in running, ReviewStep(h)
    PROVE  IInv'
<1>1. h.pc \in Reviewing /\ h.task \in Task /\ h.user \in User /\ told[h.task] = Pin
  <2>1. h.pc \in Reviewing
    BY DEF ReviewStep, InsertReview, AddCredibility, ThreeStars, QueueScore, RevealOne, RevealDone, At, Reviewing
  <2> QED
    BY <2>1, Typed DEF HandlerOK
<1>2. Reviewee(h.task, h.user) \in User
  <2>1. task[h.task].provider # NoProvider
    BY <1>1 DEF IInv, TaskOK, Lasting, Pin
  <2> QED
    BY <1>1, <2>1, Typed DEF TaskRow, Reviewee, User
<1>3. {"ledger", "notify_score", "reveal_row"} \subseteq Reviewing
    BY DEF Reviewing
<1>4. CASE InsertReview(h)
  <2>1. review' \in [Task -> [User -> {"none", "hidden", "visible"}]]
    BY <1>4 DEF InsertReview, IInv, TypeOK
  <2>2. UNCHANGED <<rowVars, payVars, unscored, told, msgs, boundVars>> /\ Goto(h, "ledger")
    BY <1>4 DEF InsertReview
  <2> QED
    BY <1>1, <1>3, <2>1, <2>2, QuietStep DEF rowVars, boundVars, IInv, TypeOK
<1>5. CASE AddCredibility(h)
  <2>1. unscored' \subseteq User
    BY <1>2, <1>5 DEF AddCredibility, IInv, TypeOK
  <2>2. UNCHANGED <<rowVars, payVars, review, told, msgs, boundVars>> /\ Goto(h, "notify_score")
    BY <1>5 DEF AddCredibility
  <2> QED
    BY <1>1, <1>3, <2>1, <2>2, QuietStep DEF rowVars, boundVars, IInv, TypeOK
<1>6. CASE ThreeStars(h)
  <2>1. UNCHANGED <<rowVars, payVars, repVars, told, msgs, boundVars>> /\ (Goto(h, "reveal_row") \/ Finish(h))
    BY <1>6 DEF ThreeStars, MaybeReveal
  <2> QED
    BY <1>1, <1>3, <2>1, QuietStep DEF rowVars, repVars, boundVars, IInv, TypeOK
<1>7. CASE QueueScore(h)
  <2>1. \A m \in msgs' \ msgs : m \in Message /\ MessageOK(m)
    BY <1>2, <1>7, Scores DEF QueueScore
  <2>2. UNCHANGED <<rowVars, payVars, repVars, told, boundVars>> /\ (Goto(h, "reveal_row") \/ Finish(h))
    BY <1>7 DEF QueueScore, MaybeReveal
  <2> QED
    BY <1>1, <1>3, <2>1, <2>2, QuietStep DEF rowVars, repVars, boundVars, IInv, TypeOK
<1>8. CASE RevealOne(h)
  <2>1. review' \in [Task -> [User -> {"none", "hidden", "visible"}]]
    <3>1. PICK u \in Hidden(h.task) : review' = [review EXCEPT ![h.task][u] = "visible"]
        BY <1>8 DEF RevealOne
    <3>2. review \in [Task -> [User -> {"none", "hidden", "visible"}]]
        BY DEF IInv, TypeOK
    <3> QED
        BY <1>1, <3>1, <3>2
  <2>2. UNCHANGED <<rowVars, payVars, unscored, told, msgs, running, boundVars>>
    BY <1>8 DEF RevealOne
  <2> QED
    BY <1>1, <1>3, <2>1, <2>2, QuietStep DEF rowVars, boundVars, IInv, TypeOK
<1>9. CASE RevealDone(h)
  <2>1. UNCHANGED <<rowVars, payVars, repVars, told, msgs, boundVars>> /\ Finish(h)
    BY <1>9 DEF RevealDone
  <2> QED
    BY <1>1, <1>3, <2>1, QuietStep DEF rowVars, repVars, boundVars, IInv, TypeOK
<1> QED
    BY <1>4, <1>5, <1>6, <1>7, <1>8, <1>9 DEF ReviewStep

LEMMA Dies ==
    ASSUME IInv, NEW h \in running, Crash(h)
    PROVE  IInv'
<1>1. UNCHANGED <<rowVars, payVars, repVars, told, msgs, requests>> /\ Finish(h)
    BY DEF Crash
<1>2. crashes' \in Nat /\ "cancel" \in Free
    BY DEF Crash, IInv, TypeOK, Free
<1> QED
    BY <1>1, <1>2, QuietStep DEF rowVars, repVars, IInv, TypeOK

LEMMA ScoreSynced ==
    ASSUME IInv, NEW m \in msgs, SyncScore(m)
    PROVE  IInv'
<1>1. UNCHANGED <<rowVars, payVars, review, told, running, boundVars>>
    BY DEF SyncScore
<1>2. msgs' \subseteq msgs /\ unscored' \subseteq User
    BY DEF SyncScore, IInv, TypeOK
<1> QED
    BY <1>1, <1>2, Quiet DEF rowVars, boundVars, IInv, TypeOK

-----------------------------------------------------------------------------
(***************************************************************************)
(* Steps that write the row of a task.                                     *)
(***************************************************************************)
LEMMA Rows ==
    ASSUME IInv, NEW t \in Task
    PROVE  /\ task[t] \in TaskRow /\ TaskOK(t)
           /\ \A s \in TaskStatus : [task[t] EXCEPT !.status = s] \in TaskRow
BY DEF IInv, TypeOK, TaskRow

\* A row whose status and provider stay may change.
LEMMA SameStatus ==
    ASSUME IInv, NEW t \in Task, NEW row \in TaskRow,
           row.status = task[t].status, row.provider = task[t].provider
    PROVE  Becomes(t, row)
BY Rows DEF Becomes, TaskOK, Lasting, Past

LEMMA NewStatus ==
    ASSUME IInv, NEW t \in Task, NEW s \in TaskStatus \ {"ABSENT", "DRAFT"},
           s \in {"OPEN", "ASSIGNED"} => ~Dropping(t),
           s = "ASSIGNED" => task[t].provider # NoProvider,
           s = "IN_PROGRESS" => "start" \in told[t],
           s = "COMPLETED" => told[t] = Pin
    PROVE  Becomes(t, [task[t] EXCEPT !.status = s])
<1>1. PICK row : row = [task[t] EXCEPT !.status = s]
    OBVIOUS
<1>2. row \in TaskRow /\ row.status = s /\ row.provider = task[t].provider
    BY <1>1, Rows DEF TaskRow
<1>3. told[t] # {} => task[t].provider # NoProvider
    BY Rows DEF TaskOK, Lasting
<1> QED
    BY <1>1, <1>2, <1>3 DEF Becomes

\* A commit of the status writes it, or leaves the row alone.
LEMMA StatusSaved ==
    ASSUME IInv, NEW h \in running, NEW s \in TaskStatus \ {"ABSENT", "DRAFT"}, SaveStatus(h, s),
           s \in {"OPEN", "ASSIGNED"} => ~Dropping(h.task),
           s = "ASSIGNED" => task[h.task].provider # NoProvider,
           s = "IN_PROGRESS" => "start" \in told[h.task],
           s = "COMPLETED" => told[h.task] = Pin
    PROVE  \E row : Becomes(h.task, row) /\ task' = [task EXCEPT ![h.task] = row]
<1>1. h.task \in Task /\ task[h.task] \in TaskRow
    BY Typed
<1>2. CASE h.row.status = s
  <2>1. task' = [task EXCEPT ![h.task] = task[h.task]]
    BY <1>1, <1>2 DEF SaveStatus, Written, TaskRow, IInv, TypeOK
  <2> QED
    BY <1>1, <2>1, SameStatus
<1>3. CASE h.row.status # s
  <2>1. task' = [task EXCEPT ![h.task] = [task[h.task] EXCEPT !.status = s]]
    BY <1>1, <1>3 DEF SaveStatus, Written
  <2> QED
    BY <1>1, <2>1, NewStatus
<1> QED
    BY <1>2, <1>3

LEMMA Confirms ==
    ASSUME IInv, NEW h \in running, ConfirmDraft(h)
    PROVE  IInv'
<1>1. ~Dropping(h.task)
    BY DEF ConfirmDraft, At, IInv, OneWay, Dropping
<1>2. PICK row : Becomes(h.task, row) /\ task' = [task EXCEPT ![h.task] = row]
    BY <1>1, StatusSaved DEF ConfirmDraft, TaskStatus
<1>3. UNCHANGED <<assignment, adjustments, duty, payVars, repVars, told, msgs, boundVars>> /\ running' \subseteq running
    BY DEF ConfirmDraft, Finish
<1> QED
    BY <1>2, <1>3, Typed, Rewrites

LEMMA Refreshes ==
    ASSUME IInv, NEW h \in running, NEW label \in Free, NEW row \in TaskRow,
           task' = [task EXCEPT ![h.task] = row], Refreshed(h, label)
    PROVE  \A g \in running' \ running :
               g \in HandlerRow /\ HandlerOK(g) /\ g.pc \notin {"confirm", "drop"}
<1>1. h \in HandlerRow /\ h.task \in Task /\ label \in Label
    BY Typed DEF Free, Label
<1>2. task'[h.task] \in TaskRow /\ assignment[h.task] \in AssignmentRow
    BY <1>1 DEF IInv, TypeOK
<1>3. PICK new \in TaskRow, asg \in AssignmentRow : new = task'[h.task] /\ asg = assignment[h.task]
    BY <1>2
<1>4. PICK row2 \in TaskRow : row2 = Copy(new)
    BY Copies
<1>5. PICK w : w = [h EXCEPT !.pc = label, !.row = row2, !.asg = asg]
    OBVIOUS
<1>6. w \in HandlerRow /\ w.pc = label
    BY <1>1, <1>5 DEF HandlerRow
<1>7. \A g \in running' \ running : g = w
    BY <1>3, <1>4, <1>5 DEF Refreshed, Become
<1> QED
    BY <1>6, <1>7, FreeRow

LEMMA Cancels ==
    ASSUME IInv, NEW h \in running, CancelTask(h)
    PROVE  IInv'
<1>1. PICK row : Becomes(h.task, row) /\ task' = [task EXCEPT ![h.task] = row]
    BY StatusSaved DEF CancelTask, TaskStatus
<1>2. UNCHANGED <<assignment, adjustments, duty, payVars, repVars, told, msgs, boundVars>>
    BY DEF CancelTask
<1>3. Finish(h) \/ Refreshed(h, "cancel_row")
    BY DEF CancelTask
<1>4. \A g \in running' \ running : g \in HandlerRow /\ HandlerOK(g) /\ g.pc \notin {"confirm", "drop"}
    BY <1>1, <1>3, Refreshes DEF Finish, Becomes, Free
<1> QED
    BY <1>1, <1>2, <1>4, Typed, Rewrites

LEMMA Starts ==
    ASSUME IInv, NEW h \in running, StartTask(h)
    PROVE  IInv'
<1>1. "start" \in told[h.task]
    BY Typed DEF StartTask, At, HandlerOK
<1>2. PICK row : Becomes(h.task, row) /\ task' = [task EXCEPT ![h.task] = row]
    BY <1>1, StatusSaved DEF StartTask, TaskStatus
<1>3. UNCHANGED <<assignment, adjustments, duty, payVars, repVars, told, msgs, boundVars>>
    BY DEF StartTask
<1>4. \A g \in running' \ running : g \in HandlerRow /\ HandlerOK(g) /\ g.pc \notin {"confirm", "drop"}
    BY <1>2, Refreshes DEF StartTask, Becomes, Free
<1> QED
    BY <1>2, <1>3, <1>4, Typed, Rewrites

LEMMA Accepts ==
    ASSUME IInv, NEW h \in running, AcceptTask(h)
    PROVE  IInv'
<1>1. /\ h.pc \in Accepting /\ h.user \in Provider /\ Past(h.task)
      /\ h.task \in Task /\ task[h.task] \in TaskRow
    BY Typed DEF AcceptTask, At, Accepting, HandlerOK
<1> DEFINE row == [task[h.task] EXCEPT !.status = "ASSIGNED", !.provider = h.user]
<1>2. row \in TaskRow /\ row.status = "ASSIGNED" /\ row.provider = h.user
    BY <1>1 DEF TaskRow, TaskStatus
<1>3. Becomes(h.task, row)
    BY <1>1, <1>2, ConstantsAssumption DEF Becomes, Past
<1>4. task' = [task EXCEPT ![h.task] = row]
    BY <1>1 DEF AcceptTask, IInv, TypeOK
<1>5. UNCHANGED <<assignment, adjustments, duty, payVars, repVars, told, msgs, boundVars>>
    BY DEF AcceptTask
<1>6. \A g \in running' \ running : g = [h EXCEPT !.pc = "accept_row"]
    BY DEF AcceptTask, Goto, Become
<1>7. "accept_row" \in Accepting
    BY DEF Accepting
<1> HIDE DEF row
<1> QED
    BY <1>1, <1>3, <1>4, <1>5, <1>6, <1>7, Advance, Rewrites

LEMMA Settles ==
    ASSUME IInv, NEW h \in running, SettleTask(h)
    PROVE  IInv'
<1>1. h.pc \in Workers /\ told[h.task] = Pin /\ h.task \in Task
    BY Typed DEF SettleTask, At, Workers, HandlerOK
<1>2. Becomes(h.task, [task[h.task] EXCEPT !.status = "COMPLETED"])
    BY <1>1, NewStatus DEF TaskStatus
<1>3. task' = [task EXCEPT ![h.task] = [task[h.task] EXCEPT !.status = "COMPLETED"]]
    BY DEF SettleTask
<1>4. UNCHANGED <<assignment, adjustments, duty, payVars, repVars, told, msgs, boundVars>>
    BY DEF SettleTask
<1>5. \A g \in running' \ running : g = [h EXCEPT !.pc = "settle_duty"]
    BY DEF SettleTask, Goto, Become
<1>6. "settle_duty" \in Workers
    BY DEF Workers
<1> QED
    BY <1>1, <1>2, <1>3, <1>4, <1>5, <1>6, Advance, Rewrites

LEMMA Pays ==
    ASSUME IInv, NEW t \in Task, CustomerPays(t)
    PROVE  IInv'
<1> DEFINE row == [task[t] EXCEPT !.payment = "PAID"]
<1>1. row \in TaskRow /\ row.status = task[t].status /\ row.provider = task[t].provider
    BY Rows DEF TaskRow, PaymentStatus
<1>2. Becomes(t, row)
    BY <1>1, SameStatus
<1>3. task' = [task EXCEPT ![t] = row]
    BY DEF CustomerPays
<1>4. UNCHANGED <<assignment, adjustments, duty, payVars, repVars, told, msgs, running, boundVars>>
    BY DEF CustomerPays
<1> HIDE DEF row
<1> QED
    BY <1>2, <1>3, <1>4, Rewrites

LEMMA Creates ==
    ASSUME IInv, NEW t \in Task, CreateTask(t)
    PROVE  IInv'
<1> DEFINE row == [task[t] EXCEPT !.status = "DRAFT"]
<1>1. row \in TaskRow /\ row.status = "DRAFT"
  <2>1. "DRAFT" \in TaskStatus /\ task[t] \in TaskRow
    BY Rows DEF TaskStatus
  <2> QED
    BY <2>1 DEF TaskRow
<1>2. ~Past(t) /\ told[t] = {}
    BY Rows DEF CreateTask, Past, TaskOK, Lasting
<1>3. Becomes(t, row)
    BY <1>1, <1>2 DEF Becomes
<1>4. task' = [task EXCEPT ![t] = row]
    BY DEF CreateTask
<1>5. UNCHANGED <<assignment, adjustments, duty, payVars, repVars, told, msgs, running, boundVars>>
    BY DEF CreateTask
<1> HIDE DEF row
<1> QED
    BY <1>3, <1>4, <1>5, Rewrites

LEMMA Drops ==
    ASSUME IInv, NEW h \in running, CancelDraft(h)
    PROVE  IInv'
<1>1. Dropping(h.task) /\ h.task \in Task
    BY Typed DEF CancelDraft, At, Dropping
<1>2. ~Past(h.task) /\ told[h.task] = {}
    BY <1>1, Rows DEF Past, TaskOK, Lasting
<1>3. Becomes(h.task, NewTask)
    BY <1>2, Defaults DEF Becomes
<1>4. task' = [task EXCEPT ![h.task] = NewTask] /\ running' \subseteq running
    BY DEF CancelDraft, Finish
<1>5. UNCHANGED <<assignment, adjustments, duty, payVars, repVars, told, msgs, boundVars>>
    BY DEF CancelDraft
<1> QED
    BY <1>1, <1>3, <1>4, <1>5, Rewrites

-----------------------------------------------------------------------------
(***************************************************************************)
(* A draft is confirmed or cancelled.                                      *)
(***************************************************************************)
LEMMA DraftLoads ==
    ASSUME IInv, NEW t \in Task, BeginConfirmDraft(t) \/ BeginCancelDraft(t)
    PROVE  IInv'
<1>1. PICK label \in {"confirm", "drop"} : Load(label, t, Customer)
    BY DEF BeginConfirmDraft, BeginCancelDraft
<1>2. PICK w : w = Loaded(label, t, Customer)
    OBVIOUS
<1>3. w \in HandlerRow /\ w.pc = label /\ w.task = t /\ w.user = Customer
    BY <1>1, <1>2, LoadedRow DEF User, Label
<1>4. running' = running \cup {w}
    BY <1>1, <1>2 DEF Load, Run
<1>5. UNCHANGED <<rowVars, payVars, repVars, told, msgs, boundVars>> /\ task[t].status = "DRAFT"
    BY DEF BeginConfirmDraft, BeginCancelDraft
<1>6. HandlerOK(w)
    BY <1>3 DEF HandlerOK, Accepting, Workers, Reviewing, Responding
<1>7. \A h \in running : h.task = t => h.pc \notin {"confirm", "drop"}
  <2>1. \A h \in running : h.pc \in {"confirm", "drop"} => h.user = Customer /\ h.pc \notin Workers
    BY DEF IInv, HandlerOK, Workers
  <2> QED
    BY <1>1, <2>1 DEF Load, Busy
<1>8. OneWay'
    BY <1>3, <1>4, <1>7 DEF OneWay, IInv
<1>9. \A u \in Task : u # t => (Dropping(u)' => Dropping(u))
    BY <1>3, <1>4 DEF Dropping
<1>10. \A u \in Task : Past(u) => Past(u)'
    BY <1>5, <1>9 DEF Past, rowVars
<1>11. Steady
  <2>1. \A u \in Task : Len(adjustments[u]) \in Nat
    BY LenProperties DEF IInv, TypeOK
  <2> QED
    BY <1>5, <1>10, <2>1 DEF Steady, IInv, TypeOK, rowVars
<1>12. RowsTyped' /\ told' \in [Task -> SUBSET Pin] /\ requests' \in Nat /\ crashes' \in Nat
    BY <1>5 DEF RowsTyped, IInv, TypeOK, rowVars, payVars, repVars, boundVars
<1>13. HandlerOK(w)'
    BY <1>3, <1>6, <1>11, <1>12, KeptHandler DEF RowsTyped
<1>14. \A u \in Task : TaskOK(u)'
    BY <1>5, <1>10 DEF IInv, TaskOK, Lasting, rowVars, payVars
<1> QED
    BY <1>3, <1>4, <1>5, <1>8, <1>11, <1>12, <1>13, <1>14, Steps

-----------------------------------------------------------------------------
(***************************************************************************)
(* PINs, adjustments and money.                                            *)
(***************************************************************************)
LEMMA Grows ==
    ASSUME IInv, RowsTyped', told' \in [Task -> SUBSET Pin], requests' \in Nat, crashes' \in Nat,
           msgs' \subseteq msgs,
           \A t \in Task : /\ task'[t].status = task[t].status /\ task'[t].provider = task[t].provider
                           /\ told[t] \subseteq told'[t]
                           /\ told'[t] # {} => Lasting(t)
                           /\ "completion" \in told'[t] => "start" \in told'[t]
                           /\ Len(adjustments[t]) <= Len(adjustments'[t])
                           /\ payout'[t] # {} \/ commission'[t] > 0 => told'[t] = Pin,
           \A h \in running' \ running :
               h \in HandlerRow /\ HandlerOK(h) /\ h.pc \notin {"confirm", "drop"}
    PROVE  IInv'
<1>1. \A t \in Task : Dropping(t)' => Dropping(t)
    BY DEF Dropping
<1>2. \A t \in Task : Past(t) => Past(t)'
    BY <1>1 DEF Past
<1>3. Steady
    BY <1>2 DEF Steady
<1>4. OneWay'
    BY DEF OneWay, IInv
<1>5. ASSUME NEW t \in Task
      PROVE  TaskOK(t)'
  <2>1. TaskOK(t) /\ (told[t] = Pin => told'[t] = Pin)
    BY DEF IInv
  <2> QED
    BY <1>2, <2>1 DEF TaskOK, Lasting
<1>6. \A h \in running' \ running : h \in HandlerRow /\ HandlerOK(h)'
    BY <1>3, KeptHandler DEF RowsTyped
<1> QED
    BY <1>3, <1>4, <1>5, <1>6, Steps

\* What Grows asks of a task that keeps its PINs and adjustments.
LEMMA Still ==
    ASSUME IInv, NEW t \in Task
    PROVE  /\ told[t] # {} => Lasting(t)
           /\ "completion" \in told[t] => "start" \in told[t]
           /\ adjustments[t] \in Seq(Adjustment) /\ Len(adjustments[t]) \in Nat
           /\ payout[t] # {} \/ commission[t] > 0 => told[t] = Pin
BY LenProperties DEF IInv, TypeOK, TaskOK

LEMMA Tells ==
    ASSUME IInv, NEW t \in Task, NEW pin \in Pin, TellPin(t, pin)
    PROVE  IInv'
<1>1. UNCHANGED <<rowVars, payVars, repVars, msgs, running, boundVars>>
    BY DEF TellPin
<1>2. told' \in [Task -> SUBSET Pin] /\ \A u \in Task : told'[u] = IF u = t THEN told[t] \cup {pin} ELSE told[u]
    BY DEF TellPin, IInv, TypeOK
<1>3. Lasting(t) /\ (pin = "completion" => "start" \in told[t])
    BY Rows DEF TellPin, TaskOK
<1>4. RowsTyped' /\ requests' \in Nat /\ crashes' \in Nat
    BY <1>1 DEF RowsTyped, IInv, TypeOK, rowVars, payVars, repVars, boundVars
<1>5. \A u \in Task : /\ told[u] \subseteq told'[u]
                      /\ told'[u] # {} => Lasting(u)
                      /\ "completion" \in told'[u] => "start" \in told'[u]
    BY <1>2, <1>3, Still
<1>6. \A u \in Task : told'[u] \subseteq Pin /\ (payout[u] # {} \/ commission[u] > 0 => told'[u] = Pin)
    BY <1>2, <1>5, Still
<1>7. \A u \in Task : Len(adjustments[u]) <= Len(adjustments'[u])
    BY <1>1, Still DEF rowVars
<1> QED
    BY <1>1, <1>2, <1>4, <1>5, <1>6, <1>7, Grows DEF rowVars, payVars

LEMMA Asks ==
    ASSUME IInv, NEW h \in running, RequestAdjustment(h)
    PROVE  IInv'
<1>1. UNCHANGED <<task, assignment, duty, payVars, repVars, told, msgs, boundVars>> /\ running' \subseteq running
    BY DEF RequestAdjustment, Finish
<1>2. PICK a \in Adjustment : adjustments' = [adjustments EXCEPT ![h.task] = Append(adjustments[h.task], a)]
  <2>1. PICK a \in Amounts :
            adjustments' = [adjustments EXCEPT ![h.task] = Append(adjustments[h.task],
                                                                  [amount |-> a, status |-> "PENDING"])]
    BY DEF RequestAdjustment
  <2> QED
    BY <2>1 DEF Adjustment
<1>3. h.task \in Task
    BY Typed
<1>4. /\ Append(adjustments[h.task], a) \in Seq(Adjustment)
      /\ Len(Append(adjustments[h.task], a)) = Len(adjustments[h.task]) + 1
    BY <1>3, Still, AppendProperties
<1>5. adjustments' \in [Task -> Seq(Adjustment)]
    BY <1>2, <1>4 DEF IInv, TypeOK
<1>6. \A u \in Task : Len(adjustments[u]) <= Len(adjustments'[u])
  <2>1. \A u \in Task : adjustments'[u] = IF u = h.task THEN Append(adjustments[h.task], a) ELSE adjustments[u]
    BY <1>2 DEF IInv, TypeOK
  <2>2. \A u \in Task : u # h.task => adjustments'[u] = adjustments[u] /\ Len(adjustments[u]) \in Nat
    BY <2>1, Still
  <2>3. Len(adjustments[h.task]) \in Nat /\ adjustments'[h.task] = Append(adjustments[h.task], a)
    BY <1>3, <2>1, Still
  <2> QED
    BY <1>4, <2>2, <2>3
<1>7. RowsTyped' /\ told' \in [Task -> SUBSET Pin] /\ requests' \in Nat /\ crashes' \in Nat
    BY <1>1, <1>5 DEF RowsTyped, IInv, TypeOK, payVars, repVars, boundVars
<1> QED
    BY <1>1, <1>6, <1>7, Still, Grows DEF payVars

LEMMA Answers ==
    ASSUME IInv, NEW h \in running, ApproveAdjustment(h) \/ RejectAdjustment(h)
    PROVE  IInv'
<1>1. UNCHANGED <<assignment, duty, payVars, repVars, told, msgs, boundVars>> /\ running' \subseteq running
    BY DEF ApproveAdjustment, RejectAdjustment, Finish
<1>2. PICK s \in {"APPROVED", "REJECTED"} :
          adjustments' = [adjustments EXCEPT ![h.task][h.k].status = s]
    BY DEF ApproveAdjustment, RejectAdjustment
<1>3. h.task \in Task /\ h.k \in 1 .. Len(adjustments[h.task])
    BY Typed DEF ApproveAdjustment, RejectAdjustment, At, HandlerOK, Responding
<1>4. PICK old \in Seq(Adjustment) : old = adjustments[h.task]
    BY <1>3, Still
<1>5. old[h.k] \in Adjustment
    BY <1>3, <1>4, ElementOfSeq
<1>6. PICK a \in Adjustment : a = [old[h.k] EXCEPT !.status = s]
    BY <1>5 DEF Adjustment
<1>7. adjustments' = [adjustments EXCEPT ![h.task] = [old EXCEPT ![h.k] = a]]
    BY <1>2, <1>4, <1>6
<1>8. [old EXCEPT ![h.k] = a] \in Seq(Adjustment) /\ Len([old EXCEPT ![h.k] = a]) = Len(old)
    BY <1>3, <1>4, ExceptSeq
<1>9. adjustments' \in [Task -> Seq(Adjustment)]
    BY <1>7, <1>8 DEF IInv, TypeOK
<1>10. \A u \in Task : Len(adjustments[u]) <= Len(adjustments'[u])
  <2>1. \A u \in Task : adjustments'[u] = IF u = h.task THEN [old EXCEPT ![h.k] = a] ELSE adjustments[u]
    BY <1>7 DEF IInv, TypeOK
  <2> QED
    BY <1>4, <1>8, <2>1, Still
<1>11. /\ task' \in [Task -> TaskRow]
       /\ \A u \in Task : task'[u].status = task[u].status /\ task'[u].provider = task[u].provider
  <2>1. CASE RejectAdjustment(h)
    BY <2>1 DEF RejectAdjustment, IInv, TypeOK
  <2>2. CASE ApproveAdjustment(h)
    <3>1. adjustments[h.task][h.k].amount \in Amounts
        BY <1>4, <1>5 DEF Adjustment
    <3>2. task' = [task EXCEPT ![h.task].price =
                       Written(h.row.price, task[h.task].price, adjustments[h.task][h.k].amount)]
        BY <2>2 DEF ApproveAdjustment
    <3>3. task[h.task] \in TaskRow
        BY Typed
    <3>4. Written(h.row.price, task[h.task].price, adjustments[h.task][h.k].amount) \in Amounts \cup {Estimate}
        BY <3>1, <3>3 DEF Written, TaskRow
    <3> QED
        BY <3>2, <3>3, <3>4 DEF TaskRow, IInv, TypeOK
  <2> QED
    BY <2>1, <2>2
<1>12. RowsTyped' /\ told' \in [Task -> SUBSET Pin] /\ requests' \in Nat /\ crashes' \in Nat
    BY <1>1, <1>9, <1>11 DEF RowsTyped, IInv, TypeOK, payVars, repVars, boundVars
<1> QED
    BY <1>1, <1>10, <1>11, <1>12, Still, Grows DEF payVars

LEMMA PaymentTaken ==
    ASSUME IInv, NEW m \in msgs, PayOnline(m) \/ PayInCash(m)
    PROVE  IInv'
<1>0. m.task \in Task /\ m.user \in Provider /\ m.n \in Nat /\ m.kind = "pay"
    BY DEF PayOnline, PayInCash, IInv, TypeOK, Message
<1>1. PICK t \in Task : t = m.task
    BY <1>0
<1>2. told[t] = Pin
    BY <1>0, <1>1 DEF IInv, MessageOK, Jobs
<1>3. UNCHANGED <<assignment, adjustments, duty, repVars, told, boundVars>> /\ msgs' \subseteq msgs
    BY DEF PayOnline, PayInCash
<1>4. PICK p \in PaymentStatus : task' = task \/ task' = [task EXCEPT ![t].payment = p]
    BY <1>1 DEF PayOnline, PayInCash, PaymentStatus
<1>5. /\ task' \in [Task -> TaskRow]
      /\ \A u \in Task : task'[u].status = task[u].status /\ task'[u].provider = task[u].provider
  <2>1. task \in [Task -> TaskRow]
    BY DEF IInv, TypeOK
  <2>2. CASE task' = task
    BY <2>1, <2>2
  <2>3. CASE task' = [task EXCEPT ![t].payment = p]
    <3>1. PICK row : row = [task[t] EXCEPT !.payment = p]
        OBVIOUS
    <3>2. row \in TaskRow /\ row.status = task[t].status /\ row.provider = task[t].provider
        BY <1>1, <2>1, <3>1 DEF TaskRow
    <3>3. task' = [task EXCEPT ![t] = row]
        BY <2>3, <3>1
    <3> QED
        BY <1>1, <2>1, <3>2, <3>3
  <2> QED
    BY <1>4, <2>2, <2>3
<1>6. /\ payout' \in [Task -> SUBSET (Amounts \cup {Estimate})] /\ \A u \in Task : Cardinality(payout'[u]) <= 1
      /\ \A u \in Task : payout'[u] # {} => payout[u] # {} \/ u = t
  <2>1. payout' = payout \/ payout' = [payout EXCEPT ![t] = {task[t].price}]
    BY <1>1 DEF PayOnline, PayInCash
  <2>2. Cardinality({task[t].price}) = 1
    BY FS_Singleton
  <2>3. {task[t].price} \subseteq Amounts \cup {Estimate}
    BY <1>1 DEF IInv, TypeOK, TaskRow
  <2>4. payout \in [Task -> SUBSET (Amounts \cup {Estimate})] /\ \A u \in Task : Cardinality(payout[u]) <= 1
    BY DEF IInv, TypeOK
  <2>5. PICK new : new = {task[t].price}
    OBVIOUS
  <2>6. CASE payout' = [payout EXCEPT ![t] = new]
    BY <1>1, <2>2, <2>3, <2>4, <2>5, <2>6
  <2> QED
    BY <2>1, <2>4, <2>5, <2>6
<1>7. /\ commission' \in [Task -> Nat]
      /\ \A u \in Task : commission'[u] > 0 => commission[u] > 0 \/ u = t
  <2>1. commission' = commission \/ commission' = [commission EXCEPT ![t] = commission[t] + 1]
    BY <1>1 DEF PayOnline, PayInCash
  <2> QED
    BY <1>1, <2>1 DEF IInv, TypeOK
<1>8. \A h \in running' \ running : h \in HandlerRow /\ HandlerOK(h) /\ h.pc \notin {"confirm", "drop"}
  <2>1. PICK l : l = New("pay_queue", t, m.user)
    OBVIOUS
  <2>2. l \in HandlerRow /\ l.pc = "pay_queue" /\ l.task = t /\ l.user = m.user
    BY <1>0, <1>1, <2>1, NewRow DEF User, Label
  <2>3. PICK w : w = [l EXCEPT !.row = Copy(task[t]), !.k = m.n]
    OBVIOUS
  <2>4. Copy(task[t]) \in TaskRow
    BY <1>1, Copies DEF IInv, TypeOK
  <2>5. w \in HandlerRow /\ w.pc = "pay_queue" /\ w.task = t /\ w.user = m.user
    BY <1>0, <2>2, <2>3, <2>4 DEF HandlerRow
  <2>6. HandlerOK(w)
    BY <1>0, <1>2, <2>5 DEF HandlerOK, Accepting, Workers, Reviewing, Responding
  <2>7. \A h \in running' \ running : h = w
    BY <1>1, <2>1, <2>3 DEF PayOnline, PayInCash, Run
  <2> QED
    BY <2>5, <2>6, <2>7
<1>9. RowsTyped' /\ told' \in [Task -> SUBSET Pin] /\ requests' \in Nat /\ crashes' \in Nat
    BY <1>3, <1>5, <1>6, <1>7 DEF RowsTyped, IInv, TypeOK, repVars, boundVars
<1>10. \A u \in Task : payout'[u] # {} \/ commission'[u] > 0 => told'[u] = Pin
    BY <1>2, <1>3, <1>6, <1>7, Still
<1> QED
    BY <1>3, <1>5, <1>8, <1>9, <1>10, Still, Grows

LEMMA PayoutQueued ==
    ASSUME IInv, NEW h \in running, QueuePayout(h)
    PROVE  IInv'
<1>1. h \in HandlerRow /\ h.task \in Task /\ told[h.task] = Pin
    BY Typed DEF QueuePayout, At, HandlerOK, Workers
<1>2. UNCHANGED <<rowVars, commission, repVars, told, msgs, boundVars>> /\ running' \subseteq running
    BY DEF QueuePayout, Finish
<1>3. /\ payout' \in [Task -> SUBSET (Amounts \cup {Estimate})] /\ \A u \in Task : Cardinality(payout'[u]) <= 1
      /\ \A u \in Task : payout'[u] # {} => payout[u] # {} \/ u = h.task
  <2>1. Cardinality({h.row.price}) = 1 /\ h.row.price \in Amounts \cup {Estimate}
    BY <1>1, FS_Singleton DEF HandlerRow, TaskRow
  <2> QED
    BY <1>1, <2>1 DEF QueuePayout, IInv, TypeOK
<1>4. RowsTyped' /\ told' \in [Task -> SUBSET Pin] /\ requests' \in Nat /\ crashes' \in Nat
    BY <1>2, <1>3 DEF RowsTyped, IInv, TypeOK, rowVars, repVars, boundVars
<1>5. \A u \in Task : payout'[u] # {} \/ commission'[u] > 0 => told'[u] = Pin
    BY <1>1, <1>2, <1>3, Still
<1> QED
    BY <1>2, <1>4, <1>5, Still, Grows DEF rowVars

-----------------------------------------------------------------------------
LEMMA Starting ==
    Init => IInv
<1> SUFFICES ASSUME Init
            PROVE  IInv
    OBVIOUS
<1>1. \A t \in Task : payout[t] = {} /\ Cardinality(payout[t]) = 0
    BY FS_EmptySet DEF Init
<1>2. adjustments \in [Task -> Seq(Adjustment)]
    BY DEF Init
<1>3. TypeOK
    BY <1>1, <1>2, Defaults DEF Init, TypeOK, DutyStatus
<1>4. \A t \in Task : TaskOK(t)
    BY <1>1, Defaults DEF Init, TaskOK
<1> QED
    BY <1>3, <1>4 DEF Init, IInv, OneWay

LEMMA Stepping ==
    IInv /\ [Next]_vars => IInv'
<1> SUFFICES ASSUME IInv, [Next]_vars
            PROVE  IInv'
    OBVIOUS
<1>1. ASSUME NEW h \in running, RequestStep(h)
      PROVE  IInv'
    BY <1>1, Confirms, Drops, Cancels, RequestGoesOn, Accepts, Starts, Asks, Answers DEF RequestStep
<1>2. ASSUME NEW h \in running, JobStep(h)
      PROVE  IInv'
    BY <1>2, Settles, JobGoesOn, PayoutQueued DEF JobStep
<1>3. ASSUME NEW h \in running, ReviewStep(h) \/ Crash(h)
      PROVE  IInv'
    BY <1>3, ReviewGoesOn, Dies
<1>4. ASSUME NEW m \in msgs, Deliver(m) \/ SyncScore(m)
      PROVE  IInv'
    BY <1>4, CompletionTaken, PaymentTaken, ScoreSynced DEF Deliver
<1>5. ASSUME NEW t \in Task, CustomerRequest(t)
      PROVE  IInv'
  <2>1. \A k \in 1 .. MaxAdjustments : k \in Nat
    BY ConstantsAssumption
  <2> QED
    BY <1>5, <2>1, DraftLoads, CancelLoads, ResponseLoads DEF CustomerRequest
<1>6. ASSUME NEW t \in Task, ProviderRequest(t) \/ BeginAdminCancelTask(t) \/ \E u \in User : BeginReview(t, u)
      PROVE  IInv'
    BY <1>6, AcceptLoads, StartLoads, AskLoads, CancelLoads, ReviewLoads DEF ProviderRequest
<1>7. ASSUME NEW t \in Task, External(t)
      PROVE  IInv'
    BY <1>7, Creates, Pays, Tells, CompletionQueued DEF External
<1>8. CASE UNCHANGED vars
  <2>1. UNCHANGED <<rowVars, payVars, repVars, told, msgs, running, boundVars>>
    BY <1>8 DEF vars
  <2> QED
    BY <2>1, Quiet DEF rowVars, payVars, repVars, boundVars, IInv, TypeOK
<1> QED
    BY <1>1, <1>2, <1>3, <1>4, <1>5, <1>6, <1>7, <1>8 DEF Next, HandlerStep, UserRequest

LEMMA AlwaysIInv ==
    Spec => []IInv
BY Starting, Stepping, PTL DEF Spec

\* Every variable keeps its type, for any tasks, providers, amounts and bounds.
THEOREM LifecycleTypeCorrect ==
    Spec => []TypeOK
<1>1. IInv => TypeOK
    BY DEF IInv
<1> QED
    BY <1>1, AlwaysIInv, PTL

\* Nobody pays for work that was not begun and ended in front of the
\* customer: a task is settled, its commission taken or its payout queued only
\* after its customer gave out both PINs.
THEOREM PaidAfterPins ==
    Spec => []PinsBeforeMoney
<1>1. IInv => PinsBeforeMoney
    BY DEF IInv, TaskOK, PinsBeforeMoney
<1> QED
    BY <1>1, AlwaysIInv, PTL
=============================================================================
