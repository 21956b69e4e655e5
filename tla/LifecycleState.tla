---------------------------- MODULE LifecycleState ----------------------------
(***************************************************************************)
(* The shared state of a task's life from draft to review: the rows of     *)
(* tasks, task_assignments, task_price_adjustments, payout_queue,          *)
(* provider_debts, task_reviews, credibility_ledger and user_stats, the    *)
(* Celery messages, and the copies that running handlers have loaded.      *)
(***************************************************************************)
EXTENDS Integers, FiniteSets, Sequences

CONSTANTS
    Task, Provider,
    Customer,          \* the customer of every task
    MaxRunning,        \* bound on the requests and workers running at a time
    NoProvider,
    Estimate,          \* customer_total_price as estimated for the draft
    Amounts,           \* what a provider may ask for instead
    MaxRequests,       \* bound on cancellations and completions
    MaxAdjustments,    \* bound on the price adjustments of a task
    MaxCrashes         \* bound on the number of handlers that die half way

ASSUME ConstantsAssumption ==
    /\ NoProvider \notin Provider /\ Customer \notin Provider \cup {NoProvider}
    /\ MaxRunning \in Nat
    /\ Estimate \in Nat /\ Amounts \subseteq Nat
    /\ MaxRequests \in Nat /\ MaxAdjustments \in Nat /\ MaxCrashes \in Nat

User == Provider \cup {Customer}

\* ABSENT: no row.  OPEN stands for OPEN and SEARCHING.
TaskStatus == {"ABSENT", "DRAFT", "OPEN", "ASSIGNED", "IN_PROGRESS", "COMPLETED", "CANCELLED"}
Terminal == {"COMPLETED", "CANCELLED"}
Active == {"ASSIGNED", "IN_PROGRESS"}
TaskAssignmentStatus == {"NONE", "ASSIGNED", "IN_PROGRESS", "COMPLETED", "CANCELLED"}
PaymentStatus == {"PENDING", "PAYMENT_REQUESTED", "CASH_PAID", "PAID"}
DutyStatus == {"ONLINE_AVAILABLE", "ON_DISPATCH", "ON_TASK"}
PaymentMode == {"CASH", "ONLINE"}
Pin == {"start", "completion"}

\* platform_fee and provider_payout are functions of the price and always
\* written with it.
TaskRow == [status: TaskStatus, provider: Provider \cup {NoProvider},
            price: Amounts \cup {Estimate}, payment: PaymentStatus]
AssignmentRow == [status: TaskAssignmentStatus, provider: Provider \cup {NoProvider}]
Adjustment == [amount: Amounts, status: {"PENDING", "APPROVED", "REJECTED"}]

NewTask == [status |-> "ABSENT", provider |-> NoProvider, price |-> Estimate, payment |-> "PENDING"]
NoAssignment == [status |-> "NONE", provider |-> NoProvider]

\* tasks.complete_task_assignment and payments.process_task_payment, told
\* apart by the request (n) they go back to, and the two score updates.
Message == [kind: {"complete", "pay"}, task: Task, user: Provider, mode: PaymentMode, n: Nat]
           \cup [kind: {"score"}, user: User]

Label == {"confirm", "drop", "cancel", "cancel_row", "cancel_duty",
          "accept", "accept_row", "accept_duty", "start", "start_row",
          "ask", "approve", "reject",
          "settle", "settle_duty", "settle_pay", "pay_queue",
          "review", "ledger", "notify_score", "reveal_row"}

HandlerRow == [pc: Label, task: Task, user: User \cup {NoProvider}, row: TaskRow, asg: AssignmentRow, k: Nat, mode: PaymentMode, admin: BOOLEAN]

\* One that has loaded nothing.
New(label, t, u) == [pc |-> label, task |-> t, user |-> u, row |-> NewTask,
                     asg |-> NoAssignment, k |-> 0, mode |-> "CASH", admin |-> FALSE]

VARIABLES
    task,         \* Task -> its row in tasks
    assignment,   \* Task -> its row in task_assignments (task_id is unique)
    adjustments,  \* Task -> its price adjustments, by creation
    told,         \* Task -> the PINs its customer has told its provider
    duty,         \* Provider -> ProviderProfile.duty_status
    payout,       \* Task -> amounts in payout_queue (at most one: unique)
    commission,   \* Task -> its CASH_TASK_COMMISSION entries in provider_debts
    review,       \* Task -> User -> what this reviewer has in task_reviews
    unscored,     \* users with entries in credibility_ledger that their
                  \* user_stats.credibility_score does not count
    msgs,         \* messages in the broker
    running,      \* the requests and workers under way
    requests, crashes

rowVars == <<task, assignment, adjustments, duty>>
payVars == <<payout, commission>>
repVars == <<review, unscored>>
boundVars == <<requests, crashes>>
vars == <<rowVars, payVars, repVars, told, msgs, running, boundVars>>

TypeOK ==
    /\ task \in [Task -> TaskRow]
    /\ assignment \in [Task -> AssignmentRow]
    /\ adjustments \in [Task -> Seq(Adjustment)]
    /\ told \in [Task -> SUBSET Pin]
    /\ duty \in [Provider -> DutyStatus]
    /\ payout \in [Task -> SUBSET (Amounts \cup {Estimate})]
    /\ \A t \in Task : Cardinality(payout[t]) <= 1
    /\ commission \in [Task -> Nat]
    /\ review \in [Task -> [User -> {"none", "hidden", "visible"}]]
    /\ unscored \subseteq User
    /\ msgs \subseteq Message
    /\ running \subseteq HandlerRow
    /\ requests \in Nat /\ crashes \in Nat

Init ==
    /\ task = [t \in Task |-> NewTask]
    /\ assignment = [t \in Task |-> NoAssignment]
    /\ adjustments = [t \in Task |-> <<>>]
    /\ told = [t \in Task |-> {}]
    /\ duty = [v \in Provider |-> "ONLINE_AVAILABLE"]
    /\ payout = [t \in Task |-> {}]
    /\ commission = [t \in Task |-> 0]
    /\ review = [t \in Task |-> [u \in User |-> "none"]]
    /\ unscored = {}
    /\ msgs = {}
    /\ running = {}
    /\ requests = 0 /\ crashes = 0

(***************************************************************************)
(* Handlers.  A request loads the task with its assignment (lazy="joined") *)
(* and judges by these copies; a commit writes the attributes it changed   *)
(* in memory and refreshes the row.  A user has one request on a task      *)
(* running at a time.                                                      *)
(***************************************************************************)
At(h, label) == h.pc = label
Workers == {"settle", "settle_duty", "settle_pay", "pay_queue"}
Busy(t, u) == \E h \in running : h.task = t /\ h.user = u /\ h.pc \notin Workers

Run(h) == Cardinality(running) < MaxRunning /\ running' = running \cup {h}
Become(h, w) == running' = (running \ {h}) \cup {w}
Goto(h, label) == Become(h, [h EXCEPT !.pc = label])
Finish(h) == running' = running \ {h}

Copy(row) == [NewTask EXCEPT !.status = row.status, !.price = row.price]  \* what is read later
Loaded(label, t, u) == [New(label, t, u) EXCEPT !.row = Copy(task[t]), !.asg = assignment[t]]
Load(label, t, u) == ~Busy(t, u) /\ Run(Loaded(label, t, u))

\* The requests that are counted: those that may come again and again.
Counted == requests < MaxRequests /\ requests' = requests + 1

\* After a commit of the task: the refreshed copies, on to label.
Refreshed(h, label) ==
    Become(h, [h EXCEPT !.pc = label, !.row = Copy(task'[h.task]), !.asg = assignment[h.task]])

\* A commit writes the status only if it differs from the loaded one.
Written(loaded, stored, new) == IF loaded = new THEN stored ELSE new

SaveStatus(h, s) == task' = [task EXCEPT ![h.task].status = Written(h.row.status, @, s)]
SaveAssignment(h, s) ==
    assignment' = [assignment EXCEPT ![h.task].status = Written(h.asg.status, @, s)]
=============================================================================
