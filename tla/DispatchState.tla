---------------------------- MODULE DispatchState ----------------------------
(***************************************************************************)
(* The shared state of task dispatch: the rows of tasks, task_assignments, *)
(* dispatch_sessions, task_dispatch_attempts (offers) and                  *)
(* provider_profiles that it reads and writes, the Celery messages, and    *)
(* one database session per running handler.                               *)
(*                                                                         *)
(* As in PaymentState, a handler decides on the rows it has loaded while   *)
(* others commit; row, asg and ss of a handler are those copies.  A commit *)
(* writes the attributes that the handler changed in memory, and no other. *)
(***************************************************************************)
EXTENDS Integers, FiniteSets, Sequences

CONSTANTS
    Task, Provider,
    Handler,           \* slots for concurrently running requests and tasks
    NoTask, NoProvider,
    AutoMax,           \* DispatchPolicy.AUTO_DISPATCH_MAX
    BatchSize,         \* DispatchPolicy.BATCH_SIZE
    Nearby,            \* Task -> eligible providers within the search radius
    MaxRequests,       \* bound on confirmations and redispatches
    MaxCrashes,        \* bound on the number of handlers that die half way
    LateAnswers,       \* may an answer come after, or race, its offer's expiry?
    LongSessions       \* may a session outlast STALE_CLAIM_TIMEOUT_SECONDS?

ASSUME ConstantsAssumption ==
    /\ NoTask \notin Task
    /\ NoProvider \notin Provider
    /\ IsFiniteSet(Provider) /\ IsFiniteSet(Handler)
    /\ AutoMax \in Nat
    /\ BatchSize \in Nat \ {0}
    /\ Nearby \in [Task -> SUBSET Provider]
    /\ MaxRequests \in Nat
    /\ MaxCrashes \in Nat
    /\ LateAnswers \in BOOLEAN
    /\ LongSessions \in BOOLEAN

TaskStatus == {"DRAFT", "OPEN", "SEARCHING", "ASSIGNED", "COMPLETED", "CANCELLED", "NO_MATCH"}
TaskDispatchStatus == {"READY", "DISPATCHING", "RETRY_SCHEDULED", "MATCHED", "AUTO_EXHAUSTED"}
DispatchSessionStatus == {"RUNNING", "ASSIGNED", "FAILED", "EXHAUSTED"}

\* DispatchAttemptStatus of a provider in a session; NONE: not offered.
\* LAPSED is a PENDING attempt whose expires_at has passed.
DispatchAttemptStatus ==
    {"NONE", "PENDING", "LAPSED", "ACCEPTED", "DECLINED", "TIMEOUT", "CANCELLED"}
Open == {"PENDING", "LAPSED"}

DutyStatus == {"ONLINE_AVAILABLE", "ON_DISPATCH", "ON_TASK"}

TaskRow == [status: TaskStatus, dispatch: TaskDispatchStatus, auto: Nat,
            provider: Provider \cup {NoProvider}]
AssignmentRow == [status: {"NONE", "ASSIGNED", "CANCELLED"}, provider: Provider \cup {NoProvider}]
DispatchSession == [status: DispatchSessionStatus, offer: [Provider -> DispatchAttemptStatus]]

Draft == [status |-> "DRAFT", dispatch |-> "READY", auto |-> 0, provider |-> NoProvider]
NoAssignment == [status |-> "NONE", provider |-> NoProvider]
NewSession == [status |-> "RUNNING", offer |-> [v \in Provider |-> "NONE"]]

(***************************************************************************)
(* Celery messages: tasks.process_auto_retry, execute_matching_engine,     *)
(* execute_batch_ping, check_session_exhaustion.  Each is delivered at     *)
(* most once (acks_late is off) and after any delay.                       *)
(***************************************************************************)
Message == [kind: {"retry", "match", "batch", "check"}, task: Task, seq: Nat,
            cands: SUBSET Provider, last: BOOLEAN]

Label == {"idle",
          "confirm", "reload", "start", "reopen",       \* what begins a session
          "sequence", "insert", "send",                 \* inserting it
          "fail", "no_match", "exhaust",                \* handle_no_match
          "fetch", "ping", "check",                     \* matching and pings
          "answer", "assign", "assignment", "on_task", "close", "release"}  \* responses

HandlerRow == [pc: Label, task: Task \cup {NoTask}, row: TaskRow, asg: AssignmentRow,
               seq: Nat, ss: DispatchSessionStatus, provider: Provider \cup {NoProvider},
               accept: BOOLEAN, cands: SUBSET Provider, last: BOOLEAN]

Idle == [pc |-> "idle", task |-> NoTask, row |-> Draft, asg |-> NoAssignment,
         seq |-> 0, ss |-> "RUNNING", provider |-> NoProvider,
         accept |-> FALSE, cands |-> {}, last |-> FALSE]

VARIABLES
    task,        \* Task -> its row in tasks
    assignment,  \* Task -> its row in task_assignments (task_id is unique)
    sessions,    \* Task -> its dispatch_sessions and offers, by sequence
    duty,        \* Provider -> ProviderProfile.duty_status
    overdue,     \* RETRY_SCHEDULED tasks whose next_dispatch_at has passed, and
                 \* DISPATCHING ones whose dispatch_claimed_at is past the timeout
    msgs,        \* messages in the broker
    handler,     \* Handler -> the handler running in it
    requests,    \* confirmations and redispatches so far
    crashes      \* handlers that died so far

vars == <<task, assignment, sessions, duty, overdue, msgs, handler, requests, crashes>>
rowVars == <<task, assignment, sessions, duty, overdue>>
boundVars == <<requests, crashes>>

TypeOK ==
    /\ task \in [Task -> TaskRow]
    /\ assignment \in [Task -> AssignmentRow]
    /\ sessions \in [Task -> Seq(DispatchSession)]
    /\ duty \in [Provider -> DutyStatus]
    /\ overdue \subseteq Task
    /\ msgs \subseteq Message
    /\ handler \in [Handler -> HandlerRow]
    /\ requests \in Nat
    /\ crashes \in Nat

\* Customers have drafted their tasks; the providers are online.
Init ==
    /\ task = [t \in Task |-> Draft]
    /\ assignment = [t \in Task |-> NoAssignment]
    /\ sessions = [t \in Task |-> <<>>]
    /\ duty = [v \in Provider |-> "ONLINE_AVAILABLE"]
    /\ overdue = {}
    /\ msgs = {}
    /\ handler = [h \in Handler |-> Idle]
    /\ requests = 0
    /\ crashes = 0

(***************************************************************************)
(* Handlers.                                                               *)
(***************************************************************************)
At(h, label) == handler[h].pc = label
JobOf(h) == handler[h].task
SessionOf(h) == sessions[handler[h].task][handler[h].seq]

Become(h, w) == handler' = [handler EXCEPT ![h] = w]
Goto(h, label) == Become(h, [handler[h] EXCEPT !.pc = label])
Finish(h) == Become(h, Idle)

\* session.add, commit, refresh of a task: what the handler changed between
\* loading old and saving new is written over the row as it is by now.
Saved(row, old, new) ==
    [status   |-> IF new.status = old.status THEN row.status ELSE new.status,
     dispatch |-> IF new.dispatch = old.dispatch THEN row.dispatch ELSE new.dispatch,
     auto     |-> IF new.auto = old.auto THEN row.auto ELSE new.auto,
     provider |-> IF new.provider = old.provider THEN row.provider ELSE new.provider]

\* With it go dispatch_claimed_at and next_dispatch_at.
SaveTask(h, new) ==
    LET t == JobOf(h)
    IN  /\ task' = [task EXCEPT ![t] = Saved(@, handler[h].row, new)]
        /\ overdue' = overdue \ {t}

\* Copies that are not read any more are dropped from the handler.
Continue(h, label) == Become(h, [Idle EXCEPT !.pc = label, !.task = handler[h].task,
                                             !.seq = handler[h].seq])

\* The status a handler saves in the session it has loaded.
SaveSession(h, s) ==
    IF s = handler[h].ss THEN sessions
    ELSE [sessions EXCEPT ![JobOf(h)][handler[h].seq].status = s]

OfferedTo(t, v, statuses) == \E i \in 1 .. Len(sessions[t]) : sessions[t][i].offer[v] \in statuses
=============================================================================
