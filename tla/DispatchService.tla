--------------------------- MODULE DispatchService ---------------------------
(***************************************************************************)
(* DispatchService: the ways a dispatch session begins (a confirmed draft, *)
(* an automatic retry, an administrator's redispatch), what is done when   *)
(* it finds nobody, and the answer of a provider.                          *)
(***************************************************************************)
EXTENDS DispatchState

\* Where start_initial_dispatch and auto_retry give up.
Taken == {"ASSIGNED", "COMPLETED", "CANCELLED"}

\* DispatchPolicy.can_auto_retry.
CanAutoRetryOnceMore(auto) == auto <= AutoMax
CanAutoRetryOnceLess(auto) == auto + 1 < AutoMax
CanAutoRetry(auto) == auto < AutoMax

Dispatched(row) == [row EXCEPT !.status = "SEARCHING", !.dispatch = "DISPATCHING"]
Reopened(row) == [Dispatched(row) EXCEPT !.provider = NoProvider]
Retried(row) == [Dispatched(row) EXCEPT !.auto = @ + 1]
Exhausted(row) == [row EXCEPT !.status = "NO_MATCH", !.dispatch = "AUTO_EXHAUSTED"]

(***************************************************************************)
(* The customer confirms a draft (confirm_draft, then                      *)
(* start_initial_dispatch in the same session: its SELECT FOR UPDATE       *)
(* returns the task that is loaded already).                               *)
(***************************************************************************)
BeginConfirm(h, t) ==
    /\ At(h, "idle")
    /\ requests < MaxRequests
    /\ task[t].status = "DRAFT"
    /\ requests' = requests + 1
    /\ Become(h, [Idle EXCEPT !.pc = "confirm", !.task = t, !.row = task[t]])
    /\ UNCHANGED <<rowVars, msgs, crashes>>

ConfirmDraft(h) ==
    /\ At(h, "confirm")
    /\ SaveTask(h, [handler[h].row EXCEPT !.status = "OPEN"])
    /\ Goto(h, "reload")
    /\ UNCHANGED <<assignment, sessions, duty, msgs, boundVars>>

ReloadTask(h) ==
    /\ At(h, "reload")
    /\ Become(h, [handler[h] EXCEPT !.pc = "start", !.row = task[JobOf(h)]])
    /\ UNCHANGED <<rowVars, msgs, boundVars>>

StartInitialDispatch(h) ==
    /\ At(h, "start")
    /\ handler[h].row.status \notin Taken
    /\ SaveTask(h, Dispatched(handler[h].row))
    /\ Continue(h, "sequence")
    /\ UNCHANGED <<assignment, sessions, duty, msgs, boundVars>>

NotEligible(h) ==
    /\ At(h, "start")
    /\ handler[h].row.status \in Taken
    /\ Finish(h)
    /\ UNCHANGED <<rowVars, msgs, boundVars>>

(***************************************************************************)
(* auto_retry: the row is locked and read, judged and saved in one         *)
(* transaction.                                                            *)
(***************************************************************************)
AutoRetry(h, m) ==
    LET t == m.task
    IN  /\ At(h, "idle")
        /\ m.kind = "retry"
        /\ task[t].status \notin Taken
        /\ CanAutoRetry(task[t].auto)
        /\ task' = [task EXCEPT ![t] = Retried(@)]
        /\ overdue' = overdue \ {t}
        /\ msgs' = msgs \ {m}
        /\ Become(h, [Idle EXCEPT !.pc = "sequence", !.task = t])
        /\ UNCHANGED <<assignment, sessions, duty, boundVars>>

AutoRetryExhausted(h, m) ==
    /\ At(h, "idle")
    /\ m.kind = "retry"
    /\ task[m.task].status \notin Taken
    /\ ~CanAutoRetry(task[m.task].auto)
    /\ task' = [task EXCEPT ![m.task] = Exhausted(@)]
    /\ overdue' = overdue \ {m.task}
    /\ msgs' = msgs \ {m}
    /\ UNCHANGED <<assignment, sessions, duty, handler, boundVars>>

AutoRetryTaken(h, m) ==
    /\ At(h, "idle")
    /\ m.kind = "retry"
    /\ task[m.task].status \in Taken
    /\ msgs' = msgs \ {m}
    /\ UNCHANGED <<rowVars, handler, boundVars>>

(***************************************************************************)
(* manual_redispatch by an administrator.  Saving the cancelled assignment *)
(* commits, and so releases the lock on the task.                          *)
(***************************************************************************)
ManualRedispatch(h, t) ==
    /\ At(h, "idle")
    /\ requests < MaxRequests
    /\ task[t].status \notin {"COMPLETED", "CANCELLED"}
    /\ task[t].status = "ASSIGNED" => assignment[t].status = "NONE"
    /\ requests' = requests + 1
    /\ task' = [task EXCEPT ![t] = Reopened(@)]
    /\ overdue' = overdue \ {t}
    /\ Become(h, [Idle EXCEPT !.pc = "sequence", !.task = t])
    /\ UNCHANGED <<assignment, sessions, duty, msgs, crashes>>

RevokeAssignment(h, t) ==
    /\ At(h, "idle")
    /\ requests < MaxRequests
    /\ task[t].status = "ASSIGNED"
    /\ assignment[t].status # "NONE"
    /\ requests' = requests + 1
    /\ assignment' = [assignment EXCEPT ![t].status = "CANCELLED"]
    /\ Become(h, [Idle EXCEPT !.pc = "reopen", !.task = t, !.row = task[t],
                              !.provider = assignment[t].provider])
    /\ UNCHANGED <<task, sessions, duty, overdue, msgs, crashes>>

ReopenTask(h) ==
    /\ At(h, "reopen")
    /\ duty' = [duty EXCEPT ![handler[h].provider] = "ONLINE_AVAILABLE"]
    /\ SaveTask(h, Reopened(handler[h].row))
    /\ Continue(h, "sequence")
    /\ UNCHANGED <<assignment, sessions, msgs, boundVars>>

(***************************************************************************)
(* The new session: MAX(sequence) + 1, the insert, the message.            *)
(***************************************************************************)
GetNextSequence(h) ==
    /\ At(h, "sequence")
    /\ Become(h, [handler[h] EXCEPT !.pc = "insert", !.seq = Len(sessions[JobOf(h)]) + 1])
    /\ UNCHANGED <<rowVars, msgs, boundVars>>

InsertSession(h) ==
    /\ At(h, "insert")
    /\ handler[h].seq = Len(sessions[JobOf(h)]) + 1
    /\ sessions' = [sessions EXCEPT ![JobOf(h)] = Append(@, NewSession)]
    /\ Goto(h, "send")
    /\ UNCHANGED <<task, assignment, duty, overdue, msgs, boundVars>>

\* uq_dispatch_session_task_sequence.
InsertCollides(h) ==
    /\ At(h, "insert")
    /\ handler[h].seq # Len(sessions[JobOf(h)]) + 1
    /\ Finish(h)
    /\ UNCHANGED <<rowVars, msgs, boundVars>>

SendMatch(h) ==
    /\ At(h, "send")
    /\ msgs' = msgs \cup {[kind |-> "match", task |-> JobOf(h), seq |-> handler[h].seq,
                           cands |-> {}, last |-> FALSE]}
    /\ Finish(h)
    /\ UNCHANGED <<rowVars, boundVars>>

BeginningStep(h) ==
    \/ ConfirmDraft(h) \/ ReloadTask(h) \/ StartInitialDispatch(h) \/ NotEligible(h)
    \/ ReopenTask(h) \/ GetNextSequence(h) \/ InsertSession(h) \/ InsertCollides(h) \/ SendMatch(h)

(***************************************************************************)
(* handle_no_match and _handle_auto_exhaustion.                            *)
(***************************************************************************)
FailSession(h) ==
    /\ At(h, "fail")
    /\ sessions' = SaveSession(h, "FAILED")
    /\ Become(h, [handler[h] EXCEPT !.pc = "no_match",
                                    !.ss = sessions'[JobOf(h)][handler[h].seq].status])
    /\ UNCHANGED <<task, assignment, duty, overdue, msgs, boundVars>>

ScheduleRetry(h) ==
    /\ At(h, "no_match")
    /\ CanAutoRetry(handler[h].row.auto)
    /\ SaveTask(h, [handler[h].row EXCEPT !.dispatch = "RETRY_SCHEDULED"])
    /\ Finish(h)
    /\ UNCHANGED <<assignment, sessions, duty, msgs, boundVars>>

ExhaustTask(h) ==
    /\ At(h, "no_match")
    /\ ~CanAutoRetry(handler[h].row.auto)
    /\ SaveTask(h, Exhausted(handler[h].row))
    /\ Become(h, [handler[h] EXCEPT !.pc = "exhaust", !.row = Draft])
    /\ UNCHANGED <<assignment, sessions, duty, msgs, boundVars>>

ExhaustSession(h) ==
    /\ At(h, "exhaust")
    /\ sessions' = SaveSession(h, "EXHAUSTED")
    /\ Finish(h)
    /\ UNCHANGED <<task, assignment, duty, overdue, msgs, boundVars>>

NoMatchStep(h) == FailSession(h) \/ ScheduleRetry(h) \/ ExhaustTask(h) \/ ExhaustSession(h)

(***************************************************************************)
(* respond_to_dispatch_ping and handle_ping_response.  A provider's app    *)
(* sends one answer at a time; it is ignored if the task is ASSIGNED, if   *)
(* there is no (or more than one) PENDING attempt, or, for an acceptance,  *)
(* if somebody else's was accepted in any session of the task.             *)
(***************************************************************************)
AnswerLabel == {"answer", "assign", "assignment", "on_task", "close", "release"}
Answering(h, v) == handler[h].pc \in AnswerLabel /\ handler[h].provider = v

OthersAccepted(t, v) == {w \in Provider \ {v} : OfferedTo(t, w, {"ACCEPTED"})}

BeginAnswer(h, t, v, i, accept) ==
    /\ At(h, "idle")
    /\ \A g \in Handler : ~Answering(g, v)
    /\ task[t].status # "ASSIGNED"
    /\ i \in 1 .. Len(sessions[t])
    /\ sessions[t][i].offer[v] \in IF LateAnswers THEN Open ELSE {"PENDING"}
    /\ \A j \in 1 .. Len(sessions[t]) : sessions[t][j].offer[v] \in Open => j = i
    /\ accept => OthersAccepted(t, v) = {}
    /\ Become(h, [Idle EXCEPT !.pc = "answer", !.task = t, !.row = task[t], !.seq = i,
                              !.provider = v, !.accept = accept])
    /\ UNCHANGED <<rowVars, msgs, boundVars>>

\* attempt.status is saved over whatever it is by now.
SaveAnswer(h) ==
    LET w == handler[h]
    IN  /\ At(h, "answer")
        /\ sessions' = [sessions EXCEPT ![w.task][w.seq].offer[w.provider] =
                            IF w.accept THEN "ACCEPTED" ELSE "DECLINED"]
        /\ Goto(h, IF w.accept THEN "assign" ELSE "release")
        /\ UNCHANGED <<task, assignment, duty, overdue, msgs, boundVars>>

(***************************************************************************)
(* _process_acceptance.                                                    *)
(***************************************************************************)
MatchedStatus(row, v) == [row EXCEPT !.status = "MATCHED", !.provider = v]
Matched(row, v) == [row EXCEPT !.status = "ASSIGNED", !.dispatch = "MATCHED", !.provider = v]

\* The refresh after the commit reads the assignment along with the task.
AssignTask(h) ==
    /\ At(h, "assign")
    /\ SaveTask(h, Matched(handler[h].row, handler[h].provider))
    /\ Become(h, [handler[h] EXCEPT !.pc = "assignment", !.row = Draft,
                                    !.asg = assignment[JobOf(h)]])
    /\ UNCHANGED <<assignment, sessions, duty, msgs, boundVars>>

UpdateAssignment(h) ==
    LET w == handler[h]
    IN  /\ At(h, "assignment")
        /\ w.asg.status # "NONE"
        /\ assignment' = [assignment EXCEPT
               ![w.task].provider = IF w.asg.provider = w.provider THEN @ ELSE w.provider,
               ![w.task].status = IF w.asg.status = "ASSIGNED" THEN @ ELSE "ASSIGNED"]
        /\ Become(h, [handler[h] EXCEPT !.pc = "on_task", !.asg = NoAssignment])
        /\ UNCHANGED <<task, sessions, duty, overdue, msgs, boundVars>>

InsertAssignment(h) ==
    /\ At(h, "assignment")
    /\ handler[h].asg.status = "NONE"
    /\ assignment[JobOf(h)].status = "NONE"
    /\ assignment' = [assignment EXCEPT ![JobOf(h)] =
                         [status |-> "ASSIGNED", provider |-> handler[h].provider]]
    /\ Become(h, [handler[h] EXCEPT !.pc = "on_task", !.asg = NoAssignment])
    /\ UNCHANGED <<task, sessions, duty, overdue, msgs, boundVars>>

\* task_id is unique: a concurrent acceptance has inserted its assignment.
InsertAssignmentRaises(h) ==
    /\ At(h, "assignment")
    /\ handler[h].asg.status = "NONE"
    /\ assignment[JobOf(h)].status # "NONE"
    /\ Finish(h)
    /\ UNCHANGED <<rowVars, msgs, boundVars>>

SetOnTask(h) ==
    /\ At(h, "on_task")
    /\ duty' = [duty EXCEPT ![handler[h].provider] = "ON_TASK"]
    /\ Goto(h, "close")
    /\ UNCHANGED <<task, assignment, sessions, overdue, msgs, boundVars>>

\* One commit (in notify): running sessions and the others' open offers.
ClosedAll(s) == [s EXCEPT !.offer = [v \in Provider |-> "CANCELLED"]]
Closed(s) ==
    [status |-> IF s.status = "RUNNING" THEN "ASSIGNED" ELSE s.status,
     offer  |-> [v \in Provider |-> IF s.offer[v] \in Open THEN "CANCELLED" ELSE s.offer[v]]]

CloseSessions(h) ==
    LET t == JobOf(h)
    IN  /\ At(h, "close")
        /\ sessions' = [sessions EXCEPT ![t] = [i \in 1 .. Len(@) |-> Closed(@[i])]]
        /\ Finish(h)
        /\ UNCHANGED <<task, assignment, duty, overdue, msgs, boundVars>>

(***************************************************************************)
(* _process_decline_or_timeout.  If no offer of the task is pending any    *)
(* more, handle_no_match follows, and its first commit releases the        *)
(* provider too; otherwise the logger's flush at the end of the request.   *)
(***************************************************************************)
Release(V) == [v \in Provider |-> IF v \in V /\ duty[v] = "ON_DISPATCH" THEN "ONLINE_AVAILABLE"
                                  ELSE duty[v]]

EndsSession(h) ==
    /\ handler[h].row.status = "SEARCHING"
    /\ \A v \in Provider : ~OfferedTo(JobOf(h), v, Open)

ReleaseProvider(h) ==
    /\ At(h, "release")
    /\ duty' = Release({handler[h].provider})
    /\ IF EndsSession(h)
       THEN /\ sessions' = [sessions EXCEPT ![JobOf(h)][handler[h].seq].status = "FAILED"]
            /\ Become(h, [handler[h] EXCEPT !.pc = "no_match", !.ss = "FAILED",
                                            !.provider = NoProvider])
       ELSE Finish(h) /\ UNCHANGED sessions
    /\ UNCHANGED <<task, assignment, overdue, msgs, boundVars>>

AnswerStep(h) ==
    \/ SaveAnswer(h) \/ AssignTask(h) \/ UpdateAssignment(h) \/ InsertAssignment(h)
    \/ InsertAssignmentRaises(h) \/ SetOnTask(h) \/ CloseSessions(h) \/ ReleaseProvider(h)
=============================================================================
