--------------------------- MODULE DispatchProofs ---------------------------
(***************************************************************************)
(* For every number of tasks, providers and handlers: type correctness of  *)
(* DispatchSystem, the bounds on a task's retries and sessions, the course *)
(* of an attempt, whom a task is assigned to, and whom an offer holds.     *)
(***************************************************************************)
EXTENDS DispatchSystem, SequenceTheorems, FiniteSetTheorems, TLAPS

(***************************************************************************)
(* TypeOK is not inductive: a handler at work must have a task, and one    *)
(* that works on a session, like a message about a session, must name one  *)
(* that exists.                                                            *)
(***************************************************************************)
Indexed == {"send", "fail", "no_match", "exhaust", "fetch", "ping", "check"} \cup AnswerLabel

Placed(w, ss) ==
    /\ w.pc # "idle" => w.task \in Task
    /\ w.pc \in Indexed => w.seq \in 1 .. Len(ss[w.task])

Sited(m, ss) == m.kind # "retry" => m.seq \in 1 .. Len(ss[m.task])

TypeInv ==
    /\ TypeOK
    /\ \A h \in Handler : Placed(handler[h], sessions)
    /\ \A m \in msgs : Sited(m, sessions)

SessionsType == [Task -> Seq(DispatchSession)]
Grown == \A t \in Task : Len(sessions[t]) <= Len(sessions'[t])
Level == \A t \in Task : Len(sessions'[t]) = Len(sessions[t])

LEMMA Labels ==
    /\ "idle" \in Label /\ "confirm" \in Label /\ "reload" \in Label /\ "start" \in Label
    /\ "reopen" \in Label /\ "sequence" \in Label /\ "insert" \in Label /\ "send" \in Label
    /\ "fail" \in Label /\ "no_match" \in Label /\ "exhaust" \in Label /\ "fetch" \in Label
    /\ "ping" \in Label /\ "check" \in Label /\ "answer" \in Label /\ "assign" \in Label
    /\ "assignment" \in Label /\ "on_task" \in Label /\ "close" \in Label /\ "release" \in Label
BY DEF Label

LEMMA Indexing ==
    /\ Indexed = {"send", "fail", "no_match", "exhaust", "fetch", "ping", "check",
                  "answer", "assign", "assignment", "on_task", "close", "release"}
    /\ "idle" \notin Indexed
BY DEF Indexed, AnswerLabel

LEMMA Defaults ==
    /\ Draft \in TaskRow /\ NoAssignment \in AssignmentRow /\ NewSession \in DispatchSession
    /\ Idle \in HandlerRow /\ Idle.pc = "idle" /\ Idle.task = NoTask /\ Idle.seq = 0
<1>1. Draft \in TaskRow /\ NoAssignment \in AssignmentRow
    BY DEF Draft, TaskRow, TaskStatus, TaskDispatchStatus, NoAssignment, AssignmentRow
<1>2. NewSession \in DispatchSession
    BY DEF NewSession, DispatchSession, DispatchSessionStatus, DispatchAttemptStatus
<1>3. "RUNNING" \in DispatchSessionStatus
    BY DEF DispatchSessionStatus
<1> QED
    BY <1>1, <1>2, <1>3, Labels DEF Idle, HandlerRow

-----------------------------------------------------------------------------
(***************************************************************************)
(* Steps in general.                                                       *)
(***************************************************************************)
LEMMA Lengths ==
    ASSUME TypeInv, NEW t \in Task
    PROVE  /\ sessions[t] \in Seq(DispatchSession)
           /\ Len(sessions[t]) \in Nat
           /\ DOMAIN sessions[t] = 1 .. Len(sessions[t])
           /\ \A i \in 1 .. Len(sessions[t]) : sessions[t][i] \in DispatchSession
<1>1. sessions[t] \in Seq(DispatchSession)
    BY DEF TypeInv, TypeOK
<1> QED
    BY <1>1, LenProperties, ElementOfSeq

LEMMA Kept ==
    ASSUME TypeInv, sessions' \in SessionsType, Grown
    PROVE  /\ \A h \in Handler : Placed(handler[h], sessions')
           /\ \A m \in msgs : Sited(m, sessions')
<1>1. \A t \in Task : Len(sessions[t]) \in Nat /\ Len(sessions'[t]) \in Nat
    BY Lengths, LenProperties DEF SessionsType
<1>2. ASSUME NEW h \in Handler
      PROVE  Placed(handler[h], sessions')
  <2>1. Placed(handler[h], sessions) /\ handler[h] \in HandlerRow
    BY DEF TypeInv, TypeOK
  <2>2. handler[h].pc \in Indexed => handler[h].task \in Task /\ handler[h].seq \in Nat
    BY <2>1, Indexing DEF Placed, HandlerRow
  <2> QED
    BY <1>1, <2>1, <2>2 DEF Placed, Grown
<1>3. ASSUME NEW m \in msgs
      PROVE  Sited(m, sessions')
  <2>1. Sited(m, sessions) /\ m.task \in Task /\ m.seq \in Nat
    BY DEF TypeInv, TypeOK, Message
  <2> QED
    BY <1>1, <2>1 DEF Sited, Grown
<1> QED
    BY <1>2, <1>3

\* A row that was placed among the sessions still is.
LEMMA Regrown ==
    ASSUME TypeInv, NEW w \in HandlerRow, Placed(w, sessions), sessions' \in SessionsType, Grown
    PROVE  Placed(w, sessions')
<1>1. CASE w.pc \in Indexed
  <2>1. PICK t \in Task, i \in Nat : t = w.task /\ i = w.seq /\ i \in 1 .. Len(sessions[t])
    BY <1>1, Indexing DEF Placed, HandlerRow
  <2>2. i \in 1 .. Len(sessions'[t])
    BY <2>1, Lengths, LenProperties DEF Grown, SessionsType
  <2> QED
    BY <2>1, <2>2 DEF Placed
<1> QED
    BY <1>1 DEF Placed

\* A handler moves on to row w.
LEMMA Moves ==
    ASSUME TypeInv, NEW h \in Handler, NEW w \in HandlerRow, Become(h, w), Placed(w, sessions'),
           sessions' \in SessionsType, Grown,
           task' \in [Task -> TaskRow], assignment' \in [Task -> AssignmentRow],
           duty' \in [Provider -> DutyStatus], overdue' \subseteq Task,
           msgs' \subseteq Message, \A m \in msgs' \ msgs : Sited(m, sessions'),
           requests' \in Nat, crashes' \in Nat
    PROVE  TypeInv'
<1>1. handler' \in [Handler -> HandlerRow]
    BY DEF Become, TypeInv, TypeOK
<1>2. TypeOK'
    BY <1>1 DEF TypeOK, SessionsType
<1>3. \A g \in Handler : Placed(handler[g], sessions')
    BY Kept
<1>4. \A g \in Handler : handler'[g] = IF g = h THEN w ELSE handler[g]
    BY DEF Become, TypeInv, TypeOK
<1>5. \A g \in Handler : Placed(handler'[g], sessions')
    BY <1>3, <1>4
<1>6. \A m \in msgs' : Sited(m, sessions')
    BY Kept
<1> QED
    BY <1>2, <1>5, <1>6 DEF TypeInv

\* No handler moves.
LEMMA Stays ==
    ASSUME TypeInv, UNCHANGED handler, sessions' \in SessionsType, Grown,
           task' \in [Task -> TaskRow], assignment' \in [Task -> AssignmentRow],
           duty' \in [Provider -> DutyStatus], overdue' \subseteq Task,
           msgs' \subseteq Message, \A m \in msgs' \ msgs : Sited(m, sessions'),
           requests' \in Nat, crashes' \in Nat
    PROVE  TypeInv'
<1>1. TypeOK'
    BY DEF TypeOK, TypeInv, SessionsType
<1>2. \A g \in Handler : Placed(handler'[g], sessions')
    BY Kept
<1>3. \A m \in msgs' : Sited(m, sessions')
    BY Kept
<1> QED
    BY <1>1, <1>2, <1>3 DEF TypeInv

\* Sessions that a step leaves alone.
LEMMA SameSessions ==
    ASSUME TypeInv, UNCHANGED sessions
    PROVE  sessions' \in SessionsType /\ Grown /\ Level
<1>1. \A t \in Task : Len(sessions[t]) \in Nat
    BY Lengths
<1> QED
    BY <1>1 DEF TypeInv, TypeOK, SessionsType, Grown, Level

\* Nothing changes but the handler, and messages that are taken.
LEMMA OnlyHandler ==
    ASSUME TypeInv, NEW h \in Handler, NEW w \in HandlerRow, Become(h, w), Placed(w, sessions),
           UNCHANGED rowVars, msgs' \subseteq msgs, requests' \in Nat, crashes' \in Nat
    PROVE  TypeInv'
<1>1. UNCHANGED <<task, assignment, sessions, duty, overdue>>
    BY DEF rowVars
<1>2. sessions' \in SessionsType /\ Grown /\ Placed(w, sessions')
    BY <1>1, SameSessions
<1>3. msgs' \subseteq Message
    BY DEF TypeInv, TypeOK
<1>4. /\ task' \in [Task -> TaskRow] /\ assignment' \in [Task -> AssignmentRow]
      /\ duty' \in [Provider -> DutyStatus] /\ overdue' \subseteq Task
    BY <1>1 DEF TypeInv, TypeOK
<1> QED
    BY <1>2, <1>3, <1>4, Moves

LEMMA Bounds ==
    ASSUME TypeInv, UNCHANGED boundVars
    PROVE  requests' \in Nat /\ crashes' \in Nat
BY DEF TypeInv, TypeOK, boundVars

-----------------------------------------------------------------------------
(***************************************************************************)
(* Saving a task.                                                          *)
(***************************************************************************)
LEMMA SavedRow ==
    ASSUME NEW row \in TaskRow, NEW old \in TaskRow, NEW new \in TaskRow
    PROVE  /\ Saved(row, old, new) \in TaskRow
           /\ new.auto = old.auto => Saved(row, old, new).auto = row.auto
           /\ Saved(row, old, new).status \in {row.status, new.status}
BY DEF Saved, TaskRow

LEMMA Saves ==
    ASSUME TypeInv, NEW h \in Handler, ~At(h, "idle"), NEW new \in TaskRow, SaveTask(h, new)
    PROVE  /\ task' \in [Task -> TaskRow]
           /\ overdue' \subseteq Task
<1>1. handler[h].task \in Task /\ handler[h].row \in TaskRow
    BY DEF TypeInv, TypeOK, At, Placed, HandlerRow
<1>2. Saved(task[handler[h].task], handler[h].row, new) \in TaskRow
    BY <1>1, SavedRow DEF TypeInv, TypeOK
<1>3. task' = [task EXCEPT ![handler[h].task] = Saved(@, handler[h].row, new)]
    BY DEF SaveTask, JobOf
<1> QED
    BY <1>1, <1>2, <1>3 DEF SaveTask, TypeInv, TypeOK

\* What is saved in place of a row.
LEMMA NewRows ==
    ASSUME NEW row \in TaskRow
    PROVE  /\ [row EXCEPT !.status = "OPEN"] \in TaskRow
           /\ [row EXCEPT !.dispatch = "RETRY_SCHEDULED"] \in TaskRow
           /\ [row EXCEPT !.dispatch = "DISPATCHING"] \in TaskRow
           /\ Dispatched(row) \in TaskRow
           /\ Retried(row) \in TaskRow
           /\ Reopened(row) \in TaskRow
           /\ Exhausted(row) \in TaskRow
<1>1. /\ "OPEN" \in TaskStatus /\ "SEARCHING" \in TaskStatus /\ "ASSIGNED" \in TaskStatus
      /\ "NO_MATCH" \in TaskStatus /\ "RETRY_SCHEDULED" \in TaskDispatchStatus
      /\ "DISPATCHING" \in TaskDispatchStatus /\ "MATCHED" \in TaskDispatchStatus
      /\ "AUTO_EXHAUSTED" \in TaskDispatchStatus
    BY DEF TaskStatus, TaskDispatchStatus
<1>2. /\ [row EXCEPT !.status = "OPEN"] \in TaskRow
      /\ [row EXCEPT !.dispatch = "RETRY_SCHEDULED"] \in TaskRow
      /\ [row EXCEPT !.dispatch = "DISPATCHING"] \in TaskRow
    BY <1>1 DEF TaskRow
<1>3. Dispatched(row) \in TaskRow
    BY <1>1 DEF TaskRow, Dispatched
<1>4. Retried(row) \in TaskRow
    BY <1>3 DEF TaskRow, Retried
<1>5. Reopened(row) \in TaskRow
    BY <1>3 DEF TaskRow, Reopened
<1>6. Exhausted(row) \in TaskRow
    BY <1>1 DEF TaskRow, Exhausted
<1> QED
    BY <1>2, <1>3, <1>4, <1>5, <1>6

LEMMA AnyMatched ==
    ASSUME NEW row \in TaskRow, NEW v \in Provider \cup {NoProvider}
    PROVE  Matched(row, v) \in TaskRow
BY DEF Matched, TaskRow, TaskStatus, TaskDispatchStatus

\* A handler at work, with its row.
LEMMA Working ==
    ASSUME TypeInv, NEW h \in Handler, ~At(h, "idle")
    PROVE  /\ handler[h] \in HandlerRow
           /\ handler[h].task \in Task
           /\ handler[h].row \in TaskRow
           /\ handler[h].pc \in Indexed => handler[h].seq \in 1 .. Len(sessions[handler[h].task])
BY DEF TypeInv, TypeOK, At, Placed, HandlerRow

\* The rows that Goto, Finish and Continue leave.
LEMMA Goes ==
    ASSUME TypeInv, NEW h \in Handler, ~At(h, "idle"), NEW l \in Label, Goto(h, l)
    PROVE  \E w \in HandlerRow : Become(h, w) /\ w.pc = l /\ w.task = handler[h].task
                                 /\ w.seq = handler[h].seq /\ w.row = handler[h].row
<1>1. PICK w : w = [handler[h] EXCEPT !.pc = l]
    OBVIOUS
<1>2. w \in HandlerRow /\ w.pc = l /\ w.task = handler[h].task
      /\ w.seq = handler[h].seq /\ w.row = handler[h].row
    BY <1>1, Working DEF HandlerRow
<1> QED
    BY <1>1, <1>2 DEF Goto

LEMMA Continues ==
    ASSUME TypeInv, NEW h \in Handler, ~At(h, "idle"), NEW l \in Label, Continue(h, l)
    PROVE  \E w \in HandlerRow : Become(h, w) /\ w.pc = l /\ w.task = handler[h].task
                                 /\ w.seq = handler[h].seq /\ w.row = Draft
<1>1. PICK w : w = [Idle EXCEPT !.pc = l, !.task = handler[h].task, !.seq = handler[h].seq]
    OBVIOUS
<1>2. handler[h].task \in Task /\ handler[h].seq \in Nat
    BY Working DEF HandlerRow
<1>3. Idle.row = Draft
    BY DEF Idle
<1>4. w \in HandlerRow /\ w.pc = l /\ w.task = handler[h].task /\ w.seq = handler[h].seq
    BY <1>1, <1>2, Defaults DEF HandlerRow
<1>5. w.row = Draft
    BY <1>1, <1>3, Defaults DEF HandlerRow
<1> QED
    BY <1>1, <1>4, <1>5 DEF Continue

\* Finishing.
LEMMA Finishes ==
    ASSUME TypeInv, NEW h \in Handler, Finish(h)
    PROVE  Become(h, Idle) /\ Idle \in HandlerRow /\ \A ss : Placed(Idle, ss)
BY Defaults, Indexing DEF Finish, Placed

-----------------------------------------------------------------------------
(***************************************************************************)
(* One lemma per group of steps.                                           *)
(***************************************************************************)
LEMMA RequestTypes ==
    ASSUME TypeInv, NEW h \in Handler, NEW t \in Task,
           BeginConfirm(h, t) \/ ManualRedispatch(h, t) \/ RevokeAssignment(h, t)
    PROVE  TypeInv'
<1>0. /\ task \in [Task -> TaskRow] /\ assignment \in [Task -> AssignmentRow]
      /\ duty \in [Provider -> DutyStatus] /\ overdue \subseteq Task /\ msgs \subseteq Message
      /\ requests \in Nat /\ crashes \in Nat
    BY DEF TypeInv, TypeOK
<1>1. CASE BeginConfirm(h, t)
  <2>1. PICK w : w = [Idle EXCEPT !.pc = "confirm", !.task = t, !.row = task[t]] /\ Become(h, w)
    BY <1>1 DEF BeginConfirm
  <2>2. w \in HandlerRow
    BY <1>0, <2>1, Defaults, Labels DEF HandlerRow
  <2>3. w.pc = "confirm" /\ w.task = t
    BY <2>1, Defaults DEF HandlerRow
  <2>4. Placed(w, sessions)
    BY <2>3, Indexing DEF Placed
  <2>5. UNCHANGED rowVars /\ msgs' = msgs /\ requests' \in Nat /\ crashes' \in Nat
    BY <1>0, <1>1 DEF BeginConfirm
  <2> QED
    BY <2>1, <2>2, <2>4, <2>5, OnlyHandler
<1>2. CASE ManualRedispatch(h, t)
  <2>1. PICK w : w = [Idle EXCEPT !.pc = "sequence", !.task = t] /\ Become(h, w)
    BY <1>2 DEF ManualRedispatch
  <2>2. w \in HandlerRow
    BY <2>1, Defaults, Labels DEF HandlerRow
  <2>3. w.pc = "sequence" /\ w.task = t
    BY <2>1, Defaults DEF HandlerRow
  <2>4. sessions' \in SessionsType /\ Grown /\ \A ss : Placed(w, ss)
    BY <1>2, <2>3, SameSessions, Indexing DEF ManualRedispatch, Placed
  <2>5. task' \in [Task -> TaskRow]
    BY <1>0, <1>2, NewRows DEF ManualRedispatch
  <2>6. /\ assignment' = assignment /\ duty' = duty /\ overdue' \subseteq Task /\ msgs' = msgs
        /\ requests' \in Nat /\ crashes' = crashes
    BY <1>0, <1>2 DEF ManualRedispatch
  <2> QED
    BY <1>0, <2>1, <2>2, <2>4, <2>5, <2>6, Moves
<1>3. CASE RevokeAssignment(h, t)
  <2>1. PICK w : /\ w = [Idle EXCEPT !.pc = "reopen", !.task = t, !.row = task[t],
                                     !.provider = assignment[t].provider]
                 /\ Become(h, w)
    BY <1>3 DEF RevokeAssignment
  <2>2. assignment[t].provider \in Provider \cup {NoProvider}
    BY <1>0 DEF AssignmentRow
  <2>3. w \in HandlerRow
    BY <1>0, <2>1, <2>2, Defaults, Labels DEF HandlerRow
  <2>4. w.pc = "reopen" /\ w.task = t
    BY <2>1, Defaults DEF HandlerRow
  <2>5. sessions' \in SessionsType /\ Grown /\ \A ss : Placed(w, ss)
    BY <1>3, <2>4, SameSessions, Indexing DEF RevokeAssignment, Placed
  <2>6. assignment' \in [Task -> AssignmentRow]
    BY <1>0, <1>3 DEF RevokeAssignment, AssignmentRow
  <2>7. /\ task' = task /\ duty' = duty /\ overdue' = overdue /\ msgs' = msgs
        /\ requests' \in Nat /\ crashes' = crashes
    BY <1>0, <1>3 DEF RevokeAssignment
  <2> QED
    BY <1>0, <2>1, <2>3, <2>5, <2>6, <2>7, Moves
<1> QED
    BY <1>1, <1>2, <1>3

\* A handler that saves its task and nothing else, and goes on.
LEMMA SaveTypes ==
    ASSUME TypeInv, NEW h \in Handler, ~At(h, "idle"), NEW new \in TaskRow, SaveTask(h, new),
           NEW w \in HandlerRow, Become(h, w), Placed(w, sessions),
           UNCHANGED <<assignment, sessions, msgs, boundVars>>, duty' \in [Provider -> DutyStatus]
    PROVE  TypeInv'
<1>1. sessions' \in SessionsType /\ Grown /\ sessions' = sessions
    BY SameSessions
<1>2. Placed(w, sessions')
    BY <1>1
<1>3. task' \in [Task -> TaskRow] /\ overdue' \subseteq Task
    BY Saves
<1>4. /\ assignment' \in [Task -> AssignmentRow] /\ msgs' \subseteq Message /\ msgs' = msgs
      /\ requests' \in Nat /\ crashes' \in Nat
    BY DEF TypeInv, TypeOK, boundVars
<1> QED
    BY <1>1, <1>2, <1>3, <1>4, Moves

LEMMA BeginningTypes ==
    ASSUME TypeInv, NEW h \in Handler, BeginningStep(h)
    PROVE  TypeInv'
<1>0. /\ task \in [Task -> TaskRow] /\ duty \in [Provider -> DutyStatus] /\ msgs \subseteq Message
      /\ handler[h] \in HandlerRow /\ Placed(handler[h], sessions)
      /\ requests \in Nat /\ crashes \in Nat
    BY DEF TypeInv, TypeOK
<1>1. CASE ConfirmDraft(h)
  <2>1. ~At(h, "idle") /\ Goto(h, "reload")
    BY <1>1 DEF ConfirmDraft, At
  <2>2. PICK w \in HandlerRow : Become(h, w) /\ w.pc = "reload" /\ w.task = handler[h].task
    BY <2>1, Goes, Labels
  <2>3. Placed(w, sessions)
    BY <2>1, <2>2, Working, Indexing DEF Placed
  <2>4. PICK new \in TaskRow : SaveTask(h, new)
    BY <1>1, <2>1, Working, NewRows DEF ConfirmDraft
  <2> QED
    BY <1>0, <1>1, <2>1, <2>2, <2>3, <2>4, SaveTypes DEF ConfirmDraft
<1>2. CASE ReloadTask(h)
  <2>1. ~At(h, "idle")
    BY <1>2 DEF ReloadTask, At
  <2>2. PICK w : w = [handler[h] EXCEPT !.pc = "start", !.row = task[handler[h].task]] /\ Become(h, w)
    BY <1>2 DEF ReloadTask, JobOf
  <2>3. task[handler[h].task] \in TaskRow
    BY <1>0, <2>1, Working
  <2>4. w \in HandlerRow /\ w.pc = "start" /\ w.task = handler[h].task
    BY <1>0, <2>2, <2>3, Labels DEF HandlerRow
  <2>5. Placed(w, sessions)
    BY <2>1, <2>4, Working, Indexing DEF Placed
  <2> QED
    BY <1>0, <1>2, <2>2, <2>4, <2>5, OnlyHandler DEF ReloadTask, boundVars
<1>3. CASE StartInitialDispatch(h)
  <2>1. ~At(h, "idle") /\ Continue(h, "sequence")
    BY <1>3 DEF StartInitialDispatch, At
  <2>2. PICK w \in HandlerRow : Become(h, w) /\ w.pc = "sequence" /\ w.task = handler[h].task
    BY <2>1, Continues, Labels
  <2>3. Placed(w, sessions)
    BY <2>1, <2>2, Working, Indexing DEF Placed
  <2>4. PICK new \in TaskRow : SaveTask(h, new)
    BY <1>3, <2>1, Working, NewRows DEF StartInitialDispatch
  <2> QED
    BY <1>0, <1>3, <2>1, <2>2, <2>3, <2>4, SaveTypes DEF StartInitialDispatch
<1>4. CASE NotEligible(h) \/ InsertCollides(h)
  <2>1. Finish(h) /\ UNCHANGED <<rowVars, msgs, boundVars>>
    BY <1>4 DEF NotEligible, InsertCollides
  <2> QED
    BY <1>0, <2>1, Finishes, OnlyHandler DEF boundVars
<1>5. CASE ReopenTask(h)
  <2>1. ~At(h, "idle") /\ Continue(h, "sequence")
    BY <1>5 DEF ReopenTask, At
  <2>2. PICK w \in HandlerRow : Become(h, w) /\ w.pc = "sequence" /\ w.task = handler[h].task
    BY <2>1, Continues, Labels
  <2>3. Placed(w, sessions)
    BY <2>1, <2>2, Working, Indexing DEF Placed
  <2>4. PICK new \in TaskRow : SaveTask(h, new)
    BY <1>5, <2>1, Working, NewRows DEF ReopenTask
  <2>5. duty' \in [Provider -> DutyStatus]
    BY <1>0, <1>5 DEF ReopenTask, DutyStatus
  <2> QED
    BY <1>5, <2>1, <2>2, <2>3, <2>4, <2>5, SaveTypes DEF ReopenTask
<1>6. CASE GetNextSequence(h)
  <2>1. ~At(h, "idle")
    BY <1>6 DEF GetNextSequence, At
  <2>2. PICK n : n = Len(sessions[handler[h].task]) + 1
    OBVIOUS
  <2>3. n \in Nat
    BY <2>1, <2>2, Working, Lengths
  <2>4. PICK w : w = [handler[h] EXCEPT !.pc = "insert", !.seq = n] /\ Become(h, w)
    BY <1>6, <2>2 DEF GetNextSequence, JobOf
  <2>5. w \in HandlerRow /\ w.pc = "insert" /\ w.task = handler[h].task
    BY <1>0, <2>3, <2>4, Labels DEF HandlerRow
  <2>6. Placed(w, sessions)
    BY <2>1, <2>5, Working, Indexing DEF Placed
  <2> QED
    BY <1>0, <1>6, <2>4, <2>5, <2>6, OnlyHandler DEF GetNextSequence, boundVars
<1>7. CASE InsertSession(h)
  <2>1. ~At(h, "idle") /\ Goto(h, "send")
    BY <1>7 DEF InsertSession, At
  <2>2. PICK w \in HandlerRow : Become(h, w) /\ w.pc = "send" /\ w.task = handler[h].task
                                /\ w.seq = handler[h].seq
    BY <2>1, Goes, Labels
  <2>3. PICK t \in Task : t = handler[h].task
    BY <2>1, Working
  <2>4. sessions' = [sessions EXCEPT ![t] = Append(@, NewSession)] /\ handler[h].seq = Len(sessions[t]) + 1
    BY <1>7, <2>3 DEF InsertSession, JobOf
  <2>5. Append(sessions[t], NewSession) \in Seq(DispatchSession)
        /\ Len(Append(sessions[t], NewSession)) = Len(sessions[t]) + 1
    BY <2>3, Lengths, Defaults
  <2>6. sessions' \in SessionsType
    BY <2>4, <2>5 DEF TypeInv, TypeOK, SessionsType
  <2>7. sessions'[t] = Append(sessions[t], NewSession) /\ \A u \in Task \ {t} : sessions'[u] = sessions[u]
    BY <2>4 DEF TypeInv, TypeOK
  <2>8. Grown
    BY <2>5, <2>7, Lengths DEF Grown
  <2>9. Placed(w, sessions')
    BY <2>2, <2>3, <2>4, <2>5, <2>7, Lengths DEF Placed
  <2>10. UNCHANGED <<task, assignment, duty, overdue, msgs, requests, crashes>>
    BY <1>7 DEF InsertSession, boundVars
  <2> QED
    BY <2>2, <2>6, <2>8, <2>9, <2>10, Moves DEF TypeInv, TypeOK
<1>8. CASE SendMatch(h)
  <2>1. ~At(h, "idle") /\ Finish(h) /\ handler[h].pc = "send"
    BY <1>8 DEF SendMatch, At
  <2>2. PICK m : m = [kind |-> "match", task |-> handler[h].task, seq |-> handler[h].seq,
                      cands |-> {}, last |-> FALSE]
    OBVIOUS
  <2>3. msgs' = msgs \cup {m} /\ UNCHANGED <<rowVars, boundVars>>
    BY <1>8, <2>2 DEF SendMatch, JobOf
  <2>4. m \in Message /\ Sited(m, sessions)
    BY <2>1, <2>2, Working, Indexing DEF Message, Sited, HandlerRow
  <2> QED
    BY <2>1, <2>3, <2>4, Finishes, SameSessions, Moves DEF rowVars, boundVars, TypeInv, TypeOK
<1> QED
    BY <1>1, <1>2, <1>3, <1>4, <1>5, <1>6, <1>7, <1>8 DEF BeginningStep

\* The status of a session or an offer that is overwritten.
LEMMA Overwritten ==
    ASSUME TypeInv, NEW t \in Task, NEW i \in 1 .. Len(sessions[t]), NEW row \in DispatchSession,
           sessions' = [sessions EXCEPT ![t] = [@ EXCEPT ![i] = row]]
    PROVE  sessions' \in SessionsType /\ Grown /\ Level
<1>1. PICK s \in Seq(DispatchSession) : s = sessions[t]
    BY Lengths
<1>2. [s EXCEPT ![i] = row] \in Seq(DispatchSession) /\ Len([s EXCEPT ![i] = row]) = Len(s)
    BY <1>1, ExceptSeq
<1>3. sessions' = [sessions EXCEPT ![t] = [s EXCEPT ![i] = row]]
    BY <1>1
<1>4. sessions' \in SessionsType
    BY <1>2, <1>3 DEF TypeInv, TypeOK, SessionsType
<1>5. \A u \in Task : Len(sessions'[u]) = Len(sessions[u])
    BY <1>1, <1>2, <1>3 DEF TypeInv, TypeOK
<1> QED
    BY <1>4, <1>5, Lengths DEF Grown, Level

LEMMA SessionRows ==
    ASSUME NEW row \in DispatchSession
    PROVE  /\ \A s \in DispatchSessionStatus : [row EXCEPT !.status = s] \in DispatchSession
           /\ \A v, o : o \in DispatchAttemptStatus => [row EXCEPT !.offer[v] = o] \in DispatchSession
           /\ TimedOut(row) \in DispatchSession
           /\ Closed(row) \in DispatchSession
<1>0. "TIMEOUT" \in DispatchAttemptStatus /\ "CANCELLED" \in DispatchAttemptStatus
      /\ "ASSIGNED" \in DispatchSessionStatus
    BY DEF DispatchAttemptStatus, DispatchSessionStatus
<1>1. \A s \in DispatchSessionStatus : [row EXCEPT !.status = s] \in DispatchSession
    BY DEF DispatchSession
<1>2. \A v, o : o \in DispatchAttemptStatus => [row EXCEPT !.offer[v] = o] \in DispatchSession
    BY DEF DispatchSession
<1>3. TimedOut(row) \in DispatchSession
    BY <1>0 DEF DispatchSession, TimedOut
<1>4. Closed(row) \in DispatchSession
    BY <1>0 DEF DispatchSession, Closed
<1> QED
    BY <1>1, <1>2, <1>3, <1>4

\* handle_no_match saves the status of a session that it has not changed yet.
LEMMA SavesSession ==
    ASSUME TypeInv, NEW h \in Handler, handler[h].pc \in Indexed, NEW s \in DispatchSessionStatus,
           sessions' = SaveSession(h, s)
    PROVE  sessions' \in SessionsType /\ Grown /\ Level
<1>0. ~At(h, "idle") /\ handler[h].pc \in Indexed
    BY Indexing DEF At
<1>1. PICK t \in Task, i \in Nat : t = handler[h].task /\ i = handler[h].seq /\ i \in 1 .. Len(sessions[t])
  <2>1. /\ handler[h].task \in Task /\ handler[h].seq \in Nat
        /\ handler[h].seq \in 1 .. Len(sessions[handler[h].task])
    BY <1>0, Working DEF HandlerRow
  <2> QED
    BY <2>1
<1>2. CASE s = handler[h].ss
    BY <1>2, SameSessions DEF SaveSession
<1>3. CASE s # handler[h].ss
  <2>1. sessions' = [sessions EXCEPT ![t][i].status = s]
    BY <1>1, <1>3 DEF SaveSession, JobOf
  <2>2. PICK row : row = [sessions[t][i] EXCEPT !.status = s]
    OBVIOUS
  <2>3. row \in DispatchSession
    BY <1>1, <2>2, Lengths, SessionRows
  <2>4. sessions' = [sessions EXCEPT ![t] = [@ EXCEPT ![i] = row]]
    BY <2>1, <2>2 DEF TypeInv, TypeOK
  <2>5. i \in 1 .. Len(sessions[t])
    BY <1>1
  <2> QED
    BY <2>3, <2>4, <2>5, Overwritten
<1> QED
    BY <1>2, <1>3

\* An update of all sessions of a task.
LEMMA UpdatesAll ==
    ASSUME TypeInv, NEW t \in Task, NEW s, s \in [1 .. Len(sessions[t]) -> DispatchSession],
           sessions' = [sessions EXCEPT ![t] = s]
    PROVE  sessions' \in SessionsType /\ Grown /\ Level
<1>1. Len(sessions[t]) \in Nat
    BY Lengths
<1>2. s \in Seq(DispatchSession) /\ Len(s) = Len(sessions[t])
    BY <1>1
<1>3. sessions' \in SessionsType
    BY <1>2 DEF TypeInv, TypeOK, SessionsType
<1>4. \A u \in Task : Len(sessions'[u]) = Len(sessions[u])
    BY <1>2 DEF TypeInv, TypeOK
<1> QED
    BY <1>3, <1>4, Lengths DEF Grown, Level

LEMMA Recovers ==
    ASSUME TypeInv, NEW t \in Task, RecoverStaleAttempts(t)
    PROVE  sessions' \in SessionsType /\ Grown /\ Level /\ duty' \in [Provider -> DutyStatus]
<1>1. PICK s : s = [i \in 1 .. Len(sessions[t]) |-> TimedOut(sessions[t][i])]
    OBVIOUS
<1>2. s \in [1 .. Len(sessions[t]) -> DispatchSession]
    BY <1>1, Lengths, SessionRows
<1>3. sessions' = [sessions EXCEPT ![t] = s]
    BY <1>1 DEF RecoverStaleAttempts, TypeInv, TypeOK
<1>4. duty' \in [Provider -> DutyStatus]
    BY DEF RecoverStaleAttempts, Release, TypeInv, TypeOK, DutyStatus
<1> QED
    BY <1>2, <1>3, <1>4, UpdatesAll

LEMMA NoMatchTypes ==
    ASSUME TypeInv, NEW h \in Handler, NoMatchStep(h)
    PROVE  TypeInv'
<1>0. /\ task \in [Task -> TaskRow] /\ assignment \in [Task -> AssignmentRow]
      /\ duty \in [Provider -> DutyStatus] /\ overdue \subseteq Task /\ msgs \subseteq Message
      /\ handler[h] \in HandlerRow /\ requests \in Nat /\ crashes \in Nat
    BY DEF TypeInv, TypeOK
<1>1. CASE FailSession(h)
  <2>1. ~At(h, "idle") /\ handler[h].pc = "fail" /\ handler[h].pc \in Indexed
    BY <1>1, Indexing DEF FailSession, At
  <2>2. "FAILED" \in DispatchSessionStatus
    BY DEF DispatchSessionStatus
  <2>3. sessions' \in SessionsType /\ Grown
    BY <1>1, <2>1, <2>2, SavesSession DEF FailSession
  <2>4. PICK t \in Task, i \in Nat : t = handler[h].task /\ i = handler[h].seq /\ i \in 1 .. Len(sessions[t])
    BY <2>1, Working DEF HandlerRow
  <2>5. i \in 1 .. Len(sessions'[t])
    BY <2>3, <2>4, Lengths, LenProperties DEF Grown, SessionsType
  <2>6. sessions'[t][i].status \in DispatchSessionStatus
    <3>1. sessions'[t] \in Seq(DispatchSession)
      BY <2>3 DEF SessionsType
    <3>2. sessions'[t][i] \in DispatchSession
      BY <2>5, <3>1, ElementOfSeq
    <3> QED
      BY <3>2 DEF DispatchSession
  <2>7. PICK s \in DispatchSessionStatus : s = sessions'[t][i].status
    BY <2>6
  <2>8. PICK w : w = [handler[h] EXCEPT !.pc = "no_match", !.ss = s] /\ Become(h, w)
    BY <1>1, <2>4, <2>7 DEF FailSession, JobOf
  <2>9. w \in HandlerRow /\ w.pc = "no_match" /\ w.task = t /\ w.seq = i
    BY <1>0, <2>4, <2>8, Labels DEF HandlerRow
  <2>10. Placed(w, sessions')
    BY <2>5, <2>9 DEF Placed
  <2>11. UNCHANGED <<task, assignment, duty, overdue, msgs, requests, crashes>>
    BY <1>1 DEF FailSession, boundVars
  <2> QED
    BY <1>0, <2>3, <2>8, <2>9, <2>10, <2>11, Moves
<1>2. CASE ScheduleRetry(h)
  <2>1. ~At(h, "idle") /\ Finish(h)
    BY <1>2 DEF ScheduleRetry, At
  <2>2. PICK new \in TaskRow : SaveTask(h, new)
    BY <1>2, <2>1, Working, NewRows DEF ScheduleRetry
  <2> QED
    BY <1>0, <1>2, <2>1, <2>2, Finishes, SaveTypes DEF ScheduleRetry
<1>3. CASE ExhaustTask(h)
  <2>1. ~At(h, "idle") /\ handler[h].pc \in Indexed
    BY <1>3, Indexing DEF ExhaustTask, At
  <2>2. PICK w : w = [handler[h] EXCEPT !.pc = "exhaust", !.row = Draft] /\ Become(h, w)
    BY <1>3 DEF ExhaustTask
  <2>3. w \in HandlerRow /\ w.pc = "exhaust" /\ w.task = handler[h].task /\ w.seq = handler[h].seq
    BY <1>0, <2>2, Labels, Defaults DEF HandlerRow
  <2>4. Placed(w, sessions)
    BY <2>1, <2>3, Working DEF Placed
  <2>5. PICK new \in TaskRow : SaveTask(h, new)
    BY <1>3, <2>1, Working, NewRows DEF ExhaustTask
  <2> QED
    BY <1>0, <1>3, <2>1, <2>2, <2>3, <2>4, <2>5, SaveTypes DEF ExhaustTask
<1>4. CASE ExhaustSession(h)
  <2>1. handler[h].pc \in Indexed /\ Finish(h)
    BY <1>4, Indexing DEF ExhaustSession, At
  <2>2. "EXHAUSTED" \in DispatchSessionStatus
    BY DEF DispatchSessionStatus
  <2>3. sessions' \in SessionsType /\ Grown
    BY <1>4, <2>1, <2>2, SavesSession DEF ExhaustSession
  <2>4. UNCHANGED <<task, assignment, duty, overdue, msgs, requests, crashes>>
    BY <1>4 DEF ExhaustSession, boundVars
  <2> QED
    BY <1>0, <2>1, <2>3, <2>4, Finishes, Moves
<1> QED
    BY <1>1, <1>2, <1>3, <1>4 DEF NoMatchStep

\* A step about the assignment, the provider or an offer that goes on to l.
LEMMA AnswerMoves ==
    ASSUME TypeInv, NEW h \in Handler, handler[h].pc \in AnswerLabel,
           NEW w \in HandlerRow, Become(h, w), w.task = handler[h].task, w.seq = handler[h].seq,
           assignment' \in [Task -> AssignmentRow], duty' \in [Provider -> DutyStatus],
           sessions' \in SessionsType, Grown, UNCHANGED <<task, overdue, msgs, boundVars>>
    PROVE  TypeInv'
<1>1. handler[h].pc \in Indexed /\ ~At(h, "idle")
    BY Indexing DEF AnswerLabel, At
<1>2. handler[h].task \in Task /\ handler[h].seq \in 1 .. Len(sessions'[handler[h].task])
  <2>1. PICK t \in Task, i \in Nat : t = handler[h].task /\ i = handler[h].seq /\ i \in 1 .. Len(sessions[t])
    BY <1>1, Working DEF HandlerRow
  <2> QED
    BY <2>1, Lengths, LenProperties DEF Grown, SessionsType
<1>3. Placed(w, sessions')
    BY <1>2 DEF Placed
<1>4. /\ task' \in [Task -> TaskRow] /\ overdue' \subseteq Task /\ msgs' \subseteq Message
      /\ msgs' = msgs /\ requests' \in Nat /\ crashes' \in Nat
    BY DEF TypeInv, TypeOK, boundVars
<1> QED
    BY <1>3, <1>4, Moves

LEMMA AnswerTypes ==
    ASSUME TypeInv, NEW h \in Handler, AnswerStep(h)
    PROVE  TypeInv'
<1>0. /\ task \in [Task -> TaskRow] /\ assignment \in [Task -> AssignmentRow]
      /\ duty \in [Provider -> DutyStatus] /\ overdue \subseteq Task /\ msgs \subseteq Message
      /\ handler[h] \in HandlerRow /\ requests \in Nat /\ crashes \in Nat
    BY DEF TypeInv, TypeOK
<1>1. CASE SaveAnswer(h)
  <2>1. handler[h].pc \in AnswerLabel /\ handler[h].pc \in Indexed /\ ~At(h, "idle")
    BY <1>1, Indexing DEF SaveAnswer, At, AnswerLabel
  <2>2. PICK t \in Task, i \in Nat : t = handler[h].task /\ i = handler[h].seq /\ i \in 1 .. Len(sessions[t])
    BY <2>1, Working DEF HandlerRow
  <2>3. PICK o \in DispatchAttemptStatus :
            sessions' = [sessions EXCEPT ![t][i].offer[handler[h].provider] = o]
    BY <1>1, <2>2 DEF SaveAnswer, DispatchAttemptStatus
  <2>4. PICK row : row = [sessions[t][i] EXCEPT !.offer[handler[h].provider] = o]
    OBVIOUS
  <2>5. row \in DispatchSession
    BY <2>2, <2>4, Lengths, SessionRows
  <2>6. sessions' = [sessions EXCEPT ![t] = [@ EXCEPT ![i] = row]]
    BY <2>3, <2>4 DEF TypeInv, TypeOK
  <2>7. sessions' \in SessionsType /\ Grown
    BY <2>2, <2>5, <2>6, Overwritten
  <2>8. PICK l \in Label : Goto(h, l)
    BY <1>1, Labels DEF SaveAnswer
  <2>9. PICK w \in HandlerRow : Become(h, w) /\ w.task = handler[h].task /\ w.seq = handler[h].seq
    BY <2>1, <2>8, Goes
  <2>10. UNCHANGED <<task, assignment, duty, overdue, msgs, boundVars>>
    BY <1>1 DEF SaveAnswer
  <2> QED
    BY <1>0, <2>1, <2>7, <2>9, <2>10, AnswerMoves
<1>2. CASE AssignTask(h)
  <2>1. ~At(h, "idle") /\ handler[h].pc \in Indexed
    BY <1>2, Indexing DEF AssignTask, At
  <2>2. PICK w : /\ w = [handler[h] EXCEPT !.pc = "assignment", !.row = Draft,
                                           !.asg = assignment[handler[h].task]]
                 /\ Become(h, w)
    BY <1>2 DEF AssignTask, JobOf
  <2>3. assignment[handler[h].task] \in AssignmentRow
    BY <1>0, <2>1, Working
  <2>4. w \in HandlerRow /\ w.pc = "assignment" /\ w.task = handler[h].task /\ w.seq = handler[h].seq
    BY <1>0, <2>2, <2>3, Labels, Defaults DEF HandlerRow
  <2>5. Placed(w, sessions)
    BY <2>1, <2>4, Working DEF Placed
  <2>6. Matched(handler[h].row, handler[h].provider) \in TaskRow
    BY <1>0, AnyMatched DEF HandlerRow
  <2>7. SaveTask(h, Matched(handler[h].row, handler[h].provider))
    BY <1>2 DEF AssignTask
  <2> QED
    BY <1>0, <1>2, <2>1, <2>2, <2>4, <2>5, <2>6, <2>7, SaveTypes DEF AssignTask
<1>3. CASE UpdateAssignment(h) \/ InsertAssignment(h)
  <2>1. handler[h].pc \in AnswerLabel
    BY <1>3 DEF UpdateAssignment, InsertAssignment, At, AnswerLabel
  <2>2. PICK w : w = [handler[h] EXCEPT !.pc = "on_task", !.asg = NoAssignment] /\ Become(h, w)
    BY <1>3 DEF UpdateAssignment, InsertAssignment
  <2>3. w \in HandlerRow /\ w.task = handler[h].task /\ w.seq = handler[h].seq
    BY <1>0, <2>2, Labels, Defaults DEF HandlerRow
  <2>4. handler[h].provider \in Provider \cup {NoProvider}
    BY <1>0 DEF HandlerRow
  <2>5. assignment' \in [Task -> AssignmentRow]
    <3>1. CASE UpdateAssignment(h)
      <4>1. PICK t \in Task : t = handler[h].task
        BY <3>1, Working DEF UpdateAssignment, At
      <4>2. PICK v \in Provider \cup {NoProvider}, s \in {"NONE", "ASSIGNED", "CANCELLED"} :
                assignment' = [assignment EXCEPT ![t].provider = v, ![t].status = s]
        BY <1>0, <2>4, <3>1, <4>1 DEF UpdateAssignment, AssignmentRow
      <4> QED
        BY <1>0, <4>2 DEF AssignmentRow
    <3>2. CASE InsertAssignment(h)
      BY <1>0, <2>4, <3>2 DEF InsertAssignment, JobOf, AssignmentRow
    <3> QED
      BY <1>3, <3>1, <3>2
  <2>6. UNCHANGED <<task, sessions, duty, overdue, msgs, boundVars>>
    BY <1>3 DEF UpdateAssignment, InsertAssignment
  <2> QED
    BY <1>0, <2>1, <2>2, <2>3, <2>5, <2>6, SameSessions, AnswerMoves
<1>4. CASE InsertAssignmentRaises(h)
  <2>1. Finish(h) /\ UNCHANGED <<rowVars, msgs, boundVars>>
    BY <1>4 DEF InsertAssignmentRaises
  <2> QED
    BY <1>0, <2>1, Finishes, OnlyHandler DEF boundVars
<1>5. CASE SetOnTask(h)
  <2>1. handler[h].pc \in AnswerLabel /\ ~At(h, "idle") /\ Goto(h, "close")
    BY <1>5 DEF SetOnTask, At, AnswerLabel
  <2>2. PICK w \in HandlerRow : Become(h, w) /\ w.task = handler[h].task /\ w.seq = handler[h].seq
    BY <2>1, Goes, Labels
  <2>3. duty' \in [Provider -> DutyStatus]
    BY <1>0, <1>5 DEF SetOnTask, DutyStatus
  <2>4. UNCHANGED <<task, assignment, sessions, overdue, msgs, boundVars>>
    BY <1>5 DEF SetOnTask
  <2> QED
    BY <1>0, <2>1, <2>2, <2>3, <2>4, SameSessions, AnswerMoves
<1>6. CASE CloseSessions(h)
  <2>1. ~At(h, "idle") /\ Finish(h)
    BY <1>6 DEF CloseSessions, At
  <2>2. PICK t \in Task : t = handler[h].task
    BY <2>1, Working
  <2>3. PICK s : s = [i \in 1 .. Len(sessions[t]) |-> Closed(sessions[t][i])]
    OBVIOUS
  <2>4. s \in [1 .. Len(sessions[t]) -> DispatchSession]
    BY <2>3, Lengths, SessionRows
  <2>5. sessions' = [sessions EXCEPT ![t] = s]
    BY <1>6, <2>2, <2>3 DEF CloseSessions, JobOf, TypeInv, TypeOK
  <2>6. sessions' \in SessionsType /\ Grown
    BY <2>4, <2>5, UpdatesAll
  <2>7. UNCHANGED <<task, assignment, duty, overdue, msgs, requests, crashes>>
    BY <1>6 DEF CloseSessions, boundVars
  <2> QED
    BY <1>0, <2>1, <2>6, <2>7, Finishes, Moves
<1>7. CASE ReleaseProvider(h)
  <2>1. handler[h].pc \in AnswerLabel /\ handler[h].pc \in Indexed /\ ~At(h, "idle")
    BY <1>7, Indexing DEF ReleaseProvider, At, AnswerLabel
  <2>2. duty' \in [Provider -> DutyStatus]
    BY <1>0, <1>7 DEF ReleaseProvider, Release, DutyStatus
  <2>3. UNCHANGED <<task, assignment, overdue, msgs, boundVars>>
    BY <1>7 DEF ReleaseProvider
  <2>4. CASE EndsSession(h)
    <3>1. PICK t \in Task, i \in Nat : t = handler[h].task /\ i = handler[h].seq /\ i \in 1 .. Len(sessions[t])
      BY <2>1, Working DEF HandlerRow
    <3>2. PICK row : row = [sessions[t][i] EXCEPT !.status = "FAILED"]
      OBVIOUS
    <3>3. "FAILED" \in DispatchSessionStatus
      BY DEF DispatchSessionStatus
    <3>4. row \in DispatchSession
      BY <3>1, <3>2, <3>3, Lengths, SessionRows
    <3>5. sessions' = [sessions EXCEPT ![t][i].status = "FAILED"]
      BY <1>7, <2>4, <3>1 DEF ReleaseProvider, JobOf
    <3>6. sessions' = [sessions EXCEPT ![t] = [@ EXCEPT ![i] = row]]
      BY <3>2, <3>5 DEF TypeInv, TypeOK
    <3>7. sessions' \in SessionsType /\ Grown
      BY <3>1, <3>4, <3>6, Overwritten
    <3>8. PICK w : /\ w = [handler[h] EXCEPT !.pc = "no_match", !.ss = "FAILED", !.provider = NoProvider]
                   /\ Become(h, w)
      BY <1>7, <2>4 DEF ReleaseProvider
    <3>9. w \in HandlerRow /\ w.task = handler[h].task /\ w.seq = handler[h].seq
      BY <1>0, <3>3, <3>8, Labels DEF HandlerRow
    <3> QED
      BY <1>0, <2>1, <2>2, <2>3, <3>7, <3>8, <3>9, AnswerMoves
  <2>5. CASE ~EndsSession(h)
    <3>1. Finish(h) /\ UNCHANGED sessions
      BY <1>7, <2>5 DEF ReleaseProvider
    <3> QED
      BY <1>0, <2>2, <2>3, <3>1, Finishes, SameSessions, Moves DEF boundVars
  <2> QED
    BY <2>4, <2>5
<1> QED
    BY <1>1, <1>2, <1>3, <1>4, <1>5, <1>6, <1>7 DEF AnswerStep

LEMMA MatchingTypes ==
    ASSUME TypeInv, NEW h \in Handler, MatchingStep(h)
    PROVE  TypeInv'
<1>0. /\ task \in [Task -> TaskRow] /\ assignment \in [Task -> AssignmentRow]
      /\ duty \in [Provider -> DutyStatus] /\ overdue \subseteq Task /\ msgs \subseteq Message
      /\ handler[h] \in HandlerRow /\ requests \in Nat /\ crashes \in Nat
    BY DEF TypeInv, TypeOK
<1>1. CASE NoCandidates(h)
  <2>1. ~At(h, "idle") /\ handler[h].pc \in Indexed /\ Goto(h, "fail")
    BY <1>1, Indexing DEF NoCandidates, At
  <2>2. PICK w \in HandlerRow : Become(h, w) /\ w.pc = "fail" /\ w.task = handler[h].task
                                /\ w.seq = handler[h].seq
    BY <2>1, Goes, Labels
  <2>3. Placed(w, sessions)
    BY <2>1, <2>2, Working DEF Placed
  <2> QED
    BY <1>0, <1>1, <2>2, <2>3, OnlyHandler DEF NoCandidates, boundVars
<1>2. CASE EnqueueBatches(h)
  <2>1. ~At(h, "idle") /\ handler[h].pc \in Indexed /\ Finish(h)
    BY <1>2, Indexing DEF EnqueueBatches, At
  <2>2. PICK t \in Task, k \in Nat : t = handler[h].task /\ k = handler[h].seq /\ k \in 1 .. Len(sessions[t])
    BY <2>1, Working DEF HandlerRow
  <2>3. PICK r \in Rankings(Candidates(h)) :
            msgs' = msgs \cup
                {[kind |-> "batch", task |-> t, seq |-> k,
                  cands |-> {r[i] : i \in DOMAIN r \cap (b.first .. b.first + BatchSize - 1)},
                  last |-> b.last] : b \in Batches(r)}
    BY <1>2, <2>2, ZenonT(60) DEF EnqueueBatches, JobOf
  <2>4. \A i \in DOMAIN r : r[i] \in Provider
    BY ConstantsAssumption, <2>2, <2>3 DEF Rankings, Candidates, JobOf
  <2>5. ASSUME NEW b \in Batches(r)
        PROVE  b.last \in BOOLEAN
    <3>1. PICK first, last : b = [first |-> first, last |-> last] /\ last \in BOOLEAN
      BY DEF Batches
    <3> QED
      BY <3>1
  <2>6. \A b \in Batches(r) :
            [kind |-> "batch", task |-> t, seq |-> k,
             cands |-> {r[i] : i \in DOMAIN r \cap (b.first .. b.first + BatchSize - 1)},
             last |-> b.last] \in Message
    BY <2>2, <2>4, <2>5, Lengths DEF Message
  <2>7. msgs' \subseteq Message
    BY <1>0, <2>3, <2>6
  <2>8. \A m \in msgs' \ msgs : m.task = t /\ m.seq = k
    BY <2>3
  <2>9. \A m \in msgs' \ msgs : Sited(m, sessions)
    BY <2>2, <2>8 DEF Sited
  <2>10. UNCHANGED <<task, assignment, sessions, duty, overdue, requests, crashes>>
    BY <1>2 DEF EnqueueBatches, rowVars, boundVars
  <2> QED
    BY <1>0, <2>1, <2>7, <2>9, <2>10, Finishes, SameSessions, Moves
<1>3. CASE AbandonBatch(h)
  <2>1. Finish(h) /\ UNCHANGED <<rowVars, msgs, boundVars>>
    BY <1>3 DEF AbandonBatch
  <2> QED
    BY <1>0, <2>1, Finishes, OnlyHandler DEF boundVars
<1>4. CASE PingBatch(h)
  <2>1. ~At(h, "idle") /\ handler[h].pc \in Indexed
    BY <1>4, Indexing DEF PingBatch, At
  <2>2. PICK t \in Task, i \in Nat : t = handler[h].task /\ i = handler[h].seq /\ i \in 1 .. Len(sessions[t])
    BY <2>1, Working DEF HandlerRow
  <2>3. PICK won : won = {v \in handler[h].cands : duty[v] \in Claimable}
    OBVIOUS
  <2>4. duty' \in [Provider -> DutyStatus]
    BY <1>0, <1>4 DEF PingBatch, DutyStatus
  <2>5. PICK row : row = [sessions[t][i] EXCEPT !.offer =
                              [v \in Provider |-> IF v \in won THEN "PENDING" ELSE @[v]]]
    OBVIOUS
  <2>6. sessions[t][i] \in DispatchSession
    BY <2>2, Lengths
  <2>7. row \in DispatchSession
    BY <2>5, <2>6 DEF DispatchSession, DispatchAttemptStatus
  <2>8. sessions' = [sessions EXCEPT ![t][i].offer =
                         [v \in Provider |-> IF v \in won THEN "PENDING" ELSE @[v]]]
    BY <1>4, <2>2, <2>3 DEF PingBatch, JobOf
  <2>9. sessions' = [sessions EXCEPT ![t] = [@ EXCEPT ![i] = row]]
    BY <2>5, <2>8 DEF TypeInv, TypeOK
  <2>10. sessions' \in SessionsType /\ Grown
    BY <2>2, <2>7, <2>9, Overwritten
  <2>11. UNCHANGED <<task, assignment, overdue, msgs, requests, crashes>>
    BY <1>4 DEF PingBatch, boundVars
  <2>12. CASE Finish(h)
    BY <1>0, <2>4, <2>10, <2>11, <2>12, Finishes, Moves
  <2>13. CASE Goto(h, "check")
    <3>1. PICK w \in HandlerRow : Become(h, w) /\ w.pc = "check" /\ w.task = t /\ w.seq = i
      BY <2>1, <2>2, <2>13, Goes, Labels
    <3>2. i \in 1 .. Len(sessions'[t])
      BY <2>2, <2>10, Lengths, LenProperties DEF Grown, SessionsType
    <3>3. Placed(w, sessions')
      BY <3>1, <3>2 DEF Placed
    <3> QED
      BY <1>0, <2>4, <2>10, <2>11, <3>1, <3>3, Moves
  <2> QED
    BY <1>4, <2>12, <2>13 DEF PingBatch
<1>5. CASE ScheduleCheck(h)
  <2>1. ~At(h, "idle") /\ handler[h].pc \in Indexed /\ Finish(h)
    BY <1>5, Indexing DEF ScheduleCheck, At
  <2>2. PICK m : m = [kind |-> "check", task |-> handler[h].task, seq |-> handler[h].seq,
                      cands |-> handler[h].cands, last |-> TRUE]
    OBVIOUS
  <2>3. msgs' = msgs \cup {m} /\ UNCHANGED <<rowVars, boundVars>>
    BY <1>5, <2>2 DEF ScheduleCheck, JobOf
  <2>4. m \in Message /\ Sited(m, sessions)
    BY <1>0, <2>1, <2>2, Working DEF Message, Sited, HandlerRow
  <2> QED
    BY <2>1, <2>3, <2>4, Finishes, SameSessions, Moves DEF rowVars, boundVars, TypeInv, TypeOK
<1> QED
    BY <1>1, <1>2, <1>3, <1>4, <1>5 DEF MatchingStep

\* A handler that loads the session of a message.
LEMMA Loads ==
    ASSUME TypeInv, NEW m \in msgs, m.kind # "retry", NEW l \in Label
    PROVE  /\ Loaded(m, l) \in HandlerRow
           /\ Loaded(m, l).pc = l /\ Loaded(m, l).task = m.task
           /\ m.task \in Task /\ Placed(Loaded(m, l), sessions)
<1>1. m.task \in Task /\ m.seq \in 1 .. Len(sessions[m.task]) /\ m.seq \in Nat
    BY DEF TypeInv, TypeOK, Message, Sited
<1>2. sessions[m.task][m.seq] \in DispatchSession /\ task[m.task] \in TaskRow
    BY <1>1, Lengths DEF TypeInv, TypeOK
<1>3. sessions[m.task][m.seq].status \in DispatchSessionStatus
    BY <1>2 DEF DispatchSession
<1>4. Loaded(m, l) \in HandlerRow
    BY <1>1, <1>2, <1>3, Defaults DEF Loaded, HandlerRow
<1>5. Loaded(m, l).pc = l /\ Loaded(m, l).task = m.task /\ Loaded(m, l).seq = m.seq
    BY <1>4, Defaults DEF Loaded, HandlerRow
<1> QED
    BY <1>1, <1>4, <1>5 DEF Placed

\* An automatic retry: the task, and the message that asked for it.
LEMMA RetryTypes ==
    ASSUME TypeInv, NEW h \in Handler, NEW m \in msgs,
           AutoRetry(h, m) \/ AutoRetryExhausted(h, m) \/ AutoRetryTaken(h, m)
    PROVE  TypeInv'
<1>0. /\ task \in [Task -> TaskRow] /\ assignment \in [Task -> AssignmentRow]
      /\ duty \in [Provider -> DutyStatus] /\ overdue \subseteq Task /\ msgs \subseteq Message
      /\ requests \in Nat /\ crashes \in Nat
    BY DEF TypeInv, TypeOK
<1>1. PICK t \in Task : t = m.task
    BY <1>0 DEF Message
<1>2. task[t] \in TaskRow
    BY <1>0
<1>3. CASE AutoRetry(h, m)
  <2>1. PICK w : w = [Idle EXCEPT !.pc = "sequence", !.task = t] /\ Become(h, w)
    BY <1>1, <1>3 DEF AutoRetry
  <2>2. w \in HandlerRow
    BY <2>1, Defaults, Labels DEF HandlerRow
  <2>3. w.pc = "sequence" /\ w.task = t
    BY <2>1, Defaults DEF HandlerRow
  <2>4. UNCHANGED <<assignment, sessions, duty, requests, crashes>>
        /\ overdue' = overdue \ {t} /\ msgs' = msgs \ {m}
    BY <1>1, <1>3 DEF AutoRetry, boundVars
  <2>5. sessions' \in SessionsType /\ Grown /\ Placed(w, sessions')
    BY <2>3, <2>4, SameSessions, Indexing DEF Placed
  <2>6. PICK row \in TaskRow : row = Retried(task[t])
    BY <1>2, NewRows
  <2>7. task' = [task EXCEPT ![t] = row]
    BY <1>1, <1>3, <2>6 DEF AutoRetry
  <2>8. task' \in [Task -> TaskRow]
    BY <1>0, <2>7
  <2> QED
    BY <1>0, <2>1, <2>2, <2>4, <2>5, <2>8, Moves
<1>4. CASE AutoRetryExhausted(h, m)
  <2>1. UNCHANGED <<assignment, sessions, duty, handler, requests, crashes>>
        /\ overdue' = overdue \ {t} /\ msgs' = msgs \ {m}
    BY <1>1, <1>4 DEF AutoRetryExhausted, boundVars
  <2>2. PICK row \in TaskRow : row = Exhausted(task[t])
    BY <1>2, NewRows
  <2>3. task' = [task EXCEPT ![t] = row]
    BY <1>1, <1>4, <2>2 DEF AutoRetryExhausted
  <2>4. task' \in [Task -> TaskRow]
    BY <1>0, <2>3
  <2> QED
    BY <1>0, <2>1, <2>4, SameSessions, Stays
<1>5. CASE AutoRetryTaken(h, m)
  <2>1. UNCHANGED <<task, assignment, sessions, duty, overdue, handler, requests, crashes>>
        /\ msgs' = msgs \ {m}
    BY <1>5 DEF AutoRetryTaken, rowVars, boundVars
  <2> QED
    BY <1>0, <2>1, SameSessions, Stays
<1> QED
    BY <1>3, <1>4, <1>5

\* The messages about a session.
LEMMA SessionMessageTypes ==
    ASSUME TypeInv, NEW h \in Handler, NEW m \in msgs,
           \/ MatchInactive(h, m) \/ RunMatching(h, m) \/ SkipBatch(h, m) \/ RunBatch(h, m)
           \/ CheckExhaustion(h, m) \/ CheckMoot(h, m)
    PROVE  TypeInv'
<1>0. /\ task \in [Task -> TaskRow] /\ assignment \in [Task -> AssignmentRow]
      /\ duty \in [Provider -> DutyStatus] /\ overdue \subseteq Task /\ msgs \subseteq Message
      /\ requests \in Nat /\ crashes \in Nat
    BY DEF TypeInv, TypeOK
<1>1. m.kind # "retry"
    BY DEF MatchInactive, RunMatching, SkipBatch, RunBatch, CheckExhaustion, CheckMoot
<1>2. PICK t \in Task, i \in Nat : t = m.task /\ i = m.seq /\ i \in 1 .. Len(sessions[t])
    BY <1>0, <1>1 DEF TypeInv, Sited, Message
<1>3. "fail" \in Label /\ "fetch" \in Label /\ "ping" \in Label
    BY Labels
<1>4. CASE MatchInactive(h, m) \/ CheckExhaustion(h, m)
  <2>1. Become(h, Loaded(m, "fail")) /\ msgs' = msgs \ {m} /\ UNCHANGED <<rowVars, boundVars>>
    BY <1>4 DEF MatchInactive, CheckExhaustion
  <2> QED
    BY <1>1, <1>3, <2>1, Loads, OnlyHandler, Bounds
<1>5. CASE RunMatching(h, m)
  <2>1. Become(h, Loaded(m, "fetch")) /\ RecoverStaleAttempts(t) /\ msgs' = msgs \ {m}
        /\ UNCHANGED <<task, assignment, overdue, requests, crashes>>
    BY <1>2, <1>5 DEF RunMatching, boundVars
  <2>2. sessions' \in SessionsType /\ Grown /\ duty' \in [Provider -> DutyStatus]
    BY <2>1, Recovers
  <2>3. PICK w \in HandlerRow : w = Loaded(m, "fetch") /\ Placed(w, sessions) /\ w.task \in Task
    BY <1>1, <1>3, Loads
  <2>4. Placed(w, sessions')
    BY <2>2, <2>3, Regrown
  <2> QED
    BY <1>0, <2>1, <2>2, <2>3, <2>4, Moves
<1>6. CASE RunBatch(h, m)
  <2>1. PICK w : /\ w = [Idle EXCEPT !.pc = "ping", !.task = t, !.seq = i,
                                     !.cands = m.cands, !.last = m.last]
                 /\ Become(h, w)
    BY <1>2, <1>6 DEF RunBatch
  <2>2. m.cands \in SUBSET Provider /\ m.last \in BOOLEAN
    BY <1>0 DEF Message
  <2>3. w \in HandlerRow
    BY <1>2, <1>3, <2>1, <2>2, Defaults DEF HandlerRow
  <2>4. w.pc = "ping" /\ w.task = t /\ w.seq = i
    BY <2>1, Defaults DEF HandlerRow
  <2>5. RecoverStaleAttempts(t) /\ msgs' = msgs \ {m}
        /\ UNCHANGED <<task, assignment, overdue, requests, crashes>>
    BY <1>2, <1>6 DEF RunBatch, boundVars
  <2>6. sessions' \in SessionsType /\ Grown /\ duty' \in [Provider -> DutyStatus]
    BY <2>5, Recovers
  <2>7. Placed(w, sessions')
    BY <1>2, <2>3, <2>4, <2>6, Regrown DEF Placed
  <2> QED
    BY <1>0, <2>1, <2>3, <2>5, <2>6, <2>7, Moves
<1>7. CASE SkipBatch(h, m) \/ CheckMoot(h, m)
  <2>1. UNCHANGED <<task, assignment, sessions, duty, overdue, handler, requests, crashes>>
        /\ msgs' = msgs \ {m}
    BY <1>7 DEF SkipBatch, CheckMoot, rowVars, boundVars
  <2> QED
    BY <1>0, <2>1, SameSessions, Stays
<1> QED
    BY <1>4, <1>5, <1>6, <1>7

LEMMA DeliverTypes ==
    ASSUME TypeInv, NEW h \in Handler, NEW m \in msgs, Deliver(h, m)
    PROVE  TypeInv'
BY RetryTypes, SessionMessageTypes DEF Deliver

LEMMA BeginAnswerTypes ==
    ASSUME TypeInv, NEW h \in Handler, NEW t \in Task, NEW v \in Provider, NEW accept \in BOOLEAN,
           NEW i \in 1 .. Len(sessions[t]), BeginAnswer(h, t, v, i, accept)
    PROVE  TypeInv'
<1>0. task \in [Task -> TaskRow] /\ task[t] \in TaskRow
    BY DEF TypeInv, TypeOK
<1>1. i \in Nat
    BY Lengths
<1>2. PICK w : /\ w = [Idle EXCEPT !.pc = "answer", !.task = t, !.row = task[t], !.seq = i,
                                   !.provider = v, !.accept = accept]
               /\ Become(h, w)
    BY DEF BeginAnswer
<1>3. w \in HandlerRow
    BY <1>0, <1>1, <1>2, Defaults, Labels DEF HandlerRow
<1>4. w.pc = "answer" /\ w.task = t /\ w.seq = i
    BY <1>2, Defaults DEF HandlerRow
<1>5. Placed(w, sessions)
    BY <1>4 DEF Placed
<1>6. UNCHANGED rowVars /\ msgs' \subseteq msgs /\ UNCHANGED boundVars
    BY DEF BeginAnswer
<1> QED
    BY <1>2, <1>3, <1>5, <1>6, Bounds, OnlyHandler

LEMMA BeatTypes ==
    ASSUME TypeInv, NEW t \in Task, Beat(t)
    PROVE  TypeInv'
<1>0. /\ task \in [Task -> TaskRow] /\ assignment \in [Task -> AssignmentRow]
      /\ duty \in [Provider -> DutyStatus] /\ overdue \subseteq Task /\ msgs \subseteq Message
      /\ requests \in Nat /\ crashes \in Nat /\ task[t] \in TaskRow
    BY DEF TypeInv, TypeOK
<1>1. CASE ClaimDue(t) \/ ClaimDueDies(t)
  <2>1. /\ task' = [task EXCEPT ![t].dispatch = "DISPATCHING"]
        /\ overdue' = overdue \ {t}
        /\ UNCHANGED <<assignment, sessions, duty, handler, requests>>
    BY <1>1 DEF ClaimDue, ClaimDueDies, Claim
  <2>2. PICK row \in TaskRow : row = [task[t] EXCEPT !.dispatch = "DISPATCHING"]
    BY <1>0, NewRows
  <2>3. task' = [task EXCEPT ![t] = row]
    BY <2>1, <2>2
  <2>4. task' \in [Task -> TaskRow]
    BY <1>0, <2>3
  <2>5. PICK m : m = [kind |-> "retry", task |-> t, seq |-> 0, cands |-> {}, last |-> FALSE]
    OBVIOUS
  <2>6. m \in Message /\ m.kind = "retry"
    BY <2>5 DEF Message
  <2>7. msgs' = msgs \/ msgs' = msgs \cup {m}
    BY <1>1, <2>5 DEF ClaimDue, ClaimDueDies
  <2>8. msgs' \subseteq Message /\ \A n \in msgs' \ msgs : Sited(n, sessions')
    BY <1>0, <2>6, <2>7 DEF Sited
  <2>9. crashes' \in Nat
    BY <1>0, <1>1 DEF ClaimDue, ClaimDueDies
  <2> QED
    BY <1>0, <2>1, <2>4, <2>8, <2>9, SameSessions, Stays
<1>2. CASE RecoverStale(t)
  <2>1. PICK row \in TaskRow : row = [task[t] EXCEPT !.dispatch = "RETRY_SCHEDULED"]
    BY <1>0, NewRows
  <2>2. task' = [task EXCEPT ![t] = row]
    BY <1>2, <2>1 DEF RecoverStale
  <2>3. task' \in [Task -> TaskRow]
    BY <1>0, <2>2
  <2>4. UNCHANGED <<assignment, sessions, duty, overdue, msgs, handler, requests, crashes>>
    BY <1>2 DEF RecoverStale, boundVars
  <2> QED
    BY <1>0, <2>3, <2>4, SameSessions, Stays
<1> QED
    BY <1>1, <1>2 DEF Beat

LEMMA ClockTypes ==
    ASSUME TypeInv, NEW t \in Task, Clock(t)
    PROVE  TypeInv'
<1>0. /\ task \in [Task -> TaskRow] /\ assignment \in [Task -> AssignmentRow]
      /\ duty \in [Provider -> DutyStatus] /\ overdue \subseteq Task /\ msgs \subseteq Message
      /\ requests \in Nat /\ crashes \in Nat
    BY DEF TypeInv, TypeOK
<1>1. CASE RetryFallsDue(t) \/ ClaimGoesStale(t)
  <2>1. UNCHANGED <<task, assignment, sessions, duty, msgs, handler, requests, crashes>>
        /\ overdue' = overdue \cup {t}
    BY <1>1 DEF RetryFallsDue, ClaimGoesStale, boundVars
  <2> QED
    BY <1>0, <2>1, SameSessions, Stays
<1>2. CASE Expiry(t)
  <2>1. PICK v \in Provider : \E i \in 1 .. Len(sessions[t]) : OfferExpires(t, v, i)
    BY <1>2 DEF Expiry
  <2>2. PICK i \in 1 .. Len(sessions[t]) : OfferExpires(t, v, i)
    BY <2>1
  <2>3. PICK row : row = [sessions[t][i] EXCEPT !.offer[v] = "LAPSED"]
    OBVIOUS
  <2>4. "LAPSED" \in DispatchAttemptStatus
    BY DEF DispatchAttemptStatus
  <2>5. row \in DispatchSession
    BY <2>2, <2>3, <2>4, Lengths, SessionRows
  <2>6. sessions' = [sessions EXCEPT ![t] = [@ EXCEPT ![i] = row]]
    BY <2>2, <2>3 DEF OfferExpires, TypeInv, TypeOK
  <2>7. sessions' \in SessionsType /\ Grown
    BY <2>2, <2>5, <2>6, Overwritten
  <2>8. UNCHANGED <<task, assignment, duty, overdue, msgs, handler, requests, crashes>>
    BY <2>2 DEF OfferExpires, boundVars
  <2> QED
    BY <1>0, <2>7, <2>8, Stays
<1> QED
    BY <1>1, <1>2 DEF Clock

LEMMA CrashTypes ==
    ASSUME TypeInv, NEW h \in Handler, Crash(h)
    PROVE  TypeInv'
<1>1. Finish(h) /\ UNCHANGED <<rowVars, msgs, requests>> /\ crashes' = crashes + 1
    BY DEF Crash
<1>2. requests' \in Nat /\ crashes' \in Nat
    BY <1>1 DEF TypeInv, TypeOK
<1> QED
    BY <1>1, <1>2, Finishes, OnlyHandler

-----------------------------------------------------------------------------
LEMMA TypeInit == Init => TypeInv
<1> SUFFICES ASSUME Init
             PROVE  TypeInv
    OBVIOUS
<1>1. \A h \in Handler : handler[h] = Idle
    BY DEF Init
<1>2. handler \in [Handler -> HandlerRow] /\ \A h \in Handler : Placed(handler[h], sessions)
    BY <1>1, Defaults, Indexing DEF Init, Placed
<1>3. task \in [Task -> TaskRow] /\ assignment \in [Task -> AssignmentRow]
    BY Defaults DEF Init
<1>4. sessions \in [Task -> Seq(DispatchSession)]
    BY DEF Init
<1>5. duty \in [Provider -> DutyStatus]
    BY DEF Init, DutyStatus
<1> QED
    BY <1>2, <1>3, <1>4, <1>5 DEF Init, TypeInv, TypeOK

LEMMA TypeNext == TypeInv /\ [Next]_vars => TypeInv'
<1> SUFFICES ASSUME TypeInv, [Next]_vars
             PROVE  TypeInv'
    OBVIOUS
<1>1. CASE UNCHANGED vars
    BY <1>1 DEF vars, TypeInv, TypeOK, Sited, Placed
<1>2. ASSUME NEW h \in Handler, HandlerStep(h)
      PROVE  TypeInv'
    BY <1>2, BeginningTypes, NoMatchTypes, AnswerTypes, MatchingTypes DEF HandlerStep
<1>3. ASSUME NEW h \in Handler, HandlerStart(h)
      PROVE  TypeInv'
  <2>1. CASE \E m \in msgs : Deliver(h, m)
    BY <2>1, DeliverTypes
  <2>2. CASE \E t \in Task : BeginConfirm(h, t) \/ ManualRedispatch(h, t) \/ RevokeAssignment(h, t)
    BY <2>2, RequestTypes
  <2>3. CASE Answers(h)
    BY <2>3, BeginAnswerTypes DEF Answers
  <2> QED
    BY <1>3, <2>1, <2>2, <2>3 DEF HandlerStart
<1>4. ASSUME NEW t \in Task, Beat(t) \/ Clock(t)
      PROVE  TypeInv'
    BY <1>4, BeatTypes, ClockTypes
<1> QED
    BY <1>1, <1>2, <1>3, <1>4, CrashTypes DEF Next

\* Every reachable state keeps its types, a handler at work has a task, and
\* sessions that handlers and messages refer to exist.
THEOREM Typing == Spec => []TypeInv
BY TypeInit, TypeNext, PTL DEF Spec

\* What handlers write back from rows they loaded earlier, over rows that
\* others have changed since, and what they append to or overwrite in the
\* sessions of a task, keeps its type.
THEOREM DispatchTypeCorrect == Spec => []TypeOK
<1>1. TypeInv => TypeOK
    BY DEF TypeInv
<1> QED
    BY <1>1, Typing, PTL

-----------------------------------------------------------------------------

Starting == {"confirm", "reload", "start", "reopen", "sequence", "insert"}

\* The handlers that may still insert a session of t.
Starters(t) == {h \in Handler : handler[h].task = t /\ handler[h].pc \in Starting}

(***************************************************************************)
(* RetriesBounded and NoMatchIsLast are not inductive.  A handler gives a  *)
(* task up by the retries of the row it has loaded, which is stale: those  *)
(* of the stored row are no fewer (Behind).  The sessions are counted with *)
(* those that handlers are about to insert (Room).                         *)
(***************************************************************************)
Behind ==
    \A h \in Handler : handler[h].pc # "idle" => handler[h].row.auto <= task[handler[h].task].auto

Limited == \A t \in Task : task[t].auto <= AutoMax

Room == \A t \in Task : Len(sessions[t]) + Cardinality(Starters(t)) <= requests + task[t].auto

RetryInv == TypeInv /\ Behind /\ Limited /\ NoMatchIsLast /\ Room

(***************************************************************************)
(* Most steps leave the counters alone: no handler starts to begin a       *)
(* session, none loads a row of more retries than the stored one has, and  *)
(* no task is given up that has retries left.                              *)
(***************************************************************************)
StillStarting ==
    \A g \in Handler : handler'[g].pc \in Starting =>
        handler[g].pc \in Starting /\ handler'[g].task = handler[g].task
StillBehind ==
    \A g \in Handler : handler'[g].pc # "idle" => handler'[g].row.auto <= task[handler'[g].task].auto
SameRetries ==
    \A t \in Task :
        /\ task'[t].auto = task[t].auto
        /\ task'[t].status = "NO_MATCH" => task[t].status = "NO_MATCH" \/ task[t].auto = AutoMax

Steady == StillStarting /\ StillBehind /\ SameRetries /\ Level /\ requests' = requests

-----------------------------------------------------------------------------
\* The numbers that are compared.
LEMMA Numbers ==
    ASSUME TypeInv
    PROVE  /\ requests \in Nat /\ AutoMax \in Nat
           /\ \A t \in Task : /\ task[t].auto \in Nat /\ Len(sessions[t]) \in Nat
                              /\ IsFiniteSet(Starters(t)) /\ Cardinality(Starters(t)) \in Nat
           /\ \A h \in Handler : /\ handler[h].row.auto \in Nat
                                 /\ handler[h].pc # "idle" => handler[h].task \in Task
<1>1. requests \in Nat /\ AutoMax \in Nat
    BY ConstantsAssumption DEF TypeInv, TypeOK
<1>2. \A t \in Task : task[t].auto \in Nat /\ Len(sessions[t]) \in Nat
    BY Lengths DEF TypeInv, TypeOK, TaskRow
<1>3. ASSUME NEW t \in Task
      PROVE  IsFiniteSet(Starters(t)) /\ Cardinality(Starters(t)) \in Nat
  <2>1. Starters(t) \subseteq Handler
    BY DEF Starters
  <2>2. IsFiniteSet(Starters(t))
    BY <2>1, ConstantsAssumption, FS_Subset
  <2> QED
    BY <2>2, FS_CardinalityType
<1>4. \A h \in Handler : handler[h].row.auto \in Nat
    BY DEF TypeInv, TypeOK, HandlerRow, TaskRow
<1>5. \A h \in Handler : handler[h].pc # "idle" => handler[h].task \in Task
    BY DEF TypeInv, Placed
<1> QED
    BY <1>1, <1>2, <1>3, <1>4, <1>5

\* Fewer handlers are starting.
LEMMA Fewer ==
    ASSUME TypeInv, NEW t \in Task, NEW S, S \subseteq Starters(t)
    PROVE  IsFiniteSet(S) /\ Cardinality(S) \in Nat /\ Cardinality(S) <= Cardinality(Starters(t))
BY Numbers, FS_Subset, FS_CardinalityType

LEMMA SteadySteps ==
    ASSUME RetryInv, TypeInv', Steady
    PROVE  RetryInv'
<1>1. TypeInv /\ Behind /\ Limited /\ NoMatchIsLast /\ Room
    BY DEF RetryInv
<1>2. Behind'
  <2> SUFFICES ASSUME NEW g \in Handler, handler'[g].pc # "idle"
               PROVE  handler'[g].row.auto <= task'[handler'[g].task].auto
    BY DEF Behind
  <2>1. handler'[g].task \in Task
    BY DEF TypeInv, Placed
  <2> QED
    BY <2>1 DEF Steady, StillBehind, SameRetries
<1>3. Limited'
    BY <1>1 DEF Limited, Steady, SameRetries
<1>4. NoMatchIsLast'
    BY <1>1 DEF NoMatchIsLast, Steady, SameRetries
<1>5. Room'
  <2> SUFFICES ASSUME NEW t \in Task
               PROVE  Len(sessions'[t]) + Cardinality(Starters(t)') <= requests' + task'[t].auto
    BY DEF Room
  <2>1. Starters(t)' \subseteq Starters(t)
    BY DEF Steady, StillStarting, Starters
  <2>2. Cardinality(Starters(t)') \in Nat /\ Cardinality(Starters(t)') <= Cardinality(Starters(t))
    BY <1>1, <2>1, Fewer
  <2>3. Len(sessions[t]) + Cardinality(Starters(t)) <= requests + task[t].auto
    BY <1>1 DEF Room
  <2>4. requests' = requests /\ task'[t].auto = task[t].auto /\ Len(sessions'[t]) = Len(sessions[t])
    BY DEF Steady, SameRetries, Level
  <2> QED
    BY <1>1, <2>2, <2>3, <2>4, Numbers, SMTT(30)
<1> QED
    BY <1>2, <1>3, <1>4, <1>5 DEF RetryInv

\* Only handler h moves, to row w.
LEMMA MovesOn ==
    ASSUME TypeInv, Behind, NEW h \in Handler, NEW w \in HandlerRow, Become(h, w),
           w.pc \in Starting => handler[h].pc \in Starting /\ w.task = handler[h].task,
           w.pc # "idle" => w.row.auto <= task[w.task].auto
    PROVE  StillStarting /\ StillBehind
<1>1. \A g \in Handler : handler'[g] = IF g = h THEN w ELSE handler[g]
    BY DEF Become, TypeInv, TypeOK
<1> QED
    BY <1>1 DEF StillStarting, StillBehind, Behind

LEMMA StandStill ==
    ASSUME TypeInv, Behind, UNCHANGED handler
    PROVE  StillStarting /\ StillBehind
BY DEF StillStarting, StillBehind, Behind

LEMMA Ends ==
    ASSUME TypeInv, Behind, NEW h \in Handler, Finish(h)
    PROVE  StillStarting /\ StillBehind
<1>1. Idle \in HandlerRow /\ Idle.pc = "idle" /\ Become(h, Idle) /\ "idle" \notin Starting
    BY Defaults DEF Finish, Starting
<1> QED
    BY <1>1, MovesOn

\* A handler goes on with the row it has, or with none.
LEMMA GoesOn ==
    ASSUME TypeInv, Behind, NEW h \in Handler, ~At(h, "idle"),
           NEW w \in HandlerRow, Become(h, w), w.task = handler[h].task,
           w.row = handler[h].row \/ w.row = Draft,
           w.pc \in Starting => handler[h].pc \in Starting
    PROVE  StillStarting /\ StillBehind
<1>1. handler[h].row.auto <= task[handler[h].task].auto /\ task[handler[h].task].auto \in Nat
    BY Numbers DEF Behind, At
<1>2. Draft.auto = 0
    BY DEF Draft
<1>3. w.row.auto <= task[w.task].auto
    BY <1>1, <1>2
<1> QED
    BY <1>3, MovesOn

\* The task rows stay, or are saved without their retries.
LEMMA SameTasks ==
    ASSUME UNCHANGED task
    PROVE  SameRetries
BY DEF SameRetries

LEMMA SavesRetries ==
    ASSUME TypeInv, NEW h \in Handler, ~At(h, "idle"), NEW new \in TaskRow, SaveTask(h, new),
           new.auto = handler[h].row.auto,
           \/ new.status # "NO_MATCH" \/ new.status = handler[h].row.status
           \/ task[handler[h].task].auto = AutoMax
    PROVE  SameRetries
<1>1. PICK t \in Task : t = handler[h].task
    BY Working
<1>2. PICK old \in TaskRow : old = handler[h].row
    BY Working
<1>3. PICK row \in TaskRow : row = Saved(task[t], old, new)
    BY <1>2, SavedRow DEF TypeInv, TypeOK
<1>4. task' = [task EXCEPT ![t] = row]
    BY <1>1, <1>2, <1>3 DEF SaveTask, JobOf
<1>5. \A u \in Task : task'[u] = IF u = t THEN row ELSE task[u]
    BY <1>4 DEF TypeInv, TypeOK
<1>6. row.auto = task[t].auto
    BY <1>2, <1>3 DEF Saved
<1>7. row.status = IF new.status = old.status THEN task[t].status ELSE new.status
    BY <1>3 DEF Saved
<1> QED
    BY <1>1, <1>2, <1>5, <1>6, <1>7 DEF SameRetries

-----------------------------------------------------------------------------
(***************************************************************************)
(* The steady steps, group by group.                                       *)
(***************************************************************************)
SteadyBeginning(h) ==
    \/ ConfirmDraft(h) \/ ReloadTask(h) \/ StartInitialDispatch(h) \/ NotEligible(h)
    \/ ReopenTask(h) \/ GetNextSequence(h) \/ InsertCollides(h) \/ SendMatch(h)

LEMMA BeginningSteady ==
    ASSUME RetryInv, NEW h \in Handler, SteadyBeginning(h)
    PROVE  Steady
<1>0. TypeInv /\ Behind
    BY DEF RetryInv
<1>1. ~At(h, "idle") /\ handler[h] \in HandlerRow /\ handler[h].row \in TaskRow
  <2>1. ~At(h, "idle")
    BY DEF SteadyBeginning, ConfirmDraft, ReloadTask, StartInitialDispatch, NotEligible, ReopenTask,
           GetNextSequence, InsertCollides, SendMatch, At
  <2> QED
    BY <1>0, <2>1, Working
<1>2. UNCHANGED <<sessions, requests>>
    BY DEF SteadyBeginning, ConfirmDraft, ReloadTask, StartInitialDispatch, NotEligible, ReopenTask,
           GetNextSequence, InsertCollides, SendMatch, rowVars, boundVars
<1>3. Level
    BY <1>0, <1>2, SameSessions
<1>4. StillStarting /\ StillBehind
  <2>1. CASE ConfirmDraft(h)
    <3>1. Goto(h, "reload") /\ handler[h].pc \in Starting
      BY <2>1 DEF ConfirmDraft, At, Starting
    <3> QED
      BY <1>0, <1>1, <3>1, Goes, GoesOn, Labels
  <2>2. CASE ReloadTask(h)
    <3>1. handler[h].pc \in Starting /\ handler[h].task \in Task
      BY <1>0, <1>1, <2>2, Working DEF ReloadTask, At, Starting
    <3>2. PICK w : w = [handler[h] EXCEPT !.pc = "start", !.row = task[handler[h].task]] /\ Become(h, w)
      BY <2>2 DEF ReloadTask, JobOf
    <3>3. task[handler[h].task] \in TaskRow /\ task[handler[h].task].auto \in Nat
      BY <1>0, <3>1, Numbers DEF TypeInv, TypeOK
    <3>4. w \in HandlerRow /\ w.task = handler[h].task /\ w.row = task[handler[h].task]
      BY <1>1, <3>2, <3>3, Labels DEF HandlerRow
    <3>5. w.row.auto <= task[w.task].auto
      BY <3>3, <3>4
    <3> QED
      BY <1>0, <3>1, <3>2, <3>4, <3>5, MovesOn
  <2>3. CASE StartInitialDispatch(h) \/ ReopenTask(h)
    <3>1. Continue(h, "sequence") /\ handler[h].pc \in Starting
      BY <2>3 DEF StartInitialDispatch, ReopenTask, At, Starting
    <3> QED
      BY <1>0, <1>1, <3>1, Continues, GoesOn, Labels
  <2>4. CASE GetNextSequence(h)
    <3>1. handler[h].pc \in Starting
      BY <2>4 DEF GetNextSequence, At, Starting
    <3>2. PICK n : n = Len(sessions[handler[h].task]) + 1
      OBVIOUS
    <3>3. n \in Nat
      BY <1>0, <1>1, <3>2, Working, Numbers
    <3>4. PICK w : w = [handler[h] EXCEPT !.pc = "insert", !.seq = n] /\ Become(h, w)
      BY <2>4, <3>2 DEF GetNextSequence, JobOf
    <3>5. w \in HandlerRow /\ w.task = handler[h].task /\ w.row = handler[h].row
      BY <1>1, <3>3, <3>4, Labels DEF HandlerRow
    <3> QED
      BY <1>0, <1>1, <3>1, <3>4, <3>5, GoesOn
  <2>5. CASE NotEligible(h) \/ InsertCollides(h) \/ SendMatch(h)
    BY <1>0, <2>5, Ends DEF NotEligible, InsertCollides, SendMatch
  <2> QED
    BY <2>1, <2>2, <2>3, <2>4, <2>5 DEF SteadyBeginning
<1>5. SameRetries
  <2>1. CASE ConfirmDraft(h) \/ StartInitialDispatch(h) \/ ReopenTask(h)
    <3>1. PICK row \in TaskRow : row = handler[h].row
      BY <1>1
    <3>2. \E new \in {[row EXCEPT !.status = "OPEN"], Dispatched(row), Reopened(row)} : SaveTask(h, new)
      BY <2>1, <3>1 DEF ConfirmDraft, StartInitialDispatch, ReopenTask
    <3>3. \A new \in {[row EXCEPT !.status = "OPEN"], Dispatched(row), Reopened(row)} :
              new \in TaskRow /\ new.auto = row.auto /\ new.status # "NO_MATCH"
      BY NewRows DEF TaskRow, Dispatched, Reopened
    <3> QED
      BY <1>0, <1>1, <3>1, <3>2, <3>3, SavesRetries
  <2>2. CASE ReloadTask(h) \/ NotEligible(h) \/ GetNextSequence(h) \/ InsertCollides(h) \/ SendMatch(h)
    BY <2>2, SameTasks DEF ReloadTask, NotEligible, GetNextSequence, InsertCollides, SendMatch, rowVars
  <2> QED
    BY <2>1, <2>2 DEF SteadyBeginning
<1> QED
    BY <1>2, <1>3, <1>4, <1>5 DEF Steady

LEMMA NoMatchSteady ==
    ASSUME RetryInv, NEW h \in Handler, NoMatchStep(h), TypeInv'
    PROVE  Steady
<1>0. TypeInv /\ Behind
    BY DEF RetryInv
<1>1. /\ ~At(h, "idle") /\ handler[h] \in HandlerRow /\ handler[h].row \in TaskRow
      /\ handler[h].task \in Task /\ handler[h].pc \in Indexed
  <2>1. ~At(h, "idle") /\ handler[h].pc \in Indexed
    BY Indexing DEF NoMatchStep, FailSession, ScheduleRetry, ExhaustTask, ExhaustSession, At
  <2> QED
    BY <1>0, <2>1, Working
<1>2. requests' = requests
    BY DEF NoMatchStep, FailSession, ScheduleRetry, ExhaustTask, ExhaustSession, boundVars
<1>3. Level
  <2>1. CASE FailSession(h) \/ ExhaustSession(h)
    <3>1. PICK s \in DispatchSessionStatus : sessions' = SaveSession(h, s)
      BY <2>1 DEF FailSession, ExhaustSession, DispatchSessionStatus
    <3> QED
      BY <1>0, <1>1, <3>1, SavesSession
  <2>2. CASE ScheduleRetry(h) \/ ExhaustTask(h)
    BY <1>0, <2>2, SameSessions DEF ScheduleRetry, ExhaustTask
  <2> QED
    BY <2>1, <2>2 DEF NoMatchStep
<1>4. StillStarting /\ StillBehind
  <2>1. CASE FailSession(h)
    <3>1. PICK s : s = sessions'[handler[h].task][handler[h].seq].status
      OBVIOUS
    <3>2. PICK w : w = [handler[h] EXCEPT !.pc = "no_match", !.ss = s] /\ Become(h, w)
      BY <2>1, <3>1 DEF FailSession, JobOf
    <3>3. w.pc = "no_match" /\ w.task = handler[h].task /\ w.row = handler[h].row
      BY <1>1, <3>2 DEF HandlerRow
    <3>4. handler'[h] = w
      BY <1>0, <3>2 DEF Become, TypeInv, TypeOK
    <3>5. w \in HandlerRow
      BY <3>4 DEF TypeInv, TypeOK
    <3> QED
      BY <1>0, <1>1, <3>2, <3>3, <3>5, GoesOn DEF Starting
  <2>2. CASE ExhaustTask(h)
    <3>1. PICK w : w = [handler[h] EXCEPT !.pc = "exhaust", !.row = Draft] /\ Become(h, w)
      BY <2>2 DEF ExhaustTask
    <3>2. w \in HandlerRow /\ w.pc = "exhaust" /\ w.task = handler[h].task /\ w.row = Draft
      BY <1>1, <3>1, Labels, Defaults DEF HandlerRow
    <3> QED
      BY <1>0, <1>1, <3>1, <3>2, GoesOn DEF Starting
  <2>3. CASE ScheduleRetry(h) \/ ExhaustSession(h)
    BY <1>0, <2>3, Ends DEF ScheduleRetry, ExhaustSession
  <2> QED
    BY <2>1, <2>2, <2>3 DEF NoMatchStep
<1>5. SameRetries
  <2>1. CASE ScheduleRetry(h)
    <3>1. PICK new : new = [handler[h].row EXCEPT !.dispatch = "RETRY_SCHEDULED"] /\ SaveTask(h, new)
      BY <2>1 DEF ScheduleRetry
    <3>2. new \in TaskRow /\ new.auto = handler[h].row.auto /\ new.status = handler[h].row.status
      BY <1>1, <3>1, NewRows DEF TaskRow
    <3> QED
      BY <1>0, <1>1, <3>1, <3>2, SavesRetries
  <2>2. CASE ExhaustTask(h)
    <3>1. PICK new : new = Exhausted(handler[h].row) /\ SaveTask(h, new)
      BY <2>2 DEF ExhaustTask
    <3>2. new \in TaskRow /\ new.auto = handler[h].row.auto
      BY <1>1, <3>1, NewRows DEF TaskRow, Exhausted
    <3>3. AutoMax <= handler[h].row.auto
      BY <1>0, <2>2, Numbers DEF ExhaustTask, CanAutoRetry
    <3>4. handler[h].row.auto <= task[handler[h].task].auto /\ task[handler[h].task].auto <= AutoMax
      BY <1>1 DEF RetryInv, Behind, Limited, At
    <3>5. task[handler[h].task].auto = AutoMax
      BY <1>0, <1>1, <3>3, <3>4, Numbers
    <3> QED
      BY <1>0, <1>1, <3>1, <3>2, <3>5, SavesRetries
  <2>3. CASE FailSession(h) \/ ExhaustSession(h)
    BY <2>3, SameTasks DEF FailSession, ExhaustSession
  <2> QED
    BY <2>1, <2>2, <2>3 DEF NoMatchStep
<1> QED
    BY <1>2, <1>3, <1>4, <1>5 DEF Steady

LEMMA AnswerSteady ==
    ASSUME RetryInv, NEW h \in Handler, AnswerStep(h), TypeInv'
    PROVE  Steady
<1>0. TypeInv /\ Behind
    BY DEF RetryInv
<1>1. /\ ~At(h, "idle") /\ handler[h] \in HandlerRow /\ handler[h].row \in TaskRow
      /\ handler[h].task \in Task /\ handler[h].pc \in Indexed
  <2>1. ~At(h, "idle") /\ handler[h].pc \in Indexed
    BY Indexing DEF AnswerStep, SaveAnswer, AssignTask, UpdateAssignment, InsertAssignment,
                    InsertAssignmentRaises, SetOnTask, CloseSessions, ReleaseProvider, At
  <2> QED
    BY <1>0, <2>1, Working
<1>2. requests' = requests
    BY DEF AnswerStep, SaveAnswer, AssignTask, UpdateAssignment, InsertAssignment,
           InsertAssignmentRaises, SetOnTask, CloseSessions, ReleaseProvider, boundVars
<1>3. PICK t \in Task, i \in Nat : t = handler[h].task /\ i = handler[h].seq /\ i \in 1 .. Len(sessions[t])
    BY <1>0, <1>1, Working DEF HandlerRow
<1>4. sessions[t][i] \in DispatchSession
    BY <1>0, <1>3, Lengths
<1>5. Level
  <2>1. CASE SaveAnswer(h)
    <3>1. PICK o \in DispatchAttemptStatus :
              sessions' = [sessions EXCEPT ![t][i].offer[handler[h].provider] = o]
      BY <1>3, <2>1 DEF SaveAnswer, DispatchAttemptStatus
    <3>2. PICK row : row = [sessions[t][i] EXCEPT !.offer[handler[h].provider] = o]
      OBVIOUS
    <3>3. row \in DispatchSession
      BY <1>4, <3>2, SessionRows
    <3>4. sessions' = [sessions EXCEPT ![t] = [@ EXCEPT ![i] = row]]
      BY <1>0, <3>1, <3>2 DEF TypeInv, TypeOK
    <3> QED
      BY <1>0, <1>3, <3>3, <3>4, Overwritten
  <2>2. CASE CloseSessions(h)
    <3>1. PICK s : s = [j \in 1 .. Len(sessions[t]) |-> Closed(sessions[t][j])]
      OBVIOUS
    <3>2. s \in [1 .. Len(sessions[t]) -> DispatchSession]
      BY <1>0, <3>1, Lengths, SessionRows
    <3>3. sessions' = [sessions EXCEPT ![t] = s]
      BY <1>0, <1>3, <2>2, <3>1 DEF CloseSessions, JobOf, TypeInv, TypeOK
    <3> QED
      BY <1>0, <3>2, <3>3, UpdatesAll
  <2>3. CASE ReleaseProvider(h) /\ EndsSession(h)
    <3>1. PICK row : row = [sessions[t][i] EXCEPT !.status = "FAILED"]
      OBVIOUS
    <3>2. row \in DispatchSession
      BY <1>4, <3>1, SessionRows DEF DispatchSessionStatus
    <3>3. sessions' = [sessions EXCEPT ![t][i].status = "FAILED"]
      BY <1>3, <2>3 DEF ReleaseProvider, JobOf
    <3>4. sessions' = [sessions EXCEPT ![t] = [@ EXCEPT ![i] = row]]
      BY <1>0, <3>1, <3>3 DEF TypeInv, TypeOK
    <3> QED
      BY <1>0, <1>3, <3>2, <3>4, Overwritten
  <2>4. CASE sessions' = sessions
    BY <1>0, <2>4, SameSessions
  <2> QED
    BY <2>1, <2>2, <2>3, <2>4
    DEF AnswerStep, AssignTask, UpdateAssignment, InsertAssignment, InsertAssignmentRaises,
        SetOnTask, ReleaseProvider, rowVars
<1>6. StillStarting /\ StillBehind
  <2>1. CASE SaveAnswer(h) \/ SetOnTask(h)
    <3>1. PICK l \in {"assign", "release", "close"} : Goto(h, l)
      BY <2>1 DEF SaveAnswer, SetOnTask
    <3>2. l \in Label /\ l \notin Starting
      BY Labels DEF Starting
    <3> QED
      BY <1>0, <1>1, <3>1, <3>2, Goes, GoesOn
  <2>2. CASE AssignTask(h)
    <3>1. PICK w : /\ w = [handler[h] EXCEPT !.pc = "assignment", !.row = Draft,
                                             !.asg = assignment[handler[h].task]]
                   /\ Become(h, w)
      BY <2>2 DEF AssignTask, JobOf
    <3>2. assignment[handler[h].task] \in AssignmentRow
      BY <1>0, <1>1 DEF TypeInv, TypeOK
    <3>3. w \in HandlerRow /\ w.pc = "assignment" /\ w.task = handler[h].task /\ w.row = Draft
      BY <1>1, <3>1, <3>2, Labels, Defaults DEF HandlerRow
    <3> QED
      BY <1>0, <1>1, <3>1, <3>3, GoesOn DEF Starting
  <2>3. CASE UpdateAssignment(h) \/ InsertAssignment(h)
    <3>1. PICK w : w = [handler[h] EXCEPT !.pc = "on_task", !.asg = NoAssignment] /\ Become(h, w)
      BY <2>3 DEF UpdateAssignment, InsertAssignment
    <3>2. /\ w \in HandlerRow /\ w.pc = "on_task" /\ w.task = handler[h].task
          /\ w.row = handler[h].row
      BY <1>1, <3>1, Labels, Defaults DEF HandlerRow
    <3> QED
      BY <1>0, <1>1, <3>1, <3>2, GoesOn DEF Starting
  <2>4. CASE ReleaseProvider(h) /\ EndsSession(h)
    <3>1. PICK w : /\ w = [handler[h] EXCEPT !.pc = "no_match", !.ss = "FAILED", !.provider = NoProvider]
                   /\ Become(h, w)
      BY <2>4 DEF ReleaseProvider
    <3>2. "FAILED" \in DispatchSessionStatus
      BY DEF DispatchSessionStatus
    <3>3. /\ w \in HandlerRow /\ w.pc = "no_match" /\ w.task = handler[h].task
          /\ w.row = handler[h].row
      BY <1>1, <3>1, <3>2, Labels DEF HandlerRow
    <3> QED
      BY <1>0, <1>1, <3>1, <3>3, GoesOn DEF Starting
  <2>5. CASE Finish(h)
    BY <1>0, <2>5, Ends
  <2> QED
    BY <2>1, <2>2, <2>3, <2>4, <2>5
    DEF AnswerStep, InsertAssignmentRaises, CloseSessions, ReleaseProvider
<1>7. SameRetries
  <2>1. CASE AssignTask(h)
    <3>1. PICK new : new = Matched(handler[h].row, handler[h].provider) /\ SaveTask(h, new)
      BY <2>1 DEF AssignTask
    <3>2. new \in TaskRow
      BY <1>1, <3>1, AnyMatched DEF HandlerRow
    <3>3. new.auto = handler[h].row.auto /\ new.status = "ASSIGNED"
      BY <1>1, <3>1 DEF TaskRow, Matched
    <3> QED
      BY <1>0, <1>1, <3>1, <3>2, <3>3, SavesRetries
  <2>2. CASE task' = task
    BY <2>2, SameTasks
  <2> QED
    BY <2>1, <2>2
    DEF AnswerStep, SaveAnswer, UpdateAssignment, InsertAssignment, InsertAssignmentRaises,
        SetOnTask, CloseSessions, ReleaseProvider, rowVars
<1> QED
    BY <1>2, <1>5, <1>6, <1>7 DEF Steady

LEMMA MatchingSteady ==
    ASSUME RetryInv, NEW h \in Handler, MatchingStep(h)
    PROVE  Steady
<1>0. TypeInv /\ Behind
    BY DEF RetryInv
<1>1. /\ ~At(h, "idle") /\ handler[h] \in HandlerRow /\ handler[h].row \in TaskRow
      /\ handler[h].task \in Task /\ handler[h].pc \in Indexed
  <2>1. ~At(h, "idle") /\ handler[h].pc \in Indexed
    BY Indexing DEF MatchingStep, NoCandidates, EnqueueBatches, AbandonBatch, PingBatch,
                    ScheduleCheck, At
  <2> QED
    BY <1>0, <2>1, Working
<1>2. UNCHANGED <<task, requests>>
    BY DEF MatchingStep, NoCandidates, EnqueueBatches, AbandonBatch, PingBatch, ScheduleCheck,
           rowVars, boundVars
<1>3. Level
  <2>1. CASE PingBatch(h)
    <3>1. PICK t \in Task, i \in Nat : t = handler[h].task /\ i = handler[h].seq /\ i \in 1 .. Len(sessions[t])
      BY <1>0, <1>1, Working DEF HandlerRow
    <3>2. PICK won : won = {v \in handler[h].cands : duty[v] \in Claimable}
      OBVIOUS
    <3>3. PICK row : row = [sessions[t][i] EXCEPT !.offer =
                                [v \in Provider |-> IF v \in won THEN "PENDING" ELSE @[v]]]
      OBVIOUS
    <3>4. sessions[t][i] \in DispatchSession
      BY <1>0, <3>1, Lengths
    <3>5. row \in DispatchSession
      BY <3>3, <3>4 DEF DispatchSession, DispatchAttemptStatus
    <3>6. sessions' = [sessions EXCEPT ![t][i].offer =
                           [v \in Provider |-> IF v \in won THEN "PENDING" ELSE @[v]]]
      BY <2>1, <3>1, <3>2 DEF PingBatch, JobOf
    <3>7. sessions' = [sessions EXCEPT ![t] = [@ EXCEPT ![i] = row]]
      BY <1>0, <3>3, <3>6 DEF TypeInv, TypeOK
    <3> QED
      BY <1>0, <3>1, <3>5, <3>7, Overwritten
  <2>2. CASE sessions' = sessions
    BY <1>0, <2>2, SameSessions
  <2> QED
    BY <2>1, <2>2 DEF MatchingStep, NoCandidates, EnqueueBatches, AbandonBatch, ScheduleCheck, rowVars
<1>4. StillStarting /\ StillBehind
  <2>1. CASE Finish(h)
    BY <1>0, <2>1, Ends
  <2>2. CASE Goto(h, "fail") \/ Goto(h, "check")
    <3>1. PICK l \in {"fail", "check"} : Goto(h, l)
      BY <2>2
    <3>2. l \in Label /\ l \notin Starting
      BY Labels DEF Starting
    <3> QED
      BY <1>0, <1>1, <3>1, <3>2, Goes, GoesOn
  <2> QED
    BY <2>1, <2>2
    DEF MatchingStep, NoCandidates, EnqueueBatches, AbandonBatch, PingBatch, ScheduleCheck
<1> QED
    BY <1>2, <1>3, <1>4, SameTasks DEF Steady

SteadyDelivery(h, m) ==
    \/ AutoRetryExhausted(h, m) \/ AutoRetryTaken(h, m) \/ MatchInactive(h, m) \/ RunMatching(h, m)
    \/ SkipBatch(h, m) \/ RunBatch(h, m) \/ CheckExhaustion(h, m) \/ CheckMoot(h, m)

LEMMA DeliverySteady ==
    ASSUME RetryInv, NEW h \in Handler, NEW m \in msgs, SteadyDelivery(h, m)
    PROVE  Steady
<1>0. TypeInv /\ Behind /\ m \in Message
    BY DEF RetryInv, TypeInv, TypeOK
<1>1. PICK t \in Task : t = m.task
    BY <1>0 DEF Message
<1>2. task[t] \in TaskRow /\ task[t].auto \in Nat /\ AutoMax \in Nat
    BY <1>0, Numbers DEF TypeInv, TypeOK
<1>3. CASE AutoRetryExhausted(h, m)
  <2>1. UNCHANGED <<sessions, handler, requests>>
    BY <1>3 DEF AutoRetryExhausted, boundVars
  <2>2. task[t].auto = AutoMax
    BY <1>1, <1>2, <1>3 DEF AutoRetryExhausted, CanAutoRetry, RetryInv, Limited
  <2>3. PICK row : row = Exhausted(task[t])
    OBVIOUS
  <2>4. row.auto = task[t].auto
    BY <1>2, <2>3 DEF Exhausted, TaskRow
  <2>5. task' = [task EXCEPT ![t] = row]
    BY <1>1, <1>3, <2>3 DEF AutoRetryExhausted
  <2>6. \A u \in Task : task'[u] = IF u = t THEN row ELSE task[u]
    BY <1>0, <2>5 DEF TypeInv, TypeOK
  <2>7. SameRetries
    BY <2>2, <2>4, <2>6 DEF SameRetries
  <2> QED
    BY <1>0, <2>1, <2>7, StandStill, SameSessions DEF Steady
<1>4. CASE AutoRetryTaken(h, m) \/ SkipBatch(h, m) \/ CheckMoot(h, m)
  <2>1. UNCHANGED <<task, sessions, handler, requests>>
    BY <1>4 DEF AutoRetryTaken, SkipBatch, CheckMoot, rowVars, boundVars
  <2> QED
    BY <1>0, <2>1, StandStill, SameSessions, SameTasks DEF Steady
<1>5. CASE MatchInactive(h, m) \/ RunMatching(h, m) \/ CheckExhaustion(h, m)
  <2>1. UNCHANGED <<task, requests>>
    BY <1>5 DEF MatchInactive, RunMatching, CheckExhaustion, rowVars, boundVars
  <2>2. Level
    BY <1>0, <1>1, <1>5, SameSessions, Recovers
    DEF MatchInactive, RunMatching, CheckExhaustion, rowVars
  <2>3. PICK l \in {"fail", "fetch"} : Become(h, Loaded(m, l))
    BY <1>5 DEF MatchInactive, RunMatching, CheckExhaustion
  <2>4. l \in Label /\ l \notin Starting /\ m.kind # "retry"
    BY <1>5, Labels DEF Starting, MatchInactive, RunMatching, CheckExhaustion
  <2>5. PICK w \in HandlerRow : w = Loaded(m, l) /\ w.pc = l /\ w.task = t
    BY <1>0, <1>1, <2>4, Loads
  <2>6. w.row = task[t]
    BY <1>1, <2>5, Defaults DEF Loaded, HandlerRow
  <2>7. w.row.auto <= task[w.task].auto
    BY <1>2, <2>5, <2>6
  <2>8. StillStarting /\ StillBehind
    BY <1>0, <2>3, <2>4, <2>5, <2>7, MovesOn
  <2> QED
    BY <2>1, <2>2, <2>8, SameTasks DEF Steady
<1>6. CASE RunBatch(h, m)
  <2>1. UNCHANGED <<task, requests>> /\ RecoverStaleAttempts(t)
    BY <1>1, <1>6 DEF RunBatch, boundVars
  <2>2. PICK w : /\ w = [Idle EXCEPT !.pc = "ping", !.task = m.task, !.seq = m.seq,
                                     !.cands = m.cands, !.last = m.last]
                 /\ Become(h, w)
    BY <1>6 DEF RunBatch
  <2>3. w \in HandlerRow
    BY <1>0, <2>2, Defaults, Labels DEF HandlerRow, Message
  <2>4. w.pc = "ping" /\ w.task = t /\ w.row = Idle.row
    BY <1>1, <2>2, Defaults DEF HandlerRow
  <2>5. w.row.auto = 0
    BY <2>4 DEF Idle, Draft
  <2>6. w.row.auto <= task[w.task].auto
    BY <1>2, <2>4, <2>5
  <2>7. StillStarting /\ StillBehind
    BY <1>0, <2>2, <2>3, <2>4, <2>6, MovesOn DEF Starting
  <2> QED
    BY <1>0, <2>1, <2>7, Recovers, SameTasks DEF Steady
<1> QED
    BY <1>3, <1>4, <1>5, <1>6 DEF SteadyDelivery

LEMMA BeginAnswerSteady ==
    ASSUME RetryInv, NEW h \in Handler, NEW t \in Task, NEW v \in Provider, NEW accept \in BOOLEAN,
           NEW i \in 1 .. Len(sessions[t]), BeginAnswer(h, t, v, i, accept)
    PROVE  Steady
<1>0. TypeInv /\ Behind /\ task[t] \in TaskRow
    BY DEF RetryInv, TypeInv, TypeOK
<1>1. i \in Nat /\ task[t].auto \in Nat
    BY <1>0, Numbers
<1>2. PICK w : /\ w = [Idle EXCEPT !.pc = "answer", !.task = t, !.row = task[t], !.seq = i,
                                   !.provider = v, !.accept = accept]
               /\ Become(h, w)
    BY DEF BeginAnswer
<1>3. w \in HandlerRow /\ w.pc = "answer" /\ w.task = t /\ w.row = task[t]
    BY <1>0, <1>1, <1>2, Defaults, Labels DEF HandlerRow
<1>4. w.row.auto <= task[w.task].auto
    BY <1>1, <1>3
<1>5. StillStarting /\ StillBehind
    BY <1>0, <1>2, <1>3, <1>4, MovesOn DEF Starting
<1>6. UNCHANGED <<task, sessions, requests>>
    BY DEF BeginAnswer, rowVars, boundVars
<1> QED
    BY <1>0, <1>5, <1>6, SameSessions, SameTasks DEF Steady

LEMMA CrashSteady ==
    ASSUME RetryInv, NEW h \in Handler, Crash(h)
    PROVE  Steady
<1>0. TypeInv /\ Behind
    BY DEF RetryInv
<1>1. UNCHANGED <<task, sessions, requests>> /\ Finish(h)
    BY DEF Crash, rowVars
<1> QED
    BY <1>0, <1>1, Ends, SameSessions, SameTasks DEF Steady

LEMMA BeatAndClockSteady ==
    ASSUME RetryInv, NEW t \in Task, Beat(t) \/ Clock(t)
    PROVE  Steady
<1>0. TypeInv /\ Behind
    BY DEF RetryInv
<1>1. UNCHANGED <<handler, requests>>
    BY DEF Beat, ClaimDue, ClaimDueDies, Claim, RecoverStale, Clock, RetryFallsDue, ClaimGoesStale,
           Expiry, OfferExpires, boundVars
<1>2. SameRetries
  <2>1. CASE Beat(t)
    <3>1. PICK s \in {"DISPATCHING", "RETRY_SCHEDULED"} : task' = [task EXCEPT ![t].dispatch = s]
      BY <2>1 DEF Beat, ClaimDue, ClaimDueDies, Claim, RecoverStale
    <3>2. PICK row : row = [task[t] EXCEPT !.dispatch = s]
      OBVIOUS
    <3>3. row.auto = task[t].auto /\ row.status = task[t].status
      BY <1>0, <3>2 DEF TypeInv, TypeOK, TaskRow
    <3>4. \A u \in Task : task'[u] = IF u = t THEN row ELSE task[u]
      BY <1>0, <3>1, <3>2 DEF TypeInv, TypeOK
    <3> QED
      BY <3>3, <3>4 DEF SameRetries
  <2>2. CASE Clock(t)
    BY <2>2, SameTasks DEF Clock, RetryFallsDue, ClaimGoesStale, Expiry, OfferExpires
  <2> QED
    BY <2>1, <2>2
<1>3. Level
  <2>1. CASE Expiry(t)
    <3>1. PICK v \in Provider : \E i \in 1 .. Len(sessions[t]) : OfferExpires(t, v, i)
      BY <2>1 DEF Expiry
    <3>2. PICK i \in 1 .. Len(sessions[t]) : OfferExpires(t, v, i)
      BY <3>1
    <3>3. PICK row : row = [sessions[t][i] EXCEPT !.offer[v] = "LAPSED"]
      OBVIOUS
    <3>4. "LAPSED" \in DispatchAttemptStatus
      BY DEF DispatchAttemptStatus
    <3>5. row \in DispatchSession
      BY <1>0, <3>2, <3>3, <3>4, Lengths, SessionRows
    <3>6. sessions' = [sessions EXCEPT ![t] = [@ EXCEPT ![i] = row]]
      BY <1>0, <3>2, <3>3 DEF OfferExpires, TypeInv, TypeOK
    <3> QED
      BY <1>0, <3>2, <3>5, <3>6, Overwritten
  <2>2. CASE sessions' = sessions
    BY <1>0, <2>2, SameSessions
  <2> QED
    BY <2>1, <2>2 DEF Beat, ClaimDue, ClaimDueDies, Claim, RecoverStale, Clock, RetryFallsDue, ClaimGoesStale
<1> QED
    BY <1>0, <1>1, <1>2, <1>3, StandStill DEF Steady

-----------------------------------------------------------------------------
(***************************************************************************)
(* The steps that count: a request or a retry lets a handler start, and    *)
(* one that was started inserts its session.                               *)
(***************************************************************************)
LEMMA Starts ==
    ASSUME RetryInv, TypeInv', NEW h \in Handler, NEW t \in Task, NEW w \in HandlerRow, Become(h, w),
           w.task = t, w.row.auto <= task'[t].auto, Level,
           requests <= requests', requests + task[t].auto < requests' + task'[t].auto,
           \A u \in Task : /\ task[u].auto <= task'[u].auto /\ task'[u].auto <= AutoMax
                           /\ task'[u].status = "NO_MATCH" => task'[u].auto = AutoMax
    PROVE  RetryInv'
<1>0. TypeInv /\ Behind /\ Limited /\ Room
    BY DEF RetryInv
<1>1. \A g \in Handler : handler'[g] = IF g = h THEN w ELSE handler[g]
    BY <1>0 DEF Become, TypeInv, TypeOK
<1>2. Behind'
  <2> SUFFICES ASSUME NEW g \in Handler, handler'[g].pc # "idle"
               PROVE  handler'[g].row.auto <= task'[handler'[g].task].auto
    BY DEF Behind
  <2>1. CASE g = h
    BY <1>1, <2>1
  <2>2. CASE g # h
    <3>1. handler'[g] = handler[g]
      BY <1>1, <2>2
    <3>2. PICK u \in Task : u = handler[g].task
      BY <1>0, <3>1, Numbers
    <3>3. handler[g].row.auto <= task[u].auto /\ task[u].auto <= task'[u].auto
      BY <1>0, <3>1, <3>2 DEF Behind
    <3>4. handler[g].row.auto \in Nat /\ task[u].auto \in Nat /\ task'[u].auto \in Nat
      BY <1>0, Numbers DEF TypeInv, TypeOK, TaskRow
    <3> QED
      BY <3>1, <3>2, <3>3, <3>4
  <2> QED
    BY <2>1, <2>2
<1>3. Limited' /\ NoMatchIsLast'
    BY DEF Limited, NoMatchIsLast
<1>4. Room'
  <2> SUFFICES ASSUME NEW u \in Task
               PROVE  Len(sessions'[u]) + Cardinality(Starters(u)') <= requests' + task'[u].auto
    BY DEF Room
  <2>1. Len(sessions[u]) + Cardinality(Starters(u)) <= requests + task[u].auto
    BY <1>0 DEF Room
  <2>2. Len(sessions'[u]) = Len(sessions[u])
    BY DEF Level
  <2>3. /\ requests \in Nat /\ requests' \in Nat /\ task[u].auto \in Nat /\ task'[u].auto \in Nat
        /\ Len(sessions[u]) \in Nat /\ IsFiniteSet(Starters(u)) /\ Cardinality(Starters(u)) \in Nat
    BY <1>0, Numbers DEF TypeInv, TypeOK, TaskRow
  <2>4. CASE u = t
    <3>1. Starters(u)' \subseteq Starters(u) \cup {h}
      BY <1>1 DEF Starters
    <3>2. /\ IsFiniteSet(Starters(u) \cup {h})
          /\ Cardinality(Starters(u) \cup {h}) \in Nat
          /\ Cardinality(Starters(u) \cup {h}) <= Cardinality(Starters(u)) + 1
      <4>1. PICK S : S = Starters(u)
        OBVIOUS
      <4>2. IsFiniteSet(S) /\ Cardinality(S) \in Nat
        BY <2>3, <4>1
      <4>3. /\ IsFiniteSet(S \cup {h})
            /\ Cardinality(S \cup {h}) = Cardinality(S) \/ Cardinality(S \cup {h}) = Cardinality(S) + 1
        BY <4>2, FS_AddElement
      <4> QED
        BY <4>1, <4>2, <4>3
    <3>3. /\ Cardinality(Starters(u)') \in Nat
          /\ Cardinality(Starters(u)') <= Cardinality(Starters(u) \cup {h})
      BY <3>1, <3>2, FS_Subset, FS_CardinalityType
    <3> QED
      <4>1. requests \in Nat /\ task[u].auto \in Nat
        BY <2>3
      <4>2. requests' \in Nat /\ task'[u].auto \in Nat
        BY <2>3
      <4>3. requests + task[u].auto < requests' + task'[u].auto
        BY <2>4
      <4>4. requests + task[u].auto + 1 <= requests' + task'[u].auto
        BY <4>1, <4>2, <4>3
      <4>5. Len(sessions[u]) + Cardinality(Starters(u)') <= requests + task[u].auto + 1
        BY <2>1, <2>3, <3>2, <3>3, SMTT(30)
      <4>6. /\ Len(sessions[u]) + Cardinality(Starters(u)') \in Int
            /\ requests + task[u].auto + 1 \in Int
            /\ requests' + task'[u].auto \in Int
        BY <2>3, <3>3, <4>1, <4>2, SMTT(30)
      <4> QED
        BY <2>2, <4>4, <4>5, <4>6
  <2>5. CASE u # t
    <3>1. Starters(u)' \subseteq Starters(u)
      BY <1>1, <2>5 DEF Starters
    <3>2. Cardinality(Starters(u)') \in Nat /\ Cardinality(Starters(u)') <= Cardinality(Starters(u))
      BY <1>0, <3>1, Fewer
    <3>3. requests <= requests' /\ task[u].auto <= task'[u].auto
      OBVIOUS
    <3>4. requests + task[u].auto <= requests' + task'[u].auto
      BY <2>3, <3>3
    <3>5. Len(sessions[u]) + Cardinality(Starters(u)') <= requests + task[u].auto
      BY <2>1, <2>3, <3>2, SMTT(30)
    <3>6. /\ Len(sessions[u]) + Cardinality(Starters(u)') \in Int
          /\ requests + task[u].auto \in Int
          /\ requests' + task'[u].auto \in Int
      BY <2>3, <3>2, SMTT(30)
    <3> QED
      BY <2>2, <3>4, <3>5, <3>6
  <2> QED
    BY <2>4, <2>5
<1> QED
    BY <1>2, <1>3, <1>4 DEF RetryInv

\* A request: one more than before.
LEMMA RequestRetries ==
    ASSUME RetryInv, TypeInv', NEW h \in Handler, NEW t \in Task,
           BeginConfirm(h, t) \/ ManualRedispatch(h, t) \/ RevokeAssignment(h, t)
    PROVE  RetryInv'
<1>0. TypeInv /\ Limited /\ NoMatchIsLast /\ task[t] \in TaskRow /\ task[t].auto \in Nat
    BY Numbers DEF RetryInv, TypeInv, TypeOK
<1>1. UNCHANGED sessions /\ requests' = requests + 1 /\ requests \in Nat
    BY <1>0, Numbers DEF BeginConfirm, ManualRedispatch, RevokeAssignment, rowVars
<1>2. Level
    BY <1>0, <1>1, SameSessions
<1>3. CASE BeginConfirm(h, t) \/ RevokeAssignment(h, t)
  <2>1. task' = task
    BY <1>3 DEF BeginConfirm, RevokeAssignment, rowVars
  <2>2. PICK w : Become(h, w) /\ \/ w = [Idle EXCEPT !.pc = "confirm", !.task = t, !.row = task[t]]
                                 \/ w = [Idle EXCEPT !.pc = "reopen", !.task = t, !.row = task[t],
                                                     !.provider = assignment[t].provider]
    BY <1>3 DEF BeginConfirm, RevokeAssignment
  <2>3. assignment[t].provider \in Provider \cup {NoProvider}
    BY <1>0 DEF TypeInv, TypeOK, AssignmentRow
  <2>4. w \in HandlerRow /\ w.task = t /\ w.row = task[t]
    <3>1. CASE w = [Idle EXCEPT !.pc = "confirm", !.task = t, !.row = task[t]]
      BY <1>0, <3>1, Defaults, Labels DEF HandlerRow
    <3>2. CASE w = [Idle EXCEPT !.pc = "reopen", !.task = t, !.row = task[t],
                                !.provider = assignment[t].provider]
      BY <1>0, <2>3, <3>2, Defaults, Labels DEF HandlerRow
    <3> QED
      BY <2>2, <3>1, <3>2
  <2>5. \A u \in Task : /\ task[u].auto <= task'[u].auto /\ task'[u].auto <= AutoMax
                        /\ task'[u].status = "NO_MATCH" => task'[u].auto = AutoMax
    BY <1>0, <2>1, Numbers DEF Limited, NoMatchIsLast
  <2>6. w.row.auto <= task'[t].auto /\ requests <= requests'
        /\ requests + task[t].auto < requests' + task'[t].auto
    BY <1>0, <1>1, <2>1, <2>4
  <2> QED
    BY <1>2, <2>2, <2>4, <2>5, <2>6, Starts
<1>4. CASE ManualRedispatch(h, t)
  <2>1. PICK w : w = [Idle EXCEPT !.pc = "sequence", !.task = t] /\ Become(h, w)
    BY <1>4 DEF ManualRedispatch
  <2>2. w \in HandlerRow /\ w.task = t /\ w.row = Idle.row
    BY <2>1, Defaults, Labels DEF HandlerRow
  <2>3. PICK row : row = Reopened(task[t])
    OBVIOUS
  <2>4. row.auto = task[t].auto /\ row.status = "SEARCHING"
    BY <1>0, <2>3 DEF Reopened, Dispatched, TaskRow
  <2>5. task' = [task EXCEPT ![t] = row]
    BY <1>4, <2>3 DEF ManualRedispatch
  <2>6. \A u \in Task : task'[u] = IF u = t THEN row ELSE task[u]
    BY <1>0, <2>5 DEF TypeInv, TypeOK
  <2>7. \A u \in Task : /\ task[u].auto <= task'[u].auto /\ task'[u].auto <= AutoMax
                        /\ task'[u].status = "NO_MATCH" => task'[u].auto = AutoMax
    BY <1>0, <2>4, <2>6, Numbers DEF Limited, NoMatchIsLast
  <2>8. w.row.auto = 0
    BY <2>2 DEF Idle, Draft
  <2>9. w.row.auto <= task'[t].auto /\ requests <= requests'
        /\ requests + task[t].auto < requests' + task'[t].auto
    BY <1>0, <1>1, <2>4, <2>6, <2>8
  <2> QED
    BY <1>2, <2>1, <2>2, <2>7, <2>9, Starts
<1> QED
    BY <1>3, <1>4

\* An automatic retry: counted in the row in the transaction that judges it.
LEMMA RetryRetries ==
    ASSUME RetryInv, TypeInv', NEW h \in Handler, NEW m \in msgs, AutoRetry(h, m)
    PROVE  RetryInv'
<1>0. TypeInv /\ Limited /\ NoMatchIsLast /\ m \in Message
    BY DEF RetryInv, TypeInv, TypeOK
<1>1. PICK t \in Task : t = m.task
    BY <1>0 DEF Message
<1>2. task[t] \in TaskRow /\ task[t].auto \in Nat /\ AutoMax \in Nat /\ requests \in Nat
    BY <1>0, Numbers DEF TypeInv, TypeOK
<1>3. task[t].auto < AutoMax /\ UNCHANGED <<sessions, requests>>
    BY <1>1 DEF AutoRetry, CanAutoRetry, boundVars
<1>4. PICK w : w = [Idle EXCEPT !.pc = "sequence", !.task = t] /\ Become(h, w)
    BY <1>1 DEF AutoRetry
<1>5. w \in HandlerRow /\ w.task = t /\ w.row = Idle.row
    BY <1>4, Defaults, Labels DEF HandlerRow
<1>6. PICK row : row = Retried(task[t])
    OBVIOUS
<1>7. row.auto = task[t].auto + 1 /\ row.status = "SEARCHING"
    BY <1>2, <1>6 DEF Retried, Dispatched, TaskRow
<1>8. task' = [task EXCEPT ![t] = row]
    BY <1>1, <1>6 DEF AutoRetry
<1>9. \A u \in Task : task'[u] = IF u = t THEN row ELSE task[u]
    BY <1>0, <1>8 DEF TypeInv, TypeOK
<1>10. \A u \in Task : /\ task[u].auto <= task'[u].auto /\ task'[u].auto <= AutoMax
                       /\ task'[u].status = "NO_MATCH" => task'[u].auto = AutoMax
    BY <1>0, <1>2, <1>3, <1>7, <1>9, Numbers DEF Limited, NoMatchIsLast
<1>11. w.row.auto = 0
    BY <1>5 DEF Idle, Draft
<1>12. w.row.auto <= task'[t].auto /\ requests <= requests'
       /\ requests + task[t].auto < requests' + task'[t].auto
    BY <1>2, <1>3, <1>7, <1>9, <1>11
<1>13. Level
    BY <1>0, <1>3, SameSessions
<1> QED
    BY <1>4, <1>5, <1>10, <1>12, <1>13, Starts

\* The session that a starter inserts was counted with the starter.
LEMMA InsertRetries ==
    ASSUME RetryInv, TypeInv', NEW h \in Handler, InsertSession(h)
    PROVE  RetryInv'
<1>0. TypeInv /\ Behind /\ Limited /\ NoMatchIsLast /\ Room
    BY DEF RetryInv
<1>1. ~At(h, "idle") /\ Goto(h, "send") /\ handler[h].pc \in Starting /\ UNCHANGED <<task, requests>>
    BY DEF InsertSession, At, Starting, boundVars
<1>2. PICK t \in Task : t = handler[h].task
    BY <1>0, <1>1, Working
<1>3. PICK w \in HandlerRow : Become(h, w) /\ w.pc = "send" /\ w.task = t /\ w.row = handler[h].row
    BY <1>0, <1>1, <1>2, Goes, Labels
<1>4. StillBehind
    BY <1>0, <1>1, <1>2, <1>3, GoesOn DEF Starting
<1>5. Behind' /\ Limited' /\ NoMatchIsLast'
    BY <1>0, <1>1, <1>4 DEF Behind, StillBehind, Limited, NoMatchIsLast
<1>6. \A g \in Handler : handler'[g] = IF g = h THEN w ELSE handler[g]
    BY <1>0, <1>3 DEF Become, TypeInv, TypeOK
<1>7. sessions' = [sessions EXCEPT ![t] = Append(@, NewSession)]
    BY <1>2 DEF InsertSession, JobOf
<1>8. Room'
  <2> SUFFICES ASSUME NEW u \in Task
               PROVE  Len(sessions'[u]) + Cardinality(Starters(u)') <= requests' + task'[u].auto
    BY DEF Room
  <2>1. Len(sessions[u]) + Cardinality(Starters(u)) <= requests + task[u].auto
    BY <1>0 DEF Room
  <2>2. /\ requests \in Nat /\ task[u].auto \in Nat /\ Len(sessions[u]) \in Nat
        /\ IsFiniteSet(Starters(u)) /\ Cardinality(Starters(u)) \in Nat
    BY <1>0, Numbers
  <2>3. CASE u = t
    <3>1. h \in Starters(u) /\ Starters(u)' = Starters(u) \ {h}
      BY <1>1, <1>2, <1>3, <1>6, <2>3 DEF Starters, Starting
    <3>2. Cardinality(Starters(u)') = Cardinality(Starters(u)) - 1
      BY <2>2, <3>1, FS_RemoveElement
    <3>3. Len(sessions'[u]) = Len(sessions[u]) + 1
      <4>1. sessions[u] \in Seq(DispatchSession) /\ NewSession \in DispatchSession
        BY <1>0, Lengths, Defaults
      <4>2. sessions'[u] = Append(sessions[u], NewSession)
        BY <1>0, <1>7, <2>3 DEF TypeInv, TypeOK
      <4> QED
        BY <4>1, <4>2
    <3> QED
      BY <1>1, <2>1, <2>2, <3>2, <3>3
  <2>4. CASE u # t
    <3>1. Starters(u)' \subseteq Starters(u)
      BY <1>2, <1>3, <1>6, <2>4 DEF Starters
    <3>2. Cardinality(Starters(u)') \in Nat /\ Cardinality(Starters(u)') <= Cardinality(Starters(u))
      BY <1>0, <3>1, Fewer
    <3>3. sessions'[u] = sessions[u]
      BY <1>0, <1>7, <2>4 DEF TypeInv, TypeOK
    <3> QED
      BY <1>1, <2>1, <2>2, <3>2, <3>3
  <2> QED
    BY <2>3, <2>4
<1> QED
    BY <1>5, <1>8 DEF RetryInv

-----------------------------------------------------------------------------
LEMMA RetryInit == Init => RetryInv
<1> SUFFICES ASSUME Init
             PROVE  RetryInv
    OBVIOUS
<1>1. TypeInv
    BY TypeInit
<1>2. \A h \in Handler : handler[h].pc = "idle" /\ "idle" \notin Starting
    BY Defaults DEF Init, Starting
<1>3. \A t \in Task : task[t].auto = 0 /\ task[t].status = "DRAFT" /\ Len(sessions[t]) = 0
    BY DEF Init, Draft
<1>4. \A t \in Task : Starters(t) = {}
    BY <1>2 DEF Starters
<1>5. Behind
    BY <1>2 DEF Behind
<1>6. Limited /\ NoMatchIsLast
    BY <1>3, ConstantsAssumption DEF Limited, NoMatchIsLast
<1>7. requests = 0 /\ Cardinality({}) = 0
    BY FS_EmptySet DEF Init
<1>8. Room
  <2> SUFFICES ASSUME NEW t \in Task
               PROVE  Len(sessions[t]) + Cardinality(Starters(t)) <= requests + task[t].auto
    BY DEF Room
  <2>1. Cardinality(Starters(t)) = 0
    BY <1>4, <1>7
  <2> QED
    BY <1>3, <1>7, <2>1
<1> QED
    BY <1>1, <1>5, <1>6, <1>8 DEF RetryInv

LEMMA RetryNext == RetryInv /\ [Next]_vars => RetryInv'
<1> SUFFICES ASSUME RetryInv, [Next]_vars
             PROVE  RetryInv'
    OBVIOUS
<1>0. TypeInv /\ Behind /\ TypeInv'
    BY TypeNext DEF RetryInv
<1>1. CASE UNCHANGED vars
  <2>1. UNCHANGED <<task, sessions, handler, requests>>
    BY <1>1 DEF vars
  <2>2. Steady
    BY <1>0, <2>1, StandStill, SameSessions, SameTasks DEF Steady
  <2> QED
    BY <1>0, <2>2, SteadySteps
<1>2. ASSUME NEW h \in Handler, HandlerStep(h)
      PROVE  RetryInv'
  <2>1. CASE BeginningStep(h)
    BY <1>0, <2>1, InsertRetries, BeginningSteady, SteadySteps DEF BeginningStep, SteadyBeginning
  <2>2. CASE NoMatchStep(h) \/ AnswerStep(h) \/ MatchingStep(h)
    BY <1>0, <2>2, NoMatchSteady, AnswerSteady, MatchingSteady, SteadySteps
  <2> QED
    BY <1>2, <2>1, <2>2 DEF HandlerStep
<1>3. ASSUME NEW h \in Handler, HandlerStart(h)
      PROVE  RetryInv'
  <2>1. CASE \E m \in msgs : Deliver(h, m)
    <3>1. PICK m \in msgs : Deliver(h, m)
      BY <2>1
    <3>2. AutoRetry(h, m) \/ SteadyDelivery(h, m)
      BY <3>1 DEF Deliver, SteadyDelivery
    <3> QED
      BY <1>0, <3>2, RetryRetries, DeliverySteady, SteadySteps
  <2>2. CASE \E t \in Task : BeginConfirm(h, t) \/ ManualRedispatch(h, t) \/ RevokeAssignment(h, t)
    BY <1>0, <2>2, RequestRetries
  <2>3. CASE Answers(h)
    BY <1>0, <2>3, BeginAnswerSteady, SteadySteps DEF Answers
  <2> QED
    BY <1>3, <2>1, <2>2, <2>3 DEF HandlerStart
<1>4. ASSUME NEW h \in Handler, Crash(h)
      PROVE  RetryInv'
    BY <1>0, <1>4, CrashSteady, SteadySteps
<1>5. ASSUME NEW t \in Task, Beat(t) \/ Clock(t)
      PROVE  RetryInv'
    BY <1>0, <1>5, BeatAndClockSteady, SteadySteps
<1> QED
    BY <1>1, <1>2, <1>3, <1>4, <1>5 DEF Next

\* What a handler knows of a task's retries is never ahead of the task, and
\* every session is accounted for by a request or a retry.
THEOREM RetryInvariant == Spec => []RetryInv
BY RetryInit, RetryNext, PTL DEF Spec

\* Whatever stale rows handlers judge by, and however many of them retry the
\* same task, its automatic retries stay within AUTO_DISPATCH_MAX, and its
\* sessions within its requests and retries.
THEOREM RetriesStayBounded == Spec => []RetriesBounded
<1>1. RetryInv => RetriesBounded
  <2> SUFFICES ASSUME RetryInv, NEW t \in Task
               PROVE  task[t].auto <= AutoMax /\ Len(sessions[t]) <= requests + task[t].auto
    BY DEF RetriesBounded
  <2>1. TypeInv /\ task[t].auto <= AutoMax
    BY DEF RetryInv, Limited
  <2>2. Len(sessions[t]) + Cardinality(Starters(t)) <= requests + task[t].auto
    BY DEF RetryInv, Room
  <2> QED
    BY <2>1, <2>2, Numbers
<1> QED
    BY <1>1, RetryInvariant, PTL

\* handle_no_match gives a task up on the word of a row that may be stale;
\* yet no task is given up that has a retry left.
THEOREM GivenUpLast == Spec => []NoMatchIsLast
<1>1. RetryInv => NoMatchIsLast
    BY DEF RetryInv
<1> QED
    BY <1>1, RetryInvariant, PTL

-----------------------------------------------------------------------------
(***************************************************************************)
(* What happens to the offers of a session.  Its match message is taken    *)
(* once, and makes batches that share no provider: so a provider is        *)
(* offered a task at most once in a session, and the answer it saves is    *)
(* never overwritten by a later ping.                                      *)
(***************************************************************************)
About(x, t, i) == x.task = t /\ x.seq = i

\* The session still has to be matched, by a message or by a handler.
MatchSent(m, t, i) == m.kind = "match" /\ About(m, t, i)
MatchRuns(h, t, i) == handler[h].pc \in {"send", "fetch"} /\ About(handler[h], t, i)

\* The provider still has to be pinged, by a batch message or by a handler.
BatchSent(m, t, i, v) == m.kind = "batch" /\ About(m, t, i) /\ v \in m.cands
BatchRuns(h, t, i, v) ==
    handler[h].pc = "ping" /\ About(handler[h], t, i) /\ v \in handler[h].cands

MatchedOnce ==
    \A t \in Task, i \in Nat :
        /\ \A m, n \in msgs : MatchSent(m, t, i) /\ MatchSent(n, t, i) => m = n
        /\ \A g, h \in Handler : MatchRuns(g, t, i) /\ MatchRuns(h, t, i) => g = h
        /\ \A m \in msgs, h \in Handler : ~(MatchSent(m, t, i) /\ MatchRuns(h, t, i))

InvitedOnce ==
    \A t \in Task, i \in Nat, v \in Provider :
        /\ \A m, n \in msgs : BatchSent(m, t, i, v) /\ BatchSent(n, t, i, v) => m = n
        /\ \A g, h \in Handler : BatchRuns(g, t, i, v) /\ BatchRuns(h, t, i, v) => g = h
        /\ \A m \in msgs, h \in Handler : ~(BatchSent(m, t, i, v) /\ BatchRuns(h, t, i, v))

\* The batches come after the matching, and before the offer.
Fresh(t, i, v) ==
    /\ sessions[t][i].offer[v] = "NONE"
    /\ \A m \in msgs : ~MatchSent(m, t, i)
    /\ \A h \in Handler : ~MatchRuns(h, t, i)

InvitedAfresh ==
    \A t \in Task, i \in Nat, v \in Provider :
        /\ \A m \in msgs : BatchSent(m, t, i, v) => Fresh(t, i, v)
        /\ \A h \in Handler : BatchRuns(h, t, i, v) => Fresh(t, i, v)

\* A provider answers one ping at a time, and its answer is the last word.
AnswersAlone ==
    \A g, h \in Handler :
        handler[g].pc \in AnswerLabel /\ Answering(h, handler[g].provider) => g = h

OfferOf(w) == sessions[w.task][w.seq].offer[w.provider]
Accepting == {"assign", "assignment", "on_task", "close"}

AnswersCount ==
    \A h \in Handler :
        /\ handler[h].pc \in AnswerLabel => handler[h].provider \in Provider
        /\ handler[h].pc = "answer" => OfferOf(handler[h]) \notin {"NONE", "ACCEPTED", "DECLINED"}
        /\ handler[h].pc \in Accepting => OfferOf(handler[h]) = "ACCEPTED"

OfferInv == MatchedOnce /\ InvitedOnce /\ InvitedAfresh /\ AnswersAlone /\ AnswersCount

(***************************************************************************)
(* Most steps leave offers alone but for what the clock, the recovery of   *)
(* stale attempts and the closing of sessions do to open ones; they start  *)
(* no matching, no ping and no answer.                                     *)
(***************************************************************************)
Lost(o, p) ==
    \/ o = "PENDING" /\ p = "LAPSED"
    \/ o = "LAPSED" /\ p = "TIMEOUT"
    \/ o \in Open /\ p = "CANCELLED"

\* An offer expires while it is being answered only if answers may be late.
MayLapse(v) == LateAnswers \/ \A h \in Handler : ~Answering(h, v)

Mild ==
    \A t \in Task, v \in Provider : \A i \in 1 .. Len(sessions[t]) :
        \/ sessions'[t][i].offer[v] = sessions[t][i].offer[v]
        \/ /\ Lost(sessions[t][i].offer[v], sessions'[t][i].offer[v])
           /\ sessions'[t][i].offer[v] = "LAPSED" => MayLapse(v)

WorkLabel == {"send", "fetch", "ping"}
NoNewWork ==
    /\ \A g \in Handler : handler'[g].pc \in WorkLabel => handler'[g] = handler[g]
    /\ \A m \in msgs' \ msgs : m.kind \in {"retry", "check"}

AnswersGoOn ==
    \A g \in Handler : handler'[g].pc \in AnswerLabel =>
        /\ handler[g].pc \in AnswerLabel /\ handler'[g].provider = handler[g].provider
        /\ handler'[g].task = handler[g].task /\ handler'[g].seq = handler[g].seq
        /\ \/ handler'[g].pc = handler[g].pc
           \/ handler'[g].pc \in Accepting /\ handler[g].pc \in Accepting

Ordinary == Mild /\ Level /\ NoNewWork /\ AnswersGoOn

-----------------------------------------------------------------------------
(***************************************************************************)
(* The steps, as far as offers and handlers go.                            *)
(***************************************************************************)
Writes(t, i, row) == sessions' = [sessions EXCEPT ![t] = [@ EXCEPT ![i] = row]]
WritesStatus(t, i, s) == sessions' = [sessions EXCEPT ![t][i].status = s]

LEMMA RowWritten ==
    ASSUME TypeInv, NEW t \in Task, NEW i \in 1 .. Len(sessions[t]), NEW row \in DispatchSession,
           Writes(t, i, row)
    PROVE  /\ Level
           /\ \A u \in Task : \A j \in 1 .. Len(sessions[u]) :
                  sessions'[u][j] = IF u = t /\ j = i THEN row ELSE sessions[u][j]
<1>1. PICK s : s = sessions[t] /\ DOMAIN s = 1 .. Len(s)
    BY Lengths
<1>2. \A j \in 1 .. Len(s) : [s EXCEPT ![i] = row][j] = IF j = i THEN row ELSE s[j]
    BY <1>1
<1>3. \A u \in Task : sessions'[u] = IF u = t THEN [s EXCEPT ![i] = row] ELSE sessions[u]
    BY <1>1 DEF TypeInv, TypeOK, Writes
<1>4. Level
    BY Overwritten DEF Writes
<1> QED
    BY <1>1, <1>2, <1>3, <1>4

LEMMA AllWritten ==
    ASSUME TypeInv, NEW t \in Task, NEW s \in [1 .. Len(sessions[t]) -> DispatchSession],
           sessions' = [sessions EXCEPT ![t] = s]
    PROVE  \A u \in Task : \A j \in 1 .. Len(sessions[u]) :
               sessions'[u][j] = IF u = t THEN s[j] ELSE sessions[u][j]
BY DEF TypeInv, TypeOK

LEMMA SessionsStay ==
    ASSUME TypeInv, UNCHANGED sessions
    PROVE  Mild /\ Level
BY SameSessions DEF Mild

\* The status of a session is saved, and no offer.
LEMMA StatusSaved ==
    ASSUME TypeInv, NEW t \in Task, NEW i \in 1 .. Len(sessions[t]), NEW s \in DispatchSessionStatus,
           WritesStatus(t, i, s)
    PROVE  /\ Level
           /\ \A u \in Task, v \in Provider : \A j \in 1 .. Len(sessions[u]) :
                  sessions'[u][j].offer[v] = sessions[u][j].offer[v]
<1>1. sessions[t][i] \in DispatchSession
    BY Lengths
<1>2. PICK row \in DispatchSession : row = [sessions[t][i] EXCEPT !.status = s]
    BY <1>1, SessionRows
<1>3. Writes(t, i, row)
    BY <1>2 DEF TypeInv, TypeOK, Writes, WritesStatus
<1>4. row.offer = sessions[t][i].offer
    BY <1>1, <1>2 DEF DispatchSession
<1> QED
    BY <1>3, <1>4, RowWritten

\* Only handler h moves, to row w.
LEMMA Becomes ==
    ASSUME TypeInv, NEW h \in Handler, NEW w, Become(h, w)
    PROVE  \A g \in Handler : handler'[g] = IF g = h THEN w ELSE handler[g]
BY DEF Become, TypeInv, TypeOK

LEMMA MovesElsewhere ==
    ASSUME TypeInv, NEW h \in Handler, NEW w, Become(h, w),
           w.pc \notin WorkLabel, w.pc \notin AnswerLabel,
           \A m \in msgs' \ msgs : m.kind \in {"retry", "check"}
    PROVE  NoNewWork /\ AnswersGoOn
<1>1. \A g \in Handler : handler'[g] = IF g = h THEN w ELSE handler[g]
    BY Becomes
<1> QED
    BY <1>1 DEF NoNewWork, AnswersGoOn

LEMMA StandsStill ==
    ASSUME UNCHANGED handler, \A m \in msgs' \ msgs : m.kind \in {"retry", "check"}
    PROVE  NoNewWork /\ AnswersGoOn
BY DEF NoNewWork, AnswersGoOn

\* The labels that are neither.
LEMMA Elsewhere ==
    /\ \A l \in {"idle", "confirm", "reload", "start", "reopen", "sequence", "insert", "fail",
                 "no_match", "exhaust", "check"} : l \notin WorkLabel /\ l \notin AnswerLabel
    /\ \A l \in WorkLabel : l \notin AnswerLabel /\ l # "idle"
    /\ "answer" \in AnswerLabel /\ "release" \in AnswerLabel /\ Accepting \subseteq AnswerLabel
    /\ "answer" \notin Accepting /\ "release" \notin Accepting /\ "idle" \notin AnswerLabel
BY DEF WorkLabel, AnswerLabel, Accepting

LEMMA FinishesElsewhere ==
    ASSUME TypeInv, NEW h \in Handler, Finish(h), \A m \in msgs' \ msgs : m.kind \in {"retry", "check"}
    PROVE  NoNewWork /\ AnswersGoOn
BY Elsewhere, MovesElsewhere, Defaults DEF Finish

\* A handler goes on with all it has but its label.
LEMMA GoesWhole ==
    ASSUME TypeInv, NEW h \in Handler, NEW l \in Label, Goto(h, l)
    PROVE  \E w \in HandlerRow :
               /\ Become(h, w) /\ w.pc = l /\ w.task = handler[h].task /\ w.seq = handler[h].seq
               /\ w.provider = handler[h].provider /\ w.cands = handler[h].cands
               /\ w.row = handler[h].row /\ w.accept = handler[h].accept
<1>0. handler[h] \in HandlerRow
    BY DEF TypeInv, TypeOK
<1>1. PICK w : w = [handler[h] EXCEPT !.pc = l]
    OBVIOUS
<1>2. /\ w \in HandlerRow /\ w.pc = l /\ w.task = handler[h].task /\ w.seq = handler[h].seq
      /\ w.provider = handler[h].provider /\ w.cands = handler[h].cands
      /\ w.row = handler[h].row /\ w.accept = handler[h].accept
    BY <1>0, <1>1 DEF HandlerRow
<1> QED
    BY <1>1, <1>2 DEF Goto

LEMMA GoesElsewhere ==
    ASSUME TypeInv, NEW h \in Handler, NEW l \in Label, Goto(h, l), UNCHANGED msgs,
           l \notin WorkLabel, l \notin AnswerLabel
    PROVE  NoNewWork /\ AnswersGoOn
<1>1. PICK w \in HandlerRow : Become(h, w) /\ w.pc = l
    BY GoesWhole
<1> QED
    BY <1>1, MovesElsewhere

-----------------------------------------------------------------------------
(***************************************************************************)
(* The ordinary steps, group by group.                                     *)
(***************************************************************************)
LEMMA RequestsOrdinary ==
    ASSUME TypeInv, NEW h \in Handler, NEW t \in Task,
           BeginConfirm(h, t) \/ ManualRedispatch(h, t) \/ RevokeAssignment(h, t)
    PROVE  Ordinary
<1>1. UNCHANGED <<sessions, msgs>>
    BY DEF BeginConfirm, ManualRedispatch, RevokeAssignment, rowVars
<1>2. task[t] \in TaskRow /\ assignment[t].provider \in Provider \cup {NoProvider}
    BY DEF TypeInv, TypeOK, AssignmentRow
<1>3. NoNewWork /\ AnswersGoOn
  <2>1. CASE BeginConfirm(h, t)
    <3>1. PICK w : w = [Idle EXCEPT !.pc = "confirm", !.task = t, !.row = task[t]] /\ Become(h, w)
      BY <2>1 DEF BeginConfirm
    <3>2. w.pc = "confirm"
      BY <1>2, <3>1, Labels, Defaults DEF HandlerRow
    <3> QED
      BY <1>1, <3>1, <3>2, Elsewhere, MovesElsewhere
  <2>2. CASE ManualRedispatch(h, t)
    <3>1. PICK w : w = [Idle EXCEPT !.pc = "sequence", !.task = t] /\ Become(h, w)
      BY <2>2 DEF ManualRedispatch
    <3>2. w.pc = "sequence"
      BY <3>1, Labels, Defaults DEF HandlerRow
    <3> QED
      BY <1>1, <3>1, <3>2, Elsewhere, MovesElsewhere
  <2>3. CASE RevokeAssignment(h, t)
    <3>1. PICK w : /\ w = [Idle EXCEPT !.pc = "reopen", !.task = t, !.row = task[t],
                                       !.provider = assignment[t].provider]
                   /\ Become(h, w)
      BY <2>3 DEF RevokeAssignment
    <3>2. w.pc = "reopen"
      BY <1>2, <3>1, Labels, Defaults DEF HandlerRow
    <3> QED
      BY <1>1, <3>1, <3>2, Elsewhere, MovesElsewhere
  <2> QED
    BY <2>1, <2>2, <2>3
<1> QED
    BY <1>1, <1>3, SessionsStay DEF Ordinary

LEMMA BeginningOrdinary ==
    ASSUME TypeInv, NEW h \in Handler, BeginningStep(h), ~InsertSession(h), ~SendMatch(h)
    PROVE  Ordinary
<1>0. handler[h] \in HandlerRow
    BY DEF TypeInv, TypeOK
<1>1. UNCHANGED <<sessions, msgs>> /\ ~At(h, "idle")
    BY DEF BeginningStep, ConfirmDraft, ReloadTask, StartInitialDispatch, NotEligible, ReopenTask,
           GetNextSequence, InsertCollides, rowVars, At
<1>2. NoNewWork /\ AnswersGoOn
  <2>1. CASE ConfirmDraft(h)
    BY <1>1, <2>1, Labels, Elsewhere, GoesElsewhere DEF ConfirmDraft
  <2>2. CASE ReloadTask(h)
    <3>1. PICK w : w = [handler[h] EXCEPT !.pc = "start", !.row = task[JobOf(h)]] /\ Become(h, w)
      BY <2>2 DEF ReloadTask
    <3>2. w.pc = "start"
      BY <1>0, <3>1 DEF HandlerRow
    <3> QED
      BY <1>1, <3>1, <3>2, Elsewhere, MovesElsewhere
  <2>3. CASE StartInitialDispatch(h) \/ ReopenTask(h)
    <3>1. Continue(h, "sequence")
      BY <2>3 DEF StartInitialDispatch, ReopenTask
    <3>2. PICK w \in HandlerRow : Become(h, w) /\ w.pc = "sequence"
      BY <1>1, <3>1, Continues, Labels
    <3> QED
      BY <1>1, <3>2, Elsewhere, MovesElsewhere
  <2>4. CASE NotEligible(h) \/ InsertCollides(h)
    BY <1>1, <2>4, FinishesElsewhere DEF NotEligible, InsertCollides
  <2>5. CASE GetNextSequence(h)
    <3>1. PICK w : w = [handler[h] EXCEPT !.pc = "insert", !.seq = Len(sessions[JobOf(h)]) + 1]
                   /\ Become(h, w)
      BY <2>5 DEF GetNextSequence
    <3>2. w.pc = "insert"
      BY <1>0, <3>1 DEF HandlerRow
    <3> QED
      BY <1>1, <3>1, <3>2, Elsewhere, MovesElsewhere
  <2> QED
    BY <2>1, <2>2, <2>3, <2>4, <2>5 DEF BeginningStep
<1> QED
    BY <1>1, <1>2, SessionsStay DEF Ordinary

\* handle_no_match saves the status of the session, or nothing.
LEMMA SessionStatus ==
    ASSUME TypeInv, NEW h \in Handler, handler[h].pc \in Indexed, NEW s \in DispatchSessionStatus,
           sessions' = SaveSession(h, s)
    PROVE  Mild /\ Level
<1>1. PICK t \in Task, i \in Nat : t = handler[h].task /\ i = handler[h].seq /\ i \in 1 .. Len(sessions[t])
  <2>1. ~At(h, "idle")
    BY Indexing DEF At
  <2> QED
    BY <2>1, Working DEF HandlerRow
<1>2. CASE sessions' = sessions
    BY <1>2, SessionsStay
<1>3. CASE sessions' = [sessions EXCEPT ![t][i].status = s]
  <2>1. i \in 1 .. Len(sessions[t])
    BY <1>1
  <2>2. /\ Level
        /\ \A u \in Task, v \in Provider : \A j \in 1 .. Len(sessions[u]) :
               sessions'[u][j].offer[v] = sessions[u][j].offer[v]
    <3>1. WritesStatus(t, i, s)
      BY <1>3 DEF WritesStatus
    <3> QED
      BY <1>1, <3>1, StatusSaved
  <2> QED
    BY <2>2 DEF Mild
<1> QED
    BY <1>1, <1>2, <1>3 DEF SaveSession, JobOf

LEMMA NoMatchOrdinary ==
    ASSUME TypeInv, NEW h \in Handler, NoMatchStep(h)
    PROVE  Ordinary
<1>0. handler[h] \in HandlerRow /\ UNCHANGED msgs
    BY DEF TypeInv, TypeOK, NoMatchStep, FailSession, ScheduleRetry, ExhaustTask, ExhaustSession
<1>1. CASE FailSession(h)
  <2>1. PICK w : /\ w = [handler[h] EXCEPT !.pc = "no_match", !.ss = sessions'[JobOf(h)][handler[h].seq].status]
                 /\ Become(h, w)
    BY <1>1 DEF FailSession
  <2>2. w.pc = "no_match"
    BY <1>0, <2>1 DEF HandlerRow
  <2>3. NoNewWork /\ AnswersGoOn
    BY <1>0, <2>1, <2>2, Elsewhere, MovesElsewhere
  <2>4. handler[h].pc \in Indexed /\ "FAILED" \in DispatchSessionStatus /\ sessions' = SaveSession(h, "FAILED")
    BY <1>1, Indexing DEF FailSession, At, DispatchSessionStatus
  <2> QED
    BY <2>3, <2>4, SessionStatus DEF Ordinary
<1>2. CASE ScheduleRetry(h)
  <2>1. Finish(h) /\ UNCHANGED sessions
    BY <1>2 DEF ScheduleRetry
  <2> QED
    BY <1>0, <2>1, FinishesElsewhere, SessionsStay DEF Ordinary
<1>3. CASE ExhaustTask(h)
  <2>1. PICK w : w = [handler[h] EXCEPT !.pc = "exhaust", !.row = Draft] /\ Become(h, w)
    BY <1>3 DEF ExhaustTask
  <2>2. w.pc = "exhaust" /\ UNCHANGED sessions
    BY <1>0, <1>3, <2>1 DEF HandlerRow, ExhaustTask
  <2> QED
    BY <1>0, <2>1, <2>2, Elsewhere, MovesElsewhere, SessionsStay DEF Ordinary
<1>4. CASE ExhaustSession(h)
  <2>1. handler[h].pc \in Indexed /\ "EXHAUSTED" \in DispatchSessionStatus
        /\ sessions' = SaveSession(h, "EXHAUSTED") /\ Finish(h)
    BY <1>4, Indexing DEF ExhaustSession, At, DispatchSessionStatus
  <2> QED
    BY <1>0, <2>1, FinishesElsewhere, SessionStatus DEF Ordinary
<1> QED
    BY <1>1, <1>2, <1>3, <1>4 DEF NoMatchStep

\* A handler that answers goes on to label l, with what it needs.
LEMMA AnswersOn ==
    ASSUME TypeInv, NEW h \in Handler, NEW w, Become(h, w), UNCHANGED msgs,
           handler[h].pc \in Accepting, w.pc \in Accepting,
           w.task = handler[h].task, w.seq = handler[h].seq, w.provider = handler[h].provider
    PROVE  NoNewWork /\ AnswersGoOn
<1>1. \A g \in Handler : handler'[g] = IF g = h THEN w ELSE handler[g]
    BY Becomes
<1>2. w.pc \in AnswerLabel /\ handler[h].pc \in AnswerLabel /\ w.pc \notin WorkLabel
    BY Elsewhere
<1> QED
    BY <1>1, <1>2 DEF NoNewWork, AnswersGoOn

LEMMA AnswersOrdinary ==
    ASSUME TypeInv, NEW h \in Handler, AnswerStep(h), ~SaveAnswer(h)
    PROVE  Ordinary
<1>0. handler[h] \in HandlerRow /\ UNCHANGED msgs
    BY DEF TypeInv, TypeOK, AnswerStep, AssignTask, UpdateAssignment, InsertAssignment,
           InsertAssignmentRaises, SetOnTask, CloseSessions, ReleaseProvider
<1>1. CASE AssignTask(h)
  <2>1. PICK w : /\ w = [handler[h] EXCEPT !.pc = "assignment", !.row = Draft, !.asg = assignment[JobOf(h)]]
                 /\ Become(h, w)
    BY <1>1 DEF AssignTask
  <2>2. /\ handler[h].pc = "assign" /\ w.pc = "assignment" /\ w.task = handler[h].task
        /\ w.seq = handler[h].seq /\ w.provider = handler[h].provider /\ UNCHANGED sessions
    BY <1>0, <1>1, <2>1 DEF HandlerRow, AssignTask, At
  <2> QED
    BY <1>0, <2>1, <2>2, AnswersOn, SessionsStay DEF Ordinary, Accepting
<1>2. CASE UpdateAssignment(h) \/ InsertAssignment(h)
  <2>1. PICK w : w = [handler[h] EXCEPT !.pc = "on_task", !.asg = NoAssignment] /\ Become(h, w)
    BY <1>2 DEF UpdateAssignment, InsertAssignment
  <2>2. /\ handler[h].pc = "assignment" /\ w.pc = "on_task" /\ w.task = handler[h].task
        /\ w.seq = handler[h].seq /\ w.provider = handler[h].provider /\ UNCHANGED sessions
    BY <1>0, <1>2, <2>1 DEF HandlerRow, UpdateAssignment, InsertAssignment, At
  <2> QED
    BY <1>0, <2>1, <2>2, AnswersOn, SessionsStay DEF Ordinary, Accepting
<1>3. CASE InsertAssignmentRaises(h)
  <2>1. Finish(h) /\ UNCHANGED sessions
    BY <1>3 DEF InsertAssignmentRaises, rowVars
  <2> QED
    BY <1>0, <2>1, FinishesElsewhere, SessionsStay DEF Ordinary
<1>4. CASE SetOnTask(h)
  <2>1. PICK w \in HandlerRow : /\ Become(h, w) /\ w.pc = "close" /\ w.task = handler[h].task
                                /\ w.seq = handler[h].seq /\ w.provider = handler[h].provider
    BY <1>4, GoesWhole, Labels DEF SetOnTask
  <2>2. handler[h].pc = "on_task" /\ UNCHANGED sessions
    BY <1>4 DEF SetOnTask, At
  <2> QED
    BY <1>0, <2>1, <2>2, AnswersOn, SessionsStay DEF Ordinary, Accepting
<1>5. CASE CloseSessions(h)
  <2>1. ~At(h, "idle") /\ Finish(h)
    BY <1>5 DEF CloseSessions, At
  <2>2. PICK t \in Task : t = handler[h].task
    BY <2>1, Working
  <2>3. PICK s : s = [i \in 1 .. Len(sessions[t]) |-> Closed(sessions[t][i])]
    OBVIOUS
  <2>4. s \in [1 .. Len(sessions[t]) -> DispatchSession]
    BY <2>3, Lengths, SessionRows
  <2>5. sessions' = [sessions EXCEPT ![t] = s]
    BY <1>5, <2>2, <2>3 DEF CloseSessions, JobOf, TypeInv, TypeOK
  <2>6. Level
    BY <2>4, <2>5, UpdatesAll
  <2>7. \A i \in 1 .. Len(sessions[t]), v \in Provider :
            s[i].offer[v] = IF sessions[t][i].offer[v] \in Open THEN "CANCELLED" ELSE sessions[t][i].offer[v]
    BY <2>3 DEF Closed
  <2>8. Mild
    BY <2>4, <2>5, <2>7, AllWritten DEF Mild, Lost
  <2> QED
    BY <1>0, <2>1, <2>6, <2>8, FinishesElsewhere DEF Ordinary
<1>6. CASE ReleaseProvider(h)
  <2>1. CASE EndsSession(h)
    <3>1. PICK w : /\ w = [handler[h] EXCEPT !.pc = "no_match", !.ss = "FAILED", !.provider = NoProvider]
                   /\ Become(h, w)
      BY <1>6, <2>1 DEF ReleaseProvider
    <3>2. w.pc = "no_match" /\ ~At(h, "idle") /\ handler[h].pc \in Indexed
      BY <1>0, <1>6, <3>1, Indexing DEF HandlerRow, ReleaseProvider, At
    <3>3. PICK t \in Task, i \in Nat : t = handler[h].task /\ i = handler[h].seq /\ i \in 1 .. Len(sessions[t])
      BY <3>2, Working DEF HandlerRow
    <3>4. sessions' = [sessions EXCEPT ![t][i].status = "FAILED"] /\ "FAILED" \in DispatchSessionStatus
      BY <1>6, <2>1, <3>3 DEF ReleaseProvider, JobOf, DispatchSessionStatus
    <3>5. Mild /\ Level
      BY <3>3, <3>4, StatusSaved DEF Mild, WritesStatus
    <3> QED
      BY <1>0, <3>1, <3>2, <3>5, Elsewhere, MovesElsewhere DEF Ordinary
  <2>2. CASE ~EndsSession(h)
    <3>1. Finish(h) /\ UNCHANGED sessions
      BY <1>6, <2>2 DEF ReleaseProvider
    <3> QED
      BY <1>0, <3>1, FinishesElsewhere, SessionsStay DEF Ordinary
  <2> QED
    BY <2>1, <2>2
<1> QED
    BY <1>1, <1>2, <1>3, <1>4, <1>5, <1>6 DEF AnswerStep

\* What recover_stale_attempts does to offers.
LEMMA RecoversOffers ==
    ASSUME TypeInv, NEW t \in Task, RecoverStaleAttempts(t)
    PROVE  /\ Level /\ Mild
           /\ \A u \in Task, v \in Provider : \A i \in 1 .. Len(sessions[u]) :
                  sessions'[u][i].offer[v] = IF u = t /\ sessions[u][i].offer[v] = "LAPSED" THEN "TIMEOUT"
                                             ELSE sessions[u][i].offer[v]
<1>1. PICK s : s = [i \in 1 .. Len(sessions[t]) |-> TimedOut(sessions[t][i])]
    OBVIOUS
<1>2. sessions' = [sessions EXCEPT ![t] = s]
    BY <1>1 DEF RecoverStaleAttempts, TypeInv, TypeOK
<1>3. \A i \in 1 .. Len(sessions[t]), v \in Provider :
          s[i].offer[v] = IF sessions[t][i].offer[v] = "LAPSED" THEN "TIMEOUT" ELSE sessions[t][i].offer[v]
  <2> SUFFICES ASSUME NEW i \in 1 .. Len(sessions[t]), NEW v \in Provider
               PROVE  s[i].offer[v] = IF sessions[t][i].offer[v] = "LAPSED" THEN "TIMEOUT"
                                      ELSE sessions[t][i].offer[v]
    OBVIOUS
  <2>1. sessions[t][i] \in DispatchSession /\ s[i] = TimedOut(sessions[t][i])
    BY <1>1, Lengths
  <2> QED
    BY <2>1 DEF TimedOut, DispatchSession
<1>4. \A u \in Task, v \in Provider : \A i \in 1 .. Len(sessions[u]) :
          sessions'[u][i].offer[v] = IF u = t /\ sessions[u][i].offer[v] = "LAPSED" THEN "TIMEOUT"
                                     ELSE sessions[u][i].offer[v]
  <2>1. \A u \in Task : \A i \in 1 .. Len(sessions[u]) :
            sessions'[u][i] = IF u = t THEN s[i] ELSE sessions[u][i]
    BY <1>2 DEF TypeInv, TypeOK
  <2> QED
    BY <1>3, <2>1
<1>5. Mild
    BY <1>4 DEF Mild, Lost
<1> QED
    BY <1>4, <1>5, Recovers

LEMMA MatchingOrdinary ==
    ASSUME TypeInv, NEW h \in Handler, NoCandidates(h) \/ AbandonBatch(h) \/ ScheduleCheck(h)
    PROVE  Ordinary
<1>1. UNCHANGED sessions /\ \A m \in msgs' \ msgs : m.kind \in {"retry", "check"}
    BY DEF NoCandidates, AbandonBatch, ScheduleCheck, rowVars
<1>2. CASE NoCandidates(h)
    BY <1>1, <1>2, Labels, Elsewhere, GoesElsewhere, SessionsStay DEF NoCandidates, Ordinary
<1>3. CASE AbandonBatch(h) \/ ScheduleCheck(h)
    BY <1>1, <1>3, FinishesElsewhere, SessionsStay DEF AbandonBatch, ScheduleCheck, Ordinary
<1> QED
    BY <1>2, <1>3

LEMMA DeliveriesOrdinary ==
    ASSUME TypeInv, NEW h \in Handler, NEW m \in msgs, Deliver(h, m), ~RunMatching(h, m), ~RunBatch(h, m)
    PROVE  Ordinary
<1>1. UNCHANGED sessions /\ msgs' \subseteq msgs
    BY DEF Deliver, AutoRetry, AutoRetryExhausted, AutoRetryTaken, MatchInactive, SkipBatch,
           CheckExhaustion, CheckMoot, rowVars
<1>2. CASE AutoRetry(h, m)
  <2>1. PICK w : w = [Idle EXCEPT !.pc = "sequence", !.task = m.task] /\ Become(h, w)
    BY <1>2 DEF AutoRetry
  <2>2. w.pc = "sequence"
    BY <2>1, Defaults DEF HandlerRow
  <2> QED
    BY <1>1, <2>1, <2>2, Elsewhere, MovesElsewhere, SessionsStay DEF Ordinary
<1>3. CASE MatchInactive(h, m) \/ CheckExhaustion(h, m)
  <2>1. m.kind # "retry" /\ Become(h, Loaded(m, "fail"))
    BY <1>3 DEF MatchInactive, CheckExhaustion
  <2>2. Loaded(m, "fail").pc = "fail"
    BY <2>1, Labels, Loads
  <2> QED
    BY <1>1, <2>1, <2>2, Elsewhere, MovesElsewhere, SessionsStay DEF Ordinary
<1>4. CASE AutoRetryExhausted(h, m) \/ AutoRetryTaken(h, m) \/ SkipBatch(h, m) \/ CheckMoot(h, m)
  <2>1. UNCHANGED handler
    BY <1>4 DEF AutoRetryExhausted, AutoRetryTaken, SkipBatch, CheckMoot
  <2> QED
    BY <1>1, <2>1, StandsStill, SessionsStay DEF Ordinary
<1> QED
    BY <1>2, <1>3, <1>4 DEF Deliver

\* The clock lets one offer lapse.
LEMMA Expires ==
    ASSUME TypeInv, NEW t \in Task, NEW v \in Provider, NEW i \in 1 .. Len(sessions[t]),
           OfferExpires(t, v, i)
    PROVE  /\ Level /\ sessions[t][i].offer[v] = "PENDING"
           /\ \A u \in Task, x \in Provider : \A j \in 1 .. Len(sessions[u]) :
                  sessions'[u][j].offer[x] = IF u = t /\ j = i /\ x = v THEN "LAPSED"
                                             ELSE sessions[u][j].offer[x]
<1>1. sessions[t][i].offer[v] = "PENDING"
    BY DEF OfferExpires
<1>2. sessions[t][i] \in DispatchSession /\ "LAPSED" \in DispatchAttemptStatus
    BY <1>1, Lengths DEF DispatchAttemptStatus
<1>3. PICK row \in DispatchSession : row = [sessions[t][i] EXCEPT !.offer[v] = "LAPSED"]
    BY <1>2, SessionRows
<1>4. Writes(t, i, row)
    BY <1>3 DEF OfferExpires, TypeInv, TypeOK, Writes
<1>5. \A x \in Provider : row.offer[x] = IF x = v THEN "LAPSED" ELSE sessions[t][i].offer[x]
    BY <1>2, <1>3 DEF DispatchSession
<1> QED
    BY <1>1, <1>4, <1>5, RowWritten

LEMMA BeatAndClockOrdinary ==
    ASSUME TypeInv, NEW t \in Task, Beat(t) \/ Clock(t)
    PROVE  Ordinary
<1>1. UNCHANGED handler /\ \A m \in msgs' \ msgs : m.kind \in {"retry", "check"}
    BY DEF Beat, ClaimDue, ClaimDueDies, Claim, RecoverStale, Clock, RetryFallsDue, ClaimGoesStale,
           Expiry, OfferExpires
<1>2. CASE UNCHANGED sessions
    BY <1>1, <1>2, StandsStill, SessionsStay DEF Ordinary
<1>3. CASE Expiry(t)
  <2>1. PICK v \in Provider, i \in 1 .. Len(sessions[t]) : OfferExpires(t, v, i)
    BY <1>3 DEF Expiry
  <2>2. MayLapse(v)
    BY <2>1 DEF OfferExpires, MayLapse
  <2>3. Mild /\ Level
    BY <2>1, <2>2, Expires DEF Mild, Lost
  <2> QED
    BY <1>1, <2>3, StandsStill DEF Ordinary
<1> QED
    BY <1>2, <1>3 DEF Beat, ClaimDue, ClaimDueDies, Claim, RecoverStale, Clock, RetryFallsDue, ClaimGoesStale

LEMMA CrashOrdinary ==
    ASSUME TypeInv, NEW h \in Handler, Crash(h)
    PROVE  Ordinary
<1>1. Finish(h) /\ UNCHANGED <<sessions, msgs>>
    BY DEF Crash, rowVars
<1> QED
    BY <1>1, FinishesElsewhere, SessionsStay DEF Ordinary

\* Every step but these nine is ordinary.
Special(h) ==
    \/ InsertSession(h) \/ SendMatch(h) \/ EnqueueBatches(h) \/ PingBatch(h) \/ SaveAnswer(h)
    \/ \E m \in msgs : RunMatching(h, m) \/ RunBatch(h, m)
    \/ Answers(h)

LEMMA OrdinarySteps ==
    ASSUME TypeInv, [Next]_vars, \A h \in Handler : ~Special(h)
    PROVE  Ordinary
<1>1. CASE UNCHANGED vars
    BY <1>1, StandsStill, SessionsStay DEF vars, Ordinary
<1>2. ASSUME NEW h \in Handler, HandlerStep(h)
      PROVE  Ordinary
    BY <1>2, BeginningOrdinary, NoMatchOrdinary, AnswersOrdinary, MatchingOrdinary
       DEF HandlerStep, MatchingStep, Special
<1>3. ASSUME NEW h \in Handler, HandlerStart(h)
      PROVE  Ordinary
    BY <1>3, RequestsOrdinary, DeliveriesOrdinary DEF HandlerStart, Special
<1> QED
    BY <1>1, <1>2, <1>3, CrashOrdinary, BeatAndClockOrdinary DEF Next

-----------------------------------------------------------------------------
(***************************************************************************)
(* What keeps each part of the invariant.                                  *)
(***************************************************************************)
NoNewMatch ==
    /\ \A m \in msgs' : m.kind = "match" => m \in msgs
    /\ \A g \in Handler : handler'[g].pc \in {"send", "fetch"} => handler'[g] = handler[g]
NoNewPing ==
    /\ \A m \in msgs' : m.kind = "batch" => m \in msgs
    /\ \A g \in Handler : handler'[g].pc = "ping" => handler'[g] = handler[g]
StillNone ==
    \A t \in Task, v \in Provider : \A i \in 1 .. Len(sessions[t]) :
        sessions[t][i].offer[v] = "NONE" => sessions'[t][i].offer[v] = "NONE"

\* Offers that were made are changed as in an ordinary step.
Mostly ==
    \A t \in Task, v \in Provider : \A i \in 1 .. Len(sessions[t]) :
        \/ sessions[t][i].offer[v] = "NONE"
        \/ sessions'[t][i].offer[v] = sessions[t][i].offer[v]
        \/ Lost(sessions[t][i].offer[v], sessions'[t][i].offer[v])

LEMMA KeepsMatched ==
    ASSUME MatchedOnce, NoNewMatch
    PROVE  MatchedOnce'
<1> SUFFICES ASSUME NEW t \in Task, NEW i \in Nat
             PROVE  /\ \A m, n \in msgs' : MatchSent(m, t, i) /\ MatchSent(n, t, i) => m = n
                    /\ \A g, h \in Handler : MatchRuns(g, t, i)' /\ MatchRuns(h, t, i)' => g = h
                    /\ \A m \in msgs', h \in Handler : ~(MatchSent(m, t, i) /\ MatchRuns(h, t, i)')
    BY DEF MatchedOnce, MatchSent, About
<1>1. \A m \in msgs' : MatchSent(m, t, i) => m \in msgs
    BY DEF NoNewMatch, MatchSent
<1>2. \A h \in Handler : MatchRuns(h, t, i)' => MatchRuns(h, t, i)
    BY DEF NoNewMatch, MatchRuns, About
<1> QED
    BY <1>1, <1>2 DEF MatchedOnce

LEMMA KeepsInvited ==
    ASSUME InvitedOnce, NoNewPing
    PROVE  InvitedOnce'
<1> SUFFICES ASSUME NEW t \in Task, NEW i \in Nat, NEW v \in Provider
             PROVE  /\ \A m, n \in msgs' : BatchSent(m, t, i, v) /\ BatchSent(n, t, i, v) => m = n
                    /\ \A g, h \in Handler : BatchRuns(g, t, i, v)' /\ BatchRuns(h, t, i, v)' => g = h
                    /\ \A m \in msgs', h \in Handler : ~(BatchSent(m, t, i, v) /\ BatchRuns(h, t, i, v)')
    BY DEF InvitedOnce, BatchSent, About
<1>1. \A m \in msgs' : BatchSent(m, t, i, v) => m \in msgs
    BY DEF NoNewPing, BatchSent
<1>2. \A h \in Handler : BatchRuns(h, t, i, v)' => BatchRuns(h, t, i, v)
    BY DEF NoNewPing, BatchRuns, About
<1> QED
    BY <1>1, <1>2 DEF InvitedOnce

\* A session whose providers are being pinged exists.
LEMMA PingsPlaced ==
    ASSUME TypeInv, NEW t \in Task, NEW i \in Nat, NEW v \in Provider
    PROVE  /\ \A m \in msgs : BatchSent(m, t, i, v) => i \in 1 .. Len(sessions[t])
           /\ \A h \in Handler : BatchRuns(h, t, i, v) => i \in 1 .. Len(sessions[t])
<1>1. ASSUME NEW m \in msgs, BatchSent(m, t, i, v)
      PROVE  i \in 1 .. Len(sessions[t])
    BY <1>1 DEF TypeInv, Sited, BatchSent, About
<1>2. ASSUME NEW h \in Handler, BatchRuns(h, t, i, v)
      PROVE  i \in 1 .. Len(sessions[t])
    BY <1>2, Indexing DEF TypeInv, Placed, BatchRuns, About
<1> QED
    BY <1>1, <1>2

LEMMA KeepsFresh ==
    ASSUME TypeInv, InvitedAfresh, NoNewMatch, NoNewPing, StillNone
    PROVE  InvitedAfresh'
<1> SUFFICES ASSUME NEW t \in Task, NEW i \in Nat, NEW v \in Provider,
                    (\E m \in msgs' : BatchSent(m, t, i, v)) \/ (\E h \in Handler : BatchRuns(h, t, i, v)')
             PROVE  Fresh(t, i, v)'
    BY DEF InvitedAfresh, BatchSent, About
<1>1. \/ \E m \in msgs : BatchSent(m, t, i, v)
      \/ \E h \in Handler : BatchRuns(h, t, i, v)
    BY DEF NoNewPing, BatchSent, BatchRuns, About
<1>2. Fresh(t, i, v) /\ i \in 1 .. Len(sessions[t])
    BY <1>1, PingsPlaced DEF InvitedAfresh
<1>3. sessions'[t][i].offer[v] = "NONE"
    BY <1>2 DEF Fresh, StillNone
<1>4. \A m \in msgs' : ~MatchSent(m, t, i)
    BY <1>2 DEF Fresh, NoNewMatch, MatchSent
<1>5. \A h \in Handler : ~MatchRuns(h, t, i)'
    BY <1>2 DEF Fresh, NoNewMatch, MatchRuns, About
<1> QED
    BY <1>3, <1>4, <1>5 DEF Fresh, MatchSent, About

LEMMA KeepsAlone ==
    ASSUME AnswersAlone, AnswersGoOn
    PROVE  AnswersAlone'
BY DEF AnswersAlone, AnswersGoOn, Answering

\* The offer that a handler answers.
LEMMA AnswerPlaced ==
    ASSUME TypeInv, AnswersCount, NEW h \in Handler, handler[h].pc \in AnswerLabel
    PROVE  /\ handler[h].task \in Task /\ handler[h].provider \in Provider
           /\ handler[h].seq \in 1 .. Len(sessions[handler[h].task])
BY Indexing DEF AnswersCount, TypeInv, Placed, Indexed

LEMMA KeepsCount ==
    ASSUME TypeInv, AnswersCount, AnswersGoOn, Mostly
    PROVE  AnswersCount'
<1> SUFFICES ASSUME NEW g \in Handler, handler'[g].pc \in AnswerLabel
             PROVE  /\ handler'[g].provider \in Provider
                    /\ handler'[g].pc = "answer" =>
                           OfferOf(handler[g])' \notin {"NONE", "ACCEPTED", "DECLINED"}
                    /\ handler'[g].pc \in Accepting => OfferOf(handler[g])' = "ACCEPTED"
    BY Elsewhere DEF AnswersCount
<1>1. /\ handler[g].pc \in AnswerLabel /\ handler'[g].provider = handler[g].provider
      /\ handler'[g].task = handler[g].task /\ handler'[g].seq = handler[g].seq
      /\ \/ handler'[g].pc = handler[g].pc
         \/ handler'[g].pc \in Accepting /\ handler[g].pc \in Accepting
    BY DEF AnswersGoOn
<1>2. PICK t \in Task, i \in Nat, v \in Provider :
          t = handler[g].task /\ i = handler[g].seq /\ v = handler[g].provider /\ i \in 1 .. Len(sessions[t])
    BY <1>1, AnswerPlaced DEF TypeInv, TypeOK, HandlerRow
<1>3. \/ sessions[t][i].offer[v] = "NONE"
      \/ sessions'[t][i].offer[v] = sessions[t][i].offer[v]
      \/ Lost(sessions[t][i].offer[v], sessions'[t][i].offer[v])
    BY <1>2 DEF Mostly
<1>4. /\ handler[g].pc = "answer" => sessions[t][i].offer[v] \notin {"NONE", "ACCEPTED", "DECLINED"}
      /\ handler[g].pc \in Accepting => sessions[t][i].offer[v] = "ACCEPTED"
    BY <1>2 DEF AnswersCount, OfferOf
<1> QED
    BY <1>1, <1>2, <1>3, <1>4, Elsewhere DEF OfferOf, Lost, Open

LEMMA OrdinaryKeeps ==
    ASSUME TypeInv, OfferInv, Ordinary
    PROVE  OfferInv'
<1>1. NoNewMatch /\ NoNewPing
    BY DEF Ordinary, NoNewWork, WorkLabel, NoNewMatch, NoNewPing
<1>2. StillNone /\ Mostly
    BY DEF Ordinary, Mild, Lost, Open, StillNone, Mostly
<1> QED
    BY <1>1, <1>2, KeepsMatched, KeepsInvited, KeepsFresh, KeepsAlone, KeepsCount DEF OfferInv, Ordinary

-----------------------------------------------------------------------------
(***************************************************************************)
(* The special steps.                                                      *)
(***************************************************************************)
\* The new session is matched by its sender, and by nobody else.
LEMMA InsertKeeps ==
    ASSUME TypeInv, OfferInv, NEW h \in Handler, InsertSession(h)
    PROVE  OfferInv' /\ Mild /\ AnswersGoOn
<1>1. ~At(h, "idle") /\ Goto(h, "send") /\ UNCHANGED msgs /\ handler[h].pc = "insert"
    BY DEF InsertSession, At
<1>2. PICK t \in Task, k \in Nat : t = handler[h].task /\ k = Len(sessions[t]) + 1 /\ k = handler[h].seq
    BY <1>1, Working, Lengths DEF InsertSession, JobOf, HandlerRow
<1>3. PICK w \in HandlerRow : Become(h, w) /\ w.pc = "send" /\ w.task = t /\ w.seq = k
    BY <1>1, <1>2, GoesWhole, Labels
<1>4. \A g \in Handler : handler'[g] = IF g = h THEN w ELSE handler[g]
    BY <1>3, Becomes
<1>5. \A u \in Task : \A j \in 1 .. Len(sessions[u]) : sessions'[u][j] = sessions[u][j]
  <2>1. PICK s \in Seq(DispatchSession) : s = sessions[t]
    BY Lengths
  <2>2. sessions' = [sessions EXCEPT ![t] = Append(s, NewSession)]
    BY <1>2, <2>1 DEF InsertSession, JobOf
  <2>3. \A j \in 1 .. Len(s) : Append(s, NewSession)[j] = s[j]
    BY <2>1
  <2> QED
    BY <2>1, <2>2, <2>3 DEF TypeInv, TypeOK
<1>6. Mild /\ StillNone /\ Mostly
    BY <1>5 DEF Mild, StillNone, Mostly
<1>7. NoNewPing
    BY <1>1, <1>3, <1>4 DEF NoNewPing
<1>8. AnswersGoOn
    BY <1>3, <1>4, Elsewhere DEF AnswersGoOn, WorkLabel
<1>9. \A u \in Task, i \in Nat : \A g \in Handler :
          MatchRuns(g, u, i)' <=> (IF g = h THEN u = t /\ i = k ELSE MatchRuns(g, u, i))
    BY <1>3, <1>4 DEF MatchRuns, About
<1>10. \A m \in msgs : ~MatchSent(m, t, k)
  <2> SUFFICES ASSUME NEW m \in msgs, MatchSent(m, t, k)
               PROVE  FALSE
    OBVIOUS
  <2>1. k \in 1 .. Len(sessions[t])
    BY DEF TypeInv, Sited, MatchSent, About
  <2> QED
    BY <1>2, <2>1, Lengths
<1>11. \A g \in Handler : ~MatchRuns(g, t, k)
  <2> SUFFICES ASSUME NEW g \in Handler, MatchRuns(g, t, k)
               PROVE  FALSE
    OBVIOUS
  <2>1. k \in 1 .. Len(sessions[t])
    BY Indexing DEF TypeInv, Placed, MatchRuns, About
  <2> QED
    BY <1>2, <2>1, Lengths
<1>12. MatchedOnce'
  <2> SUFFICES ASSUME NEW u \in Task, NEW i \in Nat
               PROVE  /\ \A m, n \in msgs : MatchSent(m, u, i) /\ MatchSent(n, u, i) => m = n
                      /\ \A f, g \in Handler : MatchRuns(f, u, i)' /\ MatchRuns(g, u, i)' => f = g
                      /\ \A m \in msgs, g \in Handler : ~(MatchSent(m, u, i) /\ MatchRuns(g, u, i)')
    BY <1>1 DEF MatchedOnce, MatchSent, About
  <2> QED
    BY <1>9, <1>10, <1>11 DEF MatchedOnce, OfferInv
<1>13. InvitedAfresh'
  <2> SUFFICES ASSUME NEW u \in Task, NEW i \in Nat, NEW v \in Provider,
                      (\E m \in msgs : BatchSent(m, u, i, v)) \/ (\E g \in Handler : BatchRuns(g, u, i, v)')
               PROVE  Fresh(u, i, v)'
    BY <1>1 DEF InvitedAfresh, BatchSent, About
  <2>1. (\E m \in msgs : BatchSent(m, u, i, v)) \/ (\E g \in Handler : BatchRuns(g, u, i, v))
    BY <1>7 DEF NoNewPing, BatchRuns, About
  <2>2. Fresh(u, i, v) /\ i \in 1 .. Len(sessions[u])
    BY <2>1, PingsPlaced DEF InvitedAfresh, OfferInv
  <2>3. sessions'[u][i].offer[v] = "NONE"
    BY <1>5, <2>2 DEF Fresh
  <2>4. ~(u = t /\ i = k)
    BY <1>2, <2>2, Lengths
  <2>5. \A m \in msgs' : ~MatchSent(m, u, i)
    BY <1>1, <2>2 DEF Fresh
  <2>6. \A g \in Handler : ~MatchRuns(g, u, i)'
    BY <1>9, <2>2, <2>4 DEF Fresh
  <2> QED
    BY <2>3, <2>5, <2>6 DEF Fresh, MatchSent, About
<1> QED
    BY <1>6, <1>7, <1>8, <1>12, <1>13, KeepsInvited, KeepsAlone, KeepsCount DEF OfferInv

\* The sender hands the matching over to its message.
LEMMA SendKeeps ==
    ASSUME TypeInv, OfferInv, NEW h \in Handler, SendMatch(h)
    PROVE  OfferInv' /\ Mild /\ AnswersGoOn
<1>1. handler[h].pc = "send" /\ Finish(h) /\ UNCHANGED sessions
    BY DEF SendMatch, At, rowVars
<1>2. PICK t \in Task, k \in Nat : t = handler[h].task /\ k = handler[h].seq
    BY <1>1, Working DEF At, HandlerRow
<1>3. PICK c : c = [kind |-> "match", task |-> t, seq |-> k, cands |-> {}, last |-> FALSE]
    OBVIOUS
<1>4. msgs' = msgs \cup {c} /\ c.kind = "match" /\ c.task = t /\ c.seq = k
    BY <1>2, <1>3 DEF SendMatch, JobOf
<1>5. \A g \in Handler : handler'[g] = IF g = h THEN Idle ELSE handler[g]
    BY <1>1, Becomes DEF Finish
<1>6. \A m \in msgs', u \in Task, i \in Nat :
          MatchSent(m, u, i) <=> (m \in msgs /\ MatchSent(m, u, i)) \/ (m = c /\ u = t /\ i = k)
    BY <1>4 DEF MatchSent, About
<1>7. \A g \in Handler, u \in Task, i \in Nat : MatchRuns(g, u, i)' <=> (g # h /\ MatchRuns(g, u, i))
    BY <1>5, Defaults DEF MatchRuns, About
<1>8. MatchRuns(h, t, k)
    BY <1>1, <1>2 DEF MatchRuns, About
<1>9. Mild /\ StillNone /\ Mostly
    BY <1>1 DEF Mild, StillNone, Mostly
<1>10. NoNewPing /\ AnswersGoOn
    BY <1>4, <1>5, Defaults, Elsewhere DEF NoNewPing, AnswersGoOn
<1>11. MatchedOnce'
  <2> SUFFICES ASSUME NEW u \in Task, NEW i \in Nat
               PROVE  /\ \A m, n \in msgs' : MatchSent(m, u, i) /\ MatchSent(n, u, i) => m = n
                      /\ \A f, g \in Handler : MatchRuns(f, u, i)' /\ MatchRuns(g, u, i)' => f = g
                      /\ \A m \in msgs', g \in Handler : ~(MatchSent(m, u, i) /\ MatchRuns(g, u, i)')
    BY DEF MatchedOnce, MatchSent, About
  <2>1. /\ \A m, n \in msgs : MatchSent(m, u, i) /\ MatchSent(n, u, i) => m = n
        /\ \A f, g \in Handler : MatchRuns(f, u, i) /\ MatchRuns(g, u, i) => f = g
        /\ \A m \in msgs, g \in Handler : ~(MatchSent(m, u, i) /\ MatchRuns(g, u, i))
    BY DEF MatchedOnce, OfferInv
  <2> QED
    BY <1>6, <1>7, <1>8, <2>1
<1>12. InvitedAfresh'
  <2> SUFFICES ASSUME NEW u \in Task, NEW i \in Nat, NEW v \in Provider,
                      (\E m \in msgs' : BatchSent(m, u, i, v)) \/ (\E g \in Handler : BatchRuns(g, u, i, v)')
               PROVE  Fresh(u, i, v)'
    BY DEF InvitedAfresh, BatchSent, About
  <2>1. (\E m \in msgs : BatchSent(m, u, i, v)) \/ (\E g \in Handler : BatchRuns(g, u, i, v))
    BY <1>10 DEF NoNewPing, BatchSent, BatchRuns, About
  <2>2. Fresh(u, i, v)
    BY <2>1 DEF InvitedAfresh, OfferInv
  <2>3. sessions'[u][i].offer[v] = "NONE"
    BY <1>1, <2>2 DEF Fresh
  <2>4. ~(u = t /\ i = k)
    BY <1>8, <2>2 DEF Fresh
  <2>5. \A m \in msgs' : ~MatchSent(m, u, i)
    BY <1>6, <2>2, <2>4 DEF Fresh
  <2>6. \A g \in Handler : ~MatchRuns(g, u, i)'
    BY <1>7, <2>2 DEF Fresh
  <2> QED
    BY <2>3, <2>5, <2>6 DEF Fresh, MatchSent, About
<1> QED
    BY <1>9, <1>10, <1>11, <1>12, KeepsInvited, KeepsAlone, KeepsCount DEF OfferInv

\* A worker takes the matching over from the message.
LEMMA RunMatchingKeeps ==
    ASSUME TypeInv, OfferInv, NEW h \in Handler, NEW m \in msgs, RunMatching(h, m)
    PROVE  OfferInv' /\ Mild /\ AnswersGoOn
<1>1. m.kind = "match" /\ handler[h].pc = "idle" /\ RecoverStaleAttempts(m.task) /\ msgs' = msgs \ {m}
    BY DEF RunMatching, At
<1>2. PICK t \in Task, k \in Nat : t = m.task /\ k = m.seq
    BY DEF TypeInv, TypeOK, Message
<1>3. PICK w : /\ w = Loaded(m, "fetch") /\ Become(h, w) /\ w.pc = "fetch" /\ w.task = t /\ w.seq = k
  <2>1. Loaded(m, "fetch") \in HandlerRow /\ Loaded(m, "fetch").pc = "fetch" /\ Loaded(m, "fetch").task = m.task
    BY <1>1, Loads, Labels
  <2>2. Loaded(m, "fetch").seq = m.seq
    BY DEF Loaded
  <2> QED
    BY <1>2, <2>1, <2>2 DEF RunMatching
<1>4. \A g \in Handler : handler'[g] = IF g = h THEN w ELSE handler[g]
    BY <1>3, Becomes
<1>5. Mild
    BY <1>1, <1>2, RecoversOffers
<1>6. \A n \in msgs', u \in Task, i \in Nat : MatchSent(n, u, i) => n # m /\ n \in msgs
    BY <1>1
<1>7. \A g \in Handler, u \in Task, i \in Nat :
          MatchRuns(g, u, i)' <=> (IF g = h THEN u = t /\ i = k ELSE MatchRuns(g, u, i))
    BY <1>3, <1>4 DEF MatchRuns, About
<1>8. MatchSent(m, t, k)
    BY <1>1, <1>2 DEF MatchSent, About
<1>9. StillNone /\ Mostly
    BY <1>5 DEF Mild, Lost, Open, StillNone, Mostly
<1>10. NoNewPing /\ AnswersGoOn
    BY <1>1, <1>3, <1>4, Elsewhere DEF NoNewPing, AnswersGoOn, WorkLabel
<1>11. MatchedOnce'
  <2> SUFFICES ASSUME NEW u \in Task, NEW i \in Nat
               PROVE  /\ \A n, o \in msgs' : MatchSent(n, u, i) /\ MatchSent(o, u, i) => n = o
                      /\ \A f, g \in Handler : MatchRuns(f, u, i)' /\ MatchRuns(g, u, i)' => f = g
                      /\ \A n \in msgs', g \in Handler : ~(MatchSent(n, u, i) /\ MatchRuns(g, u, i)')
    BY DEF MatchedOnce, MatchSent, About
  <2>1. /\ \A n, o \in msgs : MatchSent(n, u, i) /\ MatchSent(o, u, i) => n = o
        /\ \A f, g \in Handler : MatchRuns(f, u, i) /\ MatchRuns(g, u, i) => f = g
        /\ \A n \in msgs, g \in Handler : ~(MatchSent(n, u, i) /\ MatchRuns(g, u, i))
    BY DEF MatchedOnce, OfferInv
  <2> QED
    BY <1>6, <1>7, <1>8, <2>1
<1>12. InvitedAfresh'
  <2> SUFFICES ASSUME NEW u \in Task, NEW i \in Nat, NEW v \in Provider,
                      (\E n \in msgs' : BatchSent(n, u, i, v)) \/ (\E g \in Handler : BatchRuns(g, u, i, v)')
               PROVE  Fresh(u, i, v)'
    BY DEF InvitedAfresh, BatchSent, About
  <2>1. (\E n \in msgs : BatchSent(n, u, i, v)) \/ (\E g \in Handler : BatchRuns(g, u, i, v))
    BY <1>10 DEF NoNewPing, BatchSent, BatchRuns, About
  <2>2. Fresh(u, i, v) /\ i \in 1 .. Len(sessions[u])
    BY <2>1, PingsPlaced DEF InvitedAfresh, OfferInv
  <2>3. sessions'[u][i].offer[v] = "NONE"
    BY <1>9, <2>2 DEF Fresh, StillNone
  <2>4. ~(u = t /\ i = k)
    BY <1>8, <2>2 DEF Fresh
  <2>5. \A n \in msgs' : ~MatchSent(n, u, i)
    BY <1>6, <2>2 DEF Fresh
  <2>6. \A g \in Handler : ~MatchRuns(g, u, i)'
    BY <1>7, <2>2, <2>4 DEF Fresh
  <2> QED
    BY <2>3, <2>5, <2>6 DEF Fresh, MatchSent, About
<1> QED
    BY <1>5, <1>9, <1>10, <1>11, <1>12, KeepsInvited, KeepsAlone, KeepsCount DEF OfferInv

\* Batches of consecutive ranks: no rank is in two of them.
LEMMA RanksApart ==
    ASSUME NEW s \in Nat \ {0}, NEW j \in Int, NEW k \in Int, NEW l \in Int,
           j \in s * (k - 1) + 1 .. s * (k - 1) + 1 + s - 1,
           j \in s * (l - 1) + 1 .. s * (l - 1) + 1 + s - 1
    PROVE  k = l
<1>1. ASSUME NEW a \in Int, NEW b \in Int, a < b
      PROVE  s * (a - 1) + s <= s * (b - 1)
  <2>1. PICK d \in Nat : d = b - 1 - a
    BY <1>1
  <2>2. s * d \in Nat
    BY <2>1
  <2>3. b - 1 = a + d
    BY <2>1
  <2>4. s * (a + d) = s * a + s * d /\ s * (a - 1) = s * a - s
    BY <2>1
  <2>5. s * (b - 1) = s * a + s * d
    BY <2>3, <2>4
  <2>6. s * a \in Int
    OBVIOUS
  <2> QED
    BY <2>2, <2>4, <2>5, <2>6
<1>2. s * (k - 1) \in Int /\ s * (l - 1) \in Int
    OBVIOUS
<1>3. /\ s * (k - 1) + 1 <= j /\ j <= s * (k - 1) + s
      /\ s * (l - 1) + 1 <= j /\ j <= s * (l - 1) + s
    BY <1>2
<1>4. ~(k < l)
  <2> SUFFICES ASSUME k < l
               PROVE  FALSE
    OBVIOUS
  <2>1. s * (k - 1) + s <= s * (l - 1)
    BY <1>1
  <2> QED
    BY <1>2, <1>3, <2>1
<1>5. ~(l < k)
  <2> SUFFICES ASSUME l < k
               PROVE  FALSE
    OBVIOUS
  <2>1. s * (l - 1) + s <= s * (k - 1)
    BY <1>1
  <2> QED
    BY <1>2, <1>3, <2>1
<1> QED
    BY <1>4, <1>5

\* The batches of a matching invite its candidates, each of them once.
LEMMA Batching ==
    ASSUME TypeInv, NEW h \in Handler, EnqueueBatches(h)
    PROVE  \E B : /\ msgs' = msgs \cup B
                  /\ \A m \in B : /\ m.kind = "batch" /\ m.task = handler[h].task /\ m.seq = handler[h].seq
                                  /\ m.cands \subseteq Candidates(h)
                  /\ \A m, n \in B : \A v \in m.cands \cap n.cands : m = n
<1>1. PICK t \in Task, q \in Nat : t = handler[h].task /\ q = handler[h].seq
  <2>1. ~At(h, "idle")
    BY DEF EnqueueBatches, At
  <2> QED
    BY <2>1, Working DEF HandlerRow
<1>2. PICK r \in Rankings(Candidates(h)) :
          msgs' = msgs \cup
              {[kind |-> "batch", task |-> t, seq |-> q,
                cands |-> {r[i] : i \in DOMAIN r \cap (b.first .. b.first + BatchSize - 1)},
                last |-> b.last] : b \in Batches(r)}
    BY <1>1, ZenonT(60) DEF EnqueueBatches, JobOf
<1>3. PICK B : B = {[kind |-> "batch", task |-> t, seq |-> q,
                     cands |-> {r[i] : i \in DOMAIN r \cap (b.first .. b.first + BatchSize - 1)},
                     last |-> b.last] : b \in Batches(r)}
    OBVIOUS
<1>4. PICK n : n = (Len(r) + BatchSize - 1) \div BatchSize
    OBVIOUS
<1>5. \A m \in B : \E k \in 1 .. n :
          /\ m.kind = "batch" /\ m.task = t /\ m.seq = q
          /\ m.cands = {r[i] : i \in DOMAIN r \cap
                                   (BatchSize * (k - 1) + 1 .. BatchSize * (k - 1) + 1 + BatchSize - 1)}
          /\ m = [kind |-> "batch", task |-> t, seq |-> q, cands |-> m.cands, last |-> k = n]
  <2> SUFFICES ASSUME NEW m \in B
               PROVE  \E k \in 1 .. n :
                          /\ m.kind = "batch" /\ m.task = t /\ m.seq = q
                          /\ m.cands = {r[i] : i \in DOMAIN r \cap
                                 (BatchSize * (k - 1) + 1 .. BatchSize * (k - 1) + 1 + BatchSize - 1)}
                          /\ m = [kind |-> "batch", task |-> t, seq |-> q, cands |-> m.cands, last |-> k = n]
    OBVIOUS
  <2>1. PICK b \in Batches(r) :
            m = [kind |-> "batch", task |-> t, seq |-> q,
                 cands |-> {r[i] : i \in DOMAIN r \cap (b.first .. b.first + BatchSize - 1)},
                 last |-> b.last]
    BY <1>3
  <2>2. PICK k \in 1 .. n : b = [first |-> BatchSize * (k - 1) + 1, last |-> k = n]
    BY <1>4, <2>1 DEF Batches
  <2>3. b.first = BatchSize * (k - 1) + 1 /\ b.last = (k = n)
    BY <2>2
  <2> QED
    BY <2>1, <2>2, <2>3
<1>6. \A i, j \in DOMAIN r : r[i] \in Candidates(h) /\ (r[i] = r[j] => i = j)
    BY DEF Rankings
<1>7. DOMAIN r \subseteq Int
    BY DEF Rankings
<1>8. ASSUME NEW m \in B, NEW o \in B, NEW v \in m.cands \cap o.cands
      PROVE  m = o
  <2>1. PICK k \in 1 .. n :
            /\ m.cands = {r[i] : i \in DOMAIN r \cap
                                     (BatchSize * (k - 1) + 1 .. BatchSize * (k - 1) + 1 + BatchSize - 1)}
            /\ m = [kind |-> "batch", task |-> t, seq |-> q, cands |-> m.cands, last |-> k = n]
    BY <1>5
  <2>2. PICK l \in 1 .. n :
            /\ o.cands = {r[i] : i \in DOMAIN r \cap
                                     (BatchSize * (l - 1) + 1 .. BatchSize * (l - 1) + 1 + BatchSize - 1)}
            /\ o = [kind |-> "batch", task |-> t, seq |-> q, cands |-> o.cands, last |-> l = n]
    BY <1>5
  <2>3. PICK i \in DOMAIN r :
            v = r[i] /\ i \in BatchSize * (k - 1) + 1 .. BatchSize * (k - 1) + 1 + BatchSize - 1
    BY <1>8, <2>1
  <2>4. PICK j \in DOMAIN r :
            v = r[j] /\ j \in BatchSize * (l - 1) + 1 .. BatchSize * (l - 1) + 1 + BatchSize - 1
    BY <1>8, <2>2
  <2>5. i = j
    BY <1>6, <2>3, <2>4
  <2>6. k = l
    <3>1. BatchSize \in Nat \ {0}
      BY ConstantsAssumption
    <3>2. i \in Int /\ k \in Int /\ l \in Int
      BY <1>7
    <3> QED
      BY <2>3, <2>4, <2>5, <3>1, <3>2, RanksApart
  <2>7. m.cands = o.cands
    BY <2>1, <2>2, <2>6
  <2> QED
    BY <2>1, <2>2, <2>6, <2>7
<1>9. \A m \in B : m.cands \subseteq Candidates(h)
    BY <1>5, <1>6
<1>10. \A m \in B : m.kind = "batch" /\ m.task = handler[h].task /\ m.seq = handler[h].seq
    BY <1>1, <1>5
<1>11. msgs' = msgs \cup B
    BY <1>2, <1>3
<1> QED
    BY <1>8, <1>9, <1>10, <1>11

\* The matching is over when its batches are sent.
LEMMA EnqueueKeeps ==
    ASSUME TypeInv, OfferInv, NEW h \in Handler, EnqueueBatches(h)
    PROVE  OfferInv' /\ Mild /\ AnswersGoOn
<1>1. handler[h].pc = "fetch" /\ Finish(h) /\ UNCHANGED sessions
    BY DEF EnqueueBatches, At, rowVars
<1>2. PICK t \in Task, k \in Nat : t = handler[h].task /\ k = handler[h].seq
    BY <1>1, Working DEF At, HandlerRow
<1>3. PICK B : /\ msgs' = msgs \cup B
               /\ \A m \in B : /\ m.kind = "batch" /\ m.task = t /\ m.seq = k
                               /\ m.cands \subseteq Candidates(h)
               /\ \A m, n \in B : \A v \in m.cands \cap n.cands : m = n
    BY <1>2, Batching
<1>4. \A g \in Handler : handler'[g] = IF g = h THEN Idle ELSE handler[g]
    BY <1>1, Becomes DEF Finish
<1>5. \A g \in Handler, u \in Task, i \in Nat : MatchRuns(g, u, i)' <=> (g # h /\ MatchRuns(g, u, i))
    BY <1>4, Defaults DEF MatchRuns, About
<1>6. \A g \in Handler, u \in Task, i \in Nat, v \in Provider :
          BatchRuns(g, u, i, v)' <=> (g # h /\ BatchRuns(g, u, i, v))
    BY <1>4, Defaults DEF BatchRuns, About
<1>7. MatchRuns(h, t, k)
    BY <1>1, <1>2 DEF MatchRuns, About
<1>8. \A v \in Provider : /\ \A m \in msgs : ~BatchSent(m, t, k, v)
                          /\ \A g \in Handler : ~BatchRuns(g, t, k, v)
    BY <1>7 DEF OfferInv, InvitedAfresh, Fresh
<1>9. Mild /\ Mostly
    BY <1>1 DEF Mild, Mostly
<1>10. NoNewMatch /\ AnswersGoOn
    BY <1>3, <1>4, Defaults, Elsewhere DEF NoNewMatch, AnswersGoOn
<1>11. InvitedOnce'
  <2> SUFFICES ASSUME NEW u \in Task, NEW i \in Nat, NEW v \in Provider
               PROVE  /\ \A m, n \in msgs' : BatchSent(m, u, i, v) /\ BatchSent(n, u, i, v) => m = n
                      /\ \A f, g \in Handler : BatchRuns(f, u, i, v)' /\ BatchRuns(g, u, i, v)' => f = g
                      /\ \A m \in msgs', g \in Handler : ~(BatchSent(m, u, i, v) /\ BatchRuns(g, u, i, v)')
    BY DEF InvitedOnce, BatchSent, About
  <2>1. /\ \A m, n \in msgs : BatchSent(m, u, i, v) /\ BatchSent(n, u, i, v) => m = n
        /\ \A f, g \in Handler : BatchRuns(f, u, i, v) /\ BatchRuns(g, u, i, v) => f = g
        /\ \A m \in msgs, g \in Handler : ~(BatchSent(m, u, i, v) /\ BatchRuns(g, u, i, v))
    BY DEF InvitedOnce, OfferInv
  <2>2. \A m \in B : BatchSent(m, u, i, v) => u = t /\ i = k /\ v \in m.cands
    BY <1>3 DEF BatchSent, About
  <2>3. CASE u = t /\ i = k
    <3>1. \A m \in msgs' : BatchSent(m, u, i, v) => m \in B
      BY <1>3, <1>8, <2>3
    <3>2. \A m, n \in msgs' : BatchSent(m, u, i, v) /\ BatchSent(n, u, i, v) => m = n
      BY <1>3, <2>2, <3>1
    <3>3. \A g \in Handler : ~BatchRuns(g, u, i, v)'
      BY <1>6, <1>8, <2>3
    <3> QED
      BY <3>2, <3>3
  <2>4. CASE ~(u = t /\ i = k)
    <3>1. \A m \in msgs' : BatchSent(m, u, i, v) => m \in msgs
      BY <1>3, <2>2, <2>4
    <3> QED
      BY <1>6, <2>1, <3>1
  <2> QED
    BY <2>3, <2>4
<1>12. InvitedAfresh'
  <2> SUFFICES ASSUME NEW u \in Task, NEW i \in Nat, NEW v \in Provider,
                      (\E m \in msgs' : BatchSent(m, u, i, v)) \/ (\E g \in Handler : BatchRuns(g, u, i, v)')
               PROVE  Fresh(u, i, v)'
    BY DEF InvitedAfresh, BatchSent, About
  <2>1. CASE (\E m \in msgs : BatchSent(m, u, i, v)) \/ (\E g \in Handler : BatchRuns(g, u, i, v))
    <3>1. Fresh(u, i, v)
      BY <2>1 DEF InvitedAfresh, OfferInv
    <3>2. \A m \in msgs' : ~MatchSent(m, u, i)
      BY <1>3, <3>1 DEF Fresh, MatchSent
    <3>3. \A g \in Handler : ~MatchRuns(g, u, i)'
      BY <1>5, <3>1 DEF Fresh
    <3> QED
      BY <1>1, <3>1, <3>2, <3>3 DEF Fresh, MatchSent, About
  <2>2. CASE \E m \in B : BatchSent(m, u, i, v)
    <3>1. u = t /\ i = k /\ v \in Candidates(h)
      BY <1>3, <2>2 DEF BatchSent, About
    <3>2. sessions'[u][i].offer[v] = "NONE"
      BY <1>1, <1>2, <3>1 DEF Candidates, SessionOf
    <3>3. \A m \in msgs' : ~MatchSent(m, u, i)
      BY <1>3, <1>7, <3>1 DEF MatchSent, MatchedOnce, OfferInv
    <3>4. \A g \in Handler : ~MatchRuns(g, u, i)'
      BY <1>5, <1>7, <3>1 DEF MatchedOnce, OfferInv
    <3> QED
      BY <3>2, <3>3, <3>4 DEF Fresh, MatchSent, About
  <2> QED
    BY <1>3, <1>6, <2>1, <2>2
<1> QED
    BY <1>9, <1>10, <1>11, <1>12, KeepsMatched, KeepsAlone, KeepsCount DEF OfferInv

\* A worker takes the pings over from the message.
LEMMA RunBatchKeeps ==
    ASSUME TypeInv, OfferInv, NEW h \in Handler, NEW m \in msgs, RunBatch(h, m)
    PROVE  OfferInv' /\ Mild /\ AnswersGoOn
<1>1. m.kind = "batch" /\ handler[h].pc = "idle" /\ RecoverStaleAttempts(m.task) /\ msgs' = msgs \ {m}
    BY DEF RunBatch, At
<1>2. PICK t \in Task, k \in Nat, C \in SUBSET Provider, z \in BOOLEAN :
          t = m.task /\ k = m.seq /\ C = m.cands /\ z = m.last
    BY DEF TypeInv, TypeOK, Message
<1>3. PICK w : /\ w = [Idle EXCEPT !.pc = "ping", !.task = t, !.seq = k, !.cands = C, !.last = z]
               /\ Become(h, w)
    BY <1>2 DEF RunBatch
<1>4. w.pc = "ping" /\ w.task = t /\ w.seq = k /\ w.cands = C
    BY <1>3, Defaults DEF HandlerRow
<1>5. \A g \in Handler : handler'[g] = IF g = h THEN w ELSE handler[g]
    BY <1>3, Becomes
<1>6. Mild
    BY <1>1, <1>2, RecoversOffers
<1>7. StillNone /\ Mostly
    BY <1>6 DEF Mild, Lost, Open, StillNone, Mostly
<1>8. NoNewMatch /\ AnswersGoOn
    BY <1>1, <1>4, <1>5, Elsewhere DEF NoNewMatch, AnswersGoOn, WorkLabel
<1>9. \A g \in Handler, u \in Task, i \in Nat, v \in Provider :
          BatchRuns(g, u, i, v)' <=> (IF g = h THEN u = t /\ i = k /\ v \in C ELSE BatchRuns(g, u, i, v))
    BY <1>4, <1>5 DEF BatchRuns, About
<1>10. \A u \in Task, i \in Nat, v \in Provider : BatchSent(m, u, i, v) <=> (u = t /\ i = k /\ v \in C)
    BY <1>1, <1>2 DEF BatchSent, About
<1>11. InvitedOnce'
  <2> SUFFICES ASSUME NEW u \in Task, NEW i \in Nat, NEW v \in Provider
               PROVE  /\ \A n, o \in msgs' : BatchSent(n, u, i, v) /\ BatchSent(o, u, i, v) => n = o
                      /\ \A f, g \in Handler : BatchRuns(f, u, i, v)' /\ BatchRuns(g, u, i, v)' => f = g
                      /\ \A n \in msgs', g \in Handler : ~(BatchSent(n, u, i, v) /\ BatchRuns(g, u, i, v)')
    BY DEF InvitedOnce, BatchSent, About
  <2>1. /\ \A n, o \in msgs : BatchSent(n, u, i, v) /\ BatchSent(o, u, i, v) => n = o
        /\ \A f, g \in Handler : BatchRuns(f, u, i, v) /\ BatchRuns(g, u, i, v) => f = g
        /\ \A n \in msgs, g \in Handler : ~(BatchSent(n, u, i, v) /\ BatchRuns(g, u, i, v))
    BY DEF InvitedOnce, OfferInv
  <2> QED
    BY <1>1, <1>9, <1>10, <2>1
<1>12. InvitedAfresh'
  <2> SUFFICES ASSUME NEW u \in Task, NEW i \in Nat, NEW v \in Provider,
                      (\E n \in msgs' : BatchSent(n, u, i, v)) \/ (\E g \in Handler : BatchRuns(g, u, i, v)')
               PROVE  Fresh(u, i, v)'
    BY DEF InvitedAfresh, BatchSent, About
  <2>1. (\E n \in msgs : BatchSent(n, u, i, v)) \/ (\E g \in Handler : BatchRuns(g, u, i, v))
    BY <1>1, <1>9, <1>10
  <2>2. Fresh(u, i, v) /\ i \in 1 .. Len(sessions[u])
    BY <2>1, PingsPlaced DEF InvitedAfresh, OfferInv
  <2>3. sessions'[u][i].offer[v] = "NONE"
    BY <1>7, <2>2 DEF Fresh, StillNone
  <2>4. \A n \in msgs' : ~MatchSent(n, u, i)
    BY <1>1, <2>2 DEF Fresh
  <2>5. \A g \in Handler : ~MatchRuns(g, u, i)'
    BY <1>8, <2>2 DEF Fresh, NoNewMatch, MatchRuns, About
  <2> QED
    BY <2>3, <2>4, <2>5 DEF Fresh, MatchSent, About
<1> QED
    BY <1>6, <1>7, <1>8, <1>11, <1>12, KeepsMatched, KeepsAlone, KeepsCount DEF OfferInv

\* What a ping does: the providers it wins have not been offered the task in
\* this session, and no other ping of the session is about them.
Won(h) == {v \in handler[h].cands : duty[v] \in Claimable}
Pinged(h, t, i, v) == About(handler[h], t, i) /\ v \in Won(h)

LEMMA Pings ==
    ASSUME TypeInv, NEW h \in Handler, PingBatch(h)
    PROVE  /\ handler[h].pc = "ping" /\ UNCHANGED <<task, msgs>> /\ Level
           /\ \A t \in Task, v \in Provider : \A i \in 1 .. Len(sessions[t]) :
                  sessions'[t][i].offer[v] = IF Pinged(h, t, i, v) THEN "PENDING"
                                             ELSE sessions[t][i].offer[v]
           /\ duty' = [v \in Provider |-> IF v \in Won(h) THEN "ON_DISPATCH" ELSE duty[v]]
           /\ \E w \in HandlerRow : Become(h, w) /\ w.pc \in {"idle", "check"}
                                    /\ w.row \in {Draft, handler[h].row}
<1>1. ~At(h, "idle") /\ handler[h].pc = "ping" /\ handler[h].pc \in Indexed /\ UNCHANGED <<task, msgs>>
    BY Indexing DEF PingBatch, At
<1>2. PICK t \in Task, k \in Nat : t = handler[h].task /\ k = handler[h].seq /\ k \in 1 .. Len(sessions[t])
    BY <1>1, Working DEF HandlerRow
<1>3. PICK won : won = Won(h)
    OBVIOUS
<1>4. \A u \in Task, i \in Nat, v \in Provider : Pinged(h, u, i, v) <=> (u = t /\ i = k /\ v \in won)
    BY <1>2, <1>3 DEF Pinged, About
<1>5. sessions[t][k] \in DispatchSession
    BY <1>2, Lengths
<1>6. PICK row : row = [sessions[t][k] EXCEPT !.offer =
                            [v \in Provider |-> IF v \in won THEN "PENDING" ELSE @[v]]]
    OBVIOUS
<1>7. /\ row \in DispatchSession
      /\ \A v \in Provider : row.offer[v] = IF v \in won THEN "PENDING" ELSE sessions[t][k].offer[v]
    BY <1>5, <1>6 DEF DispatchSession, DispatchAttemptStatus
<1>8. Writes(t, k, row)
    BY <1>2, <1>3, <1>6 DEF PingBatch, JobOf, Won, TypeInv, TypeOK, Writes
<1>9. /\ Level
      /\ \A u \in Task : \A i \in 1 .. Len(sessions[u]) :
             sessions'[u][i] = IF u = t /\ i = k THEN row ELSE sessions[u][i]
    BY <1>2, <1>7, <1>8, RowWritten
<1>10. \A u \in Task, v \in Provider : \A i \in 1 .. Len(sessions[u]) :
          sessions'[u][i].offer[v] = IF Pinged(h, u, i, v) THEN "PENDING" ELSE sessions[u][i].offer[v]
  <2> SUFFICES ASSUME NEW u \in Task, NEW v \in Provider, NEW i \in Nat, i \in 1 .. Len(sessions[u])
               PROVE  sessions'[u][i].offer[v] = IF Pinged(h, u, i, v) THEN "PENDING"
                                                 ELSE sessions[u][i].offer[v]
    BY Lengths
  <2>1. sessions'[u][i] = IF u = t /\ i = k THEN row ELSE sessions[u][i]
    BY <1>9
  <2> QED
    BY <1>4, <1>7, <2>1
<1>11. duty' = [v \in Provider |-> IF v \in Won(h) THEN "ON_DISPATCH" ELSE duty[v]]
    BY DEF PingBatch, Won
<1>12. \E w \in HandlerRow : Become(h, w) /\ w.pc \in {"idle", "check"}
                             /\ w.row \in {Draft, handler[h].row}
  <2>1. CASE Finish(h)
    <3>1. Idle.row = Draft
      BY DEF Idle
    <3> QED
      BY <2>1, <3>1, Defaults DEF Finish
  <2>2. CASE Goto(h, "check")
    BY <2>2, GoesWhole, Labels
  <2> QED
    BY <2>1, <2>2 DEF PingBatch
<1> QED
    BY <1>1, <1>9, <1>10, <1>11, <1>12

LEMMA PingKeeps ==
    ASSUME TypeInv, OfferInv, NEW h \in Handler, PingBatch(h)
    PROVE  /\ OfferInv' /\ Mostly /\ AnswersGoOn
           /\ \A t \in Task, i \in Nat, v \in Provider : Pinged(h, t, i, v) => sessions[t][i].offer[v] = "NONE"
<1>1. handler[h].pc = "ping" /\ UNCHANGED msgs
    BY DEF PingBatch, At
<1>2. \A t \in Task, v \in Provider : \A i \in 1 .. Len(sessions[t]) :
          sessions'[t][i].offer[v] = IF Pinged(h, t, i, v) THEN "PENDING" ELSE sessions[t][i].offer[v]
    BY Pings
<1>3. PICK w \in HandlerRow : Become(h, w) /\ w.pc \in {"idle", "check"}
    BY Pings
<1>4. \A g \in Handler : handler'[g] = IF g = h THEN w ELSE handler[g]
    BY <1>3, Becomes
<1>5. \A t \in Task, i \in Nat, v \in Provider :
          Pinged(h, t, i, v) => BatchRuns(h, t, i, v) /\ sessions[t][i].offer[v] = "NONE"
    BY <1>1 DEF OfferInv, InvitedAfresh, Fresh, Pinged, Won, BatchRuns
<1>6. Mostly
  <2> SUFFICES ASSUME NEW t \in Task, NEW v \in Provider, NEW i \in Nat, i \in 1 .. Len(sessions[t])
               PROVE  \/ sessions[t][i].offer[v] = "NONE"
                      \/ sessions'[t][i].offer[v] = sessions[t][i].offer[v]
    BY Lengths DEF Mostly
  <2> QED
    BY <1>2, <1>5
<1>7. w.pc \notin WorkLabel /\ w.pc \notin AnswerLabel
    BY <1>3, Elsewhere
<1>8. NoNewMatch /\ NoNewPing /\ AnswersGoOn
    BY <1>1, <1>4, <1>7 DEF NoNewMatch, NoNewPing, AnswersGoOn, WorkLabel
<1>9. InvitedAfresh'
  <2> SUFFICES ASSUME NEW u \in Task, NEW i \in Nat, NEW v \in Provider,
                      (\E m \in msgs' : BatchSent(m, u, i, v)) \/ (\E g \in Handler : BatchRuns(g, u, i, v)')
               PROVE  Fresh(u, i, v)'
    BY DEF InvitedAfresh, BatchSent, About
  <2>1. (\E m \in msgs : BatchSent(m, u, i, v)) \/ (\E g \in Handler : g # h /\ BatchRuns(g, u, i, v))
    BY <1>1, <1>4, <1>7 DEF BatchRuns, About, WorkLabel
  <2>2. Fresh(u, i, v) /\ i \in 1 .. Len(sessions[u]) /\ ~BatchRuns(h, u, i, v)
    BY <2>1, PingsPlaced DEF InvitedAfresh, InvitedOnce, OfferInv
  <2>3. sessions'[u][i].offer[v] = "NONE"
    BY <1>2, <1>5, <2>2 DEF Fresh
  <2>4. \A m \in msgs' : ~MatchSent(m, u, i)
    BY <1>1, <2>2 DEF Fresh
  <2>5. \A g \in Handler : ~MatchRuns(g, u, i)'
    BY <1>8, <2>2 DEF Fresh, NoNewMatch, MatchRuns, About
  <2> QED
    BY <2>3, <2>4, <2>5 DEF Fresh, MatchSent, About
<1> QED
    BY <1>5, <1>6, <1>8, <1>9, KeepsMatched, KeepsInvited, KeepsAlone, KeepsCount DEF OfferInv

\* What saving an answer does.
Answered(h, t, i, v) == About(handler[h], t, i) /\ v = handler[h].provider
Reply(h) == IF handler[h].accept THEN "ACCEPTED" ELSE "DECLINED"

LEMMA Replies ==
    ASSUME TypeInv, AnswersCount, NEW h \in Handler, SaveAnswer(h)
    PROVE  /\ handler[h].pc = "answer" /\ UNCHANGED <<task, duty, msgs>> /\ Level
           /\ \A t \in Task, v \in Provider : \A i \in 1 .. Len(sessions[t]) :
                  sessions'[t][i].offer[v] = IF Answered(h, t, i, v) THEN Reply(h)
                                             ELSE sessions[t][i].offer[v]
           /\ \E w \in HandlerRow :
                  /\ Become(h, w) /\ w.pc = (IF handler[h].accept THEN "assign" ELSE "release")
                  /\ w.task = handler[h].task /\ w.seq = handler[h].seq
                  /\ w.provider = handler[h].provider /\ w.row = handler[h].row
<1>1. handler[h].pc = "answer" /\ UNCHANGED <<task, duty, msgs>> /\ handler[h].pc \in AnswerLabel
    BY Elsewhere DEF SaveAnswer, At
<1>2. PICK t \in Task, k \in Nat, x \in Provider :
          t = handler[h].task /\ k = handler[h].seq /\ x = handler[h].provider /\ k \in 1 .. Len(sessions[t])
    BY <1>1, AnswerPlaced DEF TypeInv, TypeOK, HandlerRow
<1>3. PICK o \in DispatchAttemptStatus : o = Reply(h)
    BY DEF Reply, DispatchAttemptStatus
<1>4. \A u \in Task, i \in Nat, v \in Provider : Answered(h, u, i, v) <=> (u = t /\ i = k /\ v = x)
    BY <1>2 DEF Answered, About
<1>5. sessions[t][k] \in DispatchSession
    BY <1>2, Lengths
<1>6. PICK row : row = [sessions[t][k] EXCEPT !.offer[x] = o]
    OBVIOUS
<1>7. /\ row \in DispatchSession
      /\ \A v \in Provider : row.offer[v] = IF v = x THEN o ELSE sessions[t][k].offer[v]
    BY <1>5, <1>6, SessionRows DEF DispatchSession
<1>8. sessions' = [sessions EXCEPT ![t][k].offer[x] = o]
    BY <1>2, <1>3 DEF SaveAnswer, Reply
<1>9. Writes(t, k, row)
    BY <1>2, <1>6, <1>8 DEF TypeInv, TypeOK, Writes
<1>10. /\ Level
       /\ \A u \in Task : \A i \in 1 .. Len(sessions[u]) :
              sessions'[u][i] = IF u = t /\ i = k THEN row ELSE sessions[u][i]
    BY <1>2, <1>7, <1>9, RowWritten
<1>11. \A u \in Task, v \in Provider : \A i \in 1 .. Len(sessions[u]) :
          sessions'[u][i].offer[v] = IF Answered(h, u, i, v) THEN Reply(h) ELSE sessions[u][i].offer[v]
  <2> SUFFICES ASSUME NEW u \in Task, NEW v \in Provider, NEW i \in Nat, i \in 1 .. Len(sessions[u])
               PROVE  sessions'[u][i].offer[v] = IF Answered(h, u, i, v) THEN Reply(h)
                                                 ELSE sessions[u][i].offer[v]
    BY Lengths
  <2>1. sessions'[u][i] = IF u = t /\ i = k THEN row ELSE sessions[u][i]
    BY <1>10
  <2> QED
    BY <1>3, <1>4, <1>7, <2>1
<1>12. PICK l \in Label : l = IF handler[h].accept THEN "assign" ELSE "release"
    BY Labels
<1>13. Goto(h, l)
    BY <1>12 DEF SaveAnswer
<1> QED
    BY <1>1, <1>10, <1>11, <1>12, <1>13, GoesWhole

LEMMA SaveAnswerKeeps ==
    ASSUME TypeInv, OfferInv, NEW h \in Handler, SaveAnswer(h)
    PROVE  /\ OfferInv'
           /\ \A t \in Task, i \in Nat, v \in Provider :
                  Answered(h, t, i, v) => sessions[t][i].offer[v] \notin {"NONE", "ACCEPTED", "DECLINED"}
<1>1. AnswersCount /\ AnswersAlone
    BY DEF OfferInv
<1>2. /\ handler[h].pc = "answer" /\ UNCHANGED <<task, duty, msgs>>
      /\ \A t \in Task, v \in Provider : \A i \in 1 .. Len(sessions[t]) :
             sessions'[t][i].offer[v] = IF Answered(h, t, i, v) THEN Reply(h) ELSE sessions[t][i].offer[v]
    BY <1>1, Replies
<1>3. PICK w \in HandlerRow : /\ Become(h, w) /\ w.pc = (IF handler[h].accept THEN "assign" ELSE "release")
                              /\ w.task = handler[h].task /\ w.seq = handler[h].seq
                              /\ w.provider = handler[h].provider
    BY <1>1, Replies
<1>4. \A g \in Handler : handler'[g] = IF g = h THEN w ELSE handler[g]
    BY <1>3, Becomes
<1>5. w.pc \notin WorkLabel /\ w.pc \in AnswerLabel /\ w.pc # "answer" /\ "assign" \in Accepting
    BY <1>3, Elsewhere DEF WorkLabel, Accepting
<1>6. handler[h].pc \in AnswerLabel
    BY <1>2, Elsewhere
<1>7. \A t \in Task, i \in Nat, v \in Provider :
          Answered(h, t, i, v) => sessions[t][i].offer[v] \notin {"NONE", "ACCEPTED", "DECLINED"}
    BY <1>1, <1>2 DEF AnswersCount, OfferOf, Answered, About
<1>8. NoNewMatch /\ NoNewPing
    BY <1>2, <1>4, <1>5 DEF NoNewMatch, NoNewPing, WorkLabel
<1>9. StillNone
  <2> SUFFICES ASSUME NEW t \in Task, NEW v \in Provider, NEW i \in Nat, i \in 1 .. Len(sessions[t]),
                      sessions[t][i].offer[v] = "NONE"
               PROVE  sessions'[t][i].offer[v] = "NONE"
    BY Lengths DEF StillNone
  <2> QED
    BY <1>2, <1>7
<1>10. AnswersAlone'
    BY <1>1, <1>3, <1>4, <1>5, <1>6 DEF AnswersAlone, Answering
<1>11. AnswersCount'
  <2> SUFFICES ASSUME NEW g \in Handler, handler'[g].pc \in AnswerLabel
               PROVE  /\ handler'[g].provider \in Provider
                      /\ handler'[g].pc = "answer" =>
                             OfferOf(handler[g])' \notin {"NONE", "ACCEPTED", "DECLINED"}
                      /\ handler'[g].pc \in Accepting => OfferOf(handler[g])' = "ACCEPTED"
    BY Elsewhere DEF AnswersCount
  <2>1. /\ handler[g].pc \in AnswerLabel /\ handler'[g].provider = handler[g].provider
        /\ handler'[g].task = handler[g].task /\ handler'[g].seq = handler[g].seq
        /\ handler'[g].pc = IF g = h THEN w.pc ELSE handler[g].pc
    BY <1>3, <1>4, <1>6
  <2>2. PICK t \in Task, i \in Nat, v \in Provider :
            t = handler[g].task /\ i = handler[g].seq /\ v = handler[g].provider /\ i \in 1 .. Len(sessions[t])
    BY <1>1, <2>1, AnswerPlaced DEF TypeInv, TypeOK, HandlerRow
  <2>3. CASE g = h
    <3>1. Answered(h, t, i, v)
      BY <2>2, <2>3 DEF Answered, About
    <3>2. sessions'[t][i].offer[v] = Reply(h)
      BY <1>2, <2>2, <3>1
    <3>3. w.pc \in Accepting => Reply(h) = "ACCEPTED"
      BY <1>3, Elsewhere DEF Reply
    <3> QED
      BY <1>5, <2>1, <2>2, <2>3, <3>2, <3>3 DEF OfferOf
  <2>4. CASE g # h
    <3>1. ~Answered(h, t, i, v)
      BY <1>1, <1>6, <2>1, <2>2, <2>4 DEF AnswersAlone, Answering, Answered
    <3>2. sessions'[t][i].offer[v] = sessions[t][i].offer[v]
      BY <1>2, <2>2, <3>1
    <3> QED
      BY <1>1, <2>1, <2>2, <2>4, <3>2 DEF OfferOf, AnswersCount
  <2> QED
    BY <2>3, <2>4
<1> QED
    BY <1>1, <1>7, <1>8, <1>9, <1>10, <1>11, KeepsMatched, KeepsInvited, KeepsFresh DEF OfferInv

\* A provider's answer begins: it has no other under way.
LEMMA AnswerBegins ==
    ASSUME TypeInv, NEW h \in Handler, Answers(h)
    PROVE  \E t \in Task, v \in Provider, i \in Nat : \E w \in HandlerRow :
               /\ i \in 1 .. Len(sessions[t]) /\ Become(h, w) /\ w.pc = "answer"
               /\ w.task = t /\ w.seq = i /\ w.provider = v /\ w.row = task[t]
               /\ task[t].status # "ASSIGNED"
               /\ sessions[t][i].offer[v] \in (IF LateAnswers THEN Open ELSE {"PENDING"})
               /\ \A g \in Handler : ~Answering(g, v)
<1>1. PICK t \in Task, v \in Provider, accept \in BOOLEAN :
          \E i \in 1 .. Len(sessions[t]) : BeginAnswer(h, t, v, i, accept)
    BY DEF Answers
<1>2. PICK i \in Nat : i \in 1 .. Len(sessions[t]) /\ BeginAnswer(h, t, v, i, accept)
    BY <1>1
<1>3. PICK w : /\ w = [Idle EXCEPT !.pc = "answer", !.task = t, !.row = task[t], !.seq = i,
                                   !.provider = v, !.accept = accept]
               /\ Become(h, w)
    BY <1>2 DEF BeginAnswer
<1>4. task[t] \in TaskRow
    BY DEF TypeInv, TypeOK
<1>5. /\ w \in HandlerRow /\ w.pc = "answer" /\ w.task = t /\ w.seq = i /\ w.provider = v
      /\ w.row = task[t]
    BY <1>3, <1>4, Defaults, Labels DEF HandlerRow
<1>6. /\ task[t].status # "ASSIGNED"
      /\ sessions[t][i].offer[v] \in (IF LateAnswers THEN Open ELSE {"PENDING"})
      /\ \A g \in Handler : ~Answering(g, v)
    BY <1>2 DEF BeginAnswer
<1> QED
    BY <1>2, <1>3, <1>5, <1>6

LEMMA BeginAnswerKeeps ==
    ASSUME TypeInv, OfferInv, NEW h \in Handler, Answers(h)
    PROVE  OfferInv' /\ Mild
<1>1. UNCHANGED <<sessions, msgs>>
    BY DEF Answers, BeginAnswer, rowVars
<1>2. PICK t \in Task, v \in Provider, i \in Nat : \E w \in HandlerRow :
               /\ i \in 1 .. Len(sessions[t]) /\ Become(h, w) /\ w.pc = "answer"
               /\ w.task = t /\ w.seq = i /\ w.provider = v
               /\ sessions[t][i].offer[v] \in (IF LateAnswers THEN Open ELSE {"PENDING"})
               /\ \A g \in Handler : ~Answering(g, v)
    BY AnswerBegins
<1>3. PICK w \in HandlerRow : /\ Become(h, w) /\ w.pc = "answer"
                              /\ w.task = t /\ w.seq = i /\ w.provider = v
    BY <1>2
<1>4. sessions[t][i].offer[v] \in Open /\ \A g \in Handler : ~Answering(g, v)
    BY <1>2 DEF Open
<1>5. \A g \in Handler : handler'[g] = IF g = h THEN w ELSE handler[g]
    BY <1>3, Becomes
<1>6. Mild /\ StillNone
    BY <1>1 DEF Mild, StillNone
<1>7. NoNewMatch /\ NoNewPing
    BY <1>1, <1>3, <1>5 DEF NoNewMatch, NoNewPing
<1>8. AnswersAlone'
    BY <1>3, <1>4, <1>5 DEF AnswersAlone, Answering, OfferInv
<1>9. AnswersCount'
    BY <1>1, <1>3, <1>4, <1>5, Elsewhere DEF AnswersCount, OfferInv, OfferOf, Open
<1> QED
    BY <1>6, <1>7, <1>8, <1>9, KeepsMatched, KeepsInvited, KeepsFresh DEF OfferInv

-----------------------------------------------------------------------------
LEMMA OfferInit == Init => OfferInv
<1> SUFFICES ASSUME Init
             PROVE  OfferInv
    OBVIOUS
<1>1. msgs = {} /\ \A h \in Handler : handler[h].pc = "idle"
    BY Defaults DEF Init
<1> QED
    BY <1>1, Elsewhere
       DEF OfferInv, MatchedOnce, InvitedOnce, InvitedAfresh, AnswersAlone, AnswersCount, MatchRuns,
           BatchRuns, Answering

LEMMA OfferNext == TypeInv /\ OfferInv /\ [Next]_vars => OfferInv'
<1> SUFFICES ASSUME TypeInv, OfferInv, [Next]_vars
             PROVE  OfferInv'
    OBVIOUS
<1>1. CASE \A h \in Handler : ~Special(h)
    BY <1>1, OrdinarySteps, OrdinaryKeeps
<1>2. ASSUME NEW h \in Handler, Special(h)
      PROVE  OfferInv'
    BY <1>2, InsertKeeps, SendKeeps, EnqueueKeeps, PingKeeps, SaveAnswerKeeps, RunMatchingKeeps,
       RunBatchKeeps, BeginAnswerKeeps DEF Special
<1> QED
    BY <1>1, <1>2

\* A session is matched once and a provider invited once in it, and the offer
\* that an answer is about stays what the handler takes it for, whatever is
\* delivered, lost, retried or redispatched meanwhile.
THEOREM OfferInvariant == Spec => [](TypeInv /\ OfferInv)
<1>1. Init => TypeInv /\ OfferInv
    BY TypeInit, OfferInit
<1>2. TypeInv /\ OfferInv /\ [Next]_vars => (TypeInv /\ OfferInv)'
    BY TypeNext, OfferNext
<1> QED
    BY <1>1, <1>2, PTL DEF Spec

(***************************************************************************)
(* The course of an attempt.                                               *)
(***************************************************************************)
Follows(o, p) ==
    \/ p = o
    \/ o = "NONE" /\ p = "PENDING"
    \/ Lost(o, p)
    \/ o \notin {"NONE", "ACCEPTED", "DECLINED"} /\ p \in {"ACCEPTED", "DECLINED"}

CourseStep ==
    \A t \in Task, v \in Provider : \A i \in 1 .. Len(sessions[t]) :
        Follows(sessions[t][i].offer[v], sessions'[t][i].offer[v])

LEMMA SpecialCourse ==
    ASSUME TypeInv, OfferInv, NEW h \in Handler, Special(h)
    PROVE  CourseStep
<1>1. Mild => CourseStep
    BY DEF Mild, CourseStep, Follows
<1>2. CASE PingBatch(h)
  <2> SUFFICES ASSUME NEW t \in Task, NEW v \in Provider, NEW i \in Nat, i \in 1 .. Len(sessions[t])
               PROVE  Follows(sessions[t][i].offer[v], sessions'[t][i].offer[v])
    BY Lengths DEF CourseStep
  <2>1. /\ sessions'[t][i].offer[v] = IF Pinged(h, t, i, v) THEN "PENDING" ELSE sessions[t][i].offer[v]
        /\ Pinged(h, t, i, v) => sessions[t][i].offer[v] = "NONE"
    BY <1>2, Pings, PingKeeps
  <2> QED
    BY <2>1 DEF Follows
<1>3. CASE SaveAnswer(h)
  <2> SUFFICES ASSUME NEW t \in Task, NEW v \in Provider, NEW i \in Nat, i \in 1 .. Len(sessions[t])
               PROVE  Follows(sessions[t][i].offer[v], sessions'[t][i].offer[v])
    BY Lengths DEF CourseStep
  <2>1. /\ sessions'[t][i].offer[v] = IF Answered(h, t, i, v) THEN Reply(h) ELSE sessions[t][i].offer[v]
        /\ Answered(h, t, i, v) => sessions[t][i].offer[v] \notin {"NONE", "ACCEPTED", "DECLINED"}
    BY <1>3, Replies, SaveAnswerKeeps DEF OfferInv
  <2> QED
    BY <2>1 DEF Follows, Reply
<1> QED
    BY <1>1, <1>2, <1>3, InsertKeeps, SendKeeps, EnqueueKeeps, RunMatchingKeeps, RunBatchKeeps,
       BeginAnswerKeeps DEF Special

LEMMA Course == TypeInv /\ OfferInv /\ [Next]_vars => CourseStep
<1> SUFFICES ASSUME TypeInv, OfferInv, [Next]_vars
             PROVE  CourseStep
    OBVIOUS
<1>1. CASE \A h \in Handler : ~Special(h)
  <2>1. Mild
    BY <1>1, OrdinarySteps DEF Ordinary
  <2> QED
    BY <2>1 DEF Mild, CourseStep, Follows
<1> QED
    BY <1>1, SpecialCourse

\* A provider is pinged at most once in a session (ping_batch), and what it
\* accepted or declined is the last word: no step of any handler, beat or the
\* clock changes the attempt any more.
AttemptCourse == [][CourseStep]_vars

\* Every attempt keeps its course, although answers are saved over whatever
\* the attempt has become, and matching, recovery and closing overlap.
THEOREM AttemptsKeepCourse == Spec => AttemptCourse
<1>1. TypeInv /\ OfferInv /\ [Next]_vars => [CourseStep]_vars
    BY Course
<1> QED
    BY <1>1, OfferInvariant, PTL DEF Spec, AttemptCourse

\* No session disappears.
LEMMA SessionsGrow == TypeInv /\ OfferInv /\ [Next]_vars => Grown
<1> SUFFICES ASSUME TypeInv, OfferInv, [Next]_vars
             PROVE  Grown
    OBVIOUS
<1>1. Level => Grown
    BY Lengths DEF Level, Grown
<1>2. CASE \A h \in Handler : ~Special(h)
    BY <1>1, <1>2, OrdinarySteps DEF Ordinary
<1>3. ASSUME NEW h \in Handler, InsertSession(h)
      PROVE  Grown
  <2>1. PICK t \in Task : t = handler[h].task
    BY <1>3, Working DEF InsertSession, At
  <2>2. PICK s \in Seq(DispatchSession) : s = sessions[t]
    BY Lengths
  <2>3. sessions' = [sessions EXCEPT ![t] = Append(s, NewSession)]
    BY <1>3, <2>1, <2>2 DEF InsertSession, JobOf
  <2>4. Len(s) <= Len(Append(s, NewSession))
    BY <2>2
  <2> QED
    BY <2>2, <2>3, <2>4, Lengths DEF Grown, TypeInv, TypeOK
<1>4. ASSUME NEW h \in Handler, Special(h), ~InsertSession(h)
      PROVE  Grown
  <2>1. CASE SendMatch(h) \/ EnqueueBatches(h) \/ Answers(h)
    <3>1. UNCHANGED sessions
      BY <2>1 DEF SendMatch, EnqueueBatches, Answers, BeginAnswer, rowVars
    <3> QED
      BY <1>1, <3>1, SessionsStay
  <2>2. CASE PingBatch(h) \/ SaveAnswer(h)
    BY <1>1, <2>2, Pings, Replies DEF OfferInv
  <2>3. ASSUME NEW m \in msgs, RunMatching(h, m) \/ RunBatch(h, m)
        PROVE  Grown
    <3>1. RecoverStaleAttempts(m.task) /\ m.task \in Task
      BY <2>3 DEF RunMatching, RunBatch, TypeInv, TypeOK, Message
    <3> QED
      BY <1>1, <3>1, RecoversOffers
  <2> QED
    BY <1>4, <2>1, <2>2, <2>3 DEF Special
<1> QED
    BY <1>2, <1>3, <1>4

-----------------------------------------------------------------------------
(***************************************************************************)
(* Whom a task is assigned to.  A task that has an assignee has an         *)
(* accepted offer of it; and a handler that read an assignee finds one, so *)
(* that what it saves does not leave the task ASSIGNED to nobody.  That is *)
(* so while no redispatch takes an assignee away.                          *)
(***************************************************************************)
NoneReassigned ==
    \A t \in Task, h \in Handler :
        ManualRedispatch(h, t) \/ RevokeAssignment(h, t) => task[t].provider = NoProvider

HasAccepted(t) ==
    /\ task[t].status = "ASSIGNED" => task[t].provider # NoProvider
    /\ task[t].provider # NoProvider => OfferedTo(t, task[t].provider, {"ACCEPTED"})

UpToDate(h) ==
    /\ handler[h].pc # "reopen"
    /\ handler[h].pc # "idle" /\ handler[h].row.provider # NoProvider =>
           task[handler[h].task].provider # NoProvider

AcceptedInv == (\A t \in Task : HasAccepted(t)) /\ \A h \in Handler : UpToDate(h)

\* Steps that assign no task and take none from its assignee.
NoneAssigned ==
    \A t \in Task : /\ task'[t].provider = task[t].provider
                    /\ task'[t].status = "ASSIGNED" => task[t].status = "ASSIGNED"

\* A handler that goes on has the row it had, the row as it is, or none.
RowsRead ==
    \A g \in Handler : handler'[g].pc # "idle" =>
        /\ handler'[g].pc = "reopen" => handler[g].pc = "reopen"
        /\ \/ handler'[g].row.provider = NoProvider
           \/ handler'[g].row = task[handler'[g].task]
           \/ /\ handler[g].pc # "idle"
              /\ handler'[g].row = handler[g].row /\ handler'[g].task = handler[g].task

LEMMA Blank == Draft.provider = NoProvider /\ Draft.status = "DRAFT" /\ Idle.row = Draft
BY DEF Draft, Idle

LEMMA Reads ==
    ASSUME TypeInv, NEW h \in Handler, NEW w, Become(h, w), w.pc # "reopen",
           \/ w.row.provider = NoProvider
           \/ w.row = task[w.task]
           \/ handler[h].pc # "idle" /\ w.row = handler[h].row /\ w.task = handler[h].task
    PROVE  RowsRead
<1>1. \A g \in Handler : handler'[g] = IF g = h THEN w ELSE handler[g]
    BY Becomes
<1> QED
    BY <1>1 DEF RowsRead

LEMMA ReadsNothing ==
    ASSUME TypeInv, NEW h \in Handler, Finish(h)
    PROVE  RowsRead
<1>1. \A g \in Handler : handler'[g] = IF g = h THEN Idle ELSE handler[g]
    BY Becomes DEF Finish
<1> QED
    BY <1>1, Defaults DEF RowsRead

LEMMA ReadsOn ==
    ASSUME TypeInv, NEW h \in Handler, ~At(h, "idle"), NEW l \in Label, l # "reopen", Goto(h, l)
    PROVE  RowsRead
<1>1. PICK w \in HandlerRow : Become(h, w) /\ w.pc = l /\ w.task = handler[h].task /\ w.row = handler[h].row
    BY Goes
<1> QED
    BY <1>1, Reads DEF At

LEMMA HandlersRest ==
    ASSUME UNCHANGED handler
    PROVE  RowsRead
BY DEF RowsRead

LEMMA TasksStay ==
    ASSUME UNCHANGED task
    PROVE  NoneAssigned
BY DEF NoneAssigned

\* What a handler saves without an assignee of its own.
LEMMA SavesNoAssignee ==
    ASSUME TypeInv, NEW h \in Handler, ~At(h, "idle"), NEW new \in TaskRow, SaveTask(h, new),
           new.provider = handler[h].row.provider,
           new.status = handler[h].row.status \/ new.status # "ASSIGNED"
    PROVE  NoneAssigned
<1>1. PICK t \in Task, old \in TaskRow : t = handler[h].task /\ old = handler[h].row
    BY Working
<1>2. task' = [task EXCEPT ![t] = Saved(task[t], old, new)]
    BY <1>1 DEF SaveTask, JobOf
<1>3. /\ Saved(task[t], old, new).provider = task[t].provider
      /\ Saved(task[t], old, new).status = "ASSIGNED" => task[t].status = "ASSIGNED"
    BY <1>1 DEF Saved
<1> QED
    BY <1>2, <1>3 DEF NoneAssigned, TypeInv, TypeOK

LEMMA DispatchedRows ==
    ASSUME NEW row \in TaskRow
    PROVE  /\ Dispatched(row).provider = row.provider /\ Dispatched(row).status = "SEARCHING"
           /\ Retried(row).provider = row.provider /\ Retried(row).status = "SEARCHING"
           /\ Exhausted(row).provider = row.provider /\ Exhausted(row).status = "NO_MATCH"
           /\ Reopened(row).provider = NoProvider /\ Reopened(row).status = "SEARCHING"
           /\ [row EXCEPT !.status = "OPEN"].provider = row.provider
           /\ [row EXCEPT !.status = "OPEN"].status = "OPEN"
           /\ \A d : /\ [row EXCEPT !.dispatch = d].provider = row.provider
                     /\ [row EXCEPT !.dispatch = d].status = row.status
BY DEF Dispatched, Retried, Exhausted, Reopened, TaskRow

LEMMA BeginningAssigns ==
    ASSUME TypeInv, NEW h \in Handler, BeginningStep(h), ~ReopenTask(h)
    PROVE  NoneAssigned /\ RowsRead
<1>0. ~At(h, "idle")
    BY DEF BeginningStep, ConfirmDraft, ReloadTask, StartInitialDispatch, NotEligible, ReopenTask,
           GetNextSequence, InsertSession, InsertCollides, SendMatch, At
<1>1. PICK row \in TaskRow : row = handler[h].row
    BY <1>0, Working
<1>2. CASE ConfirmDraft(h)
  <2>1. PICK new \in TaskRow : new = [row EXCEPT !.status = "OPEN"]
    BY NewRows
  <2>2. new.provider = row.provider /\ new.status # "ASSIGNED"
    BY <2>1, DispatchedRows
  <2>3. SaveTask(h, new) /\ Goto(h, "reload")
    BY <1>1, <1>2, <2>1 DEF ConfirmDraft
  <2> QED
    BY <1>0, <1>1, <2>2, <2>3, SavesNoAssignee, ReadsOn, Labels
<1>3. CASE ReloadTask(h)
  <2>1. PICK w : w = [handler[h] EXCEPT !.pc = "start", !.row = task[JobOf(h)]] /\ Become(h, w)
    BY <1>3 DEF ReloadTask
  <2>2. w.pc = "start" /\ w.row = task[w.task]
    BY <1>0, <2>1, Working DEF HandlerRow, JobOf
  <2>3. UNCHANGED task
    BY <1>3 DEF ReloadTask, rowVars
  <2> QED
    BY <2>1, <2>2, <2>3, Reads, TasksStay
<1>4. CASE StartInitialDispatch(h)
  <2>1. PICK new \in TaskRow : new = Dispatched(row)
    BY NewRows
  <2>2. new.provider = row.provider /\ new.status # "ASSIGNED"
    BY <2>1, DispatchedRows
  <2>3. SaveTask(h, new) /\ Continue(h, "sequence")
    BY <1>1, <1>4, <2>1 DEF StartInitialDispatch
  <2>4. PICK w \in HandlerRow : Become(h, w) /\ w.pc = "sequence" /\ w.row = Draft
    BY <1>0, <2>3, Continues, Labels
  <2> QED
    BY <1>0, <1>1, <2>2, <2>3, <2>4, SavesNoAssignee, Reads, Blank
<1>5. CASE NotEligible(h) \/ InsertCollides(h) \/ SendMatch(h)
  <2>1. Finish(h) /\ UNCHANGED task
    BY <1>5 DEF NotEligible, InsertCollides, SendMatch, rowVars
  <2> QED
    BY <2>1, ReadsNothing, TasksStay
<1>6. CASE GetNextSequence(h)
  <2>1. PICK w : w = [handler[h] EXCEPT !.pc = "insert", !.seq = Len(sessions[JobOf(h)]) + 1]
                 /\ Become(h, w)
    BY <1>6 DEF GetNextSequence
  <2>2. w.pc = "insert" /\ w.row = handler[h].row /\ w.task = handler[h].task
    BY <1>0, <2>1, Working DEF HandlerRow
  <2>3. UNCHANGED task
    BY <1>6 DEF GetNextSequence, rowVars
  <2> QED
    BY <1>0, <2>1, <2>2, <2>3, Reads, TasksStay DEF At
<1>7. CASE InsertSession(h)
  <2>1. Goto(h, "send") /\ UNCHANGED task
    BY <1>7 DEF InsertSession
  <2> QED
    BY <1>0, <2>1, ReadsOn, TasksStay, Labels
<1> QED
    BY <1>2, <1>3, <1>4, <1>5, <1>6, <1>7 DEF BeginningStep

LEMMA NoMatchAssigns ==
    ASSUME TypeInv, NEW h \in Handler, NoMatchStep(h)
    PROVE  NoneAssigned /\ RowsRead
<1>0. ~At(h, "idle")
    BY DEF NoMatchStep, FailSession, ScheduleRetry, ExhaustTask, ExhaustSession, At
<1>1. PICK row \in TaskRow : row = handler[h].row
    BY <1>0, Working
<1>2. CASE FailSession(h)
  <2>1. PICK w : /\ w = [handler[h] EXCEPT !.pc = "no_match", !.ss = sessions'[JobOf(h)][handler[h].seq].status]
                 /\ Become(h, w)
    BY <1>2 DEF FailSession
  <2>2. w.pc = "no_match" /\ w.row = handler[h].row /\ w.task = handler[h].task /\ UNCHANGED task
    BY <1>0, <1>2, <2>1, Working DEF HandlerRow, FailSession
  <2> QED
    BY <1>0, <2>1, <2>2, Reads, TasksStay DEF At
<1>3. CASE ScheduleRetry(h)
  <2>1. PICK new \in TaskRow : new = [row EXCEPT !.dispatch = "RETRY_SCHEDULED"]
    BY NewRows
  <2>2. new.provider = row.provider /\ new.status = row.status
    BY <2>1, DispatchedRows
  <2>3. SaveTask(h, new) /\ Finish(h)
    BY <1>1, <1>3, <2>1 DEF ScheduleRetry
  <2> QED
    BY <1>0, <1>1, <2>2, <2>3, SavesNoAssignee, ReadsNothing
<1>4. CASE ExhaustTask(h)
  <2>1. PICK new \in TaskRow : new = Exhausted(row)
    BY NewRows
  <2>2. new.provider = row.provider /\ new.status # "ASSIGNED"
    BY <2>1, DispatchedRows
  <2>3. SaveTask(h, new)
    BY <1>1, <1>4, <2>1 DEF ExhaustTask
  <2>4. PICK w : w = [handler[h] EXCEPT !.pc = "exhaust", !.row = Draft] /\ Become(h, w)
    BY <1>4 DEF ExhaustTask
  <2>5. w.pc = "exhaust" /\ w.row = Draft
    BY <1>0, <2>4, Working DEF HandlerRow
  <2> QED
    BY <1>0, <1>1, <2>2, <2>3, <2>4, <2>5, SavesNoAssignee, Reads, Blank
<1>5. CASE ExhaustSession(h)
  <2>1. Finish(h) /\ UNCHANGED task
    BY <1>5 DEF ExhaustSession
  <2> QED
    BY <2>1, ReadsNothing, TasksStay
<1> QED
    BY <1>2, <1>3, <1>4, <1>5 DEF NoMatchStep

LEMMA AnswerAssigns ==
    ASSUME TypeInv, NEW h \in Handler, AnswerStep(h), ~AssignTask(h)
    PROVE  NoneAssigned /\ RowsRead
<1>0. ~At(h, "idle") /\ UNCHANGED task
    BY DEF AnswerStep, SaveAnswer, AssignTask, UpdateAssignment, InsertAssignment,
           InsertAssignmentRaises, SetOnTask, CloseSessions, ReleaseProvider, At, rowVars
<1>1. CASE SaveAnswer(h)
  <2>1. PICK l \in Label : l # "reopen" /\ Goto(h, l)
    BY <1>1, Labels DEF SaveAnswer
  <2> QED
    BY <1>0, <2>1, ReadsOn, TasksStay
<1>2. CASE UpdateAssignment(h) \/ InsertAssignment(h)
  <2>1. PICK w : w = [handler[h] EXCEPT !.pc = "on_task", !.asg = NoAssignment] /\ Become(h, w)
    BY <1>2 DEF UpdateAssignment, InsertAssignment
  <2>2. w.pc = "on_task" /\ w.row = handler[h].row /\ w.task = handler[h].task
    BY <1>0, <2>1, Working DEF HandlerRow
  <2> QED
    BY <1>0, <2>1, <2>2, Reads, TasksStay DEF At
<1>3. CASE InsertAssignmentRaises(h) \/ CloseSessions(h)
  <2>1. Finish(h)
    BY <1>3 DEF InsertAssignmentRaises, CloseSessions
  <2> QED
    BY <1>0, <2>1, ReadsNothing, TasksStay
<1>4. CASE SetOnTask(h)
  <2>1. Goto(h, "close")
    BY <1>4 DEF SetOnTask
  <2> QED
    BY <1>0, <2>1, ReadsOn, TasksStay, Labels
<1>5. CASE ReleaseProvider(h)
  <2>1. CASE EndsSession(h)
    <3>1. PICK w : /\ w = [handler[h] EXCEPT !.pc = "no_match", !.ss = "FAILED", !.provider = NoProvider]
                   /\ Become(h, w)
      BY <1>5, <2>1 DEF ReleaseProvider
    <3>2. w.pc = "no_match" /\ w.row = handler[h].row /\ w.task = handler[h].task
      BY <1>0, <3>1, Working DEF HandlerRow
    <3> QED
      BY <1>0, <3>1, <3>2, Reads, TasksStay DEF At
  <2>2. CASE ~EndsSession(h)
    BY <1>0, <1>5, <2>2, ReadsNothing, TasksStay DEF ReleaseProvider
  <2> QED
    BY <2>1, <2>2
<1> QED
    BY <1>1, <1>2, <1>3, <1>4, <1>5 DEF AnswerStep

LEMMA MatchingAssigns ==
    ASSUME TypeInv, NEW h \in Handler, MatchingStep(h)
    PROVE  NoneAssigned /\ RowsRead
<1>0. ~At(h, "idle") /\ UNCHANGED task
    BY DEF MatchingStep, NoCandidates, EnqueueBatches, AbandonBatch, PingBatch, ScheduleCheck, At, rowVars
<1>1. CASE Finish(h)
    BY <1>0, <1>1, ReadsNothing, TasksStay
<1>2. CASE Goto(h, "fail") \/ Goto(h, "check")
    BY <1>0, <1>2, ReadsOn, TasksStay, Labels
<1> QED
    BY <1>1, <1>2
       DEF MatchingStep, NoCandidates, EnqueueBatches, AbandonBatch, PingBatch, ScheduleCheck

\* A message whose handler loads the task.
LEMMA LoadedRow ==
    ASSUME TypeInv, NEW m \in msgs, m.kind # "retry", NEW l \in Label
    PROVE  Loaded(m, l).pc = l /\ Loaded(m, l).row = task[Loaded(m, l).task]
<1>1. Loaded(m, l).pc = l /\ Loaded(m, l).task = m.task /\ m.task \in Task
    BY Loads
<1>2. task[m.task] \in TaskRow
    BY <1>1 DEF TypeInv, TypeOK
<1>3. Loaded(m, l).row = task[m.task]
    BY <1>2, Defaults DEF Loaded, HandlerRow
<1> QED
    BY <1>1, <1>3

LEMMA DeliveryAssigns ==
    ASSUME TypeInv, NEW h \in Handler, NEW m \in msgs, Deliver(h, m)
    PROVE  NoneAssigned /\ RowsRead
<1>0. PICK t \in Task : t = m.task /\ task[t] \in TaskRow
    BY DEF TypeInv, TypeOK, Message
<1>1. CASE AutoRetry(h, m)
  <2>1. PICK row : row = Retried(task[t]) /\ task' = [task EXCEPT ![t] = row]
    BY <1>0, <1>1 DEF AutoRetry
  <2>2. row.provider = task[t].provider /\ row.status # "ASSIGNED"
    BY <1>0, <2>1, DispatchedRows
  <2>3. NoneAssigned
    BY <2>1, <2>2 DEF NoneAssigned, TypeInv, TypeOK
  <2>4. PICK w : w = [Idle EXCEPT !.pc = "sequence", !.task = t] /\ Become(h, w)
    BY <1>0, <1>1 DEF AutoRetry
  <2>5. w.pc = "sequence" /\ w.row = Draft
    BY <2>4, Defaults, Blank DEF HandlerRow
  <2> QED
    BY <2>3, <2>4, <2>5, Reads, Blank
<1>2. CASE AutoRetryExhausted(h, m)
  <2>1. PICK row : row = Exhausted(task[t]) /\ task' = [task EXCEPT ![t] = row]
    BY <1>0, <1>2 DEF AutoRetryExhausted
  <2>2. row.provider = task[t].provider /\ row.status # "ASSIGNED"
    BY <1>0, <2>1, DispatchedRows
  <2>3. NoneAssigned
    BY <2>1, <2>2 DEF NoneAssigned, TypeInv, TypeOK
  <2> QED
    BY <1>2, <2>3, HandlersRest DEF AutoRetryExhausted
<1>3. CASE AutoRetryTaken(h, m) \/ SkipBatch(h, m) \/ CheckMoot(h, m)
  <2>1. UNCHANGED <<task, handler>>
    BY <1>3 DEF AutoRetryTaken, SkipBatch, CheckMoot, rowVars
  <2> QED
    BY <2>1, HandlersRest, TasksStay
<1>4. CASE MatchInactive(h, m) \/ RunMatching(h, m) \/ CheckExhaustion(h, m)
  <2>1. m.kind # "retry" /\ UNCHANGED task
    BY <1>4 DEF MatchInactive, RunMatching, CheckExhaustion, rowVars
  <2>2. PICK l \in {"fail", "fetch"} : Become(h, Loaded(m, l))
    BY <1>4 DEF MatchInactive, RunMatching, CheckExhaustion
  <2>3. Loaded(m, l).pc # "reopen" /\ Loaded(m, l).row = task[Loaded(m, l).task]
    BY <2>1, LoadedRow, Labels
  <2> QED
    BY <2>1, <2>2, <2>3, Reads, TasksStay
<1>5. CASE RunBatch(h, m)
  <2>1. PICK w : /\ w = [Idle EXCEPT !.pc = "ping", !.task = m.task, !.seq = m.seq,
                                     !.cands = m.cands, !.last = m.last]
                 /\ Become(h, w)
    BY <1>5 DEF RunBatch
  <2>2. w.pc = "ping" /\ w.row = Draft
    BY <2>1, Defaults, Blank DEF HandlerRow
  <2>3. UNCHANGED task
    BY <1>5 DEF RunBatch
  <2> QED
    BY <2>1, <2>2, <2>3, Reads, TasksStay, Blank
<1> QED
    BY <1>1, <1>2, <1>3, <1>4, <1>5 DEF Deliver

LEMMA RequestsAssign ==
    ASSUME TypeInv, NEW h \in Handler, (\E t \in Task : BeginConfirm(h, t)) \/ Answers(h)
    PROVE  NoneAssigned /\ RowsRead
<1>1. CASE Answers(h)
  <2>1. UNCHANGED task
    BY <1>1 DEF Answers, BeginAnswer, rowVars
  <2>2. PICK w \in HandlerRow : Become(h, w) /\ w.pc = "answer" /\ w.row = task[w.task]
    BY <1>1, AnswerBegins
  <2> QED
    BY <2>1, <2>2, Reads, TasksStay
<1>2. ASSUME NEW t \in Task, BeginConfirm(h, t)
      PROVE  NoneAssigned /\ RowsRead
  <2>1. PICK w : w = [Idle EXCEPT !.pc = "confirm", !.task = t, !.row = task[t]] /\ Become(h, w)
    BY <1>2 DEF BeginConfirm
  <2>2. task[t] \in TaskRow /\ UNCHANGED task
    BY <1>2 DEF BeginConfirm, rowVars, TypeInv, TypeOK
  <2>3. w.pc = "confirm" /\ w.row = task[w.task]
    BY <2>1, <2>2, Defaults, Labels DEF HandlerRow
  <2> QED
    BY <2>1, <2>2, <2>3, Reads, TasksStay
<1> QED
    BY <1>1, <1>2

LEMMA BeatAndClockAssign ==
    ASSUME TypeInv, NEW t \in Task, Beat(t) \/ Clock(t)
    PROVE  NoneAssigned /\ RowsRead
<1>0. task[t] \in TaskRow /\ UNCHANGED handler
    BY DEF TypeInv, TypeOK, Beat, Clock, ClaimDue, ClaimDueDies, Claim, RecoverStale, RetryFallsDue,
           ClaimGoesStale, Expiry, OfferExpires
<1>1. CASE Beat(t)
  <2>1. PICK d : task' = [task EXCEPT ![t].dispatch = d]
    BY <1>1 DEF Beat, ClaimDue, ClaimDueDies, Claim, RecoverStale
  <2>2. PICK row : row = [task[t] EXCEPT !.dispatch = d]
    OBVIOUS
  <2>3. row.provider = task[t].provider /\ row.status = task[t].status
    BY <1>0, <2>2, DispatchedRows
  <2>4. task' = [task EXCEPT ![t] = row]
    BY <2>1, <2>2
  <2>5. NoneAssigned
    BY <2>3, <2>4 DEF NoneAssigned, TypeInv, TypeOK
  <2> QED
    BY <1>0, <2>5, HandlersRest
<1>2. CASE Clock(t)
  <2>1. UNCHANGED task
    BY <1>2 DEF Clock, RetryFallsDue, ClaimGoesStale, Expiry, OfferExpires
  <2> QED
    BY <1>0, <2>1, HandlersRest, TasksStay
<1> QED
    BY <1>1, <1>2

\* Every step but an assignment and an administrator's leaves assignees be.
LEMMA AssigningSteps ==
    ASSUME TypeInv, [Next]_vars, \A h \in Handler : handler[h].pc # "reopen",
           \A h \in Handler : ~AssignTask(h),
           \A h \in Handler, t \in Task : ~ManualRedispatch(h, t) /\ ~RevokeAssignment(h, t)
    PROVE  NoneAssigned /\ RowsRead
<1>1. CASE UNCHANGED vars
    BY <1>1, HandlersRest, TasksStay DEF vars
<1>2. ASSUME NEW h \in Handler, HandlerStep(h)
      PROVE  NoneAssigned /\ RowsRead
  <2>1. ~ReopenTask(h)
    BY DEF ReopenTask, At
  <2> QED
    BY <1>2, <2>1, BeginningAssigns, NoMatchAssigns, AnswerAssigns, MatchingAssigns DEF HandlerStep
<1>3. ASSUME NEW h \in Handler, HandlerStart(h)
      PROVE  NoneAssigned /\ RowsRead
    BY <1>3, DeliveryAssigns, RequestsAssign DEF HandlerStart
<1>4. ASSUME NEW h \in Handler, Crash(h)
      PROVE  NoneAssigned /\ RowsRead
    BY <1>4, ReadsNothing, TasksStay DEF Crash, rowVars
<1> QED
    BY <1>1, <1>2, <1>3, <1>4, BeatAndClockAssign DEF Next

\* An acceptance stays.
LEMMA AcceptancesStay ==
    ASSUME TypeInv, CourseStep, Grown, TypeInv', NEW t \in Task, NEW v \in Provider,
           OfferedTo(t, v, {"ACCEPTED"})
    PROVE  OfferedTo(t, v, {"ACCEPTED"})'
<1>1. PICK i \in Nat : i \in 1 .. Len(sessions[t]) /\ sessions[t][i].offer[v] = "ACCEPTED"
    BY Lengths DEF OfferedTo
<1>2. Follows(sessions[t][i].offer[v], sessions'[t][i].offer[v])
    BY <1>1 DEF CourseStep
<1>3. sessions'[t][i].offer[v] = "ACCEPTED"
    BY <1>1, <1>2 DEF Follows, Lost, Open
<1>4. i \in 1 .. Len(sessions'[t])
  <2>1. Len(sessions[t]) \in Nat /\ Len(sessions'[t]) \in Nat /\ Len(sessions[t]) <= Len(sessions'[t])
    BY Lengths, LenProperties DEF Grown, TypeInv, TypeOK
  <2> QED
    BY <1>1, <2>1
<1> QED
    BY <1>3, <1>4 DEF OfferedTo

LEMMA Assignees ==
    ASSUME TypeInv, NEW t \in Task
    PROVE  task[t].provider # NoProvider => task[t].provider \in Provider
BY DEF TypeInv, TypeOK, TaskRow

LEMMA AcceptedKeeps ==
    ASSUME TypeInv, TypeInv', AcceptedInv, CourseStep, Grown, NoneAssigned, RowsRead
    PROVE  AcceptedInv'
<1>1. ASSUME NEW t \in Task
      PROVE  HasAccepted(t)'
  <2>1. HasAccepted(t)
    BY DEF AcceptedInv
  <2>2. /\ task'[t].provider = task[t].provider
        /\ task'[t].status = "ASSIGNED" => task[t].status = "ASSIGNED"
    BY DEF NoneAssigned
  <2>3. CASE task[t].provider = NoProvider
    BY <2>1, <2>2, <2>3 DEF HasAccepted
  <2>4. CASE task[t].provider # NoProvider
    <3>1. PICK v \in Provider : v = task[t].provider /\ OfferedTo(t, v, {"ACCEPTED"})
      BY <2>1, <2>4, Assignees DEF HasAccepted
    <3>2. OfferedTo(t, v, {"ACCEPTED"})'
      BY <3>1, AcceptancesStay
    <3> QED
      BY <2>2, <2>4, <3>1, <3>2 DEF HasAccepted, OfferedTo
  <2> QED
    BY <2>3, <2>4
<1>2. ASSUME NEW g \in Handler
      PROVE  UpToDate(g)'
  <2>1. CASE handler'[g].pc = "idle"
    BY <2>1 DEF UpToDate
  <2>2. CASE handler'[g].pc # "idle"
    <3>1. /\ handler'[g].pc = "reopen" => handler[g].pc = "reopen"
          /\ \/ handler'[g].row.provider = NoProvider
             \/ handler'[g].row = task[handler'[g].task]
             \/ /\ handler[g].pc # "idle"
                /\ handler'[g].row = handler[g].row /\ handler'[g].task = handler[g].task
      BY <2>2 DEF RowsRead
    <3>2. handler'[g].task \in Task
      BY <2>2 DEF TypeInv, Placed
    <3>3. task'[handler'[g].task].provider = task[handler'[g].task].provider
      BY <3>2 DEF NoneAssigned
    <3>4. UpToDate(g)
      BY DEF AcceptedInv
    <3> QED
      BY <3>1, <3>3, <3>4 DEF UpToDate
  <2> QED
    BY <2>1, <2>2
<1> QED
    BY <1>1, <1>2 DEF AcceptedInv

\* An acceptance assigns the task to one who has accepted it, unless the
\* handler read the same assignee: then the task has one, and keeps it.
LEMMA AssignKeeps ==
    ASSUME TypeInv, TypeInv', OfferInv, AcceptedInv, CourseStep, Grown, NEW h \in Handler, AssignTask(h)
    PROVE  AcceptedInv'
<1>1. handler[h].pc = "assign" /\ ~At(h, "idle") /\ handler[h].pc \in AnswerLabel /\ handler[h].pc \in Accepting
    BY DEF AssignTask, At, AnswerLabel, Accepting
<1>2. AnswersCount
    BY DEF OfferInv
<1>3. PICK t \in Task, i \in Nat, v \in Provider :
          t = handler[h].task /\ i = handler[h].seq /\ v = handler[h].provider /\ i \in 1 .. Len(sessions[t])
    BY <1>1, <1>2, AnswerPlaced DEF TypeInv, TypeOK, HandlerRow
<1>4. PICK old \in TaskRow : old = handler[h].row
    BY <1>1, Working
<1>5. PICK new \in TaskRow : new = Matched(old, v) /\ new.status = "ASSIGNED" /\ new.provider = v
  <2>1. Matched(old, v).status = "ASSIGNED" /\ Matched(old, v).provider = v
    BY DEF Matched, TaskRow
  <2> QED
    BY <2>1, AnyMatched
<1>6. v # NoProvider
    BY ConstantsAssumption
<1>7. PICK row : row = Saved(task[t], old, new) /\ task' = [task EXCEPT ![t] = row]
    BY <1>3, <1>4, <1>5 DEF AssignTask, SaveTask, JobOf
<1>8. row.provider = IF v = old.provider THEN task[t].provider ELSE v
    BY <1>5, <1>7 DEF Saved
<1>9. OfferedTo(t, v, {"ACCEPTED"})
    BY <1>1, <1>2, <1>3 DEF AnswersCount, OfferOf, OfferedTo
<1>10. old.provider # NoProvider => task[t].provider # NoProvider
    BY <1>1, <1>3, <1>4 DEF AcceptedInv, UpToDate
<1>11. HasAccepted(t)
    BY DEF AcceptedInv
<1>12. PICK w \in Provider : w = row.provider /\ OfferedTo(t, w, {"ACCEPTED"})
    BY <1>6, <1>8, <1>9, <1>10, <1>11, Assignees DEF HasAccepted
<1>13. \A u \in Task : task'[u] = IF u = t THEN row ELSE task[u]
    BY <1>7 DEF TypeInv, TypeOK
<1>14. w # NoProvider
    BY ConstantsAssumption
<1>15. ASSUME NEW u \in Task
       PROVE  HasAccepted(u)'
  <2>1. CASE u = t
    <3>1. OfferedTo(t, w, {"ACCEPTED"})'
      BY <1>12, AcceptancesStay
    <3> QED
      BY <1>12, <1>13, <1>14, <2>1, <3>1 DEF HasAccepted, OfferedTo
  <2>2. CASE u # t
    <3>1. HasAccepted(u) /\ task'[u] = task[u]
      BY <1>13, <2>2 DEF AcceptedInv
    <3>2. CASE task[u].provider = NoProvider
      BY <3>1, <3>2 DEF HasAccepted
    <3>3. CASE task[u].provider # NoProvider
      <4>1. PICK x \in Provider : x = task[u].provider /\ OfferedTo(u, x, {"ACCEPTED"})
        BY <3>1, <3>3, Assignees DEF HasAccepted
      <4>2. OfferedTo(u, x, {"ACCEPTED"})'
        BY <4>1, AcceptancesStay
      <4> QED
        BY <3>1, <3>3, <4>1, <4>2 DEF HasAccepted, OfferedTo
    <3> QED
      BY <3>2, <3>3
  <2> QED
    BY <2>1, <2>2
<1>16. ASSUME NEW g \in Handler
       PROVE  UpToDate(g)'
  <2>1. PICK z : z = [handler[h] EXCEPT !.pc = "assignment", !.row = Draft, !.asg = assignment[JobOf(h)]]
                 /\ Become(h, z)
    BY DEF AssignTask
  <2>2. z.pc = "assignment" /\ z.row = Draft
    BY <1>1, <2>1, Working DEF HandlerRow
  <2>3. \A f \in Handler : handler'[f] = IF f = h THEN z ELSE handler[f]
    BY <2>1, Becomes
  <2>4. CASE g = h
    BY <2>2, <2>3, <2>4, Blank DEF UpToDate
  <2>5. CASE g # h
    <3>1. handler'[g] = handler[g] /\ UpToDate(g)
      BY <2>3, <2>5 DEF AcceptedInv
    <3>2. CASE handler[g].pc = "idle" \/ handler[g].row.provider = NoProvider
      BY <3>1, <3>2 DEF UpToDate
    <3>3. CASE handler[g].pc # "idle" /\ handler[g].row.provider # NoProvider
      <4>1. handler[g].task \in Task /\ task[handler[g].task].provider # NoProvider
        BY <3>1, <3>3 DEF UpToDate, TypeInv, Placed
      <4>2. task'[handler[g].task].provider # NoProvider
        BY <1>12, <1>13, <1>14, <4>1
      <4> QED
        BY <3>1, <4>2 DEF UpToDate
    <3> QED
      BY <3>2, <3>3
  <2> QED
    BY <2>4, <2>5
<1> QED
    BY <1>15, <1>16 DEF AcceptedInv

\* An administrator redispatches a task that has no assignee.
LEMMA RedispatchKeeps ==
    ASSUME TypeInv, TypeInv', AcceptedInv, NEW h \in Handler, NEW t \in Task,
           ManualRedispatch(h, t), task[t].provider = NoProvider
    PROVE  AcceptedInv'
<1>1. task[t] \in TaskRow /\ UNCHANGED sessions
    BY DEF TypeInv, TypeOK, ManualRedispatch
<1>2. PICK row : row = Reopened(task[t]) /\ task' = [task EXCEPT ![t] = row]
    BY DEF ManualRedispatch
<1>3. row.provider = NoProvider /\ row.status # "ASSIGNED"
    BY <1>1, <1>2, DispatchedRows
<1>4. \A u \in Task : task'[u] = IF u = t THEN row ELSE task[u]
    BY <1>2 DEF TypeInv, TypeOK
<1>5. \A u \in Task : HasAccepted(u)'
    BY <1>1, <1>3, <1>4 DEF AcceptedInv, HasAccepted, OfferedTo
<1>6. PICK w : w = [Idle EXCEPT !.pc = "sequence", !.task = t] /\ Become(h, w)
    BY DEF ManualRedispatch
<1>7. w.pc = "sequence" /\ w.row = Draft
    BY <1>6, Defaults, Blank DEF HandlerRow
<1>8. RowsRead
    BY <1>6, <1>7, Reads, Blank
<1>9. ASSUME NEW g \in Handler
      PROVE  UpToDate(g)'
  <2>1. CASE handler'[g].pc = "idle"
    BY <2>1 DEF UpToDate
  <2>2. CASE handler'[g].pc # "idle"
    <3>1. /\ handler'[g].pc = "reopen" => handler[g].pc = "reopen"
          /\ \/ handler'[g].row.provider = NoProvider
             \/ handler'[g].row = task[handler'[g].task]
             \/ /\ handler[g].pc # "idle"
                /\ handler'[g].row = handler[g].row /\ handler'[g].task = handler[g].task
      BY <1>8, <2>2 DEF RowsRead
    <3>2. handler'[g].task \in Task
      BY <2>2 DEF TypeInv, Placed
    <3>3. task'[handler'[g].task].provider = task[handler'[g].task].provider
      BY <1>3, <1>4, <3>2
    <3>4. UpToDate(g)
      BY DEF AcceptedInv
    <3> QED
      BY <3>1, <3>3, <3>4 DEF UpToDate
  <2> QED
    BY <2>1, <2>2
<1> QED
    BY <1>5, <1>9 DEF AcceptedInv

LEMMA AcceptedInit == Init => AcceptedInv
<1> SUFFICES ASSUME Init
             PROVE  AcceptedInv
    OBVIOUS
<1>1. /\ \A t \in Task : task[t].status = "DRAFT" /\ task[t].provider = NoProvider
      /\ \A h \in Handler : handler[h].pc = "idle"
    BY Blank, Defaults DEF Init
<1> QED
    BY <1>1 DEF AcceptedInv, HasAccepted, UpToDate

LEMMA AcceptedNext ==
    TypeInv /\ TypeInv' /\ OfferInv /\ AcceptedInv /\ [Next]_vars /\ NoneReassigned => AcceptedInv'
<1> SUFFICES ASSUME TypeInv, TypeInv', OfferInv, AcceptedInv, [Next]_vars, NoneReassigned
             PROVE  AcceptedInv'
    OBVIOUS
<1>1. CourseStep /\ Grown
    BY Course, SessionsGrow
<1>2. CASE \E h \in Handler : AssignTask(h)
    BY <1>1, <1>2, AssignKeeps
<1>3. CASE \E h \in Handler, t \in Task : ManualRedispatch(h, t)
  <2>1. PICK h \in Handler, t \in Task : ManualRedispatch(h, t)
    BY <1>3
  <2>2. task[t].provider = NoProvider
    BY <2>1 DEF NoneReassigned
  <2> QED
    BY <2>1, <2>2, RedispatchKeeps
<1>4. \A h \in Handler, t \in Task : ~RevokeAssignment(h, t)
  <2> SUFFICES ASSUME NEW h \in Handler, NEW t \in Task, RevokeAssignment(h, t)
               PROVE  FALSE
    OBVIOUS
  <2>1. task[t].provider = NoProvider
    BY DEF NoneReassigned
  <2>2. task[t].status = "ASSIGNED"
    BY DEF RevokeAssignment
  <2>3. HasAccepted(t)
    BY DEF AcceptedInv
  <2> QED
    BY <2>1, <2>2, <2>3 DEF HasAccepted
<1>5. \A h \in Handler : handler[h].pc # "reopen"
    BY DEF AcceptedInv, UpToDate
<1>6. CASE ~(\E h \in Handler : AssignTask(h)) /\ ~(\E h \in Handler, t \in Task : ManualRedispatch(h, t))
  <2>1. NoneAssigned /\ RowsRead
    BY <1>4, <1>5, <1>6, AssigningSteps
  <2> QED
    BY <1>1, <2>1, AcceptedKeeps
<1> QED
    BY <1>2, <1>3, <1>6

\* Whom a task is assigned to has accepted it, while nobody is redispatched
\* out of an assignment: for every number of sessions that overlap, answers
\* that race, are late or compete, and handlers that die on the way.
THEOREM AssigneeHasAccepted == Spec /\ [][NoneReassigned]_vars => []AssigneeAccepted
<1>1. Init => AcceptedInv
    BY AcceptedInit
<1>2. TypeInv /\ TypeInv' /\ OfferInv /\ AcceptedInv /\ [Next]_vars /\ [NoneReassigned]_vars => AcceptedInv'
  <2> SUFFICES ASSUME TypeInv, TypeInv', OfferInv, AcceptedInv, [Next]_vars, [NoneReassigned]_vars
               PROVE  AcceptedInv'
    OBVIOUS
  <2>1. CASE UNCHANGED vars
    BY <2>1 DEF vars, AcceptedInv, HasAccepted, UpToDate, OfferedTo
  <2>2. CASE NoneReassigned
    BY <2>2, AcceptedNext
  <2> QED
    BY <2>1, <2>2
<1>3. TypeInv /\ AcceptedInv => AssigneeAccepted
  <2> SUFFICES ASSUME TypeInv, AcceptedInv, NEW t \in Task, task[t].status = "ASSIGNED"
               PROVE  task[t].provider \in Provider /\ OfferedTo(t, task[t].provider, {"ACCEPTED"})
    BY DEF AssigneeAccepted
  <2> QED
    BY Assignees DEF AcceptedInv, HasAccepted
<1> QED
    BY <1>1, <1>2, <1>3, OfferInvariant, PTL DEF Spec

-----------------------------------------------------------------------------
(***************************************************************************)
(* Whom offers hold.  What is answered is not on the market: a provider    *)
(* that answers is not ONLINE_AVAILABLE, and no offer of it is open but    *)
(* the one it answers, while it does.  That is so if answers come in time  *)
(* and no assignment is revoked.                                           *)
(***************************************************************************)
NoRevocation == \A t \in Task, h \in Handler : ~RevokeAssignment(h, t)

AnswersHeld ==
    \A h \in Handler : handler[h].pc \in AnswerLabel =>
        /\ duty[handler[h].provider] # "ONLINE_AVAILABLE"
        /\ \A t \in Task : \A i \in 1 .. Len(sessions[t]) :
               sessions[t][i].offer[handler[h].provider] \in Open =>
                   /\ sessions[t][i].offer[handler[h].provider] = "PENDING"
                   /\ handler[h].pc = "answer" /\ About(handler[h], t, i)

NoneReopens == \A h \in Handler : handler[h].pc # "reopen"

HeldInv == OfferedAreHeld /\ AnswersHeld /\ NoneReopens

\* No offer is made, and those that are open may only lapse.
Calm ==
    \A t \in Task, v \in Provider : \A i \in 1 .. Len(sessions'[t]) :
        sessions'[t][i].offer[v] \in Open =>
            /\ i \in 1 .. Len(sessions[t]) /\ sessions[t][i].offer[v] \in Open
            /\ sessions'[t][i].offer[v] = sessions[t][i].offer[v] \/ MayLapse(v)

\* A provider that is released, or set to work, has nothing open to answer.
Unheld(v) ==
    /\ \A t \in Task : \A i \in 1 .. Len(sessions'[t]) : sessions'[t][i].offer[v] \notin Open
    /\ duty'[v] = "ONLINE_AVAILABLE" => \A h \in Handler : ~Answering(h, v)'

LEMMA MildCalm ==
    ASSUME TypeInv, Mild, Level
    PROVE  Calm
<1> SUFFICES ASSUME NEW t \in Task, NEW v \in Provider, NEW i \in 1 .. Len(sessions'[t]),
                    sessions'[t][i].offer[v] \in Open
             PROVE  /\ i \in 1 .. Len(sessions[t]) /\ sessions[t][i].offer[v] \in Open
                    /\ sessions'[t][i].offer[v] = sessions[t][i].offer[v] \/ MayLapse(v)
    BY DEF Calm
<1>1. i \in 1 .. Len(sessions[t])
    BY DEF Level
<1>2. \/ sessions'[t][i].offer[v] = sessions[t][i].offer[v]
      \/ /\ Lost(sessions[t][i].offer[v], sessions'[t][i].offer[v])
         /\ sessions'[t][i].offer[v] = "LAPSED" => MayLapse(v)
    BY <1>1 DEF Mild
<1>3. CASE sessions'[t][i].offer[v] = sessions[t][i].offer[v]
    BY <1>1, <1>3
<1>4. CASE /\ Lost(sessions[t][i].offer[v], sessions'[t][i].offer[v])
           /\ sessions'[t][i].offer[v] = "LAPSED" => MayLapse(v)
    BY <1>1, <1>4 DEF Lost, Open
<1> QED
    BY <1>2, <1>3, <1>4

LEMMA HeldKeeps ==
    ASSUME TypeInv, AnswersCount, ~LateAnswers, HeldInv, Calm, AnswersGoOn, NoneReopens',
           \A v \in Provider : duty'[v] = duty[v] \/ Unheld(v)
    PROVE  HeldInv'
<1>1. OfferedAreHeld'
  <2> SUFFICES ASSUME NEW v \in Provider, NEW t \in Task, NEW u \in Task,
                      NEW i \in 1 .. Len(sessions'[t]), NEW j \in 1 .. Len(sessions'[u]),
                      sessions'[t][i].offer[v] \in Open, sessions'[u][j].offer[v] \in Open
               PROVE  duty'[v] = "ON_DISPATCH" /\ t = u /\ i = j
    BY DEF OfferedAreHeld
  <2>1. /\ i \in 1 .. Len(sessions[t]) /\ sessions[t][i].offer[v] \in Open
        /\ j \in 1 .. Len(sessions[u]) /\ sessions[u][j].offer[v] \in Open
    BY DEF Calm
  <2>2. duty[v] = "ON_DISPATCH" /\ t = u /\ i = j
    BY <2>1 DEF HeldInv, OfferedAreHeld
  <2>3. ~Unheld(v)
    BY DEF Unheld
  <2> QED
    BY <2>2, <2>3
<1>2. AnswersHeld'
  <2> SUFFICES ASSUME NEW g \in Handler, handler'[g].pc \in AnswerLabel
               PROVE  /\ duty'[handler'[g].provider] # "ONLINE_AVAILABLE"
                      /\ \A t \in Task : \A i \in 1 .. Len(sessions'[t]) :
                             sessions'[t][i].offer[handler'[g].provider] \in Open =>
                                 /\ sessions'[t][i].offer[handler'[g].provider] = "PENDING"
                                 /\ handler'[g].pc = "answer" /\ About(handler'[g], t, i)
    BY DEF AnswersHeld
  <2>1. /\ handler[g].pc \in AnswerLabel /\ handler'[g].provider = handler[g].provider
        /\ handler'[g].task = handler[g].task /\ handler'[g].seq = handler[g].seq
        /\ handler'[g].pc = handler[g].pc \/ (handler'[g].pc \in Accepting /\ handler[g].pc \in Accepting)
    BY DEF AnswersGoOn
  <2>2. PICK v \in Provider : v = handler[g].provider
    BY <2>1 DEF AnswersCount
  <2>3. /\ duty[v] # "ONLINE_AVAILABLE"
        /\ \A t \in Task : \A i \in 1 .. Len(sessions[t]) :
               sessions[t][i].offer[v] \in Open =>
                   sessions[t][i].offer[v] = "PENDING" /\ handler[g].pc = "answer" /\ About(handler[g], t, i)
    BY <2>1, <2>2 DEF HeldInv, AnswersHeld
  <2>4. ~MayLapse(v)
    BY <2>1, <2>2 DEF MayLapse, Answering
  <2>5. duty'[v] # "ONLINE_AVAILABLE"
    <3>1. Unheld(v) => duty'[v] # "ONLINE_AVAILABLE"
      BY <2>1, <2>2 DEF Unheld, Answering
    <3> QED
      BY <2>3, <3>1
  <2>6. ASSUME NEW t \in Task, NEW i \in 1 .. Len(sessions'[t]), sessions'[t][i].offer[v] \in Open
        PROVE  sessions'[t][i].offer[v] = "PENDING" /\ handler'[g].pc = "answer" /\ About(handler'[g], t, i)
    <3>1. /\ i \in 1 .. Len(sessions[t]) /\ sessions[t][i].offer[v] \in Open
          /\ sessions'[t][i].offer[v] = sessions[t][i].offer[v]
      BY <2>4, <2>6 DEF Calm
    <3>2. sessions[t][i].offer[v] = "PENDING" /\ handler[g].pc = "answer" /\ About(handler[g], t, i)
      BY <2>3, <3>1
    <3> QED
      BY <2>1, <3>1, <3>2, Elsewhere DEF About
  <2> QED
    BY <2>1, <2>2, <2>5, <2>6
<1> QED
    BY <1>1, <1>2 DEF HeldInv

\* A provider whose lapsed offer is timed out had no other that was open.
LEMMA TimedOutUnheld ==
    ASSUME TypeInv, AnswersCount, HeldInv, AnswersGoOn, NEW t \in Task, RecoverStaleAttempts(t)
    PROVE  \A v \in Provider : duty'[v] = duty[v] \/ Unheld(v)
<1> SUFFICES ASSUME NEW v \in Provider, duty'[v] # duty[v]
             PROVE  Unheld(v)
    OBVIOUS
<1>1. v \in Lapsed(t)
    BY DEF RecoverStaleAttempts, Release
<1>2. PICK k \in Nat : k \in 1 .. Len(sessions[t]) /\ sessions[t][k].offer[v] = "LAPSED"
    BY <1>1, Lengths DEF Lapsed, OfferedTo
<1>3. /\ Level
      /\ \A u \in Task : \A i \in 1 .. Len(sessions[u]) :
             sessions'[u][i].offer[v] = IF u = t /\ sessions[u][i].offer[v] = "LAPSED" THEN "TIMEOUT"
                                        ELSE sessions[u][i].offer[v]
    BY RecoversOffers
<1>4. ASSUME NEW u \in Task, NEW i \in 1 .. Len(sessions'[u]), sessions'[u][i].offer[v] \in Open
      PROVE  FALSE
  <2>1. i \in 1 .. Len(sessions[u])
    BY <1>3 DEF Level
  <2>2. sessions[u][i].offer[v] \in Open /\ ~(u = t /\ sessions[u][i].offer[v] = "LAPSED")
    BY <1>3, <1>4, <2>1 DEF Open
  <2>3. u = t /\ i = k
    BY <1>2, <2>1, <2>2 DEF HeldInv, OfferedAreHeld, Open
  <2> QED
    BY <1>2, <2>2, <2>3
<1>5. ASSUME NEW g \in Handler, Answering(g, v)'
      PROVE  FALSE
  <2>1. handler[g].pc \in AnswerLabel /\ handler[g].provider = v
    BY <1>5 DEF Answering, AnswersGoOn
  <2> QED
    BY <1>2, <2>1 DEF HeldInv, AnswersHeld, Open
<1> QED
    BY <1>4, <1>5 DEF Unheld

\* No handler that takes an assignee away starts but by a revocation.
LEMMA NobodyReopens == TypeInv /\ [Next]_vars /\ NoneReopens /\ NoRevocation => NoneReopens'
<1> SUFFICES ASSUME TypeInv, [Next]_vars, NoneReopens, NoRevocation
             PROVE  NoneReopens'
    OBVIOUS
<1>1. RowsRead => NoneReopens'
    BY DEF RowsRead, NoneReopens
<1>2. ASSUME NEW h \in Handler, AssignTask(h)
      PROVE  RowsRead
  <2>1. PICK w : w = [handler[h] EXCEPT !.pc = "assignment", !.row = Draft, !.asg = assignment[JobOf(h)]]
                 /\ Become(h, w)
    BY <1>2 DEF AssignTask
  <2>2. ~At(h, "idle")
    BY <1>2 DEF AssignTask, At
  <2>3. w.pc = "assignment" /\ w.row = Draft
    BY <2>1, <2>2, Working DEF HandlerRow
  <2> QED
    BY <2>1, <2>3, Reads, Blank
<1>3. ASSUME NEW h \in Handler, NEW t \in Task, ManualRedispatch(h, t)
      PROVE  RowsRead
  <2>1. PICK w : w = [Idle EXCEPT !.pc = "sequence", !.task = t] /\ Become(h, w)
    BY <1>3 DEF ManualRedispatch
  <2>2. w.pc = "sequence" /\ w.row = Draft
    BY <2>1, Defaults, Blank DEF HandlerRow
  <2> QED
    BY <2>1, <2>2, Reads, Blank
<1>4. CASE /\ \A h \in Handler : ~AssignTask(h)
           /\ \A h \in Handler, t \in Task : ~ManualRedispatch(h, t)
    BY <1>1, <1>4, AssigningSteps DEF NoneReopens, NoRevocation
<1> QED
    BY <1>1, <1>2, <1>3, <1>4

\* What changes duty_status.
LEMMA DutyStays ==
    ASSUME [Next]_vars, NoneReopens, \A h \in Handler : ~Special(h),
           \A h \in Handler : ~SetOnTask(h) /\ ~ReleaseProvider(h)
    PROVE  UNCHANGED duty
<1>1. CASE UNCHANGED vars
    BY <1>1 DEF vars
<1>2. ASSUME NEW h \in Handler, HandlerStep(h)
      PROVE  UNCHANGED duty
  <2>1. CASE BeginningStep(h)
    BY <2>1 DEF BeginningStep, ConfirmDraft, ReloadTask, StartInitialDispatch, NotEligible, ReopenTask,
                GetNextSequence, InsertSession, InsertCollides, SendMatch, rowVars, NoneReopens, At
  <2>2. CASE NoMatchStep(h)
    BY <2>2 DEF NoMatchStep, FailSession, ScheduleRetry, ExhaustTask, ExhaustSession
  <2>3. CASE AnswerStep(h)
    BY <2>3 DEF AnswerStep, SaveAnswer, AssignTask, UpdateAssignment, InsertAssignment,
                InsertAssignmentRaises, CloseSessions, rowVars
  <2>4. CASE MatchingStep(h)
    BY <2>4 DEF MatchingStep, NoCandidates, EnqueueBatches, AbandonBatch, ScheduleCheck, rowVars, Special
  <2> QED
    BY <1>2, <2>1, <2>2, <2>3, <2>4 DEF HandlerStep
<1>3. ASSUME NEW h \in Handler, HandlerStart(h)
      PROVE  UNCHANGED duty
  <2>1. ASSUME NEW m \in msgs, Deliver(h, m)
        PROVE  UNCHANGED duty
    BY <2>1 DEF Deliver, AutoRetry, AutoRetryExhausted, AutoRetryTaken, MatchInactive, SkipBatch,
                CheckExhaustion, CheckMoot, rowVars, Special
  <2>2. ASSUME NEW t \in Task, BeginConfirm(h, t) \/ ManualRedispatch(h, t) \/ RevokeAssignment(h, t)
        PROVE  UNCHANGED duty
    BY <2>2 DEF BeginConfirm, ManualRedispatch, RevokeAssignment, rowVars
  <2> QED
    BY <1>3, <2>1, <2>2 DEF HandlerStart, Special
<1>4. ASSUME NEW h \in Handler, Crash(h)
      PROVE  UNCHANGED duty
    BY <1>4 DEF Crash, rowVars
<1>5. ASSUME NEW t \in Task, Beat(t) \/ Clock(t)
      PROVE  UNCHANGED duty
    BY <1>5 DEF Beat, Clock, ClaimDue, ClaimDueDies, Claim, RecoverStale, RetryFallsDue, ClaimGoesStale,
                Expiry, OfferExpires
<1> QED
    BY <1>1, <1>2, <1>3, <1>4, <1>5 DEF Next

\* Who declines has nothing open, and nobody else answers for it.
LEMMA ReleasedUnheld ==
    ASSUME TypeInv, OfferInv, HeldInv, Calm, NEW h \in Handler, ReleaseProvider(h)
    PROVE  \A v \in Provider : duty'[v] = duty[v] \/ Unheld(v)
<1> SUFFICES ASSUME NEW v \in Provider, duty'[v] # duty[v]
             PROVE  Unheld(v)
    OBVIOUS
<1>1. handler[h].pc = "release" /\ handler[h].pc \in AnswerLabel /\ handler[h] \in HandlerRow
    BY Elsewhere DEF ReleaseProvider, At, TypeInv, TypeOK
<1>2. v = handler[h].provider
    BY DEF ReleaseProvider, Release
<1>3. ASSUME NEW u \in Task, NEW i \in 1 .. Len(sessions'[u]), sessions'[u][i].offer[v] \in Open
      PROVE  FALSE
  <2>1. i \in 1 .. Len(sessions[u]) /\ sessions[u][i].offer[v] \in Open
    BY <1>3 DEF Calm
  <2>2. handler[h].pc = "answer"
    BY <1>1, <1>2, <2>1 DEF HeldInv, AnswersHeld
  <2> QED
    BY <1>1, <2>2
<1>4. PICK w : Become(h, w) /\ w.pc \notin AnswerLabel
  <2>1. CASE Finish(h)
    BY <2>1, Defaults, Elsewhere DEF Finish
  <2>2. CASE Become(h, [handler[h] EXCEPT !.pc = "no_match", !.ss = "FAILED", !.provider = NoProvider])
    <3>1. PICK w : /\ w = [handler[h] EXCEPT !.pc = "no_match", !.ss = "FAILED", !.provider = NoProvider]
                   /\ Become(h, w)
      BY <2>2
    <3>2. w.pc = "no_match"
      BY <1>1, <3>1 DEF HandlerRow
    <3> QED
      BY <3>1, <3>2, Elsewhere
  <2> QED
    BY <2>1, <2>2 DEF ReleaseProvider
<1>5. \A g \in Handler : handler'[g] = IF g = h THEN w ELSE handler[g]
    BY <1>4, Becomes
<1>6. \A g \in Handler : ~Answering(g, v)'
    BY <1>1, <1>2, <1>4, <1>5 DEF OfferInv, AnswersAlone, Answering
<1> QED
    BY <1>3, <1>6 DEF Unheld

\* Nor has one that is set to work.
LEMMA OnTaskUnheld ==
    ASSUME TypeInv, OfferInv, HeldInv, Calm, NEW h \in Handler, SetOnTask(h)
    PROVE  \A v \in Provider : duty'[v] = duty[v] \/ Unheld(v)
<1> SUFFICES ASSUME NEW v \in Provider, duty'[v] # duty[v]
             PROVE  Unheld(v)
    OBVIOUS
<1>1. handler[h].pc = "on_task" /\ handler[h].pc \in AnswerLabel
    BY DEF SetOnTask, At, AnswerLabel
<1>2. v = handler[h].provider /\ duty'[v] = "ON_TASK"
    BY DEF SetOnTask, TypeInv, TypeOK
<1>3. ASSUME NEW u \in Task, NEW i \in 1 .. Len(sessions'[u]), sessions'[u][i].offer[v] \in Open
      PROVE  FALSE
  <2>1. i \in 1 .. Len(sessions[u]) /\ sessions[u][i].offer[v] \in Open
    BY <1>3 DEF Calm
  <2>2. handler[h].pc = "answer"
    BY <1>1, <1>2, <2>1 DEF HeldInv, AnswersHeld
  <2> QED
    BY <1>1, <2>2
<1> QED
    BY <1>2, <1>3 DEF Unheld

LEMMA OrdinaryHeld ==
    ASSUME TypeInv, OfferInv, ~LateAnswers, HeldInv, [Next]_vars, NoneReopens',
           \A h \in Handler : ~Special(h)
    PROVE  HeldInv'
<1>1. Mild /\ Level /\ AnswersGoOn
    BY OrdinarySteps DEF Ordinary
<1>2. Calm /\ AnswersCount /\ NoneReopens
    BY <1>1, MildCalm DEF OfferInv, HeldInv
<1>3. CASE \E h \in Handler : SetOnTask(h)
    BY <1>1, <1>2, <1>3, OnTaskUnheld, HeldKeeps
<1>4. CASE \E h \in Handler : ReleaseProvider(h)
    BY <1>1, <1>2, <1>4, ReleasedUnheld, HeldKeeps
<1>5. CASE \A h \in Handler : ~SetOnTask(h) /\ ~ReleaseProvider(h)
  <2>1. UNCHANGED duty
    BY <1>2, <1>5, DutyStays
  <2> QED
    BY <1>1, <1>2, <2>1, HeldKeeps
<1> QED
    BY <1>3, <1>4, <1>5

\* The special steps that neither ping nor answer.
LEMMA SessionStepsHeld ==
    ASSUME TypeInv, OfferInv, ~LateAnswers, HeldInv, NoneReopens', NEW h \in Handler,
           \/ InsertSession(h) \/ SendMatch(h) \/ EnqueueBatches(h)
           \/ \E m \in msgs : RunMatching(h, m) \/ RunBatch(h, m)
    PROVE  HeldInv'
<1>0. AnswersCount
    BY DEF OfferInv
<1>1. CASE InsertSession(h)
  <2>1. AnswersGoOn /\ UNCHANGED duty
    BY <1>1, InsertKeeps DEF InsertSession
  <2>2. PICK t \in Task : t = handler[h].task
    BY <1>1, Working DEF InsertSession, At
  <2>3. PICK s \in Seq(DispatchSession) : s = sessions[t]
    BY Lengths
  <2>4. PICK r : r = Append(s, NewSession) /\ sessions' = [sessions EXCEPT ![t] = r]
    BY <1>1, <2>2, <2>3 DEF InsertSession, JobOf
  <2>5. /\ Len(r) = Len(s) + 1 /\ r[Len(s) + 1] = NewSession
        /\ \A i \in 1 .. Len(s) : r[i] = s[i]
    BY <2>4
  <2>6. \A v \in Provider : NewSession.offer[v] \notin Open
    BY DEF NewSession, Open
  <2>7. \A u \in Task : sessions'[u] = IF u = t THEN r ELSE sessions[u]
    BY <2>4 DEF TypeInv, TypeOK
  <2>8. ASSUME NEW u \in Task, NEW v \in Provider, NEW i \in 1 .. Len(sessions'[u]),
               sessions'[u][i].offer[v] \in Open
        PROVE  i \in 1 .. Len(sessions[u]) /\ sessions'[u][i] = sessions[u][i]
    <3>1. CASE u = t
      <4>1. sessions'[u] = r /\ sessions[u] = s /\ Len(s) \in Nat
        BY <2>3, <2>7, <3>1
      <4>2. i # Len(s) + 1
        BY <2>5, <2>6, <2>8, <4>1
      <4>3. i \in 1 .. Len(s)
        BY <2>5, <2>8, <4>1, <4>2
      <4> QED
        BY <2>5, <4>1, <4>3
    <3>2. CASE u # t
      BY <2>7, <2>8, <3>2
    <3> QED
      BY <3>1, <3>2
  <2>9. Calm
    BY <2>8 DEF Calm
  <2> QED
    BY <1>0, <2>1, <2>9, HeldKeeps
<1>2. CASE SendMatch(h) \/ EnqueueBatches(h)
  <2>1. AnswersGoOn /\ UNCHANGED <<sessions, duty>>
    BY <1>2, SendKeeps, EnqueueKeeps DEF SendMatch, EnqueueBatches, rowVars
  <2>2. Calm
    BY <2>1, SessionsStay, MildCalm
  <2> QED
    BY <1>0, <2>1, <2>2, HeldKeeps
<1>3. ASSUME NEW m \in msgs, RunMatching(h, m) \/ RunBatch(h, m)
      PROVE  HeldInv'
  <2>1. AnswersGoOn
    BY <1>3, RunMatchingKeeps, RunBatchKeeps
  <2>2. PICK t \in Task : RecoverStaleAttempts(t)
    BY <1>3 DEF RunMatching, RunBatch, TypeInv, TypeOK, Message
  <2>3. Calm
    BY <2>2, RecoversOffers, MildCalm
  <2> QED
    BY <1>0, <2>1, <2>2, <2>3, TimedOutUnheld, HeldKeeps
<1> QED
    BY <1>1, <1>2, <1>3

\* A ping holds providers that nothing else holds, each with one offer.
LEMMA PingHeld ==
    ASSUME TypeInv, OfferInv, HeldInv, NoneReopens', NEW h \in Handler, PingBatch(h)
    PROVE  HeldInv'
<1>1. AnswersGoOn /\ AnswersCount
    BY PingKeeps DEF OfferInv
<1>2. /\ Level
      /\ \A t \in Task, v \in Provider : \A i \in 1 .. Len(sessions[t]) :
             sessions'[t][i].offer[v] = IF Pinged(h, t, i, v) THEN "PENDING" ELSE sessions[t][i].offer[v]
      /\ duty' = [v \in Provider |-> IF v \in Won(h) THEN "ON_DISPATCH" ELSE duty[v]]
    BY Pings
<1>3. \A v \in Won(h) : duty[v] = "ONLINE_AVAILABLE"
    BY DEF Won, Claimable
<1>4. ASSUME NEW v \in Provider, v \in Won(h), NEW t \in Task, NEW i \in 1 .. Len(sessions[t])
      PROVE  sessions[t][i].offer[v] \notin Open
  <2>1. sessions[t][i].offer[v] \in Open => duty[v] = "ON_DISPATCH"
    BY DEF HeldInv, OfferedAreHeld
  <2> QED
    BY <1>3, <1>4, <2>1
<1>5. ASSUME NEW v \in Provider, NEW t \in Task, NEW i \in 1 .. Len(sessions'[t]),
             sessions'[t][i].offer[v] \in Open
      PROVE  /\ i \in 1 .. Len(sessions[t])
             /\ IF v \in Won(h) THEN About(handler[h], t, i)
                ELSE sessions'[t][i].offer[v] = sessions[t][i].offer[v] /\ sessions[t][i].offer[v] \in Open
  <2>1. i \in 1 .. Len(sessions[t])
    BY <1>2 DEF Level
  <2>2. sessions'[t][i].offer[v] = IF Pinged(h, t, i, v) THEN "PENDING" ELSE sessions[t][i].offer[v]
    BY <1>2, <2>1
  <2>3. CASE v \in Won(h)
    BY <1>4, <1>5, <2>1, <2>2, <2>3 DEF Pinged
  <2>4. CASE v \notin Won(h)
    BY <1>5, <2>1, <2>2, <2>4 DEF Pinged
  <2> QED
    BY <2>3, <2>4
<1>6. OfferedAreHeld'
  <2> SUFFICES ASSUME NEW v \in Provider, NEW t \in Task, NEW u \in Task,
                      NEW i \in 1 .. Len(sessions'[t]), NEW j \in 1 .. Len(sessions'[u]),
                      sessions'[t][i].offer[v] \in Open, sessions'[u][j].offer[v] \in Open
               PROVE  duty'[v] = "ON_DISPATCH" /\ t = u /\ i = j
    BY DEF OfferedAreHeld
  <2>1. duty'[v] = IF v \in Won(h) THEN "ON_DISPATCH" ELSE duty[v]
    BY <1>2
  <2>2. CASE v \in Won(h)
    <3>1. About(handler[h], t, i) /\ About(handler[h], u, j)
      BY <1>5, <2>2
    <3> QED
      BY <2>1, <2>2, <3>1 DEF About
  <2>3. CASE v \notin Won(h)
    <3>1. /\ i \in 1 .. Len(sessions[t]) /\ sessions[t][i].offer[v] \in Open
          /\ j \in 1 .. Len(sessions[u]) /\ sessions[u][j].offer[v] \in Open
      BY <1>5, <2>3
    <3>2. duty[v] = "ON_DISPATCH" /\ t = u /\ i = j
      BY <3>1 DEF HeldInv, OfferedAreHeld
    <3> QED
      BY <2>1, <2>3, <3>2
  <2> QED
    BY <2>2, <2>3
<1>7. AnswersHeld'
  <2> SUFFICES ASSUME NEW g \in Handler, handler'[g].pc \in AnswerLabel
               PROVE  /\ duty'[handler'[g].provider] # "ONLINE_AVAILABLE"
                      /\ \A t \in Task : \A i \in 1 .. Len(sessions'[t]) :
                             sessions'[t][i].offer[handler'[g].provider] \in Open =>
                                 /\ sessions'[t][i].offer[handler'[g].provider] = "PENDING"
                                 /\ handler'[g].pc = "answer" /\ About(handler'[g], t, i)
    BY DEF AnswersHeld
  <2>1. /\ handler[g].pc \in AnswerLabel /\ handler'[g].provider = handler[g].provider
        /\ handler'[g].task = handler[g].task /\ handler'[g].seq = handler[g].seq
        /\ handler'[g].pc = handler[g].pc \/ (handler'[g].pc \in Accepting /\ handler[g].pc \in Accepting)
    BY <1>1 DEF AnswersGoOn
  <2>2. PICK v \in Provider : v = handler[g].provider
    BY <1>1, <2>1 DEF AnswersCount
  <2>3. /\ duty[v] # "ONLINE_AVAILABLE"
        /\ \A t \in Task : \A i \in 1 .. Len(sessions[t]) :
               sessions[t][i].offer[v] \in Open =>
                   sessions[t][i].offer[v] = "PENDING" /\ handler[g].pc = "answer" /\ About(handler[g], t, i)
    BY <2>1, <2>2 DEF HeldInv, AnswersHeld
  <2>4. v \notin Won(h)
    BY <1>3, <2>3
  <2>5. duty'[v] # "ONLINE_AVAILABLE"
    BY <1>2, <2>3, <2>4
  <2>6. ASSUME NEW t \in Task, NEW i \in 1 .. Len(sessions'[t]), sessions'[t][i].offer[v] \in Open
        PROVE  sessions'[t][i].offer[v] = "PENDING" /\ handler'[g].pc = "answer" /\ About(handler'[g], t, i)
    <3>1. /\ i \in 1 .. Len(sessions[t]) /\ sessions[t][i].offer[v] \in Open
          /\ sessions'[t][i].offer[v] = sessions[t][i].offer[v]
      BY <1>5, <2>4, <2>6
    <3>2. sessions[t][i].offer[v] = "PENDING" /\ handler[g].pc = "answer" /\ About(handler[g], t, i)
      BY <2>3, <3>1
    <3> QED
      BY <2>1, <3>1, <3>2, Elsewhere DEF About
  <2> QED
    BY <2>1, <2>2, <2>5, <2>6
<1> QED
    BY <1>6, <1>7 DEF HeldInv

\* A saved answer closes the one offer that was open.
LEMMA ReplyHeld ==
    ASSUME TypeInv, OfferInv, HeldInv, NoneReopens', NEW h \in Handler, SaveAnswer(h)
    PROVE  HeldInv'
<1>1. AnswersCount /\ AnswersAlone
    BY DEF OfferInv
<1>2. /\ handler[h].pc = "answer" /\ handler[h].pc \in AnswerLabel /\ Level /\ UNCHANGED duty
      /\ \A t \in Task, v \in Provider : \A i \in 1 .. Len(sessions[t]) :
             sessions'[t][i].offer[v] = IF Answered(h, t, i, v) THEN Reply(h) ELSE sessions[t][i].offer[v]
    BY <1>1, Replies, Elsewhere
<1>3. PICK w \in HandlerRow : Become(h, w) /\ w.provider = handler[h].provider
    BY <1>1, Replies
<1>4. \A g \in Handler : handler'[g] = IF g = h THEN w ELSE handler[g]
    BY <1>3, Becomes
<1>5. ASSUME NEW v \in Provider, NEW t \in Task, NEW i \in 1 .. Len(sessions'[t]),
             sessions'[t][i].offer[v] \in Open
      PROVE  /\ i \in 1 .. Len(sessions[t]) /\ ~Answered(h, t, i, v)
             /\ sessions'[t][i].offer[v] = sessions[t][i].offer[v] /\ sessions[t][i].offer[v] \in Open
  <2>1. i \in 1 .. Len(sessions[t])
    BY <1>2 DEF Level
  <2>2. sessions'[t][i].offer[v] = IF Answered(h, t, i, v) THEN Reply(h) ELSE sessions[t][i].offer[v]
    BY <1>2, <2>1
  <2>3. Reply(h) \notin Open
    BY DEF Reply, Open
  <2> QED
    BY <1>5, <2>1, <2>2, <2>3
<1>6. OfferedAreHeld'
  <2> SUFFICES ASSUME NEW v \in Provider, NEW t \in Task, NEW u \in Task,
                      NEW i \in 1 .. Len(sessions'[t]), NEW j \in 1 .. Len(sessions'[u]),
                      sessions'[t][i].offer[v] \in Open, sessions'[u][j].offer[v] \in Open
               PROVE  duty'[v] = "ON_DISPATCH" /\ t = u /\ i = j
    BY DEF OfferedAreHeld
  <2>1. /\ i \in 1 .. Len(sessions[t]) /\ sessions[t][i].offer[v] \in Open
        /\ j \in 1 .. Len(sessions[u]) /\ sessions[u][j].offer[v] \in Open
    BY <1>5
  <2> QED
    BY <1>2, <2>1 DEF HeldInv, OfferedAreHeld
<1>7. AnswersHeld'
  <2> SUFFICES ASSUME NEW g \in Handler, handler'[g].pc \in AnswerLabel
               PROVE  /\ duty'[handler'[g].provider] # "ONLINE_AVAILABLE"
                      /\ \A t \in Task : \A i \in 1 .. Len(sessions'[t]) :
                             sessions'[t][i].offer[handler'[g].provider] \in Open =>
                                 /\ sessions'[t][i].offer[handler'[g].provider] = "PENDING"
                                 /\ handler'[g].pc = "answer" /\ About(handler'[g], t, i)
    BY DEF AnswersHeld
  <2>1. /\ handler[g].pc \in AnswerLabel /\ handler'[g].provider = handler[g].provider
        /\ g # h => handler'[g] = handler[g]
    BY <1>2, <1>3, <1>4
  <2>2. PICK v \in Provider : v = handler[g].provider
    BY <1>1, <2>1 DEF AnswersCount
  <2>3. /\ duty[v] # "ONLINE_AVAILABLE"
        /\ \A t \in Task : \A i \in 1 .. Len(sessions[t]) :
               sessions[t][i].offer[v] \in Open =>
                   sessions[t][i].offer[v] = "PENDING" /\ handler[g].pc = "answer" /\ About(handler[g], t, i)
    BY <2>1, <2>2 DEF HeldInv, AnswersHeld
  <2>4. ASSUME NEW t \in Task, NEW i \in 1 .. Len(sessions'[t]), sessions'[t][i].offer[v] \in Open
        PROVE  sessions'[t][i].offer[v] = "PENDING" /\ handler'[g].pc = "answer" /\ About(handler'[g], t, i)
    <3>1. /\ i \in 1 .. Len(sessions[t]) /\ sessions[t][i].offer[v] \in Open /\ ~Answered(h, t, i, v)
          /\ sessions'[t][i].offer[v] = sessions[t][i].offer[v]
      BY <1>5, <2>4
    <3>2. sessions[t][i].offer[v] = "PENDING" /\ handler[g].pc = "answer" /\ About(handler[g], t, i)
      BY <2>3, <3>1
    <3>3. g # h
      BY <2>2, <3>1, <3>2 DEF Answered
    <3> QED
      BY <2>1, <3>1, <3>2, <3>3
  <2> QED
    BY <1>2, <2>1, <2>2, <2>3, <2>4
<1> QED
    BY <1>6, <1>7 DEF HeldInv

\* An answer begins while its offer, the only one that is open, is PENDING.
LEMMA AnswerHeld ==
    ASSUME TypeInv, OfferInv, ~LateAnswers, HeldInv, NoneReopens', NEW h \in Handler, Answers(h)
    PROVE  HeldInv'
<1>1. UNCHANGED <<sessions, duty>>
    BY DEF Answers, BeginAnswer, rowVars
<1>2. PICK t \in Task, v \in Provider, i \in Nat : \E w \in HandlerRow :
               /\ i \in 1 .. Len(sessions[t]) /\ Become(h, w) /\ w.pc = "answer"
               /\ w.task = t /\ w.seq = i /\ w.provider = v
               /\ sessions[t][i].offer[v] \in (IF LateAnswers THEN Open ELSE {"PENDING"})
    BY AnswerBegins
<1>3. PICK w \in HandlerRow : /\ Become(h, w) /\ w.pc = "answer"
                              /\ w.task = t /\ w.seq = i /\ w.provider = v
    BY <1>2
<1>4. i \in 1 .. Len(sessions[t]) /\ sessions[t][i].offer[v] = "PENDING" /\ "PENDING" \in Open
    BY <1>2 DEF Open
<1>5. \A g \in Handler : handler'[g] = IF g = h THEN w ELSE handler[g]
    BY <1>3, Becomes
<1>6. duty[v] = "ON_DISPATCH"
    BY <1>4 DEF HeldInv, OfferedAreHeld
<1>7. \A u \in Task : \A j \in 1 .. Len(sessions[u]) :
          sessions[u][j].offer[v] \in Open => u = t /\ j = i
    BY <1>4 DEF HeldInv, OfferedAreHeld
<1>8. OfferedAreHeld'
    BY <1>1 DEF HeldInv, OfferedAreHeld
<1>9. AnswersHeld'
  <2> SUFFICES ASSUME NEW g \in Handler, handler'[g].pc \in AnswerLabel
               PROVE  /\ duty[handler'[g].provider] # "ONLINE_AVAILABLE"
                      /\ \A u \in Task : \A j \in 1 .. Len(sessions[u]) :
                             sessions[u][j].offer[handler'[g].provider] \in Open =>
                                 /\ sessions[u][j].offer[handler'[g].provider] = "PENDING"
                                 /\ handler'[g].pc = "answer" /\ About(handler'[g], u, j)
    BY <1>1 DEF AnswersHeld
  <2>1. CASE g = h
    BY <1>3, <1>4, <1>5, <1>6, <1>7, <2>1 DEF About
  <2>2. CASE g # h
    BY <1>5, <2>2 DEF HeldInv, AnswersHeld
  <2> QED
    BY <2>1, <2>2
<1> QED
    BY <1>8, <1>9 DEF HeldInv

LEMMA HeldInit == Init => HeldInv
<1> SUFFICES ASSUME Init
             PROVE  HeldInv
    OBVIOUS
<1>1. /\ \A h \in Handler : handler[h].pc = "idle"
      /\ \A t \in Task : sessions[t] = <<>> /\ Len(sessions[t]) = 0
    BY Defaults DEF Init
<1>2. \A t \in Task : 1 .. Len(sessions[t]) = {}
    BY <1>1
<1> QED
    BY <1>1, <1>2, Elsewhere DEF HeldInv, OfferedAreHeld, AnswersHeld, NoneReopens

LEMMA HeldNext ==
    TypeInv /\ OfferInv /\ ~LateAnswers /\ HeldInv /\ [Next]_vars /\ NoRevocation => HeldInv'
<1> SUFFICES ASSUME TypeInv, OfferInv, ~LateAnswers, HeldInv, [Next]_vars, NoRevocation
             PROVE  HeldInv'
    OBVIOUS
<1>1. NoneReopens'
    BY NobodyReopens DEF HeldInv
<1>2. CASE \A h \in Handler : ~Special(h)
    BY <1>1, <1>2, OrdinaryHeld
<1>3. ASSUME NEW h \in Handler, Special(h)
      PROVE  HeldInv'
    BY <1>1, <1>3, SessionStepsHeld, PingHeld, ReplyHeld, AnswerHeld DEF Special
<1> QED
    BY <1>2, <1>3

\* A provider with an offer to answer is held ON_DISPATCH for it and has no
\* other, whatever sessions, of one task or of several, compete for it: as
\* long as answers come in time and no assignment is revoked.
THEOREM OffersHold ==
    ASSUME ~LateAnswers
    PROVE  Spec /\ [][NoRevocation]_vars => []OfferedAreHeld
<1>1. Init => HeldInv
    BY HeldInit
<1>2. TypeInv /\ OfferInv /\ HeldInv /\ [Next]_vars /\ [NoRevocation]_vars => HeldInv'
  <2> SUFFICES ASSUME TypeInv, OfferInv, HeldInv, [Next]_vars, [NoRevocation]_vars
               PROVE  HeldInv'
    OBVIOUS
  <2>1. CASE UNCHANGED vars
    BY <2>1 DEF vars, HeldInv, OfferedAreHeld, AnswersHeld, NoneReopens, About
  <2>2. CASE NoRevocation
    BY <2>2, HeldNext
  <2> QED
    BY <2>1, <2>2
<1>3. HeldInv => OfferedAreHeld
    BY DEF HeldInv
<1> QED
    BY <1>1, <1>2, <1>3, OfferInvariant, PTL DEF Spec
=============================================================================
