--------------------------- MODULE DispatchSystem ---------------------------
(***************************************************************************)
(* Dispatch as a whole: customers, administrators, providers, Celery       *)
(* workers, beat and the clock, interleaved commit by commit, with         *)
(* handlers that may die.                                                  *)
(***************************************************************************)
EXTENDS MatchingEngine

(***************************************************************************)
(* Beat.  Both scans are single UPDATE statements.                         *)
(***************************************************************************)
\* process_due_dispatches: claims with SKIP LOCKED, commits, enqueues.
Claim(t) ==
    /\ task[t].dispatch = "RETRY_SCHEDULED"
    /\ t \in overdue
    /\ task' = [task EXCEPT ![t].dispatch = "DISPATCHING"]
    /\ overdue' = overdue \ {t}
    /\ UNCHANGED <<assignment, sessions, duty, handler, requests>>

ClaimDue(t) ==
    /\ Claim(t)
    /\ msgs' = msgs \cup {[kind |-> "retry", task |-> t, seq |-> 0, cands |-> {}, last |-> FALSE]}
    /\ UNCHANGED crashes

\* The scan dies between its commit and the message.
ClaimDueDies(t) ==
    /\ Claim(t)
    /\ crashes < MaxCrashes
    /\ crashes' = crashes + 1
    /\ UNCHANGED msgs

\* recover_stale_dispatches: RETRY_SCHEDULED, due at once.
RecoverableScheduled == {"RETRY_SCHEDULED"}
RecoverableDispatch == {"DISPATCHING"}

RecoverStale(t) ==
    /\ task[t].dispatch \in RecoverableDispatch
    /\ t \in overdue
    /\ task' = [task EXCEPT ![t].dispatch = "RETRY_SCHEDULED"]
    /\ UNCHANGED <<assignment, sessions, duty, overdue, msgs, handler, boundVars>>

(***************************************************************************)
(* The clock.                                                              *)
(***************************************************************************)
RetryFallsDue(t) ==
    /\ task[t].dispatch = "RETRY_SCHEDULED"
    /\ t \notin overdue
    /\ overdue' = overdue \cup {t}
    /\ UNCHANGED <<task, assignment, sessions, duty, msgs, handler, boundVars>>

\* A session is at work on t: a claim of eighteen minutes covers two ping
\* windows, so it outlasts a session of one batch (LongSessions = FALSE).
\* A retry message never waits that long.
InProgress(t) ==
    \/ \E h \in Handler : JobOf(h) = t
    \/ \E m \in msgs : m.task = t
    \/ \E v \in Provider : OfferedTo(t, v, {"PENDING"})

ClaimGoesStale(t) ==
    /\ task[t].dispatch = "DISPATCHING"
    /\ t \notin overdue
    /\ \A m \in msgs : m.task = t => m.kind # "retry"
    /\ LongSessions \/ ~InProgress(t)
    /\ overdue' = overdue \cup {t}
    /\ UNCHANGED <<task, assignment, sessions, duty, msgs, handler, boundVars>>

OfferExpires(t, v, i) ==
    /\ i \in 1 .. Len(sessions[t])
    /\ sessions[t][i].offer[v] = "PENDING"
    /\ LateAnswers \/ \A h \in Handler : ~Answering(h, v)
    /\ sessions' = [sessions EXCEPT ![t][i].offer[v] = "LAPSED"]
    /\ UNCHANGED <<task, assignment, duty, overdue, msgs, handler, boundVars>>

(***************************************************************************)
(* The process running a handler dies; a message it took is not delivered  *)
(* again.                                                                  *)
(***************************************************************************)
Crash(h) ==
    /\ ~At(h, "idle")
    /\ crashes < MaxCrashes
    /\ crashes' = crashes + 1
    /\ Finish(h)
    /\ UNCHANGED <<rowVars, msgs, requests>>

HandlerStep(h) == BeginningStep(h) \/ NoMatchStep(h) \/ AnswerStep(h) \/ MatchingStep(h)

Answers(h) ==
    \E t \in Task, v \in Provider, accept \in BOOLEAN :
        \E i \in 1 .. Len(sessions[t]) : BeginAnswer(h, t, v, i, accept)

HandlerStart(h) ==
    \/ \E m \in msgs : Deliver(h, m)
    \/ \E t \in Task : BeginConfirm(h, t) \/ ManualRedispatch(h, t) \/ RevokeAssignment(h, t)
    \/ Answers(h)

Beat(t) == ClaimDue(t) \/ ClaimDueDies(t) \/ RecoverStale(t)

Expiry(t) == \E v \in Provider : \E i \in 1 .. Len(sessions[t]) : OfferExpires(t, v, i)
Clock(t) == RetryFallsDue(t) \/ ClaimGoesStale(t) \/ Expiry(t)

Next ==
    \/ \E h \in Handler : HandlerStep(h) \/ HandlerStart(h) \/ Crash(h)
    \/ \E t \in Task : Beat(t) \/ Clock(t)

Spec == Init /\ [][Next]_vars

(***************************************************************************)
(* Fairness: handlers that run go on, workers take the messages of every   *)
(* kind again and again, beat fires and time passes.  Nobody has to        *)
(* confirm, redispatch or answer.                                          *)
(***************************************************************************)
Fairness ==
    /\ \A h \in Handler : WF_vars(HandlerStep(h))
    /\ \A t \in Task :
        /\ WF_vars(ClaimDue(t)) /\ WF_vars(RecoverStale(t))
        /\ WF_vars(RetryFallsDue(t)) /\ WF_vars(ClaimGoesStale(t)) /\ WF_vars(Expiry(t))
        /\ \A k \in {"retry", "match", "batch", "check"} :
               SF_vars(\E h \in Handler, m \in msgs :
                           m.task = t /\ m.kind = k /\ Deliver(h, m))

FairSpec == Spec /\ Fairness

-----------------------------------------------------------------------------
(***************************************************************************)
(* Safety.                                                                 *)
(***************************************************************************)

\* The automatic retries of a task stay within AUTO_DISPATCH_MAX, and it is
\* searched for no more often than it was confirmed, redispatched and
\* retried, although stale claims are retried while their session is running
\* and sequence numbers are computed without a lock.
RetriesBounded ==
    \A t \in Task : task[t].auto <= AutoMax /\ Len(sessions[t]) <= requests + task[t].auto

\* A task is given up only when its automatic retries are used up, whatever
\* session of it fails first, or last.
NoMatchIsLast == \A t \in Task : task[t].status = "NO_MATCH" => task[t].auto = AutoMax
-----------------------------------------------------------------------------
(***************************************************************************)
(* What holds while nobody redispatches the task; of OfferedAreHeld, only  *)
(* while no answer races the expiry of its offer.                          *)
(***************************************************************************)

\* Whom a task is assigned to has accepted it: no competing acceptance,
\* overlapping session, expiry or cancellation takes the acceptance back.
AssigneeAccepted ==
    \A t \in Task : task[t].status = "ASSIGNED" =>
        task[t].provider \in Provider /\ OfferedTo(t, task[t].provider, {"ACCEPTED"})

\* A provider with an offer to answer is held for it: no other task is
\* offered to it, and nothing but its answer or the expiry releases it.
OfferedAreHeld ==
    \A v \in Provider : \A t, u \in Task :
        \A i \in 1 .. Len(sessions[t]) : \A j \in 1 .. Len(sessions[u]) :
            sessions[t][i].offer[v] \in Open /\ sessions[u][j].offer[v] \in Open =>
                duty[v] = "ON_DISPATCH" /\ t = u /\ i = j

\* No task searches for ever: it is assigned or given up, whatever message
\* or handler was lost on the way.
DispatchSettles ==
    \A t \in Task : task[t].status = "SEARCHING" ~> task[t].status # "SEARCHING"
=============================================================================
