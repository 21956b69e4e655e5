--------------------------- MODULE MatchingEngine ---------------------------
(***************************************************************************)
(* MatchingEngine.run and the Celery tasks around it: candidates are       *)
(* fetched once per session and pinged in scheduled batches; after the     *)
(* last batch's ping window the session is checked for exhaustion.         *)
(***************************************************************************)
EXTENDS DispatchService

\* recover_stale_attempts, one commit: every expired attempt of the task.
Lapsed(t) == {v \in Provider : OfferedTo(t, v, {"LAPSED"})}

TimedOut(s) ==
    [s EXCEPT !.offer = [v \in Provider |-> IF @[v] = "LAPSED" THEN "TIMEOUT" ELSE @[v]]]

RecoverStaleAttempts(t) ==
    /\ sessions' = [sessions EXCEPT ![t] = [i \in 1 .. Len(@) |-> TimedOut(@[i])]]
    /\ duty' = Release(Lapsed(t))

Running(m) == sessions[m.task][m.seq].status = "RUNNING"
Searching(m) == task[m.task].status = "SEARCHING" /\ Running(m)

Loaded(m, label) ==
    [Idle EXCEPT !.pc = label, !.task = m.task, !.row = task[m.task], !.seq = m.seq,
                 !.ss = sessions[m.task][m.seq].status]

(***************************************************************************)
(* execute_matching_engine.                                                *)
(***************************************************************************)
\* SESSION_NOT_ACTIVE: handle_no_match all the same.
MatchInactive(h, m) ==
    /\ At(h, "idle")
    /\ m.kind = "match"
    /\ ~Running(m)
    /\ msgs' = msgs \ {m}
    /\ Become(h, Loaded(m, "fail"))
    /\ UNCHANGED <<rowVars, boundVars>>

RunMatching(h, m) ==
    /\ At(h, "idle")
    /\ m.kind = "match"
    /\ Running(m)
    /\ RecoverStaleAttempts(m.task)
    /\ msgs' = msgs \ {m}
    /\ Become(h, Loaded(m, "fetch"))
    /\ UNCHANGED <<task, assignment, overdue, boundVars>>

\* CandidateFinder.fetch; previous sessions of the task do not exclude.
Candidates(h) ==
    {v \in Nearby[JobOf(h)] : duty[v] = "ONLINE_AVAILABLE" /\ SessionOf(h).offer[v] = "NONE"}

NoCandidates(h) ==
    /\ At(h, "fetch")
    /\ Candidates(h) = {}
    /\ Goto(h, "fail")
    /\ UNCHANGED <<rowVars, msgs, boundVars>>

\* In the order of any score, BatchSize at a time.
Rankings(C) ==
    {r \in [1 .. Cardinality(C) -> C] : \A i, j \in DOMAIN r : r[i] = r[j] => i = j}

Batches(r) ==
    LET n == (Len(r) + BatchSize - 1) \div BatchSize
    IN  {[first |-> BatchSize * (k - 1) + 1, last |-> k = n] : k \in 1 .. n}

EnqueueBatches(h) ==
    /\ At(h, "fetch")
    /\ Candidates(h) # {}
    /\ \E r \in Rankings(Candidates(h)) :
           msgs' = msgs \cup
               {[kind |-> "batch", task |-> JobOf(h), seq |-> handler[h].seq,
                 cands |-> {r[i] : i \in DOMAIN r \cap (b.first .. b.first + BatchSize - 1)},
                 last |-> b.last] : b \in Batches(r)}
    /\ Finish(h)
    /\ UNCHANGED <<rowVars, boundVars>>

(***************************************************************************)
(* execute_batch_ping.                                                     *)
(***************************************************************************)
SkipBatch(h, m) ==
    /\ At(h, "idle")
    /\ m.kind = "batch"
    /\ ~Searching(m)
    /\ msgs' = msgs \ {m}
    /\ UNCHANGED <<rowVars, handler, boundVars>>

RunBatch(h, m) ==
    /\ At(h, "idle")
    /\ m.kind = "batch"
    /\ Searching(m)
    /\ RecoverStaleAttempts(m.task)
    /\ msgs' = msgs \ {m}
    /\ Become(h, [Idle EXCEPT !.pc = "ping", !.task = m.task, !.seq = m.seq,
                              !.cands = m.cands, !.last = m.last])
    /\ UNCHANGED <<task, assignment, overdue, boundVars>>

\* The task is read again before the pings, the session is not.
AbandonBatch(h) ==
    /\ At(h, "ping")
    /\ task[JobOf(h)].status # "SEARCHING"
    /\ Finish(h)
    /\ UNCHANGED <<rowVars, msgs, boundVars>>

\* ping_batch: the compare-and-set of duty_status decides who is pinged.
ClaimableAnyone == {"ONLINE_AVAILABLE", "ON_DISPATCH"}
Claimable == {"ONLINE_AVAILABLE"}

PingBatch(h) ==
    LET t == JobOf(h)
        won == {v \in handler[h].cands : duty[v] \in Claimable}
    IN  /\ At(h, "ping")
        /\ task[t].status = "SEARCHING"
        /\ duty' = [v \in Provider |-> IF v \in won THEN "ON_DISPATCH" ELSE duty[v]]
        /\ sessions' = [sessions EXCEPT ![t][handler[h].seq].offer =
                            [v \in Provider |-> IF v \in won THEN "PENDING" ELSE @[v]]]
        /\ IF handler[h].last THEN Goto(h, "check") ELSE Finish(h)
        /\ UNCHANGED <<task, assignment, overdue, msgs, boundVars>>

ScheduleCheck(h) ==
    /\ At(h, "check")
    /\ msgs' = msgs \cup {[kind |-> "check", task |-> JobOf(h), seq |-> handler[h].seq,
                           cands |-> handler[h].cands, last |-> TRUE]}
    /\ Finish(h)
    /\ UNCHANGED <<rowVars, boundVars>>

(***************************************************************************)
(* check_session_exhaustion, when the last batch's ping window is over.    *)
(***************************************************************************)
WindowOver(m) == \A v \in m.cands : sessions[m.task][m.seq].offer[v] # "PENDING"

CheckExhaustion(h, m) ==
    /\ At(h, "idle")
    /\ m.kind = "check"
    /\ WindowOver(m)
    /\ Searching(m)
    /\ msgs' = msgs \ {m}
    /\ Become(h, Loaded(m, "fail"))
    /\ UNCHANGED <<rowVars, boundVars>>

CheckMoot(h, m) ==
    /\ At(h, "idle")
    /\ m.kind = "check"
    /\ WindowOver(m)
    /\ ~Searching(m)
    /\ msgs' = msgs \ {m}
    /\ UNCHANGED <<rowVars, handler, boundVars>>

MatchingStep(h) ==
    \/ NoCandidates(h) \/ EnqueueBatches(h) \/ AbandonBatch(h) \/ PingBatch(h) \/ ScheduleCheck(h)

Deliver(h, m) ==
    \/ AutoRetry(h, m) \/ AutoRetryExhausted(h, m) \/ AutoRetryTaken(h, m)
    \/ MatchInactive(h, m) \/ RunMatching(h, m)
    \/ SkipBatch(h, m) \/ RunBatch(h, m)
    \/ CheckExhaustion(h, m) \/ CheckMoot(h, m)
=============================================================================
