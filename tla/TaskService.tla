----------------------------- MODULE TaskService -----------------------------
(***************************************************************************)
(* The requests of customers, providers and administrators that move a     *)
(* task from draft to completion, each up to its next commit.  Who may     *)
(* make a request, and on what the loaded row allows it, is one operator   *)
(* per route; Begin loads, the later steps write.                          *)
(***************************************************************************)
EXTENDS LifecycleState

(***************************************************************************)
(* The customer.                                                           *)
(***************************************************************************)
CreateTask(t) ==
    /\ task[t].status = "ABSENT"
    /\ task' = [task EXCEPT ![t].status = "DRAFT"]
    /\ UNCHANGED <<assignment, adjustments, duty, payVars, repVars, told, msgs, running, boundVars>>

BeginConfirmDraft(t) ==
    /\ task[t].status = "DRAFT"
    /\ Load("confirm", t, Customer)
    /\ UNCHANGED <<rowVars, payVars, repVars, told, msgs, boundVars>>

ConfirmDraft(h) ==
    /\ At(h, "confirm")
    /\ SaveStatus(h, "OPEN")
    /\ Finish(h)
    /\ UNCHANGED <<assignment, adjustments, duty, payVars, repVars, told, msgs, boundVars>>

BeginCancelDraft(t) ==
    /\ task[t].status = "DRAFT"
    /\ Load("drop", t, Customer)
    /\ UNCHANGED <<rowVars, payVars, repVars, told, msgs, boundVars>>

CancelDraft(h) ==
    /\ At(h, "drop")
    /\ task' = [task EXCEPT ![h.task] = NewTask]
    /\ Finish(h)
    /\ UNCHANGED <<assignment, adjustments, duty, payVars, repVars, told, msgs, boundVars>>

\* cancel_task: task, assignment and, for an administrator, the provider's
\* duty status, in three commits.
MayCancel(t) == task[t].status \notin {"ABSENT"} \cup Terminal

BeginCancelTask(t) ==
    /\ MayCancel(t)
    /\ Load("cancel", t, Customer)
    /\ Counted
    /\ UNCHANGED <<rowVars, payVars, repVars, told, msgs, crashes>>

BeginAdminCancelTask(t) ==
    /\ MayCancel(t)
    /\ Counted
    /\ Run([Loaded("cancel", t, NoProvider) EXCEPT !.admin = TRUE])
    /\ UNCHANGED <<rowVars, payVars, repVars, told, msgs, crashes>>

CancelTask(h) ==
    /\ At(h, "cancel")
    /\ SaveStatus(h, "CANCELLED")
    /\ IF h.asg.status = "NONE" THEN Finish(h) ELSE Refreshed(h, "cancel_row")
    /\ UNCHANGED <<assignment, adjustments, duty, payVars, repVars, told, msgs, boundVars>>

CancelAssignment(h) ==
    /\ At(h, "cancel_row")
    /\ SaveAssignment(h, "CANCELLED")
    /\ IF h.admin THEN Goto(h, "cancel_duty") ELSE Finish(h)
    /\ UNCHANGED <<task, adjustments, duty, payVars, repVars, told, msgs, boundVars>>

CancelReleases(h) ==
    /\ At(h, "cancel_duty")
    /\ duty' = [duty EXCEPT ![h.asg.provider] = "ONLINE_AVAILABLE"]
    /\ Finish(h)
    /\ UNCHANGED <<task, assignment, adjustments, payVars, repVars, told, msgs, boundVars>>

\* What a customer reads to its provider, off the task's page, when it is
\* asked for.
TellPin(t, pin) ==
    /\ task[t].status = (IF pin = "start" THEN "ASSIGNED" ELSE "IN_PROGRESS")
    /\ told' = [told EXCEPT ![t] = @ \cup {pin}]
    /\ UNCHANGED <<rowVars, payVars, repVars, msgs, running, boundVars>>

(***************************************************************************)
(* Dispatch, from the acceptance of an offer (DispatchService has it in    *)
(* full): task, assignment, duty status.                                   *)
(***************************************************************************)
BeginAccept(t, v) ==
    /\ task[t].status = "OPEN"
    /\ duty[v] = "ONLINE_AVAILABLE"
    /\ \A g \in running : g.task = t => g.pc \notin {"accept", "accept_row", "accept_duty"}
    /\ duty' = [duty EXCEPT ![v] = "ON_DISPATCH"]
    /\ Run(New("accept", t, v))
    /\ UNCHANGED <<task, assignment, adjustments, payVars, repVars, told, msgs, boundVars>>

AcceptTask(h) ==
    /\ At(h, "accept")
    /\ task' = [task EXCEPT ![h.task].status = "ASSIGNED", ![h.task].provider = h.user]
    /\ Goto(h, "accept_row")
    /\ UNCHANGED <<assignment, adjustments, duty, payVars, repVars, told, msgs, boundVars>>

AcceptAssignment(h) ==
    /\ At(h, "accept_row")
    /\ assignment' = [assignment EXCEPT ![h.task] =
                          [status |-> "ASSIGNED", provider |-> h.user]]
    /\ Goto(h, "accept_duty")
    /\ UNCHANGED <<task, adjustments, duty, payVars, repVars, told, msgs, boundVars>>

AcceptDuty(h) ==
    /\ At(h, "accept_duty")
    /\ duty' = [duty EXCEPT ![h.user] = "ON_TASK"]
    /\ Finish(h)
    /\ UNCHANGED <<task, assignment, adjustments, payVars, repVars, told, msgs, boundVars>>

(***************************************************************************)
(* The provider.                                                           *)
(***************************************************************************)
Assigned(t, v) == assignment[t].status # "NONE" /\ assignment[t].provider = v

MayStartAnyTime(t, v) == Assigned(t, v) /\ "start" \in told[t]
MayStartUnasked(t, v) == Assigned(t, v) /\ task[t].status = "ASSIGNED"
MayStart(t, v) == Assigned(t, v) /\ task[t].status = "ASSIGNED" /\ "start" \in told[t]

BeginStartTask(t, v) ==
    /\ MayStart(t, v)
    /\ Load("start", t, v)
    /\ UNCHANGED <<rowVars, payVars, repVars, told, msgs, boundVars>>

StartTask(h) ==
    /\ At(h, "start")
    /\ SaveStatus(h, "IN_PROGRESS")
    /\ Refreshed(h, "start_row")
    /\ UNCHANGED <<assignment, adjustments, duty, payVars, repVars, told, msgs, boundVars>>

StartAssignment(h) ==
    /\ At(h, "start_row")
    /\ SaveAssignment(h, "IN_PROGRESS")
    /\ Finish(h)
    /\ UNCHANGED <<task, adjustments, duty, payVars, repVars, told, msgs, boundVars>>

\* complete_task changes nothing itself: it queues the completion, and may
\* do so again until that has run.
MayComplete(t, v) ==
    Assigned(t, v) /\ task[t].status = "IN_PROGRESS" /\ "completion" \in told[t]

CompleteTask(t, v, mode) ==
    /\ MayComplete(t, v)
    /\ Counted
    /\ msgs' = msgs \cup {[kind |-> "complete", task |-> t, user |-> v, mode |-> mode, n |-> requests]}
    /\ UNCHANGED <<rowVars, payVars, repVars, told, running, crashes>>

(***************************************************************************)
(* Price adjustments: the provider asks, the customer answers.             *)
(***************************************************************************)
Pending(t) == {k \in 1 .. Len(adjustments[t]) : adjustments[t][k].status = "PENDING"}

BeginRequestAdjustment(t, v) ==
    /\ task[t].provider = v
    /\ task[t].status \in Active
    /\ Pending(t) = {}
    /\ Len(adjustments[t]) < MaxAdjustments
    /\ Load("ask", t, v)
    /\ UNCHANGED <<rowVars, payVars, repVars, told, msgs, boundVars>>

RequestAdjustment(h) ==
    /\ At(h, "ask")
    /\ \E a \in Amounts :
           adjustments' = [adjustments EXCEPT ![h.task] = Append(@, [amount |-> a, status |-> "PENDING"])]
    /\ Finish(h)
    /\ UNCHANGED <<task, assignment, duty, payVars, repVars, told, msgs, boundVars>>

MayRespond(t, k) == k \in 1 .. Len(adjustments[t]) /\ adjustments[t][k].status = "PENDING"

BeginRespond(t, k, approved) ==
    /\ MayRespond(t, k)
    /\ ~Busy(t, Customer)
    /\ Run([Loaded(IF approved THEN "approve" ELSE "reject", t, Customer) EXCEPT !.k = k])
    /\ UNCHANGED <<rowVars, payVars, repVars, told, msgs, boundVars>>

\* The price and the approval go with the same commit.
ApproveAdjustment(h) ==
    /\ At(h, "approve")
    /\ adjustments' = [adjustments EXCEPT ![h.task][h.k].status = "APPROVED"]
    /\ task' = [task EXCEPT ![h.task].price =
                    Written(h.row.price, @, adjustments[h.task][h.k].amount)]
    /\ Finish(h)
    /\ UNCHANGED <<assignment, duty, payVars, repVars, told, msgs, boundVars>>

RejectKeepsPrice(h) ==
    /\ At(h, "reject")
    /\ adjustments' = [adjustments EXCEPT ![h.task][h.k].status = "REJECTED"]
    /\ task' = [task EXCEPT ![h.task].price = adjustments[h.task][h.k].amount]
    /\ Finish(h)
    /\ UNCHANGED <<assignment, duty, payVars, repVars, told, msgs, boundVars>>

RejectAdjustment(h) ==
    /\ At(h, "reject")
    /\ adjustments' = [adjustments EXCEPT ![h.task][h.k].status = "REJECTED"]
    /\ Finish(h)
    /\ UNCHANGED <<task, assignment, duty, payVars, repVars, told, msgs, boundVars>>

-----------------------------------------------------------------------------
RequestStep(h) ==
    \/ ConfirmDraft(h) \/ CancelDraft(h) \/ CancelTask(h) \/ CancelAssignment(h) \/ CancelReleases(h)
    \/ AcceptTask(h) \/ AcceptAssignment(h) \/ AcceptDuty(h)
    \/ StartTask(h) \/ StartAssignment(h)
    \/ RequestAdjustment(h) \/ ApproveAdjustment(h) \/ RejectAdjustment(h)

CustomerRequest(t) ==
    \/ BeginConfirmDraft(t) \/ BeginCancelDraft(t) \/ BeginCancelTask(t)
    \/ \E k \in 1 .. MaxAdjustments, approved \in BOOLEAN : BeginRespond(t, k, approved)

ProviderRequest(t) ==
    \E v \in Provider : BeginAccept(t, v) \/ BeginStartTask(t, v) \/ BeginRequestAdjustment(t, v)
=============================================================================
