-------------------------- MODULE LifecycleProofs --------------------------
(***************************************************************************)
(* Safety of LifecycleSystem: a cancellation is final, no ledger entry is  *)
(* left out of the score, reviews are double-blind, the price is the one   *)
(* that was agreed, and a provider is held only by a task of its own.      *)
(***************************************************************************)
EXTENDS LifecycleTypes

(***************************************************************************)
(* Order.  A task is confirmed once and accepted once, and has no provider *)
(* until then.                                                             *)
(***************************************************************************)
Opening == {"confirm"} \cup Accepting

Order ==
    /\ \A t \in Task : task[t].status \in {"ABSENT", "DRAFT", "OPEN"} => task[t].provider = NoProvider
    /\ \A h \in running :
        /\ h.pc = "confirm" => task[h.task].status \in {"DRAFT", "CANCELLED"}
        /\ h.pc = "accept" => task[h.task].status \in {"OPEN", "CANCELLED"}
        /\ h.pc \in {"confirm", "accept"} => task[h.task].provider = NoProvider
    /\ \A g, h \in running : g.pc \in Opening /\ h.pc \in Opening /\ g.task = h.task => g = h

\* What a handler loaded before it came to write a status.
Copied(h) ==
    /\ h.pc \in {"confirm", "drop"} => h.row.status = "DRAFT"
    /\ h.pc = "start" => h.row.status = "ASSIGNED"
    /\ h.pc \in Accepting \cup {"settle"} => h.row.status = "ABSENT"

OInv == IInv /\ Order /\ \A h \in running : Copied(h)

\* A step that writes neither status nor provider and opens nothing.
LEMMA OrderKept ==
    ASSUME OInv, \A t \in Task : task'[t].status = task[t].status /\ task'[t].provider = task[t].provider,
           \A h \in running' \ running : h.pc \notin Opening
    PROVE  Order'
<1>1. \A h \in running : h.task \in Task
    BY Typed DEF OInv
<1>2. \A h \in running' : h.pc \in Opening => h \in running
    OBVIOUS
<1>3. "confirm" \in Opening /\ "accept" \in Opening
    BY DEF Opening, Accepting
<1> QED
    BY <1>1, <1>2, <1>3 DEF OInv, Order

\* The labels of what is loaded, and of what goes on.
LEMMA FreelyCopied ==
    ASSUME NEW w, w.pc \notin Accepting \cup {"confirm", "drop", "start", "settle"}
    PROVE  Copied(w) /\ w.pc \notin Opening
BY DEF Copied, Opening

LEMMA Loads ==
    ASSUME NEW label, NEW t \in Task, NEW u
    PROVE  /\ New(label, t, u).pc = label /\ New(label, t, u).task = t /\ New(label, t, u).user = u
           /\ New(label, t, u).row.status = "ABSENT"
           /\ Loaded(label, t, u).pc = label /\ Loaded(label, t, u).task = t /\ Loaded(label, t, u).user = u
           /\ Loaded(label, t, u).row.status = task[t].status
BY DEF New, Loaded, Copy, NewTask

LEMMA RequestOrdered ==
    ASSUME OInv, NEW t \in Task,
           \/ BeginCancelTask(t) \/ BeginAdminCancelTask(t)
           \/ \E k \in 1 .. MaxAdjustments, approved \in BOOLEAN : BeginRespond(t, k, approved)
           \/ \E v \in Provider : BeginStartTask(t, v) \/ BeginRequestAdjustment(t, v)
           \/ \E u \in User : BeginReview(t, u)
    PROVE  Order' /\ \A h \in running' \ running : Copied(h) /\ h.pc # "reveal_row"
<1>1. UNCHANGED task
    BY DEF BeginCancelTask, BeginAdminCancelTask, BeginRespond, BeginStartTask, BeginRequestAdjustment,
           BeginReview, rowVars
<1>2. \A h \in running' \ running :
          /\ h.pc \in {"cancel", "approve", "reject", "ask", "review", "start"}
          /\ h.pc = "start" => h.row.status = "ASSIGNED"
  <2>1. CASE BeginCancelTask(t) \/ BeginAdminCancelTask(t)
    <3>1. PICK w \in HandlerRow : w = Loaded("cancel", t, NoProvider) /\ w.pc = "cancel"
        BY LoadedRow, Loads DEF OInv, Label
    <3>2. [w EXCEPT !.admin = TRUE].pc = "cancel"
        BY <3>1 DEF HandlerRow
    <3>3. \A h \in running' \ running : h = [w EXCEPT !.admin = TRUE] \/ h = Loaded("cancel", t, Customer)
        BY <2>1, <3>1 DEF BeginCancelTask, BeginAdminCancelTask, Load, Run
    <3>4. Loaded("cancel", t, Customer).pc = "cancel"
        BY Loads
    <3> QED
        BY <3>2, <3>3, <3>4
  <2>2. CASE \E k \in 1 .. MaxAdjustments, approved \in BOOLEAN : BeginRespond(t, k, approved)
    <3>1. PICK k \in Nat, approved \in BOOLEAN : BeginRespond(t, k, approved)
        BY <2>2, ConstantsAssumption
    <3>2. PICK label \in {"approve", "reject"} : label = IF approved THEN "approve" ELSE "reject"
        OBVIOUS
    <3>3. Customer \in User \cup {NoProvider} /\ label \in Label
        BY DEF User, Label
    <3>4. PICK w \in HandlerRow : w = Loaded(label, t, Customer) /\ w.pc = label
        BY <3>3, LoadedRow DEF OInv
    <3>5. [w EXCEPT !.k = k].pc = label
        BY <3>4 DEF HandlerRow
    <3>6. \A h \in running' \ running : h = [w EXCEPT !.k = k]
        BY <3>1, <3>2, <3>4 DEF BeginRespond, Run
    <3> QED
        BY <3>5, <3>6
  <2>3. CASE \E v \in Provider : BeginRequestAdjustment(t, v)
    BY <2>3, Loads DEF BeginRequestAdjustment, Load, Run
  <2>4. CASE \E v \in Provider : BeginStartTask(t, v)
    <3>1. PICK v \in Provider : BeginStartTask(t, v)
        BY <2>4
    <3>2. \A h \in running' \ running : h = Loaded("start", t, v)
        BY <3>1 DEF BeginStartTask, Load, Run
    <3>3. task[t].status = "ASSIGNED"
        BY <3>1 DEF BeginStartTask, MayStart
    <3> QED
        BY <3>2, <3>3, Loads
  <2>5. CASE \E u \in User : BeginReview(t, u)
    BY <2>5, Loads DEF BeginReview, Run
  <2> QED
    BY <2>1, <2>2, <2>3, <2>4, <2>5
<1>3. \A h \in running' \ running : h.pc \notin Opening /\ Copied(h)
    BY <1>2 DEF Opening, Accepting, Copied
<1> QED
    BY <1>1, <1>2, <1>3, OrderKept

LEMMA DraftOrdered ==
    ASSUME OInv, NEW t \in Task, BeginConfirmDraft(t) \/ BeginCancelDraft(t)
    PROVE  Order' /\ \A h \in running' \ running : Copied(h) /\ h.pc # "reveal_row"
<1>1. PICK label \in {"confirm", "drop"} : Load(label, t, Customer)
    BY DEF BeginConfirmDraft, BeginCancelDraft
<1>2. PICK w : w = Loaded(label, t, Customer)
    OBVIOUS
<1>3. w.pc = label /\ w.task = t /\ w.row.status = "DRAFT" /\ task[t].status = "DRAFT"
    BY <1>2, Loads DEF BeginConfirmDraft, BeginCancelDraft
<1>4. running' = running \cup {w} /\ UNCHANGED task
    BY <1>1, <1>2 DEF Load, Run, BeginConfirmDraft, BeginCancelDraft, rowVars
<1>5. Copied(w)
    BY <1>3 DEF Copied, Accepting
<1>6. \A h \in running : h.task = t => h.pc \notin Opening
  <2>1. \A h \in running : h.pc \in Accepting => Past(h.task)
    BY DEF OInv, IInv, HandlerOK
  <2>2. \A h \in running : h.pc = "confirm" => h.user = Customer /\ h.pc \notin Workers
    BY DEF OInv, IInv, HandlerOK, Workers
  <2> QED
    BY <1>1, <1>3, <2>1, <2>2 DEF Opening, Past, Load, Busy
<1>7. Order'
    BY <1>3, <1>4, <1>6 DEF OInv, Order, Opening
<1> QED
    BY <1>3, <1>4, <1>5, <1>7

LEMMA AcceptOrdered ==
    ASSUME OInv, NEW t \in Task, NEW v \in Provider, BeginAccept(t, v)
    PROVE  Order' /\ \A h \in running' \ running : Copied(h) /\ h.pc # "reveal_row"
<1>1. PICK w : w = New("accept", t, v)
    OBVIOUS
<1>2. w.pc = "accept" /\ w.task = t /\ w.row.status = "ABSENT" /\ task[t].status = "OPEN"
    BY <1>1, Loads DEF BeginAccept
<1>3. running' = running \cup {w} /\ UNCHANGED task
    BY <1>1 DEF Run, BeginAccept
<1>4. Copied(w)
    BY <1>2 DEF Copied
<1>5. \A h \in running : h.task = t => h.pc \notin Opening
    BY <1>2 DEF BeginAccept, OInv, Order, Opening, Accepting
<1>6. Order'
    BY <1>2, <1>3, <1>5 DEF OInv, Order, Opening
<1> QED
    BY <1>2, <1>3, <1>4, <1>6

\* A handler that opens nothing, or that ends, writes the status s of its task.
LEMMA StatusOrdered ==
    ASSUME OInv, NEW t \in Task, NEW s,
           \A u \in Task : /\ task'[u].provider = task[u].provider
                           /\ task'[u].status = task[u].status \/ (u = t /\ task'[u].status = s),
           s \in {"ABSENT", "DRAFT", "OPEN"} => task[t].provider = NoProvider,
           \A h \in running' : h \in running \/ h.pc \notin Opening,
           s # "CANCELLED" => \A h \in running' : h.task = t => h.pc \notin {"confirm", "accept"}
    PROVE  Order'
<1>1. \A h \in running : h.task \in Task
    BY Typed DEF OInv
<1>2. \A h \in running' : h.pc \in Opening => h \in running
    OBVIOUS
<1>3. \A h \in running' : h.pc \in {"confirm", "accept"} => h.pc \in Opening
    BY DEF Opening, Accepting
<1>4. \A u \in Task : task'[u].status \in {"ABSENT", "DRAFT", "OPEN"} => task'[u].provider = NoProvider
    BY DEF OInv, Order
<1>5. ASSUME NEW h \in running', h.pc \in {"confirm", "accept"}
      PROVE  /\ h.pc = "confirm" => task'[h.task].status \in {"DRAFT", "CANCELLED"}
             /\ h.pc = "accept" => task'[h.task].status \in {"OPEN", "CANCELLED"}
             /\ task'[h.task].provider = NoProvider
  <2>1. h \in running /\ h.task \in Task
    BY <1>1, <1>2, <1>3, <1>5
  <2>2. /\ h.pc = "confirm" => task[h.task].status \in {"DRAFT", "CANCELLED"}
        /\ h.pc = "accept" => task[h.task].status \in {"OPEN", "CANCELLED"}
        /\ task[h.task].provider = NoProvider
    BY <1>5, <2>1 DEF OInv, Order
  <2> QED
    BY <1>5, <2>1, <2>2
<1> QED
    BY <1>2, <1>4, <1>5 DEF OInv, Order

LEMMA StatusWritten ==
    ASSUME OInv, NEW h \in running, NEW s, SaveStatus(h, s)
    PROVE  \A u \in Task : /\ task'[u].provider = task[u].provider
                           /\ task'[u].status = task[u].status \/ (u = h.task /\ task'[u].status = s)
<1>1. h.task \in Task /\ task[h.task] \in TaskRow
    BY Typed DEF OInv
<1>2. PICK new : new = Written(h.row.status, task[h.task].status, s) /\ (new = s \/ new = task[h.task].status)
    BY DEF Written
<1>3. task' = [task EXCEPT ![h.task].status = new]
    BY <1>2 DEF SaveStatus
<1>4. task'[h.task].provider = task[h.task].provider /\ task'[h.task].status = new
    BY <1>1, <1>3 DEF TaskRow, OInv, IInv, TypeOK
<1>5. \A u \in Task : u # h.task => task'[u] = task[u]
    BY <1>1, <1>3 DEF OInv, IInv, TypeOK
<1> QED
    BY <1>2, <1>4, <1>5

\* A task that has been told of is not being opened.
LEMMA ToldIsOpened ==
    ASSUME OInv, NEW t \in Task, told[t] # {}
    PROVE  \A h \in running : h.task = t => h.pc \notin {"confirm", "accept"}
BY Rows DEF OInv, Order, TaskOK, Lasting

LEMMA Leaves ==
    ASSUME NEW h \in HandlerRow, NEW label
    PROVE  LET w == [h EXCEPT !.pc = label] IN w.pc = label /\ w.task = h.task /\ w.row = h.row /\ w.user = h.user
BY DEF HandlerRow

LEMMA ConfirmOrdered ==
    ASSUME OInv, NEW h \in running, ConfirmDraft(h)
    PROVE  Order' /\ running' \subseteq running
<1>1. h.pc = "confirm" /\ h \in running /\ h.pc \in Opening /\ h.task \in Task
    BY Typed DEF ConfirmDraft, At, Opening, OInv
<1>2. running' = running \ {h} /\ SaveStatus(h, "OPEN")
    BY DEF ConfirmDraft, Finish
<1>3. \A g \in running' : g.task = h.task => g.pc \notin {"confirm", "accept"}
    BY <1>1, <1>2 DEF OInv, Order, Opening, Accepting
<1>4. task[h.task].provider = NoProvider
    BY <1>1 DEF OInv, Order
<1>5. Order'
    BY <1>1, <1>2, <1>3, <1>4, StatusWritten, StatusOrdered
<1> QED
    BY <1>2, <1>5

LEMMA DropOrdered ==
    ASSUME OInv, NEW h \in running, CancelDraft(h)
    PROVE  Order' /\ running' \subseteq running
<1>1. h.pc = "drop" /\ h.task \in Task /\ running' = running \ {h}
    BY Typed DEF CancelDraft, At, OInv, Finish
<1>2. Dropping(h.task)
    BY <1>1 DEF Dropping
<1>3. \A g \in running : g.task = h.task => g.pc \notin Opening
    BY <1>1, <1>2 DEF OInv, IInv, OneWay, HandlerOK, Past, Opening
<1>4. \A u \in Task : task'[u] = IF u = h.task THEN NewTask ELSE task[u]
    BY <1>1 DEF CancelDraft, OInv, IInv, TypeOK
<1>5. \A g \in running : g.task \in Task
    BY Typed DEF OInv
<1>6. "confirm" \in Opening /\ "accept" \in Opening
    BY DEF Opening, Accepting
<1>7. \A g \in running' : g.pc \in Opening => g \in running /\ task'[g.task] = task[g.task]
    BY <1>1, <1>3, <1>4, <1>5
<1>8. \A u \in Task : task'[u].status \in {"ABSENT", "DRAFT", "OPEN"} => task'[u].provider = NoProvider
    BY <1>4, Defaults DEF OInv, Order
<1>9. Order'
    BY <1>6, <1>7, <1>8 DEF OInv, Order
<1> QED
    BY <1>1, <1>9

LEMMA AcceptanceOrdered ==
    ASSUME OInv, NEW h \in running, AcceptTask(h)
    PROVE  Order' /\ \A w \in running' \ running : Copied(w)
<1>1. h \in HandlerRow /\ h.pc = "accept" /\ h.task \in Task /\ h.pc \in Opening /\ h.row.status = "ABSENT"
    BY Typed DEF AcceptTask, At, Opening, Accepting, OInv, Copied
<1>2. PICK w : w = [h EXCEPT !.pc = "accept_row"]
    OBVIOUS
<1>3. w.pc = "accept_row" /\ w.task = h.task /\ w.row = h.row
    BY <1>1, <1>2, Leaves
<1>4. running' = (running \ {h}) \cup {w}
    BY <1>2 DEF AcceptTask, Goto, Become
<1>5. Copied(w) /\ w.pc \in Opening
    BY <1>1, <1>3 DEF Copied, Accepting, Opening
<1>6. \A g \in running : g # h /\ g.task = h.task => g.pc \notin Opening
    BY <1>1 DEF OInv, Order
<1>7. task'[h.task].status = "ASSIGNED" /\ \A u \in Task : u # h.task => task'[u] = task[u]
    BY <1>1, Typed DEF AcceptTask, OInv, IInv, TypeOK, TaskRow
<1>8. \A g \in running : g.task \in Task
    BY Typed DEF OInv
<1>9. "confirm" \in Opening /\ "accept" \in Opening
    BY DEF Opening, Accepting
<1>10. \A u \in Task : task'[u].status \in {"ABSENT", "DRAFT", "OPEN"} => task'[u].provider = NoProvider
    BY <1>7 DEF OInv, Order
<1>11. ASSUME NEW g \in running', g.pc \in {"confirm", "accept"}
       PROVE  /\ g.pc = "confirm" => task'[g.task].status \in {"DRAFT", "CANCELLED"}
              /\ g.pc = "accept" => task'[g.task].status \in {"OPEN", "CANCELLED"}
              /\ task'[g.task].provider = NoProvider
  <2>1. g \in running /\ g # h /\ g.task # h.task /\ g.task \in Task
    BY <1>3, <1>4, <1>6, <1>8, <1>9, <1>11
  <2>2. task'[g.task] = task[g.task]
    BY <1>7, <2>1
  <2> QED
    BY <1>11, <2>1, <2>2 DEF OInv, Order
<1>12. \A f, g \in running' : f.pc \in Opening /\ g.pc \in Opening /\ f.task = g.task => f = g
    BY <1>3, <1>4, <1>6 DEF OInv, Order
<1>13. Order'
    BY <1>10, <1>11, <1>12 DEF Order
<1> QED
    BY <1>4, <1>5, <1>13

\* A handler goes on, or ends, without a status to write.
LEMMA MovesOn ==
    ASSUME OInv, NEW h \in running, NEW label, h.pc \notin {"confirm", "drop", "start"},
           label \notin Opening \cup {"drop", "start", "settle"}, Goto(h, label) \/ Finish(h),
           \A t \in Task : task'[t].status = task[t].status /\ task'[t].provider = task[t].provider
    PROVE  Order' /\ \A w \in running' \ running : Copied(w)
<1>1. PICK w : w = [h EXCEPT !.pc = label]
    OBVIOUS
<1>2. w.pc = label
    BY <1>1, Typed, Leaves DEF OInv
<1>3. \A g \in running' \ running : g = w
    BY <1>1 DEF Goto, Become, Finish
<1>4. w.pc \notin Opening /\ Copied(w)
    BY <1>2 DEF Opening, Copied
<1> QED
    BY <1>3, <1>4, OrderKept

LEMMA WriterOrdered ==
    ASSUME OInv, NEW h \in running, CancelTask(h) \/ StartTask(h)
    PROVE  Order' /\ \A w \in running' \ running : Copied(w)
<1>1. PICK s \in {"CANCELLED", "IN_PROGRESS"} :
          SaveStatus(h, s) /\ (s = "IN_PROGRESS" => h.pc = "start")
    BY DEF CancelTask, StartTask, At
<1>2. PICK label \in {"cancel_row", "start_row"} : Finish(h) \/ Refreshed(h, label)
    BY DEF CancelTask, StartTask
<1>3. PICK w : w = [h EXCEPT !.pc = label, !.row = Copy(task'[h.task]), !.asg = assignment[h.task]]
    OBVIOUS
<1>4. w.pc = label
    BY <1>3, Typed DEF OInv, HandlerRow
<1>5. \A g \in running' \ running : g = w
    BY <1>2, <1>3 DEF Finish, Refreshed, Become
<1>6. w.pc \notin Opening /\ Copied(w)
    BY <1>4 DEF Opening, Accepting, Copied
<1>7. h.task \in Task /\ (h.pc = "start" => told[h.task] # {})
    BY Typed DEF OInv, HandlerOK
<1>8. s # "CANCELLED" => \A g \in running' : g.task = h.task => g.pc \notin {"confirm", "accept"}
  <2>1. s # "CANCELLED" => \A g \in running : g.task = h.task => g.pc \notin {"confirm", "accept"}
    BY <1>1, <1>7, ToldIsOpened
  <2> QED
    BY <1>5, <1>6, <2>1 DEF Opening, Accepting
<1>9. Order'
    BY <1>1, <1>5, <1>6, <1>7, <1>8, StatusWritten, StatusOrdered
<1> QED
    BY <1>5, <1>6, <1>9

LEMMA SettleOrdered ==
    ASSUME OInv, NEW h \in running, SettleTask(h)
    PROVE  Order' /\ \A w \in running' \ running : Copied(w)
<1>1. h.task \in Task /\ told[h.task] = Pin /\ h \in HandlerRow
    BY Typed DEF OInv, HandlerOK, SettleTask, At, Workers
<1>2. PICK w : w = [h EXCEPT !.pc = "settle_duty"]
    OBVIOUS
<1>3. w.pc = "settle_duty"
    BY <1>1, <1>2, Leaves
<1>4. \A g \in running' \ running : g = w
    BY <1>2 DEF SettleTask, Goto, Become
<1>5. w.pc \notin Opening /\ Copied(w)
    BY <1>3 DEF Opening, Accepting, Copied
<1>6. \A g \in running' : g.task = h.task => g.pc \notin {"confirm", "accept"}
  <2>1. \A g \in running : g.task = h.task => g.pc \notin {"confirm", "accept"}
    BY <1>1, ToldIsOpened DEF Pin
  <2> QED
    BY <1>4, <1>5, <2>1 DEF Opening, Accepting
<1>7. \A u \in Task : /\ task'[u].provider = task[u].provider
                      /\ task'[u].status = task[u].status \/ (u = h.task /\ task'[u].status = "COMPLETED")
    BY <1>1, Typed DEF SettleTask, OInv, IInv, TypeOK, TaskRow
<1>8. Order'
    BY <1>1, <1>4, <1>5, <1>6, <1>7, StatusOrdered
<1> QED
    BY <1>4, <1>5, <1>8

LEMMA AcceptGoesOn ==
    ASSUME OInv, NEW h \in running, AcceptAssignment(h)
    PROVE  Order' /\ \A w \in running' \ running : Copied(w)
<1>1. h \in HandlerRow /\ h.pc = "accept_row" /\ h.pc \in Opening /\ h.row.status = "ABSENT"
    BY Typed DEF AcceptAssignment, At, Opening, Accepting, OInv, Copied
<1>2. PICK w : w = [h EXCEPT !.pc = "accept_duty"]
    OBVIOUS
<1>3. w.pc = "accept_duty" /\ w.task = h.task /\ w.row = h.row
    BY <1>1, <1>2, Leaves
<1>4. running' = (running \ {h}) \cup {w} /\ UNCHANGED task
    BY <1>2 DEF AcceptAssignment, Goto, Become
<1>5. Copied(w) /\ w.pc \in Opening
    BY <1>1, <1>3 DEF Copied, Accepting, Opening
<1>6. Order'
    BY <1>1, <1>3, <1>4 DEF OInv, Order
<1> QED
    BY <1>4, <1>5, <1>6

\* Prices and payments, but not the status.
LEMMA PriceWritten ==
    ASSUME OInv, NEW h \in running, ApproveAdjustment(h) \/ RejectAdjustment(h)
    PROVE  \A u \in Task : task'[u].status = task[u].status /\ task'[u].provider = task[u].provider
<1>1. CASE RejectAdjustment(h)
    BY <1>1 DEF RejectAdjustment
<1>2. CASE ApproveAdjustment(h)
  <2>1. PICK p : p = Written(h.row.price, task[h.task].price, adjustments[h.task][h.k].amount)
    OBVIOUS
  <2>2. task' = [task EXCEPT ![h.task].price = p]
    BY <1>2, <2>1 DEF ApproveAdjustment
  <2> QED
    BY <2>2, Typed DEF OInv, IInv, TypeOK, TaskRow
<1> QED
    BY <1>1, <1>2

LEMMA PaymentWritten ==
    ASSUME OInv, NEW t \in Task, NEW p, task' = [task EXCEPT ![t].payment = p]
    PROVE  \A u \in Task : task'[u].status = task[u].status /\ task'[u].provider = task[u].provider
BY DEF OInv, IInv, TypeOK, TaskRow

LEMMA StatusKept ==
    ASSUME OInv, NEW h \in running,
           \/ CancelAssignment(h) \/ CancelReleases(h) \/ AcceptAssignment(h) \/ AcceptDuty(h)
           \/ StartAssignment(h) \/ RequestAdjustment(h) \/ ApproveAdjustment(h) \/ RejectAdjustment(h)
           \/ SettleProvider(h) \/ SettlePay(h) \/ QueuePayout(h) \/ ReviewStep(h) \/ Crash(h)
    PROVE  \A t \in Task : task'[t].status = task[t].status /\ task'[t].provider = task[t].provider
<1>1. CASE ApproveAdjustment(h) \/ RejectAdjustment(h)
    BY <1>1, PriceWritten
<1>2. CASE UNCHANGED task
    BY <1>2
<1> QED
    BY <1>1, <1>2 DEF CancelAssignment, CancelReleases, AcceptAssignment, AcceptDuty, StartAssignment,
           RequestAdjustment, SettleProvider, SettlePay, QueuePayout, ReviewStep, InsertReview,
           AddCredibility, ThreeStars, QueueScore, RevealOne, RevealDone, Crash, rowVars

LEMMA QuietlyOrdered ==
    ASSUME OInv, NEW h \in running,
           \/ CancelAssignment(h) \/ CancelReleases(h) \/ AcceptDuty(h) \/ StartAssignment(h)
           \/ RequestAdjustment(h) \/ ApproveAdjustment(h) \/ RejectAdjustment(h)
           \/ SettleProvider(h) \/ SettlePay(h) \/ QueuePayout(h)
           \/ InsertReview(h) \/ AddCredibility(h) \/ ThreeStars(h) \/ QueueScore(h) \/ RevealDone(h)
           \/ Crash(h) /\ h.pc \notin {"confirm", "drop", "start"}
    PROVE  Order' /\ \A w \in running' \ running : Copied(w)
<1>1. h.pc \notin {"confirm", "drop", "start"}
    BY DEF At, CancelAssignment, CancelReleases, AcceptDuty, StartAssignment, RequestAdjustment,
           ApproveAdjustment, RejectAdjustment, SettleProvider, SettlePay, QueuePayout,
           InsertReview, AddCredibility, ThreeStars, QueueScore, RevealDone
<1>2. PICK label \in {"cancel_duty", "settle_pay", "ledger", "notify_score", "reveal_row"} :
          Goto(h, label) \/ Finish(h)
    BY DEF CancelAssignment, CancelReleases, AcceptDuty, StartAssignment, RequestAdjustment,
           ApproveAdjustment, RejectAdjustment, SettleProvider, SettlePay, QueuePayout,
           InsertReview, AddCredibility, ThreeStars, QueueScore, RevealDone, MaybeReveal, Crash
<1>3. label \notin Opening \cup {"drop", "start", "settle"}
    BY DEF Opening, Accepting
<1>4. \A t \in Task : task'[t].status = task[t].status /\ task'[t].provider = task[t].provider
    BY StatusKept DEF ReviewStep
<1> QED
    BY <1>1, <1>2, <1>3, <1>4, MovesOn

LEMMA HandlerOrdered ==
    ASSUME OInv, NEW h \in running, HandlerStep(h) \/ Crash(h)
    PROVE  Order' /\ \A w \in running' \ running : Copied(w)
<1>1. CASE ConfirmDraft(h) \/ CancelDraft(h)
    BY <1>1, ConfirmOrdered, DropOrdered
<1>2. CASE AcceptTask(h) \/ AcceptAssignment(h)
    BY <1>2, AcceptanceOrdered, AcceptGoesOn
<1>3. CASE CancelTask(h) \/ StartTask(h) \/ SettleTask(h)
    BY <1>3, WriterOrdered, SettleOrdered
<1>4. CASE RevealOne(h)
    BY <1>4, OrderKept DEF RevealOne, rowVars
<1>5. CASE Crash(h)
  <2>1. UNCHANGED task /\ running' = running \ {h}
    BY <1>5 DEF Crash, rowVars, Finish
  <2> QED
    BY <2>1, OrderKept
<1> QED
    BY <1>1, <1>2, <1>3, <1>4, <1>5, QuietlyOrdered DEF HandlerStep, RequestStep, JobStep, ReviewStep

LEMMA MessagesKeepStatus ==
    ASSUME OInv, NEW m \in msgs, Deliver(m) \/ SyncScore(m)
    PROVE  \A t \in Task : task'[t].status = task[t].status /\ task'[t].provider = task[t].provider
<1>1. CASE UNCHANGED task
    BY <1>1
<1>2. CASE PayOnline(m) \/ PayInCash(m)
  <2>1. m.task \in Task
    BY <1>2 DEF PayOnline, PayInCash, OInv, IInv, TypeOK, Message
  <2> QED
    BY <1>2, <2>1, PaymentWritten DEF PayOnline, PayInCash
<1> QED
    BY <1>1, <1>2 DEF Deliver, CompletionJob, SyncScore, rowVars

LEMMA MessageOrdered ==
    ASSUME OInv, NEW m \in msgs, Deliver(m) \/ SyncScore(m)
    PROVE  Order' /\ \A w \in running' \ running : Copied(w) /\ w.pc # "reveal_row"
<1>1. CASE SyncScore(m)
    BY <1>1, OrderKept DEF SyncScore, rowVars
<1>2. CASE PayOnline(m)
    BY <1>2, MessagesKeepStatus, OrderKept DEF PayOnline
<1>3. CASE PayInCash(m)
  <2>1. m.task \in Task /\ m.user \in Provider /\ m.n \in Nat
    BY <1>3 DEF PayInCash, OInv, IInv, TypeOK, Message
  <2>2. \A t \in Task : task'[t].status = task[t].status /\ task'[t].provider = task[t].provider
    BY MessagesKeepStatus
  <2>3. PICK w \in HandlerRow : w = New("pay_queue", m.task, m.user) /\ w.pc = "pay_queue"
    BY <2>1, NewRow DEF Label, User
  <2>4. PICK x : x = [w EXCEPT !.row = Copy(task[m.task]), !.k = m.n]
    OBVIOUS
  <2>5. x.pc = "pay_queue" /\ running' \subseteq running \cup {x}
    BY <1>3, <2>3, <2>4 DEF HandlerRow, PayInCash, Run
  <2>6. Copied(x) /\ x.pc \notin Opening
    BY <2>5 DEF Copied, Opening, Accepting
  <2> QED
    BY <2>2, <2>5, <2>6, OrderKept
<1>4. CASE CompletionJob(m)
  <2>1. m.task \in Task /\ m.user \in Provider /\ m.n \in Nat
    BY <1>4 DEF CompletionJob, OInv, IInv, TypeOK, Message
  <2>2. PICK w \in HandlerRow : w = New("settle", m.task, m.user) /\ w.pc = "settle" /\ w.row.status = "ABSENT"
    BY <2>1, NewRow, Loads DEF Label, User
  <2>3. PICK x : x = [w EXCEPT !.mode = m.mode, !.k = m.n]
    OBVIOUS
  <2>4. x.pc = "settle" /\ x.row.status = "ABSENT" /\ running' \subseteq running \cup {x}
    BY <1>4, <2>2, <2>3 DEF HandlerRow, CompletionJob, Run
  <2>5. Copied(x) /\ x.pc \notin Opening
    BY <2>4 DEF Copied, Opening, Accepting
  <2> QED
    BY <1>4, <2>4, <2>5, OrderKept DEF CompletionJob
<1> QED
    BY <1>1, <1>2, <1>3, <1>4 DEF Deliver

LEMMA ExternalOrdered ==
    ASSUME OInv, NEW t \in Task, External(t)
    PROVE  Order' /\ \A w \in running' \ running : Copied(w)
<1>1. CASE CreateTask(t)
  <2>1. task[t].status = "ABSENT" /\ running' = running
    BY <1>1 DEF CreateTask
  <2>2. \A h \in running : h.task = t => h.pc \notin {"confirm", "accept"}
    BY <2>1 DEF OInv, Order
  <2>3. \A u \in Task : /\ task'[u].provider = task[u].provider
                        /\ task'[u].status = task[u].status \/ (u = t /\ task'[u].status = "DRAFT")
    BY <1>1 DEF CreateTask, OInv, IInv, TypeOK, TaskRow
  <2>4. task[t].provider = NoProvider
    BY <2>1 DEF OInv, Order
  <2>5. Order'
    BY <2>1, <2>2, <2>3, <2>4, StatusOrdered
  <2> QED
    BY <2>1, <2>5
<1>2. CASE CustomerPays(t)
  <2>1. \A u \in Task : task'[u].status = task[u].status /\ task'[u].provider = task[u].provider
    BY <1>2, PaymentWritten DEF CustomerPays
  <2> QED
    BY <1>2, <2>1, OrderKept DEF CustomerPays
<1>3. CASE UNCHANGED <<task, running>>
    BY <1>3, OrderKept
<1> QED
    BY <1>1, <1>2, <1>3 DEF External, TellPin, CompleteTask, rowVars

LEMMA AlwaysOInv == Spec => []OInv
<1>1. Init => OInv
  <2>1. Init => IInv
    BY Starting
  <2>2. Init => Order
    BY Defaults DEF Init, Order
  <2> QED
    BY <2>1, <2>2 DEF OInv, Init
<1>2. OInv /\ [Next]_vars => OInv'
  <2> SUFFICES ASSUME OInv, [Next]_vars
               PROVE  OInv'
    OBVIOUS
  <2>1. IInv'
    BY Stepping DEF OInv
  <2>2. Order' /\ \A w \in running' \ running : Copied(w)
    <3>1. CASE UNCHANGED vars
      BY <3>1, OrderKept DEF vars, rowVars
    <3>2. CASE \E h \in running : HandlerStep(h) \/ Crash(h)
      BY <3>2, HandlerOrdered
    <3>3. CASE \E m \in msgs : Deliver(m) \/ SyncScore(m)
      BY <3>3, MessageOrdered
    <3>4. ASSUME NEW t \in Task, UserRequest(t) \/ External(t)
          PROVE  Order' /\ \A w \in running' \ running : Copied(w)
      <4>1. CASE \/ BeginCancelTask(t) \/ BeginAdminCancelTask(t)
                 \/ \E k \in 1 .. MaxAdjustments, approved \in BOOLEAN : BeginRespond(t, k, approved)
                 \/ \E v \in Provider : BeginStartTask(t, v) \/ BeginRequestAdjustment(t, v)
                 \/ \E u \in User : BeginReview(t, u)
        BY <4>1, RequestOrdered
      <4>2. CASE BeginConfirmDraft(t) \/ BeginCancelDraft(t)
        BY <4>2, DraftOrdered
      <4>3. CASE \E v \in Provider : BeginAccept(t, v)
        BY <4>3, AcceptOrdered
      <4>4. CASE External(t)
        BY <4>4, ExternalOrdered
      <4> QED
        BY <3>4, <4>1, <4>2, <4>3, <4>4 DEF UserRequest, CustomerRequest, ProviderRequest
    <3> QED
      BY <3>1, <3>2, <3>3, <3>4 DEF Next
  <2>3. \A w \in running' : Copied(w)
    BY <2>2 DEF OInv
  <2> QED
    BY <2>1, <2>2, <2>3 DEF OInv, Copied
<1> QED
    BY <1>1, <1>2, PTL DEF Spec

-----------------------------------------------------------------------------
(***************************************************************************)
(* Where handlers come from, and what they leave of the tasks.             *)
(***************************************************************************)
Showing == {"ledger", "notify_score", "reveal_row"}

LEMMA Moved ==
    ASSUME NEW h \in HandlerRow, NEW label, Goto(h, label) \/ Refreshed(h, label) \/ Finish(h),
           NEW w \in running' \ running
    PROVE  w.pc = label /\ w.task = h.task /\ w.user = h.user
<1>1. PICK x : x = [h EXCEPT !.pc = label, !.row = Copy(task'[h.task]), !.asg = assignment[h.task]]
    OBVIOUS
<1>2. PICK y : y = [h EXCEPT !.pc = label]
    OBVIOUS
<1>3. w = x \/ w = y
    BY <1>1, <1>2 DEF Finish, Goto, Refreshed, Become
<1>4. /\ x.pc = label /\ x.task = h.task /\ x.user = h.user
      /\ y.pc = label /\ y.task = h.task /\ y.user = h.user
    BY <1>1, <1>2 DEF HandlerRow
<1> QED
    BY <1>3, <1>4

\* What a handler goes on as.
LEMMA Follows ==
    ASSUME OInv, NEW h \in running, HandlerStep(h) \/ Crash(h), NEW w \in running' \ running
    PROVE  /\ w.task = h.task /\ w.user = h.user
           /\ \/ AcceptTask(h) /\ w.pc = "accept_row"
              \/ AcceptAssignment(h) /\ w.pc = "accept_duty"
              \/ SettleTask(h) /\ w.pc = "settle_duty"
              \/ SettleProvider(h) /\ w.pc = "settle_pay"
              \/ w.pc \in {"cancel_row", "cancel_duty", "start_row"}
              \/ w.pc \in Showing
<1>1. h \in HandlerRow
    BY Typed DEF OInv
<1>2. CASE AcceptTask(h)
    BY <1>1, <1>2, Moved DEF AcceptTask
<1>3. CASE AcceptAssignment(h)
    BY <1>1, <1>3, Moved DEF AcceptAssignment
<1>4. CASE SettleTask(h)
    BY <1>1, <1>4, Moved DEF SettleTask
<1>5. CASE SettleProvider(h)
    BY <1>1, <1>5, Moved DEF SettleProvider
<1>6. CASE ReviewStep(h)
  <2>1. PICK label \in Showing : Goto(h, label) \/ Finish(h) \/ UNCHANGED running
    BY <1>6 DEF ReviewStep, InsertReview, AddCredibility, ThreeStars, QueueScore, RevealOne,
       RevealDone, MaybeReveal, Showing
  <2> QED
    BY <1>1, <2>1, Moved
<1>7. CASE CancelTask(h) \/ CancelAssignment(h) \/ StartTask(h)
  <2>1. PICK label \in {"cancel_row", "cancel_duty", "start_row"} :
            Goto(h, label) \/ Refreshed(h, label) \/ Finish(h)
    BY <1>7 DEF CancelTask, CancelAssignment, StartTask
  <2> QED
    BY <1>1, <2>1, Moved
<1>8. CASE Finish(h)
    BY <1>8 DEF Finish
<1>9. HandlerStep(h) \/ Crash(h) =>
          \/ AcceptTask(h) \/ AcceptAssignment(h) \/ SettleTask(h) \/ SettleProvider(h) \/ ReviewStep(h)
          \/ CancelTask(h) \/ CancelAssignment(h) \/ StartTask(h) \/ Finish(h)
    BY DEF HandlerStep, RequestStep, JobStep, Crash, ConfirmDraft, CancelDraft, CancelReleases, AcceptDuty,
       StartAssignment, RequestAdjustment, ApproveAdjustment, RejectAdjustment, SettlePay, QueuePayout
<1> QED
    BY <1>2, <1>3, <1>4, <1>5, <1>6, <1>7, <1>8, <1>9

\* What a request starts as.
LEMMA Begins ==
    ASSUME OInv, NEW t \in Task, UserRequest(t), NEW w \in running' \ running
    PROVE  /\ w.task = t
           /\ \/ w.pc \in {"confirm", "cancel", "accept", "review"}
              \/ w.pc = "drop" /\ BeginCancelDraft(t)
              \/ w.pc = "start" /\ w.user \in Provider /\ BeginStartTask(t, w.user)
              \/ w.pc = "ask" /\ w.user \in Provider /\ BeginRequestAdjustment(t, w.user)
              \/ /\ w.pc \in Responding /\ w.user = Customer
                 /\ w.k \in Pending(t) /\ ~Busy(t, Customer)
                 /\ w.row.price = task[t].price
<1>1. Customer \in User \cup {NoProvider} /\ NoProvider \in User \cup {NoProvider} /\ Provider \subseteq User
    BY DEF User
<1>2. CASE BeginConfirmDraft(t) \/ BeginCancelDraft(t) \/ BeginCancelTask(t)
  <2>1. PICK label \in {"confirm", "drop", "cancel"} :
            Load(label, t, Customer) /\ (label = "drop" => BeginCancelDraft(t))
    BY <1>2 DEF BeginConfirmDraft, BeginCancelDraft, BeginCancelTask
  <2>2. w = Loaded(label, t, Customer)
    BY <2>1 DEF Load, Run
  <2> QED
    BY <2>1, <2>2, Loads
<1>3. CASE BeginAdminCancelTask(t)
  <2>1. PICK x \in HandlerRow : x = Loaded("cancel", t, NoProvider) /\ x.pc = "cancel" /\ x.task = t
    BY <1>1, LoadedRow DEF OInv, Label
  <2>2. w = [x EXCEPT !.admin = TRUE]
    BY <1>3, <2>1 DEF BeginAdminCancelTask, Run
  <2> QED
    BY <2>1, <2>2 DEF HandlerRow
<1>4. CASE \E k \in 1 .. MaxAdjustments, approved \in BOOLEAN : BeginRespond(t, k, approved)
  <2>1. PICK k \in Nat, approved \in BOOLEAN : BeginRespond(t, k, approved)
    BY <1>4, ConstantsAssumption
  <2>2. PICK label \in {"approve", "reject"} : label = IF approved THEN "approve" ELSE "reject"
    OBVIOUS
  <2>3. label \in Label
    BY DEF Label
  <2>4. PICK x \in HandlerRow : /\ x = Loaded(label, t, Customer)
                                /\ x.pc = label /\ x.task = t /\ x.user = Customer
    BY <1>1, <2>3, LoadedRow DEF OInv
  <2>5. x.row.price = task[t].price
    BY <2>4 DEF Loaded, New, Copy, NewTask
  <2>6. w = [x EXCEPT !.k = k]
    BY <2>1, <2>2, <2>4 DEF BeginRespond, Run
  <2>7. w.pc = label /\ w.task = t /\ w.user = Customer /\ w.k = k /\ w.row = x.row
    BY <2>4, <2>6 DEF HandlerRow
  <2>8. k \in Pending(t) /\ ~Busy(t, Customer)
    BY <2>1 DEF BeginRespond, MayRespond, Pending
  <2> QED
    BY <2>5, <2>7, <2>8 DEF Responding
<1>5. ASSUME NEW v \in Provider, BeginAccept(t, v)
      PROVE  w.task = t /\ w.pc = "accept"
  <2>1. w = New("accept", t, v)
    BY <1>5 DEF BeginAccept, Run
  <2> QED
    BY <2>1, Loads
<1>6. ASSUME NEW v \in Provider, BeginStartTask(t, v)
      PROVE  w.task = t /\ w.pc = "start" /\ w.user = v
  <2>1. w = Loaded("start", t, v)
    BY <1>6 DEF BeginStartTask, Load, Run
  <2> QED
    BY <2>1, Loads
<1>7. ASSUME NEW v \in Provider, BeginRequestAdjustment(t, v)
      PROVE  w.task = t /\ w.pc = "ask" /\ w.user = v
  <2>1. w = Loaded("ask", t, v)
    BY <1>7 DEF BeginRequestAdjustment, Load, Run
  <2> QED
    BY <2>1, Loads
<1>8. ASSUME NEW u \in User, BeginReview(t, u)
      PROVE  w.task = t /\ w.pc = "review"
  <2>1. w = New("review", t, u)
    BY <1>8 DEF BeginReview, Run
  <2> QED
    BY <2>1, Loads
<1> QED
    BY <1>2, <1>3, <1>4, <1>5, <1>6, <1>7, <1>8 DEF UserRequest, CustomerRequest, ProviderRequest

\* What a message starts.
LEMMA JobBegins ==
    ASSUME OInv, NEW m \in msgs, Deliver(m) \/ SyncScore(m), NEW w \in running' \ running
    PROVE  /\ m.kind \in Jobs /\ m.task \in Task /\ w.task = m.task /\ w.user = m.user
           /\ \/ w.pc = "settle"
              \/ w.pc = "pay_queue" /\ w.row.price = task[m.task].price
<1>1. PayInCash(m) \/ CompletionJob(m)
    BY DEF Deliver, SyncScore, PayOnline
<1>2. m.kind \in Jobs /\ m.task \in Task /\ m.user \in Provider /\ m.n \in Nat /\ m.mode \in PaymentMode
    BY <1>1 DEF PayInCash, CompletionJob, Jobs, OInv, IInv, TypeOK, Message
<1>3. CASE PayInCash(m)
  <2>1. PICK x \in HandlerRow : /\ x = New("pay_queue", m.task, m.user)
                                /\ x.pc = "pay_queue" /\ x.task = m.task /\ x.user = m.user
    BY <1>2, NewRow DEF Label, User
  <2>2. PICK c : c = Copy(task[m.task])
    OBVIOUS
  <2>3. c.price = task[m.task].price
    BY <2>2 DEF Copy, NewTask
  <2>4. w = [x EXCEPT !.row = c, !.k = m.n]
    BY <1>3, <2>1, <2>2 DEF PayInCash, Run
  <2>5. w.pc = "pay_queue" /\ w.task = m.task /\ w.user = m.user /\ w.row = c
    BY <2>1, <2>4 DEF HandlerRow
  <2> QED
    BY <1>2, <2>3, <2>5
<1>4. CASE CompletionJob(m)
  <2>1. PICK x \in HandlerRow : /\ x = New("settle", m.task, m.user)
                                /\ x.pc = "settle" /\ x.task = m.task /\ x.user = m.user
    BY <1>2, NewRow DEF Label, User
  <2>2. w = [x EXCEPT !.mode = m.mode, !.k = m.n]
    BY <1>4, <2>1 DEF CompletionJob, Run
  <2>3. w.pc = "settle" /\ w.task = m.task /\ w.user = m.user
    BY <2>1, <2>2 DEF HandlerRow
  <2> QED
    BY <1>2, <2>3
<1> QED
    BY <1>1, <1>3, <1>4

LEMMA OutsideRunsNothing ==
    ASSUME NEW t \in Task, External(t)
    PROVE  UNCHANGED running
BY DEF External, CreateTask, CustomerPays, TellPin, CompleteTask

\* A task that was confirmed stays so.
LEMMA PastStays ==
    ASSUME OInv, [Next]_vars, NEW t \in Task, Past(t)
    PROVE  Past(t)'
<1>1. task'[t].status \notin {"ABSENT", "DRAFT"}
  <2>1. ASSUME NEW h \in running, HandlerStep(h) \/ Crash(h)
        PROVE  task'[t].status \notin {"ABSENT", "DRAFT"}
    <3>1. h.task \in Task
      BY Typed DEF OInv
    <3>2. CASE ConfirmDraft(h) \/ CancelTask(h) \/ StartTask(h)
      <4>1. PICK s \in {"OPEN", "CANCELLED", "IN_PROGRESS"} : SaveStatus(h, s)
        BY <3>2 DEF ConfirmDraft, CancelTask, StartTask
      <4> QED
        BY <4>1, StatusWritten DEF Past
    <3>3. CASE CancelDraft(h)
      <4>1. h.task # t
        BY <3>3 DEF CancelDraft, At, Past, Dropping
      <4> QED
        BY <3>1, <3>3, <4>1 DEF CancelDraft, OInv, IInv, TypeOK, Past
    <3>4. CASE AcceptTask(h)
      <4>1. task[h.task] \in TaskRow /\ task \in [Task -> TaskRow]
        BY <3>1 DEF OInv, IInv, TypeOK
      <4>2. task' = [task EXCEPT ![h.task].status = "ASSIGNED", ![h.task].provider = h.user]
        BY <3>4 DEF AcceptTask
      <4>3. task'[h.task].status = "ASSIGNED" /\ \A u \in Task : u # h.task => task'[u] = task[u]
        BY <3>1, <4>1, <4>2 DEF TaskRow
      <4> QED
        BY <4>3 DEF Past
    <3>5. CASE SettleTask(h)
      BY <3>1, <3>5 DEF SettleTask, OInv, IInv, TypeOK, TaskRow, Past
    <3> QED
      BY <2>1, <3>2, <3>3, <3>4, <3>5, StatusKept DEF HandlerStep, RequestStep, JobStep, Past
  <2>2. CASE \E m \in msgs : Deliver(m) \/ SyncScore(m)
    BY <2>2, MessagesKeepStatus DEF Past
  <2>3. ASSUME NEW u \in Task, UserRequest(u) \/ External(u)
        PROVE  task'[t].status \notin {"ABSENT", "DRAFT"}
    <3>1. CASE UNCHANGED task
      BY <3>1 DEF Past
    <3>2. CASE CreateTask(u)
      <4>1. u # t
        BY <3>2 DEF CreateTask, Past
      <4> QED
        BY <3>2, <4>1 DEF CreateTask, OInv, IInv, TypeOK, Past
    <3>3. CASE CustomerPays(u)
      BY <3>3, PaymentWritten DEF CustomerPays, Past
    <3> QED
      BY <2>3, <3>1, <3>2, <3>3 DEF UserRequest, CustomerRequest, ProviderRequest, External,
         BeginConfirmDraft, BeginCancelDraft, BeginCancelTask, BeginAdminCancelTask, BeginRespond,
         BeginAccept, BeginStartTask, BeginRequestAdjustment, BeginReview, TellPin, CompleteTask, rowVars
  <2> QED
    BY <2>1, <2>2, <2>3 DEF Next, vars, rowVars, Past
<1>2. ASSUME NEW w \in running' \ running, w.pc = "drop"
      PROVE  w.task # t
  <2>1. PICK u \in Task : UserRequest(u)
    BY <1>2, Follows, JobBegins, OutsideRunsNothing DEF Next, vars, Showing
  <2> QED
    BY <1>2, <2>1, Begins DEF BeginCancelDraft, Past, Responding
<1> QED
    BY <1>1, <1>2 DEF Past, Dropping

\* A provider who was placed on a task stays its provider.
LEMMA PlacedStays ==
    ASSUME OInv, [Next]_vars, NEW t \in Task, Lasting(t)
    PROVE  Lasting(t)' /\ task'[t].provider = task[t].provider
<1>1. \A h \in running : h.task = t => h.pc \notin {"accept", "drop"}
    BY DEF OInv, Order, Lasting, Past, Dropping
<1>2. ASSUME NEW h \in running, HandlerStep(h) \/ Crash(h)
      PROVE  task'[t].provider = task[t].provider
  <2>1. h.task \in Task
    BY Typed DEF OInv
  <2>2. CASE ConfirmDraft(h) \/ CancelTask(h) \/ StartTask(h)
    <3>1. PICK s : SaveStatus(h, s)
      BY <2>2 DEF ConfirmDraft, CancelTask, StartTask
    <3> QED
      BY <3>1, StatusWritten
  <2>3. CASE CancelDraft(h) \/ AcceptTask(h)
    <3>1. h.task # t
      BY <1>1, <2>3 DEF CancelDraft, AcceptTask, At
    <3> QED
      BY <2>1, <2>3, <3>1 DEF CancelDraft, AcceptTask, OInv, IInv, TypeOK
  <2>4. CASE SettleTask(h)
    BY <2>1, <2>4 DEF SettleTask, OInv, IInv, TypeOK, TaskRow
  <2> QED
    BY <1>2, <2>2, <2>3, <2>4, StatusKept DEF HandlerStep, RequestStep, JobStep
<1>3. ASSUME NEW m \in msgs, Deliver(m) \/ SyncScore(m)
      PROVE  task'[t].provider = task[t].provider
    BY <1>3, MessagesKeepStatus
<1>4. ASSUME NEW u \in Task, UserRequest(u) \/ External(u)
      PROVE  task'[t].provider = task[t].provider
  <2>1. CASE UNCHANGED task
    BY <2>1
  <2>2. CASE CreateTask(u)
    BY <2>2 DEF CreateTask, OInv, IInv, TypeOK, TaskRow
  <2>3. CASE CustomerPays(u)
    BY <2>3, PaymentWritten DEF CustomerPays
  <2> QED
    BY <1>4, <2>1, <2>2, <2>3 DEF UserRequest, CustomerRequest, ProviderRequest, External,
       BeginConfirmDraft, BeginCancelDraft, BeginCancelTask, BeginAdminCancelTask, BeginRespond,
       BeginAccept, BeginStartTask, BeginRequestAdjustment, BeginReview, TellPin, CompleteTask, rowVars
<1>5. task'[t].provider = task[t].provider
    BY <1>2, <1>3, <1>4 DEF Next, vars, rowVars
<1> QED
    BY <1>5, PastStays DEF Lasting

\* Who tells a PIN.
LEMMA PinMoves ==
    ASSUME [Next]_vars
    PROVE  UNCHANGED told \/ \E u \in Task, pin \in Pin : TellPin(u, pin) /\ UNCHANGED <<rowVars, running>>
<1>1. \A h \in running : HandlerStep(h) \/ Crash(h) => UNCHANGED told
    BY DEF HandlerStep, RequestStep, JobStep, ReviewStep, Crash, ConfirmDraft, CancelDraft, CancelTask,
       CancelAssignment, CancelReleases, AcceptTask, AcceptAssignment, AcceptDuty, StartTask,
       StartAssignment, RequestAdjustment, ApproveAdjustment, RejectAdjustment, SettleTask,
       SettleProvider, SettlePay, QueuePayout, InsertReview, AddCredibility, ThreeStars, QueueScore,
       RevealOne, RevealDone
<1>2. \A m \in msgs : Deliver(m) \/ SyncScore(m) => UNCHANGED told
    BY DEF Deliver, CompletionJob, PayOnline, PayInCash, SyncScore
<1>3. \A u \in Task : UserRequest(u) => UNCHANGED told
    BY DEF UserRequest, CustomerRequest, ProviderRequest, BeginConfirmDraft, BeginCancelDraft,
       BeginCancelTask, BeginAdminCancelTask, BeginRespond, BeginAccept, BeginStartTask,
       BeginRequestAdjustment, BeginReview
<1>4. \A u \in Task : External(u) => \/ UNCHANGED told
                                     \/ \E pin \in Pin : TellPin(u, pin) /\ UNCHANGED <<rowVars, running>>
    BY DEF External, CreateTask, CustomerPays, CompleteTask, TellPin
<1> QED
    BY <1>1, <1>2, <1>3, <1>4 DEF Next, vars

-----------------------------------------------------------------------------
(***************************************************************************)
(* Cancellation.                                                           *)
(***************************************************************************)
\* Whoever finds the task cancelled writes no other status to it.
LEMMA CancelledStays ==
    ASSUME OInv, [Next]_vars, NEW t \in Task, task[t].status = "CANCELLED",
           \A h \in running : h.task = t => h.row.status = "CANCELLED"
    PROVE  task'[t].status = "CANCELLED"
<1>1. \A h \in running : h.task = t => h.pc \notin {"confirm", "drop", "start", "settle"} \cup Accepting
    BY DEF OInv, Copied
<1>2. ASSUME NEW h \in running, HandlerStep(h) \/ Crash(h)
      PROVE  task'[t].status = "CANCELLED"
  <2>1. h.task \in Task
    BY Typed DEF OInv
  <2>2. CASE ConfirmDraft(h) \/ CancelTask(h) \/ StartTask(h)
    <3>1. PICK s : SaveStatus(h, s) /\ (h.task = t => s = "CANCELLED")
      BY <1>1, <2>2 DEF ConfirmDraft, CancelTask, StartTask, At
    <3> QED
      BY <3>1, StatusWritten
  <2>3. CASE CancelDraft(h) \/ AcceptTask(h) \/ SettleTask(h)
    <3>1. h.task # t
      BY <1>1, <2>3 DEF CancelDraft, AcceptTask, SettleTask, At, Accepting
    <3> QED
      BY <2>1, <2>3, <3>1 DEF CancelDraft, AcceptTask, SettleTask, OInv, IInv, TypeOK
  <2> QED
    BY <1>2, <2>2, <2>3, StatusKept DEF HandlerStep, RequestStep, JobStep
<1>3. CASE \E m \in msgs : Deliver(m) \/ SyncScore(m)
    BY <1>3, MessagesKeepStatus
<1>4. ASSUME NEW u \in Task, UserRequest(u) \/ External(u)
      PROVE  task'[t].status = "CANCELLED"
  <2>1. CASE UNCHANGED task
    BY <2>1
  <2>2. CASE CreateTask(u)
    <3>1. u # t
      BY <2>2 DEF CreateTask
    <3> QED
      BY <2>2, <3>1 DEF CreateTask, OInv, IInv, TypeOK
  <2>3. CASE CustomerPays(u)
    BY <2>3, PaymentWritten DEF CustomerPays
  <2> QED
    BY <1>4, <2>1, <2>2, <2>3 DEF UserRequest, CustomerRequest, ProviderRequest, External,
       BeginConfirmDraft, BeginCancelDraft, BeginCancelTask, BeginAdminCancelTask, BeginRespond,
       BeginAccept, BeginStartTask, BeginRequestAdjustment, BeginReview, TellPin, CompleteTask, rowVars
<1> QED
    BY <1>2, <1>3, <1>4 DEF Next, vars, rowVars

\* A cancellation is final: a request that loads the task after it was
\* cancelled brings it back under no interleaving, for any tasks,
\* providers and bounds.
THEOREM CancellationIsFinal == Spec => CancelledIsFinal
<1>1. OInv /\ [Next]_vars =>
          [\A t \in Task :
             /\ task[t].status = "CANCELLED"
             /\ \A h \in running : h.task = t => h.row.status = "CANCELLED"
             => task'[t].status = "CANCELLED"]_vars
    BY CancelledStays
<1> QED
    BY <1>1, AlwaysOInv, PTL DEF Spec, CancelledIsFinal

-----------------------------------------------------------------------------
(***************************************************************************)
(* The score.                                                              *)
(***************************************************************************)
\* Whoever has been told a PIN remains the provider.
LEMMA ProviderStays ==
    ASSUME OInv, [Next]_vars, NEW t \in Task, told[t] # {}
    PROVE  task'[t].provider = task[t].provider
BY Rows, PlacedStays DEF OInv, TaskOK

\* The requests and the outside leave scores alone and only add to what runs.
LEMMA RequestsAdd ==
    ASSUME NEW t \in Task, UserRequest(t) \/ External(t)
    PROVE  running \subseteq running' /\ msgs \subseteq msgs' /\ UNCHANGED <<unscored, crashes>>
<1>1. CASE External(t)
    BY <1>1 DEF External, CreateTask, CustomerPays, TellPin, CompleteTask, repVars, boundVars
<1>2. CASE UserRequest(t)
    BY <1>2 DEF UserRequest, CustomerRequest, ProviderRequest, BeginConfirmDraft, BeginCancelDraft,
       BeginCancelTask, BeginAdminCancelTask, BeginRespond, BeginAccept, BeginStartTask,
       BeginRequestAdjustment, BeginReview, repVars, boundVars, Load, Run, Counted
<1> QED
    BY <1>1, <1>2

\* What a step takes out of msgs and running, and what it adds to unscored.
LEMMA HandlersLeave ==
    ASSUME NEW h \in running, HandlerStep(h)
    PROVE  /\ running \ {h} \subseteq running' /\ msgs \subseteq msgs' /\ UNCHANGED crashes
           /\ h.pc = "settle_pay" => SettlePay(h)
           /\ h.pc = "notify_score" => QueueScore(h)
           /\ UNCHANGED unscored \/ SettleProvider(h) \/ AddCredibility(h)
<1>1. CASE RequestStep(h)
    BY <1>1 DEF RequestStep, ConfirmDraft, CancelDraft, CancelTask, CancelAssignment, CancelReleases,
       AcceptTask, AcceptAssignment, AcceptDuty, StartTask, StartAssignment, RequestAdjustment,
       ApproveAdjustment, RejectAdjustment, At, Finish, Goto, Become, Refreshed, repVars, boundVars
<1>2. CASE JobStep(h)
    BY <1>2 DEF JobStep, SettleTask, SettleProvider, SettlePay, QueuePayout, At, Finish, Goto, Become,
       repVars, boundVars
<1>3. CASE ReviewStep(h)
    BY <1>3 DEF ReviewStep, InsertReview, AddCredibility, ThreeStars, QueueScore, RevealOne, RevealDone,
       MaybeReveal, At, Finish, Goto, Become, repVars, boundVars
<1> QED
    BY <1>1, <1>2, <1>3 DEF HandlerStep

LEMMA MessagesLeave ==
    ASSUME NEW m \in msgs, Deliver(m) \/ SyncScore(m)
    PROVE  /\ running \subseteq running' /\ msgs' = msgs \ {m} /\ UNCHANGED crashes
           /\ m.kind = "score" => unscored' = unscored \ {m.user}
           /\ m.kind # "score" => UNCHANGED unscored
BY DEF Deliver, SyncScore, CompletionJob, PayOnline, PayInCash, Run, repVars, boundVars

Due(h, u) ==
    \/ h.pc = "settle_pay" /\ h.user = u
    \/ h.pc = "notify_score" /\ Reviewee(h.task, h.user) = u

LEMMA Reviewees ==
    ASSUME OInv, [Next]_vars, NEW h \in running, h.pc \in Reviewing
    PROVE  Reviewee(h.task, h.user)' = Reviewee(h.task, h.user)
<1>1. h.task \in Task /\ told[h.task] = Pin
    BY Typed DEF OInv, HandlerOK
<1> QED
    BY <1>1, ProviderStays DEF Reviewee, Pin

\* What is due stays due until it is queued.
LEMMA DueStays ==
    ASSUME OInv, [Next]_vars, crashes' = 0, NEW u, NEW h \in running, Due(h, u)
    PROVE  Score(u) \in msgs' \/ \E g \in running' : Due(g, u)'
<1>1. CASE h \in running'
    BY <1>1, Reviewees DEF Due, Reviewing
<1>2. CASE h \notin running'
  <2>1. HandlerStep(h)
    <3>1. ~ Crash(h)
      BY DEF Crash, OInv, IInv, TypeOK
    <3>2. ASSUME NEW g \in running, HandlerStep(g) \/ Crash(g)
          PROVE  g = h
      BY <1>2, <3>2, HandlersLeave DEF Crash, Finish
    <3> QED
      BY <1>2, <3>1, <3>2, MessagesLeave, RequestsAdd DEF Next, vars
  <2>2. SettlePay(h) \/ QueueScore(h)
    BY <2>1, HandlersLeave DEF Due
  <2>3. CASE SettlePay(h)
    BY <2>3 DEF SettlePay, At, Due
  <2>4. CASE QueueScore(h)
    BY <2>4 DEF QueueScore, At, Due
  <2> QED
    BY <2>2, <2>3, <2>4
<1> QED
    BY <1>1, <1>2

\* Who has a new entry has an update due.
LEMMA EntryIsDue ==
    ASSUME OInv, [Next]_vars, NEW h \in running, NEW u \in unscored',
           SettleProvider(h) \/ AddCredibility(h), u \notin unscored
    PROVE  \E g \in running' : Due(g, u)'
<1>1. h \in HandlerRow
    BY Typed DEF OInv
<1>2. CASE SettleProvider(h)
  <2>1. PICK w : w = [h EXCEPT !.pc = "settle_pay"]
    OBVIOUS
  <2>2. w.pc = "settle_pay" /\ w.user = h.user /\ w \in running'
    BY <1>1, <1>2, <2>1, Leaves DEF SettleProvider, Goto, Become
  <2>3. u = h.user
    BY <1>2 DEF SettleProvider
  <2> QED
    BY <2>2, <2>3 DEF Due
<1>3. CASE AddCredibility(h)
  <2>1. PICK w : w = [h EXCEPT !.pc = "notify_score"]
    OBVIOUS
  <2>2. w.pc = "notify_score" /\ w.user = h.user /\ w.task = h.task /\ w \in running'
    BY <1>1, <1>3, <2>1, Leaves DEF AddCredibility, Goto, Become
  <2>3. u = Reviewee(h.task, h.user)
    BY <1>3 DEF AddCredibility
  <2>4. Reviewee(h.task, h.user)' = u
    BY <1>3, <2>3, Reviewees DEF AddCredibility, At, Reviewing
  <2> QED
    BY <2>2, <2>4 DEF Due
<1> QED
    BY <1>2, <1>3

LEMMA ScoreKept ==
    ASSUME OInv, [Next]_vars, ScoreFollowsLedger
    PROVE  ScoreFollowsLedger'
<1>1. \A u : Score(u).kind = "score" /\ Score(u).user = u
    BY DEF Score
<1>2. crashes' = 0 => crashes = 0
    BY HandlersLeave, MessagesLeave, RequestsAdd DEF Next, vars, boundVars, Crash, OInv, IInv, TypeOK
<1>3. ASSUME crashes' = 0, NEW u \in unscored'
      PROVE  Score(u) \in msgs' \/ \E g \in running' : Due(g, u)'
  <2>1. CASE u \in unscored
    <3>1. Score(u) \in msgs \/ \E h \in running : Due(h, u)
      BY <1>2, <1>3, <2>1 DEF ScoreFollowsLedger, Due
    <3>2. CASE Score(u) \in msgs
      <4>1. \A m \in msgs : Deliver(m) \/ SyncScore(m) => Score(u) \in msgs'
        BY <1>1, <1>3, <3>2, MessagesLeave
      <4> QED
        BY <3>2, <4>1, HandlersLeave, RequestsAdd DEF Next, vars, Crash
    <3>3. CASE \E h \in running : Due(h, u)
      BY <1>3, <3>3, DueStays
    <3> QED
      BY <3>1, <3>2, <3>3
  <2>2. CASE u \notin unscored
    <3>1. \E h \in running : SettleProvider(h) \/ AddCredibility(h)
      BY <1>3, <2>2, HandlersLeave, MessagesLeave, RequestsAdd DEF Next, vars, repVars, Crash
    <3> QED
      BY <1>3, <2>2, <3>1, EntryIsDue
  <2> QED
    BY <2>1, <2>2
<1> QED
  <2>1. \A u, g : Due(g, u)' <=> \/ g.pc = "settle_pay" /\ g.user = u
                                 \/ g.pc = "notify_score" /\ Reviewee(g.task, g.user)' = u
    BY DEF Due
  <2>2. \A u : Score(u)' = Score(u)
    BY DEF Score
  <2> QED
    BY <1>3, <2>1, <2>2 DEF ScoreFollowsLedger

\* As long as no worker dies, no entry of the ledger is left out of the
\* score, for any tasks, providers and bounds.
THEOREM ScoreIsComplete == Spec => []ScoreFollowsLedger
<1>1. Init => ScoreFollowsLedger
    BY DEF Init, ScoreFollowsLedger
<1> QED
    BY <1>1, ScoreKept, AlwaysOInv, PTL DEF Spec

-----------------------------------------------------------------------------
(***************************************************************************)
(* Reviews.                                                                *)
(***************************************************************************)
Blind(t) ==
    /\ \A u \in User : review[t][u] # "none" => told[t] = Pin
    /\ \A u \in User : review[t][u] = "visible" => BothReviewed(t)
    /\ crashes = 0 /\ told[t] = Pin /\ BothReviewed(t) => Hidden(t) = {} \/ Running(t, Showing)

Shows(h) == h.pc = "reveal_row" => BothReviewed(h.task)

BInv ==
    /\ OInv
    /\ \A t \in Task : Blind(t)
    /\ \A h \in running : Shows(h)

LEMMA PinsKept ==
    ASSUME OInv, [Next]_vars, NEW t \in Task, told[t] = Pin
    PROVE  told'[t] = Pin
<1>1. told'[t] \subseteq Pin
    BY Stepping DEF OInv, IInv, TypeOK
<1>2. told[t] \subseteq told'[t]
    BY PinMoves DEF TellPin, OInv, IInv, TypeOK
<1> QED
    BY <1>1, <1>2

\* Reviews change in two steps only.
LEMMA ReviewFrame ==
    ASSUME [Next]_vars
    PROVE  UNCHANGED review \/ \E h \in running : InsertReview(h) \/ RevealOne(h)
<1>1. \A h \in running : HandlerStep(h) \/ Crash(h) => UNCHANGED review \/ InsertReview(h) \/ RevealOne(h)
  <2>1. ASSUME NEW h \in running, RequestStep(h)
        PROVE  UNCHANGED review
    BY <2>1 DEF RequestStep, ConfirmDraft, CancelDraft, CancelTask, CancelAssignment,
       CancelReleases, AcceptTask, AcceptAssignment, AcceptDuty, StartTask, StartAssignment,
       RequestAdjustment, ApproveAdjustment, RejectAdjustment, repVars
  <2>2. ASSUME NEW h \in running, JobStep(h) \/ ReviewStep(h) \/ Crash(h)
        PROVE  UNCHANGED review \/ InsertReview(h) \/ RevealOne(h)
    BY <2>2 DEF JobStep, SettleTask, SettleProvider, SettlePay, QueuePayout, ReviewStep,
       AddCredibility, ThreeStars, QueueScore, RevealDone, Crash, repVars
  <2> QED
    BY <2>1, <2>2 DEF HandlerStep
<1>2. \A m \in msgs : Deliver(m) \/ SyncScore(m) => UNCHANGED review
    BY DEF Deliver, CompletionJob, PayOnline, PayInCash, SyncScore, repVars
<1>3. \A u \in Task : UserRequest(u) => UNCHANGED review
    BY DEF UserRequest, CustomerRequest, ProviderRequest, BeginConfirmDraft, BeginCancelDraft,
       BeginCancelTask, BeginAdminCancelTask, BeginRespond, BeginAccept, BeginStartTask,
       BeginRequestAdjustment, BeginReview, repVars
<1>4. \A u \in Task : External(u) => UNCHANGED review
    BY DEF External, CreateTask, CustomerPays, CompleteTask, TellPin, repVars
<1> QED
    BY <1>1, <1>2, <1>3, <1>4 DEF Next, vars, repVars

\* A review is never withdrawn.
LEMMA ReviewsStay ==
    ASSUME OInv, [Next]_vars, NEW t \in Task, NEW u \in User, review[t][u] # "none"
    PROVE  review'[t][u] # "none"
<1>1. ASSUME NEW h \in running, InsertReview(h) \/ RevealOne(h)
      PROVE  review'[t][u] # "none"
  <2>1. PICK v \in User \cup {NoProvider}, s \in {"hidden", "visible"} :
            review' = [review EXCEPT ![h.task][v] = s]
    BY <1>1, Typed DEF InsertReview, RevealOne, Hidden, OInv
  <2>2. review \in [Task -> [User -> {"none", "hidden", "visible"}]]
    BY DEF OInv, IInv, TypeOK
  <2>3. CASE t = h.task
    BY <2>1, <2>2, <2>3
  <2>4. CASE t # h.task
    BY <2>1, <2>2, <2>4
  <2> QED
    BY <2>3, <2>4
<1> QED
    BY <1>1, ReviewFrame

LEMMA BothStay ==
    ASSUME OInv, [Next]_vars, NEW t \in Task, told[t] = Pin
    PROVE  /\ BothReviewed(t) => BothReviewed(t)'
           /\ UNCHANGED review => (BothReviewed(t)' <=> BothReviewed(t))
<1>1. Participants(t)' = Participants(t)
    BY ProviderStays DEF Participants, Pin
<1>2. HasReviewed(t) \subseteq HasReviewed(t)'
    BY ReviewsStay DEF HasReviewed
<1>3. UNCHANGED review => HasReviewed(t)' = HasReviewed(t)
    BY DEF HasReviewed
<1> QED
    BY <1>1, <1>2, <1>3 DEF BothReviewed

\* What a handler does that is about to show the reviews.
LEMMA ShowingLeaves ==
    ASSUME OInv, [Next]_vars, NEW h \in running, h.pc \in Showing, h \notin running', crashes' = 0
    PROVE  /\ UNCHANGED review
           /\ \/ \E g \in running' : g.task = h.task /\ g.pc \in Showing
              \/ ~ BothReviewed(h.task)
              \/ Hidden(h.task) = {}
<1>1. h \in HandlerRow
    BY Typed DEF OInv
<1>2. HandlerStep(h)
  <2>1. ~ Crash(h)
    BY DEF Crash, OInv, IInv, TypeOK
  <2>2. ASSUME NEW g \in running, HandlerStep(g) \/ Crash(g)
        PROVE  g = h
    BY <2>2, HandlersLeave DEF Crash, Finish
  <2> QED
    BY <2>1, <2>2, MessagesLeave, RequestsAdd DEF Next, vars
<1>3. AddCredibility(h) \/ ThreeStars(h) \/ QueueScore(h) \/ RevealDone(h)
  <2>1. ReviewStep(h)
    BY <1>2 DEF HandlerStep, RequestStep, ConfirmDraft, CancelDraft, CancelTask, CancelAssignment,
       CancelReleases, AcceptTask, AcceptAssignment, AcceptDuty, StartTask, StartAssignment,
       RequestAdjustment, ApproveAdjustment, RejectAdjustment, JobStep, SettleTask, SettleProvider,
       SettlePay, QueuePayout, At, Showing
  <2> QED
    BY <2>1 DEF ReviewStep, InsertReview, RevealOne, At, Showing
<1>4. UNCHANGED review
    BY <1>3 DEF AddCredibility, ThreeStars, QueueScore, RevealDone, repVars
<1>5. PICK label : /\ Goto(h, label) /\ label \in Showing
                   \/ ~ BothReviewed(h.task)
                   \/ Hidden(h.task) = {}
    BY <1>3 DEF AddCredibility, ThreeStars, QueueScore, RevealDone, MaybeReveal, Showing
<1>6. PICK w : w = [h EXCEPT !.pc = label]
    OBVIOUS
<1>7. w.pc = label /\ w.task = h.task
    BY <1>1, <1>6, Leaves
<1> QED
    BY <1>4, <1>5, <1>6, <1>7 DEF Goto, Become

LEMMA Turns ==
    ASSUME OInv, NEW h \in running, HandlerStep(h) \/ Crash(h), NEW w \in running' \ running,
           w.pc = "reveal_row"
    PROVE  w.task = h.task /\ (ThreeStars(h) \/ QueueScore(h))
<1>1. h \in HandlerRow
    BY Typed DEF OInv
<1>2. CASE RequestStep(h) \/ JobStep(h) \/ Crash(h)
  <2>1. PICK label : label # "reveal_row" /\ (Finish(h) \/ Goto(h, label) \/ Refreshed(h, label))
    <3>1. CASE RequestStep(h)
      <4>1. ConfirmDraft(h) \/ CancelDraft(h) \/ CancelReleases(h) \/ AcceptDuty(h)
            \/ StartAssignment(h) \/ RequestAdjustment(h) \/ ApproveAdjustment(h) \/ RejectAdjustment(h)
            => Finish(h)
        BY DEF ConfirmDraft, CancelDraft, CancelReleases, AcceptDuty, StartAssignment,
           RequestAdjustment, ApproveAdjustment, RejectAdjustment
      <4>2. CancelTask(h) => Finish(h) \/ Refreshed(h, "cancel_row")
        BY DEF CancelTask
      <4>3. StartTask(h) => Refreshed(h, "start_row")
        BY DEF StartTask
      <4>4. CancelAssignment(h) => Finish(h) \/ Goto(h, "cancel_duty")
        BY DEF CancelAssignment
      <4>5. AcceptTask(h) => Goto(h, "accept_row")
        BY DEF AcceptTask
      <4>6. AcceptAssignment(h) => Goto(h, "accept_duty")
        BY DEF AcceptAssignment
      <4>7. "cancel_row" # "reveal_row" /\ "start_row" # "reveal_row" /\ "cancel_duty" # "reveal_row"
            /\ "accept_row" # "reveal_row" /\ "accept_duty" # "reveal_row"
        OBVIOUS
      <4> QED
        BY <3>1, <4>1, <4>2, <4>3, <4>4, <4>5, <4>6, <4>7, Zenon DEF RequestStep
    <3>2. CASE JobStep(h) \/ Crash(h)
      BY <3>2 DEF JobStep, SettleTask, SettleProvider, SettlePay, QueuePayout, Crash
    <3> QED
      BY <1>2, <3>1, <3>2
  <2>2. PICK x : x = [h EXCEPT !.pc = label, !.row = Copy(task'[h.task]), !.asg = assignment[h.task]]
    OBVIOUS
  <2>3. PICK y : y = [h EXCEPT !.pc = label]
    OBVIOUS
  <2>4. w = x \/ w = y
    BY <2>1, <2>2, <2>3 DEF Finish, Goto, Refreshed, Become
  <2>5. x.pc = label /\ y.pc = label
    BY <1>1, <2>2, <2>3 DEF HandlerRow
  <2> QED
    BY <2>1, <2>4, <2>5
<1>3. CASE ReviewStep(h)
  <2>1. PICK label : /\ Finish(h) \/ Goto(h, label) \/ UNCHANGED running
                     /\ label = "reveal_row" => ThreeStars(h) \/ QueueScore(h)
    BY <1>3 DEF ReviewStep, InsertReview, AddCredibility, ThreeStars, QueueScore, RevealOne, RevealDone,
       MaybeReveal
  <2>2. PICK y : y = [h EXCEPT !.pc = label]
    OBVIOUS
  <2>3. w = y
    BY <2>1, <2>2 DEF Finish, Goto, Become
  <2> QED
    BY <1>1, <2>1, <2>2, <2>3, Leaves
<1> QED
    BY <1>2, <1>3 DEF HandlerStep

\* Who comes to show reviews has seen both.
LEMMA ShowsLater ==
    ASSUME OInv, [Next]_vars, NEW w \in running' \ running, w.pc = "reveal_row"
    PROVE  w.task \in Task /\ told[w.task] = Pin /\ BothReviewed(w.task)
<1>1. PICK h \in running : HandlerStep(h) \/ Crash(h)
  <2>1. \A t \in Task : ~ UserRequest(t)
    BY RequestOrdered, DraftOrdered, AcceptOrdered DEF UserRequest, CustomerRequest, ProviderRequest
  <2>2. \A t \in Task : ~ External(t)
    BY DEF External, CreateTask, CustomerPays, TellPin, CompleteTask
  <2> QED
    BY <2>1, <2>2, MessageOrdered DEF Next, vars
<1>2. w.task = h.task /\ (ThreeStars(h) \/ QueueScore(h))
    BY <1>1, Turns
<1>3. h.task \in Task /\ told[h.task] = Pin
    BY <1>2, Typed DEF OInv, HandlerOK, ThreeStars, QueueScore, At, Reviewing
<1>4. BothReviewed(h.task)
    BY <1>2 DEF ThreeStars, QueueScore, MaybeReveal, Finish
<1> QED
    BY <1>2, <1>3, <1>4

\* A review is in, or is being shown, only after the task was completed in
\* front of its customer.
LEMMA OneIsKept ==
    ASSUME BInv, [Next]_vars, NEW t \in Task, NEW u \in User
    PROVE  /\ review'[t][u] # "none" => told[t] = Pin
           /\ review'[t][u] = "visible" => BothReviewed(t)'
<1>1. CASE UNCHANGED review
    BY <1>1, BothStay DEF BInv, Blind
<1>2. ASSUME NEW h \in running, InsertReview(h) \/ RevealOne(h)
      PROVE  /\ review'[t][u] # "none" => told[t] = Pin
             /\ review'[t][u] = "visible" => BothReviewed(t)'
  <2>1. h.task \in Task /\ told[h.task] = Pin
    BY <1>2, Typed DEF BInv, OInv, HandlerOK, InsertReview, RevealOne, At, Reviewing
  <2>2. PICK v \in User \cup {NoProvider}, s \in {"hidden", "visible"} :
            /\ review' = [review EXCEPT ![h.task][v] = s]
            /\ s = "visible" => h.pc = "reveal_row"
    BY <1>2, Typed DEF InsertReview, RevealOne, At, Hidden, BInv, OInv
  <2>3. review \in [Task -> [User -> {"none", "hidden", "visible"}]]
    BY DEF BInv, OInv, IInv, TypeOK
  <2>4. \/ review'[t][u] = review[t][u]
        \/ t = h.task /\ review'[t][u] = s
    <3>1. CASE t = h.task
      BY <2>2, <2>3, <3>1
    <3>2. CASE t # h.task
      BY <2>2, <2>3, <3>2
    <3> QED
      BY <3>1, <3>2
  <2>5. s = "visible" => BothReviewed(h.task)
    BY <2>2 DEF BInv, Shows
  <2> QED
    BY <2>1, <2>4, <2>5, BothStay DEF BInv, Blind
<1> QED
    BY <1>1, <1>2, ReviewFrame

\* Whoever completes the pair goes on to show it.
LEMMA PairIsShown ==
    ASSUME BInv, [Next]_vars, NEW t \in Task, crashes' = 0, told'[t] = Pin, BothReviewed(t)'
    PROVE  Hidden(t)' = {} \/ Running(t, Showing)'
<1>1. CASE \E h \in running : InsertReview(h) /\ h.task = t
  <2>1. PICK h \in running : InsertReview(h) /\ h.task = t
    BY <1>1
  <2>2. PICK w : w = [h EXCEPT !.pc = "ledger"]
    OBVIOUS
  <2>3. w.pc = "ledger" /\ w.task = t /\ w \in running'
    BY <2>1, <2>2, Typed, Leaves DEF BInv, OInv, InsertReview, Goto, Become
  <2> QED
    BY <2>3 DEF Running, Showing
<1>2. CASE ~ \E h \in running : InsertReview(h) /\ h.task = t
  <2>1. Hidden(t)' \subseteq Hidden(t) /\ HasReviewed(t)' = HasReviewed(t)
    <3>1. CASE UNCHANGED review
      BY <3>1 DEF Hidden, HasReviewed
    <3>2. ASSUME NEW h \in running, InsertReview(h), h.task # t
          PROVE  review'[t] = review[t]
      BY <3>2 DEF InsertReview, BInv, OInv, IInv, TypeOK
    <3>3. ASSUME NEW h \in running, RevealOne(h)
          PROVE  \A u \in User : \/ review'[t][u] = review[t][u]
                                 \/ u \in Hidden(t) /\ review'[t][u] = "visible"
      <4>1. PICK v \in Hidden(h.task) : review' = [review EXCEPT ![h.task][v] = "visible"]
        BY <3>3 DEF RevealOne
      <4>2. review \in [Task -> [User -> {"none", "hidden", "visible"}]]
        BY DEF BInv, OInv, IInv, TypeOK
      <4>3. CASE t = h.task
        BY <4>1, <4>2, <4>3
      <4>4. CASE t # h.task
        BY <4>1, <4>2, <4>4
      <4> QED
        BY <4>3, <4>4
    <3> QED
      BY <1>2, <3>1, <3>2, <3>3, ReviewFrame DEF Hidden, HasReviewed
  <2>2. CASE told[t] # Pin
    <3>1. \A u \in User : review[t][u] = "none"
      BY <2>2 DEF BInv, Blind
    <3> QED
      BY <2>1, <3>1 DEF Hidden
  <2>3. CASE told[t] = Pin
    <3>1. crashes = 0
      BY HandlersLeave, MessagesLeave, RequestsAdd DEF Next, vars, boundVars, Crash, BInv, OInv, IInv, TypeOK
    <3>2. BothReviewed(t)
      <4>1. Participants(t)' = Participants(t)
        BY <2>3, ProviderStays DEF Participants, Pin, BInv
      <4> QED
        BY <2>1, <4>1 DEF BothReviewed
    <3>3. CASE Hidden(t) = {}
      BY <2>1, <3>3
    <3>4. ASSUME NEW h \in running, h.task = t, h.pc \in Showing
          PROVE  Hidden(t)' = {} \/ Running(t, Showing)'
      <4>1. CASE h \in running'
        BY <3>4, <4>1 DEF Running
      <4>2. CASE h \notin running'
        BY <2>1, <3>2, <3>4, <4>2, ShowingLeaves DEF BInv, Running
      <4> QED
        BY <4>1, <4>2
    <3> QED
      BY <2>3, <3>1, <3>2, <3>3, <3>4 DEF BInv, Blind, Running
  <2> QED
    BY <2>2, <2>3
<1> QED
    BY <1>1, <1>2

LEMMA BlindKept ==
    ASSUME BInv, OInv', [Next]_vars
    PROVE  BInv'
<1>1. ASSUME NEW t \in Task
      PROVE  Blind(t)'
  <2>1. told[t] = Pin => told'[t] = Pin
    BY PinsKept DEF BInv
  <2> QED
    BY <2>1, OneIsKept, PairIsShown DEF Blind
<1>2. ASSUME NEW w \in running'
      PROVE  Shows(w)'
  <2>1. CASE w \in running
    BY <2>1, Typed, BothStay DEF BInv, OInv, Shows, HandlerOK, Reviewing
  <2>2. CASE w \notin running
    BY <2>2, ShowsLater, BothStay DEF BInv, Shows
  <2> QED
    BY <2>1, <2>2
<1> QED
    BY <1>1, <1>2 DEF BInv

\* Reviews are double-blind, and once both are in both are shown, whichever
\* way submissions interleave, for any tasks, providers and bounds.
THEOREM ReviewsAreDoubleBlind == Spec => []DoubleBlind
<1>1. Init /\ OInv => BInv
    BY DEF Init, BInv, Blind, Shows, Hidden
<1>2. BInv => DoubleBlind
  <2> SUFFICES ASSUME BInv, NEW t \in Task
               PROVE  /\ \A u \in User : t \in GetReviewsForUser(u) => BothReviewed(t)
                      /\ task[t].status = "COMPLETED" /\ BothReviewed(t) /\ crashes = 0 =>
                             Hidden(t) = {} \/ Running(t, {"ledger", "notify_score", "reveal_row"})
    BY DEF DoubleBlind
  <2>1. task[t].status = "COMPLETED" => told[t] = Pin
    BY DEF BInv, OInv, IInv, TaskOK
  <2> QED
    BY <2>1 DEF BInv, Blind, GetReviewsForUser, GetReviewsForTask, Showing
<1> QED
    BY <1>1, <1>2, BlindKept, AlwaysOInv, PTL DEF Spec

-----------------------------------------------------------------------------
(***************************************************************************)
(* The price.  At most one adjustment is pending, the last one, and nobody *)
(* asks for another meanwhile; so whoever approves it still has the price  *)
(* of the task, and the commit writes what was agreed.                     *)
(***************************************************************************)
AgreedPrices(t) == {Estimate} \cup {adjustments[t][k].amount : k \in Agreed(t)}

PriceOK(t) ==
    /\ IF Agreed(t) = {} THEN task[t].price = Estimate
       ELSE \E k \in Agreed(t) : /\ \A j \in Agreed(t) : j <= k
                                 /\ task[t].price = adjustments[t][k].amount
    /\ payout[t] \subseteq AgreedPrices(t)
    /\ \A k \in Pending(t) : k = Len(adjustments[t])
    /\ Len(adjustments[t]) # 0 => Lasting(t)

PricedOK(h) ==
    /\ h.pc = "pay_queue" => h.row.price \in AgreedPrices(h.task)
    /\ h.pc = "ask" => Pending(h.task) = {} /\ Lasting(h.task) /\ h.user = task[h.task].provider
    /\ h.pc \in Responding => /\ h.k \in Pending(h.task)
                              /\ h.row.price = task[h.task].price
                              /\ h.user = Customer

OneAtATime(labels) ==
    \A g, h \in running : g.pc \in labels /\ h.pc \in labels /\ g.task = h.task => g = h

PriceInv ==
    /\ OInv
    /\ \A t \in Task : PriceOK(t)
    /\ \A h \in running : PricedOK(h)
    /\ OneAtATime({"ask"}) /\ OneAtATime(Responding)

\* The labels that a price depends on.
Pricing == {"pay_queue", "ask"} \cup Responding

LEMMA PriceAgreed ==
    ASSUME OInv, NEW t \in Task, PriceOK(t)
    PROVE  task[t].price \in AgreedPrices(t)
BY DEF PriceOK, AgreedPrices

\* A task whose price, adjustments and payout stay.
LEMMA PriceStays ==
    ASSUME PriceInv, [Next]_vars, NEW t \in Task,
           task'[t].price = task[t].price, adjustments'[t] = adjustments[t],
           payout'[t] \subseteq AgreedPrices(t)
    PROVE  /\ PriceOK(t)' /\ Pending(t)' = Pending(t) /\ AgreedPrices(t)' = AgreedPrices(t)
           /\ \A h \in running : h.task = t /\ PricedOK(h) => PricedOK(h)'
<1>1. Agreed(t)' = Agreed(t) /\ Pending(t)' = Pending(t)
    BY DEF Agreed, Pending
<1>2. AgreedPrices(t)' = AgreedPrices(t)
    BY <1>1 DEF AgreedPrices
<1>3. Lasting(t) => Lasting(t)' /\ task'[t].provider = task[t].provider
    BY PlacedStays DEF PriceInv
<1>4. PriceOK(t)
    BY DEF PriceInv
<1>5. PriceOK(t)'
    BY <1>1, <1>2, <1>3, <1>4 DEF PriceOK
<1>6. ASSUME NEW h \in running, h.task = t, PricedOK(h)
      PROVE  PricedOK(h)'
    BY <1>1, <1>2, <1>3, <1>6 DEF PricedOK
<1> QED
    BY <1>1, <1>2, <1>5, <1>6

\* A step that only runs handlers to whom prices do not matter.
LEMMA PriceFrame ==
    ASSUME PriceInv, OInv', [Next]_vars,
           \A t \in Task : /\ task'[t].price = task[t].price /\ adjustments'[t] = adjustments[t]
                           /\ payout'[t] \subseteq AgreedPrices(t),
           \A w \in running' \ running : w.pc \notin Pricing
    PROVE  PriceInv'
<1>1. \A t \in Task : PriceOK(t)'
    BY PriceStays
<1>2. ASSUME NEW h \in running'
      PROVE  PricedOK(h)'
  <2>1. CASE h \in running
    BY <2>1, PriceStays, Typed DEF PriceInv, OInv
  <2>2. CASE h \notin running
    BY <2>2 DEF PricedOK, Pricing
  <2> QED
    BY <2>1, <2>2
<1>3. OneAtATime({"ask"})' /\ OneAtATime(Responding)'
  <2>1. \A h \in running' : h.pc = "ask" \/ h.pc \in Responding => h \in running
    BY DEF Pricing
  <2> QED
    BY <2>1 DEF PriceInv, OneAtATime
<1> QED
    BY <1>1, <1>2, <1>3 DEF PriceInv

\* Nothing was asked for a task that is only a draft.
LEMMA DraftPrice ==
    ASSUME PriceInv, NEW t \in Task, ~Lasting(t)
    PROVE  task[t].price = Estimate
<1>1. adjustments[t] \in Seq(Adjustment) /\ Len(adjustments[t]) = 0
    BY DEF PriceInv, PriceOK, OInv, IInv, TypeOK
<1>2. Agreed(t) = {}
    BY <1>1 DEF Agreed
<1> QED
    BY <1>2 DEF PriceInv, PriceOK

LEMMA PaymentCosts ==
    ASSUME OInv, NEW t \in Task, NEW p, task' = [task EXCEPT ![t].payment = p]
    PROVE  \A u \in Task : task'[u].price = task[u].price
BY DEF OInv, IInv, TypeOK, TaskRow

LEMMA PricelessHandler ==
    ASSUME PriceInv, OInv', [Next]_vars, NEW h \in running, HandlerStep(h) \/ Crash(h),
           ~ RequestAdjustment(h), ~ ApproveAdjustment(h), ~ RejectAdjustment(h)
    PROVE  PriceInv'
<1>1. h.task \in Task /\ task \in [Task -> TaskRow] /\ task[h.task] \in TaskRow
    BY Typed DEF PriceInv, OInv, IInv, TypeOK
<1>2. \A w \in running' \ running : w.pc \notin Pricing
    BY Follows DEF PriceInv, Pricing, Responding, Showing
<1>3. UNCHANGED adjustments
    BY DEF HandlerStep, RequestStep, JobStep, ReviewStep, Crash, ConfirmDraft, CancelDraft, CancelTask,
       CancelAssignment, CancelReleases, AcceptTask, AcceptAssignment, AcceptDuty, StartTask,
       StartAssignment, SettleTask, SettleProvider, SettlePay, QueuePayout, InsertReview,
       AddCredibility, ThreeStars, QueueScore, RevealOne, RevealDone, rowVars
<1>4. \A t \in Task : task'[t].price = task[t].price
  <2>1. CASE UNCHANGED task
    BY <2>1
  <2>2. CASE ConfirmDraft(h) \/ CancelTask(h) \/ StartTask(h)
    <3>1. PICK s : SaveStatus(h, s)
      BY <2>2 DEF ConfirmDraft, CancelTask, StartTask
    <3>2. PICK new : new = Written(h.row.status, task[h.task].status, s)
      OBVIOUS
    <3>3. task' = [task EXCEPT ![h.task].status = new]
      BY <3>1, <3>2 DEF SaveStatus
    <3> QED
      BY <1>1, <3>3 DEF TaskRow
  <2>3. CASE CancelDraft(h)
    <3>1. ~Lasting(h.task)
      BY <2>3 DEF CancelDraft, At, Lasting, Past, Dropping
    <3>2. task[h.task].price = Estimate
      BY <1>1, <3>1, DraftPrice
    <3>3. NewTask.price = Estimate
      BY DEF NewTask
    <3>4. \A t \in Task : task'[t] = IF t = h.task THEN NewTask ELSE task[t]
      BY <1>1, <2>3 DEF CancelDraft
    <3> QED
      BY <3>2, <3>3, <3>4
  <2>4. CASE AcceptTask(h)
    BY <1>1, <2>4 DEF AcceptTask, TaskRow
  <2>5. CASE SettleTask(h)
    BY <1>1, <2>5 DEF SettleTask, TaskRow
  <2> QED
    BY <2>1, <2>2, <2>3, <2>4, <2>5 DEF HandlerStep, RequestStep, JobStep, ReviewStep, Crash,
       CancelAssignment, CancelReleases, AcceptAssignment, AcceptDuty, StartAssignment, SettleProvider,
       SettlePay, QueuePayout, InsertReview, AddCredibility, ThreeStars, QueueScore, RevealOne, RevealDone,
       rowVars
<1>5. \A t \in Task : payout'[t] \subseteq AgreedPrices(t)
  <2>1. \A t \in Task : payout[t] \subseteq AgreedPrices(t)
    BY DEF PriceInv, PriceOK
  <2>2. CASE QueuePayout(h)
    <3>1. h.row.price \in AgreedPrices(h.task)
      BY <2>2 DEF QueuePayout, At, PriceInv, PricedOK
    <3>2. \A t \in Task : payout'[t] = payout[t] \/ (t = h.task /\ payout'[t] = {h.row.price})
      BY <1>1, <2>2 DEF QueuePayout, PriceInv, OInv, IInv, TypeOK
    <3> QED
      BY <2>1, <3>1, <3>2
  <2>3. CASE UNCHANGED payout
    BY <2>1, <2>3
  <2> QED
    BY <2>2, <2>3 DEF HandlerStep, RequestStep, JobStep, ReviewStep, Crash, ConfirmDraft, CancelDraft,
       CancelTask, CancelAssignment, CancelReleases, AcceptTask, AcceptAssignment, AcceptDuty, StartTask,
       StartAssignment, SettleTask, SettleProvider, SettlePay, InsertReview, AddCredibility, ThreeStars,
       QueueScore, RevealOne, RevealDone, payVars
<1> QED
    BY <1>2, <1>3, <1>4, <1>5, PriceFrame

LEMMA PricelessOutside ==
    ASSUME PriceInv, OInv', [Next]_vars, NEW t \in Task, External(t)
    PROVE  PriceInv'
<1>1. UNCHANGED <<adjustments, payout, running>>
    BY DEF External, CreateTask, CustomerPays, TellPin, CompleteTask, rowVars, payVars
<1>2. \A u \in Task : task'[u].price = task[u].price
  <2>1. CASE CreateTask(t)
    BY <2>1 DEF CreateTask, PriceInv, OInv, IInv, TypeOK, TaskRow
  <2>2. CASE CustomerPays(t)
    BY <2>2, PaymentCosts DEF CustomerPays, PriceInv
  <2> QED
    BY <2>1, <2>2 DEF External, TellPin, CompleteTask, rowVars
<1>3. \A u \in Task : payout'[u] \subseteq AgreedPrices(u)
    BY <1>1 DEF PriceInv, PriceOK
<1> QED
    BY <1>1, <1>2, <1>3, PriceFrame

\* A step that writes no price and starts the one handler w to whom it matters.
LEMMA PricedRequest ==
    ASSUME PriceInv, OInv', [Next]_vars, NEW w, running' = running \cup {w},
           \A t \in Task : /\ task'[t].price = task[t].price /\ adjustments'[t] = adjustments[t]
                           /\ payout'[t] \subseteq AgreedPrices(t),
           w.task \in Task, PricedOK(w),
           \A h \in running : h.task = w.task => /\ ~(h.pc = "ask" /\ w.pc = "ask")
                                                 /\ ~(h.pc \in Responding /\ w.pc \in Responding)
    PROVE  PriceInv'
<1>1. \A t \in Task : PriceOK(t)'
    BY PriceStays
<1>2. ASSUME NEW h \in running
      PROVE  PricedOK(h)'
    BY PriceStays, Typed DEF PriceInv, OInv
<1>3. PricedOK(w)'
  <2>1. Pending(w.task)' = Pending(w.task) /\ AgreedPrices(w.task)' = AgreedPrices(w.task)
    BY PriceStays
  <2>2. Lasting(w.task) => Lasting(w.task)' /\ task'[w.task].provider = task[w.task].provider
    BY PlacedStays DEF PriceInv
  <2> QED
    BY <2>1, <2>2 DEF PricedOK
<1>4. OneAtATime({"ask"})' /\ OneAtATime(Responding)'
    BY DEF PriceInv, OneAtATime
<1> QED
    BY <1>1, <1>2, <1>3, <1>4 DEF PriceInv

LEMMA PricedBegins ==
    ASSUME PriceInv, OInv', [Next]_vars, NEW t \in Task, UserRequest(t)
    PROVE  PriceInv'
<1>1. UNCHANGED <<task, adjustments, payout>> /\ \E w : running' = running \cup {w}
    BY DEF UserRequest, CustomerRequest, ProviderRequest, BeginConfirmDraft, BeginCancelDraft,
       BeginCancelTask, BeginAdminCancelTask, BeginRespond, BeginAccept, BeginStartTask,
       BeginRequestAdjustment, BeginReview, Load, Run, rowVars, payVars
<1>2. \A u \in Task : /\ task'[u].price = task[u].price /\ adjustments'[u] = adjustments[u]
                      /\ payout'[u] \subseteq AgreedPrices(u)
    BY <1>1 DEF PriceInv, PriceOK
<1>3. PICK w : running' = running \cup {w}
    BY <1>1
<1>4. CASE \A x \in running' \ running : x.pc \notin Pricing
    BY <1>2, <1>4, PriceFrame
<1>5. CASE w \notin running /\ w.pc \in Pricing
  <2>1. w.task = t
    BY <1>3, <1>5, Begins DEF PriceInv
  <2>2. \/ w.pc = "ask" /\ w.user \in Provider /\ BeginRequestAdjustment(t, w.user)
        \/ /\ w.pc \in Responding /\ w.user = Customer /\ w.k \in Pending(t) /\ ~Busy(t, Customer)
           /\ w.row.price = task[t].price
    BY <1>3, <1>5, Begins DEF PriceInv, Pricing, Responding
  <2>3. CASE w.pc = "ask" /\ w.user \in Provider /\ BeginRequestAdjustment(t, w.user)
    <3>1. Pending(t) = {} /\ task[t].provider = w.user /\ ~Busy(t, w.user) /\ task[t].status \in Active
      BY <2>3 DEF BeginRequestAdjustment, Load
    <3>2. Lasting(t)
      BY <3>1, Rows DEF PriceInv, OInv, TaskOK, Active
    <3>3. PricedOK(w)
      BY <2>1, <2>3, <3>1, <3>2 DEF PricedOK, Responding
    <3>4. \A h \in running : h.task = t => h.pc # "ask"
      BY <3>1 DEF PriceInv, PricedOK, Busy, Workers
    <3> QED
      BY <1>2, <1>3, <2>1, <2>3, <3>3, <3>4, PricedRequest DEF Responding
  <2>4. CASE /\ w.pc \in Responding /\ w.user = Customer /\ w.k \in Pending(t) /\ ~Busy(t, Customer)
             /\ w.row.price = task[t].price
    <3>1. PricedOK(w)
      BY <2>1, <2>4 DEF PricedOK, Responding
    <3>2. \A h \in running : h.task = t => h.pc \notin Responding
      BY <2>4 DEF PriceInv, PricedOK, Busy, Workers, Responding
    <3> QED
      BY <1>2, <1>3, <2>1, <2>4, <3>1, <3>2, PricedRequest DEF Responding
  <2> QED
    BY <2>2, <2>3, <2>4
<1> QED
    BY <1>3, <1>4, <1>5

LEMMA PricedDelivery ==
    ASSUME PriceInv, OInv', [Next]_vars, NEW m \in msgs, Deliver(m) \/ SyncScore(m)
    PROVE  PriceInv'
<1>1. UNCHANGED adjustments
    BY DEF Deliver, CompletionJob, PayOnline, PayInCash, SyncScore, rowVars
<1>2. PayOnline(m) \/ PayInCash(m) => m.task \in Task
    BY DEF PayOnline, PayInCash, PriceInv, OInv, IInv, TypeOK, Message
<1>3. \A u \in Task : task'[u].price = task[u].price
  <2>1. CASE UNCHANGED task
    BY <2>1
  <2>2. CASE PayOnline(m) \/ PayInCash(m)
    BY <1>2, <2>2, PaymentCosts DEF PayOnline, PayInCash, PriceInv
  <2> QED
    BY <2>1, <2>2 DEF Deliver, CompletionJob, SyncScore, rowVars
<1>4. \A u \in Task : payout'[u] \subseteq AgreedPrices(u)
  <2>1. \A u \in Task : payout[u] \subseteq AgreedPrices(u) /\ task[u].price \in AgreedPrices(u)
    BY PriceAgreed DEF PriceInv, PriceOK
  <2>2. \A u \in Task : payout'[u] = payout[u] \/ payout'[u] = {task[u].price}
    BY <1>2 DEF Deliver, CompletionJob, PayOnline, PayInCash, SyncScore, payVars, PriceInv, OInv, IInv, TypeOK
  <2> QED
    BY <2>1, <2>2
<1>5. CASE \A x \in running' \ running : x.pc \notin Pricing
    BY <1>1, <1>3, <1>4, <1>5, PriceFrame
<1>6. ASSUME NEW w \in running' \ running, w.pc \in Pricing
      PROVE  PriceInv'
  <2>1. w.pc = "pay_queue" /\ w.row.price = task[m.task].price /\ w.task = m.task /\ m.task \in Task
    BY <1>6, JobBegins DEF PriceInv, Pricing, Responding
  <2>2. running' = running \cup {w}
    BY <1>6 DEF Deliver, CompletionJob, PayOnline, PayInCash, SyncScore, Run
  <2>3. PricedOK(w)
    BY <2>1, PriceAgreed DEF PricedOK, PriceInv, Responding
  <2> QED
    BY <1>1, <1>3, <1>4, <2>1, <2>2, <2>3, PricedRequest DEF Responding
<1> QED
    BY <1>5, <1>6

LEMMA Resets ==
    ASSUME NEW h \in running, NEW t \in Task, ApproveAdjustment(h) \/ RejectAdjustment(h), h.task = t,
           PriceInv
    PROVE  \A g \in running' : g \in running /\ (g.task = t => g.pc \notin {"ask"} \cup Responding)
<1>1. h.pc \in Responding /\ running' = running \ {h}
    BY DEF ApproveAdjustment, RejectAdjustment, At, Responding, Finish
<1>2. Pending(t) # {}
    BY <1>1 DEF PriceInv, PricedOK
<1>3. \A g \in running : g.task = t /\ g.pc = "ask" => FALSE
    BY <1>2 DEF PriceInv, PricedOK
<1> QED
    BY <1>1, <1>3 DEF PriceInv, OneAtATime

\* A step that writes the adjustments of the task t, and leaves alone what
\* belongs to others.
LEMMA PriceMoves ==
    ASSUME PriceInv, OInv', [Next]_vars, NEW t \in Task, running' \subseteq running,
           UNCHANGED payout,
           \A u \in Task : u # t => task'[u].price = task[u].price /\ adjustments'[u] = adjustments[u],
           PriceOK(t)', AgreedPrices(t) \subseteq AgreedPrices(t)',
           \A g \in running' : g.task = t => g.pc \notin {"ask"} \cup Responding
    PROVE  PriceInv'
<1>1. \A u \in Task : PriceOK(u)'
  <2>1. \A u \in Task : payout'[u] \subseteq AgreedPrices(u)
    BY DEF PriceInv, PriceOK
  <2> QED
    BY <2>1, PriceStays
<1>2. ASSUME NEW h \in running'
      PROVE  PricedOK(h)'
  <2>1. h \in running /\ h.task \in Task /\ PricedOK(h)
    BY Typed DEF PriceInv, OInv
  <2>2. CASE h.task = t
    BY <2>1, <2>2 DEF PricedOK
  <2>3. CASE h.task # t
    <3>1. payout'[h.task] \subseteq AgreedPrices(h.task)
      BY <2>1 DEF PriceInv, PriceOK
    <3> QED
      BY <2>1, <2>3, <3>1, PriceStays
  <2> QED
    BY <2>2, <2>3
<1>3. OneAtATime({"ask"})' /\ OneAtATime(Responding)'
    BY DEF PriceInv, OneAtATime
<1> QED
    BY <1>1, <1>2, <1>3 DEF PriceInv

LEMMA Asking ==
    ASSUME PriceInv, OInv', [Next]_vars, NEW h \in running, RequestAdjustment(h)
    PROVE  PriceInv'
<1> DEFINE t == h.task
<1>1. t \in Task /\ h.pc = "ask" /\ running' = running \ {h} /\ UNCHANGED <<task, payout>>
    BY Typed DEF PriceInv, OInv, RequestAdjustment, At, Finish, payVars
<1>2. Pending(t) = {} /\ Lasting(t)
    BY <1>1 DEF PriceInv, PricedOK
<1>3. PICK s \in Seq(Adjustment) : s = adjustments[t]
    BY <1>1, Still DEF PriceInv, OInv
<1>4. PICK a \in Adjustment : a.status = "PENDING" /\ adjustments' = [adjustments EXCEPT ![t] = Append(s, a)]
  <2>1. PICK x \in Amounts :
            adjustments' = [adjustments EXCEPT ![t] = Append(s, [amount |-> x, status |-> "PENDING"])]
    BY <1>3 DEF RequestAdjustment
  <2> QED
    BY <2>1 DEF Adjustment
<1>5. PICK new : new = Append(s, a)
    OBVIOUS
<1>6. /\ Len(s) \in Nat /\ Len(new) = Len(s) + 1 /\ new[Len(s) + 1] = a
      /\ \A i \in 1 .. Len(s) : new[i] = s[i]
    BY <1>3, <1>4, <1>5, AppendProperties, LenProperties
<1>7. \A u \in Task : adjustments'[u] = IF u = t THEN new ELSE adjustments[u]
    BY <1>1, <1>4, <1>5 DEF PriceInv, OInv, IInv, TypeOK
<1>8. Agreed(t)' = Agreed(t) /\ Agreed(t) \subseteq 1 .. Len(s)
    BY <1>1, <1>3, <1>4, <1>6, <1>7 DEF Agreed
<1>9. \A k \in Pending(t)' : k = Len(new)
    BY <1>1, <1>2, <1>3, <1>4, <1>6, <1>7 DEF Pending
<1>10. \A k \in Agreed(t) : adjustments'[t][k].amount = adjustments[t][k].amount
    BY <1>1, <1>3, <1>6, <1>7, <1>8
<1>11. AgreedPrices(t)' = AgreedPrices(t)
    BY <1>8, <1>10 DEF AgreedPrices
<1>12. Lasting(t)'
    BY <1>1, <1>2, PlacedStays DEF PriceInv
<1>13. PriceOK(t)'
  <2>1. PriceOK(t)
    BY <1>1 DEF PriceInv
  <2> QED
    BY <1>1, <1>7, <1>8, <1>9, <1>10, <1>11, <1>12, <2>1 DEF PriceOK
<1>14. \A g \in running' : g.task = t => g.pc \notin {"ask"} \cup Responding
    BY <1>1, <1>2 DEF PriceInv, PricedOK, OneAtATime
<1> HIDE DEF t
<1> QED
    BY <1>1, <1>7, <1>11, <1>13, <1>14, PriceMoves

\* What the answer to the adjustment k does to the adjustments of t.
LEMMA Answering ==
    ASSUME PriceInv, NEW h \in running, NEW status \in {"APPROVED", "REJECTED"},
           h.pc \in Responding, adjustments' = [adjustments EXCEPT ![h.task][h.k].status = status]
    PROVE  /\ Pending(h.task)' = {} /\ h.k = Len(adjustments[h.task]) /\ h.k \notin Agreed(h.task)
           /\ Agreed(h.task) \subseteq 1 .. h.k /\ h.k \in Nat /\ Lasting(h.task)
           /\ Agreed(h.task)' = IF status = "APPROVED" THEN Agreed(h.task) \cup {h.k} ELSE Agreed(h.task)
           /\ \A k \in 1 .. h.k : adjustments'[h.task][k].amount = adjustments[h.task][k].amount
           /\ \A u \in Task : u # h.task => adjustments'[u] = adjustments[u]
<1>1. h.task \in Task
    BY Typed DEF PriceInv, OInv
<1>2. PICK s \in Seq(Adjustment) : s = adjustments[h.task]
    BY <1>1, Still DEF PriceInv, OInv
<1>3. h.k \in Pending(h.task) /\ (\A k \in Pending(h.task) : k = Len(s)) /\ Len(s) \in Nat
    BY <1>1, <1>2, LenProperties DEF PriceInv, PricedOK, PriceOK
<1>4. h.k = Len(s) /\ h.k \in 1 .. Len(s) /\ s[h.k].status = "PENDING"
    BY <1>2, <1>3 DEF Pending
<1>5. s[h.k] \in Adjustment
    BY <1>2, <1>4, ElementOfSeq
<1>6. PICK a \in Adjustment : a = [s[h.k] EXCEPT !.status = status] /\ a.status = status /\ a.amount = s[h.k].amount
  <2>1. PICK old \in Adjustment : old = s[h.k]
    BY <1>5
  <2>2. PICK x : x = [old EXCEPT !.status = status]
    OBVIOUS
  <2>3. x \in Adjustment /\ x.status = status /\ x.amount = old.amount
    BY <2>1, <2>2 DEF Adjustment
  <2> QED
    BY <2>1, <2>2, <2>3
<1>7. PICK new \in Seq(Adjustment) :
          /\ new = [s EXCEPT ![h.k] = a] /\ Len(new) = Len(s)
          /\ new[h.k] = a /\ \A k \in 1 .. Len(s) : k # h.k => new[k] = s[k]
  <2>1. /\ [s EXCEPT ![h.k] = a] \in Seq(Adjustment) /\ Len([s EXCEPT ![h.k] = a]) = Len(s)
        /\ \A k \in 1 .. Len(s) : [s EXCEPT ![h.k] = a][k] = IF k = h.k THEN a ELSE s[k]
    BY <1>4, <1>6, ExceptSeq
  <2>2. PICK new : new = [s EXCEPT ![h.k] = a]
    OBVIOUS
  <2> QED
    BY <1>4, <2>1, <2>2
<1>8. adjustments' = [adjustments EXCEPT ![h.task] = new]
    BY <1>2, <1>6, <1>7
<1>9. \A u \in Task : adjustments'[u] = IF u = h.task THEN new ELSE adjustments[u]
    BY <1>8 DEF PriceInv, OInv, IInv, TypeOK
<1>10. Agreed(h.task)' = {k \in 1 .. Len(s) : new[k].status = "APPROVED"}
    BY <1>1, <1>7, <1>9 DEF Agreed
<1>11. Agreed(h.task) = {k \in 1 .. Len(s) : s[k].status = "APPROVED"}
    BY <1>2 DEF Agreed
<1>12. Agreed(h.task)' = IF status = "APPROVED" THEN Agreed(h.task) \cup {h.k} ELSE Agreed(h.task)
    BY <1>4, <1>6, <1>7, <1>10, <1>11
<1>13. Pending(h.task)' = {k \in 1 .. Len(s) : new[k].status = "PENDING"}
    BY <1>1, <1>7, <1>9 DEF Pending
<1>14. \A k \in 1 .. Len(s) : s[k].status = "PENDING" => k = h.k
    BY <1>2, <1>3, <1>4 DEF Pending
<1>15. Pending(h.task)' = {}
    BY <1>4, <1>6, <1>7, <1>13, <1>14
<1>16. Lasting(h.task)
    BY <1>1, <1>2, <1>4 DEF PriceInv, PriceOK
<1>17. \A k \in 1 .. h.k : adjustments'[h.task][k].amount = adjustments[h.task][k].amount
    BY <1>1, <1>2, <1>4, <1>6, <1>7, <1>9
<1> QED
    BY <1>2, <1>3, <1>4, <1>9, <1>11, <1>12, <1>15, <1>16, <1>17

LEMMA Rejecting ==
    ASSUME PriceInv, OInv', [Next]_vars, NEW h \in running, RejectAdjustment(h)
    PROVE  PriceInv'
<1>1. h.task \in Task /\ h.pc \in Responding /\ running' \subseteq running /\ UNCHANGED <<task, payout>>
    BY Typed DEF PriceInv, OInv, RejectAdjustment, At, Finish, payVars, Responding
<1>2. adjustments' = [adjustments EXCEPT ![h.task][h.k].status = "REJECTED"]
    BY DEF RejectAdjustment
<1>3. /\ Pending(h.task)' = {} /\ Lasting(h.task) /\ Agreed(h.task)' = Agreed(h.task)
      /\ \A k \in Agreed(h.task) : adjustments'[h.task][k].amount = adjustments[h.task][k].amount
      /\ \A u \in Task : u # h.task => adjustments'[u] = adjustments[u]
    BY <1>1, <1>2, Answering
<1>4. AgreedPrices(h.task)' = AgreedPrices(h.task)
    BY <1>3 DEF AgreedPrices
<1>5. Lasting(h.task)'
    BY <1>1, <1>3, PlacedStays DEF PriceInv
<1>6. PriceOK(h.task)'
  <2>1. PriceOK(h.task)
    BY <1>1 DEF PriceInv
  <2> QED
    BY <1>1, <1>3, <1>4, <1>5, <2>1 DEF PriceOK
<1>7. \A g \in running' : g.task = h.task => g.pc \notin {"ask"} \cup Responding
    BY <1>1, Resets
<1> QED
    BY <1>1, <1>3, <1>4, <1>6, <1>7, PriceMoves

LEMMA Approving ==
    ASSUME PriceInv, OInv', [Next]_vars, NEW h \in running, ApproveAdjustment(h)
    PROVE  PriceInv'
<1>1. h.task \in Task /\ h.pc \in Responding /\ running' \subseteq running /\ UNCHANGED payout
    BY Typed DEF PriceInv, OInv, ApproveAdjustment, At, Finish, payVars, Responding
<1>2. adjustments' = [adjustments EXCEPT ![h.task][h.k].status = "APPROVED"]
    BY DEF ApproveAdjustment
<1>3. /\ Pending(h.task)' = {} /\ Lasting(h.task) /\ Agreed(h.task)' = Agreed(h.task) \cup {h.k}
      /\ Agreed(h.task) \subseteq 1 .. h.k /\ h.k \in Nat /\ h.k \in Pending(h.task)
      /\ \A k \in 1 .. h.k : adjustments'[h.task][k].amount = adjustments[h.task][k].amount
      /\ \A u \in Task : u # h.task => adjustments'[u] = adjustments[u]
    BY <1>1, <1>2, Answering DEF PriceInv, PricedOK
<1>4. h.k \in 1 .. h.k
    BY <1>3 DEF Pending
<1>5. AgreedPrices(h.task) \subseteq AgreedPrices(h.task)'
    BY <1>3 DEF AgreedPrices
<1>6. Lasting(h.task)'
    BY <1>1, <1>3, PlacedStays DEF PriceInv
<1>7. PICK p : p = adjustments[h.task][h.k].amount
    OBVIOUS
<1>8. task' = [task EXCEPT ![h.task].price = p]
  <2>1. h.row.price = task[h.task].price
    BY <1>1 DEF PriceInv, PricedOK
  <2>2. Written(h.row.price, task[h.task].price, p) = p
    BY <2>1 DEF Written
  <2>3. task' = [task EXCEPT ![h.task].price = Written(h.row.price, task[h.task].price, p)]
    BY <1>7 DEF ApproveAdjustment
  <2> QED
    BY <2>2, <2>3
<1>9. task'[h.task].price = p /\ \A u \in Task : u # h.task => task'[u] = task[u]
    BY <1>1, <1>8 DEF PriceInv, OInv, IInv, TypeOK, TaskRow
<1>10. \A j \in Agreed(h.task)' : j <= h.k
    BY <1>3
<1>11. payout'[h.task] \subseteq AgreedPrices(h.task)'
    BY <1>1, <1>5 DEF PriceInv, PriceOK
<1>12. PriceOK(h.task)'
    BY <1>3, <1>4, <1>6, <1>7, <1>9, <1>10, <1>11 DEF PriceOK
<1>13. \A g \in running' : g.task = h.task => g.pc \notin {"ask"} \cup Responding
    BY <1>1, Resets
<1> QED
    BY <1>1, <1>3, <1>5, <1>9, <1>12, <1>13, PriceMoves

LEMMA PriceKept ==
    ASSUME PriceInv, OInv', [Next]_vars
    PROVE  PriceInv'
<1>1. ASSUME NEW h \in running, HandlerStep(h) \/ Crash(h)
      PROVE  PriceInv'
    BY <1>1, PricelessHandler, Asking, Approving, Rejecting
<1>2. CASE UNCHANGED vars
  <2>1. \A t \in Task : payout[t] \subseteq AgreedPrices(t)
    BY DEF PriceInv, PriceOK
  <2> QED
    BY <1>2, <2>1, PriceFrame DEF vars, rowVars, payVars
<1> QED
    BY <1>1, <1>2, PricedDelivery, PricedBegins, PricelessOutside DEF Next

\* The price is the estimate or what the customer last agreed to, and no
\* payout is of an amount that was not agreed, however requests, answers,
\* completions and payments interleave, for any tasks, providers, amounts
\* and bounds.
THEOREM PricesAreAgreed == Spec => []PriceIsAgreed
<1>1. Init /\ OInv => PriceInv
  <2> SUFFICES ASSUME Init, OInv
               PROVE  PriceInv
    OBVIOUS
  <2>1. \A t \in Task : /\ Len(adjustments[t]) = 0 /\ Agreed(t) = {} /\ Pending(t) = {}
                        /\ task[t].price = Estimate /\ payout[t] = {}
    BY DEF Init, Agreed, Pending, NewTask
  <2> QED
    BY <2>1 DEF Init, PriceInv, PriceOK, OneAtATime
<1>2. PriceInv => PriceIsAgreed
    BY DEF PriceInv, PriceOK, PriceIsAgreed, AgreedPrices
<1> QED
    BY <1>1, <1>2, PriceKept, AlwaysOInv, PTL DEF Spec

-----------------------------------------------------------------------------
(***************************************************************************)
(* The provider's duty.  Only the acceptance that placed a provider marks  *)
(* it ON_TASK, some commits after the task was given to it: until then     *)
(* nobody can have started or completed the task.                          *)
(***************************************************************************)
Placing == {"accept_row", "accept_duty"}

PlacedOK(t) ==
    /\ task[t].provider # NoProvider => Past(t)
    /\ assignment[t].provider \in {NoProvider, task[t].provider}

Holding(h) ==
    /\ h.pc \in Placing => /\ task[h.task].provider = h.user
                           /\ task[h.task].status \in {"ASSIGNED", "CANCELLED"}
                           /\ "completion" \notin told[h.task]
    /\ h.pc \in Workers => h.user = task[h.task].provider

Unstarted == \A g, h \in running : g.pc \in Placing /\ h.pc = "start" => g.task # h.task

JobOK(m) == m.kind \in Jobs => m.user = task[m.task].provider

HeldInv ==
    /\ OInv
    /\ \A t \in Task : PlacedOK(t)
    /\ \A h \in running : Holding(h)
    /\ Unstarted
    /\ \A m \in msgs : JobOK(m)
    /\ HeldForAReason

\* Who writes the status and the provider of a task.
LEMMA RowMoves ==
    ASSUME OInv, [Next]_vars, NEW t \in Task
    PROVE  \/ task'[t].status = task[t].status /\ task'[t].provider = task[t].provider
           \/ CreateTask(t) /\ task'[t].provider = task[t].provider /\ task'[t].status = "DRAFT"
           \/ \E h \in running :
                /\ h.task = t
                /\ \/ ConfirmDraft(h) /\ task'[t].status = "OPEN"
                   \/ CancelTask(h) /\ task'[t].status = "CANCELLED"
                   \/ StartTask(h) /\ task'[t].status = "IN_PROGRESS"
                   \/ SettleTask(h) /\ task'[t].status = "COMPLETED"
                /\ task'[t].provider = task[t].provider
           \/ \E h \in running : h.task = t /\ CancelDraft(h) /\ task'[t] = NewTask
           \/ \E h \in running : /\ h.task = t /\ AcceptTask(h)
                                 /\ task'[t].status = "ASSIGNED" /\ task'[t].provider = h.user
<1> DEFINE Moves ==
           \/ task'[t].status = task[t].status /\ task'[t].provider = task[t].provider
           \/ CreateTask(t) /\ task'[t].provider = task[t].provider /\ task'[t].status = "DRAFT"
           \/ \E h \in running :
                /\ h.task = t
                /\ \/ ConfirmDraft(h) /\ task'[t].status = "OPEN"
                   \/ CancelTask(h) /\ task'[t].status = "CANCELLED"
                   \/ StartTask(h) /\ task'[t].status = "IN_PROGRESS"
                   \/ SettleTask(h) /\ task'[t].status = "COMPLETED"
                /\ task'[t].provider = task[t].provider
           \/ \E h \in running : h.task = t /\ CancelDraft(h) /\ task'[t] = NewTask
           \/ \E h \in running : /\ h.task = t /\ AcceptTask(h)
                                 /\ task'[t].status = "ASSIGNED" /\ task'[t].provider = h.user
<1> SUFFICES Moves
    OBVIOUS
<1>1. ASSUME NEW h \in running, HandlerStep(h) \/ Crash(h)
      PROVE  Moves
  <2>1. h.task \in Task /\ task \in [Task -> TaskRow] /\ task[h.task] \in TaskRow
    BY Typed DEF OInv, IInv, TypeOK
  <2>2. CASE ConfirmDraft(h) \/ CancelTask(h) \/ StartTask(h)
    <3>1. PICK s : /\ SaveStatus(h, s)
                   /\ \/ ConfirmDraft(h) /\ s = "OPEN"
                      \/ CancelTask(h) /\ s = "CANCELLED"
                      \/ StartTask(h) /\ s = "IN_PROGRESS"
      BY <2>2 DEF ConfirmDraft, CancelTask, StartTask
    <3>2. /\ task'[t].provider = task[t].provider
          /\ task'[t].status = task[t].status \/ (t = h.task /\ task'[t].status = s)
      BY <3>1, StatusWritten
    <3> QED
      BY <3>1, <3>2
  <2>3. CASE CancelDraft(h)
    <3>1. task'[t] = IF t = h.task THEN NewTask ELSE task[t]
      BY <2>1, <2>3 DEF CancelDraft
    <3> QED
      BY <2>3, <3>1
  <2>4. CASE AcceptTask(h)
    <3>1. task' = [task EXCEPT ![h.task].status = "ASSIGNED", ![h.task].provider = h.user]
      BY <2>4 DEF AcceptTask
    <3>2. /\ task'[h.task].status = "ASSIGNED" /\ task'[h.task].provider = h.user
          /\ t # h.task => task'[t] = task[t]
      BY <2>1, <3>1 DEF TaskRow
    <3> QED
      BY <2>4, <3>2
  <2>5. CASE SettleTask(h)
    <3>1. task' = [task EXCEPT ![h.task].status = "COMPLETED"]
      BY <2>5 DEF SettleTask
    <3>2. /\ task'[h.task].status = "COMPLETED" /\ task'[h.task].provider = task[h.task].provider
          /\ t # h.task => task'[t] = task[t]
      BY <2>1, <3>1 DEF TaskRow
    <3> QED
      BY <2>5, <3>2
  <2>6. CASE task'[t].status = task[t].status /\ task'[t].provider = task[t].provider
    BY <2>6
  <2> HIDE DEF Moves
  <2> QED
    BY <1>1, <2>2, <2>3, <2>4, <2>5, <2>6, StatusKept DEF HandlerStep, RequestStep, JobStep
<1>2. ASSUME NEW m \in msgs, Deliver(m) \/ SyncScore(m)
      PROVE  Moves
    BY <1>2, MessagesKeepStatus
<1>3. ASSUME NEW u \in Task, UserRequest(u) \/ External(u)
      PROVE  Moves
  <2>1. CASE UNCHANGED task
    BY <2>1
  <2>2. CASE CreateTask(u)
    <3>1. task \in [Task -> TaskRow] /\ task' = [task EXCEPT ![u].status = "DRAFT"]
      BY <2>2 DEF CreateTask, OInv, IInv, TypeOK
    <3>2. /\ task'[u].status = "DRAFT" /\ task'[u].provider = task[u].provider
          /\ t # u => task'[t] = task[t]
      BY <3>1 DEF TaskRow
    <3> QED
      BY <2>2, <3>2
  <2>3. CASE CustomerPays(u)
    BY <2>3, PaymentWritten DEF CustomerPays
  <2> HIDE DEF Moves
  <2> QED
    BY <1>3, <2>1, <2>2, <2>3 DEF UserRequest, CustomerRequest, ProviderRequest, External,
       BeginConfirmDraft, BeginCancelDraft, BeginCancelTask, BeginAdminCancelTask, BeginRespond,
       BeginAccept, BeginStartTask, BeginRequestAdjustment, BeginReview, TellPin, CompleteTask, rowVars
<1>4. CASE UNCHANGED vars
    BY <1>4 DEF vars, rowVars
<1> HIDE DEF Moves
<1> QED
    BY <1>1, <1>2, <1>3, <1>4 DEF Next

\* Who writes the provider of an assignment.
LEMMA AssignmentMoves ==
    ASSUME OInv, [Next]_vars, NEW t \in Task
    PROVE  \/ assignment'[t].provider = assignment[t].provider
           \/ \E h \in running : h.task = t /\ AcceptAssignment(h) /\ assignment'[t].provider = h.user
<1>0. assignment \in [Task -> AssignmentRow]
    BY DEF OInv, IInv, TypeOK
<1>1. ASSUME NEW h \in running, CancelAssignment(h) \/ StartAssignment(h)
      PROVE  assignment'[t].provider = assignment[t].provider
  <2>1. PICK s : SaveAssignment(h, s)
    BY <1>1 DEF CancelAssignment, StartAssignment
  <2>2. PICK new : new = Written(h.asg.status, assignment[h.task].status, s)
    OBVIOUS
  <2>3. assignment' = [assignment EXCEPT ![h.task].status = new]
    BY <2>1, <2>2 DEF SaveAssignment
  <2> QED
    BY <1>0, <2>3 DEF AssignmentRow
<1>2. ASSUME NEW h \in running, AcceptAssignment(h)
      PROVE  assignment'[t].provider = IF t = h.task THEN h.user ELSE assignment[t].provider
    BY <1>0, <1>2 DEF AcceptAssignment
<1>3. ASSUME NEW h \in running, HandlerStep(h) \/ Crash(h)
      PROVE  UNCHANGED assignment \/ CancelAssignment(h) \/ StartAssignment(h) \/ AcceptAssignment(h)
    BY <1>3 DEF HandlerStep, RequestStep, JobStep, ReviewStep, Crash, ConfirmDraft, CancelDraft, CancelTask,
       CancelReleases, AcceptTask, AcceptDuty, StartTask, RequestAdjustment, ApproveAdjustment,
       RejectAdjustment, SettleTask, SettleProvider, SettlePay, QueuePayout, InsertReview,
       AddCredibility, ThreeStars, QueueScore, RevealOne, RevealDone, rowVars
<1>4. ASSUME NEW m \in msgs, Deliver(m) \/ SyncScore(m)
      PROVE  assignment'[t].provider = assignment[t].provider
  <2>1. CASE CompletionJob(m)
    BY <1>0, <2>1 DEF CompletionJob, AssignmentRow
  <2> QED
    BY <1>4, <2>1 DEF Deliver, PayOnline, PayInCash, SyncScore, rowVars
<1>5. ASSUME NEW u \in Task, UserRequest(u) \/ External(u)
      PROVE  UNCHANGED assignment
    BY <1>5 DEF UserRequest, CustomerRequest, ProviderRequest, External, CreateTask, CustomerPays,
       BeginConfirmDraft, BeginCancelDraft, BeginCancelTask, BeginAdminCancelTask, BeginRespond,
       BeginAccept, BeginStartTask, BeginRequestAdjustment, BeginReview, TellPin, CompleteTask, rowVars
<1> QED
    BY <1>1, <1>2, <1>3, <1>4, <1>5 DEF Next, vars, rowVars

LEMMA PlacedKept ==
    ASSUME HeldInv, [Next]_vars, NEW t \in Task
    PROVE  PlacedOK(t)' /\ (task[t].provider # NoProvider => task'[t].provider = task[t].provider)
<1>1. task[t].provider # NoProvider => Lasting(t)
    BY DEF HeldInv, PlacedOK, Lasting
<1>2. task[t].provider # NoProvider => Past(t)' /\ task'[t].provider = task[t].provider
    BY <1>1, PlacedStays DEF HeldInv, Lasting
<1>3. task'[t].provider # NoProvider => Past(t)'
  <2>1. CASE task[t].provider = NoProvider /\ task'[t].provider # NoProvider
    <3>1. PICK h \in running : h.task = t /\ AcceptTask(h)
      BY <2>1, RowMoves, Defaults DEF HeldInv
    <3>2. Past(t)
      BY <3>1, Typed DEF HeldInv, OInv, HandlerOK, AcceptTask, At, Accepting
    <3> QED
      BY <3>2, PastStays DEF HeldInv
  <2> QED
    BY <1>2, <2>1
<1>4. assignment'[t].provider \in {NoProvider, task'[t].provider}
  <2>1. CASE assignment'[t].provider = assignment[t].provider
    BY <1>2, <2>1 DEF HeldInv, PlacedOK
  <2>2. ASSUME NEW h \in running, h.task = t, AcceptAssignment(h), assignment'[t].provider = h.user
        PROVE  assignment'[t].provider \in {NoProvider, task'[t].provider}
    BY <2>2 DEF AcceptAssignment, At, HeldInv, Holding, Placing
  <2> QED
    BY <2>1, <2>2, AssignmentMoves DEF HeldInv
<1> QED
    BY <1>2, <1>3, <1>4 DEF PlacedOK

\* Who queues a completion or its payment.
LEMMA JobsQueued ==
    ASSUME OInv, [Next]_vars, NEW m \in msgs' \ msgs, m.kind \in Jobs
    PROVE  \/ \E t \in Task, v \in Provider, mode \in PaymentMode :
                  CompleteTask(t, v, mode) /\ m.task = t /\ m.user = v
           \/ \E h \in running : SettlePay(h) /\ m.task = h.task /\ m.user = h.user
<1>0. \A u : Score(u).kind \notin Jobs
    BY DEF Score, Jobs
<1>1. ASSUME NEW h \in running, HandlerStep(h) \/ Crash(h)
      PROVE  SettlePay(h) /\ m.task = h.task /\ m.user = h.user
  <2>1. ~ QueueScore(h)
    BY <1>0 DEF QueueScore
  <2>2. SettlePay(h)
    BY <1>1, <2>1 DEF HandlerStep, RequestStep, JobStep, ReviewStep, Crash, ConfirmDraft, CancelDraft,
       CancelTask, CancelAssignment, CancelReleases, AcceptTask, AcceptAssignment, AcceptDuty, StartTask,
       StartAssignment, RequestAdjustment, ApproveAdjustment, RejectAdjustment, SettleTask,
       SettleProvider, QueuePayout, InsertReview, AddCredibility, ThreeStars, RevealOne, RevealDone
  <2>3. PICK x : x = [kind |-> "pay", task |-> h.task, user |-> h.user, mode |-> h.mode, n |-> h.k]
    OBVIOUS
  <2>4. m = x
    BY <1>0, <2>2, <2>3 DEF SettlePay
  <2> QED
    BY <2>2, <2>3, <2>4
<1>2. \A n \in msgs : ~(Deliver(n) \/ SyncScore(n))
    BY MessagesLeave
<1>3. \A u \in Task : ~UserRequest(u)
    BY DEF UserRequest, CustomerRequest, ProviderRequest, BeginConfirmDraft, BeginCancelDraft,
       BeginCancelTask, BeginAdminCancelTask, BeginRespond, BeginAccept, BeginStartTask,
       BeginRequestAdjustment, BeginReview
<1>4. ASSUME NEW t \in Task, External(t)
      PROVE  \E v \in Provider, mode \in PaymentMode : CompleteTask(t, v, mode) /\ m.task = t /\ m.user = v
  <2>1. PICK v \in Provider, mode \in PaymentMode : CompleteTask(t, v, mode)
    BY <1>4 DEF External, CreateTask, CustomerPays, TellPin
  <2> QED
    BY <2>1 DEF CompleteTask
<1> QED
    BY <1>1, <1>2, <1>3, <1>4 DEF Next, vars

\* Who marks a provider ON_TASK.
LEMMA DutyMoves ==
    ASSUME OInv, [Next]_vars, NEW v \in Provider, duty'[v] = "ON_TASK"
    PROVE  /\ duty[v] = "ON_TASK" \/ \E h \in running : AcceptDuty(h) /\ h.user = v
           /\ \A h \in running : SettleProvider(h) => h.user # v
<1>0. duty \in [Provider -> DutyStatus]
    BY DEF OInv, IInv, TypeOK
<1>1. ASSUME NEW h \in running, HandlerStep(h) \/ Crash(h)
      PROVE  UNCHANGED duty \/ CancelReleases(h) \/ AcceptDuty(h) \/ SettleProvider(h)
    BY <1>1 DEF HandlerStep, RequestStep, JobStep, ReviewStep, Crash, ConfirmDraft, CancelDraft, CancelTask,
       CancelAssignment, AcceptTask, AcceptAssignment, StartTask, StartAssignment, RequestAdjustment,
       ApproveAdjustment, RejectAdjustment, SettleTask, SettlePay, QueuePayout, InsertReview,
       AddCredibility, ThreeStars, QueueScore, RevealOne, RevealDone, rowVars
<1>2. \A h \in running : CancelReleases(h) \/ SettleProvider(h) =>
          duty'[v] = duty[v] \/ duty'[v] = "ONLINE_AVAILABLE"
    BY <1>0 DEF CancelReleases, SettleProvider
<1>3. \A h \in running : AcceptDuty(h) => duty'[v] = duty[v] \/ h.user = v
    BY <1>0 DEF AcceptDuty
<1>4. \A h \in running : SettleProvider(h) => h.user # v
    BY <1>0 DEF SettleProvider
<1>5. \A m \in msgs : Deliver(m) \/ SyncScore(m) => UNCHANGED duty
    BY DEF Deliver, CompletionJob, PayOnline, PayInCash, SyncScore, rowVars
<1>6. ASSUME NEW u \in Task, UserRequest(u)
      PROVE  duty'[v] = duty[v] \/ duty'[v] = "ON_DISPATCH"
  <2>1. CASE UNCHANGED duty
    BY <2>1
  <2>2. CASE \E p \in Provider : BeginAccept(u, p)
    BY <1>0, <2>2 DEF BeginAccept
  <2> QED
    BY <1>6, <2>1, <2>2 DEF UserRequest, CustomerRequest, ProviderRequest, BeginConfirmDraft,
       BeginCancelDraft, BeginCancelTask, BeginAdminCancelTask, BeginRespond, BeginStartTask,
       BeginRequestAdjustment, BeginReview, rowVars
<1>7. \A u \in Task : External(u) => UNCHANGED duty
    BY DEF External, CreateTask, CustomerPays, TellPin, CompleteTask, rowVars
<1> QED
    BY <1>1, <1>2, <1>3, <1>4, <1>5, <1>6, <1>7 DEF Next, vars, rowVars

\* A handler that holds a task before the step still does after it.
LEMMA HoldingStays ==
    ASSUME HeldInv, [Next]_vars, NEW h \in running
    PROVE  (h.pc \in Placing /\ h \in running') \/ h.pc \in Workers => Holding(h)'
<1>1. /\ h.task \in Task /\ HandlerOK(h)
      /\ h.pc \in Placing \cup Workers => task[h.task].provider = h.user
    BY Typed DEF HeldInv, OInv, Holding
<1>2. CASE h.pc \in Workers
  <2>1. told[h.task] # {}
    BY <1>1, <1>2 DEF HandlerOK, Pin
  <2>2. task'[h.task].provider = task[h.task].provider
    BY <1>1, <2>1, ProviderStays DEF HeldInv
  <2> QED
    BY <1>1, <1>2, <2>2 DEF Holding, Placing, Workers
<1>3. CASE h.pc \in Placing /\ h \in running'
  <2>1. h.pc \in Accepting /\ h.user # NoProvider /\ h.pc \in Opening
    BY <1>1, <1>3, ConstantsAssumption DEF HandlerOK, Placing, Accepting, Opening
  <2>2. task'[h.task].provider = h.user
    BY <1>1, <1>3, <2>1, PlacedKept
  <2>3. task[h.task].status \in {"ASSIGNED", "CANCELLED"} /\ "completion" \notin told[h.task]
    BY <1>3 DEF HeldInv, Holding
  <2>4. task'[h.task].status \in {"ASSIGNED", "CANCELLED"}
    <3>1. ASSUME NEW g \in running, g.task = h.task, ConfirmDraft(g) \/ AcceptTask(g)
          PROVE  FALSE
      <4>1. g.pc \in Opening /\ g.pc \in {"confirm", "accept"}
        BY <3>1 DEF ConfirmDraft, AcceptTask, At, Opening, Accepting
      <4> QED
        BY <1>3, <2>1, <3>1, <4>1 DEF HeldInv, OInv, Order, Placing
    <3>2. ASSUME NEW g \in running, g.task = h.task, CancelDraft(g)
          PROVE  FALSE
      BY <2>1, <3>2, <1>1 DEF CancelDraft, At, HandlerOK, Past, Dropping
    <3>3. ASSUME NEW g \in running, g.task = h.task, StartTask(g)
          PROVE  FALSE
      BY <1>3, <3>3 DEF StartTask, At, HeldInv, Unstarted
    <3>4. ASSUME NEW g \in running, g.task = h.task, SettleTask(g)
          PROVE  FALSE
      <4>1. told[h.task] = Pin
        BY <3>4, Typed DEF SettleTask, At, Workers, HandlerOK, HeldInv, OInv
      <4> QED
        BY <2>3, <4>1 DEF Pin
    <3>5. ~CreateTask(h.task)
      BY <2>3 DEF CreateTask
    <3> QED
      BY <1>1, <2>3, <3>1, <3>2, <3>3, <3>4, <3>5, RowMoves DEF HeldInv
  <2>5. "completion" \notin told'[h.task]
    <3>1. CASE UNCHANGED told
      BY <2>3, <3>1
    <3>2. ASSUME NEW u \in Task, NEW pin \in Pin, TellPin(u, pin)
          PROVE  "completion" \notin told'[h.task]
      <4>1. told'[h.task] = IF h.task = u THEN told[u] \cup {pin} ELSE told[h.task]
        BY <1>1, <3>2 DEF TellPin, HeldInv, OInv, IInv, TypeOK
      <4>2. u = h.task => pin # "completion"
        BY <2>3, <3>2 DEF TellPin
      <4> QED
        BY <2>3, <4>1, <4>2
    <3> QED
      BY <3>1, <3>2, PinMoves
  <2> QED
    BY <1>3, <2>2, <2>4, <2>5 DEF Holding, Placing, Workers
<1> QED
    BY <1>2, <1>3

LEMMA HoldingBegins ==
    ASSUME HeldInv, [Next]_vars, NEW w \in running' \ running
    PROVE  Holding(w)'
<1>1. ASSUME NEW h \in running, HandlerStep(h) \/ Crash(h)
      PROVE  Holding(w)'
  <2>1. h.task \in Task /\ HandlerOK(h) /\ w.task = h.task /\ w.user = h.user
    BY <1>1, Typed, Follows DEF HeldInv, OInv
  <2>2. CASE AcceptTask(h) /\ w.pc = "accept_row"
    <3>1. task' = [task EXCEPT ![h.task].status = "ASSIGNED", ![h.task].provider = h.user] /\ UNCHANGED told
      BY <2>2 DEF AcceptTask
    <3>2. task \in [Task -> TaskRow] /\ task[h.task] \in TaskRow
      BY <2>1 DEF HeldInv, OInv, IInv, TypeOK
    <3>3. task'[h.task].status = "ASSIGNED" /\ task'[h.task].provider = h.user
      BY <2>1, <3>1, <3>2 DEF TaskRow
    <3>4. told[h.task] = {}
      BY <2>1, <2>2, ToldIsOpened DEF HeldInv, AcceptTask, At
    <3> QED
      BY <2>1, <2>2, <3>1, <3>3, <3>4 DEF Holding, Workers
  <2>3. CASE AcceptAssignment(h) /\ w.pc = "accept_duty"
    <3>1. UNCHANGED <<task, told>> /\ h.pc \in Placing
      BY <2>3 DEF AcceptAssignment, At, Placing
    <3>2. Holding(h)
      BY DEF HeldInv
    <3> QED
      BY <2>1, <2>3, <3>1, <3>2 DEF Holding, Workers
  <2>4. CASE SettleTask(h) \/ SettleProvider(h)
    <3>1. h.pc \in Workers
      BY <2>4 DEF SettleTask, SettleProvider, At, Workers
    <3>2. h.user = task[h.task].provider /\ told[h.task] # {}
      BY <2>1, <3>1 DEF HandlerOK, Pin, HeldInv, Holding
    <3>3. task'[h.task].provider = task[h.task].provider
      BY <2>1, <3>2, ProviderStays DEF HeldInv
    <3>4. w.pc \notin Placing
      BY <1>1, <2>4, Follows DEF HeldInv, SettleTask, SettleProvider, AcceptTask, AcceptAssignment, At,
         Placing, Showing
    <3> QED
      BY <2>1, <3>2, <3>3, <3>4 DEF Holding
  <2>5. CASE w.pc \in {"cancel_row", "cancel_duty", "start_row"} \cup Showing
    BY <2>5 DEF Holding, Placing, Workers, Showing
  <2> QED
    BY <1>1, <2>2, <2>3, <2>4, <2>5, Follows DEF HeldInv
<1>2. ASSUME NEW m \in msgs, Deliver(m) \/ SyncScore(m)
      PROVE  Holding(w)'
  <2>1. m.kind \in Jobs /\ m.task \in Task /\ w.task = m.task /\ w.user = m.user /\ w.pc \in {"settle", "pay_queue"}
    BY <1>2, JobBegins DEF HeldInv
  <2>2. m.user = task[m.task].provider /\ told[m.task] # {}
    BY <2>1 DEF HeldInv, JobOK, OInv, IInv, MessageOK, Pin
  <2>3. task'[m.task].provider = task[m.task].provider
    BY <2>1, <2>2, ProviderStays DEF HeldInv
  <2> QED
    BY <2>1, <2>2, <2>3 DEF Holding, Placing
<1>3. ASSUME NEW t \in Task, UserRequest(t)
      PROVE  Holding(w)'
  <2>1. w.pc \in {"confirm", "cancel", "accept", "review", "drop", "start", "ask"} \cup Responding
    BY <1>3, Begins DEF HeldInv
  <2> QED
    BY <2>1 DEF Holding, Placing, Workers, Responding
<1> QED
    BY <1>1, <1>2, <1>3, OutsideRunsNothing DEF Next, vars

\* A task is started by the provider who was placed on it, and not before
\* that one's acceptance has ended.
LEMMA UnstartedKept ==
    ASSUME HeldInv, [Next]_vars
    PROVE  Unstarted'
<1> SUFFICES ASSUME NEW g \in running', NEW h \in running',
                    g.pc \in Placing, h.pc = "start", g.task = h.task
             PROVE  FALSE
    BY DEF Unstarted
<1>1. CASE g \in running /\ h \in running
    BY <1>1 DEF HeldInv, Unstarted
<1>2. CASE h \notin running
  <2>1. PICK t \in Task : UserRequest(t)
    BY <1>2, Follows, JobBegins, OutsideRunsNothing DEF HeldInv, Next, vars, Showing
  <2>2. h.task = t /\ h.user \in Provider /\ BeginStartTask(t, h.user)
    BY <1>2, <2>1, Begins DEF HeldInv, Responding
  <2>3. g \in running
    <3>1. \A w \in running' \ running : w.pc \notin Placing
      BY <2>1, Begins DEF HeldInv, Placing, Responding
    <3> QED
      BY <3>1
  <2>4. assignment[t].provider = h.user /\ ~Busy(t, h.user)
    BY <2>2 DEF BeginStartTask, MayStart, Assigned, Load
  <2>5. task[t].provider = h.user
    BY <2>2, <2>4, ConstantsAssumption DEF HeldInv, PlacedOK
  <2>6. g.user = task[t].provider
    BY <2>2, <2>3 DEF HeldInv, Holding
  <2> QED
    BY <2>2, <2>3, <2>4, <2>5, <2>6 DEF Busy, Placing, Workers
<1>3. CASE h \in running /\ g \notin running
  <2>1. PICK f \in running : HandlerStep(f) \/ Crash(f)
    BY <1>3, Begins, JobBegins, OutsideRunsNothing DEF HeldInv, Next, vars, Placing, Responding
  <2>2. f.task = g.task /\ f.pc \in {"accept", "accept_row"}
    BY <1>3, <2>1, Follows DEF HeldInv, Placing, Showing, AcceptTask, AcceptAssignment, At, SettleTask,
       SettleProvider
  <2>3. CASE f.pc = "accept_row"
    BY <1>3, <2>2, <2>3 DEF HeldInv, Unstarted, Placing
  <2>4. CASE f.pc = "accept"
    <3>1. told[f.task] # {} /\ f.task \in Task
      BY <1>3, <2>2, Typed DEF HeldInv, OInv, HandlerOK
    <3> QED
      BY <2>4, <3>1, ToldIsOpened DEF HeldInv
  <2> QED
    BY <2>2, <2>3, <2>4
<1> QED
    BY <1>1, <1>2, <1>3

\* Completions and payments are those of the task's provider.
LEMMA JobsKept ==
    ASSUME HeldInv, [Next]_vars, NEW m \in msgs'
    PROVE  JobOK(m)'
<1> SUFFICES ASSUME m.kind \in Jobs
             PROVE  m.user = task'[m.task].provider
    BY DEF JobOK
<1>1. m.task \in Task /\ m.user = task[m.task].provider /\ task[m.task].provider # NoProvider
  <2>1. CASE m \in msgs
    <3>1. m.task \in Task /\ told[m.task] # {} /\ m.user = task[m.task].provider
      BY <2>1 DEF HeldInv, OInv, IInv, TypeOK, Message, Jobs, MessageOK, JobOK, Pin
    <3> QED
      BY <3>1, Rows DEF HeldInv, OInv, TaskOK, Lasting
  <2>2. ASSUME NEW t \in Task, NEW v \in Provider, NEW mode \in PaymentMode,
               CompleteTask(t, v, mode), m.task = t, m.user = v
        PROVE  m.task \in Task /\ m.user = task[m.task].provider /\ task[m.task].provider # NoProvider
    <3>1. assignment[t].provider = v
      BY <2>2 DEF CompleteTask, MayComplete, Assigned
    <3> QED
      BY <2>2, <3>1, ConstantsAssumption DEF HeldInv, PlacedOK
  <2>3. ASSUME NEW h \in running, SettlePay(h), m.task = h.task, m.user = h.user
        PROVE  m.task \in Task /\ m.user = task[m.task].provider /\ task[m.task].provider # NoProvider
    <3>1. h.pc \in Workers
      BY <2>3 DEF SettlePay, At, Workers
    <3>2. h.task \in Task /\ told[h.task] # {} /\ h.user = task[h.task].provider
      BY <3>1, Typed DEF HeldInv, OInv, HandlerOK, Pin, Holding
    <3> QED
      BY <2>3, <3>2, Rows DEF HeldInv, OInv, TaskOK, Lasting
  <2> QED
    BY <2>1, <2>2, <2>3, JobsQueued DEF HeldInv
<1> QED
    BY <1>1, PlacedKept

LEMMA DutyKept ==
    ASSUME HeldInv, [Next]_vars
    PROVE  HeldForAReason'
<1> SUFFICES ASSUME crashes' = 0, NEW v \in Provider, duty'[v] = "ON_TASK"
             PROVE  \E t \in Task : /\ task'[t].provider = v
                                    /\ task'[t].status # "COMPLETED" \/ Running(t, {"settle_duty"})'
    BY DEF HeldForAReason
<1>1. crashes = 0 /\ \A h \in running : ~Crash(h)
  <2>1. \A h \in running : ~Crash(h)
    BY DEF Crash, HeldInv, OInv, IInv, TypeOK
  <2> QED
    BY <2>1, HandlersLeave, MessagesLeave, RequestsAdd DEF Next, vars, boundVars
<1>2. ASSUME NEW h \in running, AcceptDuty(h), h.user = v
      PROVE  \E t \in Task : task'[t].provider = v /\ task'[t].status # "COMPLETED"
  <2>1. h.task \in Task /\ h.pc \in Placing /\ UNCHANGED task
    BY <1>2, Typed DEF AcceptDuty, At, Placing, HeldInv, OInv
  <2>2. task[h.task].provider = v /\ task[h.task].status # "COMPLETED"
    BY <1>2, <2>1 DEF HeldInv, Holding
  <2> QED
    BY <2>1, <2>2
<1>3. ASSUME NEW t \in Task, task[t].provider = v,
             task[t].status # "COMPLETED" \/ Running(t, {"settle_duty"})
      PROVE  task'[t].provider = v /\ (task'[t].status # "COMPLETED" \/ Running(t, {"settle_duty"})')
  <2>1. task'[t].provider = v
    BY <1>3, PlacedKept, ConstantsAssumption
  <2>2. ASSUME NEW h \in running, h.task = t, SettleTask(h)
        PROVE  Running(t, {"settle_duty"})'
    <3>1. PICK w : w = [h EXCEPT !.pc = "settle_duty"]
      OBVIOUS
    <3>2. w.pc = "settle_duty" /\ w.task = t /\ w \in running'
      BY <2>2, <3>1, Typed, Leaves DEF HeldInv, OInv, SettleTask, Goto, Become
    <3> QED
      BY <3>2 DEF Running
  <2>3. ASSUME NEW g \in running, g.task = t, g.pc = "settle_duty", g \notin running'
        PROVE  FALSE
    <3>1. HandlerStep(g)
      <4>1. \A h \in running : HandlerStep(h) => h = g
        BY <2>3, HandlersLeave
      <4> QED
        BY <1>1, <2>3, <4>1, MessagesLeave, RequestsAdd DEF Next, vars
    <3>2. SettleProvider(g)
      BY <2>3, <3>1 DEF HandlerStep, RequestStep, JobStep, ReviewStep, At, ConfirmDraft, CancelDraft,
         CancelTask, CancelAssignment, CancelReleases, AcceptTask, AcceptAssignment, AcceptDuty, StartTask,
         StartAssignment, RequestAdjustment, ApproveAdjustment, RejectAdjustment, SettleTask, SettlePay,
         QueuePayout, InsertReview, AddCredibility, ThreeStars, QueueScore, RevealOne, RevealDone
    <3>3. g.user = v
      BY <1>3, <2>3 DEF HeldInv, Holding, Workers
    <3> QED
      BY <3>2, <3>3, DutyMoves DEF HeldInv
  <2>4. CASE Running(t, {"settle_duty"})
    BY <2>1, <2>3, <2>4 DEF Running
  <2>5. CASE task[t].status # "COMPLETED"
    <3>1. task'[t].status = "COMPLETED" => \E h \in running : h.task = t /\ SettleTask(h)
      BY <2>5, RowMoves, Defaults DEF HeldInv
    <3> QED
      BY <2>1, <2>2, <3>1
  <2> QED
    BY <1>3, <2>4, <2>5
<1> QED
    BY <1>1, <1>2, <1>3, DutyMoves DEF HeldInv, HeldForAReason

LEMMA HeldKept ==
    ASSUME HeldInv, OInv', [Next]_vars
    PROVE  HeldInv'
<1>1. \A h \in running' : Holding(h)'
  <2>1. ASSUME NEW h \in running', h \in running
        PROVE  Holding(h)'
    BY <2>1, HoldingStays DEF Holding
  <2> QED
    BY <2>1, HoldingBegins
<1> QED
    BY <1>1, PlacedKept, UnstartedKept, JobsKept, DutyKept DEF HeldInv

\* A provider is kept from new work only by a task of its own that is not
\* completed, or for as long as the completion that frees it is under way,
\* unless a worker died; for any tasks, providers and bounds.
THEOREM HeldOnlyForAReason == Spec => []HeldForAReason
<1>1. Init /\ OInv => HeldInv
    BY Defaults DEF Init, HeldInv, PlacedOK, NoAssignment, Unstarted, HeldForAReason
<1>2. HeldInv => HeldForAReason
    BY DEF HeldInv
<1> QED
    BY <1>1, <1>2, HeldKept, AlwaysOInv, PTL DEF Spec
=============================================================================
