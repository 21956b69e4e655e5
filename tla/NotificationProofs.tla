------------------------- MODULE NotificationProofs -------------------------
(***************************************************************************)
(* Type correctness and the safety theorems of NotificationSystem.         *)
(***************************************************************************)
EXTENDS NotificationSystem, FiniteSetTheorems, SequenceTheorems, TLAPS

-----------------------------------------------------------------------------
(***************************************************************************)
(* Types.  Besides the type of its row a job names rows that exist, and a  *)
(* handler is at a label of its kind of job.                               *)
(***************************************************************************)
Making == {"recipients", "enqueue", "pages"}
Batching == {"insert", "sent", "queue", "publish"}
Sending == {"send", "record"}
Final == {"DELIVERED", "FAILED", "PERMANENT_FAILURE"}

JobOK(job) ==
    /\ job.kind = "fan_out" => \E n \in DOMAIN notification : job.ids = {n}
    /\ job.kind = "batch" => job.ids \subseteq DOMAIN recipient
    /\ job.kind \in Channel => job.ids \subseteq DOMAIN delivery

HandlerOK(h) ==
    /\ JobOK(h.job)
    /\ h.pc \in Making => h.job.kind = "fan_out"
    /\ h.pc \in Batching => h.job.kind = "batch"
    /\ h.pc \in Sending => h.job.kind \in Channel
    /\ h.pc # "add"
    /\ h.pc = "recipients" => h.users # {}
    /\ h.pc # "pages" => h.k = 0
    /\ h.made \subseteq DOMAIN delivery
    /\ \A o \in h.out : o[1] \in DOMAIN delivery /\ o[2] \in Final
    /\ h.pc = "record" => h.out # {}

RowsTyped ==
    /\ notification \in Seq(Notification) /\ recipient \in Seq(Recipient) /\ delivery \in Seq(Delivery)
    /\ \A i \in DOMAIN recipient : recipient[i].notification \in DOMAIN notification
    /\ \A d \in DOMAIN delivery : delivery[d].recipient \in DOMAIN recipient
    /\ accepted \in [DOMAIN delivery -> Nat]
    /\ repeated \subseteq DOMAIN recipient /\ lost \subseteq DOMAIN recipient

WorkTyped ==
    /\ jobs \subseteq Job /\ running \subseteq Handler /\ IsFiniteSet(running)
    /\ \A g, h \in running : g.id = h.id => g = h
    /\ \A job \in jobs : JobOK(job)
    /\ \A h \in running : HandlerOK(h)

StreamsTyped ==
    /\ published \in Seq(User) /\ failures \in 0 .. MaxFailures
    /\ sse \in Seq(SSEConnection) /\ ws \in Seq(WebSocket)
    /\ sseOf \in [User -> 0 .. Len(sse)] /\ wsOf \in [User -> 0 .. Len(ws)]
    /\ crossed \subseteq User

TypeInv == RowsTyped /\ WorkTyped /\ StreamsTyped

-----------------------------------------------------------------------------
(***************************************************************************)
(* Jobs, handlers and tables.                                              *)
(***************************************************************************)
LEMMA Kinds == "fan_out" \notin Channel /\ "batch" \notin Channel
BY ConstantsAssumption

LEMMA NewJobs ==
    ASSUME NEW kind \in Kind, NEW ids \in SUBSET Nat
    PROVE  /\ NewJob(kind, ids) \in Job
           /\ NewJob(kind, ids).kind = kind /\ NewJob(kind, ids).ids = ids
<1> DEFINE zero == 0
<1>1. zero \in Nat
    OBVIOUS
<1>2. NewJob(kind, ids) = [kind |-> kind, ids |-> ids, tries |-> zero]
    BY DEF NewJob
<1> HIDE DEF zero
<1> QED
    BY <1>1, <1>2 DEF Job

LEMMA JobTypes ==
    ASSUME NEW job \in Job
    PROVE  /\ job.kind \in Kind /\ job.ids \in SUBSET Nat /\ job.tries \in Nat
           /\ [job EXCEPT !.tries = job.tries + 1] \in Job
           /\ [job EXCEPT !.tries = job.tries + 1].kind = job.kind
           /\ [job EXCEPT !.tries = job.tries + 1].ids = job.ids
BY DEF Job

LEMMA HandlerTypes ==
    ASSUME NEW h \in Handler
    PROVE  /\ h.id \in Nat /\ h.job \in Job /\ h.pc \in Label /\ h.k \in Nat
           /\ h.users \in SUBSET User /\ h.left \in SUBSET Channel
           /\ h.made \in SUBSET Nat /\ h.out \in SUBSET (Nat \X DeliveryStatus)
BY DEF Handler

\* A handler that starts has nothing yet.
LEMMA NewHandlers ==
    ASSUME FreeId \in Nat, NEW job \in Job, NEW label \in Label, NEW users \in SUBSET User
    PROVE  /\ [New(job, label) EXCEPT !.users = users] \in Handler
           /\ LET g == [New(job, label) EXCEPT !.users = users]
              IN /\ g.id = FreeId /\ g.job = job /\ g.pc = label /\ g.k = 0 /\ g.users = users
                 /\ g.left = {} /\ g.made = {} /\ g.out = {}
<1> DEFINE zero == 0
           none == {}
<1>1. zero \in Nat /\ none \in SUBSET Channel /\ none \in SUBSET Nat
      /\ none \in SUBSET (Nat \X DeliveryStatus) /\ zero = 0 /\ none = {}
    OBVIOUS
<1>2. [New(job, label) EXCEPT !.users = users] =
          [id |-> FreeId, job |-> job, pc |-> label, k |-> zero, users |-> users, left |-> none,
           made |-> none, out |-> none]
    BY DEF New
<1> HIDE DEF zero, none
<1> QED
    BY <1>1, <1>2 DEF Handler

LEMMA StartedHandlers ==
    ASSUME FreeId \in Nat, NEW job \in Job, NEW label \in Label
    PROVE  /\ New(job, label) \in Handler
           /\ LET g == New(job, label)
              IN /\ g.id = FreeId /\ g.job = job /\ g.pc = label /\ g.k = 0
                 /\ g.left = {} /\ g.made = {} /\ g.out = {}
<1> DEFINE zero == 0
           none == {}
<1>1. zero \in Nat /\ none \in SUBSET Channel /\ none \in SUBSET Nat /\ none \in SUBSET User
      /\ none \in SUBSET (Nat \X DeliveryStatus) /\ zero = 0 /\ none = {}
    OBVIOUS
<1>2. New(job, label) =
          [id |-> FreeId, job |-> job, pc |-> label, k |-> zero, users |-> none, left |-> none,
           made |-> none, out |-> none]
    BY DEF New
<1> HIDE DEF zero, none
<1> QED
    BY <1>1, <1>2 DEF Handler

LEMMA FreeIds ==
    ASSUME IsFiniteSet(running), Free
    PROVE  FreeId \in Nat /\ \A h \in running : h.id # FreeId
<1> DEFINE Ids == 1 .. MaxRunning
<1>1. MaxRunning \in Nat
    BY ConstantsAssumption
<1>2. IsFiniteSet(Ids) /\ Cardinality(Ids) = MaxRunning
    BY <1>1, FS_Interval
<1>3. Ids \subseteq Nat
    OBVIOUS
<1> HIDE DEF Ids
<1>4. \E i \in Ids : \A h \in running : h.id # i
  <2> SUFFICES ASSUME \A i \in Ids : \E h \in running : h.id = i
               PROVE  FALSE
      OBVIOUS
  <2> DEFINE f == [i \in Ids |-> CHOOSE h \in running : h.id = i]
  <2>1. \A i \in Ids : f[i] \in running /\ f[i].id = i
      OBVIOUS
  <2>2. f \in [Ids -> running]
      BY <2>1
  <2> HIDE DEF f
  <2>3. \E i, j \in Ids : i # j /\ f[i] = f[j]
      BY <1>2, <2>2, FS_PigeonHole DEF Free
  <2> QED
      BY <2>1, <2>3
<1>5. FreeId \in Ids /\ \A h \in running : h.id # FreeId
    BY <1>4 DEF FreeId, Ids
<1> QED
    BY <1>3, <1>5

\* A table is a sequence; with one more row it is a longer table.
LEMMA Table ==
    ASSUME NEW S, NEW n \in Nat, NEW s \in [1 .. n -> S]
    PROVE  s \in Seq(S) /\ Len(s) = n
BY SeqDef, LenProperties

LEMMA AppendRow ==
    ASSUME NEW S, NEW s \in Seq(S), NEW x \in S
    PROVE  /\ Append(s, x) \in Seq(S) /\ Len(Append(s, x)) = Len(s) + 1
           /\ DOMAIN s = 1 .. Len(s) /\ DOMAIN Append(s, x) = 1 .. Len(s) + 1
           /\ \A i \in DOMAIN s : Append(s, x)[i] = s[i]
           /\ Append(s, x)[Len(s) + 1] = x
           /\ Len(s) \in Nat
<1>1. Append(s, x) \in Seq(S) /\ Len(Append(s, x)) = Len(s) + 1
    BY AppendProperties
<1>2. DOMAIN s = 1 .. Len(s) /\ DOMAIN Append(s, x) = 1 .. Len(s) + 1 /\ Len(s) \in Nat
    BY <1>1, LenProperties
<1> QED
    BY <1>1, <1>2, AppendProperties

LEMMA RowTypes ==
    ASSUME RowsTyped
    PROVE  /\ DOMAIN notification = 1 .. Len(notification) /\ Len(notification) \in Nat
           /\ DOMAIN recipient = 1 .. Len(recipient) /\ Len(recipient) \in Nat
           /\ DOMAIN delivery = 1 .. Len(delivery) /\ Len(delivery) \in Nat
           /\ \A n \in DOMAIN notification : notification[n] \in Notification
           /\ \A i \in DOMAIN recipient : recipient[i] \in Recipient
           /\ \A d \in DOMAIN delivery : delivery[d] \in Delivery
BY LenProperties, ElementOfSeq DEF RowsTyped

-----------------------------------------------------------------------------
(***************************************************************************)
(* What a step does to the jobs and the handlers.  Rows are only added.    *)
(***************************************************************************)
Grown ==
    /\ DOMAIN notification \subseteq DOMAIN notification'
    /\ DOMAIN recipient \subseteq DOMAIN recipient'
    /\ DOMAIN delivery \subseteq DOMAIN delivery'

LEMMA OKStays ==
    ASSUME Grown
    PROVE  /\ \A job : JobOK(job) => JobOK(job)'
           /\ \A h : HandlerOK(h) => HandlerOK(h)'
<1>1. ASSUME NEW job, JobOK(job)
      PROVE  JobOK(job)'
    BY <1>1 DEF JobOK, Grown
<1>2. ASSUME NEW h, HandlerOK(h)
      PROVE  HandlerOK(h)'
    BY <1>1, <1>2 DEF HandlerOK, Grown
<1> QED
    BY <1>1, <1>2

LEMMA WorkStays ==
    ASSUME WorkTyped, Grown, UNCHANGED running,
           jobs' \subseteq Job, \A job \in jobs' : job \in jobs \/ JobOK(job)'
    PROVE  WorkTyped'
<1>1. \A job \in jobs' : JobOK(job)'
    BY OKStays DEF WorkTyped
<1>2. \A h \in running' : HandlerOK(h)'
    BY OKStays DEF WorkTyped
<1> QED
    BY <1>1, <1>2 DEF WorkTyped

LEMMA WorkBegins ==
    ASSUME WorkTyped, Grown, Free, NEW g \in Handler, g.id = FreeId,
           running' = running \cup {g}, HandlerOK(g)', jobs' \subseteq jobs
    PROVE  WorkTyped'
<1>1. \A job \in jobs' : JobOK(job)'
    BY OKStays DEF WorkTyped
<1>2. \A h \in running' : HandlerOK(h)'
    BY OKStays DEF WorkTyped
<1>3. IsFiniteSet(running') /\ \A h \in running : h.id # g.id
    BY FreeIds, FS_AddElement DEF WorkTyped
<1> QED
    BY <1>1, <1>2, <1>3 DEF WorkTyped

LEMMA WorkGoesOn ==
    ASSUME WorkTyped, Grown, NEW h \in running, NEW g \in Handler, g.id = h.id,
           Become(h, g), HandlerOK(g)',
           jobs' \subseteq Job, \A job \in jobs' : job \in jobs \/ JobOK(job)'
    PROVE  WorkTyped'
<1>1. \A job \in jobs' : JobOK(job)'
    BY OKStays DEF WorkTyped
<1>2. running' = (running \ {h}) \cup {g}
    BY DEF Become
<1>3. \A e \in running' : HandlerOK(e)'
    BY <1>2, OKStays DEF WorkTyped
<1>4. IsFiniteSet(running')
    BY <1>2, FS_AddElement, FS_RemoveElement DEF WorkTyped
<1> QED
    BY <1>1, <1>2, <1>3, <1>4 DEF WorkTyped

LEMMA WorkEnds ==
    ASSUME WorkTyped, Grown, NEW h \in running, Finish(h),
           jobs' \subseteq Job, \A job \in jobs' : job \in jobs \/ JobOK(job)'
    PROVE  WorkTyped'
<1>1. \A job \in jobs' : JobOK(job)'
    BY OKStays DEF WorkTyped
<1>2. running' = running \ {h}
    BY DEF Finish
<1>3. \A e \in running' : HandlerOK(e)'
    BY <1>2, OKStays DEF WorkTyped
<1>4. IsFiniteSet(running')
    BY <1>2, FS_RemoveElement DEF WorkTyped
<1> QED
    BY <1>1, <1>2, <1>3, <1>4 DEF WorkTyped

LEMMA Running ==
    ASSUME TypeInv, NEW h \in running
    PROVE  h \in Handler /\ HandlerOK(h) /\ h.job \in Job /\ JobOK(h.job)
BY HandlerTypes DEF TypeInv, WorkTyped, HandlerOK

LEMMA ReachedRows ==
    ASSUME TypeInv, NEW job \in Job, JobOK(job)
    PROVE  Reaches(job) \subseteq DOMAIN recipient
<1>1. CASE job.kind = "fan_out"
    BY <1>1 DEF Reaches, RecipientsOf
<1>2. CASE job.kind = "batch"
    BY <1>2 DEF Reaches, JobOK
<1>3. CASE job.kind \in Channel
  <2>1. Reaches(job) = {delivery[d].recipient : d \in job.ids}
      BY <1>3, Kinds DEF Reaches
  <2> QED
      BY <1>3, <2>1 DEF JobOK, TypeInv, RowsTyped
<1> QED
    BY <1>1, <1>2, <1>3, JobTypes DEF Kind

LEMMA Unmoved ==
    ASSUME UNCHANGED rowVars
    PROVE  Grown
BY DEF rowVars, Grown

-----------------------------------------------------------------------------
(***************************************************************************)
(* Requests and fan-outs.                                                  *)
(***************************************************************************)
\* A new notification, and the request that goes on with it.
LEMMA Creates ==
    ASSUME TypeInv, CreateNotification(Channel, User)
    PROVE  \E n \in Nat, g \in Handler :
               /\ n = Len(notification) + 1
               /\ notification' = Append(notification, [channels |-> Channel])
               /\ running' = running \cup {g}
               /\ g.id = FreeId /\ g.job \in Job /\ g.job.kind = "fan_out" /\ g.job.ids = {n}
               /\ g.k = 0 /\ g.users = User /\ g.made = {} /\ g.out = {}
               /\ g.pc \in {"recipients", "enqueue"} /\ (g.pc = "recipients" => User # {})
<1>1. PICK n : n = Len(notification) + 1
    OBVIOUS
<1>2. n \in Nat
    BY <1>1, RowTypes DEF TypeInv
<1>3. PICK job : job = NewJob("fan_out", {n})
    OBVIOUS
<1>4. job \in Job /\ job.kind = "fan_out" /\ job.ids = {n}
    BY <1>2, <1>3, NewJobs DEF Kind
<1>5. PICK label : label = IF User = {} THEN "enqueue" ELSE "recipients"
    OBVIOUS
<1>6. label \in {"recipients", "enqueue"} /\ (label = "recipients" => User # {}) /\ label \in Label
    BY <1>5 DEF Label
<1>7. PICK g : g = [New(job, label) EXCEPT !.users = User]
    OBVIOUS
<1>8. FreeId \in Nat
    BY FreeIds DEF CreateNotification, TypeInv, WorkTyped
<1>9. /\ g \in Handler /\ g.id = FreeId /\ g.job = job /\ g.pc = label /\ g.k = 0 /\ g.users = User
      /\ g.made = {} /\ g.out = {}
    BY <1>4, <1>6, <1>7, <1>8, NewHandlers
<1>10. running' = running \cup {g} /\ notification' = Append(notification, [channels |-> Channel])
    BY <1>1, <1>3, <1>5, <1>7 DEF CreateNotification
<1> QED
    BY <1>1, <1>2, <1>4, <1>6, <1>9, <1>10

LEMMA CreateTypes ==
    ASSUME TypeInv, CreateNotification(Channel, User)
    PROVE  TypeInv'
<1>1. PICK n \in Nat, g \in Handler :
               /\ n = Len(notification) + 1
               /\ notification' = Append(notification, [channels |-> Channel])
               /\ running' = running \cup {g}
               /\ g.id = FreeId /\ g.job \in Job /\ g.job.kind = "fan_out" /\ g.job.ids = {n}
               /\ g.k = 0 /\ g.users = User /\ g.made = {} /\ g.out = {}
               /\ g.pc \in {"recipients", "enqueue"} /\ (g.pc = "recipients" => User # {})
    BY Creates
<1>2. UNCHANGED <<recipient, delivery, jobs, published, failures, streamVars, accepted, repeated, lost>> /\ Free
    BY DEF CreateNotification
<1>3. notification' \in Seq(Notification) /\ DOMAIN notification' = DOMAIN notification \cup {n}
  <2>1. [channels |-> Channel] \in Notification
      BY DEF Notification
  <2> QED
      BY <1>1, <2>1, AppendRow DEF TypeInv, RowsTyped
<1>4. Grown
    BY <1>2, <1>3 DEF Grown
<1>5. JobOK(g.job)'
    BY <1>1, <1>3, Kinds DEF JobOK
<1>6. HandlerOK(g)'
    BY <1>1, <1>5 DEF HandlerOK, Making, Batching, Sending
<1>7. WorkTyped'
    BY <1>1, <1>2, <1>4, <1>6, WorkBegins DEF TypeInv
<1>8. RowsTyped'
    BY <1>2, <1>3 DEF TypeInv, RowsTyped
<1> QED
    BY <1>2, <1>7, <1>8 DEF TypeInv, StreamsTyped, streamVars

\* One more recipient, of a notification that exists.
LEMMA Adds ==
    ASSUME TypeInv, NEW h \in running, AddRecipient(h)
    PROVE  \E n \in DOMAIN notification, u \in h.users, g \in Handler :
               /\ h.job.ids = {n} /\ h.pc = "recipients"
               /\ recipient' \in Seq(Recipient)
               /\ DOMAIN recipient' = DOMAIN recipient \cup {Len(recipient) + 1}
               /\ \A i \in DOMAIN recipient : recipient'[i] = recipient[i]
               /\ recipient'[Len(recipient) + 1].notification = n
               /\ Become(h, g)
               /\ g.id = h.id /\ g.job = h.job /\ g.k = h.k /\ g.left = h.left
               /\ g.made = h.made /\ g.out = h.out
               /\ g.pc \in {"recipients", "enqueue"} /\ (g.pc = "recipients" => g.users # {})
<1>1. h \in Handler /\ HandlerOK(h) /\ h.pc = "recipients"
    BY Running DEF AddRecipient
<1>2. PICK n \in DOMAIN notification : h.job.ids = {n}
    BY <1>1 DEF HandlerOK, JobOK, Making
<1> DEFINE u == CHOOSE v \in h.users : TRUE
           g == [h EXCEPT !.users = h.users \ {u}, !.pc = IF h.users = {u} THEN "enqueue" ELSE h.pc]
<1>3. u \in h.users
    BY <1>1 DEF HandlerOK
<1>4. PICK row : row = [notification |-> n, user |-> u, status |-> "PENDING"]
    OBVIOUS
<1>5. Become(h, g)
    BY DEF AddRecipient
<1>6. h.users \ {u} # {} \/ h.users = {u}
    BY <1>3
<1> HIDE DEF u
<1>7. /\ g \in Handler /\ g.id = h.id /\ g.job = h.job /\ g.k = h.k /\ g.left = h.left
      /\ g.made = h.made /\ g.out = h.out
      /\ g.users = h.users \ {u} /\ g.pc = IF h.users = {u} THEN "enqueue" ELSE h.pc
    BY <1>1 DEF Handler, Label
<1> HIDE DEF g
<1>8. g.pc \in {"recipients", "enqueue"} /\ (g.pc = "recipients" => g.users # {})
    BY <1>1, <1>6, <1>7
<1>9. row \in Recipient /\ row.notification = n
  <2>1. u \in User /\ n \in Nat
      BY <1>1, <1>3, HandlerTypes, RowTypes DEF TypeInv
  <2> QED
      BY <1>4, <2>1 DEF Recipient, RecipientStatus
<1>10. recipient' = Append(recipient, row)
    BY <1>2, <1>4 DEF AddRecipient, u
<1>11. /\ recipient' \in Seq(Recipient) /\ DOMAIN recipient' = DOMAIN recipient \cup {Len(recipient) + 1}
       /\ \A i \in DOMAIN recipient : recipient'[i] = recipient[i]
       /\ recipient'[Len(recipient) + 1] = row
    BY <1>9, <1>10, AppendRow DEF TypeInv, RowsTyped
<1> QED
    BY <1>1, <1>2, <1>3, <1>5, <1>7, <1>8, <1>9, <1>11

LEMMA AddTypes ==
    ASSUME TypeInv, NEW h \in running, AddRecipient(h)
    PROVE  TypeInv'
<1>1. PICK n \in DOMAIN notification, u \in h.users, g \in Handler :
               /\ h.job.ids = {n} /\ h.pc = "recipients"
               /\ recipient' \in Seq(Recipient)
               /\ DOMAIN recipient' = DOMAIN recipient \cup {Len(recipient) + 1}
               /\ \A i \in DOMAIN recipient : recipient'[i] = recipient[i]
               /\ recipient'[Len(recipient) + 1].notification = n
               /\ Become(h, g)
               /\ g.id = h.id /\ g.job = h.job /\ g.k = h.k /\ g.left = h.left
               /\ g.made = h.made /\ g.out = h.out
               /\ g.pc \in {"recipients", "enqueue"} /\ (g.pc = "recipients" => g.users # {})
    BY Adds
<1>2. h \in Handler /\ HandlerOK(h) /\ h.pc = "recipients"
    BY Running DEF AddRecipient
<1>3. UNCHANGED <<notification, delivery, jobs, published, failures, streamVars, accepted, repeated, lost>>
    BY DEF AddRecipient
<1>4. Grown
    BY <1>1, <1>3 DEF Grown
<1>5. HandlerOK(g)'
  <2>1. HandlerOK(h)'
      BY <1>2, <1>4, OKStays
  <2> QED
      BY <1>1, <1>2, <2>1 DEF HandlerOK, Making, Batching, Sending
<1>6. WorkTyped'
    BY <1>1, <1>3, <1>4, <1>5, WorkGoesOn DEF TypeInv, WorkTyped
<1>7. RowsTyped'
    BY <1>1, <1>3 DEF TypeInv, RowsTyped
<1> QED
    BY <1>3, <1>6, <1>7 DEF TypeInv, StreamsTyped, streamVars

LEMMA EnqueueTypes ==
    ASSUME TypeInv, NEW h \in running, Enqueue(h)
    PROVE  TypeInv'
<1>1. h.job \in Job /\ JobOK(h.job)
    BY Running
<1>2. /\ Finish(h) /\ jobs' = jobs \cup {h.job}
      /\ UNCHANGED <<rowVars, published, failures, streamVars, accepted, repeated, lost>>
    BY DEF Enqueue
<1>3. Grown
    BY <1>2, Unmoved
<1>4. JobOK(h.job)'
    BY <1>1, <1>3, OKStays
<1>5. WorkTyped'
    BY <1>1, <1>2, <1>3, <1>4, WorkEnds DEF TypeInv, WorkTyped
<1> QED
    BY <1>2, <1>5 DEF TypeInv, RowsTyped, StreamsTyped, streamVars, rowVars

LEMMA Reads ==
    ASSUME TypeInv, NEW i \in DOMAIN recipient, MarkAsRead(i)
    PROVE  /\ recipient' \in Seq(Recipient) /\ DOMAIN recipient' = DOMAIN recipient
           /\ \A j \in DOMAIN recipient : recipient'[j].notification = recipient[j].notification
<1> DEFINE row == [recipient[i] EXCEPT !.status = "READ"]
<1>2. recipient[i] \in Recipient /\ i \in 1 .. Len(recipient) /\ recipient \in Seq(Recipient)
    BY RowTypes DEF TypeInv, RowsTyped
<1>3. row \in Recipient /\ row.notification = recipient[i].notification
    BY <1>2 DEF Recipient, RecipientStatus
<1>4. recipient' = [recipient EXCEPT ![i] = row]
    BY DEF MarkAsRead
<1> HIDE DEF row
<1>5. /\ recipient' \in Seq(Recipient) /\ DOMAIN recipient' = DOMAIN recipient
      /\ \A j \in DOMAIN recipient : recipient'[j].notification = recipient[j].notification
    BY <1>2, <1>3, <1>4, ExceptSeq, RowTypes DEF TypeInv
<1> QED
    BY <1>5

LEMMA ReadTypes ==
    ASSUME TypeInv, NEW i \in DOMAIN recipient, MarkAsRead(i)
    PROVE  TypeInv'
<1>1. UNCHANGED <<notification, delivery, jobs, running, published, failures, streamVars, accepted, repeated, lost>>
    BY DEF MarkAsRead
<1>2. /\ recipient' \in Seq(Recipient) /\ DOMAIN recipient' = DOMAIN recipient
      /\ \A j \in DOMAIN recipient : recipient'[j].notification = recipient[j].notification
    BY Reads
<1>3. Grown
    BY <1>1, <1>2 DEF Grown
<1>4. WorkTyped'
    BY <1>1, <1>3, WorkStays DEF TypeInv, WorkTyped
<1>5. RowsTyped'
    BY <1>1, <1>2 DEF TypeInv, RowsTyped
<1> QED
    BY <1>1, <1>4, <1>5 DEF TypeInv, StreamsTyped, streamVars

LEMMA Starts ==
    ASSUME TypeInv, NEW job \in jobs, StartJob(job)
    PROVE  \E g \in Handler :
               /\ running' = running \cup {g} /\ g.id = FreeId /\ g.job = job
               /\ g.k = 0 /\ g.left = {} /\ g.made = {} /\ g.out = {}
               /\ job.kind = "fan_out" => g.pc = "pages"
               /\ job.kind = "batch" => g.pc = "insert"
               /\ job.kind \in Channel => g.pc = "send"
<1>1. job \in Job /\ job.kind \in Kind
    BY JobTypes DEF TypeInv, WorkTyped
<1>2. PICK label : label = CASE job.kind = "fan_out" -> "pages"
                             [] job.kind = "batch" -> "insert"
                             [] OTHER -> "send"
    OBVIOUS
<1>3. /\ label \in Label
      /\ job.kind = "fan_out" => label = "pages"
      /\ job.kind = "batch" => label = "insert"
      /\ job.kind \in Channel => label = "send"
  <2>1. CASE job.kind = "fan_out"
      BY <1>2, <2>1, Kinds DEF Label
  <2>2. CASE job.kind = "batch"
      BY <1>2, <2>2, Kinds DEF Label
  <2>3. CASE job.kind \in Channel
    <3>1. label = "send"
        BY <1>2, <2>3, Kinds
    <3> QED
        BY <2>3, <3>1, Kinds DEF Label
  <2> QED
      BY <1>1, <2>1, <2>2, <2>3 DEF Kind
<1>4. PICK g : g = New(job, label)
    OBVIOUS
<1>5. FreeId \in Nat
    BY FreeIds DEF StartJob, TypeInv, WorkTyped
<1>6. /\ g \in Handler /\ g.id = FreeId /\ g.job = job /\ g.pc = label /\ g.k = 0
      /\ g.left = {} /\ g.made = {} /\ g.out = {}
    BY <1>1, <1>3, <1>4, <1>5, StartedHandlers
<1>7. running' = running \cup {g}
    BY <1>2, <1>4 DEF StartJob
<1> QED
    BY <1>3, <1>6, <1>7

LEMMA StartTypes ==
    ASSUME TypeInv, NEW job \in jobs, StartJob(job)
    PROVE  TypeInv'
<1>1. PICK g \in Handler :
               /\ running' = running \cup {g} /\ g.id = FreeId /\ g.job = job
               /\ g.k = 0 /\ g.left = {} /\ g.made = {} /\ g.out = {}
               /\ job.kind = "fan_out" => g.pc = "pages"
               /\ job.kind = "batch" => g.pc = "insert"
               /\ job.kind \in Channel => g.pc = "send"
    BY Starts
<1>2. /\ Free /\ jobs' = jobs \ {job}
      /\ UNCHANGED <<rowVars, published, failures, streamVars, accepted, repeated, lost>>
    BY DEF StartJob
<1>3. Grown
    BY <1>2, Unmoved
<1>4. JobOK(job)' /\ job \in Job
    BY <1>3, OKStays DEF TypeInv, WorkTyped
<1>5. HandlerOK(g)'
    BY <1>1, <1>4, JobTypes, Kinds DEF HandlerOK, Making, Batching, Sending, Kind
<1>6. WorkTyped'
    BY <1>1, <1>2, <1>3, <1>5, WorkBegins DEF TypeInv
<1> QED
    BY <1>2, <1>6 DEF TypeInv, RowsTyped, StreamsTyped, streamVars, rowVars

\* A page of recipients becomes a batch.
LEMMA Pages ==
    ASSUME TypeInv, NEW h \in running, FanOutPage(h)
    PROVE  \E n \in DOMAIN notification :
               /\ h.job.ids = {n} /\ h.pc = "pages" /\ h.k \in Nat
               /\ \/ jobs' = jobs /\ Finish(h)
                  \/ \E job \in Job, g \in Handler :
                         /\ job.kind = "batch" /\ job.ids = Page(n, h.k)
                         /\ jobs' = jobs \cup {job} /\ Become(h, g)
                         /\ g.id = h.id /\ g.job = h.job /\ g.pc = "pages" /\ g.k = h.k + BatchSize
                         /\ g.left = h.left /\ g.made = h.made /\ g.out = h.out
<1>1. h \in Handler /\ HandlerOK(h) /\ h.pc = "pages" /\ h.k \in Nat
    BY Running, HandlerTypes DEF FanOutPage
<1>2. PICK n \in DOMAIN notification : h.job.ids = {n}
    BY <1>1 DEF HandlerOK, JobOK, Making
<1>3. CASE Page(n, h.k) = {}
    BY <1>1, <1>2, <1>3 DEF FanOutPage
<1>4. CASE Page(n, h.k) # {}
  <2>1. PICK job : job = NewJob("batch", Page(n, h.k))
      OBVIOUS
  <2>2. Page(n, h.k) \in SUBSET Nat
      BY RowTypes DEF TypeInv, Page, RecipientsOf
  <2>3. job \in Job /\ job.kind = "batch" /\ job.ids = Page(n, h.k)
      BY <2>1, <2>2, NewJobs DEF Kind
  <2>4. PICK g : g = [h EXCEPT !.k = h.k + BatchSize]
      OBVIOUS
  <2>5. h.k + BatchSize \in Nat
      BY <1>1, ConstantsAssumption
  <2>6. /\ g \in Handler /\ g.id = h.id /\ g.job = h.job /\ g.pc = h.pc /\ g.k = h.k + BatchSize
        /\ g.left = h.left /\ g.made = h.made /\ g.out = h.out
      BY <1>1, <2>4, <2>5 DEF Handler
  <2>7. jobs' = jobs \cup {job} /\ Become(h, g)
      BY <1>2, <1>4, <2>1, <2>4 DEF FanOutPage
  <2> QED
      BY <1>1, <1>2, <2>3, <2>6, <2>7
<1> QED
    BY <1>3, <1>4

LEMMA PageTypes ==
    ASSUME TypeInv, NEW h \in running, FanOutPage(h)
    PROVE  TypeInv'
<1>1. PICK n \in DOMAIN notification :
               /\ h.job.ids = {n} /\ h.pc = "pages" /\ h.k \in Nat
               /\ \/ jobs' = jobs /\ Finish(h)
                  \/ \E job \in Job, g \in Handler :
                         /\ job.kind = "batch" /\ job.ids = Page(n, h.k)
                         /\ jobs' = jobs \cup {job} /\ Become(h, g)
                         /\ g.id = h.id /\ g.job = h.job /\ g.pc = "pages" /\ g.k = h.k + BatchSize
                         /\ g.left = h.left /\ g.made = h.made /\ g.out = h.out
    BY Pages
<1>2. UNCHANGED <<rowVars, published, failures, streamVars, accepted, repeated, lost>>
    BY DEF FanOutPage
<1>3. Grown
    BY <1>2, Unmoved
<1>4. h \in Handler /\ HandlerOK(h) /\ HandlerOK(h)'
    BY <1>3, Running, OKStays
<1>5. WorkTyped'
  <2>1. CASE jobs' = jobs /\ Finish(h)
      BY <1>3, <2>1, WorkEnds DEF TypeInv, WorkTyped
  <2>2. ASSUME NEW job \in Job, NEW g \in Handler,
               job.kind = "batch", job.ids = Page(n, h.k),
               jobs' = jobs \cup {job}, Become(h, g),
               g.id = h.id, g.job = h.job, g.pc = "pages", g.k = h.k + BatchSize,
               g.left = h.left, g.made = h.made, g.out = h.out
        PROVE  WorkTyped'
    <3>1. HandlerOK(g)'
        BY <1>1, <1>4, <2>2 DEF HandlerOK, Making, Batching, Sending
    <3>2. Page(n, h.k) \subseteq DOMAIN recipient /\ recipient' = recipient
        BY <1>2 DEF Page, RecipientsOf, rowVars
    <3>3. JobOK(job)'
        BY <2>2, <3>2, Kinds DEF JobOK
    <3> QED
        BY <1>3, <2>2, <3>1, <3>3, WorkGoesOn DEF TypeInv, WorkTyped
  <2> QED
      BY <1>1, <2>1, <2>2
<1> QED
    BY <1>2, <1>5 DEF TypeInv, RowsTyped, StreamsTyped, streamVars, rowVars

LEMMA ExpireTypes ==
    ASSUME TypeInv, NEW h \in running, Expire(h)
    PROVE  TypeInv'
<1>1. /\ Finish(h) /\ lost' = lost \cup Reaches(h.job)
      /\ UNCHANGED <<rowVars, jobs, published, failures, streamVars, accepted, repeated>>
    BY DEF Expire
<1>2. Grown
    BY <1>1, Unmoved
<1>3. Reaches(h.job) \subseteq DOMAIN recipient
    BY Running, ReachedRows
<1>4. WorkTyped'
    BY <1>1, <1>2, WorkEnds DEF TypeInv, WorkTyped
<1> QED
    BY <1>1, <1>3, <1>4 DEF TypeInv, RowsTyped, StreamsTyped, streamVars, rowVars

-----------------------------------------------------------------------------
(***************************************************************************)
(* Batches.                                                                *)
(***************************************************************************)
LEMMA Listing ==
    ASSUME NEW S, IsFiniteSet(S)
    PROVE  \E n \in Nat : /\ SetToSeq(S) \in [1 .. n -> S]
                          /\ \A a, b \in 1 .. n : SetToSeq(S)[a] = SetToSeq(S)[b] => a = b
<1>1. PICK f \in Bijection(1 .. Cardinality(S), S) : TRUE
    BY FS_CardinalityType DEF ExistsBijection
<1>2. f \in [1 .. Cardinality(S) -> S] /\ IsInjective(f)
    BY DEF Bijection, Injection, IsInjective
<1>3. SetToSeq(S) \in [1 .. Cardinality(S) -> S] /\ IsInjective(SetToSeq(S))
    BY <1>2 DEF SetToSeq
<1> QED
    BY <1>3, FS_CardinalityType DEF IsInjective

LEMMA ChannelsFinite == IsFiniteSet(Channel)
<1>1. IsFiniteSet({"EMAIL"} \cup {"SMS"} \cup {"PUSH"} \cup {"WHATSAPP"} \cup {"IN_APP"})
    BY FS_Singleton, FS_Union
<1>2. Channel \subseteq {"EMAIL"} \cup {"SMS"} \cup {"PUSH"} \cup {"WHATSAPP"} \cup {"IN_APP"}
    BY ConstantsAssumption
<1> QED
    BY <1>1, <1>2, FS_Subset

LEMMA BatchFinite ==
    ASSUME TypeInv, NEW ids \in SUBSET DOMAIN recipient
    PROVE  IsFiniteSet(ids) /\ ChannelsOf(ids) \subseteq Channel
<1>1. DOMAIN recipient = 1 .. Len(recipient) /\ Len(recipient) \in Nat
    BY RowTypes DEF TypeInv
<1>2. IsFiniteSet(ids)
  <2>1. IsFiniteSet(1 .. Len(recipient)) /\ ids \in SUBSET (1 .. Len(recipient))
      BY <1>1, FS_Interval
  <2> QED
      BY <2>1, FS_Subset
<1>3. \A i \in ids : notification[recipient[i].notification] \in Notification
    BY RowTypes DEF TypeInv, RowsTyped
<1>4. \A i \in ids : notification[recipient[i].notification].channels \subseteq Channel
    BY <1>3 DEF Notification
<1> QED
    BY <1>2, <1>4 DEF ChannelsOf

\* The deliveries that a batch inserts: one for each of its recipients and
\* channels, none of them sent.
LEMMA Inserts ==
    ASSUME TypeInv, NEW h \in running, InsertDeliveries(h)
    PROVE  /\ h.job.kind = "batch" /\ h.job.ids \subseteq DOMAIN recipient /\ Grown
           /\ delivery' \in Seq(Delivery) /\ accepted' \in [DOMAIN delivery' -> Nat]
           /\ \A d \in DOMAIN delivery : delivery'[d] = delivery[d] /\ accepted'[d] = accepted[d]
           /\ \A d \in DOMAIN delivery' \ DOMAIN delivery :
                 delivery'[d].recipient \in h.job.ids /\ accepted'[d] = 0
           /\ \A d, e \in DOMAIN delivery' \ DOMAIN delivery :
                 delivery'[d].recipient = delivery'[e].recipient /\ delivery'[d].channel = delivery'[e].channel
                 => d = e
           /\ \E g \in Handler :
                 /\ Become(h, g) /\ g.id = h.id /\ g.job = h.job /\ g.pc = "sent" /\ g.k = h.k
                 /\ g.made = DOMAIN delivery' \ DOMAIN delivery /\ g.out = h.out
<1>1. h \in Handler /\ HandlerOK(h) /\ h.pc = "insert"
    BY Running DEF InsertDeliveries
<1>2. h.job.kind = "batch" /\ h.job.ids \subseteq DOMAIN recipient
    BY <1>1 DEF HandlerOK, JobOK, Batching
<1>0. PICK S : S = h.job.ids \X ChannelsOf(h.job.ids)
    OBVIOUS
<1>3. IsFiniteSet(S) /\ ChannelsOf(h.job.ids) \subseteq Channel
  <2>1. IsFiniteSet(h.job.ids) /\ ChannelsOf(h.job.ids) \subseteq Channel
      BY <1>2, BatchFinite
  <2>2. IsFiniteSet(ChannelsOf(h.job.ids))
      BY <2>1, ChannelsFinite, FS_Subset
  <2> QED
      BY <1>0, <2>1, <2>2, FS_Product
<1>4. PICK rows : rows = SetToSeq(S)
    OBVIOUS
<1>5. PICK n \in Nat : /\ rows \in [1 .. n -> S]
                       /\ \A a, b \in 1 .. n : rows[a] = rows[b] => a = b
  <2>1. \E n \in Nat : /\ SetToSeq(S) \in [1 .. n -> S]
                       /\ \A a, b \in 1 .. n : SetToSeq(S)[a] = SetToSeq(S)[b] => a = b
      BY <1>3, Listing, Zenon
  <2> QED
      BY <1>4, <2>1, Zenon
<1>6. \A a \in 1 .. n : rows[a][1] \in h.job.ids /\ rows[a][2] \in Channel /\ rows[a] = <<rows[a][1], rows[a][2]>>
    BY <1>0, <1>3, <1>5
<1>7. PICK new : new = [a \in DOMAIN rows |->
                          [recipient |-> rows[a][1], channel |-> rows[a][2], status |-> "PENDING"]]
    OBVIOUS
<1>8. /\ DOMAIN new = 1 .. n
      /\ \A a \in 1 .. n : new[a] = [recipient |-> rows[a][1], channel |-> rows[a][2], status |-> "PENDING"]
    BY <1>5, <1>7
<1>9. \A a \in 1 .. n : /\ new[a] \in Delivery
                        /\ new[a].recipient = rows[a][1] /\ new[a].channel = rows[a][2]
  <2>1. h.job.ids \subseteq Nat
      BY <1>2, RowTypes DEF TypeInv
  <2> QED
      BY <1>6, <1>8, <2>1 DEF Delivery, DeliveryStatus
<1>10. new \in Seq(Delivery) /\ Len(new) = n
  <2>1. new \in [1 .. n -> Delivery]
      BY <1>7, <1>8, <1>9
  <2> QED
      BY <2>1, Table
<1>11. PICK none : none = [a \in DOMAIN rows |-> 0]
    OBVIOUS
<1>12. none \in Seq(Nat) /\ Len(none) = n /\ \A a \in 1 .. n : none[a] = 0
  <2>1. none \in [1 .. n -> Nat] /\ \A a \in 1 .. n : none[a] = 0
      BY <1>5, <1>11
  <2> QED
      BY <2>1, Table
<1>13. /\ delivery \in Seq(Delivery) /\ DOMAIN delivery = 1 .. Len(delivery) /\ Len(delivery) \in Nat
       /\ accepted \in Seq(Nat) /\ Len(accepted) = Len(delivery)
  <2>1. delivery \in Seq(Delivery) /\ DOMAIN delivery = 1 .. Len(delivery) /\ Len(delivery) \in Nat
      BY RowTypes DEF TypeInv, RowsTyped
  <2>2. accepted \in [1 .. Len(delivery) -> Nat]
      BY <2>1 DEF TypeInv, RowsTyped
  <2> QED
      BY <2>1, <2>2, Table
<1>14. delivery' = delivery \o new /\ accepted' = accepted \o none
    BY <1>0, <1>4, <1>7, <1>11 DEF InsertDeliveries
<1>15. /\ delivery' \in Seq(Delivery) /\ DOMAIN delivery' = 1 .. Len(delivery) + n
       /\ \A d \in 1 .. Len(delivery) + n :
             delivery'[d] = IF d <= Len(delivery) THEN delivery[d] ELSE new[d - Len(delivery)]
  <2>1. delivery' \in Seq(Delivery) /\ Len(delivery') = Len(delivery) + n
      BY <1>10, <1>13, <1>14, ConcatProperties
  <2>2. DOMAIN delivery' = 1 .. Len(delivery')
      BY <2>1, LenProperties
  <2> QED
      BY <1>10, <1>13, <1>14, <2>1, <2>2, ConcatProperties
<1>16. /\ accepted' \in [1 .. Len(delivery) + n -> Nat]
       /\ \A d \in 1 .. Len(delivery) + n :
             accepted'[d] = IF d <= Len(delivery) THEN accepted[d] ELSE none[d - Len(delivery)]
  <2>1. accepted' \in Seq(Nat) /\ Len(accepted') = Len(accepted) + Len(none)
      BY <1>12, <1>13, <1>14, ConcatProperties, Zenon
  <2>2. accepted' \in [1 .. Len(accepted') -> Nat]
      BY <2>1, LenProperties
  <2>3. Len(accepted') = Len(delivery) + n
      BY <1>12, <1>13, <2>1
  <2> QED
      BY <1>12, <1>13, <1>14, <2>1, <2>2, <2>3, ConcatProperties
<1>17. DOMAIN delivery' \ DOMAIN delivery = {Len(delivery) + a : a \in 1 .. n}
  <2>1. ASSUME NEW d \in DOMAIN delivery' \ DOMAIN delivery
        PROVE  \E a \in 1 .. n : d = Len(delivery) + a
    <3>1. d - Len(delivery) \in 1 .. n /\ d = Len(delivery) + (d - Len(delivery))
        BY <1>13, <1>15
    <3> QED
        BY <3>1
  <2>2. ASSUME NEW a \in 1 .. n
        PROVE  Len(delivery) + a \in DOMAIN delivery' \ DOMAIN delivery
      BY <1>13, <1>15
  <2> QED
      BY <2>1, <2>2
<1>18. \A d \in DOMAIN delivery' \ DOMAIN delivery :
           /\ d - Len(delivery) \in 1 .. n
           /\ delivery'[d] = new[d - Len(delivery)] /\ accepted'[d] = none[d - Len(delivery)]
    BY <1>13, <1>15, <1>16
<1>19. PICK g : g = [h EXCEPT !.pc = "sent", !.made = DOMAIN delivery' \ DOMAIN delivery,
                              !.left = ChannelsOf(h.job.ids)]
    OBVIOUS
<1>20. Become(h, g)
    BY <1>0, <1>4, <1>5, <1>17, <1>19 DEF InsertDeliveries
<1>21. g \in Handler /\ g.id = h.id /\ g.job = h.job /\ g.pc = "sent" /\ g.k = h.k
       /\ g.made = DOMAIN delivery' \ DOMAIN delivery /\ g.out = h.out
  <2>1. DOMAIN delivery' \ DOMAIN delivery \in SUBSET Nat
      BY <1>13, <1>15
  <2> QED
      BY <1>1, <1>3, <1>19, <2>1 DEF Handler, Label
<1>22. Grown
  <2>1. UNCHANGED <<notification, recipient>>
      BY DEF InsertDeliveries
  <2>2. DOMAIN delivery \subseteq DOMAIN delivery'
      BY <1>13, <1>15
  <2> QED
      BY <2>1, <2>2 DEF Grown
<1>23. \A d, e \in DOMAIN delivery' \ DOMAIN delivery :
           delivery'[d].recipient = delivery'[e].recipient /\ delivery'[d].channel = delivery'[e].channel
           => d = e
  <2> SUFFICES ASSUME NEW d \in DOMAIN delivery' \ DOMAIN delivery, NEW e \in DOMAIN delivery' \ DOMAIN delivery,
                      delivery'[d].recipient = delivery'[e].recipient,
                      delivery'[d].channel = delivery'[e].channel
               PROVE  d = e
      OBVIOUS
  <2> DEFINE a == d - Len(delivery)
             b == e - Len(delivery)
  <2>1. a \in 1 .. n /\ b \in 1 .. n /\ rows[a][1] = rows[b][1] /\ rows[a][2] = rows[b][2]
      BY <1>9, <1>18
  <2>2. rows[a] = <<rows[a][1], rows[a][2]>> /\ rows[b] = <<rows[b][1], rows[b][2]>>
      BY <1>6, <2>1
  <2>3. rows[a] = rows[b]
      BY <2>1, <2>2
  <2> HIDE DEF a, b
  <2>4. a = b
      BY <1>5, <2>1, <2>3
  <2>5. d \in Nat /\ e \in Nat
      BY <1>13, <1>15
  <2> QED
      BY <1>13, <2>4, <2>5 DEF a, b
<1>24. \A d \in DOMAIN delivery' \ DOMAIN delivery : delivery'[d].recipient \in h.job.ids /\ accepted'[d] = 0
    BY <1>6, <1>9, <1>12, <1>18
<1>25. accepted' \in [DOMAIN delivery' -> Nat]
    BY <1>15, <1>16
<1>26. \A d \in DOMAIN delivery : delivery'[d] = delivery[d] /\ accepted'[d] = accepted[d]
    BY <1>13, <1>15, <1>16
<1> QED
    BY <1>2, <1>15, <1>20, <1>21, <1>22, <1>23, <1>24, <1>25, <1>26

LEMMA InsertTypes ==
    ASSUME TypeInv, NEW h \in running, InsertDeliveries(h)
    PROVE  TypeInv'
<1>1. /\ h.job.kind = "batch" /\ h.job.ids \subseteq DOMAIN recipient /\ Grown
      /\ delivery' \in Seq(Delivery) /\ accepted' \in [DOMAIN delivery' -> Nat]
      /\ \A d \in DOMAIN delivery : delivery'[d] = delivery[d]
      /\ \A d \in DOMAIN delivery' \ DOMAIN delivery : delivery'[d].recipient \in h.job.ids
    BY Inserts
<1>2. PICK g \in Handler :
          /\ Become(h, g) /\ g.id = h.id /\ g.job = h.job /\ g.pc = "sent" /\ g.k = h.k
          /\ g.made = DOMAIN delivery' \ DOMAIN delivery /\ g.out = h.out
    BY Inserts
<1>3. /\ h.pc = "insert"
      /\ UNCHANGED <<notification, recipient, jobs, published, failures, streamVars, repeated, lost>>
    BY DEF InsertDeliveries
<1>4. h \in Handler /\ HandlerOK(h) /\ HandlerOK(h)'
    BY <1>1, Running, OKStays
<1>5. HandlerOK(g)'
    BY <1>1, <1>2, <1>3, <1>4 DEF HandlerOK, Making, Batching, Sending
<1>6. WorkTyped'
    BY <1>1, <1>2, <1>3, <1>5, WorkGoesOn DEF TypeInv, WorkTyped
<1>7. RowsTyped'
    BY <1>1, <1>3 DEF TypeInv, RowsTyped
<1> QED
    BY <1>3, <1>6, <1>7 DEF TypeInv, StreamsTyped, streamVars

\* A new value of a table, with the rows of the old one in its domain.
LEMMA Rewritten ==
    ASSUME NEW S, NEW s \in Seq(S), NEW t, DOMAIN t = DOMAIN s, t = [i \in DOMAIN s |-> t[i]],
           \A i \in DOMAIN s : t[i] \in S
    PROVE  t \in Seq(S) /\ Len(t) = Len(s)
<1>1. DOMAIN s = 1 .. Len(s) /\ Len(s) \in Nat
    BY LenProperties
<1>2. t \in [1 .. Len(s) -> S]
    BY <1>1
<1> QED
    BY <1>1, <1>2, Table

LEMMA Marks ==
    ASSUME TypeInv, NEW h \in running, RecipientsSent(h)
    PROVE  /\ h.pc = "sent" /\ recipient' \in Seq(Recipient) /\ DOMAIN recipient' = DOMAIN recipient
           /\ \A i \in DOMAIN recipient : recipient'[i].notification = recipient[i].notification
           /\ \E g \in Handler :
                 /\ Become(h, g) /\ g.id = h.id /\ g.job = h.job /\ g.pc = "queue" /\ g.k = h.k
                 /\ g.left = h.left /\ g.made = h.made /\ g.out = h.out
<1>1. PICK t : t = [i \in DOMAIN recipient |->
                      IF i \in h.job.ids THEN [recipient[i] EXCEPT !.status = "SENT"] ELSE recipient[i]]
    OBVIOUS
<1>2. recipient' = t
    BY <1>1 DEF RecipientsSent
<1>3. h.pc = "sent" /\ h \in Handler
    BY Running DEF RecipientsSent
<1>4. \A i \in DOMAIN recipient : t[i] \in Recipient /\ t[i].notification = recipient[i].notification
  <2>1. \A r \in Recipient : /\ [r EXCEPT !.status = "SENT"] \in Recipient
                             /\ [r EXCEPT !.status = "SENT"].notification = r.notification
      BY DEF Recipient, RecipientStatus
  <2> QED
      BY <1>1, <2>1, RowTypes DEF TypeInv
<1>5. recipient' \in Seq(Recipient) /\ DOMAIN recipient' = DOMAIN recipient
    BY <1>1, <1>2, <1>4, Rewritten DEF TypeInv, RowsTyped
<1>6. PICK g : g = [h EXCEPT !.pc = "queue"]
    OBVIOUS
<1>7. /\ g \in Handler /\ g.id = h.id /\ g.job = h.job /\ g.pc = "queue" /\ g.k = h.k
      /\ g.left = h.left /\ g.made = h.made /\ g.out = h.out
    BY <1>3, <1>6 DEF Handler, Label
<1>8. Become(h, g)
    BY <1>6 DEF RecipientsSent
<1> QED
    BY <1>2, <1>3, <1>4, <1>5, <1>7, <1>8

LEMMA SentTypes ==
    ASSUME TypeInv, NEW h \in running, RecipientsSent(h)
    PROVE  TypeInv'
<1>1. UNCHANGED <<notification, delivery, jobs, published, failures, streamVars, accepted, repeated, lost>>
    BY DEF RecipientsSent
<1>2. /\ h.pc = "sent" /\ recipient' \in Seq(Recipient) /\ DOMAIN recipient' = DOMAIN recipient
      /\ \A i \in DOMAIN recipient : recipient'[i].notification = recipient[i].notification
    BY Marks
<1>3. PICK g \in Handler :
          /\ Become(h, g) /\ g.id = h.id /\ g.job = h.job /\ g.pc = "queue" /\ g.k = h.k
          /\ g.left = h.left /\ g.made = h.made /\ g.out = h.out
    BY Marks
<1>4. Grown
    BY <1>1, <1>2 DEF Grown
<1>5. h \in Handler /\ HandlerOK(h) /\ HandlerOK(h)'
    BY <1>4, Running, OKStays
<1>6. HandlerOK(g)'
    BY <1>2, <1>3, <1>5 DEF HandlerOK, Making, Batching, Sending
<1>7. WorkTyped'
    BY <1>1, <1>3, <1>4, <1>6, WorkGoesOn DEF TypeInv, WorkTyped
<1>8. RowsTyped'
    BY <1>1, <1>2 DEF TypeInv, RowsTyped
<1> QED
    BY <1>1, <1>7, <1>8 DEF TypeInv, StreamsTyped, streamVars

\* A commit that writes the status of deliveries.
LEMMA Writes ==
    ASSUME RowsTyped, NEW ids, NEW s \in DeliveryStatus
    PROVE  /\ Written(ids, s) \in Seq(Delivery) /\ DOMAIN Written(ids, s) = DOMAIN delivery
           /\ \A d \in DOMAIN delivery : /\ Written(ids, s)[d].recipient = delivery[d].recipient
                                         /\ Written(ids, s)[d].channel = delivery[d].channel
<1>1. PICK t : t = Written(ids, s)
    OBVIOUS
<1>2. t = [d \in DOMAIN delivery |-> [delivery[d] EXCEPT !.status = IF d \in ids THEN s ELSE delivery[d].status]]
    BY <1>1 DEF Written
<1>3. \A r \in Delivery, z \in DeliveryStatus :
          /\ [r EXCEPT !.status = z] \in Delivery /\ r.status \in DeliveryStatus
          /\ [r EXCEPT !.status = z].recipient = r.recipient /\ [r EXCEPT !.status = z].channel = r.channel
    BY DEF Delivery
<1>4. \A d \in DOMAIN delivery : /\ t[d] \in Delivery
                                 /\ t[d].recipient = delivery[d].recipient /\ t[d].channel = delivery[d].channel
  <2> SUFFICES ASSUME NEW d \in DOMAIN delivery
               PROVE  /\ t[d] \in Delivery
                      /\ t[d].recipient = delivery[d].recipient /\ t[d].channel = delivery[d].channel
      OBVIOUS
  <2>1. PICK z : z = IF d \in ids THEN s ELSE delivery[d].status
      OBVIOUS
  <2>2. delivery[d] \in Delivery
      BY RowTypes
  <2>3. z \in DeliveryStatus
      BY <1>3, <2>1, <2>2
  <2>4. t[d] = [delivery[d] EXCEPT !.status = z]
      BY <1>2, <2>1
  <2> QED
      BY <1>3, <2>2, <2>3, <2>4
<1>5. t \in Seq(Delivery) /\ DOMAIN t = DOMAIN delivery
    BY <1>2, <1>4, Rewritten DEF RowsTyped
<1> QED
    BY <1>1, <1>4, <1>5

\* The next channel of a batch: what is left for the others stays with it.
LEMMA Queues ==
    ASSUME TypeInv, NEW h \in running, QueueChannel(h)
    PROVE  /\ h.pc = "queue"
           /\ DOMAIN delivery' = DOMAIN delivery /\ delivery' \in Seq(Delivery)
           /\ \A d \in DOMAIN delivery : /\ delivery'[d].recipient = delivery[d].recipient
                                         /\ delivery'[d].channel = delivery[d].channel
           /\ \/ Finish(h) /\ jobs' = jobs
              \/ \E c \in h.left, g \in Handler :
                    /\ Become(h, g) /\ g.id = h.id /\ g.job = h.job /\ g.pc \in {"queue", "publish"}
                    /\ g.k = h.k /\ g.made = h.made /\ g.out = h.out /\ g.left = h.left \ {c}
                    /\ \/ jobs' = jobs
                       \/ \E job \in Job : /\ job.kind = c /\ job.ids = Queued(h, c)
                                           /\ jobs' = jobs \cup {job}
<1>1. h \in Handler /\ HandlerOK(h) /\ h.pc = "queue" /\ RowsTyped /\ delivery \in Seq(Delivery)
    BY Running DEF QueueChannel, TypeInv, RowsTyped
<1>2. CASE h.left = {}
    BY <1>1, <1>2 DEF QueueChannel
<1>3. CASE h.left # {}
  <2>1. PICK c : c = CHOOSE d \in h.left : TRUE
      OBVIOUS
  <2>2. c \in h.left /\ c \in Channel /\ Queued(h, c) \in SUBSET Nat
      BY <1>1, <1>3, <2>1, HandlerTypes DEF Queued
  <2>3. PICK g : g = [h EXCEPT !.left = h.left \ {c}, !.pc = IF c = "IN_APP" THEN "publish" ELSE h.pc]
      OBVIOUS
  <2>4. /\ g \in Handler /\ g.id = h.id /\ g.job = h.job /\ g.pc \in {"queue", "publish"}
        /\ g.k = h.k /\ g.made = h.made /\ g.out = h.out /\ g.left = h.left \ {c}
      BY <1>1, <2>3 DEF Handler, Label
  <2>5. Become(h, g)
      BY <1>3, <2>1, <2>3 DEF QueueChannel
  <2>6. CASE c = "IN_APP"
    <3>1. delivery' = Written(Queued(h, c), "DELIVERED") /\ jobs' = jobs
        BY <1>3, <2>1, <2>6 DEF QueueChannel
    <3>2. "DELIVERED" \in DeliveryStatus
        BY DEF DeliveryStatus
    <3>3. /\ DOMAIN delivery' = DOMAIN delivery /\ delivery' \in Seq(Delivery)
          /\ \A d \in DOMAIN delivery : /\ delivery'[d].recipient = delivery[d].recipient
                                        /\ delivery'[d].channel = delivery[d].channel
        BY <1>1, <3>1, <3>2, Writes
    <3> QED
        BY <1>1, <2>2, <2>4, <2>5, <3>1, <3>3
  <2>7. CASE c # "IN_APP"
    <3>1. delivery' = delivery /\ jobs' = jobs \cup {NewJob(c, Queued(h, c))}
        BY <1>3, <2>1, <2>7 DEF QueueChannel
    <3>2. PICK job : job = NewJob(c, Queued(h, c))
        OBVIOUS
    <3>3. job \in Job /\ job.kind = c /\ job.ids = Queued(h, c)
        BY <2>2, <3>2, NewJobs DEF Kind
    <3> QED
        BY <1>1, <2>2, <2>4, <2>5, <3>1, <3>2, <3>3
  <2> QED
      BY <2>6, <2>7
<1> QED
    BY <1>2, <1>3

LEMMA QueueTypes ==
    ASSUME TypeInv, NEW h \in running, QueueChannel(h)
    PROVE  TypeInv'
<1>1. /\ h.pc = "queue"
      /\ DOMAIN delivery' = DOMAIN delivery /\ delivery' \in Seq(Delivery)
      /\ \A d \in DOMAIN delivery : delivery'[d].recipient = delivery[d].recipient
    BY Queues
<1>2. \/ Finish(h) /\ jobs' = jobs
      \/ \E c \in h.left, g \in Handler :
            /\ Become(h, g) /\ g.id = h.id /\ g.job = h.job /\ g.pc \in {"queue", "publish"}
            /\ g.k = h.k /\ g.made = h.made /\ g.out = h.out
            /\ \/ jobs' = jobs
               \/ \E job \in Job : job.kind = c /\ job.ids = Queued(h, c) /\ jobs' = jobs \cup {job}
    BY Queues
<1>3. UNCHANGED <<notification, recipient, published, failures, streamVars, accepted, repeated, lost>>
    BY DEF QueueChannel
<1>4. Grown
    BY <1>1, <1>3 DEF Grown
<1>5. h \in Handler /\ HandlerOK(h) /\ HandlerOK(h)'
    BY <1>4, Running, OKStays
<1>6. WorkTyped'
  <2>1. CASE Finish(h) /\ jobs' = jobs
      BY <1>4, <2>1, WorkEnds DEF TypeInv, WorkTyped
  <2>2. ASSUME NEW c \in h.left, NEW g \in Handler,
               Become(h, g), g.id = h.id, g.job = h.job, g.pc \in {"queue", "publish"},
               g.k = h.k, g.made = h.made, g.out = h.out,
               \/ jobs' = jobs
               \/ \E job \in Job : job.kind = c /\ job.ids = Queued(h, c) /\ jobs' = jobs \cup {job}
        PROVE  WorkTyped'
    <3>1. HandlerOK(g)'
        BY <1>1, <1>5, <2>2 DEF HandlerOK, Making, Batching, Sending
    <3>2. c \in Channel /\ Queued(h, c) \subseteq DOMAIN delivery
        BY <1>5, <2>2, HandlerTypes DEF HandlerOK, Queued
    <3>3. \A job \in Job : job.kind = c /\ job.ids = Queued(h, c) => JobOK(job)'
        BY <1>1, <3>2, Kinds DEF JobOK
    <3>4. jobs' \subseteq Job /\ \A job \in jobs' : job \in jobs \/ JobOK(job)'
        BY <2>2, <3>3 DEF TypeInv, WorkTyped
    <3> QED
        BY <1>4, <2>2, <3>1, <3>4, WorkGoesOn DEF TypeInv
  <2> QED
      BY <1>2, <2>1, <2>2
<1>7. RowsTyped'
    BY <1>1, <1>3 DEF TypeInv, RowsTyped
<1> QED
    BY <1>3, <1>6, <1>7 DEF TypeInv, StreamsTyped, streamVars

LEMMA Publishes ==
    ASSUME TypeInv, NEW h \in running, PublishInApp(h)
    PROVE  /\ h.pc = "publish"
           /\ \E g \in Handler :
                 /\ Become(h, g) /\ g.id = h.id /\ g.job = h.job /\ g.pc = "queue" /\ g.k = h.k
                 /\ g.left = h.left /\ g.made = h.made /\ g.out = h.out
<1>1. PICK g : g = [h EXCEPT !.pc = "queue"]
    OBVIOUS
<1>2. /\ g \in Handler /\ g.id = h.id /\ g.job = h.job /\ g.pc = "queue" /\ g.k = h.k
      /\ g.left = h.left /\ g.made = h.made /\ g.out = h.out
    BY <1>1, Running DEF Handler, Label
<1>3. Become(h, g) /\ h.pc = "publish"
    BY <1>1 DEF PublishInApp
<1> QED
    BY <1>2, <1>3

LEMMA PublishTypes ==
    ASSUME TypeInv, NEW h \in running, PublishInApp(h)
    PROVE  TypeInv'
<1>1. /\ h.pc = "publish"
      /\ UNCHANGED <<rowVars, jobs, failures, streamVars, accepted, repeated, lost>>
    BY DEF PublishInApp
<1>2. Grown
    BY <1>1, Unmoved
<1>3. h \in Handler /\ HandlerOK(h) /\ HandlerOK(h)'
    BY <1>2, Running, OKStays
<1>4. PICK g \in Handler :
          /\ Become(h, g) /\ g.id = h.id /\ g.job = h.job /\ g.pc = "queue" /\ g.k = h.k
          /\ g.left = h.left /\ g.made = h.made /\ g.out = h.out
    BY Publishes
<1>5. HandlerOK(g)'
    BY <1>1, <1>3, <1>4 DEF HandlerOK, Making, Batching, Sending
<1>6. WorkTyped'
    BY <1>1, <1>2, <1>4, <1>5, WorkGoesOn DEF TypeInv, WorkTyped
<1>7. published' \in Seq(User)
  <2>1. PICK S : S = {i \in h.job.ids : recipient[i].user \in Online}
      OBVIOUS
  <2>2. S \in SUBSET DOMAIN recipient
      BY <1>1, <1>3, <2>1 DEF HandlerOK, JobOK, Batching
  <2>3. PICK ids : ids = SetToSeq(S)
      OBVIOUS
  <2>4. PICK n \in Nat : ids \in [1 .. n -> S]
    <3>1. IsFiniteSet(S)
        BY <2>2, BatchFinite
    <3>2. \E n \in Nat : SetToSeq(S) \in [1 .. n -> S]
        BY <3>1, Listing, Zenon
    <3> QED
        BY <2>3, <3>2, Zenon
  <2>5. PICK new : new = [a \in DOMAIN ids |-> recipient[ids[a]].user]
      OBVIOUS
  <2>6. \A a \in 1 .. n : recipient[ids[a]].user \in User
    <3>1. \A i \in DOMAIN recipient : recipient[i].user \in User
        BY RowTypes DEF TypeInv, Recipient
    <3> QED
        BY <2>2, <2>4, <3>1
  <2>7. new \in [1 .. n -> User]
      BY <2>4, <2>5, <2>6
  <2>8. published' = published \o new
      BY <2>1, <2>3, <2>5 DEF PublishInApp
  <2> QED
      BY <2>7, <2>8, Table, ConcatProperties DEF TypeInv, StreamsTyped
<1> QED
    BY <1>1, <1>6, <1>7 DEF TypeInv, RowsTyped, StreamsTyped, streamVars, rowVars

-----------------------------------------------------------------------------
(***************************************************************************)
(* Sending, and failures.                                                  *)
(***************************************************************************)
LEMMA Sends ==
    ASSUME TypeInv, NEW h \in running, SendBatch(h)
    PROVE  \E out \in [Unsent(h.job.ids) -> Final] :
               /\ h.pc = "send" /\ h.job.ids \subseteq DOMAIN delivery
               /\ accepted' \in [DOMAIN delivery -> Nat]
               /\ \A d \in DOMAIN delivery :
                     accepted'[d] \in {accepted[d], accepted[d] + 1} /\ (d \notin h.job.ids => accepted'[d] = accepted[d])
               /\ \/ Finish(h)
                  \/ \E g \in Handler :
                        /\ Become(h, g) /\ g.id = h.id /\ g.job = h.job /\ g.pc = "record"
                        /\ g.k = h.k /\ g.left = h.left /\ g.made = h.made
                        /\ g.out # {} /\ \A o \in g.out : o[1] \in h.job.ids /\ o[2] \in Final
<1>1. h \in Handler /\ HandlerOK(h) /\ h.pc = "send" /\ h.job.ids \subseteq DOMAIN delivery
    BY Running DEF SendBatch, HandlerOK, JobOK, Sending
<1>2. PICK out \in [Unsent(h.job.ids) -> DeliveryStatus] :
          /\ \A d \in DOMAIN out : out[d] \in Outcomes(d)
          /\ accepted' = [d \in DOMAIN delivery |->
                 IF d \in DOMAIN out /\ out[d] = "DELIVERED" THEN accepted[d] + 1 ELSE accepted[d]]
          /\ IF DOMAIN out = {} THEN Finish(h)
             ELSE Become(h, [h EXCEPT !.pc = "record", !.out = {<<d, out[d]>> : d \in DOMAIN out}])
    BY DEF SendBatch
<1>3. \A d : Outcomes(d) \subseteq Final
    BY DEF Outcomes, Final
<1>4. out \in [Unsent(h.job.ids) -> Final] /\ DOMAIN out = Unsent(h.job.ids)
      /\ Unsent(h.job.ids) \subseteq h.job.ids
    BY <1>2, <1>3 DEF Unsent
<1>5. \A d \in DOMAIN delivery : accepted[d] \in Nat
    BY DEF TypeInv, RowsTyped
<1>6. /\ accepted' \in [DOMAIN delivery -> Nat]
      /\ \A d \in DOMAIN delivery :
            accepted'[d] \in {accepted[d], accepted[d] + 1} /\ (d \notin h.job.ids => accepted'[d] = accepted[d])
    BY <1>2, <1>4, <1>5
<1>7. CASE DOMAIN out = {}
    BY <1>1, <1>2, <1>4, <1>6, <1>7
<1>8. CASE DOMAIN out # {}
  <2>1. PICK pairs : pairs = {<<d, out[d]>> : d \in DOMAIN out}
      OBVIOUS
  <2>2. pairs # {} /\ \A o \in pairs : o \in Nat \X Final /\ o[1] \in h.job.ids /\ o[2] \in Final
    <3>1. h.job.ids \subseteq Nat
        BY <1>1, RowTypes DEF TypeInv
    <3>2. \A d \in DOMAIN out : d \in Nat /\ d \in h.job.ids /\ out[d] \in Final
        BY <1>4, <3>1
    <3>3. \A d \in DOMAIN out : LET o == <<d, out[d]>>
                              IN o \in Nat \X Final /\ o[1] \in h.job.ids /\ o[2] \in Final
        BY <3>2
    <3>4. pairs # {}
        BY <1>8, <2>1
    <3> QED
        BY <2>1, <3>3, <3>4
  <2>3. pairs \in SUBSET (Nat \X DeliveryStatus)
      BY <2>2 DEF Final, DeliveryStatus
  <2>4. PICK g : g = [h EXCEPT !.pc = "record", !.out = pairs]
      OBVIOUS
  <2>5. /\ g \in Handler /\ g.id = h.id /\ g.job = h.job /\ g.pc = "record"
        /\ g.k = h.k /\ g.left = h.left /\ g.made = h.made /\ g.out = pairs
      BY <1>1, <2>3, <2>4 DEF Handler, Label
  <2>6. Become(h, g)
      BY <1>2, <1>8, <2>1, <2>4
  <2> QED
      BY <1>1, <1>4, <1>6, <2>2, <2>5, <2>6
<1> QED
    BY <1>7, <1>8

LEMMA SendTypes ==
    ASSUME TypeInv, NEW h \in running, SendBatch(h)
    PROVE  TypeInv'
<1>1. /\ h.pc = "send" /\ h.job.ids \subseteq DOMAIN delivery
      /\ accepted' \in [DOMAIN delivery -> Nat]
      /\ \/ Finish(h)
         \/ \E g \in Handler :
               /\ Become(h, g) /\ g.id = h.id /\ g.job = h.job /\ g.pc = "record"
               /\ g.k = h.k /\ g.left = h.left /\ g.made = h.made
               /\ g.out # {} /\ \A o \in g.out : o[1] \in h.job.ids /\ o[2] \in Final
    BY Sends
<1>2. UNCHANGED <<rowVars, jobs, published, failures, streamVars, repeated, lost>>
    BY DEF SendBatch
<1>3. Grown /\ UNCHANGED <<notification, recipient, delivery>>
    BY <1>2, Unmoved DEF rowVars
<1>4. h \in Handler /\ HandlerOK(h) /\ HandlerOK(h)'
    BY <1>3, Running, OKStays
<1>5. WorkTyped'
  <2>1. CASE Finish(h)
      BY <1>2, <1>3, <2>1, WorkEnds DEF TypeInv, WorkTyped
  <2>2. ASSUME NEW g \in Handler,
               Become(h, g), g.id = h.id, g.job = h.job, g.pc = "record",
               g.k = h.k, g.left = h.left, g.made = h.made,
               g.out # {}, \A o \in g.out : o[1] \in h.job.ids /\ o[2] \in Final
        PROVE  WorkTyped'
    <3>1. HandlerOK(g)'
        BY <1>1, <1>3, <1>4, <2>2 DEF HandlerOK, Making, Batching, Sending
    <3> QED
        BY <1>2, <1>3, <2>2, <3>1, WorkGoesOn DEF TypeInv, WorkTyped
  <2> QED
      BY <1>1, <2>1, <2>2
<1>6. RowsTyped'
    BY <1>1, <1>2, <1>3 DEF TypeInv, RowsTyped
<1> QED
    BY <1>2, <1>5, <1>6 DEF TypeInv, StreamsTyped, streamVars

LEMMA NextOutcome ==
    ASSUME NEW out, out # {}, \A o \in out : o[2] \in Final
    PROVE  Next3(out) \in DeliveryStatus
<1> DEFINE First(s) == /\ \E o \in out : o[2] = s
                       /\ s = "FAILED" => ~\E o \in out : o[2] = "DELIVERED"
                       /\ s = "PERMANENT_FAILURE" => ~\E o \in out : o[2] \in {"DELIVERED", "FAILED"}
<1>1. \E s \in Final : First(s)
  <2>1. CASE \E o \in out : o[2] = "DELIVERED"
    <3>1. First("DELIVERED") /\ "DELIVERED" \in Final
        BY <2>1 DEF Final
    <3> QED
        BY <3>1
  <2>2. CASE ~(\E o \in out : o[2] = "DELIVERED") /\ \E o \in out : o[2] = "FAILED"
    <3>1. First("FAILED") /\ "FAILED" \in Final
        BY <2>2 DEF Final
    <3> QED
        BY <3>1
  <2>3. CASE ~(\E o \in out : o[2] = "DELIVERED") /\ ~(\E o \in out : o[2] = "FAILED")
    <3>1. First("PERMANENT_FAILURE") /\ "PERMANENT_FAILURE" \in Final
        BY <2>3 DEF Final
    <3> QED
        BY <3>1
  <2> QED
      BY <2>1, <2>2, <2>3
<1>2. Next3(out) = CHOOSE s \in Final : First(s)
    BY DEF Next3, Final
<1> HIDE DEF First
<1>3. Next3(out) \in Final
    BY <1>1, <1>2
<1> QED
    BY <1>3 DEF Final, DeliveryStatus

\* One outcome is committed; the others are left.
LEMMA Records ==
    ASSUME TypeInv, NEW h \in running, RecordOutcome(h)
    PROVE  /\ h.pc = "record"
           /\ DOMAIN delivery' = DOMAIN delivery /\ delivery' \in Seq(Delivery)
           /\ \A d \in DOMAIN delivery : /\ delivery'[d].recipient = delivery[d].recipient
                                         /\ delivery'[d].channel = delivery[d].channel
           /\ \/ Finish(h)
              \/ \E g \in Handler :
                    /\ Become(h, g) /\ g.id = h.id /\ g.job = h.job /\ g.pc = "record"
                    /\ g.k = h.k /\ g.left = h.left /\ g.made = h.made
                    /\ g.out # {} /\ g.out \subseteq h.out
<1>1. h \in Handler /\ HandlerOK(h) /\ h.pc = "record" /\ RowsTyped
    BY Running DEF RecordOutcome, TypeInv
<1>2. PICK s : s = Next3(h.out)
    OBVIOUS
<1>3. s \in DeliveryStatus
    BY <1>1, <1>2, NextOutcome DEF HandlerOK
<1>4. PICK rest : rest = {o \in h.out : o[2] # s}
    OBVIOUS
<1>5. delivery' = Written({o[1] : o \in h.out \ rest}, s)
    BY <1>2, <1>4 DEF RecordOutcome
<1>6. /\ DOMAIN delivery' = DOMAIN delivery /\ delivery' \in Seq(Delivery)
      /\ \A d \in DOMAIN delivery : /\ delivery'[d].recipient = delivery[d].recipient
                                    /\ delivery'[d].channel = delivery[d].channel
    BY <1>1, <1>3, <1>5, Writes
<1>7. CASE rest = {}
    BY <1>1, <1>2, <1>4, <1>6, <1>7 DEF RecordOutcome
<1>8. CASE rest # {}
  <2>1. PICK g : g = [h EXCEPT !.out = rest]
      OBVIOUS
  <2>2. rest \in SUBSET (Nat \X DeliveryStatus) /\ rest \subseteq h.out
      BY <1>1, <1>4, HandlerTypes
  <2>3. /\ g \in Handler /\ g.id = h.id /\ g.job = h.job /\ g.pc = h.pc
        /\ g.k = h.k /\ g.left = h.left /\ g.made = h.made /\ g.out = rest
      BY <1>1, <2>1, <2>2 DEF Handler
  <2>4. Become(h, g)
      BY <1>2, <1>4, <1>8, <2>1 DEF RecordOutcome
  <2> QED
      BY <1>1, <1>6, <1>8, <2>2, <2>3, <2>4
<1> QED
    BY <1>7, <1>8

LEMMA RecordTypes ==
    ASSUME TypeInv, NEW h \in running, RecordOutcome(h)
    PROVE  TypeInv'
<1>1. /\ h.pc = "record"
      /\ DOMAIN delivery' = DOMAIN delivery /\ delivery' \in Seq(Delivery)
      /\ \A d \in DOMAIN delivery : delivery'[d].recipient = delivery[d].recipient
      /\ \/ Finish(h)
         \/ \E g \in Handler :
               /\ Become(h, g) /\ g.id = h.id /\ g.job = h.job /\ g.pc = "record"
               /\ g.k = h.k /\ g.left = h.left /\ g.made = h.made
               /\ g.out # {} /\ g.out \subseteq h.out
    BY Records
<1>2. UNCHANGED <<notification, recipient, jobs, published, failures, streamVars, accepted, repeated, lost>>
    BY DEF RecordOutcome
<1>3. Grown
    BY <1>1, <1>2 DEF Grown
<1>4. h \in Handler /\ HandlerOK(h) /\ HandlerOK(h)'
    BY <1>3, Running, OKStays
<1>5. WorkTyped'
  <2>1. CASE Finish(h)
      BY <1>2, <1>3, <2>1, WorkEnds DEF TypeInv, WorkTyped
  <2>2. ASSUME NEW g \in Handler,
               Become(h, g), g.id = h.id, g.job = h.job, g.pc = "record",
               g.k = h.k, g.left = h.left, g.made = h.made, g.out # {}, g.out \subseteq h.out
        PROVE  WorkTyped'
    <3>1. HandlerOK(g)'
        BY <1>1, <1>4, <2>2 DEF HandlerOK, Making, Batching, Sending
    <3> QED
        BY <1>2, <1>3, <2>2, <3>1, WorkGoesOn DEF TypeInv, WorkTyped
  <2> QED
      BY <1>1, <2>1, <2>2
<1>6. RowsTyped'
    BY <1>1, <1>2 DEF TypeInv, RowsTyped
<1> QED
    BY <1>2, <1>5, <1>6 DEF TypeInv, StreamsTyped, streamVars

\* A job that raises comes back as it was, or is given up.
LEMMA Raises ==
    ASSUME TypeInv, NEW h \in running, JobRaises(h)
    PROVE  /\ Finish(h) /\ h.pc \notin {"recipients", "enqueue"}
           /\ repeated' = IF HalfWay(h) THEN repeated \cup Reaches(h.job) ELSE repeated
           /\ \/ jobs' = jobs
              \/ \E job \in Job : /\ job.kind = h.job.kind /\ job.ids = h.job.ids
                                  /\ jobs' = jobs \cup {job}
           /\ lost' = lost \/ lost' = lost \cup Reaches(h.job)
           /\ UNCHANGED <<rowVars, published, streamVars, accepted>>
<1>1. PICK job : job = [h.job EXCEPT !.tries = h.job.tries + 1]
    OBVIOUS
<1>2. job \in Job /\ job.kind = h.job.kind /\ job.ids = h.job.ids
    BY <1>1, Running, JobTypes
<1>3. \/ jobs' = jobs /\ lost' = lost \cup Reaches(h.job)
      \/ jobs' = jobs \cup {job} /\ lost' = lost
    BY <1>1 DEF JobRaises
<1>4. /\ Finish(h) /\ h.pc \notin {"recipients", "enqueue"}
      /\ repeated' = IF HalfWay(h) THEN repeated \cup Reaches(h.job) ELSE repeated
      /\ UNCHANGED <<rowVars, published, streamVars, accepted>>
    BY DEF JobRaises
<1> QED
    BY <1>2, <1>3, <1>4

LEMMA Counted ==
    ASSUME StreamsTyped, Count
    PROVE  failures' \in 0 .. MaxFailures
<1>1. MaxFailures \in Nat
    BY ConstantsAssumption
<1> QED
    BY <1>1 DEF StreamsTyped, Count

LEMMA RaiseTypes ==
    ASSUME TypeInv, NEW h \in running, JobRaises(h)
    PROVE  TypeInv'
<1>1. /\ Finish(h)
      /\ repeated' = repeated \/ repeated' = repeated \cup Reaches(h.job)
      /\ \/ jobs' = jobs
         \/ \E job \in Job : job.kind = h.job.kind /\ job.ids = h.job.ids /\ jobs' = jobs \cup {job}
      /\ lost' = lost \/ lost' = lost \cup Reaches(h.job)
      /\ UNCHANGED <<rowVars, published, streamVars, accepted>>
    BY Raises
<1>2. Grown
    BY <1>1, Unmoved
<1>3. Reaches(h.job) \subseteq DOMAIN recipient /\ JobOK(h.job)'
    BY <1>2, Running, ReachedRows, OKStays
<1>4. \A job \in Job : job.kind = h.job.kind /\ job.ids = h.job.ids => JobOK(job)'
    BY <1>3 DEF JobOK
<1>5. jobs' \subseteq Job /\ \A job \in jobs' : job \in jobs \/ JobOK(job)'
    BY <1>1, <1>4 DEF TypeInv, WorkTyped
<1>6. WorkTyped'
    BY <1>1, <1>2, <1>5, WorkEnds DEF TypeInv
<1>7. failures' \in 0 .. MaxFailures
    BY Counted DEF TypeInv, JobRaises
<1> QED
    BY <1>1, <1>3, <1>6, <1>7 DEF TypeInv, RowsTyped, StreamsTyped, streamVars, rowVars

LEMMA DieTypes ==
    ASSUME TypeInv, NEW h \in running, Die(h)
    PROVE  TypeInv'
<1>1. /\ Finish(h) /\ lost' = lost \cup Reaches(h.job)
      /\ UNCHANGED <<rowVars, jobs, published, streamVars, accepted, repeated>>
    BY DEF Die
<1>2. Grown
    BY <1>1, Unmoved
<1>3. Reaches(h.job) \subseteq DOMAIN recipient
    BY Running, ReachedRows
<1>4. WorkTyped'
    BY <1>1, <1>2, WorkEnds DEF TypeInv, WorkTyped
<1>5. failures' \in 0 .. MaxFailures
    BY Counted DEF TypeInv, Die
<1> QED
    BY <1>1, <1>3, <1>4, <1>5 DEF TypeInv, RowsTyped, StreamsTyped, streamVars, rowVars

-----------------------------------------------------------------------------
(***************************************************************************)
(* Connections.                                                            *)
(***************************************************************************)
LEMMA StreamTypes ==
    ASSUME StreamsTyped
    PROVE  /\ DOMAIN sse = 1 .. Len(sse) /\ Len(sse) \in Nat
           /\ DOMAIN ws = 1 .. Len(ws) /\ Len(ws) \in Nat
           /\ \A i \in DOMAIN sse : sse[i] \in SSEConnection
           /\ \A i \in DOMAIN ws : ws[i] \in WebSocket
BY LenProperties, ElementOfSeq DEF StreamsTyped

\* A step that leaves the pipeline alone.
LEMMA Apart ==
    ASSUME TypeInv, UNCHANGED restVars, StreamsTyped'
    PROVE  TypeInv'
<1>1. Grown /\ UNCHANGED <<notification, recipient, delivery, jobs, running, accepted, repeated, lost>>
    BY Unmoved DEF restVars, rowVars
<1>2. WorkTyped'
    BY <1>1, WorkStays DEF TypeInv, WorkTyped
<1> QED
    BY <1>1, <1>2 DEF TypeInv, RowsTyped

LEMMA SSERows ==
    ASSUME NEW c \in SSEConnection, NEW b \in BOOLEAN
    PROVE  /\ c.user \in User /\ c.closed \in BOOLEAN /\ c.done \in BOOLEAN /\ c.unread \in BOOLEAN
           /\ [c EXCEPT !.closed = b] \in SSEConnection
           /\ [c EXCEPT !.closed = b].user = c.user /\ [c EXCEPT !.closed = b].done = c.done
           /\ [c EXCEPT !.closed = b].closed = b
           /\ [c EXCEPT !.done = b] \in SSEConnection
           /\ [c EXCEPT !.done = b].user = c.user /\ [c EXCEPT !.done = b].closed = c.closed
           /\ [c EXCEPT !.done = b].done = b
           /\ [c EXCEPT !.unread = b] \in SSEConnection
           /\ [c EXCEPT !.unread = b].user = c.user /\ [c EXCEPT !.unread = b].closed = c.closed
           /\ [c EXCEPT !.unread = b].done = c.done
BY DEF SSEConnection

\* What each step does to the streams, with what holds of them afterwards.
LEMMA SSEConnects ==
    ASSUME StreamsTyped, NEW u \in User, SSEConnect(u)
    PROVE  /\ sse' \in Seq(SSEConnection) /\ DOMAIN sse' = DOMAIN sse \cup {Len(sse) + 1}
           /\ Len(sse') = Len(sse) + 1
           /\ \A i \in DOMAIN sse : /\ sse'[i].user = sse[i].user /\ sse'[i].done = sse[i].done
                                    /\ sse'[i].closed = (sse[i].closed \/ i = sseOf[u])
           /\ sse'[Len(sse) + 1].user = u
           /\ sseOf' = [sseOf EXCEPT ![u] = Len(sse) + 1]
<1>1. PICK t : t = Closed(sseOf[u])
    OBVIOUS
<1>2. t = [i \in DOMAIN sse |-> IF i = sseOf[u] THEN [sse[i] EXCEPT !.closed = TRUE] ELSE sse[i]]
    BY <1>1 DEF Closed
<1>3. \A i \in DOMAIN sse : /\ t[i] \in SSEConnection
                            /\ t[i].user = sse[i].user /\ t[i].done = sse[i].done
                            /\ t[i].closed = (sse[i].closed \/ i = sseOf[u])
  <2> SUFFICES ASSUME NEW i \in DOMAIN sse
               PROVE  /\ t[i] \in SSEConnection
                      /\ t[i].user = sse[i].user /\ t[i].done = sse[i].done
                      /\ t[i].closed = (sse[i].closed \/ i = sseOf[u])
      OBVIOUS
  <2>1. sse[i] \in SSEConnection
      BY StreamTypes
  <2>2. CASE i = sseOf[u]
    <3>1. PICK c : c = [sse[i] EXCEPT !.closed = TRUE]
        OBVIOUS
    <3>2. c \in SSEConnection /\ c.user = sse[i].user /\ c.done = sse[i].done /\ c.closed
        BY <2>1, <3>1, SSERows
    <3>3. t[i] = c
        BY <1>2, <2>2, <3>1
    <3> QED
        BY <2>2, <3>2, <3>3, SSERows
  <2>3. CASE i # sseOf[u]
    <3>1. t[i] = sse[i]
        BY <1>2, <2>3
    <3> QED
        BY <2>1, <2>3, <3>1, SSERows
  <2> QED
      BY <2>2, <2>3
<1>4. t \in Seq(SSEConnection) /\ Len(t) = Len(sse) /\ DOMAIN t = DOMAIN sse
  <2>1. DOMAIN t = DOMAIN sse /\ t = [i \in DOMAIN sse |-> t[i]]
      BY <1>2
  <2>2. \A i \in DOMAIN sse : t[i] \in SSEConnection
      BY <1>3
  <2> QED
      BY <2>1, <2>2, Rewritten DEF StreamsTyped
<1>5. PICK c : c = [user |-> u, closed |-> FALSE, done |-> FALSE, unread |-> FALSE]
    OBVIOUS
<1>6. c \in SSEConnection /\ c.user = u
    BY <1>5 DEF SSEConnection
<1>7. sse' = Append(t, c) /\ sseOf' = [sseOf EXCEPT ![u] = Len(sse) + 1]
    BY <1>1, <1>5 DEF SSEConnect
<1>8. /\ sse' \in Seq(SSEConnection) /\ Len(sse') = Len(sse) + 1
      /\ DOMAIN sse' = 1 .. Len(sse) + 1 /\ DOMAIN sse = 1 .. Len(sse) /\ Len(sse) \in Nat
      /\ \A i \in DOMAIN sse : sse'[i] = t[i]
      /\ sse'[Len(sse) + 1] = c
    BY <1>4, <1>6, <1>7, AppendRow
<1>9. DOMAIN sse' = DOMAIN sse \cup {Len(sse) + 1}
    BY <1>8
<1> QED
    BY <1>3, <1>6, <1>7, <1>8, <1>9

LEMMA Ends ==
    ASSUME StreamsTyped, NEW i \in DOMAIN sse, EndStream(i)
    PROVE  /\ sse' \in Seq(SSEConnection) /\ DOMAIN sse' = DOMAIN sse /\ Len(sse') = Len(sse)
           /\ \A j \in DOMAIN sse : /\ sse'[j].user = sse[j].user /\ sse'[j].closed = sse[j].closed
                                    /\ sse'[j].done = (sse[j].done \/ j = i)
           /\ sseOf' \in [User -> 0 .. Len(sse)]
           /\ \A u \in User : sseOf'[u] = sseOf[u] \/ (u = sse[i].user /\ sseOf[u] = i)
<1>1. PICK c : c = [sse[i] EXCEPT !.done = TRUE]
    OBVIOUS
<1>2. sse[i] \in SSEConnection /\ i \in 1 .. Len(sse) /\ Len(sse) \in Nat /\ sse \in Seq(SSEConnection)
    BY StreamTypes DEF StreamsTyped
<1>3. c \in SSEConnection /\ c.user = sse[i].user /\ c.closed = sse[i].closed /\ c.done /\ sse[i].user \in User
    BY <1>1, <1>2, SSERows
<1>4. sse' = [sse EXCEPT ![i] = c]
    BY <1>1 DEF EndStream
<1>5. /\ sse' \in Seq(SSEConnection) /\ Len(sse') = Len(sse)
      /\ \A j \in 1 .. Len(sse) : sse'[j] = IF j = i THEN c ELSE sse[j]
    BY <1>2, <1>3, <1>4, ExceptSeq
<1>6. DOMAIN sse' = DOMAIN sse
    BY <1>4
<1>7. \A j \in DOMAIN sse : sse[j].done \in BOOLEAN
    BY StreamTypes, SSERows
<1>8. PICK k : k = IF sseOf[sse[i].user] = i THEN 0 ELSE sseOf[sse[i].user]
    OBVIOUS
<1>9. sseOf' = [sseOf EXCEPT ![sse[i].user] = k]
    BY <1>8 DEF EndStream, SSEDisconnect
<1>10. k \in 0 .. Len(sse)
    BY <1>2, <1>3, <1>8 DEF StreamsTyped
<1>11. /\ sseOf' \in [User -> 0 .. Len(sse)]
       /\ \A u \in User : sseOf'[u] = sseOf[u] \/ (u = sse[i].user /\ sseOf[u] = i)
    BY <1>3, <1>8, <1>9, <1>10 DEF StreamsTyped
<1>12. \A j \in DOMAIN sse : /\ sse'[j].user = sse[j].user /\ sse'[j].closed = sse[j].closed
                             /\ sse'[j].done = (sse[j].done \/ j = i)
    BY <1>2, <1>3, <1>5, <1>7, StreamTypes
<1> QED
    BY <1>5, <1>6, <1>11, <1>12

LEMMA Receives ==
    ASSUME StreamsTyped, NEW i \in DOMAIN sse, Receive(i)
    PROVE  /\ sse' \in Seq(SSEConnection) /\ DOMAIN sse' = DOMAIN sse /\ Len(sse') = Len(sse)
           /\ \A j \in DOMAIN sse : /\ sse'[j].user = sse[j].user /\ sse'[j].closed = sse[j].closed
                                    /\ sse'[j].done = sse[j].done
<1>1. PICK c : c = [sse[i] EXCEPT !.unread = FALSE]
    OBVIOUS
<1>2. sse[i] \in SSEConnection /\ i \in 1 .. Len(sse) /\ Len(sse) \in Nat /\ sse \in Seq(SSEConnection)
    BY StreamTypes DEF StreamsTyped
<1>3. c \in SSEConnection /\ c.user = sse[i].user /\ c.closed = sse[i].closed /\ c.done = sse[i].done
    BY <1>1, <1>2, SSERows
<1>4. sse' = [sse EXCEPT ![i] = c]
    BY <1>1 DEF Receive
<1>5. /\ sse' \in Seq(SSEConnection) /\ Len(sse') = Len(sse)
      /\ \A j \in 1 .. Len(sse) : sse'[j] = IF j = i THEN c ELSE sse[j]
    BY <1>2, <1>3, <1>4, ExceptSeq
<1>6. DOMAIN sse' = DOMAIN sse
    BY <1>4
<1> QED
    BY <1>3, <1>5, <1>6, StreamTypes

LEMMA Evicts ==
    ASSUME StreamsTyped, NEW users \in SUBSET User, EvictStale(users)
    PROVE  /\ sse' \in Seq(SSEConnection) /\ DOMAIN sse' = DOMAIN sse /\ Len(sse') = Len(sse)
           /\ \A i \in DOMAIN sse :
                 /\ sse'[i].user = sse[i].user /\ sse'[i].done = sse[i].done
                 /\ sse'[i].closed = (sse[i].closed \/ \E u \in users : sseOf[u] = i)
           /\ sseOf' = [u \in User |-> IF u \in users THEN 0 ELSE sseOf[u]]
<1>1. PICK t : t = [i \in DOMAIN sse |->
                      [sse[i] EXCEPT !.closed = sse[i].closed \/ \E u \in users : sseOf[u] = i]]
    OBVIOUS
<1>2. \A i \in DOMAIN sse : /\ t[i] \in SSEConnection
                            /\ t[i].user = sse[i].user /\ t[i].done = sse[i].done
                            /\ t[i].closed = (sse[i].closed \/ \E u \in users : sseOf[u] = i)
  <2> SUFFICES ASSUME NEW i \in DOMAIN sse
               PROVE  /\ t[i] \in SSEConnection
                      /\ t[i].user = sse[i].user /\ t[i].done = sse[i].done
                      /\ t[i].closed = (sse[i].closed \/ \E u \in users : sseOf[u] = i)
      OBVIOUS
  <2>1. sse[i] \in SSEConnection
      BY StreamTypes
  <2>2. CASE sse[i].closed \/ \E u \in users : sseOf[u] = i
    <3>1. PICK c : c = [sse[i] EXCEPT !.closed = TRUE]
        OBVIOUS
    <3>2. c \in SSEConnection /\ c.user = sse[i].user /\ c.done = sse[i].done /\ c.closed
        BY <2>1, <3>1, SSERows
    <3>3. t[i] = c
        BY <1>1, <2>2, <3>1, Zenon
    <3> QED
        BY <2>2, <3>2, <3>3, SSERows
  <2>3. CASE ~(sse[i].closed \/ \E u \in users : sseOf[u] = i)
    <3>1. PICK c : c = [sse[i] EXCEPT !.closed = FALSE]
        OBVIOUS
    <3>2. c \in SSEConnection /\ c.user = sse[i].user /\ c.done = sse[i].done /\ ~c.closed
        BY <2>1, <3>1, SSERows
    <3>3. t[i] = c
        BY <1>1, <2>3, <3>1, Zenon
    <3> QED
        BY <2>3, <3>2, <3>3, SSERows
  <2> QED
      BY <2>2, <2>3
<1>3. sse' = t /\ sseOf' = [u \in User |-> IF u \in users THEN 0 ELSE sseOf[u]]
    BY <1>1 DEF EvictStale
<1>4. t \in Seq(SSEConnection) /\ Len(t) = Len(sse) /\ DOMAIN t = DOMAIN sse
  <2>1. DOMAIN t = DOMAIN sse /\ t = [i \in DOMAIN sse |-> t[i]]
      BY <1>1
  <2>2. \A i \in DOMAIN sse : t[i] \in SSEConnection
      BY <1>2
  <2> QED
      BY <2>1, <2>2, Rewritten DEF StreamsTyped
<1> QED
    BY <1>2, <1>3, <1>4

LEMMA WSRows ==
    ASSUME NEW c \in WebSocket, NEW s \in {"connecting", "open", "closed", "done"}
    PROVE  /\ c.user \in User
           /\ [c EXCEPT !.state = s] \in WebSocket
           /\ [c EXCEPT !.state = s].user = c.user /\ [c EXCEPT !.state = s].state = s
           /\ \A u \in User : c = [user |-> u, state |-> s] <=> c.user = u /\ c.state = s
BY DEF WebSocket

LEMMA WSBegins ==
    ASSUME StreamsTyped, NEW u \in User, BeginWSConnect(u)
    PROVE  /\ ws' \in Seq(WebSocket) /\ DOMAIN ws' = DOMAIN ws \cup {Len(ws) + 1}
           /\ Len(ws') = Len(ws) + 1
           /\ \A i \in DOMAIN ws : /\ ws'[i].user = ws[i].user
                                   /\ ws'[i].state = IF i = wsOf[u] THEN "closed" ELSE ws[i].state
           /\ ws'[Len(ws) + 1].user = u /\ ws'[Len(ws) + 1].state = "connecting"
           /\ crossed' = IF \E i \in DOMAIN ws : ws[i].user = u /\ ws[i].state = "connecting"
                         THEN crossed \cup {u} ELSE crossed
<1>1. PICK t : t = [i \in DOMAIN ws |-> IF i = wsOf[u] THEN [ws[i] EXCEPT !.state = "closed"] ELSE ws[i]]
    OBVIOUS
<1>2. \A i \in DOMAIN ws : /\ t[i] \in WebSocket /\ t[i].user = ws[i].user
                           /\ t[i].state = IF i = wsOf[u] THEN "closed" ELSE ws[i].state
  <2>1. \A i \in DOMAIN ws : /\ [ws[i] EXCEPT !.state = "closed"] \in WebSocket
                             /\ [ws[i] EXCEPT !.state = "closed"].user = ws[i].user
                             /\ [ws[i] EXCEPT !.state = "closed"].state = "closed"
      BY StreamTypes, WSRows
  <2> QED
      BY <1>1, <2>1, StreamTypes
<1>3. t \in Seq(WebSocket) /\ Len(t) = Len(ws) /\ DOMAIN t = DOMAIN ws
    BY <1>1, <1>2, Rewritten DEF StreamsTyped
<1>4. PICK c : c = [user |-> u, state |-> "connecting"]
    OBVIOUS
<1>5. c \in WebSocket /\ c.user = u /\ c.state = "connecting"
    BY <1>4 DEF WebSocket
<1>6. ws' = Append(t, c)
    BY <1>1, <1>4 DEF BeginWSConnect
<1>7. /\ ws' \in Seq(WebSocket) /\ Len(ws') = Len(ws) + 1
      /\ DOMAIN ws' = 1 .. Len(ws) + 1 /\ DOMAIN ws = 1 .. Len(ws) /\ Len(ws) \in Nat
      /\ \A i \in DOMAIN ws : ws'[i] = t[i]
      /\ ws'[Len(ws) + 1] = c
    BY <1>3, <1>5, <1>6, AppendRow
<1>8. DOMAIN ws' = DOMAIN ws \cup {Len(ws) + 1}
    BY <1>7
<1>9. \A i \in DOMAIN ws : ws[i] = c <=> ws[i].user = u /\ ws[i].state = "connecting"
  <2> SUFFICES ASSUME NEW i \in DOMAIN ws
               PROVE  ws[i] = c <=> ws[i].user = u /\ ws[i].state = "connecting"
      OBVIOUS
  <2>1. PICK w : w = ws[i]
      OBVIOUS
  <2>2. w \in WebSocket
      BY <2>1, StreamTypes
  <2>3. w = c <=> w.user = u /\ w.state = "connecting"
      BY <1>4, <2>2 DEF WebSocket
  <2> QED
      BY <2>1, <2>3
<1>10. crossed' = IF \E i \in DOMAIN ws : ws[i] = c THEN crossed \cup {u} ELSE crossed
    BY <1>4 DEF BeginWSConnect
<1>11. (\E i \in DOMAIN ws : ws[i] = c) <=> \E i \in DOMAIN ws : ws[i].user = u /\ ws[i].state = "connecting"
    BY <1>9
<1> QED
    BY <1>2, <1>5, <1>7, <1>8, <1>10, <1>11

LEMMA Replaced ==
    ASSUME NEW S, NEW s \in Seq(S), NEW i \in 1 .. Len(s), NEW e \in S, NEW t, t = [s EXCEPT ![i] = e]
    PROVE  /\ t \in Seq(S) /\ DOMAIN t = DOMAIN s /\ Len(t) = Len(s)
           /\ \A j \in DOMAIN s : t[j] = IF j = i THEN e ELSE s[j]
<1>1. t \in Seq(S) /\ Len(t) = Len(s)
    BY ExceptSeq
<1> QED
    BY <1>1

\* One socket gets another state.
LEMMA WSMoves ==
    ASSUME StreamsTyped, NEW i \in DOMAIN ws, NEW s \in {"connecting", "open", "closed", "done"},
           ws' = [ws EXCEPT ![i].state = s]
    PROVE  /\ ws' \in Seq(WebSocket) /\ DOMAIN ws' = DOMAIN ws /\ Len(ws') = Len(ws)
           /\ \A j \in DOMAIN ws : /\ ws'[j].user = ws[j].user
                                   /\ ws'[j].state = IF j = i THEN s ELSE ws[j].state
<1>1. PICK c : c = [ws[i] EXCEPT !.state = s]
    OBVIOUS
<1>2. ws[i] \in WebSocket /\ i \in 1 .. Len(ws) /\ Len(ws) \in Nat /\ ws \in Seq(WebSocket)
    BY StreamTypes DEF StreamsTyped
<1>3. c \in WebSocket /\ c.user = ws[i].user /\ c.state = s
    BY <1>1, <1>2 DEF WebSocket
<1>4. PICK t : t = [ws EXCEPT ![i] = c]
    OBVIOUS
<1>5. /\ t \in Seq(WebSocket) /\ Len(t) = Len(ws) /\ DOMAIN t = DOMAIN ws
      /\ \A j \in DOMAIN ws : t[j] = IF j = i THEN c ELSE ws[j]
    BY <1>2, <1>3, <1>4, Replaced
<1>6. ws' = t
    BY <1>1, <1>4
<1> QED
    BY <1>3, <1>5, <1>6

LEMMA WSForgets ==
    ASSUME StreamsTyped, NEW i \in DOMAIN ws, WSDisconnect(i)
    PROVE  /\ wsOf' \in [User -> 0 .. Len(ws)]
           /\ \A u \in User : wsOf'[u] = wsOf[u] \/ wsOf[u] = i
<1>1. ws[i].user \in User /\ Len(ws) \in Nat
    BY StreamTypes DEF WebSocket
<1>2. PICK k : k = IF wsOf[ws[i].user] = i THEN 0 ELSE wsOf[ws[i].user]
    OBVIOUS
<1>3. wsOf' = [wsOf EXCEPT ![ws[i].user] = k] /\ k \in 0 .. Len(ws)
    BY <1>1, <1>2 DEF WSDisconnect, StreamsTyped
<1> QED
    BY <1>1, <1>2, <1>3 DEF StreamsTyped

\* A message that arrives changes what is unread, and may take out a closed
\* WebSocket.
LEMMA Arrives ==
    ASSUME StreamsTyped, DeliverInApp
    PROVE  /\ published' \in Seq(User)
           /\ sse' \in Seq(SSEConnection) /\ DOMAIN sse' = DOMAIN sse /\ Len(sse') = Len(sse)
           /\ \A i \in DOMAIN sse : /\ sse'[i].user = sse[i].user /\ sse'[i].done = sse[i].done
                                    /\ sse'[i].closed = sse[i].closed
           /\ \/ wsOf' = wsOf
              \/ \E i \in DOMAIN ws : ws[i].state = "closed" /\ WSDisconnect(i)
<1>1. PICK u : u = Head(published)
    OBVIOUS
<1>2. u \in User /\ published' \in Seq(User)
    BY <1>1, HeadTailProperties DEF StreamsTyped, DeliverInApp
<1>3. PICK t : t = [i \in DOMAIN sse |-> [sse[i] EXCEPT !.unread = sse[i].unread \/ i = sseOf[u]]]
    OBVIOUS
<1>4. \A i \in DOMAIN sse : /\ t[i] \in SSEConnection
                            /\ t[i].user = sse[i].user /\ t[i].done = sse[i].done
                            /\ t[i].closed = sse[i].closed
  <2> SUFFICES ASSUME NEW i \in DOMAIN sse
               PROVE  /\ t[i] \in SSEConnection
                      /\ t[i].user = sse[i].user /\ t[i].done = sse[i].done
                      /\ t[i].closed = sse[i].closed
      OBVIOUS
  <2>1. sse[i] \in SSEConnection
      BY StreamTypes
  <2>2. CASE sse[i].unread \/ i = sseOf[u]
    <3>1. PICK c : c = [sse[i] EXCEPT !.unread = TRUE]
        OBVIOUS
    <3>2. /\ c \in SSEConnection /\ c.user = sse[i].user /\ c.done = sse[i].done
          /\ c.closed = sse[i].closed
        BY <2>1, <3>1, SSERows
    <3>3. t[i] = c
        BY <1>3, <2>2, <3>1, Zenon
    <3> QED
        BY <3>2, <3>3
  <2>3. CASE ~(sse[i].unread \/ i = sseOf[u])
    <3>1. PICK c : c = [sse[i] EXCEPT !.unread = FALSE]
        OBVIOUS
    <3>2. /\ c \in SSEConnection /\ c.user = sse[i].user /\ c.done = sse[i].done
          /\ c.closed = sse[i].closed
        BY <2>1, <3>1, SSERows
    <3>3. t[i] = c
        BY <1>3, <2>3, <3>1, Zenon
    <3> QED
        BY <3>2, <3>3
  <2> QED
      BY <2>2, <2>3
<1>5. t \in Seq(SSEConnection) /\ Len(t) = Len(sse) /\ DOMAIN t = DOMAIN sse
  <2>1. DOMAIN t = DOMAIN sse /\ t = [i \in DOMAIN sse |-> t[i]]
      BY <1>3
  <2>2. \A i \in DOMAIN sse : t[i] \in SSEConnection
      BY <1>4
  <2> QED
      BY <2>1, <2>2, Rewritten DEF StreamsTyped
<1>6. /\ sse' = t
      /\ \/ wsOf' = wsOf
         \/ wsOf[u] # 0 /\ ws[wsOf[u]].state = "closed" /\ WSDisconnect(wsOf[u])
    BY <1>1, <1>3 DEF DeliverInApp
<1>7. wsOf[u] # 0 => wsOf[u] \in DOMAIN ws
    BY <1>2, StreamTypes DEF StreamsTyped
<1> QED
    BY <1>2, <1>4, <1>5, <1>6, <1>7

LEMMA ConnectionTypes ==
    ASSUME TypeInv, ConnectionStep
    PROVE  TypeInv'
<1>0. StreamsTyped
    BY DEF TypeInv
<1>1. ASSUME NEW u \in Online, SSEConnect(u)
      PROVE  TypeInv'
  <2>1. u \in User
      BY ConstantsAssumption
  <2>2. /\ sse' \in Seq(SSEConnection) /\ Len(sse') = Len(sse) + 1
        /\ sseOf' = [sseOf EXCEPT ![u] = Len(sse) + 1]
      BY <1>0, <1>1, <2>1, SSEConnects
  <2>3. sseOf' \in [User -> 0 .. Len(sse')]
      BY <1>0, <2>1, <2>2, StreamTypes DEF StreamsTyped
  <2>4. UNCHANGED <<restVars, published, failures, ws, wsOf, crossed>>
      BY <1>1 DEF SSEConnect
  <2> QED
      BY <1>0, <2>2, <2>3, <2>4, Apart DEF StreamsTyped
<1>2. ASSUME NEW u \in Online, BeginWSConnect(u)
      PROVE  TypeInv'
  <2>1. u \in User
      BY ConstantsAssumption
  <2>2. ws' \in Seq(WebSocket) /\ Len(ws') = Len(ws) + 1 /\ crossed' \subseteq crossed \cup {u}
      BY <1>0, <1>2, <2>1, WSBegins
  <2>3. UNCHANGED <<restVars, published, failures, sse, sseOf, wsOf>>
      BY <1>2 DEF BeginWSConnect
  <2>4. wsOf' \in [User -> 0 .. Len(ws')]
      BY <1>0, <2>2, <2>3, StreamTypes DEF StreamsTyped
  <2> QED
      BY <1>0, <2>1, <2>2, <2>3, <2>4, Apart DEF StreamsTyped
<1>3. ASSUME NEW i \in DOMAIN sse, Receive(i)
      PROVE  TypeInv'
  <2>1. sse' \in Seq(SSEConnection) /\ Len(sse') = Len(sse)
      BY <1>0, <1>3, Receives
  <2>2. UNCHANGED <<restVars, published, failures, ws, sseOf, wsOf, crossed>>
      BY <1>3 DEF Receive
  <2> QED
      BY <1>0, <2>1, <2>2, Apart DEF StreamsTyped
<1>4. ASSUME NEW i \in DOMAIN sse, EndStream(i)
      PROVE  TypeInv'
  <2>1. sse' \in Seq(SSEConnection) /\ Len(sse') = Len(sse) /\ sseOf' \in [User -> 0 .. Len(sse)]
      BY <1>0, <1>4, Ends
  <2>2. UNCHANGED <<restVars, published, failures, ws, wsOf, crossed>>
      BY <1>4 DEF EndStream
  <2> QED
      BY <1>0, <2>1, <2>2, Apart DEF StreamsTyped
<1>5. ASSUME NEW users \in SUBSET Online, EvictStale(users)
      PROVE  TypeInv'
  <2>1. users \in SUBSET User
      BY ConstantsAssumption
  <2>2. /\ sse' \in Seq(SSEConnection) /\ Len(sse') = Len(sse)
        /\ sseOf' = [u \in User |-> IF u \in users THEN 0 ELSE sseOf[u]]
      BY <1>0, <1>5, <2>1, Evicts
  <2>3. sseOf' \in [User -> 0 .. Len(sse)]
      BY <1>0, <2>2, StreamTypes DEF StreamsTyped
  <2>4. UNCHANGED <<restVars, published, failures, ws, wsOf, crossed>>
      BY <1>5 DEF EvictStale
  <2> QED
      BY <1>0, <2>2, <2>3, <2>4, Apart DEF StreamsTyped
<1>6. ASSUME NEW i \in DOMAIN ws, WSConnect(i)
      PROVE  TypeInv'
  <2>1. ws' = [ws EXCEPT ![i].state = "open"] /\ wsOf' = [wsOf EXCEPT ![ws[i].user] = i]
        /\ UNCHANGED <<restVars, published, failures, sse, sseOf, crossed>>
      BY <1>6 DEF WSConnect
  <2>2. ws' \in Seq(WebSocket) /\ Len(ws') = Len(ws)
      BY <1>0, <2>1, WSMoves
  <2>3. ws[i].user \in User /\ i \in 0 .. Len(ws)
      BY <1>0, StreamTypes DEF StreamsTyped, WebSocket
  <2>4. wsOf' \in [User -> 0 .. Len(ws)]
      BY <1>0, <2>1, <2>3 DEF StreamsTyped
  <2> QED
      BY <1>0, <2>1, <2>2, <2>4, Apart DEF StreamsTyped
<1>7. ASSUME NEW i \in DOMAIN ws, EndSocket(i)
      PROVE  TypeInv'
  <2>1. ws' = [ws EXCEPT ![i].state = "done"] /\ WSDisconnect(i)
        /\ UNCHANGED <<restVars, published, failures, sse, sseOf, crossed>>
      BY <1>7 DEF EndSocket
  <2>2. ws' \in Seq(WebSocket) /\ Len(ws') = Len(ws)
      BY <1>0, <2>1, WSMoves
  <2>3. wsOf' \in [User -> 0 .. Len(ws)]
      BY <1>0, <2>1, WSForgets
  <2> QED
      BY <1>0, <2>1, <2>2, <2>3, Apart DEF StreamsTyped
<1>8. ASSUME DeliverInApp
      PROVE  TypeInv'
  <2>1. /\ published' \in Seq(User) /\ sse' \in Seq(SSEConnection) /\ Len(sse') = Len(sse)
        /\ \/ wsOf' = wsOf
           \/ \E i \in DOMAIN ws : WSDisconnect(i)
      BY <1>0, <1>8, Arrives
  <2>2. wsOf' \in [User -> 0 .. Len(ws)]
      BY <1>0, <2>1, WSForgets DEF StreamsTyped
  <2>3. UNCHANGED <<restVars, failures, ws, sseOf, crossed>>
      BY <1>8 DEF DeliverInApp
  <2> QED
      BY <1>0, <2>1, <2>2, <2>3, Apart DEF StreamsTyped
<1>9. ASSUME LoseMessage
      PROVE  TypeInv'
  <2>1. failures' \in 0 .. MaxFailures
      BY <1>0, <1>9, Counted DEF LoseMessage
  <2>2. published' \in Seq(User)
      BY <1>0, <1>9, HeadTailProperties DEF LoseMessage, StreamsTyped
  <2>3. UNCHANGED <<restVars, sse, ws, sseOf, wsOf, crossed>>
      BY <1>9 DEF LoseMessage, streamVars
  <2> QED
      BY <1>0, <2>1, <2>2, <2>3, Apart DEF StreamsTyped
<1> QED
    BY <1>1, <1>2, <1>3, <1>4, <1>5, <1>6, <1>7, <1>8, <1>9 DEF ConnectionStep

-----------------------------------------------------------------------------
LEMMA TypeInit ==
    ASSUME Init
    PROVE  TypeInv
<1>1. RowsTyped
  <2>1. DOMAIN delivery = {} /\ DOMAIN recipient = {} /\ accepted \in [DOMAIN delivery -> Nat]
      BY EmptySeq DEF Init
  <2> QED
      BY <2>1, EmptySeq DEF Init, RowsTyped
<1>2. WorkTyped
    BY FS_EmptySet DEF Init, WorkTyped
<1>3. StreamsTyped
  <2>1. 0 \in 0 .. MaxFailures /\ 0 \in 0 .. 0
      BY ConstantsAssumption
  <2>2. published \in Seq(User) /\ sse \in Seq(SSEConnection) /\ ws \in Seq(WebSocket)
        /\ Len(sse) = 0 /\ Len(ws) = 0
      BY EmptySeq DEF Init
  <2> QED
      BY <2>1, <2>2 DEF Init, StreamsTyped
<1> QED
    BY <1>1, <1>2, <1>3 DEF TypeInv

LEMMA TypeNext ==
    ASSUME TypeInv, [Next]_vars
    PROVE  TypeInv'
<1>1. CASE CreateNotification(Channel, User)
    BY <1>1, CreateTypes
<1>2. ASSUME NEW i \in DOMAIN recipient, MarkAsRead(i)
      PROVE  TypeInv'
    BY <1>2, ReadTypes
<1>3. ASSUME NEW job \in jobs, StartJob(job)
      PROVE  TypeInv'
    BY <1>3, StartTypes
<1>4. ASSUME NEW h \in running, PipelineStep(h) \/ JobRaises(h) \/ Die(h)
      PROVE  TypeInv'
    BY <1>4, AddTypes, EnqueueTypes, PageTypes, ExpireTypes, InsertTypes, SentTypes, QueueTypes,
       PublishTypes, SendTypes, RecordTypes, RaiseTypes, DieTypes DEF PipelineStep
<1>5. CASE ConnectionStep
    BY <1>5, ConnectionTypes
<1>6. CASE UNCHANGED vars
  <2>1. UNCHANGED restVars /\ StreamsTyped'
      BY <1>6 DEF vars, restVars, streamVars, TypeInv, StreamsTyped
  <2> QED
      BY <2>1, Apart
<1> QED
    BY <1>1, <1>2, <1>3, <1>4, <1>5, <1>6 DEF Next

LEMMA Typing == Spec => []TypeInv
BY TypeInit, TypeNext, PTL DEF Spec

\* Rows, jobs, handlers, connections and the managers' maps keep their types,
\* however often jobs are repeated: no two handlers share a slot, no delivery
\* or recipient is without its owner.
THEOREM NotificationTypeCorrect == Spec => []TypeOK
<1>1. TypeInv => TypeOK
    BY DEF TypeInv, RowsTyped, WorkTyped, StreamsTyped, TypeOK
<1> QED
    BY <1>1, Typing, PTL

-----------------------------------------------------------------------------
(***************************************************************************)
(* Connections.  A stream that has neither ended nor been closed is the    *)
(* one its manager holds.  For WebSockets this needs more: where only one  *)
(* of a user's is set up at a time, none is open meanwhile.                *)
(***************************************************************************)
StreamHeld == \A i \in DOMAIN sse : sse[i].closed \/ sse[i].done \/ sseOf[sse[i].user] = i

SocketHeld ==
    \A i \in DOMAIN ws : ws[i].state = "open" => wsOf[ws[i].user] = i \/ ws[i].user \in crossed

OneSetUp ==
    \A i, j \in DOMAIN ws :
        ws[i].state = "connecting" /\ ws[j].user = ws[i].user /\ ws[j].state \in {"connecting", "open"}
        => i = j \/ ws[i].user \in crossed

ConnectionInv == StreamHeld /\ SocketHeld /\ OneSetUp

LEMMA StreamsSame ==
    ASSUME StreamHeld, UNCHANGED <<sse, sseOf>>
    PROVE  StreamHeld'
BY DEF StreamHeld

LEMMA SocketsSame ==
    ASSUME SocketHeld, OneSetUp, UNCHANGED <<ws, wsOf, crossed>>
    PROVE  SocketHeld' /\ OneSetUp'
BY DEF SocketHeld, OneSetUp

LEMMA StreamStep ==
    ASSUME StreamsTyped, ConnectionStep, StreamHeld
    PROVE  StreamHeld'
<1>1. ASSUME NEW u \in Online, SSEConnect(u)
      PROVE  StreamHeld'
  <2>1. u \in User
      BY ConstantsAssumption
  <2>2. /\ DOMAIN sse' = DOMAIN sse \cup {Len(sse) + 1}
        /\ \A i \in DOMAIN sse : /\ sse'[i].user = sse[i].user /\ sse'[i].done = sse[i].done
                                 /\ sse'[i].closed = (sse[i].closed \/ i = sseOf[u])
        /\ sse'[Len(sse) + 1].user = u
        /\ sseOf' = [sseOf EXCEPT ![u] = Len(sse) + 1]
      BY <1>1, <2>1, SSEConnects
  <2>3. ASSUME NEW i \in DOMAIN sse
        PROVE  sse'[i].closed \/ sse'[i].done \/ sseOf'[sse'[i].user] = i
    <3>1. sse[i].user \in User
        BY StreamTypes, SSERows
    <3>2. CASE i = sseOf[u]
        BY <2>2, <3>2
    <3>3. CASE sse[i].closed \/ sse[i].done
        BY <2>2, <3>3
    <3>4. CASE sseOf[sse[i].user] = i /\ i # sseOf[u]
        BY <2>2, <3>1, <3>4 DEF StreamsTyped
    <3> QED
        BY <3>2, <3>3, <3>4 DEF StreamHeld
  <2>4. sseOf'[sse'[Len(sse) + 1].user] = Len(sse) + 1
      BY <2>1, <2>2 DEF StreamsTyped
  <2> QED
      BY <2>2, <2>3, <2>4 DEF StreamHeld
<1>2. ASSUME NEW i \in DOMAIN sse, Receive(i)
      PROVE  StreamHeld'
  <2>1. /\ DOMAIN sse' = DOMAIN sse /\ sseOf' = sseOf
        /\ \A j \in DOMAIN sse : /\ sse'[j].user = sse[j].user /\ sse'[j].closed = sse[j].closed
                                 /\ sse'[j].done = sse[j].done
      BY <1>2, Receives DEF Receive
  <2> QED
      BY <2>1 DEF StreamHeld
<1>3. ASSUME NEW i \in DOMAIN sse, EndStream(i)
      PROVE  StreamHeld'
  <2>1. /\ DOMAIN sse' = DOMAIN sse
        /\ \A j \in DOMAIN sse : /\ sse'[j].user = sse[j].user /\ sse'[j].closed = sse[j].closed
                                 /\ sse'[j].done = (sse[j].done \/ j = i)
        /\ \A u \in User : sseOf'[u] = sseOf[u] \/ (u = sse[i].user /\ sseOf[u] = i)
      BY <1>3, Ends
  <2>2. ASSUME NEW j \in DOMAIN sse
        PROVE  sse'[j].closed \/ sse'[j].done \/ sseOf'[sse'[j].user] = j
    <3>1. sse[j].user \in User
        BY StreamTypes, SSERows
    <3>2. CASE j = i
        BY <2>1, <3>2
    <3>3. CASE sse[j].closed \/ sse[j].done
        BY <2>1, <3>3
    <3>4. CASE sseOf[sse[j].user] = j /\ j # i
        BY <2>1, <3>1, <3>4
    <3> QED
        BY <3>2, <3>3, <3>4 DEF StreamHeld
  <2> QED
      BY <2>1, <2>2 DEF StreamHeld
<1>4. ASSUME NEW users \in SUBSET Online, EvictStale(users)
      PROVE  StreamHeld'
  <2>1. /\ DOMAIN sse' = DOMAIN sse
        /\ \A i \in DOMAIN sse :
              /\ sse'[i].user = sse[i].user /\ sse'[i].done = sse[i].done
              /\ sse'[i].closed = (sse[i].closed \/ \E u \in users : sseOf[u] = i)
        /\ sseOf' = [u \in User |-> IF u \in users THEN 0 ELSE sseOf[u]]
      BY <1>4, Evicts, ConstantsAssumption
  <2>2. ASSUME NEW i \in DOMAIN sse
        PROVE  sse'[i].closed \/ sse'[i].done \/ sseOf'[sse'[i].user] = i
    <3>1. sse[i].user \in User
        BY StreamTypes, SSERows
    <3>2. CASE \E u \in users : sseOf[u] = i
        BY <2>1, <3>2
    <3>3. CASE sse[i].closed \/ sse[i].done
        BY <2>1, <3>3
    <3>4. CASE sseOf[sse[i].user] = i /\ ~\E u \in users : sseOf[u] = i
        BY <2>1, <3>1, <3>4
    <3> QED
        BY <3>2, <3>3, <3>4 DEF StreamHeld
  <2> QED
      BY <2>1, <2>2 DEF StreamHeld
<1>5. CASE DeliverInApp
  <2>1. /\ DOMAIN sse' = DOMAIN sse /\ sseOf' = sseOf
        /\ \A i \in DOMAIN sse : /\ sse'[i].user = sse[i].user /\ sse'[i].done = sse[i].done
                                 /\ sse'[i].closed = sse[i].closed
      BY <1>5, Arrives DEF DeliverInApp
  <2> QED
      BY <2>1 DEF StreamHeld
<1>6. ASSUME NEW u \in Online, BeginWSConnect(u)
      PROVE  StreamHeld'
    BY <1>6, StreamsSame DEF BeginWSConnect
<1>7. ASSUME NEW i \in DOMAIN ws, WSConnect(i) \/ EndSocket(i)
      PROVE  StreamHeld'
    BY <1>7, StreamsSame DEF WSConnect, EndSocket
<1>8. CASE LoseMessage
    BY <1>8, StreamsSame DEF LoseMessage, streamVars
<1> QED
    BY <1>1, <1>2, <1>3, <1>4, <1>5, <1>6, <1>7, <1>8 DEF ConnectionStep

LEMMA SocketStep ==
    ASSUME StreamsTyped, ConnectionStep, SocketHeld, OneSetUp
    PROVE  SocketHeld' /\ OneSetUp'
<1>0. \A i \in DOMAIN ws : ws[i].user \in User
    BY StreamTypes DEF WebSocket
<1>1. ASSUME NEW u \in Online, BeginWSConnect(u)
      PROVE  SocketHeld' /\ OneSetUp'
  <2>1. u \in User
      BY ConstantsAssumption
  <2>2. PICK n : n = Len(ws) + 1
      OBVIOUS
  <2>3. n \notin DOMAIN ws
      BY <2>2, StreamTypes
  <2>4. wsOf' = wsOf
      BY <1>1 DEF BeginWSConnect
  <2>5. /\ DOMAIN ws' = DOMAIN ws \cup {n}
        /\ \A i \in DOMAIN ws : /\ ws'[i].user = ws[i].user
                                /\ ws'[i].state = IF i = wsOf[u] THEN "closed" ELSE ws[i].state
        /\ ws'[n].user = u /\ ws'[n].state = "connecting"
        /\ crossed' = IF \E i \in DOMAIN ws : ws[i].user = u /\ ws[i].state = "connecting"
                      THEN crossed \cup {u} ELSE crossed
      BY <1>1, <2>1, <2>2, WSBegins
  <2>6. crossed \subseteq crossed'
      BY <2>5
  <2>7. \A i \in DOMAIN ws : ws[i].user = u /\ ws'[i].state \in {"connecting", "open"} => u \in crossed'
    <3> SUFFICES ASSUME NEW i \in DOMAIN ws, ws[i].user = u, ws'[i].state \in {"connecting", "open"}
                 PROVE  u \in crossed'
        OBVIOUS
    <3>1. i # wsOf[u] /\ ws[i].state \in {"connecting", "open"}
        BY <2>5
    <3>2. CASE ws[i].state = "connecting"
        BY <2>5, <3>2
    <3>3. CASE ws[i].state = "open"
        BY <2>6, <3>1, <3>3 DEF SocketHeld
    <3> QED
        BY <3>1, <3>2, <3>3
  <2>8. SocketHeld'
      BY <2>3, <2>4, <2>5, <2>6 DEF SocketHeld
  <2>9. ASSUME NEW i \in DOMAIN ws', NEW j \in DOMAIN ws', ws'[i].state = "connecting",
               ws'[j].user = ws'[i].user, ws'[j].state \in {"connecting", "open"}
        PROVE  i = j \/ ws'[i].user \in crossed'
    <3>1. CASE i \in DOMAIN ws /\ j \in DOMAIN ws
      <4>1. /\ ws[i].state = "connecting" /\ ws[j].user = ws[i].user
            /\ ws[j].state \in {"connecting", "open"} /\ ws'[i].user = ws[i].user
          BY <2>5, <2>9, <3>1
      <4> QED
          BY <2>6, <3>1, <4>1 DEF OneSetUp
    <3>2. CASE i = n /\ j \in DOMAIN ws
        BY <2>5, <2>7, <2>9, <3>2
    <3>3. CASE j = n /\ i \in DOMAIN ws
        BY <2>5, <2>7, <2>9, <3>3
    <3> QED
        BY <2>5, <3>1, <3>2, <3>3
  <2> QED
      BY <2>8, <2>9 DEF OneSetUp
<1>2. ASSUME NEW k \in DOMAIN ws, WSConnect(k)
      PROVE  SocketHeld' /\ OneSetUp'
  <2>1. /\ ws[k].state = "connecting" /\ crossed' = crossed
        /\ ws' = [ws EXCEPT ![k].state = "open"] /\ wsOf' = [wsOf EXCEPT ![ws[k].user] = k]
      BY <1>2 DEF WSConnect
  <2>2. /\ DOMAIN ws' = DOMAIN ws
        /\ \A j \in DOMAIN ws : /\ ws'[j].user = ws[j].user
                                /\ ws'[j].state = IF j = k THEN "open" ELSE ws[j].state
      BY <2>1, WSMoves
  <2>3. \A u \in User : wsOf'[u] = IF u = ws[k].user THEN k ELSE wsOf[u]
      BY <2>1 DEF StreamsTyped
  <2>4. ASSUME NEW i \in DOMAIN ws, ws'[i].state = "open"
        PROVE  wsOf'[ws'[i].user] = i \/ ws'[i].user \in crossed'
    <3>1. CASE i = k
        BY <1>0, <2>2, <2>3, <3>1
    <3>2. CASE i # k /\ ws[i].user = ws[k].user
      <4>1. ws[i].state = "open"
          BY <2>2, <2>4, <3>2
      <4> QED
          BY <2>1, <2>2, <3>2, <4>1 DEF OneSetUp
    <3>3. CASE ws[i].user # ws[k].user
      <4>1. ws[i].state = "open" /\ wsOf'[ws[i].user] = wsOf[ws[i].user]
          BY <1>0, <2>2, <2>3, <2>4, <3>3
      <4> QED
          BY <2>1, <2>2, <4>1 DEF SocketHeld
    <3> QED
        BY <3>1, <3>2, <3>3
  <2>5. ASSUME NEW i \in DOMAIN ws, NEW j \in DOMAIN ws, ws'[i].state = "connecting",
               ws'[j].user = ws'[i].user, ws'[j].state \in {"connecting", "open"}
        PROVE  i = j \/ ws'[i].user \in crossed'
    <3>1. /\ ws[i].state = "connecting" /\ ws[j].user = ws[i].user
          /\ ws[j].state \in {"connecting", "open"}
        BY <2>1, <2>2, <2>5
    <3> QED
        BY <2>1, <2>2, <3>1 DEF OneSetUp
  <2> QED
      BY <2>2, <2>4, <2>5 DEF SocketHeld, OneSetUp
<1>3. ASSUME NEW k \in DOMAIN ws, EndSocket(k)
      PROVE  SocketHeld' /\ OneSetUp'
  <2>1. crossed' = crossed /\ ws' = [ws EXCEPT ![k].state = "done"] /\ WSDisconnect(k)
      BY <1>3 DEF EndSocket
  <2>2. /\ DOMAIN ws' = DOMAIN ws
        /\ \A j \in DOMAIN ws : /\ ws'[j].user = ws[j].user
                                /\ ws'[j].state = IF j = k THEN "done" ELSE ws[j].state
      BY <2>1, WSMoves
  <2>3. \A u \in User : wsOf'[u] = wsOf[u] \/ wsOf[u] = k
      BY <2>1, WSForgets
  <2>4. ASSUME NEW i \in DOMAIN ws, ws'[i].state = "open"
        PROVE  wsOf'[ws'[i].user] = i \/ ws'[i].user \in crossed'
    <3>1. i # k /\ ws[i].state = "open"
        BY <2>2, <2>4
    <3> QED
        BY <1>0, <2>1, <2>2, <2>3, <3>1 DEF SocketHeld
  <2>5. ASSUME NEW i \in DOMAIN ws, NEW j \in DOMAIN ws, ws'[i].state = "connecting",
               ws'[j].user = ws'[i].user, ws'[j].state \in {"connecting", "open"}
        PROVE  i = j \/ ws'[i].user \in crossed'
    <3>1. /\ ws[i].state = "connecting" /\ ws[j].user = ws[i].user
          /\ ws[j].state \in {"connecting", "open"}
        BY <2>2, <2>5
    <3> QED
        BY <2>1, <2>2, <3>1 DEF OneSetUp
  <2> QED
      BY <2>2, <2>4, <2>5 DEF SocketHeld, OneSetUp
<1>4. CASE DeliverInApp
  <2>1. /\ UNCHANGED <<ws, crossed>>
        /\ \/ wsOf' = wsOf
           \/ \E k \in DOMAIN ws : ws[k].state = "closed" /\ WSDisconnect(k)
      BY <1>4, Arrives DEF DeliverInApp
  <2>2. CASE wsOf' = wsOf
      BY <2>1, <2>2, SocketsSame
  <2>3. ASSUME NEW k \in DOMAIN ws, ws[k].state = "closed", WSDisconnect(k)
        PROVE  SocketHeld' /\ OneSetUp'
    <3>1. \A u \in User : wsOf'[u] = wsOf[u] \/ wsOf[u] = k
        BY <2>3, WSForgets
    <3> QED
        BY <1>0, <2>1, <2>3, <3>1 DEF SocketHeld, OneSetUp
  <2> QED
      BY <2>1, <2>2, <2>3
<1>5. ASSUME NEW u \in Online, SSEConnect(u)
      PROVE  SocketHeld' /\ OneSetUp'
    BY <1>5, SocketsSame DEF SSEConnect
<1>6. ASSUME NEW i \in DOMAIN sse, Receive(i) \/ EndStream(i)
      PROVE  SocketHeld' /\ OneSetUp'
    BY <1>6, SocketsSame DEF Receive, EndStream
<1>7. ASSUME NEW users \in SUBSET Online, EvictStale(users)
      PROVE  SocketHeld' /\ OneSetUp'
    BY <1>7, SocketsSame DEF EvictStale
<1>8. CASE LoseMessage
    BY <1>8, SocketsSame DEF LoseMessage, streamVars
<1> QED
    BY <1>1, <1>2, <1>3, <1>4, <1>5, <1>6, <1>7, <1>8 DEF ConnectionStep

LEMMA ConnectionNext ==
    ASSUME TypeInv, ConnectionInv, [Next]_vars
    PROVE  ConnectionInv'
<1>1. CASE ConnectionStep
    BY <1>1, StreamStep, SocketStep DEF ConnectionInv, TypeInv
<1>2. CASE UNCHANGED streamVars
    BY <1>2, StreamsSame, SocketsSame DEF ConnectionInv, streamVars
<1>3. CASE CreateNotification(Channel, User)
    BY <1>2, <1>3 DEF CreateNotification
<1>4. ASSUME NEW i \in DOMAIN recipient, MarkAsRead(i)
      PROVE  ConnectionInv'
    BY <1>2, <1>4 DEF MarkAsRead
<1>5. ASSUME NEW job \in jobs, StartJob(job)
      PROVE  ConnectionInv'
    BY <1>2, <1>5 DEF StartJob
<1>6. ASSUME NEW h \in running, PipelineStep(h) \/ JobRaises(h) \/ Die(h)
      PROVE  ConnectionInv'
    BY <1>2, <1>6 DEF PipelineStep, AddRecipient, Enqueue, FanOutPage, Expire, InsertDeliveries,
       RecipientsSent, QueueChannel, PublishInApp, SendBatch, RecordOutcome, JobRaises, Die
<1>7. CASE UNCHANGED vars
    BY <1>2, <1>7 DEF vars
<1> QED
    BY <1>1, <1>3, <1>4, <1>5, <1>6, <1>7 DEF Next

\* A connection that is open is the one its manager delivers to: the end of a
\* user's previous connection never takes out its successor.
THEOREM OpenConnectionsAreRegistered == Spec => []OpenIsRegistered
<1>1. Init => ConnectionInv
    BY EmptySeq DEF Init, ConnectionInv, StreamHeld, SocketHeld, OneSetUp
<1>2. TypeInv /\ ConnectionInv /\ [Next]_vars => ConnectionInv'
    BY ConnectionNext
<1>3. ConnectionInv => OpenIsRegistered
    BY DEF ConnectionInv, StreamHeld, SocketHeld, OpenIsRegistered
<1> QED
    BY <1>1, <1>2, <1>3, Typing, PTL DEF Spec

-----------------------------------------------------------------------------
(***************************************************************************)
(* Deliveries.  What is to be done for a notification, a recipient or a    *)
(* delivery is passed from job to job: fanned out, batched, sent.  One job *)
(* or handler carries it at a time, unless a job that got half-way is run  *)
(* again.                                                                  *)
(***************************************************************************)
Stage == {"fan_out", "batch", "send"}

JobHas(job, s, x) ==
    /\ x \in job.ids
    /\ \/ s = "fan_out" /\ job.kind = "fan_out"
       \/ s = "batch" /\ job.kind = "batch"
       \/ s = "send" /\ job.kind \in Channel

\* A batch that has its deliveries still carries those it has not queued.
HandlerHas(h, s, x) ==
    \/ s = "fan_out" /\ h.pc \in Making /\ x \in h.job.ids
    \/ s = "batch" /\ h.pc = "insert" /\ x \in h.job.ids
    \/ s = "send" /\ h.pc = "send" /\ x \in h.job.ids
    \/ s = "send" /\ h.pc = "record" /\ \E o \in h.out : o[1] = x
    \/ s = "send" /\ h.pc \in Batching \ {"insert"} /\ x \in h.made /\ delivery[x].channel \in h.left

Void(s, x) ==
    \/ s = "batch" /\ x \in repeated
    \/ s = "send" /\ x \in DOMAIN delivery /\ delivery[x].recipient \in repeated

Held(s, x) == (\E job \in jobs : JobHas(job, s, x)) \/ \E h \in running : HandlerHas(h, s, x)

One(s, x) ==
    /\ \A i, j \in jobs : JobHas(i, s, x) /\ JobHas(j, s, x) => i = j
    /\ \A g, h \in running : HandlerHas(g, s, x) /\ HandlerHas(h, s, x) => g = h
    /\ \A job \in jobs, h \in running : ~(JobHas(job, s, x) /\ HandlerHas(h, s, x))

Carried == \A s \in Stage, x \in Nat : Void(s, x) \/ One(s, x)

\* The recipients that the fan-out of their notification has not come to.
Position(i) == Cardinality({j \in RecipientsOf(recipient[i].notification) : j < i})
Ahead(i) ==
    \/ \E job \in jobs : JobHas(job, "fan_out", recipient[i].notification)
    \/ \E h \in running : HandlerHas(h, "fan_out", recipient[i].notification) /\ h.k <= Position(i)

Fresh ==
    \A i \in DOMAIN recipient \ repeated :
        /\ Ahead(i) => ~Held("batch", i)
        /\ Ahead(i) \/ Held("batch", i) => Deliveries({i}) = {}

Distinct ==
    \A d, e \in DOMAIN delivery :
        delivery[d].recipient = delivery[e].recipient /\ delivery[d].channel = delivery[e].channel
        => d = e \/ delivery[d].recipient \in repeated

\* Nothing is sent that the gateway has accepted before.
Waiting(d) ==
    \/ \E job \in jobs : JobHas(job, "send", d)
    \/ \E h \in running : HandlerHas(h, "send", d) /\ h.pc # "record"
AcceptedOnce ==
    \A d \in DOMAIN delivery :
        \/ delivery[d].recipient \in repeated
        \/ accepted[d] \in {0, 1} /\ (Waiting(d) => accepted[d] = 0)

SentInv == Carried /\ Fresh /\ Distinct /\ AcceptedOnce

\* Rows are only added, and none changes what it belongs to.
Kept ==
    /\ \A i \in DOMAIN recipient : i \in DOMAIN recipient' /\ recipient'[i].notification = recipient[i].notification
    /\ \A i \in DOMAIN recipient, j \in DOMAIN recipient' \ DOMAIN recipient : i < j
    /\ \A d \in DOMAIN delivery : /\ d \in DOMAIN delivery'
                                  /\ delivery'[d].recipient = delivery[d].recipient
                                  /\ delivery'[d].channel = delivery[d].channel
    /\ repeated \subseteq repeated'

LEMMA HandlerHasSame ==
    ASSUME TypeInv, Kept, NEW g \in running, NEW s, NEW x
    PROVE  HandlerHas(g, s, x)' <=> HandlerHas(g, s, x)
<1>1. g.made \subseteq DOMAIN delivery
    BY Running DEF HandlerOK
<1> QED
    BY <1>1 DEF HandlerHas, Kept

LEMMA VoidStays ==
    ASSUME Kept, NEW s, NEW x, Void(s, x)
    PROVE  Void(s, x)'
BY DEF Kept, Void

\* What is held exists.
LEMMA HeldRows ==
    ASSUME TypeInv, NEW s, NEW x, Held(s, x)
    PROVE  /\ s = "fan_out" => x \in DOMAIN notification
           /\ s = "batch" => x \in DOMAIN recipient
           /\ s = "send" => x \in DOMAIN delivery
<1>1. ASSUME NEW job \in jobs, JobHas(job, s, x)
      PROVE  /\ s = "fan_out" => x \in DOMAIN notification
             /\ s = "batch" => x \in DOMAIN recipient
             /\ s = "send" => x \in DOMAIN delivery
  <2>1. JobOK(job)
      BY DEF TypeInv, WorkTyped
  <2> QED
      BY <1>1, <2>1 DEF JobHas, JobOK
<1>2. ASSUME NEW h \in running, HandlerHas(h, s, x)
      PROVE  /\ s = "fan_out" => x \in DOMAIN notification
             /\ s = "batch" => x \in DOMAIN recipient
             /\ s = "send" => x \in DOMAIN delivery
  <2>1. HandlerOK(h)
      BY DEF TypeInv, WorkTyped
  <2> QED
      BY <1>2, <2>1 DEF HandlerHas, HandlerOK, JobOK, Making, Batching, Sending
<1> QED
    BY <1>1, <1>2 DEF Held

LEMMA Positions ==
    ASSUME TypeInv, NEW i \in DOMAIN recipient
    PROVE  Position(i) \in Nat
<1>1. DOMAIN recipient = 1 .. Len(recipient) /\ Len(recipient) \in Nat
    BY RowTypes DEF TypeInv
<1>2. IsFiniteSet(1 .. Len(recipient))
    BY <1>1, FS_Interval
<1>3. {j \in RecipientsOf(recipient[i].notification) : j < i} \in SUBSET (1 .. Len(recipient))
    BY <1>1 DEF RecipientsOf
<1>4. IsFiniteSet({j \in RecipientsOf(recipient[i].notification) : j < i})
    BY <1>2, <1>3, FS_Subset
<1> QED
    BY <1>4, FS_CardinalityType DEF Position

LEMMA PositionSame ==
    ASSUME Kept, NEW i \in DOMAIN recipient, DOMAIN recipient' \subseteq Nat
    PROVE  Position(i)' = Position(i)
<1>1. recipient'[i].notification = recipient[i].notification
    BY DEF Kept
<1>2. {j \in RecipientsOf(recipient[i].notification)' : j < i}
      = {j \in RecipientsOf(recipient[i].notification) : j < i}
    BY <1>1 DEF Kept, RecipientsOf
<1> QED
    BY <1>1, <1>2 DEF Position

\* Nobody but h has it.
OnlyBy(h, s, x) ==
    /\ \A job \in jobs : ~JobHas(job, s, x)
    /\ \A g \in running \ {h} : ~HandlerHas(g, s, x)

LEMMA Sources ==
    ASSUME NEW h \in running, NEW s, NEW x, One(s, x), HandlerHas(h, s, x) \/ ~Held(s, x)
    PROVE  OnlyBy(h, s, x)
BY DEF One, Held, OnlyBy

\* h goes on as the handler in G, if any, and queues the job in J, if any.
Passes(h, G, J) ==
    /\ running' = (running \ {h}) \cup G /\ jobs' = jobs \cup J
    /\ \A a, b \in G : a = b
    /\ \A a, b \in J : a = b

\* What G and J carry h had, or nobody.
LEMMA CarriedStays ==
    ASSUME TypeInv, Carried, Kept, NEW h \in running, NEW G, NEW J, Passes(h, G, J),
           \A s \in Stage, x \in Nat :
               /\ \A g \in G : HandlerHas(g, s, x)' => \/ Void(s, x)'
                                                       \/ HandlerHas(h, s, x) \/ ~Held(s, x)
               /\ \A job \in J : JobHas(job, s, x) => \/ Void(s, x)'
                                                      \/ HandlerHas(h, s, x) \/ ~Held(s, x)
               /\ \A g \in G, job \in J : HandlerHas(g, s, x)' /\ JobHas(job, s, x) => Void(s, x)'
    PROVE  Carried'
<1> SUFFICES ASSUME NEW s \in Stage, NEW x \in Nat, ~Void(s, x)'
             PROVE  One(s, x)'
    BY DEF Carried
<1>1. One(s, x)
    BY VoidStays DEF Carried
<1>2. \A g \in running : HandlerHas(g, s, x)' <=> HandlerHas(g, s, x)
    BY HandlerHasSame
<1>3. \A job : JobHas(job, s, x)' <=> JobHas(job, s, x)
    BY DEF JobHas
<1>4. \A g \in G : HandlerHas(g, s, x)' => OnlyBy(h, s, x)
    BY <1>1, Sources
<1>5. \A job \in J : JobHas(job, s, x) => OnlyBy(h, s, x)
    BY <1>1, Sources
<1>6. \A g \in G, job \in J : ~(HandlerHas(g, s, x)' /\ JobHas(job, s, x))
    OBVIOUS
<1>7. ASSUME NEW i \in jobs', NEW j \in jobs', JobHas(i, s, x), JobHas(j, s, x)
      PROVE  i = j
    BY <1>1, <1>5, <1>7 DEF One, OnlyBy, Passes
<1>8. ASSUME NEW e \in running', NEW g \in running', HandlerHas(e, s, x)', HandlerHas(g, s, x)'
      PROVE  e = g
    BY <1>1, <1>2, <1>4, <1>8 DEF One, OnlyBy, Passes
<1>9. ASSUME NEW job \in jobs', NEW g \in running', JobHas(job, s, x), HandlerHas(g, s, x)'
      PROVE  FALSE
  <2>1. CASE g \in G /\ job \in J
      BY <1>6, <1>9, <2>1
  <2>2. CASE g \in G /\ job \in jobs
      BY <1>4, <1>9, <2>2 DEF OnlyBy
  <2>3. CASE g \in running \ {h} /\ job \in J
      BY <1>2, <1>5, <1>9, <2>3 DEF OnlyBy
  <2>4. CASE g \in running \ {h} /\ job \in jobs
      BY <1>1, <1>2, <1>9, <2>4 DEF One
  <2> QED
      BY <2>1, <2>2, <2>3, <2>4 DEF Passes
<1> QED
    BY <1>3, <1>7, <1>8, <1>9 DEF One

\* A step that only hands on what h has: h.k tells how far its fan-out is.
LEMMA HandsOn ==
    ASSUME TypeInv, TypeInv', Carried, Fresh, Distinct, Kept, DOMAIN delivery' = DOMAIN delivery,
           NEW h \in running, NEW G, NEW J, Passes(h, G, J),
           \A g \in G : g.k = h.k,
           \A s \in Stage, x \in Nat :
               /\ \A g \in G : HandlerHas(g, s, x)' => HandlerHas(h, s, x)
               /\ \A job \in J : JobHas(job, s, x) => Void(s, x)' \/ HandlerHas(h, s, x)
               /\ \A g \in G, job \in J : ~(HandlerHas(g, s, x)' /\ JobHas(job, s, x)),
           \A n \in DOMAIN notification, job \in J :
               JobHas(job, "fan_out", n) => h.k = 0 \/ RecipientsOf(n) \subseteq repeated'
    PROVE  Carried' /\ Fresh' /\ Distinct'
<1>1. Carried'
    BY CarriedStays
<1>2. Distinct'
    BY DEF Distinct, Kept
<1>3. DOMAIN recipient' \subseteq Nat /\ DOMAIN recipient \subseteq Nat
    BY RowTypes DEF TypeInv
<1>4. ASSUME NEW i \in DOMAIN recipient, i \notin repeated'
      PROVE  Held("batch", i)' => Held("batch", i)
  <2>0. i \in Nat /\ "batch" \in Stage
      BY <1>3 DEF Stage
  <2>1. ~Void("batch", i)'
      BY <1>4 DEF Void
  <2>2. \A g \in running : HandlerHas(g, "batch", i)' <=> HandlerHas(g, "batch", i)
      BY HandlerHasSame
  <2>3. \A g \in running' : HandlerHas(g, "batch", i)' => Held("batch", i)
      BY <2>0, <2>2 DEF Held, Passes
  <2>4. \A job \in jobs' : JobHas(job, "batch", i) => Held("batch", i)
      BY <2>0, <2>1 DEF Held, Passes
  <2>5. \A job : JobHas(job, "batch", i)' <=> JobHas(job, "batch", i)
      BY DEF JobHas
  <2> QED
      BY <2>3, <2>4, <2>5 DEF Held
<1>5. ASSUME NEW i \in DOMAIN recipient, i \notin repeated'
      PROVE  Ahead(i)' => Ahead(i)
  <2>0. PICK n : n = recipient[i].notification
      OBVIOUS
  <2>1. n \in DOMAIN notification /\ n \in Nat /\ n = recipient'[i].notification /\ "fan_out" \in Stage
      BY <2>0, RowTypes DEF TypeInv, RowsTyped, Kept, Stage
  <2>2. Position(i) \in Nat /\ Position(i)' = Position(i)
      BY <1>3, Positions, PositionSame
  <2>3. \A g \in running : HandlerHas(g, "fan_out", n)' <=> HandlerHas(g, "fan_out", n)
      BY HandlerHasSame
  <2>4. i \in RecipientsOf(n) /\ h.k \in Nat
      BY <2>0, Running, HandlerTypes DEF RecipientsOf
  <2>5. \A job : JobHas(job, "fan_out", n)' <=> JobHas(job, "fan_out", n)
      BY DEF JobHas
  <2>6. ~Void("fan_out", n)'
      BY DEF Void
  <2>7. \A job \in J : JobHas(job, "fan_out", n) => HandlerHas(h, "fan_out", n) /\ h.k <= Position(i)
      BY <1>5, <2>1, <2>2, <2>4, <2>6
  <2>8. \A g \in running' : HandlerHas(g, "fan_out", n)' /\ g.k <= Position(i)
            => \E e \in running : HandlerHas(e, "fan_out", n) /\ e.k <= Position(i)
      BY <2>1, <2>3 DEF Passes
  <2>9. \A job \in jobs' : JobHas(job, "fan_out", n) =>
            \/ \E e \in jobs : JobHas(e, "fan_out", n)
            \/ \E e \in running : HandlerHas(e, "fan_out", n) /\ e.k <= Position(i)
      BY <2>7 DEF Passes
  <2>10. Ahead(i)' => \/ \E job \in jobs' : JobHas(job, "fan_out", n)
                      \/ \E g \in running' : HandlerHas(g, "fan_out", n)' /\ g.k <= Position(i)
      BY <2>1, <2>2, <2>5 DEF Ahead
  <2>11. (\/ \E job \in jobs : JobHas(job, "fan_out", n)
          \/ \E g \in running : HandlerHas(g, "fan_out", n) /\ g.k <= Position(i)) => Ahead(i)
      BY <2>0 DEF Ahead
  <2> QED
      BY <2>8, <2>9, <2>10, <2>11
<1>6. \A i \in DOMAIN recipient : Deliveries({i})' = Deliveries({i})
    BY DEF Deliveries, Kept
<1>7. ASSUME NEW i \in DOMAIN recipient' \ DOMAIN recipient, i \notin repeated'
      PROVE  ~Held("batch", i)' /\ Deliveries({i})' = {}
  <2>0. i \in Nat /\ "batch" \in Stage
      BY <1>3 DEF Stage
  <2>1. ~Held("batch", i)
      BY <1>7, HeldRows
  <2>2. \A g \in running : ~HandlerHas(g, "batch", i)'
      BY <2>1, HandlerHasSame DEF Held
  <2>3. \A g \in running' : ~HandlerHas(g, "batch", i)'
      BY <2>0, <2>1, <2>2 DEF Held, Passes
  <2>4. ~Void("batch", i)'
      BY <1>7 DEF Void
  <2>5. \A job \in jobs' : ~JobHas(job, "batch", i)
      BY <2>0, <2>1, <2>4 DEF Held, Passes
  <2>6. \A job : JobHas(job, "batch", i)' <=> JobHas(job, "batch", i)
      BY DEF JobHas
  <2>7. \A d \in DOMAIN delivery : delivery'[d].recipient # i
      BY <1>7 DEF Kept, TypeInv, RowsTyped
  <2> QED
      BY <2>3, <2>5, <2>6, <2>7 DEF Held, Deliveries
<1>8. Fresh'
    BY <1>4, <1>5, <1>6, <1>7 DEF Fresh, Kept
<1> QED
    BY <1>1, <1>2, <1>8

LEMMA AcceptedStays ==
    ASSUME TypeInv, AcceptedOnce, Kept, DOMAIN delivery' = DOMAIN delivery, UNCHANGED accepted,
           NEW h \in running, NEW G, NEW J, Passes(h, G, J),
           \A x \in Nat :
               /\ \A g \in G : HandlerHas(g, "send", x)' /\ g.pc # "record"
                               => HandlerHas(h, "send", x) /\ h.pc # "record"
               /\ \A job \in J : JobHas(job, "send", x) => \/ Void("send", x)'
                                                           \/ HandlerHas(h, "send", x) /\ h.pc # "record"
    PROVE  AcceptedOnce'
<1> SUFFICES ASSUME NEW d \in DOMAIN delivery, delivery'[d].recipient \notin repeated'
             PROVE  accepted[d] \in {0, 1} /\ (Waiting(d)' => accepted[d] = 0)
    BY DEF AcceptedOnce
<1>1. d \in Nat /\ delivery[d].recipient \notin repeated
    BY RowTypes DEF TypeInv, Kept
<1>2. \A g \in running : HandlerHas(g, "send", d)' <=> HandlerHas(g, "send", d)
    BY HandlerHasSame
<1>3. ~Void("send", d)'
    BY DEF Void
<1>4. \A job \in jobs' : JobHas(job, "send", d) => Waiting(d)
    BY <1>1, <1>3 DEF Passes, Waiting
<1>5. \A g \in running' : HandlerHas(g, "send", d)' /\ g.pc # "record" => Waiting(d)
    BY <1>1, <1>2 DEF Passes, Waiting
<1>6. Waiting(d)' => Waiting(d)
  <2>1. \A job : JobHas(job, "send", d)' <=> JobHas(job, "send", d)
      BY DEF JobHas
  <2> QED
      BY <1>4, <1>5, <2>1 DEF Waiting
<1> QED
    BY <1>1, <1>6 DEF AcceptedOnce

LEMMA SentStays ==
    ASSUME TypeInv, TypeInv', SentInv, Kept, DOMAIN delivery' = DOMAIN delivery, UNCHANGED accepted,
           NEW h \in running, NEW G, NEW J, Passes(h, G, J),
           \A g \in G : g.k = h.k /\ (h.pc = "record" => g.pc = "record"),
           \A s \in Stage, x \in Nat :
               /\ \A g \in G : HandlerHas(g, s, x)' => HandlerHas(h, s, x)
               /\ \A job \in J : JobHas(job, s, x) => Void(s, x)' \/ HandlerHas(h, s, x)
               /\ \A g \in G, job \in J : ~(HandlerHas(g, s, x)' /\ JobHas(job, s, x)),
           \A n \in DOMAIN notification, job \in J :
               JobHas(job, "fan_out", n) => h.k = 0 \/ RecipientsOf(n) \subseteq repeated',
           \A x \in Nat, job \in J : JobHas(job, "send", x) => Void("send", x)' \/ h.pc # "record"
    PROVE  SentInv'
<1>1. Carried /\ Fresh /\ Distinct /\ AcceptedOnce /\ "send" \in Stage
    BY DEF SentInv, Stage
<1>2. Carried' /\ Fresh' /\ Distinct'
    BY <1>1, HandsOn
<1>3. ASSUME NEW x \in Nat
      PROVE  /\ \A g \in G : HandlerHas(g, "send", x)' /\ g.pc # "record"
                             => HandlerHas(h, "send", x) /\ h.pc # "record"
             /\ \A job \in J : JobHas(job, "send", x) => \/ Void("send", x)'
                                                         \/ HandlerHas(h, "send", x) /\ h.pc # "record"
    BY <1>1
<1>4. AcceptedOnce'
    BY <1>1, <1>3, AcceptedStays
<1> QED
    BY <1>2, <1>4 DEF SentInv

\* A handler that ends leaves its work to nobody.
LEMMA SentEnds ==
    ASSUME TypeInv, TypeInv', SentInv, Kept, DOMAIN delivery' = DOMAIN delivery, UNCHANGED accepted,
           NEW h \in running, Finish(h), jobs' = jobs
    PROVE  SentInv'
<1>1. PICK G : G = {}
    OBVIOUS
<1>2. Passes(h, G, G)
    BY <1>1 DEF Passes, Finish
<1>3. \A g \in G : FALSE
    BY <1>1
<1> QED
    BY <1>2, <1>3, SentStays

\* A handler that goes on in the same part of its work.
LEMMA GoesOn ==
    ASSUME TypeInv, Kept, NEW h \in running, NEW g,
           g.job = h.job, g.made = h.made, g.left \subseteq h.left, g.out \subseteq h.out,
           \/ g.pc \in Making /\ h.pc \in Making
           \/ g.pc \in Batching \ {"insert"} /\ h.pc \in Batching \ {"insert"}
           \/ g.pc = "record" /\ h.pc = "record",
           NEW s, NEW x, HandlerHas(g, s, x)'
    PROVE  HandlerHas(h, s, x)
<1>1. h.made \subseteq DOMAIN delivery
    BY Running DEF HandlerOK
<1>2. CASE g.pc \in Making /\ h.pc \in Making
    BY <1>2 DEF HandlerHas, Making, Batching
<1>3. CASE g.pc \in Batching \ {"insert"} /\ h.pc \in Batching \ {"insert"}
    BY <1>1, <1>3 DEF HandlerHas, Making, Batching, Kept
<1>4. CASE g.pc = "record" /\ h.pc = "record"
    BY <1>4 DEF HandlerHas, Making, Batching
<1> QED
    BY <1>2, <1>3, <1>4

LEMMA SentGoesOn ==
    ASSUME TypeInv, TypeInv', SentInv, Kept, DOMAIN delivery' = DOMAIN delivery, UNCHANGED accepted,
           NEW h \in running, NEW g, Become(h, g), jobs' = jobs,
           g.job = h.job, g.k = h.k, g.made = h.made, g.left \subseteq h.left, g.out \subseteq h.out,
           \/ g.pc \in Making /\ h.pc \in Making
           \/ g.pc \in Batching \ {"insert"} /\ h.pc \in Batching \ {"insert"}
           \/ g.pc = "record" /\ h.pc = "record"
    PROVE  SentInv'
<1>1. PICK G : G = {g}
    OBVIOUS
<1>2. PICK J : J = {}
    OBVIOUS
<1>3. Passes(h, G, J)
    BY <1>1, <1>2 DEF Passes, Become
<1>4. \A e \in G : e.k = h.k /\ (h.pc = "record" => e.pc = "record")
    BY <1>1 DEF Making, Batching
<1>5. \A s, x : \A e \in G : HandlerHas(e, s, x)' => HandlerHas(h, s, x)
  <2>1. \A s, x : HandlerHas(g, s, x)' => HandlerHas(h, s, x)
      BY GoesOn
  <2> QED
      BY <1>1, <2>1
<1>6. \A job \in J : FALSE
    BY <1>2
<1> QED
    BY <1>3, <1>4, <1>5, <1>6, SentStays

\* The pipeline does not see what happens elsewhere.
LEMMA SentElsewhere ==
    ASSUME TypeInv, TypeInv', SentInv, Kept, DOMAIN recipient' = DOMAIN recipient,
           UNCHANGED <<delivery, jobs, running, accepted, repeated>>
    PROVE  SentInv'
<1>1. \A s, x : \A h \in running : HandlerHas(h, s, x)' <=> HandlerHas(h, s, x)
    BY HandlerHasSame
<1>2. \A s, x : \A job : JobHas(job, s, x)' <=> JobHas(job, s, x)
    BY DEF JobHas
<1>3. \A s, x : (Held(s, x)' <=> Held(s, x)) /\ (Void(s, x)' <=> Void(s, x))
    BY <1>1, <1>2 DEF Held, Void
<1>4. ASSUME NEW s, NEW x
      PROVE  One(s, x) => One(s, x)'
    BY <1>1, <1>2 DEF One
<1>5. Carried'
    BY <1>3, <1>4 DEF SentInv, Carried
<1>6. DOMAIN recipient' \subseteq Nat
    BY RowTypes DEF TypeInv
<1>7. \A i \in DOMAIN recipient : recipient'[i].notification = recipient[i].notification
    BY DEF Kept
<1>8. \A i \in DOMAIN recipient : Position(i)' = Position(i)
    BY <1>6, PositionSame
<1>9. ASSUME NEW i \in DOMAIN recipient
      PROVE  Ahead(i)' => Ahead(i)
    BY <1>1, <1>2, <1>7, <1>8 DEF Ahead
<1>10. \A i \in DOMAIN recipient : Deliveries({i})' = Deliveries({i})
    BY DEF Deliveries
<1>11. Fresh'
    BY <1>3, <1>9, <1>10 DEF SentInv, Fresh
<1>12. \A d \in DOMAIN delivery : Waiting(d)' <=> Waiting(d)
    BY <1>1, <1>2 DEF Waiting
<1>13. Distinct' /\ AcceptedOnce'
    BY <1>12 DEF SentInv, Distinct, AcceptedOnce
<1> QED
    BY <1>5, <1>11, <1>13 DEF SentInv

LEMMA KeptRows ==
    ASSUME UNCHANGED rowVars, repeated \subseteq repeated'
    PROVE  Kept
BY DEF rowVars, Kept

\* Only the status of deliveries changes.
LEMMA KeptWrites ==
    ASSUME UNCHANGED <<recipient, repeated>>, DOMAIN delivery' = DOMAIN delivery,
           \A d \in DOMAIN delivery : /\ delivery'[d].recipient = delivery[d].recipient
                                      /\ delivery'[d].channel = delivery[d].channel
    PROVE  Kept
BY DEF Kept

\* Each step in turn.
LEMMA SentAdds ==
    ASSUME TypeInv, TypeInv', SentInv, NEW h \in running, AddRecipient(h)
    PROVE  SentInv'
<1>1. PICK n \in DOMAIN notification, u \in h.users, g \in Handler :
               /\ h.job.ids = {n} /\ h.pc = "recipients"
               /\ recipient' \in Seq(Recipient)
               /\ DOMAIN recipient' = DOMAIN recipient \cup {Len(recipient) + 1}
               /\ \A i \in DOMAIN recipient : recipient'[i] = recipient[i]
               /\ recipient'[Len(recipient) + 1].notification = n
               /\ Become(h, g)
               /\ g.id = h.id /\ g.job = h.job /\ g.k = h.k /\ g.left = h.left
               /\ g.made = h.made /\ g.out = h.out
               /\ g.pc \in {"recipients", "enqueue"} /\ (g.pc = "recipients" => g.users # {})
    BY Adds
<1>2. UNCHANGED <<delivery, jobs, accepted, repeated>>
    BY DEF AddRecipient
<1>3. \A i \in DOMAIN recipient : i < Len(recipient) + 1
    BY RowTypes DEF TypeInv
<1>4. Kept
    BY <1>1, <1>2, <1>3 DEF Kept
<1>5. g.pc \in Making /\ h.pc \in Making
    BY <1>1 DEF Making
<1> QED
    BY <1>1, <1>2, <1>4, <1>5, SentGoesOn

LEMMA SentEnqueues ==
    ASSUME TypeInv, TypeInv', SentInv, NEW h \in running, Enqueue(h)
    PROVE  SentInv'
<1>1. /\ h.pc = "enqueue" /\ Finish(h) /\ jobs' = jobs \cup {h.job}
      /\ UNCHANGED <<rowVars, accepted, repeated>>
    BY DEF Enqueue
<1>2. Kept /\ DOMAIN delivery' = DOMAIN delivery
    BY <1>1, KeptRows DEF rowVars
<1>3. h.k = 0 /\ h.job.kind = "fan_out"
    BY <1>1, Running DEF HandlerOK, Making
<1>4. \A s, x : JobHas(h.job, s, x) => HandlerHas(h, s, x)
    BY <1>1, <1>3, Kinds DEF JobHas, HandlerHas, Making
<1>5. PICK G, J : G = {} /\ J = {h.job}
    OBVIOUS
<1>6. Passes(h, G, J)
    BY <1>1, <1>5 DEF Passes, Finish
<1>7. \A s, x : \A job \in J : JobHas(job, s, x) => HandlerHas(h, s, x)
    BY <1>4, <1>5
<1>8. \A g \in G : FALSE
    BY <1>5
<1> QED
    BY <1>1, <1>2, <1>3, <1>6, <1>7, <1>8, SentStays

LEMMA SentDies ==
    ASSUME TypeInv, TypeInv', SentInv, NEW h \in running, Expire(h) \/ Die(h)
    PROVE  SentInv'
<1>1. Finish(h) /\ jobs' = jobs /\ UNCHANGED <<rowVars, accepted, repeated>>
    BY DEF Expire, Die
<1>2. Kept /\ DOMAIN delivery' = DOMAIN delivery
    BY <1>1, KeptRows DEF rowVars
<1> QED
    BY <1>1, <1>2, SentEnds

LEMMA SentMarks ==
    ASSUME TypeInv, TypeInv', SentInv, NEW h \in running, RecipientsSent(h)
    PROVE  SentInv'
<1>1. UNCHANGED <<delivery, jobs, accepted, repeated>>
    BY DEF RecipientsSent
<1>2. /\ h.pc = "sent" /\ DOMAIN recipient' = DOMAIN recipient
      /\ \A i \in DOMAIN recipient : recipient'[i].notification = recipient[i].notification
    BY Marks
<1>3. PICK g \in Handler :
          /\ Become(h, g) /\ g.id = h.id /\ g.job = h.job /\ g.pc = "queue" /\ g.k = h.k
          /\ g.left = h.left /\ g.made = h.made /\ g.out = h.out
    BY Marks
<1>4. Kept
    BY <1>1, <1>2 DEF Kept
<1>5. g.pc \in Batching \ {"insert"} /\ h.pc \in Batching \ {"insert"}
    BY <1>2, <1>3 DEF Batching
<1> QED
    BY <1>1, <1>3, <1>4, <1>5, SentGoesOn

LEMMA SentPublishes ==
    ASSUME TypeInv, TypeInv', SentInv, NEW h \in running, PublishInApp(h)
    PROVE  SentInv'
<1>1. UNCHANGED <<rowVars, jobs, accepted, repeated>> /\ h.pc = "publish"
    BY DEF PublishInApp
<1>2. Kept /\ DOMAIN delivery' = DOMAIN delivery
    BY <1>1, KeptRows DEF rowVars
<1>3. PICK g \in Handler :
          /\ Become(h, g) /\ g.id = h.id /\ g.job = h.job /\ g.pc = "queue" /\ g.k = h.k
          /\ g.left = h.left /\ g.made = h.made /\ g.out = h.out
    BY Publishes
<1>4. g.pc \in Batching \ {"insert"} /\ h.pc \in Batching \ {"insert"}
    BY <1>1, <1>3 DEF Batching
<1> QED
    BY <1>1, <1>2, <1>3, <1>4, SentGoesOn

LEMMA SentRecords ==
    ASSUME TypeInv, TypeInv', SentInv, NEW h \in running, RecordOutcome(h)
    PROVE  SentInv'
<1>1. UNCHANGED <<recipient, jobs, accepted, repeated>>
    BY DEF RecordOutcome
<1>2. /\ h.pc = "record" /\ DOMAIN delivery' = DOMAIN delivery
      /\ \A d \in DOMAIN delivery : /\ delivery'[d].recipient = delivery[d].recipient
                                    /\ delivery'[d].channel = delivery[d].channel
      /\ \/ Finish(h)
         \/ \E g \in Handler :
               /\ Become(h, g) /\ g.id = h.id /\ g.job = h.job /\ g.pc = "record"
               /\ g.k = h.k /\ g.left = h.left /\ g.made = h.made
               /\ g.out # {} /\ g.out \subseteq h.out
    BY Records
<1>3. Kept
    BY <1>1, <1>2, KeptWrites
<1>4. CASE Finish(h)
    BY <1>1, <1>2, <1>3, <1>4, SentEnds
<1>5. ASSUME NEW g \in Handler, Become(h, g), g.job = h.job, g.pc = "record", g.k = h.k,
             g.left = h.left, g.made = h.made, g.out \subseteq h.out
      PROVE  SentInv'
    BY <1>1, <1>2, <1>3, <1>5, SentGoesOn
<1> QED
    BY <1>2, <1>4, <1>5

\* What a channel's job takes is no longer left for its batch.
LEMMA SentQueues ==
    ASSUME TypeInv, TypeInv', SentInv, NEW h \in running, QueueChannel(h)
    PROVE  SentInv'
<1>1. UNCHANGED <<recipient, accepted, repeated>>
    BY DEF QueueChannel
<1>2. /\ h.pc = "queue" /\ DOMAIN delivery' = DOMAIN delivery
      /\ \A d \in DOMAIN delivery : /\ delivery'[d].recipient = delivery[d].recipient
                                    /\ delivery'[d].channel = delivery[d].channel
      /\ \/ Finish(h) /\ jobs' = jobs
         \/ \E c \in h.left, g \in Handler :
               /\ Become(h, g) /\ g.id = h.id /\ g.job = h.job /\ g.pc \in {"queue", "publish"}
               /\ g.k = h.k /\ g.made = h.made /\ g.out = h.out /\ g.left = h.left \ {c}
               /\ \/ jobs' = jobs
                  \/ \E job \in Job : /\ job.kind = c /\ job.ids = Queued(h, c)
                                      /\ jobs' = jobs \cup {job}
    BY Queues
<1>3. Kept
    BY <1>1, <1>2, KeptWrites
<1>4. CASE Finish(h) /\ jobs' = jobs
    BY <1>1, <1>2, <1>3, <1>4, SentEnds
<1>5. ASSUME NEW c \in h.left, NEW g \in Handler, Become(h, g), g.job = h.job, g.pc \in {"queue", "publish"},
             g.k = h.k, g.made = h.made, g.out = h.out, g.left = h.left \ {c}
      PROVE  /\ jobs' = jobs => SentInv'
             /\ \A job \in Job : job.kind = c /\ job.ids = Queued(h, c) /\ jobs' = jobs \cup {job} => SentInv'
  <2>1. g.pc \in Batching \ {"insert"} /\ h.pc \in Batching \ {"insert"} /\ g.left \subseteq h.left
      BY <1>2, <1>5 DEF Batching
  <2>2. CASE jobs' = jobs
      BY <1>1, <1>2, <1>3, <1>5, <2>1, <2>2, SentGoesOn
  <2>3. ASSUME NEW job \in Job, job.kind = c, job.ids = Queued(h, c), jobs' = jobs \cup {job}
        PROVE  SentInv'
    <3>1. PICK G, J : G = {g} /\ J = {job}
        OBVIOUS
    <3>2. Passes(h, G, J)
        BY <1>5, <2>3, <3>1 DEF Passes, Become
    <3>3. c \in Channel
        BY <1>5, Running, HandlerTypes
    <3>4. \A s, x : HandlerHas(g, s, x)' => HandlerHas(h, s, x)
        BY <1>3, <1>5, <2>1, GoesOn
    <3>5. \A s, x : JobHas(job, s, x) => s = "send" /\ x \in h.made /\ delivery[x].channel = c
        BY <2>3, <3>3, Kinds DEF JobHas, Queued
    <3>6. \A s, x : JobHas(job, s, x) => HandlerHas(h, s, x)
        BY <1>5, <2>1, <3>5 DEF HandlerHas
    <3>7. \A s, x : ~(HandlerHas(g, s, x)' /\ JobHas(job, s, x))
      <4>1. h.made \subseteq DOMAIN delivery
          BY Running DEF HandlerOK
      <4>2. \A x : HandlerHas(g, "send", x)' => delivery'[x].channel # c
          BY <1>5 DEF HandlerHas, Making
      <4> QED
          BY <1>2, <3>5, <4>1, <4>2
    <3>8. \A s, x : \A e \in G : HandlerHas(e, s, x)' => HandlerHas(h, s, x)
        BY <3>1, <3>4
    <3>9. \A s, x : \A j \in J : JobHas(j, s, x) => HandlerHas(h, s, x) /\ s = "send"
        BY <3>1, <3>5, <3>6
    <3>10. \A s, x : \A e \in G, j \in J : ~(HandlerHas(e, s, x)' /\ JobHas(j, s, x))
        BY <3>1, <3>7
    <3>11. \A e \in G : e.k = h.k /\ (h.pc = "record" => e.pc = "record")
        BY <1>2, <1>5, <3>1
    <3> QED
        BY <1>1, <1>2, <1>3, <3>2, <3>8, <3>9, <3>10, <3>11, SentStays
  <2> QED
      BY <2>2, <2>3
<1> QED
    BY <1>2, <1>4, <1>5

\* A job that is run again from its start leaves what it had done void.
LEMMA SentRaises ==
    ASSUME TypeInv, TypeInv', SentInv, NEW h \in running, JobRaises(h)
    PROVE  SentInv'
<1>1. /\ Finish(h) /\ h.pc \notin {"recipients", "enqueue"}
      /\ repeated' = IF HalfWay(h) THEN repeated \cup Reaches(h.job) ELSE repeated
      /\ \/ jobs' = jobs
         \/ \E job \in Job : /\ job.kind = h.job.kind /\ job.ids = h.job.ids
                             /\ jobs' = jobs \cup {job}
      /\ UNCHANGED <<rowVars, accepted>>
    BY Raises DEF rowVars
<1>2. Kept /\ DOMAIN delivery' = DOMAIN delivery
    BY <1>1, KeptRows DEF rowVars
<1>3. CASE jobs' = jobs
    BY <1>1, <1>2, <1>3, SentEnds
<1>4. ASSUME NEW job \in Job, job.kind = h.job.kind, job.ids = h.job.ids, jobs' = jobs \cup {job}
      PROVE  SentInv'
  <2>1. PICK G, J : G = {} /\ J = {job}
      OBVIOUS
  <2>2. Passes(h, G, J)
      BY <1>1, <1>4, <2>1 DEF Passes, Finish
  <2>3. h \in Handler /\ HandlerOK(h) /\ h.k \in Nat /\ h.pc \in Label /\ h.job \in Job
      BY Running, HandlerTypes
  <2>4. ASSUME NEW n \in DOMAIN notification, JobHas(job, "fan_out", n)
        PROVE  HandlerHas(h, "fan_out", n) /\ (h.k = 0 \/ RecipientsOf(n) \subseteq repeated')
    <3>1. h.job.kind = "fan_out" /\ n \in h.job.ids
        BY <1>4, <2>4 DEF JobHas
    <3>2. h.pc \in Making
        BY <2>3, <3>1, Kinds DEF HandlerOK, Label, Making, Batching, Sending
    <3>3. RecipientsOf(n) \subseteq Reaches(h.job)
        BY <3>1 DEF Reaches
    <3>4. h.k = 0 \/ HalfWay(h)
        BY <2>3 DEF HalfWay
    <3> QED
        BY <1>1, <3>1, <3>2, <3>3, <3>4 DEF HandlerHas
  <2>5. ASSUME NEW x, JobHas(job, "batch", x)
        PROVE  Void("batch", x)' \/ HandlerHas(h, "batch", x)
    <3>1. h.job.kind = "batch" /\ x \in h.job.ids
        BY <1>4, <2>5 DEF JobHas
    <3>2. h.pc \in Batching
        BY <2>3, <3>1, Kinds DEF HandlerOK, Label, Making, Batching, Sending
    <3>3. CASE h.pc = "insert"
        BY <3>1, <3>3 DEF HandlerHas
    <3>4. CASE HalfWay(h)
        BY <1>1, <3>1, <3>4 DEF Reaches, Void
    <3> QED
        BY <3>2, <3>3, <3>4 DEF Batching, HalfWay
  <2>6. ASSUME NEW x, JobHas(job, "send", x)
        PROVE  Void("send", x)' \/ (HandlerHas(h, "send", x) /\ h.pc # "record")
    <3>1. h.job.kind \in Channel /\ x \in h.job.ids
        BY <1>4, <2>6 DEF JobHas
    <3>2. h.pc \in Sending /\ x \in DOMAIN delivery
        BY <2>3, <3>1, Kinds DEF HandlerOK, JobOK, Label, Making, Batching, Sending
    <3>3. CASE h.pc = "send"
        BY <3>1, <3>3 DEF HandlerHas
    <3>4. CASE HalfWay(h)
      <4>1. Reaches(h.job) = {delivery[d].recipient : d \in h.job.ids}
          BY <3>1, Kinds DEF Reaches
      <4> QED
          BY <1>1, <3>1, <3>2, <3>4, <4>1 DEF Void, rowVars
    <3> QED
        BY <3>2, <3>3, <3>4 DEF Sending, HalfWay
  <2>7. ASSUME NEW x, JobHas(job, "fan_out", x)
        PROVE  x \in DOMAIN notification
      BY <1>4, <2>3, <2>7 DEF JobHas, HandlerOK, JobOK
  <2>8. \A s \in Stage, x \in Nat : \A j \in J : JobHas(j, s, x) => Void(s, x)' \/ HandlerHas(h, s, x)
      BY <2>1, <2>4, <2>5, <2>6, <2>7 DEF Stage
  <2>9. \A n \in DOMAIN notification, j \in J :
            JobHas(j, "fan_out", n) => h.k = 0 \/ RecipientsOf(n) \subseteq repeated'
      BY <2>1, <2>4
  <2>10. \A x \in Nat, j \in J : JobHas(j, "send", x) => Void("send", x)' \/ h.pc # "record"
      BY <2>1, <2>6
  <2>11. \A g \in G : FALSE
      BY <2>1
  <2> QED
      BY <1>1, <1>2, <2>2, <2>8, <2>9, <2>10, <2>11, SentStays
<1> QED
    BY <1>1, <1>3, <1>4

\* What is sent is not waiting any more.
LEMMA SentSends ==
    ASSUME TypeInv, TypeInv', SentInv, NEW h \in running, SendBatch(h)
    PROVE  SentInv'
<1>1. /\ h.pc = "send" /\ h.job.ids \subseteq DOMAIN delivery
      /\ \A d \in DOMAIN delivery :
            accepted'[d] \in {accepted[d], accepted[d] + 1} /\ (d \notin h.job.ids => accepted'[d] = accepted[d])
      /\ \/ Finish(h)
         \/ \E g \in Handler :
               /\ Become(h, g) /\ g.id = h.id /\ g.job = h.job /\ g.pc = "record"
               /\ g.k = h.k /\ g.left = h.left /\ g.made = h.made
               /\ g.out # {} /\ \A o \in g.out : o[1] \in h.job.ids /\ o[2] \in Final
    BY Sends
<1>2. UNCHANGED <<rowVars, jobs, repeated>>
    BY DEF SendBatch
<1>3. Kept /\ DOMAIN delivery' = DOMAIN delivery
    BY <1>2, KeptRows DEF rowVars
<1>4. PICK G : /\ running' = (running \ {h}) \cup G /\ \A a, b \in G : a = b
               /\ \A g \in G : /\ g.pc = "record" /\ g.k = h.k /\ g.made = h.made
                               /\ \A o \in g.out : o[1] \in h.job.ids
  <2>1. CASE Finish(h)
    <3>1. PICK G : G = {}
        OBVIOUS
    <3> QED
        BY <2>1, <3>1 DEF Finish
  <2>2. ASSUME NEW g \in Handler, Become(h, g), g.pc = "record", g.k = h.k, g.made = h.made,
               \A o \in g.out : o[1] \in h.job.ids
        PROVE  \E G : /\ running' = (running \ {h}) \cup G /\ \A a, b \in G : a = b
                      /\ \A e \in G : /\ e.pc = "record" /\ e.k = h.k /\ e.made = h.made
                                      /\ \A o \in e.out : o[1] \in h.job.ids
    <3>1. PICK G : G = {g}
        OBVIOUS
    <3> QED
        BY <2>2, <3>1 DEF Become
  <2> QED
      BY <1>1, <2>1, <2>2
<1>5. PICK J : J = {}
    OBVIOUS
<1>6. Passes(h, G, J)
    BY <1>2, <1>4, <1>5 DEF Passes
<1>7. \A s, x : \A g \in G : HandlerHas(g, s, x)' => s = "send" /\ x \in h.job.ids /\ HandlerHas(h, s, x)
    BY <1>1, <1>4 DEF HandlerHas, Making, Batching
<1>8. \A job \in J : FALSE
    BY <1>5
<1>9. Carried /\ Fresh /\ Distinct /\ AcceptedOnce /\ "send" \in Stage
    BY DEF SentInv, Stage
<1>10. Carried' /\ Fresh' /\ Distinct'
    BY <1>3, <1>4, <1>6, <1>7, <1>8, <1>9, HandsOn
<1>11. ASSUME NEW d \in DOMAIN delivery, delivery[d].recipient \notin repeated
       PROVE  accepted'[d] \in {0, 1} /\ (Waiting(d)' => accepted'[d] = 0)
  <2>1. accepted[d] \in {0, 1} /\ (Waiting(d) => accepted[d] = 0) /\ d \in Nat
      BY <1>9, <1>11, RowTypes DEF AcceptedOnce, TypeInv
  <2>2. ~Void("send", d) /\ One("send", d)
      BY <1>9, <1>11, <2>1 DEF Void, Carried
  <2>3. \A g \in running : HandlerHas(g, "send", d)' <=> HandlerHas(g, "send", d)
      BY <1>3, HandlerHasSame
  <2>4. \A job : JobHas(job, "send", d)' <=> JobHas(job, "send", d)
      BY DEF JobHas
  <2>5. Waiting(d)' => Waiting(d)
    <3>1. \A g \in running' : g.pc # "record" => g \in running
        BY <1>4
    <3> QED
        BY <1>2, <2>3, <2>4, <3>1 DEF Waiting
  <2>6. CASE d \in h.job.ids
    <3>1. HandlerHas(h, "send", d)
        BY <1>1, <2>6 DEF HandlerHas
    <3>2. Waiting(d) /\ OnlyBy(h, "send", d)
        BY <1>1, <2>2, <3>1, Sources DEF Waiting
    <3>3. \A g \in running' : HandlerHas(g, "send", d)' => g.pc = "record"
        BY <1>4, <2>3, <3>2 DEF OnlyBy
    <3>4. ~Waiting(d)'
        BY <1>2, <2>4, <3>2, <3>3 DEF Waiting, OnlyBy
    <3>5. accepted[d] = 0
        BY <2>1, <3>2
    <3> QED
        BY <1>1, <3>4, <3>5
  <2>7. CASE d \notin h.job.ids
      BY <1>1, <2>1, <2>5, <2>7
  <2> QED
      BY <2>6, <2>7
<1>12. AcceptedOnce'
    BY <1>2, <1>11 DEF AcceptedOnce, rowVars
<1> QED
    BY <1>10, <1>12 DEF SentInv

\* Nothing else has to do with a notification that is new.
LEMMA SentCreates ==
    ASSUME TypeInv, TypeInv', SentInv, CreateNotification(Channel, User)
    PROVE  SentInv'
<1>1. PICK n \in Nat, g \in Handler :
               /\ n = Len(notification) + 1
               /\ notification' = Append(notification, [channels |-> Channel])
               /\ running' = running \cup {g}
               /\ g.id = FreeId /\ g.job \in Job /\ g.job.kind = "fan_out" /\ g.job.ids = {n}
               /\ g.k = 0 /\ g.users = User /\ g.made = {} /\ g.out = {}
               /\ g.pc \in {"recipients", "enqueue"} /\ (g.pc = "recipients" => User # {})
    BY Creates
<1>2. UNCHANGED <<recipient, delivery, jobs, accepted, repeated>>
    BY DEF CreateNotification
<1>3. Kept
    BY <1>2 DEF Kept
<1>4. n \notin DOMAIN notification
    BY <1>1, RowTypes DEF TypeInv
<1>5. ~Held("fan_out", n)
    BY <1>4, HeldRows
<1>6. \A s, x : HandlerHas(g, s, x)' => s = "fan_out" /\ x = n
    BY <1>1 DEF HandlerHas, Batching
<1>7. \A s, x : \A h \in running : HandlerHas(h, s, x)' <=> HandlerHas(h, s, x)
    BY <1>3, HandlerHasSame
<1>8. \A s, x : \A job : JobHas(job, s, x)' <=> JobHas(job, s, x)
    BY DEF JobHas
<1>9. ASSUME NEW s \in Stage, NEW x \in Nat, One(s, x)
      PROVE  One(s, x)'
  <2>1. HandlerHas(g, s, x)' => ~Held(s, x)
      BY <1>5, <1>6
  <2>2. ASSUME NEW e \in running', NEW h \in running', HandlerHas(e, s, x)', HandlerHas(h, s, x)'
        PROVE  e = h
      BY <1>1, <1>7, <1>9, <2>1, <2>2 DEF One, Held
  <2>3. ASSUME NEW job \in jobs, NEW h \in running', JobHas(job, s, x), HandlerHas(h, s, x)'
        PROVE  FALSE
      BY <1>1, <1>7, <1>9, <2>1, <2>3 DEF One, Held
  <2> QED
      BY <1>2, <1>8, <1>9, <2>2, <2>3 DEF One
<1>10. Carried'
    BY <1>3, <1>9, VoidStays DEF SentInv, Carried
<1>11. \A s, x : s # "fan_out" => (Held(s, x)' <=> Held(s, x))
    BY <1>1, <1>2, <1>6, <1>7, <1>8 DEF Held
<1>12. ASSUME NEW i \in DOMAIN recipient
       PROVE  Ahead(i)' => Ahead(i)
  <2>1. recipient[i].notification # n
      BY <1>4 DEF TypeInv, RowsTyped
  <2>2. Position(i)' = Position(i)
      BY <1>2, <1>3, PositionSame, RowTypes DEF TypeInv
  <2> QED
      BY <1>1, <1>2, <1>6, <1>7, <1>8, <2>1, <2>2 DEF Ahead
<1>13. Fresh'
    BY <1>2, <1>11, <1>12 DEF SentInv, Fresh, Deliveries
<1>14. \A d \in DOMAIN delivery : Waiting(d)' <=> Waiting(d)
    BY <1>1, <1>2, <1>6, <1>7, <1>8 DEF Waiting
<1>15. Distinct' /\ AcceptedOnce'
    BY <1>2, <1>14 DEF SentInv, Distinct, AcceptedOnce
<1> QED
    BY <1>10, <1>13, <1>15 DEF SentInv

\* A job that starts carries what it had in its queue.
LEMMA SentStarts ==
    ASSUME TypeInv, TypeInv', SentInv, NEW job \in jobs, StartJob(job)
    PROVE  SentInv'
<1>1. PICK g \in Handler :
               /\ running' = running \cup {g} /\ g.id = FreeId /\ g.job = job
               /\ g.k = 0 /\ g.left = {} /\ g.made = {} /\ g.out = {}
               /\ job.kind = "fan_out" => g.pc = "pages"
               /\ job.kind = "batch" => g.pc = "insert"
               /\ job.kind \in Channel => g.pc = "send"
    BY Starts
<1>2. jobs' = jobs \ {job} /\ UNCHANGED <<rowVars, accepted, repeated>>
    BY DEF StartJob
<1>3. Kept
    BY <1>2, KeptRows
<1>4. \A s, x : HandlerHas(g, s, x)' => JobHas(job, s, x)
  <2>1. job.kind \in Kind
      BY JobTypes DEF TypeInv, WorkTyped
  <2> QED
      BY <1>1, <2>1, Kinds DEF HandlerHas, JobHas, Kind, Making, Batching
<1>5. \A s, x : \A h \in running : HandlerHas(h, s, x)' <=> HandlerHas(h, s, x)
    BY <1>3, HandlerHasSame
<1>6. \A s, x : \A j : JobHas(j, s, x)' <=> JobHas(j, s, x)
    BY DEF JobHas
<1>7. ASSUME NEW s \in Stage, NEW x \in Nat, One(s, x)
      PROVE  One(s, x)'
  <2>1. ASSUME NEW e \in running', NEW h \in running', HandlerHas(e, s, x)', HandlerHas(h, s, x)'
        PROVE  e = h
      BY <1>1, <1>4, <1>5, <1>7, <2>1 DEF One
  <2>2. ASSUME NEW j \in jobs', NEW h \in running', JobHas(j, s, x), HandlerHas(h, s, x)'
        PROVE  FALSE
      BY <1>1, <1>2, <1>4, <1>5, <1>7, <2>2 DEF One
  <2> QED
      BY <1>2, <1>6, <1>7, <2>1, <2>2 DEF One
<1>8. Carried'
    BY <1>3, <1>7, VoidStays DEF SentInv, Carried
<1>9. \A s, x : Held(s, x)' => Held(s, x)
    BY <1>1, <1>2, <1>4, <1>5, <1>6 DEF Held
<1>10. ASSUME NEW i \in DOMAIN recipient
       PROVE  Ahead(i)' => Ahead(i)
  <2>1. Position(i)' = Position(i) /\ recipient' = recipient
      BY <1>2, <1>3, PositionSame, RowTypes DEF TypeInv, rowVars
  <2> QED
      BY <1>1, <1>2, <1>4, <1>5, <1>6, <2>1 DEF Ahead
<1>11. Fresh'
    BY <1>2, <1>9, <1>10 DEF SentInv, Fresh, Deliveries, rowVars
<1>12. \A d \in DOMAIN delivery : Waiting(d)' => Waiting(d)
    BY <1>1, <1>2, <1>4, <1>5, <1>6 DEF Waiting
<1>13. Distinct' /\ AcceptedOnce'
    BY <1>2, <1>12 DEF SentInv, Distinct, AcceptedOnce, rowVars
<1> QED
    BY <1>8, <1>11, <1>13 DEF SentInv

\* A page takes recipients to which the fan-out comes for the first time, and
\* leaves those behind it.
LEMMA SentPages ==
    ASSUME TypeInv, TypeInv', SentInv, NEW h \in running, FanOutPage(h)
    PROVE  SentInv'
<1>1. PICK n \in DOMAIN notification :
               /\ h.job.ids = {n} /\ h.pc = "pages" /\ h.k \in Nat
               /\ \/ jobs' = jobs /\ Finish(h)
                  \/ \E job \in Job, g \in Handler :
                         /\ job.kind = "batch" /\ job.ids = Page(n, h.k)
                         /\ jobs' = jobs \cup {job} /\ Become(h, g)
                         /\ g.id = h.id /\ g.job = h.job /\ g.pc = "pages" /\ g.k = h.k + BatchSize
                         /\ g.left = h.left /\ g.made = h.made /\ g.out = h.out
    BY Pages
<1>2. UNCHANGED <<rowVars, accepted, repeated>>
    BY DEF FanOutPage
<1>3. Kept /\ DOMAIN delivery' = DOMAIN delivery
    BY <1>2, KeptRows DEF rowVars
<1>4. CASE jobs' = jobs /\ Finish(h)
    BY <1>2, <1>3, <1>4, SentEnds
<1>5. ASSUME NEW job \in Job, NEW g \in Handler, job.kind = "batch", job.ids = Page(n, h.k),
             jobs' = jobs \cup {job}, Become(h, g), g.job = h.job, g.pc = "pages", g.k = h.k + BatchSize
      PROVE  SentInv'
  <2>1. PICK G, J : G = {g} /\ J = {job}
      OBVIOUS
  <2>2. Passes(h, G, J)
      BY <1>5, <2>1 DEF Passes, Become
  <2>3. \A s, x : HandlerHas(g, s, x)' => s = "fan_out" /\ x = n
      BY <1>1, <1>5 DEF HandlerHas, Batching
  <2>4. \A s, x : JobHas(job, s, x) => s = "batch" /\ x \in Page(n, h.k)
      BY <1>5, Kinds DEF JobHas
  <2>5. HandlerHas(h, "fan_out", n)
      BY <1>1 DEF HandlerHas, Making
  <2>6. DOMAIN recipient \subseteq Nat /\ DOMAIN recipient' = DOMAIN recipient
      BY <1>2, RowTypes DEF TypeInv, rowVars
  <2>7. \A i \in Page(n, h.k) : /\ i \in DOMAIN recipient /\ recipient[i].notification = n
                                /\ Position(i) \in h.k .. h.k + BatchSize - 1
      BY DEF Page, RecipientsOf, Position
  <2>8. \A i \in Page(n, h.k) : Ahead(i)
    <3>1. \A i \in Page(n, h.k) : h.k <= Position(i)
        BY <1>1, <2>7, ConstantsAssumption
    <3> QED
        BY <2>5, <2>7, <3>1 DEF Ahead
  <2>9. \A i \in Page(n, h.k) : Void("batch", i)' \/ ~Held("batch", i)
      BY <1>2, <2>7, <2>8 DEF SentInv, Fresh, Void
  <2>10. Carried'
    <3>1. \A s, x : \A e \in G : HandlerHas(e, s, x)' => HandlerHas(h, s, x)
        BY <2>1, <2>3, <2>5
    <3>2. \A s, x : \A j \in J : JobHas(j, s, x) => Void(s, x)' \/ ~Held(s, x)
        BY <2>1, <2>4, <2>9
    <3>3. \A s, x : \A e \in G, j \in J : ~(HandlerHas(e, s, x)' /\ JobHas(j, s, x))
        BY <2>1, <2>3, <2>4
    <3> QED
        BY <1>3, <2>2, <3>1, <3>2, <3>3, CarriedStays DEF SentInv
  <2>11. \A s, x : \A e \in running : HandlerHas(e, s, x)' <=> HandlerHas(e, s, x)
      BY <1>3, HandlerHasSame
  <2>12. \A s, x : \A j : JobHas(j, s, x)' <=> JobHas(j, s, x)
      BY DEF JobHas
  <2>13. ASSUME NEW i \in DOMAIN recipient
         PROVE  Ahead(i)' => Ahead(i) /\ i \notin Page(n, h.k)
    <3>1. Position(i)' = Position(i) /\ Position(i) \in Nat
        BY <1>3, <2>6, PositionSame, Positions
    <3>2. PICK m : m = recipient[i].notification
        OBVIOUS
    <3>3. m = recipient'[i].notification
        BY <1>2, <3>2 DEF rowVars
    <3>4. \A j \in jobs' : JobHas(j, "fan_out", m) => j \in jobs
        BY <1>5, <2>4
    <3>5. \A e \in running' : e \in running \/ e = g
        BY <1>5 DEF Become
    <3>6. g.k <= Position(i) => h.k <= Position(i)
        BY <1>1, <1>5, <3>1, ConstantsAssumption
    <3>7. Ahead(i)' => Ahead(i)
      <4>1. HandlerHas(g, "fan_out", m)' => HandlerHas(h, "fan_out", m)
          BY <2>3, <2>5
      <4> QED
          BY <2>11, <2>12, <3>1, <3>2, <3>3, <3>4, <3>5, <3>6, <4>1 DEF Ahead
    <3>8. ASSUME i \in Page(n, h.k), Ahead(i)'
          PROVE  FALSE
      <4>1. m = n /\ n \in Nat /\ "fan_out" \in Stage
          BY <2>7, <3>2, <3>8, RowTypes DEF TypeInv, Stage
      <4>2. OnlyBy(h, "fan_out", n)
        <5>1. One("fan_out", n)
            BY <4>1 DEF SentInv, Carried, Void
        <5> QED
            BY <2>5, <5>1, Sources
      <4>3. \A j \in jobs' : ~JobHas(j, "fan_out", m)
          BY <3>4, <4>1, <4>2 DEF OnlyBy
      <4>4. \A e \in running' : HandlerHas(e, "fan_out", m)' => e = g
          BY <1>5, <2>11, <4>1, <4>2 DEF OnlyBy, Become
      <4>5. ~(g.k <= Position(i))
          BY <1>1, <1>5, <2>7, <3>1, <3>8, ConstantsAssumption
      <4> QED
          BY <2>12, <3>1, <3>3, <3>8, <4>3, <4>4, <4>5 DEF Ahead
    <3> QED
        BY <3>7, <3>8
  <2>14. ASSUME NEW i \in DOMAIN recipient
         PROVE  Held("batch", i)' => Held("batch", i) \/ i \in Page(n, h.k)
    <3>1. \A e \in running' : HandlerHas(e, "batch", i)' => Held("batch", i)
        BY <1>5, <2>3, <2>11 DEF Held, Become
    <3>2. \A j \in jobs' : JobHas(j, "batch", i) => Held("batch", i) \/ i \in Page(n, h.k)
        BY <1>5, <2>4 DEF Held
    <3> QED
        BY <2>12, <3>1, <3>2 DEF Held
  <2>15. \A i \in DOMAIN recipient : Deliveries({i})' = Deliveries({i})
      BY <1>2 DEF Deliveries, rowVars
  <2>16. Fresh'
    <3>1. DOMAIN recipient' = DOMAIN recipient /\ repeated' = repeated
        BY <1>2 DEF rowVars
    <3> QED
        BY <2>8, <2>13, <2>14, <2>15, <3>1 DEF SentInv, Fresh
  <2>17. ASSUME NEW d \in DOMAIN delivery
         PROVE  Waiting(d)' => Waiting(d)
    <3>1. \A e \in running' : HandlerHas(e, "send", d)' /\ e.pc # "record" => Waiting(d)
        BY <1>5, <2>3, <2>11 DEF Waiting, Become
    <3>2. \A j \in jobs' : JobHas(j, "send", d) => Waiting(d)
        BY <1>5, <2>4 DEF Waiting
    <3> QED
        BY <2>12, <3>1, <3>2 DEF Waiting
  <2>18. Distinct' /\ AcceptedOnce'
      BY <1>2, <2>17 DEF SentInv, Distinct, AcceptedOnce, rowVars
  <2> QED
      BY <2>10, <2>16, <2>18 DEF SentInv
<1> QED
    BY <1>1, <1>4, <1>5

\* A batch makes the first deliveries of its recipients.
LEMMA SentInserts ==
    ASSUME TypeInv, TypeInv', SentInv, NEW h \in running, InsertDeliveries(h)
    PROVE  SentInv'
<1>1. /\ h.job.kind = "batch" /\ h.job.ids \subseteq DOMAIN recipient /\ Grown
      /\ \A d \in DOMAIN delivery : delivery'[d] = delivery[d] /\ accepted'[d] = accepted[d]
      /\ \A d \in DOMAIN delivery' \ DOMAIN delivery :
            delivery'[d].recipient \in h.job.ids /\ accepted'[d] = 0
      /\ \A d, e \in DOMAIN delivery' \ DOMAIN delivery :
            delivery'[d].recipient = delivery'[e].recipient /\ delivery'[d].channel = delivery'[e].channel
            => d = e
    BY Inserts
<1>2. PICK g \in Handler :
          /\ Become(h, g) /\ g.id = h.id /\ g.job = h.job /\ g.pc = "sent" /\ g.k = h.k
          /\ g.made = DOMAIN delivery' \ DOMAIN delivery /\ g.out = h.out
    BY Inserts
<1>3. h.pc = "insert" /\ UNCHANGED <<notification, recipient, jobs, repeated>>
    BY DEF InsertDeliveries
<1>4. Kept
    BY <1>1, <1>3 DEF Kept, Grown
<1>5. DOMAIN recipient \subseteq Nat /\ "batch" \in Stage
    BY RowTypes DEF TypeInv, Stage
<1>6. PICK G, J : G = {g} /\ J = {}
    OBVIOUS
<1>7. Passes(h, G, J)
    BY <1>2, <1>3, <1>6 DEF Passes, Become
<1>8. \A s, x : HandlerHas(g, s, x)' => s = "send" /\ x \in DOMAIN delivery' \ DOMAIN delivery
    BY <1>2 DEF HandlerHas, Making
<1>9. \A x : Held("send", x) => x \in DOMAIN delivery
    BY HeldRows
<1>10. Carried'
  <2>1. \A s, x : \A e \in G : HandlerHas(e, s, x)' => ~Held(s, x)
      BY <1>6, <1>8, <1>9
  <2>2. \A j \in J : FALSE
      BY <1>6
  <2> QED
      BY <1>4, <1>7, <2>1, <2>2, CarriedStays DEF SentInv
<1>11. \A s, x : \A e \in running : HandlerHas(e, s, x)' <=> HandlerHas(e, s, x)
    BY <1>4, HandlerHasSame
<1>12. \A s, x : \A j : JobHas(j, s, x)' <=> JobHas(j, s, x)
    BY DEF JobHas
<1>13. running' = (running \ {h}) \cup {g}
    BY <1>2 DEF Become
<1>14. ASSUME NEW i \in DOMAIN recipient
       PROVE  Ahead(i)' => Ahead(i)
  <2>1. Position(i)' = Position(i)
      BY <1>3, <1>4, <1>5, PositionSame
  <2> QED
      BY <1>3, <1>8, <1>11, <1>12, <1>13, <2>1 DEF Ahead
<1>15. \A i \in h.job.ids : HandlerHas(h, "batch", i) /\ Held("batch", i)
    BY <1>3 DEF HandlerHas, Held
<1>16. ASSUME NEW i \in DOMAIN recipient, i \notin repeated
       PROVE  Held("batch", i)' => Held("batch", i) /\ i \notin h.job.ids
  <2>1. Held("batch", i)' => \/ \E j \in jobs : JobHas(j, "batch", i)
                             \/ \E e \in running \ {h} : HandlerHas(e, "batch", i)
      BY <1>3, <1>8, <1>11, <1>12, <1>13 DEF Held
  <2>2. One("batch", i)
      BY <1>5, <1>16 DEF SentInv, Carried, Void
  <2>3. i \in h.job.ids => OnlyBy(h, "batch", i)
      BY <1>15, <2>2, Sources
  <2> QED
      BY <2>1, <2>3 DEF Held, OnlyBy
<1>17. \A i \in DOMAIN recipient : i \notin h.job.ids => Deliveries({i})' = Deliveries({i})
    BY <1>1 DEF Deliveries, Grown
<1>18. Fresh'
    BY <1>3, <1>14, <1>15, <1>16, <1>17 DEF SentInv, Fresh
<1>19. ASSUME NEW d \in DOMAIN delivery, NEW e \in DOMAIN delivery' \ DOMAIN delivery,
              delivery'[d].recipient = delivery'[e].recipient
       PROVE  delivery[d].recipient \in repeated
  <2>1. delivery[d].recipient \in h.job.ids
      BY <1>1, <1>19
  <2>2. d \in Deliveries({delivery[d].recipient})
      BY DEF Deliveries
  <2> QED
      BY <1>1, <1>15, <2>1, <2>2 DEF SentInv, Fresh
<1>20. Distinct'
  <2> SUFFICES ASSUME NEW d \in DOMAIN delivery', NEW e \in DOMAIN delivery',
                      delivery'[d].recipient = delivery'[e].recipient,
                      delivery'[d].channel = delivery'[e].channel
               PROVE  d = e \/ delivery'[d].recipient \in repeated
      BY <1>3 DEF Distinct
  <2>1. CASE d \in DOMAIN delivery /\ e \in DOMAIN delivery
      BY <1>1, <2>1 DEF SentInv, Distinct
  <2>2. CASE d \in DOMAIN delivery /\ e \notin DOMAIN delivery
      BY <1>1, <1>19, <2>2
  <2>3. CASE d \notin DOMAIN delivery /\ e \in DOMAIN delivery
      BY <1>1, <1>19, <2>3
  <2>4. CASE d \notin DOMAIN delivery /\ e \notin DOMAIN delivery
      BY <1>1, <2>4
  <2> QED
      BY <2>1, <2>2, <2>3, <2>4
<1>21. ASSUME NEW d \in DOMAIN delivery
       PROVE  Waiting(d)' => Waiting(d)
    BY <1>3, <1>8, <1>11, <1>12, <1>13 DEF Waiting
<1>22. AcceptedOnce'
    BY <1>1, <1>3, <1>21 DEF SentInv, AcceptedOnce
<1> QED
    BY <1>10, <1>18, <1>20, <1>22 DEF SentInv

LEMMA SentInit ==
    ASSUME Init
    PROVE  SentInv
<1>1. DOMAIN recipient = {} /\ DOMAIN delivery = {}
    BY EmptySeq DEF Init
<1>2. Carried
    BY DEF Init, Carried, One
<1> QED
    BY <1>1, <1>2 DEF SentInv, Fresh, Distinct, AcceptedOnce

LEMMA SentNext ==
    ASSUME TypeInv, TypeInv', SentInv, [Next]_vars
    PROVE  SentInv'
<1>1. CASE CreateNotification(Channel, User)
    BY <1>1, SentCreates
<1>2. ASSUME NEW i \in DOMAIN recipient, MarkAsRead(i)
      PROVE  SentInv'
  <2>1. UNCHANGED <<delivery, jobs, running, accepted, repeated>>
      BY <1>2 DEF MarkAsRead
  <2>2. DOMAIN recipient' = DOMAIN recipient /\ Kept
      BY <1>2, <2>1, Reads DEF Kept
  <2> QED
      BY <2>1, <2>2, SentElsewhere
<1>3. ASSUME NEW job \in jobs, StartJob(job)
      PROVE  SentInv'
    BY <1>3, SentStarts
<1>4. ASSUME NEW h \in running, PipelineStep(h) \/ JobRaises(h) \/ Die(h)
      PROVE  SentInv'
    BY <1>4, SentAdds, SentEnqueues, SentPages, SentDies, SentInserts, SentMarks, SentQueues,
       SentPublishes, SentSends, SentRecords, SentRaises DEF PipelineStep
<1>5. CASE UNCHANGED restVars
  <2>1. Kept /\ UNCHANGED <<recipient, delivery, jobs, running, accepted, repeated>>
      BY <1>5, KeptRows DEF restVars, rowVars
  <2> QED
      BY <2>1, SentElsewhere
<1>6. CASE ConnectionStep
    BY <1>5, <1>6 DEF ConnectionStep, SSEConnect, BeginWSConnect, Receive, EndStream, EvictStale,
       WSConnect, EndSocket, DeliverInApp, LoseMessage
<1>7. CASE UNCHANGED vars
    BY <1>5, <1>7 DEF vars, restVars
<1> QED
    BY <1>1, <1>2, <1>3, <1>4, <1>6, <1>7 DEF Next

\* Whatever the pages, the batches, the retries and the deaths of workers, the
\* gateway takes a notification of a recipient over one channel at most once,
\* unless a job that had got half-way with that recipient was run again.
THEOREM NothingSentTwice == Spec => []SentOnce
<1>1. TypeInv /\ SentInv => SentOnce
  <2> SUFFICES ASSUME TypeInv, SentInv, NEW d \in DOMAIN delivery, NEW e \in DOMAIN delivery,
                      accepted[d] > 0, accepted[e] > 0,
                      delivery[d].recipient = delivery[e].recipient, delivery[d].channel = delivery[e].channel
               PROVE  delivery[d].recipient \in repeated \/ (d = e /\ accepted[d] = 1)
      BY DEF SentOnce
  <2>1. delivery[d].recipient \in repeated \/ d = e
      BY DEF SentInv, Distinct
  <2>2. delivery[d].recipient \in repeated \/ accepted[d] = 1
      BY DEF SentInv, AcceptedOnce
  <2> QED
      BY <2>1, <2>2
<1>2. TypeInv /\ TypeInv' /\ SentInv /\ [Next]_vars => SentInv'
    BY SentNext
<1>3. Init => SentInv
    BY SentInit
<1> QED
    BY <1>1, <1>2, <1>3, Typing, PTL DEF Spec

=============================================================================
