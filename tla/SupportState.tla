---------------------------- MODULE SupportState ----------------------------
(***************************************************************************)
(* The shared state of support: the rows of supportcase, caseassignment,   *)
(* casemessage, caseresolution and dispute, and the requests that have     *)
(* loaded a case and not yet committed.                                    *)
(***************************************************************************)
EXTENDS Integers, FiniteSets, Sequences, TLC

CONSTANTS
    Agent,
    Super,          \* the agents that are SUPER_ADMIN or ROOT_ADMIN
    Customer,
    Provider,
    Email,          \* Message-ID of an incoming e-mail
    Decision,
    Nobody,
    GivenStatus,    \* the statuses that agents give, some of CaseStatus
    MaxCases,       \* bound on the cases
    MaxRequests,    \* bound on the requests
    MaxRunning,     \* bound on the requests running at a time
    MaxCrashes      \* bound on the requests that die half-way

OpenStatus == {"OPEN", "IN_PROGRESS", "WAITING_FOR_USER", "WAITING_FOR_PROVIDER", "WAITING_FOR_INTERNAL"}
ClosedStatus == {"RESOLVED", "CLOSED"}  \* AUTO_CLOSED, which nothing but an agent writes, is CLOSED
CaseStatus == OpenStatus \cup ClosedStatus

ASSUME ConstantsAssumption ==
    /\ Super \subseteq Agent
    /\ Customer \cap Provider = {}
    /\ GivenStatus \subseteq CaseStatus
    /\ Nobody \notin Agent \cup Customer \cup Provider \cup Email \cup Decision
    /\ {MaxCases, MaxRequests, MaxRunning, MaxCrashes} \subseteq Nat

User == Customer \cup Provider

\* task: the case is about the task, of which the model has one; urgent: its
\* priority is URGENT; responded: first_responded_at is set.
SupportCase == [status: CaseStatus, urgent: BOOLEAN, responded: BOOLEAN, task: BOOLEAN,
                agent: Agent \cup {Nobody}, customer: Customer \cup {Nobody},
                provider: Provider \cup {Nobody}, initiator: User \cup {Nobody}]

\* A Dispute or CaseResolution row by what it says; NONE where there is no
\* row, OPEN in a dispute that no decision has reached.
Dispute == Decision \cup {"NONE", "OPEN"}
CaseResolution == Decision \cup {"NONE"}

CaseAssignment == [agent: Agent, open: BOOLEAN]

\* row: the case with what the request is going to change; old: as it was
\* loaded; agent: who takes the case; rows: the CaseAssignment rows that its
\* UPDATE found open.
HandlerRow == [pc: {"create", "message", "unassign", "assign", "resolve", "decide", "attach"},
               id: Nat, case: Nat, old: SupportCase, row: SupportCase, agent: Agent \cup {Nobody},
               rows: SUBSET Nat, decision: Decision \cup {Nobody}, mail: Email \cup {Nobody}]

VARIABLES
    case,          \* the cases by creation
    assignments,   \* of each case: its CaseAssignment rows by creation
    dispute, resolution,  \* of each case: the dispute, the latest resolution
    mails,         \* Email -> how many CaseMessage rows carry its Message-ID
    running, requests, crashes,
    \* History, read by no action: cases whose assignments overlapped; whose
    \* last resolutions overlapped or were cut off; e-mails of which two
    \* deliveries, and users of whom two creations overlapped; cases that no
    \* check for an open ticket has let through: opened as a dispute,
    \* reopened, or with a second user attached.
    overlapped, unsettled, doubled, unchecked

caseVars == <<case, assignments, dispute, resolution>>
historyVars == <<overlapped, unsettled, doubled, unchecked>>
vars == <<caseVars, mails, running, requests, crashes, historyVars>>

Cases == 1 .. Len(case)

TypeOK ==
    /\ case \in Seq(SupportCase) /\ Len(case) <= MaxCases
    /\ assignments \in [Cases -> Seq(CaseAssignment)]
    /\ dispute \in [Cases -> Dispute] /\ resolution \in [Cases -> CaseResolution]
    /\ mails \in [Email -> Nat]
    /\ running \subseteq HandlerRow
    /\ \A g, h \in running : g.id = h.id => g = h
    /\ requests \in 0 .. MaxRequests /\ crashes \in 0 .. MaxCrashes
    /\ overlapped \subseteq Cases /\ unsettled \subseteq Cases /\ unchecked \subseteq Cases
    /\ doubled \subseteq Email \cup User

Init ==
    /\ case = <<>> /\ assignments = <<>> /\ dispute = <<>> /\ resolution = <<>>
    /\ mails = [e \in Email |-> 0]
    /\ running = {} /\ requests = 0 /\ crashes = 0
    /\ overlapped = {} /\ unsettled = {} /\ doubled = {} /\ unchecked = {}

(***************************************************************************)
(* A request loads the case, works on its copy and commits: the commit     *)
(* writes the columns in which the copy differs from what was loaded.  A   *)
(* request that sets a column of one case to a constant is one step: where *)
(* it found that value already, it comes before whatever changed it since. *)
(***************************************************************************)
NewCase == [status |-> "OPEN", urgent |-> FALSE, responded |-> FALSE, task |-> FALSE,
            agent |-> Nobody, customer |-> Nobody, provider |-> Nobody, initiator |-> Nobody]

Count == requests < MaxRequests /\ requests' = requests + 1
FreeId == CHOOSE i \in 1 .. MaxRunning : \A h \in running : h.id # i

\* Columns that the request leaves alone are kept as NewCase has them.
Request(label, c, loaded, new) ==
    LET Kept(r) == [f \in DOMAIN NewCase |-> IF loaded[f] = new[f] THEN NewCase[f] ELSE r[f]]
    IN [pc |-> label, id |-> FreeId, case |-> c, old |-> Kept(loaded), row |-> Kept(new),
        agent |-> Nobody, rows |-> {}, decision |-> Nobody, mail |-> Nobody]

Run(h) == Count /\ Cardinality(running) < MaxRunning /\ running' = running \cup {h}
Become(h, g) == running' = (running \ {h}) \cup {g}
Finish(h) == running' = running \ {h}

Commit(h) ==
    case' = [case EXCEPT ![h.case] =
                [f \in DOMAIN NewCase |-> IF h.old[f] = h.row[f] THEN @[f] ELSE h.row[f]]]

Under(c, labels) == \E h \in running : h.case = c /\ h.pc \in labels
Reopens(c) == case[c].status \in ClosedStatus /\ case'[c].status \in OpenStatus
Unchecked(c) == unchecked' = IF Reopens(c) THEN unchecked \cup {c} ELSE unchecked

\* The request dies; what it has not committed is gone.
Crash ==
    /\ crashes < MaxCrashes
    /\ \E h \in running :
        /\ Finish(h)
        /\ unsettled' = IF h.pc \in {"resolve", "decide"} THEN unsettled \cup {h.case} ELSE unsettled
    /\ crashes' = crashes + 1
    /\ UNCHANGED <<caseVars, mails, requests, overlapped, doubled, unchecked>>
=============================================================================
