---------------------------- MODULE SupportSystem ----------------------------
(***************************************************************************)
(* Support as a whole: users, agents and the e-mail provider, whose        *)
(* requests interleave commit by commit.                                   *)
(***************************************************************************)
EXTENDS CaseService

Step(h) ==
    \/ CreateCase(h) \/ InsertMessage(h)
    \/ Unassign(h) \/ Assign(h)
    \/ ResolveCase(h) \/ DecideDispute(h)
    \/ AttachUser(h)

UserRequest(u) ==
    \/ \E about \in BOOLEAN : BeginCreateCase(u, about)
    \/ OpenDispute(u)
    \/ \E c \in Cases : BeginUserMessage(u, c) \/ CloseCase(u, c) \/ ReopenCase(u, c)

AgentRequest(c) ==
    \/ \E public \in BOOLEAN : BeginAgentMessage(c, public)
    \/ \E s \in GivenStatus : AgentMessageWithStatus(c, s) \/ UpdateCase(c, s)
    \/ EscalateDispute(c)
    \/ \E d \in Decision : BeginResolve(c, d)
    \/ \E a \in Agent : \/ ClaimCase(a, c)
                        \/ \E b \in Agent : AssignCase(a, b, c)
                        \/ \E u \in User : BeginAttachUser(a, c, u)

Next ==
    \/ \E h \in running : Step(h)
    \/ \E u \in User : UserRequest(u)
    \/ \E c \in Cases : AgentRequest(c)
    \/ \E c \in Cases, e \in Email : BeginEmail(e, c)
    \/ Crash

Spec == Init /\ [][Next]_vars

-----------------------------------------------------------------------------
\* The assignment history names one holder: the rows that are open are those
\* of the agent whom the case shows, unless two assignments of the case were
\* under way at once.
OneAgent ==
    \A c \in Cases \ overlapped :
        /\ Cardinality(OpenRows(c)) = IF case[c].agent = Nobody THEN 0 ELSE 1
        /\ \A i \in OpenRows(c) : assignments[c][i].agent = case[c].agent

\* Nobody has two open tickets for the task, unless two creations were under
\* way at once or one of the tickets never had to pass the check.
OneTicket ==
    \A c, d \in Cases : \A u \in Parties(c) \cap Parties(d) :
        /\ c # d /\ u # Nobody /\ case[c].task /\ case[d].task
        /\ {case[c].status, case[d].status} \subseteq OpenStatus
        => u \in doubled \/ {c, d} \cap unchecked # {}

\* A dispute carries the decision of the case's latest resolution, and none
\* before the first, except while a resolution is between its two commits;
\* two at once, or one cut off between them, may leave another decision.
DecisionFollowsResolution ==
    \A c \in Cases : dispute[c] # "NONE" =>
        \/ c \in unsettled \/ Under(c, {"resolve", "decide"})
        \/ dispute[c] = IF resolution[c] = "NONE" THEN "OPEN" ELSE resolution[c]

\* However often an e-mail is delivered it becomes one message, unless two
\* deliveries were under way at once.
EmailOnce == \A e \in Email : mails[e] > 1 => e \in doubled
=============================================================================
