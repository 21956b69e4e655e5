----------------------------- MODULE CaseService -----------------------------
(***************************************************************************)
(* What users, agents and incoming e-mail do to support cases.             *)
(***************************************************************************)
EXTENDS SupportState

(***************************************************************************)
(* Opening.  The check for an open ticket and the insertion are two        *)
(* statements; a dispute is opened without the check.                      *)
(***************************************************************************)
Parties(c) == {case[c].customer, case[c].provider, case[c].initiator}

Opened(u, about) ==
    [NewCase EXCEPT !.task = about, !.customer = IF u \in Customer THEN u ELSE Nobody,
                    !.provider = IF u \in Provider THEN u ELSE Nobody]

\* A mutant: only a case that still waits for an agent counts as open.
HasUntouchedTicket(u) == \E c \in Cases : case[c].task /\ u \in Parties(c) /\ case[c].status = "OPEN"
HasOpenTicket(u) == \E c \in Cases : case[c].task /\ u \in Parties(c) /\ case[c].status \in OpenStatus

MayCreate(u, about) == about => ~HasOpenTicket(u)

BeginCreateCase(u, about) ==
    /\ MayCreate(u, about)
    /\ Run(Request("create", 0, NewCase, [Opened(u, about) EXCEPT !.initiator = u]))
    /\ doubled' = IF \E h \in running : h.row.initiator = u THEN doubled \cup {u} ELSE doubled
    /\ UNCHANGED <<caseVars, mails, crashes, overlapped, unsettled, unchecked>>

\* A mutant: a case comes without its history of assignments.
InsertBare(row, disputed) ==
    /\ Len(case) < MaxCases /\ case' = Append(case, row)
    /\ dispute' = Append(dispute, disputed) /\ resolution' = Append(resolution, "NONE")
    /\ UNCHANGED assignments

Insert(row, disputed) ==
    /\ Len(case) < MaxCases
    /\ case' = Append(case, row)
    /\ assignments' = Append(assignments, <<>>)
    /\ dispute' = Append(dispute, disputed)
    /\ resolution' = Append(resolution, "NONE")

CreateCase(h) ==
    /\ h.pc = "create" /\ Insert(h.row, "NONE") /\ Finish(h)
    /\ UNCHANGED <<mails, requests, crashes, historyVars>>

OpenDispute(u) ==
    /\ Count /\ Insert(Opened(u, TRUE), "OPEN")
    /\ unchecked' = unchecked \cup {Len(case) + 1}
    /\ UNCHANGED <<mails, running, crashes, overlapped, unsettled, doubled>>

(***************************************************************************)
(* Messages                                                                *)
(***************************************************************************)
\* What a message does to the case that it finds.
AfterUser(r) ==
    IF r.status \in {"WAITING_FOR_USER", "WAITING_FOR_PROVIDER"}
    THEN [r EXCEPT !.status = "IN_PROGRESS"] ELSE r
AfterAgent(r, public) ==
    [r EXCEPT !.responded = @ \/ public,
              !.status = IF @ = "WAITING_FOR_INTERNAL" THEN "IN_PROGRESS" ELSE @]

SendMessage(c, new, mail) ==
    /\ Run([Request("message", c, case[c], new) EXCEPT !.mail = mail])
    /\ UNCHANGED <<caseVars, mails, crashes, overlapped, unsettled, unchecked>>

BeginUserMessage(u, c) ==
    /\ u \in {case[c].customer, case[c].provider}
    /\ SendMessage(c, AfterUser(case[c]), Nobody) /\ UNCHANGED doubled

\* An agent's message carries a new status (and then counts as no response),
\* or none; a note is a message that is not public.
BeginAgentMessage(c, public) == SendMessage(c, AfterAgent(case[c], public), Nobody) /\ UNCHANGED doubled
SetStatus(c, s) ==
    /\ Count /\ case' = [case EXCEPT ![c].status = s] /\ Unchecked(c)
    /\ UNCHANGED <<assignments, dispute, resolution, mails, running, crashes, overlapped, unsettled, doubled>>
AgentMessageWithStatus(c, s) == SetStatus(c, s)

\* An e-mail may be delivered several times; its Message-ID is looked up, and
\* recorded with the message.
\* A mutant: no Message-ID is ever looked up.
NeverKnown(e) == FALSE
Known(e) == mails[e] > 0
BeginEmail(e, c) ==
    /\ ~Known(e)
    /\ doubled' = IF \E h \in running : h.mail = e THEN doubled \cup {e} ELSE doubled
    /\ SendMessage(c, AfterUser(case[c]), e)

InsertMessage(h) ==
    /\ h.pc = "message" /\ Commit(h) /\ Unchecked(h.case)
    /\ mails' = IF h.mail = Nobody THEN mails ELSE [mails EXCEPT ![h.mail] = @ + 1]
    /\ Finish(h)
    /\ UNCHANGED <<assignments, dispute, resolution, requests, crashes, overlapped, unsettled, doubled>>

(***************************************************************************)
(* Status and priority.                                                    *)
(***************************************************************************)
CloseCase(u, c) == u \in {case[c].customer, case[c].provider} /\ SetStatus(c, "CLOSED")
ReopenCase(u, c) == u \in {case[c].customer, case[c].provider} /\ SetStatus(c, "OPEN")
UpdateCase(c, s) == SetStatus(c, s)
EscalateDispute(c) ==
    /\ Count /\ case' = [case EXCEPT ![c].urgent = TRUE]
    /\ UNCHANGED <<assignments, dispute, resolution, mails, running, crashes, historyVars>>

(***************************************************************************)
(* Assignment.  The agent that the case shows decides whether it may be    *)
(* taken and whether earlier rows are closed; the UPDATE closes the rows   *)
(* that it finds, and the new row comes with the commit.  Of two UPDATEs   *)
(* that find the same rows the second waits for the first, to find them    *)
(* closed: nothing depends on that.                                        *)
(***************************************************************************)
MayAssign(c, overwrite) == case[c].agent = Nobody \/ overwrite

BeginAssign(a, c, overwrite) ==
    /\ MayAssign(c, overwrite)
    /\ Run([Request(IF case[c].agent = Nobody THEN "assign" ELSE "unassign", c, case[c],
                    [case[c] EXCEPT !.agent = a, !.status = "IN_PROGRESS"]) EXCEPT !.agent = a])
    /\ overlapped' = IF Under(c, {"assign", "unassign"}) THEN overlapped \cup {c} ELSE overlapped
    /\ UNCHANGED <<caseVars, mails, crashes, unsettled, doubled, unchecked>>

ClaimCase(a, c) == BeginAssign(a, c, FALSE)
AssignCase(a, b, c) == BeginAssign(b, c, a \in Super)

OpenRows(c) == {i \in DOMAIN assignments[c] : assignments[c][i].open}

\* A mutant: an agent who takes over closes nothing.
TakeOver(h) ==
    /\ h.pc = "unassign" /\ Become(h, [h EXCEPT !.pc = "assign"])
    /\ UNCHANGED <<caseVars, mails, requests, crashes, historyVars>>

Unassign(h) ==
    /\ h.pc = "unassign"
    /\ Become(h, [h EXCEPT !.pc = "assign", !.rows = OpenRows(h.case)])
    /\ UNCHANGED <<caseVars, mails, requests, crashes, historyVars>>

Assign(h) ==
    /\ h.pc = "assign" /\ Commit(h) /\ Unchecked(h.case)
    /\ LET rows == assignments[h.case]
           closed == [i \in DOMAIN rows |-> [rows[i] EXCEPT !.open = @ /\ i \notin h.rows]]
       IN assignments' = [assignments EXCEPT ![h.case] = Append(closed, [agent |-> h.agent, open |-> TRUE])]
    /\ Finish(h)
    /\ UNCHANGED <<dispute, resolution, mails, requests, crashes, overlapped, unsettled, doubled>>

(***************************************************************************)
(* Resolution: the case with its CaseResolution in one commit, the         *)
(* decision in the dispute in a second.                                    *)
(***************************************************************************)
BeginResolve(c, d) ==
    /\ Run([Request("resolve", c, case[c], [case[c] EXCEPT !.status = "RESOLVED"]) EXCEPT !.decision = d])
    /\ unsettled' = IF Under(c, {"resolve", "decide"}) THEN unsettled \cup {c} ELSE unsettled \ {c}
    /\ UNCHANGED <<caseVars, mails, crashes, overlapped, doubled, unchecked>>

\* A mutant: a case that was resolved before keeps the decision in its dispute.
ResolveOnce(h) ==
    /\ h.pc = "resolve" /\ Commit(h)
    /\ resolution' = [resolution EXCEPT ![h.case] = h.decision]
    /\ IF dispute[h.case] # "OPEN" THEN Finish(h) ELSE Become(h, [h EXCEPT !.pc = "decide"])
    /\ UNCHANGED <<assignments, dispute, mails, requests, crashes, historyVars>>

ResolveCase(h) ==
    /\ h.pc = "resolve" /\ Commit(h)
    /\ resolution' = [resolution EXCEPT ![h.case] = h.decision]
    /\ IF dispute[h.case] = "NONE" THEN Finish(h) ELSE Become(h, [h EXCEPT !.pc = "decide"])
    /\ UNCHANGED <<assignments, dispute, mails, requests, crashes, historyVars>>

DecideDispute(h) ==
    /\ h.pc = "decide"
    /\ dispute' = [dispute EXCEPT ![h.case] = h.decision]
    /\ Finish(h)
    /\ UNCHANGED <<case, assignments, resolution, mails, requests, crashes, historyVars>>

(***************************************************************************)
(* The assigned agent adds a user to the case, in the place of the one of  *)
(* the same kind that the case names.                                      *)
(***************************************************************************)
BeginAttachUser(a, c, u) ==
    /\ case[c].agent = a /\ u \notin {case[c].customer, case[c].provider}
    /\ Run(Request("attach", c, case[c], IF u \in Provider THEN [case[c] EXCEPT !.provider = u]
                                                           ELSE [case[c] EXCEPT !.customer = u]))
    /\ UNCHANGED <<caseVars, mails, crashes, historyVars>>

AttachUser(h) ==
    /\ h.pc = "attach" /\ Commit(h) /\ Finish(h)
    /\ unchecked' = unchecked \cup {h.case}
    /\ UNCHANGED <<assignments, dispute, resolution, mails, requests, crashes, overlapped, unsettled, doubled>>
=============================================================================
