---------------------------- MODULE SupportProofs ----------------------------
(***************************************************************************)
(* Type correctness and the safety theorems of SupportSystem.              *)
(***************************************************************************)
EXTENDS SupportSystem, FiniteSetTheorems, SequenceTheorems, TLAPS

-----------------------------------------------------------------------------
(***************************************************************************)
(* Rows.                                                                   *)
(***************************************************************************)
LEMMA NewCaseTyped == NewCase \in SupportCase
BY DEF NewCase, SupportCase, CaseStatus, OpenStatus

LEMMA Columns ==
    DOMAIN NewCase = {"status", "urgent", "responded", "task", "agent", "customer", "provider", "initiator"}
BY DEF NewCase

\* A request with what it keeps of the case that it has loaded, and of what
\* it makes of it.
Kept(loaded, new, r) == [f \in DOMAIN NewCase |-> IF loaded[f] = new[f] THEN NewCase[f] ELSE r[f]]

Work(label, c, loaded, new, a, d, m) ==
    [pc |-> label, id |-> FreeId, case |-> c, old |-> Kept(loaded, new, loaded), row |-> Kept(loaded, new, new),
     agent |-> a, rows |-> {}, decision |-> d, mail |-> m]

LEMMA Requests ==
    ASSUME NEW label, NEW c, NEW loaded, NEW new
    PROVE  /\ Request(label, c, loaded, new) = Work(label, c, loaded, new, Nobody, Nobody, Nobody)
           /\ \A m : [Request(label, c, loaded, new) EXCEPT !.mail = m]
                     = Work(label, c, loaded, new, Nobody, Nobody, m)
           /\ \A a : [Request(label, c, loaded, new) EXCEPT !.agent = a]
                     = Work(label, c, loaded, new, a, Nobody, Nobody)
           /\ \A d : [Request(label, c, loaded, new) EXCEPT !.decision = d]
                     = Work(label, c, loaded, new, Nobody, d, Nobody)
<1>1. Request(label, c, loaded, new) = Work(label, c, loaded, new, Nobody, Nobody, Nobody)
    BY DEF Request, Work, Kept
<1> DEFINE o == Kept(loaded, new, loaded)
           r == Kept(loaded, new, new)
<1>2. \A a, d, m : Work(label, c, loaded, new, a, d, m)
                  = [pc |-> label, id |-> FreeId, case |-> c, old |-> o, row |-> r,
                     agent |-> a, rows |-> {}, decision |-> d, mail |-> m]
    BY DEF Work
<1> HIDE DEF o, r
<1> QED
    BY <1>1, <1>2

LEMMA KeptColumns ==
    ASSUME NEW loaded \in SupportCase, NEW new \in SupportCase, NEW r \in SupportCase
    PROVE  /\ Kept(loaded, new, r) \in SupportCase
           /\ \A f \in DOMAIN NewCase :
                 Kept(loaded, new, r)[f] = IF loaded[f] = new[f] THEN NewCase[f] ELSE r[f]
<1>1. Kept(loaded, new, r) \in SupportCase
    BY NewCaseTyped, Columns, SMT DEF Kept, SupportCase
<1> QED
    BY <1>1 DEF Kept

\* A table is a sequence; with one more row it is a longer table.
LEMMA Table ==
    ASSUME NEW S, NEW n \in Nat, NEW s \in [1 .. n -> S]
    PROVE  s \in Seq(S) /\ Len(s) = n
BY SeqDef, LenProperties

LEMMA AppendRow ==
    ASSUME NEW S, NEW s \in Seq(S), NEW x \in S
    PROVE  /\ Append(s, x) \in [1 .. Len(s) + 1 -> S]
           /\ \A i \in 1 .. Len(s) : Append(s, x)[i] = s[i]
           /\ Append(s, x)[Len(s) + 1] = x
<1>1. Append(s, x) \in Seq(S) /\ Len(Append(s, x)) = Len(s) + 1
    BY AppendProperties
<1>2. Append(s, x) \in [1 .. Len(s) + 1 -> S]
    BY <1>1, LenProperties
<1> QED
    BY <1>2, AppendProperties

-----------------------------------------------------------------------------
(***************************************************************************)
(* Types.  Besides the type of its row a request has a case to work on,    *)
(* and what it can change of the case depends on what it is.               *)
(***************************************************************************)
Taking == {"assign", "unassign"}
Resolving == {"resolve", "decide"}
Same(h, f) == h.old[f] = h.row[f]

HandlerOK(h) ==
    /\ IF h.pc = "create"
       THEN /\ h.row.agent = Nobody /\ h.row.initiator \in User
            /\ {h.row.customer, h.row.provider} \subseteq {h.row.initiator, Nobody}
       ELSE h.case \in Cases /\ Same(h, "task") /\ Same(h, "initiator")
    /\ IF h.pc \in Taking THEN h.agent \in Agent ELSE Same(h, "agent")
    /\ h.pc \in {"create", "attach"} \/ (Same(h, "customer") /\ Same(h, "provider"))
    /\ h.pc \in Resolving => h.decision \in Decision /\ (Same(h, "status") \/ h.row.status = "RESOLVED")

RowsTyped ==
    /\ case \in Seq(SupportCase) /\ Len(case) <= MaxCases
    /\ assignments \in [Cases -> Seq(CaseAssignment)]
    /\ dispute \in [Cases -> Dispute] /\ resolution \in [Cases -> CaseResolution]
    /\ mails \in [Email -> Nat]
    /\ overlapped \subseteq Cases /\ unsettled \subseteq Cases /\ unchecked \subseteq Cases
    /\ doubled \subseteq Email \cup User

TypeInv ==
    /\ TypeOK
    /\ IsFiniteSet(running)
    /\ \A h \in running : HandlerOK(h)

LEMMA FreeIds ==
    ASSUME IsFiniteSet(running), Cardinality(running) < MaxRunning
    PROVE  FreeId \in 1 .. MaxRunning /\ \A h \in running : h.id # FreeId
<1> DEFINE Ids == 1 .. MaxRunning
<1>1. MaxRunning \in Nat
    BY ConstantsAssumption
<1>2. IsFiniteSet(Ids) /\ Cardinality(Ids) = MaxRunning
    BY <1>1, FS_Interval
<1> HIDE DEF Ids
<1>3. \E i \in Ids : \A h \in running : h.id # i
  <2> SUFFICES ASSUME \A i \in Ids : \E h \in running : h.id = i
               PROVE  FALSE
      OBVIOUS
  <2> DEFINE f == [i \in Ids |-> CHOOSE h \in running : h.id = i]
  <2>1. \A i \in Ids : f[i] \in running /\ f[i].id = i
      OBVIOUS
  <2>2. f \in [Ids -> running]
      BY <2>1
  <2> HIDE DEF f
  <2>3. \E i, j \in Ids : i # j /\ f[i] = f[j]
      BY <1>2, <2>2, FS_PigeonHole
  <2> QED
      BY <2>1, <2>3
<1> QED
    BY <1>3 DEF FreeId, Ids

\* Requests that begin, go on and end.
LEMMA RunTyped ==
    ASSUME TypeInv, NEW g \in HandlerRow, g.id = FreeId, Run(g)
    PROVE  /\ running' = running \cup {g} /\ IsFiniteSet(running')
           /\ running' \subseteq HandlerRow /\ requests' \in 0 .. MaxRequests
           /\ \A h, k \in running' : h.id = k.id => h = k
<1>1. running' = running \cup {g} /\ IsFiniteSet(running')
    BY FS_AddElement DEF Run, TypeInv
<1>2. \A h \in running : h.id # g.id
    BY FreeIds DEF Run, TypeInv
<1>3. requests' \in 0 .. MaxRequests
    BY ConstantsAssumption DEF Run, Count, TypeInv, TypeOK
<1> QED
    BY <1>1, <1>2, <1>3 DEF TypeInv, TypeOK

LEMMA BecomeTyped ==
    ASSUME TypeInv, NEW h \in running, NEW g \in HandlerRow, g.id = h.id, Become(h, g)
    PROVE  /\ running' = (running \ {h}) \cup {g} /\ IsFiniteSet(running')
           /\ running' \subseteq HandlerRow
           /\ \A e, k \in running' : e.id = k.id => e = k
<1>1. running' = (running \ {h}) \cup {g} /\ IsFiniteSet(running')
    BY FS_AddElement, FS_RemoveElement DEF Become, TypeInv
<1> QED
    BY <1>1 DEF TypeInv, TypeOK

LEMMA FinishTyped ==
    ASSUME TypeInv, NEW h \in running, Finish(h)
    PROVE  /\ running' = running \ {h} /\ IsFiniteSet(running')
           /\ running' \subseteq HandlerRow
           /\ \A e, k \in running' : e.id = k.id => e = k
BY FS_RemoveElement DEF Finish, TypeInv, TypeOK

\* A step is made of what it does to the rows and of the handlers that are new.
LEMMA TypeStep ==
    ASSUME TypeInv, RowsTyped', Cases \subseteq Cases',
           running' \subseteq HandlerRow, IsFiniteSet(running'),
           \A h, k \in running' : h.id = k.id => h = k,
           \A h \in running' \ running : HandlerOK(h)',
           requests' \in 0 .. MaxRequests, crashes' \in 0 .. MaxCrashes
    PROVE  TypeInv'
<1>1. \A h \in running' : HandlerOK(h)'
    BY DEF TypeInv, HandlerOK
<1> QED
    BY <1>1 DEF TypeInv, TypeOK, RowsTyped

\* A commit writes the columns that the request has changed.
LEMMA Commits ==
    ASSUME TypeInv, NEW h \in running, h.pc # "create", Commit(h)
    PROVE  /\ h.case \in Cases /\ case' \in Seq(SupportCase) /\ Len(case') = Len(case) /\ Cases' = Cases
           /\ \A d \in Cases \ {h.case} : case'[d] = case[d]
           /\ \A f \in DOMAIN NewCase :
                 case'[h.case][f] = IF Same(h, f) THEN case[h.case][f] ELSE h.row[f]
<1> DEFINE c == h.case
           new == [f \in DOMAIN NewCase |-> IF h.old[f] = h.row[f] THEN case[c][f] ELSE h.row[f]]
<1>1. c \in Cases /\ case \in Seq(SupportCase) /\ h.row \in SupportCase
    BY DEF TypeInv, TypeOK, HandlerOK, HandlerRow
<1>2. Len(case) \in Nat /\ case \in [Cases -> SupportCase]
    BY <1>1, LenProperties DEF Cases
<1>3. case[c] \in SupportCase
    BY <1>1, <1>2
<1>4. new \in SupportCase
    BY <1>1, <1>3, Columns, SMT DEF SupportCase
<1>5. case' = [case EXCEPT ![c] = new]
    BY <1>1, <1>2 DEF Commit
<1>6. \A f \in DOMAIN NewCase : new[f] = IF Same(h, f) THEN case[c][f] ELSE h.row[f]
    BY DEF Same
<1> HIDE DEF new
<1>7. case' \in Seq(SupportCase) /\ Len(case') = Len(case)
    BY <1>1, <1>4, <1>5, ExceptSeq DEF Cases
<1>8. case'[c] = new /\ \A d \in Cases \ {c} : case'[d] = case[d]
    BY <1>1, <1>2, <1>5
<1> QED
    BY <1>1, <1>6, <1>7, <1>8 DEF Cases

LEMMA SetsRow ==
    ASSUME TypeInv, NEW c \in Cases, NEW r \in SupportCase, case' = [case EXCEPT ![c] = r]
    PROVE  /\ case' \in Seq(SupportCase) /\ Len(case') = Len(case) /\ Cases' = Cases
           /\ \A d \in Cases \ {c} : case'[d] = case[d]
           /\ case'[c] = r
<1>1. case \in Seq(SupportCase)
    BY DEF TypeInv, TypeOK
<1>2. Len(case) \in Nat /\ case \in [Cases -> SupportCase]
    BY <1>1, LenProperties DEF Cases
<1>3. case' \in Seq(SupportCase) /\ Len(case') = Len(case)
    BY <1>1, ExceptSeq DEF Cases
<1> QED
    BY <1>2, <1>3 DEF Cases

LEMMA Statuses ==
    ASSUME TypeInv, NEW c \in Cases, NEW s \in CaseStatus, SetStatus(c, s)
    PROVE  /\ case' \in Seq(SupportCase) /\ Len(case') = Len(case) /\ Cases' = Cases
           /\ \A d \in Cases \ {c} : case'[d] = case[d]
           /\ case'[c] = [case[c] EXCEPT !.status = s]
<1> DEFINE r == [case[c] EXCEPT !.status = s]
<1>1. case[c] \in SupportCase /\ case \in [Cases -> SupportCase]
    BY LenProperties DEF TypeInv, TypeOK, Cases
<1>2. r \in SupportCase
    BY <1>1 DEF SupportCase
<1>3. case' = [case EXCEPT ![c] = r]
    BY <1>1 DEF SetStatus
<1> HIDE DEF r
<1>4. /\ case' \in Seq(SupportCase) /\ Len(case') = Len(case) /\ Cases' = Cases
      /\ \A d \in Cases \ {c} : case'[d] = case[d]
      /\ case'[c] = r
    BY <1>2, <1>3, SetsRow, Zenon
<1> QED
    BY <1>4 DEF r

LEMMA Priorities ==
    ASSUME TypeInv, NEW c \in Cases, EscalateDispute(c)
    PROVE  /\ case' \in Seq(SupportCase) /\ Len(case') = Len(case) /\ Cases' = Cases
           /\ \A d \in Cases \ {c} : case'[d] = case[d]
           /\ case'[c] = [case[c] EXCEPT !.urgent = TRUE]
<1> DEFINE r == [case[c] EXCEPT !.urgent = TRUE]
<1>1. case[c] \in SupportCase /\ case \in [Cases -> SupportCase]
    BY LenProperties DEF TypeInv, TypeOK, Cases
<1>2. r \in SupportCase
    BY <1>1 DEF SupportCase
<1>3. case' = [case EXCEPT ![c] = r]
    BY <1>1 DEF EscalateDispute
<1> HIDE DEF r
<1>4. /\ case' \in Seq(SupportCase) /\ Len(case') = Len(case) /\ Cases' = Cases
      /\ \A d \in Cases \ {c} : case'[d] = case[d]
      /\ case'[c] = r
    BY <1>2, <1>3, SetsRow, Zenon
<1> QED
    BY <1>4 DEF r

\* A new case comes last.
LEMMA Inserts ==
    ASSUME TypeInv, NEW row \in SupportCase, NEW disputed \in Dispute, Insert(row, disputed)
    PROVE  LET n == Len(case) + 1
           IN  /\ n \in Nat /\ n \notin Cases /\ Cases' = Cases \cup {n} /\ n <= MaxCases
               /\ case' \in Seq(SupportCase) /\ Len(case') = n
               /\ assignments' \in [Cases' -> Seq(CaseAssignment)]
               /\ dispute' \in [Cases' -> Dispute] /\ resolution' \in [Cases' -> CaseResolution]
               /\ case'[n] = row /\ assignments'[n] = <<>> /\ dispute'[n] = disputed /\ resolution'[n] = "NONE"
               /\ \A c \in Cases : /\ case'[c] = case[c] /\ assignments'[c] = assignments[c]
                                   /\ dispute'[c] = dispute[c] /\ resolution'[c] = resolution[c]
<1> DEFINE n == Len(case)
<1>1. n \in Nat /\ case \in [1 .. n -> SupportCase] /\ case \in Seq(SupportCase)
    BY LenProperties DEF TypeInv, TypeOK
<1>2. /\ assignments \in Seq(Seq(CaseAssignment)) /\ Len(assignments) = n
      /\ dispute \in Seq(Dispute) /\ Len(dispute) = n
      /\ resolution \in Seq(CaseResolution) /\ Len(resolution) = n
  <2>1. /\ assignments \in [1 .. n -> Seq(CaseAssignment)]
        /\ dispute \in [1 .. n -> Dispute] /\ resolution \in [1 .. n -> CaseResolution]
      BY DEF TypeInv, TypeOK, Cases
  <2> QED
      BY <1>1, <2>1, Table
<1>3. case' = Append(case, row) /\ assignments' = Append(assignments, <<>>) /\ dispute' = Append(dispute, disputed)
      /\ resolution' = Append(resolution, "NONE") /\ n < MaxCases
    BY DEF Insert
<1> DEFINE none == <<>>
<1>4. none \in Seq(CaseAssignment) /\ "NONE" \in CaseResolution /\ disputed \in Dispute
    BY EmptySeq DEF CaseResolution
<1>5. case' \in Seq(SupportCase) /\ Len(case') = n + 1
    BY <1>1, <1>3, AppendProperties
<1>6. Cases = 1 .. n /\ Cases' = 1 .. n + 1 /\ Cases' = Cases \cup {n + 1} /\ n + 1 \notin Cases
    BY <1>1, <1>5 DEF Cases
<1> HIDE DEF n, none
<1>7. Append(case, row)[n + 1] = row /\ \A c \in 1 .. n : Append(case, row)[c] = case[c]
    BY <1>1, AppendRow
<1>8. /\ Append(assignments, none) \in [1 .. Len(assignments) + 1 -> Seq(CaseAssignment)]
      /\ Append(assignments, none)[Len(assignments) + 1] = none
      /\ \A c \in 1 .. Len(assignments) : Append(assignments, none)[c] = assignments[c]
    BY <1>2, <1>4, AppendRow, SMT
<1>9. /\ Append(dispute, disputed) \in [1 .. Len(dispute) + 1 -> Dispute]
      /\ Append(dispute, disputed)[Len(dispute) + 1] = disputed
      /\ \A c \in 1 .. Len(dispute) : Append(dispute, disputed)[c] = dispute[c]
    BY <1>2, <1>4, AppendRow, SMT
<1>10. /\ Append(resolution, "NONE") \in [1 .. Len(resolution) + 1 -> CaseResolution]
       /\ Append(resolution, "NONE")[Len(resolution) + 1] = "NONE"
       /\ \A c \in 1 .. Len(resolution) : Append(resolution, "NONE")[c] = resolution[c]
    BY <1>2, <1>4, AppendRow, SMT
<1>11. n + 1 \in Nat /\ n + 1 <= MaxCases
    BY <1>1, <1>3, ConstantsAssumption
<1> QED
    BY <1>2, <1>3, <1>5, <1>6, <1>7, <1>8, <1>9, <1>10, <1>11 DEF n, none

\* A request that begins changes no case.
LEMMA Begins ==
    ASSUME TypeInv, NEW g \in HandlerRow, g.id = FreeId, HandlerOK(g), Run(g),
           UNCHANGED <<caseVars, mails, crashes>>,
           overlapped' \subseteq Cases, unsettled' \subseteq Cases, unchecked' \subseteq Cases,
           doubled' \subseteq Email \cup User
    PROVE  TypeInv'
<1>1. Cases' = Cases
    BY DEF Cases, caseVars
<1>2. RowsTyped'
    BY <1>1 DEF RowsTyped, TypeInv, TypeOK, caseVars
<1>3. HandlerOK(g)'
    BY <1>1 DEF HandlerOK
<1>4. crashes' \in 0 .. MaxCrashes
    BY DEF TypeInv, TypeOK
<1> QED
    BY <1>1, <1>2, <1>3, <1>4, RunTyped, TypeStep

HandlerLabel == {"create", "message", "unassign", "assign", "resolve", "decide", "attach"}

LEMMA Works ==
    ASSUME TypeInv, NEW label \in HandlerLabel, NEW c \in Nat, NEW loaded \in SupportCase, NEW new \in SupportCase,
           NEW a \in Agent \cup {Nobody}, NEW d \in Decision \cup {Nobody}, NEW m \in Email \cup {Nobody},
           NEW g, g = Work(label, c, loaded, new, a, d, m), Cardinality(running) < MaxRunning
    PROVE  /\ g \in HandlerRow /\ g.pc = label /\ g.id = FreeId /\ g.case = c /\ g.agent = a
           /\ g.rows = {} /\ g.decision = d /\ g.mail = m
           /\ \A f \in DOMAIN NewCase :
                 IF loaded[f] = new[f] THEN g.old[f] = NewCase[f] /\ g.row[f] = NewCase[f]
                                       ELSE g.old[f] = loaded[f] /\ g.row[f] = new[f]
<1>1. FreeId \in Nat
    BY FreeIds, ConstantsAssumption DEF TypeInv
<1> DEFINE o == Kept(loaded, new, loaded)
           r == Kept(loaded, new, new)
<1>2. /\ o \in SupportCase /\ r \in SupportCase
      /\ \A f \in DOMAIN NewCase :
            IF loaded[f] = new[f] THEN o[f] = NewCase[f] /\ r[f] = NewCase[f]
                                  ELSE o[f] = loaded[f] /\ r[f] = new[f]
    BY KeptColumns
<1>3. g = [pc |-> label, id |-> FreeId, case |-> c, old |-> o, row |-> r,
           agent |-> a, rows |-> {}, decision |-> d, mail |-> m]
    BY DEF Work
<1> HIDE DEF o, r
<1>4. g \in HandlerRow
    BY <1>1, <1>2, <1>3, SMT DEF HandlerRow, HandlerLabel
<1>5. /\ g.pc = label /\ g.id = FreeId /\ g.case = c /\ g.agent = a /\ g.old = o /\ g.row = r
      /\ g.rows = {} /\ g.decision = d /\ g.mail = m
    BY <1>3
<1> QED
    BY <1>2, <1>4, <1>5

-----------------------------------------------------------------------------
(***************************************************************************)
(* Requests that begin.                                                    *)
(***************************************************************************)
LEMMA CreateBegins ==
    ASSUME TypeInv, NEW u \in User, NEW about \in BOOLEAN, BeginCreateCase(u, about)
    PROVE  TypeInv'
<1> DEFINE new == [Opened(u, about) EXCEPT !.initiator = u]
           g == Request("create", 0, NewCase, new)
<1>1. u # Nobody /\ (u \in Customer => u \notin Provider)
    BY ConstantsAssumption DEF User
<1>2. /\ new \in SupportCase /\ new.initiator = u /\ new.agent = Nobody
      /\ {new.customer, new.provider} \subseteq {u, Nobody}
    BY <1>1 DEF Opened, NewCase, SupportCase, CaseStatus, OpenStatus, User
<1> HIDE DEF new
<1>3. g = Work("create", 0, NewCase, new, Nobody, Nobody, Nobody)
    BY Requests
<1>4. Run(g) /\ UNCHANGED <<caseVars, mails, crashes, overlapped, unsettled, unchecked>>
    BY DEF BeginCreateCase, new
<1> HIDE DEF g
<1>5. /\ g \in HandlerRow /\ g.id = FreeId /\ g.pc = "create"
      /\ \A f \in DOMAIN NewCase :
            IF NewCase[f] = new[f] THEN g.old[f] = NewCase[f] /\ g.row[f] = NewCase[f]
                                   ELSE g.old[f] = NewCase[f] /\ g.row[f] = new[f]
  <2>1. "create" \in HandlerLabel /\ 0 \in Nat /\ Cardinality(running) < MaxRunning
      BY <1>4 DEF Run, HandlerLabel
  <2> QED
      BY <1>2, <1>3, <2>1, Works, NewCaseTyped, SMT
<1>6. g.row.agent = Nobody /\ g.old.agent = Nobody /\ g.row.initiator = u
    BY <1>1, <1>2, <1>5, Columns DEF NewCase
<1>7. {g.row.customer, g.row.provider} \subseteq {u, Nobody}
    BY <1>2, <1>5, Columns DEF NewCase
<1>8. HandlerOK(g)
    BY <1>5, <1>6, <1>7 DEF HandlerOK, Taking, Resolving, Same
<1>9. doubled' \subseteq Email \cup User
    BY DEF BeginCreateCase, TypeInv, TypeOK
<1> QED
    BY <1>4, <1>5, <1>8, <1>9, Begins DEF TypeInv, TypeOK

\* What a request does to the case it has loaded, by its label.
Changes(label, old, new) ==
    /\ old.task = new.task /\ old.initiator = new.initiator
    /\ label \notin Taking => old.agent = new.agent
    /\ label # "attach" => old.customer = new.customer /\ old.provider = new.provider
    /\ label \in Resolving => new.status = "RESOLVED"

LEMMA Changed ==
    ASSUME TypeInv, NEW label \in HandlerLabel \ {"create"}, NEW c \in Cases,
           NEW new \in SupportCase, Changes(label, case[c], new),
           NEW a \in Agent \cup {Nobody}, NEW d \in Decision \cup {Nobody}, NEW m \in Email \cup {Nobody},
           label \in Taking => a \in Agent, label \in Resolving => d \in Decision,
           NEW g, g = Work(label, c, case[c], new, a, d, m), Cardinality(running) < MaxRunning
    PROVE  g \in HandlerRow /\ HandlerOK(g) /\ g.id = FreeId
<1>0. label \in HandlerLabel
    OBVIOUS
<1>1. c \in Nat /\ case[c] \in SupportCase
    BY LenProperties DEF TypeInv, TypeOK, Cases
<1>2. /\ g \in HandlerRow /\ g.pc = label /\ g.id = FreeId /\ g.case = c /\ g.agent = a /\ g.decision = d
      /\ \A f \in DOMAIN NewCase :
            IF case[c][f] = new[f] THEN g.old[f] = NewCase[f] /\ g.row[f] = NewCase[f]
                                   ELSE g.old[f] = case[c][f] /\ g.row[f] = new[f]
  <2> DEFINE loaded == case[c]
  <2>1. loaded \in SupportCase /\ g = Work(label, c, loaded, new, a, d, m)
      BY <1>1
  <2> HIDE DEF loaded
  <2>2. /\ g \in HandlerRow /\ g.pc = label /\ g.id = FreeId /\ g.case = c /\ g.agent = a /\ g.decision = d
        /\ \A f \in DOMAIN NewCase :
              IF loaded[f] = new[f] THEN g.old[f] = NewCase[f] /\ g.row[f] = NewCase[f]
                                    ELSE g.old[f] = loaded[f] /\ g.row[f] = new[f]
      BY <1>0, <1>1, <2>1, Works, SMT
  <2> QED
      BY <2>2 DEF loaded
<1>3. \A f \in DOMAIN NewCase : case[c][f] = new[f] => Same(g, f)
    BY <1>2 DEF Same
<1>4. /\ Same(g, "task") /\ Same(g, "initiator")
      /\ label \notin Taking => Same(g, "agent")
      /\ label # "attach" => Same(g, "customer") /\ Same(g, "provider")
    BY <1>3, Columns DEF Changes
<1>5. label \in Resolving => Same(g, "status") \/ g.row.status = "RESOLVED"
    BY <1>2, <1>3, Columns DEF Changes
<1>6. HandlerOK(g)
    BY <1>2, <1>4, <1>5 DEF HandlerOK
<1> QED
    BY <1>2, <1>6

\* A message reopens at most, or notes a response.
LEMMA MessageBegins ==
    ASSUME TypeInv, NEW c \in Cases, NEW new \in SupportCase, Changes("message", case[c], new),
           NEW m \in Email \cup {Nobody}, SendMessage(c, new, m), doubled' \subseteq Email \cup User
    PROVE  TypeInv'
<1> DEFINE g == [Request("message", c, case[c], new) EXCEPT !.mail = m]
<1>1. Run(g) /\ UNCHANGED <<caseVars, mails, crashes, overlapped, unsettled, unchecked>>
    BY DEF SendMessage
<1>2. g = Work("message", c, case[c], new, Nobody, Nobody, m)
    BY Requests
<1> HIDE DEF g
<1>3. g \in HandlerRow /\ HandlerOK(g) /\ g.id = FreeId
    BY <1>1, <1>2, Changed DEF Run, HandlerLabel, Taking, Resolving
<1> QED
    BY <1>1, <1>3, Begins DEF TypeInv, TypeOK

LEMMA Messages ==
    ASSUME TypeInv, NEW c \in Cases
    PROVE  /\ AfterUser(case[c]) \in SupportCase /\ Changes("message", case[c], AfterUser(case[c]))
           /\ \A public \in BOOLEAN : /\ AfterAgent(case[c], public) \in SupportCase
                                      /\ Changes("message", case[c], AfterAgent(case[c], public))
<1> DEFINE r == case[c]
<1>1. r \in SupportCase
    BY LenProperties DEF TypeInv, TypeOK, Cases
<1> HIDE DEF r
<1>2. AfterUser(r) \in SupportCase /\ Changes("message", r, AfterUser(r))
    BY <1>1 DEF AfterUser, Changes, SupportCase, CaseStatus, OpenStatus, Resolving
<1>3. ASSUME NEW public \in BOOLEAN
      PROVE  AfterAgent(r, public) \in SupportCase /\ Changes("message", r, AfterAgent(r, public))
  <2>1. r.responded \/ public \in BOOLEAN
      BY <1>1 DEF SupportCase
  <2> DEFINE b == r.responded \/ public
             s == IF r.status = "WAITING_FOR_INTERNAL" THEN "IN_PROGRESS" ELSE r.status
  <2>2. AfterAgent(r, public) = [r EXCEPT !.responded = b, !.status = s]
      BY DEF AfterAgent
  <2>3. b \in BOOLEAN /\ s \in CaseStatus
      BY <1>1, <2>1 DEF SupportCase, CaseStatus, OpenStatus
  <2> HIDE DEF b, s
  <2> QED
      BY <1>1, <2>2, <2>3 DEF Changes, SupportCase, Resolving
<1> QED
    BY <1>2, <1>3 DEF r

LEMMA AssignBegins ==
    ASSUME TypeInv, NEW a \in Agent, NEW c \in Cases, NEW o \in BOOLEAN, BeginAssign(a, c, o)
    PROVE  TypeInv'
<1> DEFINE new == [case[c] EXCEPT !.agent = a, !.status = "IN_PROGRESS"]
           label == IF case[c].agent = Nobody THEN "assign" ELSE "unassign"
           g == [Request(label, c, case[c], new) EXCEPT !.agent = a]
<1>1. case[c] \in SupportCase
    BY LenProperties DEF TypeInv, TypeOK, Cases
<1>2. new \in SupportCase /\ Changes(label, case[c], new)
    BY <1>1 DEF SupportCase, CaseStatus, OpenStatus, Changes, Taking, Resolving
<1>3. Run(g) /\ UNCHANGED <<caseVars, mails, crashes, unsettled, doubled, unchecked>> /\ overlapped' \subseteq Cases
    BY DEF BeginAssign, TypeInv, TypeOK
<1>4. g = Work(label, c, case[c], new, a, Nobody, Nobody)
    BY Requests
<1> HIDE DEF g, new
<1>5. g \in HandlerRow /\ HandlerOK(g) /\ g.id = FreeId
    BY <1>2, <1>3, <1>4, Changed DEF Run, HandlerLabel, Taking, Resolving
<1> QED
    BY <1>3, <1>5, Begins DEF TypeInv, TypeOK

LEMMA ResolveBegins ==
    ASSUME TypeInv, NEW c \in Cases, NEW d \in Decision, BeginResolve(c, d)
    PROVE  TypeInv'
<1> DEFINE new == [case[c] EXCEPT !.status = "RESOLVED"]
           g == [Request("resolve", c, case[c], new) EXCEPT !.decision = d]
<1>1. case[c] \in SupportCase
    BY LenProperties DEF TypeInv, TypeOK, Cases
<1>2. new \in SupportCase /\ Changes("resolve", case[c], new)
    BY <1>1 DEF SupportCase, CaseStatus, ClosedStatus, Changes
<1>3. Run(g) /\ UNCHANGED <<caseVars, mails, crashes, overlapped, doubled, unchecked>> /\ unsettled' \subseteq Cases
    BY DEF BeginResolve, TypeInv, TypeOK
<1>4. g = Work("resolve", c, case[c], new, Nobody, d, Nobody)
    BY Requests
<1> HIDE DEF g, new
<1>5. g \in HandlerRow /\ HandlerOK(g) /\ g.id = FreeId
    BY <1>2, <1>3, <1>4, Changed DEF Run, HandlerLabel, Taking
<1> QED
    BY <1>3, <1>5, Begins DEF TypeInv, TypeOK

LEMMA AttachBegins ==
    ASSUME TypeInv, NEW a \in Agent, NEW c \in Cases, NEW u \in User, BeginAttachUser(a, c, u)
    PROVE  TypeInv'
<1> DEFINE new == IF u \in Provider THEN [case[c] EXCEPT !.provider = u] ELSE [case[c] EXCEPT !.customer = u]
           g == Request("attach", c, case[c], new)
<1>1. case[c] \in SupportCase
    BY LenProperties DEF TypeInv, TypeOK, Cases
<1>2. new \in SupportCase /\ Changes("attach", case[c], new)
    BY <1>1 DEF SupportCase, Changes, User, Resolving
<1>3. Run(g) /\ UNCHANGED <<caseVars, mails, crashes, historyVars>>
    BY DEF BeginAttachUser
<1>4. g = Work("attach", c, case[c], new, Nobody, Nobody, Nobody)
    BY Requests
<1> HIDE DEF g, new
<1>5. g \in HandlerRow /\ HandlerOK(g) /\ g.id = FreeId
    BY <1>2, <1>3, <1>4, Changed DEF Run, HandlerLabel, Taking, Resolving
<1> QED
    BY <1>3, <1>5, Begins DEF TypeInv, TypeOK, historyVars

LEMMA MessagesBegin ==
    ASSUME TypeInv, NEW c \in Cases
    PROVE  /\ \A u \in User : BeginUserMessage(u, c) => TypeInv'
           /\ \A public \in BOOLEAN : BeginAgentMessage(c, public) => TypeInv'
           /\ \A e \in Email : BeginEmail(e, c) => TypeInv'
<1>1. doubled \subseteq Email \cup User
    BY DEF TypeInv, TypeOK
<1>2. ASSUME NEW u \in User, BeginUserMessage(u, c)
      PROVE  TypeInv'
    BY <1>1, <1>2, Messages, MessageBegins DEF BeginUserMessage
<1>3. ASSUME NEW public \in BOOLEAN, BeginAgentMessage(c, public)
      PROVE  TypeInv'
    BY <1>1, <1>3, Messages, MessageBegins DEF BeginAgentMessage
<1>4. ASSUME NEW e \in Email, BeginEmail(e, c)
      PROVE  TypeInv'
  <2>1. doubled' \subseteq Email \cup User /\ SendMessage(c, AfterUser(case[c]), e)
      BY <1>1, <1>4 DEF BeginEmail
  <2> QED
      BY <2>1, Messages, MessageBegins
<1> QED
    BY <1>2, <1>3, <1>4

-----------------------------------------------------------------------------
(***************************************************************************)
(* Requests of one step.                                                   *)
(***************************************************************************)
\* A step that changes columns of cases only.
LEMMA CasesChange ==
    ASSUME TypeInv, case' \in Seq(SupportCase), Len(case') = Len(case), Cases' = Cases,
           assignments' \in [Cases -> Seq(CaseAssignment)],
           dispute' \in [Cases -> Dispute], resolution' \in [Cases -> CaseResolution],
           mails' \in [Email -> Nat], running' \subseteq HandlerRow, IsFiniteSet(running'),
           \A h, k \in running' : h.id = k.id => h = k,
           \A h \in running' \ running : HandlerOK(h),
           requests' \in 0 .. MaxRequests, crashes' \in 0 .. MaxCrashes,
           overlapped' \subseteq Cases, unsettled' \subseteq Cases, unchecked' \subseteq Cases,
           doubled' \subseteq Email \cup User
    PROVE  TypeInv'
<1>1. RowsTyped'
    BY DEF RowsTyped, TypeInv, TypeOK
<1>2. \A h \in running' \ running : HandlerOK(h)'
    BY DEF HandlerOK
<1> QED
    BY <1>1, <1>2, TypeStep

LEMMA SetStatusTyped ==
    ASSUME TypeInv, NEW c \in Cases, NEW s \in CaseStatus, SetStatus(c, s)
    PROVE  TypeInv'
<1>4. case' \in Seq(SupportCase) /\ Len(case') = Len(case) /\ Cases' = Cases
    BY Statuses
<1>5. requests' \in 0 .. MaxRequests
    BY ConstantsAssumption DEF SetStatus, Count, TypeInv, TypeOK
<1>6. unchecked' \subseteq Cases
    BY DEF SetStatus, Unchecked, TypeInv, TypeOK
<1> QED
    BY <1>4, <1>5, <1>6, CasesChange DEF SetStatus, TypeInv, TypeOK

LEMMA EscalateTyped ==
    ASSUME TypeInv, NEW c \in Cases, EscalateDispute(c)
    PROVE  TypeInv'
<1>4. case' \in Seq(SupportCase) /\ Len(case') = Len(case) /\ Cases' = Cases
    BY Priorities
<1>5. requests' \in 0 .. MaxRequests
    BY ConstantsAssumption DEF EscalateDispute, Count, TypeInv, TypeOK
<1> QED
    BY <1>4, <1>5, CasesChange DEF EscalateDispute, historyVars, TypeInv, TypeOK

LEMMA DisputeTyped ==
    ASSUME TypeInv, NEW u \in User, OpenDispute(u)
    PROVE  TypeInv'
<1> DEFINE row == Opened(u, TRUE)
<1>1. row \in SupportCase
    BY DEF Opened, NewCase, SupportCase, CaseStatus, OpenStatus, User
<1>2. Insert(row, "OPEN") /\ "OPEN" \in Dispute
    BY DEF OpenDispute, Dispute
<1> HIDE DEF row
<1>3. /\ Cases' = Cases \cup {Len(case) + 1} /\ Len(case) + 1 <= MaxCases
      /\ case' \in Seq(SupportCase) /\ Len(case') = Len(case) + 1
      /\ assignments' \in [Cases' -> Seq(CaseAssignment)]
      /\ dispute' \in [Cases' -> Dispute] /\ resolution' \in [Cases' -> CaseResolution]
    BY <1>1, <1>2, Inserts
<1>4. requests' \in 0 .. MaxRequests
    BY ConstantsAssumption DEF OpenDispute, Count, TypeInv, TypeOK
<1>5. RowsTyped'
    BY <1>3 DEF OpenDispute, RowsTyped, TypeInv, TypeOK
<1> QED
    BY <1>3, <1>4, <1>5, TypeStep DEF OpenDispute, TypeInv, TypeOK

-----------------------------------------------------------------------------
(***************************************************************************)
(* Requests that go on.                                                    *)
(***************************************************************************)
LEMMA CreateTyped ==
    ASSUME TypeInv, NEW h \in running, CreateCase(h)
    PROVE  TypeInv'
<1>1. h.row \in SupportCase /\ Insert(h.row, "NONE") /\ "NONE" \in Dispute
    BY DEF CreateCase, TypeInv, TypeOK, HandlerRow, Dispute
<1>2. /\ Cases' = Cases \cup {Len(case) + 1} /\ Len(case) + 1 <= MaxCases
      /\ case' \in Seq(SupportCase) /\ Len(case') = Len(case) + 1
      /\ assignments' \in [Cases' -> Seq(CaseAssignment)]
      /\ dispute' \in [Cases' -> Dispute] /\ resolution' \in [Cases' -> CaseResolution]
    BY <1>1, Inserts
<1>3. /\ running' = running \ {h} /\ IsFiniteSet(running') /\ running' \subseteq HandlerRow
      /\ \A e, k \in running' : e.id = k.id => e = k
    BY FinishTyped DEF CreateCase
<1>4. RowsTyped'
    BY <1>2 DEF CreateCase, historyVars, RowsTyped, TypeInv, TypeOK
<1>5. requests' \in 0 .. MaxRequests /\ crashes' \in 0 .. MaxCrashes
    BY DEF CreateCase, TypeInv, TypeOK
<1> QED
    BY <1>2, <1>3, <1>4, <1>5, TypeStep

LEMMA InsertMessageTyped ==
    ASSUME TypeInv, NEW h \in running, InsertMessage(h)
    PROVE  TypeInv'
<1>1. case' \in Seq(SupportCase) /\ Len(case') = Len(case) /\ Cases' = Cases /\ h.case \in Cases
    BY Commits DEF InsertMessage
<1>2. /\ running' = running \ {h} /\ IsFiniteSet(running') /\ running' \subseteq HandlerRow
      /\ \A e, k \in running' : e.id = k.id => e = k
    BY FinishTyped DEF InsertMessage
<1>3. mails' \in [Email -> Nat]
    BY DEF InsertMessage, TypeInv, TypeOK, HandlerRow
<1>4. unchecked' \subseteq Cases
    BY <1>1 DEF InsertMessage, Unchecked, TypeInv, TypeOK
<1> QED
    BY <1>1, <1>2, <1>3, <1>4, CasesChange DEF InsertMessage, TypeInv, TypeOK

LEMMA UnassignTyped ==
    ASSUME TypeInv, NEW h \in running, Unassign(h)
    PROVE  TypeInv'
<1> DEFINE g == [h EXCEPT !.pc = "assign", !.rows = OpenRows(h.case)]
<1>1. h.case \in Cases /\ h \in HandlerRow /\ HandlerOK(h) /\ h.pc = "unassign"
    BY DEF Unassign, TypeInv, TypeOK, HandlerOK
<1>2. assignments[h.case] \in Seq(CaseAssignment)
    BY <1>1 DEF TypeInv, TypeOK
<1>3. OpenRows(h.case) \subseteq Nat
    BY <1>2, LenProperties DEF OpenRows
<1>4. g \in HandlerRow /\ g.id = h.id
    BY <1>1, <1>3 DEF HandlerRow
<1>5. HandlerOK(g)
    BY <1>1 DEF HandlerOK, HandlerRow, Same, Taking, Resolving
<1> HIDE DEF g
<1>6. /\ running' = (running \ {h}) \cup {g} /\ IsFiniteSet(running') /\ running' \subseteq HandlerRow
      /\ \A e, k \in running' : e.id = k.id => e = k
    BY <1>4, BecomeTyped DEF Unassign, g
<1>7. Cases' = Cases /\ Len(case') = Len(case)
    BY DEF Unassign, caseVars, Cases
<1> QED
    BY <1>5, <1>6, <1>7, CasesChange DEF Unassign, caseVars, historyVars, TypeInv, TypeOK

\* The rows of an assignment: those that were found open are closed, and one
\* more is open.
LEMMA AssignRows ==
    ASSUME TypeInv, NEW h \in running, Assign(h)
    PROVE  LET c == h.case
               s == assignments[c]
           IN  /\ c \in Cases /\ s \in Seq(CaseAssignment) /\ Len(s) \in Nat
               /\ assignments' \in [Cases -> Seq(CaseAssignment)]
               /\ \A d \in Cases \ {c} : assignments'[d] = assignments[d]
               /\ DOMAIN assignments'[c] = 1 .. Len(s) + 1
               /\ \A i \in 1 .. Len(s) :
                     /\ assignments'[c][i].agent = s[i].agent
                     /\ assignments'[c][i].open = (s[i].open /\ i \notin h.rows)
               /\ assignments'[c][Len(s) + 1] = [agent |-> h.agent, open |-> TRUE]
<1> DEFINE c == h.case
           s == assignments[c]
           closed == [i \in DOMAIN s |-> [s[i] EXCEPT !.open = @ /\ i \notin h.rows]]
           row == [agent |-> h.agent, open |-> TRUE]
<1>1. c \in Cases /\ h.agent \in Agent
    BY DEF Assign, TypeInv, HandlerOK, Taking
<1>2. s \in Seq(CaseAssignment)
    BY <1>1 DEF TypeInv, TypeOK
<1>3. Len(s) \in Nat /\ DOMAIN s = 1 .. Len(s) /\ \A i \in 1 .. Len(s) : s[i] \in CaseAssignment
    BY <1>2, LenProperties
<1>4. ASSUME NEW i \in 1 .. Len(s)
      PROVE  /\ closed[i] \in CaseAssignment /\ closed[i].agent = s[i].agent
             /\ closed[i].open = (s[i].open /\ i \notin h.rows)
  <2>1. closed[i] = [s[i] EXCEPT !.open = s[i].open /\ i \notin h.rows] /\ s[i] \in CaseAssignment
      BY <1>3
  <2> DEFINE r == s[i]
             b == r.open /\ i \notin h.rows
  <2>2. b \in BOOLEAN /\ r \in CaseAssignment
      BY <2>1
  <2>3. closed[i] = [r EXCEPT !.open = b]
      BY <2>1
  <2> HIDE DEF b, r, closed
  <2>4. closed[i] \in CaseAssignment /\ closed[i].agent = r.agent /\ closed[i].open = b
      BY <2>2, <2>3 DEF CaseAssignment
  <2> QED
      BY <2>4 DEF b, r
<1>5. closed \in [1 .. Len(s) -> CaseAssignment]
    BY <1>3, <1>4
<1>6. row \in CaseAssignment
    BY <1>1 DEF CaseAssignment
<1>7. assignments' = [assignments EXCEPT ![c] = Append(closed, row)]
    BY DEF Assign
<1> DEFINE n == Len(s)
<1>8. n \in Nat /\ closed \in [1 .. n -> CaseAssignment]
    BY <1>3, <1>5
<1> HIDE DEF closed, row, n
<1>9. closed \in Seq(CaseAssignment) /\ Len(closed) = n
    BY <1>8, Table
<1>10. /\ Append(closed, row) \in [1 .. Len(closed) + 1 -> CaseAssignment]
       /\ \A i \in 1 .. Len(closed) : Append(closed, row)[i] = closed[i]
       /\ Append(closed, row)[Len(closed) + 1] = row
    BY <1>6, <1>9, AppendRow, SMT
<1>11. Append(closed, row) \in Seq(CaseAssignment)
    BY <1>6, <1>9, AppendProperties
<1>12. assignments \in [Cases -> Seq(CaseAssignment)]
    BY DEF TypeInv, TypeOK
<1> HIDE DEF c
<1>13. /\ assignments' \in [Cases -> Seq(CaseAssignment)] /\ assignments'[c] = Append(closed, row)
       /\ \A d \in Cases \ {c} : assignments'[d] = assignments[d]
    BY <1>1, <1>7, <1>11, <1>12
<1>14. DOMAIN assignments'[c] = 1 .. n + 1
    BY <1>9, <1>10, <1>13
<1>15. \A i \in 1 .. n : assignments'[c][i] = closed[i]
    BY <1>9, <1>10, <1>13
<1>16. assignments'[c][n + 1] = row
    BY <1>9, <1>10, <1>13
<1> QED
    BY <1>1, <1>2, <1>3, <1>4, <1>13, <1>14, <1>15, <1>16 DEF n, row, c

LEMMA AssignTyped ==
    ASSUME TypeInv, NEW h \in running, Assign(h)
    PROVE  TypeInv'
<1>1. case' \in Seq(SupportCase) /\ Len(case') = Len(case) /\ Cases' = Cases /\ h.case \in Cases
    BY Commits DEF Assign
<1>2. /\ running' = running \ {h} /\ IsFiniteSet(running') /\ running' \subseteq HandlerRow
      /\ \A e, k \in running' : e.id = k.id => e = k
    BY FinishTyped DEF Assign
<1>3. assignments' \in [Cases -> Seq(CaseAssignment)]
    BY AssignRows
<1>4. unchecked' \subseteq Cases
    BY <1>1 DEF Assign, Unchecked, TypeInv, TypeOK
<1> QED
    BY <1>1, <1>2, <1>3, <1>4, CasesChange DEF Assign, TypeInv, TypeOK

LEMMA ResolveTyped ==
    ASSUME TypeInv, NEW h \in running, ResolveCase(h)
    PROVE  TypeInv'
<1>1. case' \in Seq(SupportCase) /\ Len(case') = Len(case) /\ Cases' = Cases /\ h.case \in Cases
    BY Commits DEF ResolveCase
<1>2. h \in HandlerRow /\ HandlerOK(h) /\ h.pc = "resolve" /\ h.decision \in Decision
    BY DEF ResolveCase, TypeInv, TypeOK, HandlerOK, Resolving
<1>3. resolution' \in [Cases -> CaseResolution]
    BY <1>1, <1>2 DEF ResolveCase, TypeInv, TypeOK, CaseResolution
<1> DEFINE g == [h EXCEPT !.pc = "decide"]
<1>4. g \in HandlerRow /\ g.id = h.id
    BY <1>2 DEF HandlerRow
<1>5. HandlerOK(g)
    BY <1>2 DEF HandlerOK, HandlerRow, Same, Taking, Resolving
<1>6. Finish(h) \/ Become(h, g)
    BY DEF ResolveCase
<1> HIDE DEF g
<1>7. /\ IsFiniteSet(running') /\ running' \subseteq HandlerRow
      /\ \A e, k \in running' : e.id = k.id => e = k
      /\ running' \ running \subseteq {g}
    BY <1>4, <1>6, FinishTyped, BecomeTyped
<1> QED
    BY <1>1, <1>3, <1>5, <1>7, CasesChange DEF ResolveCase, historyVars, TypeInv, TypeOK

LEMMA DecideTyped ==
    ASSUME TypeInv, NEW h \in running, DecideDispute(h)
    PROVE  TypeInv'
<1>1. h.case \in Cases /\ h.decision \in Decision
    BY DEF DecideDispute, TypeInv, HandlerOK, Resolving
<1>2. /\ running' = running \ {h} /\ IsFiniteSet(running') /\ running' \subseteq HandlerRow
      /\ \A e, k \in running' : e.id = k.id => e = k
    BY FinishTyped DEF DecideDispute
<1>3. dispute' \in [Cases -> Dispute]
    BY <1>1 DEF DecideDispute, TypeInv, TypeOK, Dispute
<1>4. Cases' = Cases /\ Len(case') = Len(case)
    BY DEF DecideDispute, Cases
<1> QED
    BY <1>2, <1>3, <1>4, CasesChange DEF DecideDispute, historyVars, TypeInv, TypeOK

LEMMA AttachTyped ==
    ASSUME TypeInv, NEW h \in running, AttachUser(h)
    PROVE  TypeInv'
<1>1. case' \in Seq(SupportCase) /\ Len(case') = Len(case) /\ Cases' = Cases /\ h.case \in Cases
    BY Commits DEF AttachUser
<1>2. /\ running' = running \ {h} /\ IsFiniteSet(running') /\ running' \subseteq HandlerRow
      /\ \A e, k \in running' : e.id = k.id => e = k
    BY FinishTyped DEF AttachUser
<1>3. unchecked' \subseteq Cases
    BY <1>1 DEF AttachUser, TypeInv, TypeOK
<1> QED
    BY <1>1, <1>2, <1>3, CasesChange DEF AttachUser, TypeInv, TypeOK

LEMMA CrashTyped ==
    ASSUME TypeInv, Crash
    PROVE  TypeInv'
<1> PICK h \in running : /\ Finish(h)
                         /\ unsettled' = IF h.pc \in {"resolve", "decide"} THEN unsettled \cup {h.case} ELSE unsettled
    BY DEF Crash
<1>1. /\ running' = running \ {h} /\ IsFiniteSet(running') /\ running' \subseteq HandlerRow
      /\ \A e, k \in running' : e.id = k.id => e = k
    BY FinishTyped
<1>2. unsettled' \subseteq Cases
    BY DEF TypeInv, TypeOK, HandlerOK
<1>3. Cases' = Cases /\ Len(case') = Len(case)
    BY DEF Crash, caseVars, Cases
<1>4. crashes' \in 0 .. MaxCrashes
    BY ConstantsAssumption DEF Crash, TypeInv, TypeOK
<1> QED
    BY <1>1, <1>2, <1>3, <1>4, CasesChange DEF Crash, caseVars, TypeInv, TypeOK

LEMMA TypeInit == Init => TypeInv
<1> SUFFICES ASSUME Init
             PROVE  TypeInv
    OBVIOUS
<1>1. case \in Seq(SupportCase) /\ Len(case) = 0 /\ Cases = {}
  <2>1. case = <<>> /\ Len(<<>>) = 0 /\ <<>> \in Seq(SupportCase)
      BY EmptySeq DEF Init
  <2> QED
      BY <2>1 DEF Cases
<1>2. assignments \in [Cases -> Seq(CaseAssignment)] /\ dispute \in [Cases -> Dispute]
      /\ resolution \in [Cases -> CaseResolution]
    BY <1>1 DEF Init
<1> QED
    BY <1>1, <1>2, FS_EmptySet, ConstantsAssumption DEF Init, TypeInv, TypeOK

LEMMA TypeNext == TypeInv /\ [Next]_vars => TypeInv'
<1> SUFFICES ASSUME TypeInv, [Next]_vars
             PROVE  TypeInv'
    OBVIOUS
<1>1. ASSUME NEW h \in running, Step(h)
      PROVE  TypeInv'
    BY <1>1, CreateTyped, InsertMessageTyped, UnassignTyped, AssignTyped, ResolveTyped, DecideTyped, AttachTyped
       DEF Step
<1>2. ASSUME NEW u \in User, UserRequest(u)
      PROVE  TypeInv'
    BY <1>2, CreateBegins, DisputeTyped, MessagesBegin, SetStatusTyped
       DEF UserRequest, CloseCase, ReopenCase, CaseStatus, OpenStatus, ClosedStatus
<1>3. ASSUME NEW c \in Cases, AgentRequest(c)
      PROVE  TypeInv'
  <2>1. ASSUME NEW s \in GivenStatus, SetStatus(c, s)
        PROVE  TypeInv'
      BY <2>1, SetStatusTyped, ConstantsAssumption
  <2>2. ASSUME NEW a \in Agent, NEW o \in BOOLEAN, BeginAssign(a, c, o)
        PROVE  TypeInv'
      BY <2>2, AssignBegins
  <2>3. \A a \in Agent : (a \in Super) \in BOOLEAN
      OBVIOUS
  <2> QED
      BY <1>3, <2>1, <2>2, <2>3, MessagesBegin, EscalateTyped, ResolveBegins, AttachBegins
         DEF AgentRequest, AgentMessageWithStatus, UpdateCase, ClaimCase, AssignCase
<1>4. ASSUME NEW c \in Cases, NEW e \in Email, BeginEmail(e, c)
      PROVE  TypeInv'
    BY <1>4, MessagesBegin
<1>5. CASE Crash
    BY <1>5, CrashTyped
<1>6. CASE UNCHANGED vars
  <2>1. Cases' = Cases
      BY <1>6 DEF vars, caseVars, Cases
  <2> QED
      BY <1>6, <2>1 DEF vars, caseVars, historyVars, TypeInv, TypeOK, HandlerOK
<1> QED
    BY <1>1, <1>2, <1>3, <1>4, <1>5, <1>6 DEF Next

\* Everything support writes has its type, and no more requests run than may.
THEOREM SupportTypeCorrect == Spec => []TypeOK
<1>1. TypeInv => TypeOK
    BY DEF TypeInv
<1> QED
    BY <1>1, TypeInit, TypeNext, PTL DEF Spec

-----------------------------------------------------------------------------
(***************************************************************************)
(* The agent of a case.                                                    *)
(***************************************************************************)
\* Whoever the case shows holds the row that is open, and there is no other.
OneHolder(c) ==
    IF case[c].agent = Nobody THEN OpenRows(c) = {}
    ELSE \E i \in OpenRows(c) : OpenRows(c) = {i} /\ assignments[c][i].agent = case[c].agent

\* The agent that a request is going to leave the case with.
Leaves(h, c) == IF Same(h, "agent") THEN case[c].agent = h.agent ELSE h.row.agent = h.agent

AgentInv ==
    \A c \in Cases \ overlapped :
        /\ \A g, h \in running : {g.pc, h.pc} \subseteq Taking /\ g.case = c /\ h.case = c => g = h
        /\ \A h \in running : h.pc \in Taking /\ h.case = c => Leaves(h, c)
        /\ \A h \in running : h.pc = "assign" /\ h.case = c => OpenRows(c) \subseteq h.rows
        /\ OneHolder(c)

-----------------------------------------------------------------------------
(***************************************************************************)
(* What the steps do, as far as the invariants below can tell.             *)
(***************************************************************************)
\* A request begins.
Starts(g, label, c, m) ==
    /\ running' = running \cup {g} /\ g.pc = label /\ g.case = c /\ g.mail = m
    /\ Cases' = Cases /\ UNCHANGED <<caseVars, mails>>

LEMMA CreateStarts ==
    ASSUME TypeInv, NEW u \in User, NEW about \in BOOLEAN, BeginCreateCase(u, about)
    PROVE  \E g : Starts(g, "create", 0, Nobody) /\ g.row.initiator = u /\ g.row.task = about
<1> DEFINE new == [Opened(u, about) EXCEPT !.initiator = u]
           g == Request("create", 0, NewCase, new)
<1>1. u # Nobody /\ new.initiator = u /\ new.task = about /\ new \in SupportCase
    BY ConstantsAssumption DEF Opened, NewCase, User, SupportCase, CaseStatus, OpenStatus
<1> HIDE DEF new
<1>2. g = Work("create", 0, NewCase, new, Nobody, Nobody, Nobody)
    BY Requests
<1>3. Run(g) /\ UNCHANGED <<caseVars, mails>> /\ Cases' = Cases
    BY DEF BeginCreateCase, new, caseVars, Cases
<1>4. g.pc = "create" /\ g.case = 0 /\ g.mail = Nobody /\ g.row = Kept(NewCase, new, new)
    BY <1>2 DEF Work
<1> HIDE DEF g
<1>5. \A f \in DOMAIN NewCase : g.row[f] = IF NewCase[f] = new[f] THEN NewCase[f] ELSE new[f]
    BY <1>1, <1>4, KeptColumns, NewCaseTyped
<1>6. g.row.initiator = u /\ g.row.task = about
    BY <1>1, <1>5, Columns
<1> QED
    BY <1>3, <1>4, <1>6 DEF Run, Starts

LEMMA MessageStarts ==
    ASSUME NEW c \in Cases, NEW new, NEW m, SendMessage(c, new, m)
    PROVE  \E g : Starts(g, "message", c, m)
<1> DEFINE g == [Request("message", c, case[c], new) EXCEPT !.mail = m]
<1>1. Run(g) /\ UNCHANGED <<caseVars, mails>> /\ Cases' = Cases
    BY DEF SendMessage, caseVars, Cases
<1>2. g = Work("message", c, case[c], new, Nobody, Nobody, m)
    BY Requests
<1>3. g.pc = "message" /\ g.case = c /\ g.mail = m
    BY <1>2 DEF Work
<1> HIDE DEF g
<1> QED
    BY <1>1, <1>3 DEF Run, Starts

LEMMA AssignStarts ==
    ASSUME TypeInv, NEW a \in Agent, NEW c \in Cases, NEW o \in BOOLEAN, BeginAssign(a, c, o)
    PROVE  \E g : /\ Starts(g, IF case[c].agent = Nobody THEN "assign" ELSE "unassign", c, Nobody)
                  /\ g.agent = a /\ Leaves(g, c)
<1> DEFINE new == [case[c] EXCEPT !.agent = a, !.status = "IN_PROGRESS"]
           label == IF case[c].agent = Nobody THEN "assign" ELSE "unassign"
           g == [Request(label, c, case[c], new) EXCEPT !.agent = a]
<1>1. Run(g) /\ UNCHANGED <<caseVars, mails>> /\ Cases' = Cases
    BY DEF BeginAssign, caseVars, Cases
<1>2. g = Work(label, c, case[c], new, a, Nobody, Nobody)
    BY Requests
<1>3. case[c] \in SupportCase
    BY LenProperties DEF TypeInv, TypeOK, Cases
<1>4. new \in SupportCase /\ new.agent = a
    BY <1>3 DEF SupportCase, CaseStatus, OpenStatus
<1> HIDE DEF new, g, label
<1>5. /\ g.pc = label /\ g.case = c /\ g.mail = Nobody /\ g.agent = a
      /\ g.row = Kept(case[c], new, new) /\ g.old = Kept(case[c], new, case[c])
    BY <1>2 DEF Work
<1>6. IF case[c].agent = a THEN g.row.agent = NewCase.agent /\ g.old.agent = NewCase.agent
                           ELSE g.row.agent = a /\ g.old.agent = case[c].agent
    BY <1>3, <1>4, <1>5, KeptColumns, Columns
<1>7. Leaves(g, c)
    BY <1>5, <1>6 DEF Leaves, Same
<1> QED
    BY <1>1, <1>5, <1>7 DEF Run, Starts, label

LEMMA ResolveStarts ==
    ASSUME NEW c \in Cases, NEW d, BeginResolve(c, d)
    PROVE  \E g : Starts(g, "resolve", c, Nobody)
<1> DEFINE new == [case[c] EXCEPT !.status = "RESOLVED"]
           g == [Request("resolve", c, case[c], new) EXCEPT !.decision = d]
<1>1. Run(g) /\ UNCHANGED <<caseVars, mails>> /\ Cases' = Cases
    BY DEF BeginResolve, caseVars, Cases
<1>2. g = Work("resolve", c, case[c], new, Nobody, d, Nobody)
    BY Requests
<1>3. g.pc = "resolve" /\ g.case = c /\ g.mail = Nobody
    BY <1>2 DEF Work
<1> HIDE DEF g
<1> QED
    BY <1>1, <1>3 DEF Run, Starts

LEMMA AttachStarts ==
    ASSUME NEW a, NEW c \in Cases, NEW u, BeginAttachUser(a, c, u)
    PROVE  \E g : Starts(g, "attach", c, Nobody)
<1> DEFINE new == IF u \in Provider THEN [case[c] EXCEPT !.provider = u] ELSE [case[c] EXCEPT !.customer = u]
           g == Request("attach", c, case[c], new)
<1>1. Run(g) /\ UNCHANGED <<caseVars, mails>> /\ Cases' = Cases
    BY DEF BeginAttachUser, caseVars, Cases
<1>2. g = Work("attach", c, case[c], new, Nobody, Nobody, Nobody)
    BY Requests
<1>3. g.pc = "attach" /\ g.case = c /\ g.mail = Nobody
    BY <1>2 DEF Work
<1> HIDE DEF g
<1> QED
    BY <1>1, <1>3 DEF Run, Starts

\* Of a case whose row changes the columns that a ticket is about are kept,
\* or the case has left the check behind.
KeepsTicket(c) ==
    \/ c \in unchecked'
    \/ /\ case'[c].task = case[c].task /\ Parties(c)' = Parties(c)
       /\ case'[c].status \in OpenStatus => case[c].status \in OpenStatus

LEMMA EditKeeps ==
    ASSUME TypeInv, NEW c \in Cases,
           \/ \E s \in CaseStatus : SetStatus(c, s)
           \/ EscalateDispute(c)
    PROVE  /\ Cases' = Cases /\ running' = running /\ unchecked \subseteq unchecked'
           /\ UNCHANGED <<assignments, dispute, resolution, mails, overlapped, unsettled, doubled>>
           /\ \A d \in Cases : case'[d].agent = case[d].agent /\ KeepsTicket(d)
<1>1. case[c] \in SupportCase
    BY LenProperties DEF TypeInv, TypeOK, Cases
<1>2. ASSUME NEW s \in CaseStatus, SetStatus(c, s)
      PROVE  /\ Cases' = Cases /\ running' = running /\ unchecked \subseteq unchecked'
             /\ UNCHANGED <<assignments, dispute, resolution, mails, overlapped, unsettled, doubled>>
             /\ \A d \in Cases : case'[d].agent = case[d].agent /\ KeepsTicket(d)
  <2>1. Cases' = Cases /\ case'[c] = [case[c] EXCEPT !.status = s] /\ \A d \in Cases \ {c} : case'[d] = case[d]
      BY <1>2, Statuses
  <2>2. unchecked' = IF Reopens(c) THEN unchecked \cup {c} ELSE unchecked
      BY <1>2 DEF SetStatus, Unchecked
  <2>3. /\ case'[c].status = s /\ case'[c].agent = case[c].agent /\ case'[c].task = case[c].task
        /\ Parties(c)' = Parties(c)
      BY <1>1, <2>1 DEF SupportCase, Parties
  <2>4. case[c].status \in OpenStatus \/ case[c].status \in ClosedStatus
      BY <1>1 DEF SupportCase, CaseStatus
  <2>5. KeepsTicket(c)
      BY <2>2, <2>3, <2>4 DEF KeepsTicket, Reopens
  <2>6. \A d \in Cases \ {c} : case'[d].agent = case[d].agent /\ KeepsTicket(d)
      BY <2>1 DEF KeepsTicket, Parties
  <2> QED
      BY <1>2, <2>1, <2>2, <2>3, <2>5, <2>6 DEF SetStatus
<1>3. CASE EscalateDispute(c)
  <2>1. Cases' = Cases /\ case'[c] = [case[c] EXCEPT !.urgent = TRUE] /\ \A d \in Cases \ {c} : case'[d] = case[d]
      BY <1>3, Priorities
  <2>2. /\ case'[c].status = case[c].status /\ case'[c].agent = case[c].agent /\ case'[c].task = case[c].task
        /\ Parties(c)' = Parties(c)
      BY <1>1, <2>1 DEF SupportCase, Parties
  <2>3. KeepsTicket(c) /\ \A d \in Cases \ {c} : case'[d].agent = case[d].agent /\ KeepsTicket(d)
      BY <2>1, <2>2 DEF KeepsTicket, Parties
  <2> QED
      BY <1>3, <2>1, <2>2, <2>3 DEF EscalateDispute, historyVars
<1> QED
    BY <1>2, <1>3

LEMMA CommitKeeps ==
    ASSUME TypeInv, NEW h \in running, h.pc # "create", Commit(h),
           IF h.pc = "attach" THEN unchecked' = unchecked \cup {h.case}
           ELSE Unchecked(h.case) \/ (h.pc \in Resolving /\ unchecked' = unchecked)
    PROVE  /\ Cases' = Cases /\ unchecked \subseteq unchecked'
           /\ \A d \in Cases : (h.pc \notin Taking \/ d # h.case => case'[d].agent = case[d].agent) /\ KeepsTicket(d)
           /\ case'[h.case].agent = IF Same(h, "agent") THEN case[h.case].agent ELSE h.row.agent
<1> DEFINE c == h.case
<1>1. /\ c \in Cases /\ Cases' = Cases
      /\ \A d \in Cases \ {c} : case'[d] = case[d]
      /\ \A f \in DOMAIN NewCase : case'[c][f] = IF Same(h, f) THEN case[c][f] ELSE h.row[f]
    BY Commits
<1>2. HandlerOK(h) /\ case[c] \in SupportCase
    BY <1>1, LenProperties DEF TypeInv, TypeOK, Cases
<1> HIDE DEF c
<1>3. \A d \in Cases \ {c} : case'[d].agent = case[d].agent /\ KeepsTicket(d)
    BY <1>1 DEF KeepsTicket, Parties
<1>4. case'[c].task = case[c].task /\ case'[c].initiator = case[c].initiator
    BY <1>1, <1>2, Columns DEF HandlerOK
<1>5. h.pc # "attach" => Parties(c)' = Parties(c)
    BY <1>1, <1>2, <1>4, Columns DEF HandlerOK, Parties
<1>6. h.pc \in Resolving => case'[c].status = case[c].status \/ case'[c].status = "RESOLVED"
    BY <1>1, <1>2, Columns DEF HandlerOK
<1>7. case[c].status \in OpenStatus \/ case[c].status \in ClosedStatus
    BY <1>2 DEF SupportCase, CaseStatus
<1>8. KeepsTicket(c)
  <2>1. CASE h.pc = "attach"
      BY <2>1 DEF KeepsTicket, c
  <2>2. CASE h.pc # "attach" /\ Unchecked(c)
      BY <1>4, <1>5, <1>7, <2>2 DEF KeepsTicket, Unchecked, Reopens
  <2>3. CASE h.pc \in Resolving
      BY <1>4, <1>5, <1>6, <2>3 DEF KeepsTicket, OpenStatus, Resolving
  <2> QED
      BY <2>1, <2>2, <2>3 DEF c
<1>9. case'[c].agent = IF Same(h, "agent") THEN case[c].agent ELSE h.row.agent
    BY <1>1, Columns
<1>10. h.pc \notin Taking => case'[c].agent = case[c].agent
    BY <1>2, <1>9 DEF HandlerOK
<1>11. unchecked \subseteq unchecked'
    BY DEF Unchecked
<1> QED
    BY <1>1, <1>3, <1>8, <1>9, <1>10, <1>11 DEF c

-----------------------------------------------------------------------------
(***************************************************************************)
(* One agent.  Of a case whose assignments do not overlap at most one      *)
(* request is about to change the agent, and it knows all the open rows.   *)
(***************************************************************************)
\* Steps that touch neither agents nor assignments nor who changes them.
LEMMA AgentKept ==
    ASSUME AgentInv, overlapped \subseteq overlapped', Cases \subseteq Cases',
           \A c \in Cases : case'[c].agent = case[c].agent /\ assignments'[c] = assignments[c],
           \A c \in Cases' \ Cases : case'[c].agent = Nobody /\ assignments'[c] = <<>>,
           \A h \in running' : h.pc \in Taking => h \in running /\ h.case \in Cases
    PROVE  AgentInv'
<1> SUFFICES ASSUME NEW c \in Cases' \ overlapped'
             PROVE  /\ \A g, h \in running' : {g.pc, h.pc} \subseteq Taking /\ g.case = c /\ h.case = c => g = h
                    /\ \A h \in running' : h.pc \in Taking /\ h.case = c => Leaves(h, c)'
                    /\ \A h \in running' : h.pc = "assign" /\ h.case = c => OpenRows(c)' \subseteq h.rows
                    /\ OneHolder(c)'
    BY DEF AgentInv
<1>1. CASE c \in Cases
    BY <1>1 DEF AgentInv, Leaves, OneHolder, OpenRows, Taking, Same
<1>2. CASE c \notin Cases
  <2>1. case'[c].agent = Nobody /\ assignments'[c] = <<>>
      BY <1>2
  <2>2. OpenRows(c)' = {}
      BY <2>1 DEF OpenRows
  <2> QED
      BY <1>2, <2>1, <2>2 DEF OneHolder, Taking
<1> QED
    BY <1>1, <1>2

LEMMA AgentStarts ==
    ASSUME TypeInv, AgentInv, NEW g, NEW label, NEW c \in Cases \cup {0}, NEW m,
           Starts(g, label, c, m), label \notin Taking, overlapped' = overlapped
    PROVE  AgentInv'
<1>1. \A h \in running : h.pc \in Taking => h.case \in Cases
    BY DEF TypeInv, HandlerOK, Taking
<1> QED
    BY <1>1, AgentKept, Zenon DEF Starts, caseVars

LEMMA AgentAssigns ==
    ASSUME TypeInv, AgentInv, NEW a \in Agent, NEW c \in Cases, NEW o \in BOOLEAN, BeginAssign(a, c, o)
    PROVE  AgentInv'
<1> DEFINE label == IF case[c].agent = Nobody THEN "assign" ELSE "unassign"
<1>1. PICK g : Starts(g, label, c, Nobody) /\ g.agent = a /\ Leaves(g, c)
    BY AssignStarts
<1>2. /\ running' = running \cup {g} /\ g.pc = label /\ g.case = c /\ Cases' = Cases
      /\ case' = case /\ assignments' = assignments
    BY <1>1 DEF Starts, caseVars
<1>3. overlapped' = IF \E h \in running : h.case = c /\ h.pc \in Taking THEN overlapped \cup {c} ELSE overlapped
    BY DEF BeginAssign, Under, Taking
<1> SUFFICES ASSUME NEW d \in Cases \ overlapped'
             PROVE  /\ \A e, h \in running' : {e.pc, h.pc} \subseteq Taking /\ e.case = d /\ h.case = d => e = h
                    /\ \A h \in running' : h.pc \in Taking /\ h.case = d => Leaves(h, d)'
                    /\ \A h \in running' : h.pc = "assign" /\ h.case = d => OpenRows(d)' \subseteq h.rows
                    /\ OneHolder(d)'
    BY <1>2 DEF AgentInv
<1>4. d \notin overlapped
    BY <1>3
<1>5. /\ OneHolder(d)' /\ OpenRows(d)' = OpenRows(d) /\ \A h : Leaves(h, d)' = Leaves(h, d)
      /\ OneHolder(d)
    BY <1>2, <1>4 DEF AgentInv, OneHolder, OpenRows, Leaves, Same
<1>6. CASE d # c
    BY <1>2, <1>4, <1>5, <1>6 DEF AgentInv
<1>7. CASE d = c
  <2>1. \A h \in running : ~(h.case = c /\ h.pc \in Taking)
      BY <1>3, <1>7
  <2>2. \A h \in running' : h.case = c /\ h.pc \in Taking => h = g
      BY <1>2, <2>1
  <2>3. g.pc = "assign" => OpenRows(c) = {}
      BY <1>2, <1>5, <1>7 DEF OneHolder
  <2> QED
      BY <1>1, <1>2, <1>5, <1>7, <2>2, <2>3 DEF Taking
<1> QED
    BY <1>6, <1>7

LEMMA AgentUnassigns ==
    ASSUME TypeInv, AgentInv, NEW h \in running, Unassign(h)
    PROVE  AgentInv'
<1> DEFINE g == [h EXCEPT !.pc = "assign", !.rows = OpenRows(h.case)]
<1>1. h \in HandlerRow /\ h.pc = "unassign" /\ running' = (running \ {h}) \cup {g} /\ overlapped' = overlapped
      /\ case' = case /\ assignments' = assignments
    BY DEF Unassign, Become, caseVars, historyVars, TypeInv, TypeOK
<1>2. /\ g.pc = "assign" /\ g.rows = OpenRows(h.case) /\ g.case = h.case /\ g.old = h.old /\ g.row = h.row
      /\ g.agent = h.agent
    BY <1>1 DEF HandlerRow
<1> HIDE DEF g
<1>3. Cases' = Cases
    BY <1>1 DEF Cases
<1> SUFFICES ASSUME NEW d \in Cases \ overlapped
             PROVE  /\ \A e, k \in running' : {e.pc, k.pc} \subseteq Taking /\ e.case = d /\ k.case = d => e = k
                    /\ \A k \in running' : k.pc \in Taking /\ k.case = d => Leaves(k, d)'
                    /\ \A k \in running' : k.pc = "assign" /\ k.case = d => OpenRows(d)' \subseteq k.rows
                    /\ OneHolder(d)'
    BY <1>1, <1>3 DEF AgentInv
<1>4. /\ OneHolder(d)' /\ OpenRows(d)' = OpenRows(d) /\ \A k : Leaves(k, d)' = Leaves(k, d)
    BY <1>1 DEF AgentInv, OneHolder, OpenRows, Leaves, Same
<1>5. h.case = d => Leaves(g, d)
    BY <1>1, <1>2 DEF AgentInv, Leaves, Same, Taking
<1> QED
    BY <1>1, <1>2, <1>4, <1>5 DEF AgentInv, Taking

LEMMA AgentTakes ==
    ASSUME TypeInv, AgentInv, NEW h \in running, Assign(h)
    PROVE  AgentInv'
<1> DEFINE c == h.case
           s == assignments[c]
           n == Len(s) + 1
<1>1. h.pc = "assign" /\ running' = running \ {h} /\ overlapped' = overlapped /\ h.agent # Nobody
    BY ConstantsAssumption DEF Assign, Finish, TypeInv, HandlerOK, Taking
<1>2. /\ c \in Cases /\ DOMAIN s = 1 .. Len(s) /\ Len(s) \in Nat
      /\ \A d \in Cases \ {c} : assignments'[d] = assignments[d]
      /\ DOMAIN assignments'[c] = 1 .. n
      /\ \A i \in 1 .. Len(s) : assignments'[c][i].open = (s[i].open /\ i \notin h.rows)
      /\ assignments'[c][n] = [agent |-> h.agent, open |-> TRUE]
  <2>1. s \in Seq(CaseAssignment)
      BY AssignRows
  <2>2. DOMAIN s = 1 .. Len(s)
      BY <2>1
  <2> QED
      BY <2>2, AssignRows
<1>3. /\ Cases' = Cases
      /\ \A d \in Cases \ {c} : case'[d].agent = case[d].agent
      /\ case'[c].agent = IF Same(h, "agent") THEN case[c].agent ELSE h.row.agent
    BY <1>1, CommitKeeps DEF Assign
<1> HIDE DEF c, s, n
<1> SUFFICES ASSUME NEW d \in Cases \ overlapped
             PROVE  /\ \A e, k \in running' : {e.pc, k.pc} \subseteq Taking /\ e.case = d /\ k.case = d => e = k
                    /\ \A k \in running' : k.pc \in Taking /\ k.case = d => Leaves(k, d)'
                    /\ \A k \in running' : k.pc = "assign" /\ k.case = d => OpenRows(d)' \subseteq k.rows
                    /\ OneHolder(d)'
    BY <1>1, <1>3 DEF AgentInv
<1>4. CASE d # c
  <2>1. /\ OneHolder(d)' /\ OpenRows(d)' = OpenRows(d) /\ \A k : Leaves(k, d)' = Leaves(k, d)
      BY <1>2, <1>3, <1>4 DEF AgentInv, OneHolder, OpenRows, Leaves, Same
  <2> QED
      BY <1>1, <2>1 DEF AgentInv
<1>5. CASE d = c
  <2>1. \A k \in running' : ~(k.pc \in Taking /\ k.case = c)
      BY <1>1, <1>5 DEF AgentInv, Taking, c
  <2>2. OpenRows(c) \subseteq h.rows
      BY <1>1, <1>5 DEF AgentInv, c
  <2>3. \A i \in 1 .. Len(s) : ~assignments'[c][i].open
      BY <1>2, <2>2 DEF OpenRows, s
  <2>4. assignments'[c][n].open /\ n \in 1 .. n /\ \A i \in 1 .. n : i = n \/ i \in 1 .. Len(s)
      BY <1>2 DEF n
  <2>5. OpenRows(c)' = {n}
      BY <1>2, <2>3, <2>4 DEF OpenRows
  <2>6. case'[c].agent = h.agent
      BY <1>1, <1>3, <1>5 DEF AgentInv, Leaves, Taking, c
  <2>7. OneHolder(c)'
      BY <1>1, <1>2, <2>5, <2>6 DEF OneHolder
  <2> QED
      BY <1>5, <2>1, <2>7 DEF Taking
<1> QED
    BY <1>4, <1>5

\* A new case has no agent.
LEMMA AgentInserts ==
    ASSUME TypeInv, AgentInv, NEW row \in SupportCase, NEW disputed \in Dispute, Insert(row, disputed),
           row.agent = Nobody, overlapped' = overlapped, running' \subseteq running
    PROVE  AgentInv'
<1>1. /\ Cases' = Cases \cup {Len(case) + 1}
      /\ case'[Len(case) + 1] = row /\ assignments'[Len(case) + 1] = <<>>
      /\ \A c \in Cases : case'[c] = case[c] /\ assignments'[c] = assignments[c]
    BY Inserts
<1>2. \A h \in running : h.pc \in Taking => h.case \in Cases
    BY DEF TypeInv, HandlerOK, Taking
<1> QED
    BY <1>1, <1>2, AgentKept

LEMMA AgentNext == TypeInv /\ AgentInv /\ [Next]_vars => AgentInv'
<1> SUFFICES ASSUME TypeInv, AgentInv, [Next]_vars
             PROVE  AgentInv'
    OBVIOUS
<1>0. \A h \in running : h.pc \in Taking => h.case \in Cases
    BY DEF TypeInv, HandlerOK, Taking
<1>1. ASSUME NEW h \in running, Step(h)
      PROVE  AgentInv'
  <2>1. CASE CreateCase(h)
    <3>1. h.row \in SupportCase /\ h.row.agent = Nobody /\ "NONE" \in Dispute
        BY <2>1 DEF CreateCase, TypeInv, TypeOK, HandlerRow, HandlerOK, Dispute
    <3> QED
        BY <2>1, <3>1, AgentInserts DEF CreateCase, Finish, historyVars
  <2>2. CASE InsertMessage(h)
    <3>1. Cases' = Cases /\ \A d \in Cases : case'[d].agent = case[d].agent
        BY <2>2, CommitKeeps DEF InsertMessage, Taking
    <3> QED
        BY <1>0, <2>2, <3>1, AgentKept DEF InsertMessage, Finish
  <2>3. CASE ResolveCase(h)
    <3>1. Cases' = Cases /\ \A d \in Cases : case'[d].agent = case[d].agent
        BY <2>3, CommitKeeps DEF ResolveCase, historyVars, Taking, Resolving
    <3>2. [h EXCEPT !.pc = "decide"].pc = "decide"
        BY DEF TypeInv, TypeOK, HandlerRow
    <3>3. \A k \in running' : k.pc \in Taking => k \in running /\ k.case \in Cases
        BY <1>0, <2>3, <3>2 DEF ResolveCase, Finish, Become, Taking
    <3> QED
        BY <2>3, <3>1, <3>3, AgentKept DEF ResolveCase, historyVars
  <2>4. CASE AttachUser(h)
    <3>1. Cases' = Cases /\ \A d \in Cases : case'[d].agent = case[d].agent
        BY <2>4, CommitKeeps DEF AttachUser, Taking
    <3> QED
        BY <1>0, <2>4, <3>1, AgentKept DEF AttachUser, Finish
  <2>5. CASE DecideDispute(h)
    <3>1. Cases' = Cases
        BY <2>5 DEF DecideDispute, Cases
    <3> QED
        BY <1>0, <2>5, <3>1, AgentKept DEF DecideDispute, Finish, historyVars
  <2> QED
      BY <1>1, <2>1, <2>2, <2>3, <2>4, <2>5, AgentUnassigns, AgentTakes DEF Step
<1>2. ASSUME NEW c \in Cases, (\E s \in CaseStatus : SetStatus(c, s)) \/ EscalateDispute(c)
      PROVE  AgentInv'
  <2>1. /\ Cases' = Cases /\ running' = running /\ assignments' = assignments /\ overlapped' = overlapped
        /\ \A d \in Cases : case'[d].agent = case[d].agent
      BY <1>2, EditKeeps
  <2> QED
      BY <1>0, <2>1, AgentKept
<1>3. ASSUME NEW c \in Cases, NEW new, NEW m, SendMessage(c, new, m)
      PROVE  AgentInv'
  <2>1. overlapped' = overlapped /\ "message" \notin Taking
      BY <1>3 DEF SendMessage, Taking
  <2> QED
      BY <1>3, <2>1, MessageStarts, AgentStarts
<1>4. ASSUME NEW u \in User, UserRequest(u)
      PROVE  AgentInv'
  <2>1. ASSUME NEW about \in BOOLEAN, BeginCreateCase(u, about)
        PROVE  AgentInv'
    <3>1. overlapped' = overlapped /\ "create" \notin Taking
        BY <2>1 DEF BeginCreateCase, Taking
    <3> QED
        BY <2>1, <3>1, CreateStarts, AgentStarts
  <2>2. CASE OpenDispute(u)
    <3>1. Opened(u, TRUE) \in SupportCase /\ Opened(u, TRUE).agent = Nobody /\ "OPEN" \in Dispute
        BY DEF Opened, NewCase, SupportCase, CaseStatus, OpenStatus, User, Dispute
    <3> QED
        BY <2>2, <3>1, AgentInserts DEF OpenDispute
  <2> QED
      BY <1>2, <1>3, <1>4, <2>1, <2>2
         DEF UserRequest, BeginUserMessage, CloseCase, ReopenCase, CaseStatus, OpenStatus, ClosedStatus
<1>5. ASSUME NEW c \in Cases, AgentRequest(c)
      PROVE  AgentInv'
  <2>1. ASSUME NEW a \in Agent, NEW o \in BOOLEAN, BeginAssign(a, c, o)
        PROVE  AgentInv'
      BY <2>1, AgentAssigns
  <2>2. ASSUME NEW d \in Decision, BeginResolve(c, d)
        PROVE  AgentInv'
    <3>1. overlapped' = overlapped /\ "resolve" \notin Taking
        BY <2>2 DEF BeginResolve, Taking
    <3> QED
        BY <2>2, <3>1, ResolveStarts, AgentStarts
  <2>3. ASSUME NEW a \in Agent, NEW u \in User, BeginAttachUser(a, c, u)
        PROVE  AgentInv'
    <3>1. overlapped' = overlapped /\ "attach" \notin Taking
        BY <2>3 DEF BeginAttachUser, historyVars, Taking
    <3> QED
        BY <2>3, <3>1, AttachStarts, AgentStarts
  <2>4. \A a \in Agent : (a \in Super) \in BOOLEAN
      OBVIOUS
  <2>5. \A s \in GivenStatus : s \in CaseStatus
      BY ConstantsAssumption
  <2> QED
      BY <1>2, <1>3, <1>5, <2>1, <2>2, <2>3, <2>4, <2>5
         DEF AgentRequest, BeginAgentMessage, AgentMessageWithStatus, UpdateCase, ClaimCase, AssignCase
<1>6. ASSUME NEW c \in Cases, NEW e \in Email, BeginEmail(e, c)
      PROVE  AgentInv'
    BY <1>3, <1>6 DEF BeginEmail
<1>7. CASE Crash \/ UNCHANGED vars
  <2>1. Cases' = Cases /\ running' \subseteq running /\ UNCHANGED <<case, assignments, overlapped>>
      BY <1>7 DEF Crash, Finish, vars, caseVars, historyVars, Cases
  <2> QED
      BY <1>0, <2>1, AgentKept
<1> QED
    BY <1>1, <1>4, <1>5, <1>6, <1>7 DEF Next

\* The assignment history names one holder: the rows that are open are those
\* of the agent whom the case shows, unless two assignments of the case were
\* under way at once.
THEOREM OneAgentHolds == Spec => []OneAgent
<1>1. Init => AgentInv
  <2>1. Init => Cases = {}
      BY EmptySeq DEF Init, Cases
  <2> QED
      BY <2>1 DEF AgentInv
<1>2. TypeInv /\ AgentInv => OneAgent
  <2> SUFFICES ASSUME AgentInv, NEW c \in Cases \ overlapped
               PROVE  /\ Cardinality(OpenRows(c)) = IF case[c].agent = Nobody THEN 0 ELSE 1
                      /\ \A i \in OpenRows(c) : assignments[c][i].agent = case[c].agent
      BY DEF OneAgent
  <2>1. CASE case[c].agent = Nobody
    <3>1. OpenRows(c) = {}
        BY <2>1 DEF AgentInv, OneHolder
    <3> QED
        BY <2>1, <3>1, FS_EmptySet
  <2>2. CASE case[c].agent # Nobody
    <3>1. PICK i \in OpenRows(c) : OpenRows(c) = {i} /\ assignments[c][i].agent = case[c].agent
        BY <2>2 DEF AgentInv, OneHolder
    <3>2. Cardinality({i}) = 1
        BY FS_Singleton
    <3> QED
        BY <2>2, <3>1, <3>2
  <2> QED
      BY <2>1, <2>2
<1> QED
    BY <1>1, <1>2, TypeInit, TypeNext, AgentNext, PTL DEF Spec

-----------------------------------------------------------------------------
(***************************************************************************)
(* One ticket.  A creation that is under way for a user whose creations do *)
(* not overlap has seen every ticket of the user, and no other can come.   *)
(***************************************************************************)
\* An open ticket for the task that has passed the check.
Ticket(c) == case[c].task /\ case[c].status \in OpenStatus /\ c \notin unchecked

TicketInv ==
    /\ \A u \in User \ doubled : \A g, h \in running :
          {g.pc, h.pc} = {"create"} /\ g.row.initiator = u /\ h.row.initiator = u => g = h
    /\ \A u \in User \ doubled : \A h \in running : \A c \in Cases :
          h.pc = "create" /\ h.row.task /\ h.row.initiator = u /\ u \in Parties(c) => ~Ticket(c)
    /\ \A u \in User \ doubled : \A c, d \in Cases :
          Ticket(c) /\ Ticket(d) /\ u \in Parties(c) /\ u \in Parties(d) => c = d

LEMMA TicketKept ==
    ASSUME TicketInv, Cases' = Cases, unchecked \subseteq unchecked', doubled \subseteq doubled',
           \A c \in Cases : KeepsTicket(c),
           \A h \in running' : h.pc = "create" => h \in running
    PROVE  TicketInv'
<1>1. \A c \in Cases : Ticket(c)' => Ticket(c) /\ Parties(c)' = Parties(c)
    BY DEF KeepsTicket, Ticket
<1>2. \A u \in User \ doubled' : \A g, h \in running' :
          {g.pc, h.pc} = {"create"} /\ g.row.initiator = u /\ h.row.initiator = u => g = h
  <2> SUFFICES ASSUME NEW u \in User \ doubled', NEW g \in running', NEW h \in running',
                      g.pc = "create", h.pc = "create", g.row.initiator = u, h.row.initiator = u
               PROVE  g = h
      OBVIOUS
  <2>1. g \in running /\ h \in running /\ {g.pc, h.pc} = {"create"}
      OBVIOUS
  <2> QED
      BY <2>1 DEF TicketInv
<1>3. \A u \in User \ doubled' : \A h \in running' : \A c \in Cases' :
          h.pc = "create" /\ h.row.task /\ h.row.initiator = u /\ u \in Parties(c)' => ~Ticket(c)'
    BY <1>1 DEF TicketInv
<1>4. \A u \in User \ doubled' : \A c, d \in Cases' :
          Ticket(c)' /\ Ticket(d)' /\ u \in Parties(c)' /\ u \in Parties(d)' => c = d
    BY <1>1 DEF TicketInv
<1> QED
    BY <1>2, <1>3, <1>4 DEF TicketInv

LEMMA TicketStarts ==
    ASSUME TicketInv, NEW g, NEW label, NEW c, NEW m, Starts(g, label, c, m), label # "create",
           unchecked' = unchecked, doubled \subseteq doubled'
    PROVE  TicketInv'
<1>1. \A d \in Cases : KeepsTicket(d)
    BY DEF Starts, caseVars, KeepsTicket, Parties
<1> QED
    BY <1>1, TicketKept, Zenon DEF Starts

LEMMA TicketChecks ==
    ASSUME TypeInv, TicketInv, NEW u \in User, NEW about \in BOOLEAN, BeginCreateCase(u, about)
    PROVE  TicketInv'
<1>1. PICK g : Starts(g, "create", 0, Nobody) /\ g.row.initiator = u /\ g.row.task = about
    BY CreateStarts
<1>2. running' = running \cup {g} /\ g.pc = "create" /\ Cases' = Cases /\ case' = case
    BY <1>1 DEF Starts, caseVars
<1>3. /\ unchecked' = unchecked
      /\ doubled' = IF \E h \in running : h.row.initiator = u THEN doubled \cup {u} ELSE doubled
      /\ about => ~HasOpenTicket(u)
    BY DEF BeginCreateCase, MayCreate
<1>4. \A c \in Cases : (Ticket(c)' <=> Ticket(c)) /\ Parties(c)' = Parties(c)
    BY <1>2, <1>3 DEF Ticket, Parties
<1>5. \A w \in User \ doubled' : \A k, h \in running' :
          {k.pc, h.pc} = {"create"} /\ k.row.initiator = w /\ h.row.initiator = w => k = h
  <2> SUFFICES ASSUME NEW w \in User \ doubled', NEW k \in running', NEW h \in running',
                      k.pc = "create", h.pc = "create", k.row.initiator = w, h.row.initiator = w
               PROVE  k = h
      OBVIOUS
  <2>1. CASE w = u
      BY <1>2, <1>3, <2>1
  <2>2. CASE w # u
    <3>1. k \in running /\ h \in running /\ {k.pc, h.pc} = {"create"} /\ w \notin doubled
        BY <1>1, <1>2, <1>3, <2>2
    <3> QED
        BY <3>1 DEF TicketInv
  <2> QED
      BY <2>1, <2>2
<1>6. \A w \in User \ doubled' : \A h \in running' : \A c \in Cases :
          h.pc = "create" /\ h.row.task /\ h.row.initiator = w /\ w \in Parties(c) => ~Ticket(c)
  <2> SUFFICES ASSUME NEW w \in User \ doubled', NEW h \in running', NEW c \in Cases,
                      h.pc = "create", h.row.task, h.row.initiator = w, w \in Parties(c)
               PROVE  ~Ticket(c)
      OBVIOUS
  <2>1. CASE h = g
      BY <1>1, <1>3, <2>1 DEF HasOpenTicket, Ticket
  <2>2. CASE h # g
    <3>1. h \in running /\ w \notin doubled
        BY <1>2, <1>3, <2>2
    <3> QED
        BY <3>1 DEF TicketInv
  <2> QED
      BY <2>1, <2>2
<1>7. \A w \in User \ doubled' : \A c, d \in Cases :
          Ticket(c) /\ Ticket(d) /\ w \in Parties(c) /\ w \in Parties(d) => c = d
    BY <1>3 DEF TicketInv
<1> QED
    BY <1>2, <1>4, <1>5, <1>6, <1>7 DEF TicketInv

\* What a new case may be: for a user whose creations do not overlap a ticket
\* only if there is none.
LEMMA TicketInserts ==
    ASSUME TypeInv, TicketInv, NEW row \in SupportCase, NEW disputed \in Dispute, Insert(row, disputed),
           running' \subseteq running, doubled' = doubled, unchecked \subseteq unchecked',
           \/ Len(case) + 1 \in unchecked'
           \/ \A u \in User \ doubled : u \in {row.customer, row.provider, row.initiator} =>
                 /\ \A h \in running' : ~(h.pc = "create" /\ h.row.initiator = u)
                 /\ row.task => \A c \in Cases : u \in Parties(c) => ~Ticket(c)
    PROVE  TicketInv'
<1> PICK n : n = Len(case) + 1
    OBVIOUS
<1>1. /\ n \notin Cases /\ Cases' = Cases \cup {n} /\ case'[n] = row
      /\ \A c \in Cases : case'[c] = case[c]
    BY Inserts
<1>2. \A c \in Cases : (Ticket(c)' => Ticket(c)) /\ Parties(c)' = Parties(c)
    BY <1>1 DEF Ticket, Parties
<1>3. /\ Parties(n)' = {row.customer, row.provider, row.initiator}
      /\ Ticket(n)' => row.task /\ n \notin unchecked'
    BY <1>1 DEF Ticket, Parties
<1>4. \A u \in User \ doubled : u \in Parties(n)' /\ Ticket(n)' =>
         /\ \A h \in running' : ~(h.pc = "create" /\ h.row.initiator = u)
         /\ \A c \in Cases : u \in Parties(c) => ~Ticket(c)
    BY <1>3
<1>5. \A w \in User \ doubled' : \A k, h \in running' :
          {k.pc, h.pc} = {"create"} /\ k.row.initiator = w /\ h.row.initiator = w => k = h
  <2> SUFFICES ASSUME NEW w \in User \ doubled', NEW k \in running', NEW h \in running',
                      {k.pc, h.pc} = {"create"}, k.row.initiator = w, h.row.initiator = w
               PROVE  k = h
      OBVIOUS
  <2>1. k \in running /\ h \in running /\ w \in User \ doubled
      OBVIOUS
  <2> QED
      BY <2>1 DEF TicketInv
<1>6. \A w \in User \ doubled' : \A h \in running' : \A c \in Cases' :
          h.pc = "create" /\ h.row.task /\ h.row.initiator = w /\ w \in Parties(c)' => ~Ticket(c)'
  <2> SUFFICES ASSUME NEW w \in User \ doubled', NEW h \in running', NEW c \in Cases',
                      h.pc = "create", h.row.task, h.row.initiator = w, w \in Parties(c)'
               PROVE  ~Ticket(c)'
      OBVIOUS
  <2>1. CASE c = n
      BY <1>4, <2>1
  <2>2. CASE c \in Cases
      BY <1>2, <2>2 DEF TicketInv
  <2> QED
      BY <1>1, <2>1, <2>2
<1>7. \A w \in User \ doubled' : \A c, d \in Cases' :
          Ticket(c)' /\ Ticket(d)' /\ w \in Parties(c)' /\ w \in Parties(d)' => c = d
  <2> SUFFICES ASSUME NEW w \in User \ doubled', NEW c \in Cases', NEW d \in Cases',
                      Ticket(c)', Ticket(d)', w \in Parties(c)', w \in Parties(d)'
               PROVE  c = d
      OBVIOUS
  <2>1. CASE c \in Cases /\ d \in Cases
      BY <1>2, <2>1 DEF TicketInv
  <2>2. CASE c = n \/ d = n
      BY <1>1, <1>2, <1>4, <2>2
  <2> QED
      BY <1>1, <2>1, <2>2
<1> QED
    BY <1>5, <1>6, <1>7 DEF TicketInv

LEMMA TicketCreated ==
    ASSUME TypeInv, TicketInv, NEW h \in running, CreateCase(h)
    PROVE  TicketInv'
<1>1. /\ h.row \in SupportCase /\ Insert(h.row, "NONE") /\ "NONE" \in Dispute /\ h.pc = "create"
      /\ running' = running \ {h} /\ doubled' = doubled /\ unchecked' = unchecked
    BY DEF CreateCase, Finish, historyVars, TypeInv, TypeOK, HandlerRow, Dispute
<1>2. {h.row.customer, h.row.provider} \subseteq {h.row.initiator, Nobody} /\ Nobody \notin User
    BY <1>1, ConstantsAssumption DEF TypeInv, HandlerOK, User
<1> DEFINE row == h.row
<1>3. ASSUME NEW u \in User \ doubled, u \in {row.customer, row.provider, row.initiator}
      PROVE  /\ \A k \in running' : ~(k.pc = "create" /\ k.row.initiator = u)
             /\ row.task => \A c \in Cases : u \in Parties(c) => ~Ticket(c)
  <2>1. row.initiator = u
      BY <1>2, <1>3
  <2>2. ASSUME NEW k \in running', k.pc = "create", k.row.initiator = u
        PROVE  FALSE
    <3>1. k \in running /\ k # h /\ {k.pc, h.pc} = {"create"}
        BY <1>1, <2>2
    <3> QED
        BY <2>1, <2>2, <3>1 DEF TicketInv
  <2>3. row.task => \A c \in Cases : u \in Parties(c) => ~Ticket(c)
      BY <1>1, <2>1 DEF TicketInv
  <2> QED
      BY <2>2, <2>3
<1>4. row \in SupportCase /\ Insert(row, "NONE")
    BY <1>1
<1> HIDE DEF row
<1> QED
    BY <1>1, <1>3, <1>4, TicketInserts

LEMMA TicketNext == TypeInv /\ TicketInv /\ [Next]_vars => TicketInv'
<1> SUFFICES ASSUME TypeInv, TicketInv, [Next]_vars
             PROVE  TicketInv'
    OBVIOUS
<1>1. ASSUME NEW h \in running, Step(h)
      PROVE  TicketInv'
  <2>1. CASE InsertMessage(h)
    <3>1. Cases' = Cases /\ unchecked \subseteq unchecked' /\ \A d \in Cases : KeepsTicket(d)
        BY <2>1, CommitKeeps DEF InsertMessage
    <3> QED
        BY <2>1, <3>1, TicketKept DEF InsertMessage, Finish
  <2>2. CASE ResolveCase(h)
    <3>1. Cases' = Cases /\ unchecked \subseteq unchecked' /\ \A d \in Cases : KeepsTicket(d)
        BY <2>2, CommitKeeps DEF ResolveCase, historyVars, Resolving
    <3>2. [h EXCEPT !.pc = "decide"].pc = "decide"
        BY DEF TypeInv, TypeOK, HandlerRow
    <3>3. \A k \in running' : k.pc = "create" => k \in running
        BY <2>2, <3>2 DEF ResolveCase, Finish, Become
    <3> QED
        BY <2>2, <3>1, <3>3, TicketKept DEF ResolveCase, historyVars
  <2>3. CASE AttachUser(h)
    <3>1. Cases' = Cases /\ unchecked \subseteq unchecked' /\ \A d \in Cases : KeepsTicket(d)
        BY <2>3, CommitKeeps DEF AttachUser
    <3> QED
        BY <2>3, <3>1, TicketKept DEF AttachUser, Finish
  <2>4. CASE Assign(h)
    <3>1. Cases' = Cases /\ unchecked \subseteq unchecked' /\ \A d \in Cases : KeepsTicket(d)
        BY <2>4, CommitKeeps DEF Assign
    <3> QED
        BY <2>4, <3>1, TicketKept DEF Assign, Finish
  <2>5. CASE DecideDispute(h)
    <3>1. Cases' = Cases /\ \A d \in Cases : KeepsTicket(d)
        BY <2>5 DEF DecideDispute, Cases, KeepsTicket, Parties
    <3> QED
        BY <2>5, <3>1, TicketKept DEF DecideDispute, Finish, historyVars
  <2>6. CASE Unassign(h)
    <3>1. Cases' = Cases /\ \A d \in Cases : KeepsTicket(d)
        BY <2>6 DEF Unassign, caseVars, Cases, KeepsTicket, Parties
    <3>2. [h EXCEPT !.pc = "assign", !.rows = OpenRows(h.case)].pc = "assign"
        BY DEF TypeInv, TypeOK, HandlerRow
    <3>3. \A k \in running' : k.pc = "create" => k \in running
        BY <2>6, <3>2 DEF Unassign, Become
    <3> QED
        BY <2>6, <3>1, <3>3, TicketKept DEF Unassign, historyVars
  <2> QED
      BY <1>1, <2>1, <2>2, <2>3, <2>4, <2>5, <2>6, TicketCreated DEF Step
<1>2. ASSUME NEW c \in Cases, (\E s \in CaseStatus : SetStatus(c, s)) \/ EscalateDispute(c)
      PROVE  TicketInv'
  <2>1. /\ Cases' = Cases /\ running' = running /\ unchecked \subseteq unchecked' /\ doubled' = doubled
        /\ \A d \in Cases : KeepsTicket(d)
      BY <1>2, EditKeeps
  <2> QED
      BY <2>1, TicketKept
<1>3. ASSUME NEW c \in Cases, NEW new, NEW m, SendMessage(c, new, m), doubled \subseteq doubled'
      PROVE  TicketInv'
    BY <1>3, MessageStarts, TicketStarts DEF SendMessage
<1>4. ASSUME NEW u \in User, UserRequest(u)
      PROVE  TicketInv'
  <2>1. CASE OpenDispute(u)
    <3>1. Opened(u, TRUE) \in SupportCase /\ "OPEN" \in Dispute
        BY DEF Opened, NewCase, SupportCase, CaseStatus, OpenStatus, User, Dispute
    <3> QED
        BY <2>1, <3>1, TicketInserts DEF OpenDispute
  <2>2. ASSUME NEW c \in Cases, BeginUserMessage(u, c)
        PROVE  TicketInv'
      BY <1>3, <2>2 DEF BeginUserMessage
  <2> QED
      BY <1>2, <1>4, <2>1, <2>2, TicketChecks
         DEF UserRequest, CloseCase, ReopenCase, CaseStatus, OpenStatus, ClosedStatus
<1>5. ASSUME NEW c \in Cases, AgentRequest(c)
      PROVE  TicketInv'
  <2>1. ASSUME NEW a \in Agent, NEW o \in BOOLEAN, BeginAssign(a, c, o)
        PROVE  TicketInv'
    <3>1. (IF case[c].agent = Nobody THEN "assign" ELSE "unassign") # "create"
        OBVIOUS
    <3>2. unchecked' = unchecked /\ doubled' = doubled
        BY <2>1 DEF BeginAssign
    <3> QED
        BY <2>1, <3>1, <3>2, AssignStarts, TicketStarts
  <2>2. ASSUME NEW d \in Decision, BeginResolve(c, d)
        PROVE  TicketInv'
      BY <2>2, ResolveStarts, TicketStarts DEF BeginResolve
  <2>3. ASSUME NEW a \in Agent, NEW u \in User, BeginAttachUser(a, c, u)
        PROVE  TicketInv'
      BY <2>3, AttachStarts, TicketStarts DEF BeginAttachUser, historyVars
  <2>4. \A a \in Agent : (a \in Super) \in BOOLEAN
      OBVIOUS
  <2>5. \A s \in GivenStatus : s \in CaseStatus
      BY ConstantsAssumption
  <2>6. ASSUME NEW public \in BOOLEAN, BeginAgentMessage(c, public)
        PROVE  TicketInv'
      BY <1>3, <2>6 DEF BeginAgentMessage
  <2> QED
      BY <1>2, <1>5, <2>1, <2>2, <2>3, <2>4, <2>5, <2>6
         DEF AgentRequest, AgentMessageWithStatus, UpdateCase, ClaimCase, AssignCase
<1>6. ASSUME NEW c \in Cases, NEW e \in Email, BeginEmail(e, c)
      PROVE  TicketInv'
    BY <1>3, <1>6 DEF BeginEmail
<1>7. CASE Crash \/ UNCHANGED vars
  <2>1. Cases' = Cases /\ running' \subseteq running /\ UNCHANGED <<case, unchecked, doubled>>
      BY <1>7 DEF Crash, Finish, vars, caseVars, historyVars, Cases
  <2>2. \A d \in Cases : KeepsTicket(d)
      BY <2>1 DEF KeepsTicket, Parties
  <2> QED
      BY <2>1, <2>2, TicketKept
<1> QED
    BY <1>1, <1>4, <1>5, <1>6, <1>7 DEF Next

\* Nobody has two open tickets for the task, unless two creations were under
\* way at once or one of the tickets never had to pass the check.
THEOREM OneTicketAtATime == Spec => []OneTicket
<1>1. Init => TicketInv
  <2>1. Init => Cases = {} /\ running = {}
      BY EmptySeq DEF Init, Cases
  <2> QED
      BY <2>1 DEF TicketInv
<1>2. TypeInv /\ TicketInv => OneTicket
  <2> SUFFICES ASSUME TypeInv, TicketInv, NEW c \in Cases, NEW d \in Cases,
                      NEW u \in Parties(c) \cap Parties(d), c # d, u # Nobody, case[c].task, case[d].task,
                      {case[c].status, case[d].status} \subseteq OpenStatus
               PROVE  u \in doubled \/ {c, d} \cap unchecked # {}
      BY DEF OneTicket
  <2>1. case[c] \in SupportCase
      BY LenProperties DEF TypeInv, TypeOK, Cases
  <2>2. u \in User
      BY <2>1 DEF SupportCase, Parties, User
  <2> QED
      BY <2>2 DEF TicketInv, Ticket
<1> QED
    BY <1>1, <1>2, TypeInit, TypeNext, TicketNext, PTL DEF Spec

-----------------------------------------------------------------------------
(***************************************************************************)
(* The decision of a dispute.  Of a case whose resolutions neither overlap *)
(* nor are cut off at most one is under way, and between its two commits   *)
(* it carries the decision that the dispute is going to have.              *)
(***************************************************************************)
DecisionInv ==
    \A c \in Cases \ unsettled :
        /\ \A g, h \in running : {g.pc, h.pc} \subseteq Resolving /\ g.case = c /\ h.case = c => g = h
        /\ \A h \in running : h.pc = "decide" /\ h.case = c => h.decision = resolution[c]
        /\ \/ dispute[c] = "NONE"
           \/ \E h \in running : h.case = c /\ h.pc \in Resolving
           \/ dispute[c] = IF resolution[c] = "NONE" THEN "OPEN" ELSE resolution[c]

\* Steps that touch neither decisions nor who makes them.
LEMMA DecisionKept ==
    ASSUME TypeInv, DecisionInv, unsettled \subseteq unsettled', Cases \subseteq Cases',
           \A c \in Cases : dispute'[c] = dispute[c] /\ resolution'[c] = resolution[c],
           \A c \in Cases' \ Cases : dispute'[c] \in {"NONE", "OPEN"} /\ resolution'[c] = "NONE",
           \A h \in running' : h.pc \in Resolving => h \in running,
           \A h \in running : h.pc \in Resolving => h \in running' \/ h.case \in unsettled'
    PROVE  DecisionInv'
<1> SUFFICES ASSUME NEW c \in Cases' \ unsettled'
             PROVE  /\ \A g, h \in running' : {g.pc, h.pc} \subseteq Resolving /\ g.case = c /\ h.case = c => g = h
                    /\ \A h \in running' : h.pc = "decide" /\ h.case = c => h.decision = resolution'[c]
                    /\ \/ dispute'[c] = "NONE"
                       \/ \E h \in running' : h.case = c /\ h.pc \in Resolving
                       \/ dispute'[c] = IF resolution'[c] = "NONE" THEN "OPEN" ELSE resolution'[c]
    BY DEF DecisionInv
<1>1. CASE c \in Cases
    BY <1>1 DEF DecisionInv, Resolving
<1>2. CASE c \notin Cases
  <2>1. \A h \in running : h.pc \in Resolving => h.case \in Cases
      BY DEF TypeInv, HandlerOK, Resolving
  <2> QED
      BY <1>2, <2>1 DEF Resolving
<1> QED
    BY <1>1, <1>2

LEMMA DecisionStarts ==
    ASSUME TypeInv, DecisionInv, NEW g, NEW label, NEW c, NEW m, Starts(g, label, c, m), label \notin Resolving,
           unsettled' = unsettled
    PROVE  DecisionInv'
BY DecisionKept, Zenon DEF Starts, caseVars

LEMMA DecisionResolves ==
    ASSUME TypeInv, DecisionInv, NEW c \in Cases, NEW d \in Decision, BeginResolve(c, d)
    PROVE  DecisionInv'
<1>1. PICK g : Starts(g, "resolve", c, Nobody)
    BY ResolveStarts
<1>2. /\ running' = running \cup {g} /\ g.pc = "resolve" /\ g.case = c /\ Cases' = Cases
      /\ dispute' = dispute /\ resolution' = resolution
    BY <1>1 DEF Starts, caseVars
<1>3. unsettled' = IF \E h \in running : h.case = c /\ h.pc \in Resolving THEN unsettled \cup {c} ELSE unsettled \ {c}
    BY DEF BeginResolve, Under, Resolving
<1> SUFFICES ASSUME NEW k \in Cases \ unsettled'
             PROVE  /\ \A e, h \in running' : {e.pc, h.pc} \subseteq Resolving /\ e.case = k /\ h.case = k => e = h
                    /\ \A h \in running' : h.pc = "decide" /\ h.case = k => h.decision = resolution[k]
                    /\ \/ dispute[k] = "NONE"
                       \/ \E h \in running' : h.case = k /\ h.pc \in Resolving
                       \/ dispute[k] = IF resolution[k] = "NONE" THEN "OPEN" ELSE resolution[k]
    BY <1>2 DEF DecisionInv
<1>4. CASE k # c
  <2>1. k \notin unsettled
      BY <1>3, <1>4
  <2> QED
      BY <1>2, <1>4, <2>1 DEF DecisionInv
<1>5. CASE k = c
  <2>1. \A h \in running : ~(h.case = c /\ h.pc \in Resolving)
      BY <1>3, <1>5
  <2> QED
      BY <1>2, <1>5, <2>1 DEF Resolving
<1> QED
    BY <1>4, <1>5

LEMMA DecisionRecorded ==
    ASSUME TypeInv, DecisionInv, NEW h \in running, ResolveCase(h)
    PROVE  DecisionInv'
<1> DEFINE c == h.case
           g == [h EXCEPT !.pc = "decide"]
<1>1. /\ h \in HandlerRow /\ h.pc = "resolve" /\ c \in Cases /\ h.decision \in Decision
      /\ dispute' = dispute /\ unsettled' = unsettled
      /\ resolution' = [resolution EXCEPT ![c] = h.decision] /\ resolution \in [Cases -> CaseResolution]
      /\ running' = IF dispute[c] = "NONE" THEN running \ {h} ELSE (running \ {h}) \cup {g}
    BY DEF ResolveCase, historyVars, Finish, Become, TypeInv, TypeOK, HandlerOK, Resolving
<1>2. Cases' = Cases
    BY CommitKeeps DEF ResolveCase, historyVars, Resolving
<1>3. g.pc = "decide" /\ g.case = c /\ g.decision = h.decision
    BY <1>1 DEF HandlerRow
<1>4. resolution'[c] = h.decision /\ \A k \in Cases \ {c} : resolution'[k] = resolution[k]
    BY <1>1
<1> HIDE DEF g, c
<1> SUFFICES ASSUME NEW k \in Cases \ unsettled
             PROVE  /\ \A e, f \in running' : {e.pc, f.pc} \subseteq Resolving /\ e.case = k /\ f.case = k => e = f
                    /\ \A f \in running' : f.pc = "decide" /\ f.case = k => f.decision = resolution'[k]
                    /\ \/ dispute[k] = "NONE"
                       \/ \E f \in running' : f.case = k /\ f.pc \in Resolving
                       \/ dispute[k] = IF resolution'[k] = "NONE" THEN "OPEN" ELSE resolution'[k]
    BY <1>1, <1>2 DEF DecisionInv
<1>5. CASE k # c
  <2>1. /\ \A f \in running' : f.case = k => f \in running
        /\ \A f \in running : f.case = k => f \in running'
      BY <1>1, <1>3, <1>5 DEF c
  <2> QED
      BY <1>4, <1>5, <2>1 DEF DecisionInv
<1>6. CASE k = c
  <2>1. \A f \in running : f.pc \in Resolving /\ f.case = c => f = h
      BY <1>1, <1>6 DEF DecisionInv, Resolving, c
  <2>2. \A f \in running' : f.pc \in Resolving /\ f.case = c => f = g /\ dispute[c] # "NONE"
      BY <1>1, <2>1
  <2>3. dispute[c] # "NONE" => g \in running' /\ g.pc \in Resolving
      BY <1>1, <1>3 DEF Resolving
  <2> QED
      BY <1>3, <1>4, <1>6, <2>2, <2>3 DEF Resolving
<1> QED
    BY <1>5, <1>6

LEMMA DecisionReaches ==
    ASSUME TypeInv, DecisionInv, NEW h \in running, DecideDispute(h)
    PROVE  DecisionInv'
<1> DEFINE c == h.case
<1>1. /\ h.pc = "decide" /\ c \in Cases /\ dispute \in [Cases -> Dispute]
      /\ dispute' = [dispute EXCEPT ![c] = h.decision] /\ running' = running \ {h}
      /\ resolution' = resolution /\ unsettled' = unsettled /\ Cases' = Cases
    BY DEF DecideDispute, Finish, historyVars, TypeInv, TypeOK, HandlerOK, Cases
<1>2. dispute'[c] = h.decision /\ \A k \in Cases \ {c} : dispute'[k] = dispute[k]
    BY <1>1
<1> SUFFICES ASSUME NEW k \in Cases \ unsettled
             PROVE  /\ \A e, f \in running' : {e.pc, f.pc} \subseteq Resolving /\ e.case = k /\ f.case = k => e = f
                    /\ \A f \in running' : f.pc = "decide" /\ f.case = k => f.decision = resolution[k]
                    /\ \/ dispute'[k] = "NONE"
                       \/ \E f \in running' : f.case = k /\ f.pc \in Resolving
                       \/ dispute'[k] = IF resolution[k] = "NONE" THEN "OPEN" ELSE resolution[k]
    BY <1>1 DEF DecisionInv
<1>3. CASE k # c
  <2>1. /\ \A f \in running' : f \in running
        /\ \A f \in running : f.case = k => f \in running'
      BY <1>1, <1>3
  <2> QED
      BY <1>2, <1>3, <2>1 DEF DecisionInv
<1>4. CASE k = c
  <2>1. h.decision = resolution[c]
      BY <1>1, <1>4 DEF DecisionInv
  <2> QED
      BY <1>1, <1>2, <1>4, <2>1 DEF DecisionInv
<1> QED
    BY <1>3, <1>4

LEMMA DecisionInserts ==
    ASSUME TypeInv, DecisionInv, NEW row \in SupportCase, NEW disputed \in {"NONE", "OPEN"}, Insert(row, disputed),
           unsettled' = unsettled, running' \subseteq running,
           \A h \in running : h.pc \in Resolving => h \in running'
    PROVE  DecisionInv'
<1>1. disputed \in Dispute
    BY DEF Dispute
<1>2. /\ Cases' = Cases \cup {Len(case) + 1}
      /\ dispute'[Len(case) + 1] = disputed /\ resolution'[Len(case) + 1] = "NONE"
      /\ \A c \in Cases : dispute'[c] = dispute[c] /\ resolution'[c] = resolution[c]
    BY <1>1, Inserts
<1> QED
    BY <1>2, DecisionKept

LEMMA DecisionNext == TypeInv /\ DecisionInv /\ [Next]_vars => DecisionInv'
<1> SUFFICES ASSUME TypeInv, DecisionInv, [Next]_vars
             PROVE  DecisionInv'
    OBVIOUS
<1>1. ASSUME NEW h \in running, Step(h)
      PROVE  DecisionInv'
  <2>1. CASE CreateCase(h)
    <3>1. h.row \in SupportCase /\ Insert(h.row, "NONE") /\ h.pc \notin Resolving
        BY <2>1 DEF CreateCase, TypeInv, TypeOK, HandlerRow, Resolving
    <3> QED
        BY <2>1, <3>1, DecisionInserts DEF CreateCase, Finish, historyVars
  <2>2. CASE InsertMessage(h)
    <3>1. Cases' = Cases /\ h.pc \notin Resolving
        BY <2>2, CommitKeeps DEF InsertMessage, Resolving
    <3> QED
        BY <2>2, <3>1, DecisionKept DEF InsertMessage, Finish
  <2>3. CASE Assign(h)
    <3>1. Cases' = Cases /\ h.pc \notin Resolving
        BY <2>3, CommitKeeps DEF Assign, Resolving
    <3> QED
        BY <2>3, <3>1, DecisionKept DEF Assign, Finish
  <2>4. CASE AttachUser(h)
    <3>1. Cases' = Cases /\ h.pc \notin Resolving
        BY <2>4, CommitKeeps DEF AttachUser, Resolving
    <3> QED
        BY <2>4, <3>1, DecisionKept DEF AttachUser, Finish
  <2>5. CASE Unassign(h)
    <3>1. Cases' = Cases /\ h.pc \notin Resolving
        BY <2>5 DEF Unassign, caseVars, Cases, Resolving
    <3>2. [h EXCEPT !.pc = "assign", !.rows = OpenRows(h.case)].pc \notin Resolving
        BY DEF TypeInv, TypeOK, HandlerRow, Resolving
    <3>3. /\ \A k \in running' : k.pc \in Resolving => k \in running
          /\ \A k \in running : k.pc \in Resolving => k \in running'
        BY <2>5, <3>1, <3>2 DEF Unassign, Become
    <3> QED
        BY <2>5, <3>1, <3>3, DecisionKept DEF Unassign, caseVars, historyVars
  <2> QED
      BY <1>1, <2>1, <2>2, <2>3, <2>4, <2>5, DecisionRecorded, DecisionReaches DEF Step
<1>2. ASSUME NEW c \in Cases, (\E s \in CaseStatus : SetStatus(c, s)) \/ EscalateDispute(c)
      PROVE  DecisionInv'
  <2>1. /\ Cases' = Cases /\ running' = running /\ unsettled' = unsettled
        /\ dispute' = dispute /\ resolution' = resolution
      BY <1>2, EditKeeps
  <2> QED
      BY <2>1, DecisionKept
<1>3. ASSUME NEW c \in Cases, NEW new, NEW m, SendMessage(c, new, m)
      PROVE  DecisionInv'
  <2>1. unsettled' = unsettled /\ "message" \notin Resolving
      BY <1>3 DEF SendMessage, Resolving
  <2> QED
      BY <1>3, <2>1, MessageStarts, DecisionStarts
<1>4. ASSUME NEW u \in User, UserRequest(u)
      PROVE  DecisionInv'
  <2>1. ASSUME NEW about \in BOOLEAN, BeginCreateCase(u, about)
        PROVE  DecisionInv'
    <3>1. unsettled' = unsettled /\ "create" \notin Resolving
        BY <2>1 DEF BeginCreateCase, Resolving
    <3> QED
        BY <2>1, <3>1, CreateStarts, DecisionStarts
  <2>2. CASE OpenDispute(u)
    <3>1. Opened(u, TRUE) \in SupportCase
        BY DEF Opened, NewCase, SupportCase, CaseStatus, OpenStatus, User
    <3> QED
        BY <2>2, <3>1, DecisionInserts DEF OpenDispute
  <2> QED
      BY <1>2, <1>3, <1>4, <2>1, <2>2
         DEF UserRequest, BeginUserMessage, CloseCase, ReopenCase, CaseStatus, OpenStatus, ClosedStatus
<1>5. ASSUME NEW c \in Cases, AgentRequest(c)
      PROVE  DecisionInv'
  <2>1. ASSUME NEW a \in Agent, NEW o \in BOOLEAN, BeginAssign(a, c, o)
        PROVE  DecisionInv'
    <3>1. (IF case[c].agent = Nobody THEN "assign" ELSE "unassign") \notin Resolving
        BY DEF Resolving
    <3>2. unsettled' = unsettled
        BY <2>1 DEF BeginAssign
    <3> QED
        BY <2>1, <3>1, <3>2, AssignStarts, DecisionStarts
  <2>2. ASSUME NEW a \in Agent, NEW u \in User, BeginAttachUser(a, c, u)
        PROVE  DecisionInv'
    <3>1. unsettled' = unsettled /\ "attach" \notin Resolving
        BY <2>2 DEF BeginAttachUser, historyVars, Resolving
    <3> QED
        BY <2>2, <3>1, AttachStarts, DecisionStarts
  <2>3. \A a \in Agent : (a \in Super) \in BOOLEAN
      OBVIOUS
  <2>4. \A s \in GivenStatus : s \in CaseStatus
      BY ConstantsAssumption
  <2> QED
      BY <1>2, <1>3, <1>5, <2>1, <2>2, <2>3, <2>4, DecisionResolves
         DEF AgentRequest, BeginAgentMessage, AgentMessageWithStatus, UpdateCase, ClaimCase, AssignCase
<1>6. ASSUME NEW c \in Cases, NEW e \in Email, BeginEmail(e, c)
      PROVE  DecisionInv'
    BY <1>3, <1>6 DEF BeginEmail
<1>7. CASE Crash
  <2> PICK h \in running : /\ running' = running \ {h}
                           /\ unsettled' = IF h.pc \in Resolving THEN unsettled \cup {h.case} ELSE unsettled
      BY <1>7 DEF Crash, Finish, Resolving
  <2>1. Cases' = Cases /\ dispute' = dispute /\ resolution' = resolution
      BY <1>7 DEF Crash, caseVars, Cases
  <2> QED
      BY <2>1, DecisionKept
<1>8. CASE UNCHANGED vars
  <2>1. Cases' = Cases /\ UNCHANGED <<dispute, resolution, running, unsettled>>
      BY <1>8 DEF vars, caseVars, historyVars, Cases
  <2> QED
      BY <2>1, DecisionKept
<1> QED
    BY <1>1, <1>4, <1>5, <1>6, <1>7, <1>8 DEF Next

\* A dispute carries the decision of the case's latest resolution, and none
\* before the first, except while a resolution is between its two commits;
\* two at once, or one cut off between them, may leave another decision.
THEOREM DisputesFollow == Spec => []DecisionFollowsResolution
<1>1. Init => DecisionInv
  <2>1. Init => Cases = {}
      BY EmptySeq DEF Init, Cases
  <2> QED
      BY <2>1 DEF DecisionInv
<1>2. DecisionInv => DecisionFollowsResolution
    BY DEF DecisionInv, DecisionFollowsResolution, Under, Resolving
<1> QED
    BY <1>1, <1>2, TypeInit, TypeNext, DecisionNext, PTL DEF Spec

-----------------------------------------------------------------------------
(***************************************************************************)
(* One message for an e-mail.  Of an e-mail whose deliveries do not        *)
(* overlap at most one is under way, and only before it is recorded.       *)
(***************************************************************************)
MailInv ==
    \A e \in Email \ doubled :
        /\ \A g, h \in running : g.mail = e /\ h.mail = e => g = h
        /\ \A h \in running : h.mail = e => mails[e] = 0
        /\ mails[e] <= 1

\* Steps that record no Message-ID, of requests that keep theirs.
LEMMA MailKept ==
    ASSUME MailInv, mails' = mails, doubled \subseteq doubled',
           \A h \in running' : h.mail = Nobody \/ h \in running
    PROVE  MailInv'
<1>1. \A e \in Email : e # Nobody
    BY ConstantsAssumption
<1> QED
    BY <1>1 DEF MailInv

LEMMA MailStarts ==
    ASSUME MailInv, NEW g, NEW label, NEW c, Starts(g, label, c, Nobody), doubled \subseteq doubled'
    PROVE  MailInv'
BY MailKept, Zenon DEF Starts

LEMMA MailArrives ==
    ASSUME TypeInv, MailInv, NEW c \in Cases, NEW e \in Email, BeginEmail(e, c)
    PROVE  MailInv'
<1>1. PICK g : Starts(g, "message", c, e)
    BY MessageStarts DEF BeginEmail
<1>2. running' = running \cup {g} /\ g.mail = e /\ mails' = mails
    BY <1>1 DEF Starts
<1>3. /\ doubled' = IF \E h \in running : h.mail = e THEN doubled \cup {e} ELSE doubled
      /\ mails[e] = 0
    BY DEF BeginEmail, Known, TypeInv, TypeOK
<1> SUFFICES ASSUME NEW m \in Email \ doubled'
             PROVE  /\ \A k, h \in running' : k.mail = m /\ h.mail = m => k = h
                    /\ \A h \in running' : h.mail = m => mails[m] = 0
                    /\ mails[m] <= 1
    BY <1>2 DEF MailInv
<1>4. CASE m # e
    BY <1>2, <1>3, <1>4 DEF MailInv
<1>5. CASE m = e
    BY <1>2, <1>3, <1>5
<1> QED
    BY <1>4, <1>5

LEMMA MailRecorded ==
    ASSUME TypeInv, MailInv, NEW h \in running, InsertMessage(h)
    PROVE  MailInv'
<1>1. /\ mails' = IF h.mail = Nobody THEN mails ELSE [mails EXCEPT ![h.mail] = @ + 1]
      /\ running' = running \ {h} /\ doubled' = doubled /\ mails \in [Email -> Nat]
    BY DEF InsertMessage, Finish, TypeInv, TypeOK
<1> SUFFICES ASSUME NEW m \in Email \ doubled
             PROVE  /\ \A k, g \in running' : k.mail = m /\ g.mail = m => k = g
                    /\ \A g \in running' : g.mail = m => mails'[m] = 0
                    /\ mails'[m] <= 1
    BY <1>1 DEF MailInv
<1>2. m # Nobody
    BY ConstantsAssumption
<1>3. CASE h.mail = m
  <2>1. mails[m] = 0 /\ \A g \in running' : g.mail # m
      BY <1>1, <1>3 DEF MailInv
  <2>2. mails'[m] = 1
      BY <1>1, <1>2, <1>3, <2>1
  <2> QED
      BY <2>1, <2>2
<1>4. CASE h.mail # m
  <2>1. mails'[m] = mails[m]
      BY <1>1, <1>4
  <2> QED
      BY <1>1, <2>1 DEF MailInv
<1> QED
    BY <1>3, <1>4

LEMMA MailNext == TypeInv /\ MailInv /\ [Next]_vars => MailInv'
<1> SUFFICES ASSUME TypeInv, MailInv, [Next]_vars
             PROVE  MailInv'
    OBVIOUS
<1>1. ASSUME NEW h \in running, Step(h)
      PROVE  MailInv'
  <2>1. CASE CreateCase(h) \/ Assign(h) \/ DecideDispute(h) \/ AttachUser(h)
      BY <2>1, MailKept DEF CreateCase, Assign, DecideDispute, AttachUser, Finish, historyVars
  <2>2. ASSUME Unassign(h) \/ ResolveCase(h)
        PROVE  MailInv'
    <3>1. h.pc \in {"unassign", "resolve"} /\ h \in HandlerRow
        BY <2>2 DEF Unassign, ResolveCase, TypeInv, TypeOK
    <3> DEFINE g == IF h.pc = "resolve" THEN [h EXCEPT !.pc = "decide"]
                                        ELSE [h EXCEPT !.pc = "assign", !.rows = OpenRows(h.case)]
    <3>2. g.mail = h.mail
        BY <3>1 DEF HandlerRow
    <3>3. running' = running \ {h} \/ running' = (running \ {h}) \cup {g}
        BY <2>2 DEF Unassign, ResolveCase, Become, Finish
    <3>4. mails' = mails /\ doubled' = doubled
        BY <2>2 DEF Unassign, ResolveCase, historyVars
    <3> HIDE DEF g
    <3> QED
        BY <3>2, <3>3, <3>4 DEF MailInv
  <2> QED
      BY <1>1, <2>1, <2>2, MailRecorded DEF Step
<1>2. ASSUME NEW c \in Cases, (\E s \in CaseStatus : SetStatus(c, s)) \/ EscalateDispute(c)
      PROVE  MailInv'
  <2>1. running' = running /\ mails' = mails /\ doubled' = doubled
      BY <1>2, EditKeeps
  <2> QED
      BY <2>1, MailKept
<1>3. ASSUME NEW c \in Cases, NEW new, SendMessage(c, new, Nobody), UNCHANGED doubled
      PROVE  MailInv'
    BY <1>3, MessageStarts, MailStarts
<1>4. ASSUME NEW u \in User, UserRequest(u)
      PROVE  MailInv'
  <2>1. ASSUME NEW about \in BOOLEAN, BeginCreateCase(u, about)
        PROVE  MailInv'
    <3>1. doubled \subseteq doubled'
        BY <2>1 DEF BeginCreateCase
    <3> QED
        BY <2>1, <3>1, CreateStarts, MailStarts
  <2>2. CASE OpenDispute(u)
      BY <2>2, MailKept DEF OpenDispute
  <2> QED
      BY <1>2, <1>3, <1>4, <2>1, <2>2
         DEF UserRequest, BeginUserMessage, CloseCase, ReopenCase, CaseStatus, OpenStatus, ClosedStatus
<1>5. ASSUME NEW c \in Cases, AgentRequest(c)
      PROVE  MailInv'
  <2>1. ASSUME NEW a \in Agent, NEW o \in BOOLEAN, BeginAssign(a, c, o)
        PROVE  MailInv'
    <3>1. doubled \subseteq doubled'
        BY <2>1 DEF BeginAssign
    <3> QED
        BY <2>1, <3>1, AssignStarts, MailStarts
  <2>2. ASSUME NEW a \in Agent, NEW u \in User, BeginAttachUser(a, c, u)
        PROVE  MailInv'
      BY <2>2, AttachStarts, MailStarts DEF BeginAttachUser, historyVars
  <2>3. ASSUME NEW d \in Decision, BeginResolve(c, d)
        PROVE  MailInv'
      BY <2>3, ResolveStarts, MailStarts DEF BeginResolve
  <2>4. \A a \in Agent : (a \in Super) \in BOOLEAN
      OBVIOUS
  <2>5. \A s \in GivenStatus : s \in CaseStatus
      BY ConstantsAssumption
  <2> QED
      BY <1>2, <1>3, <1>5, <2>1, <2>2, <2>3, <2>4, <2>5
         DEF AgentRequest, BeginAgentMessage, AgentMessageWithStatus, UpdateCase, ClaimCase, AssignCase
<1>6. CASE Crash \/ UNCHANGED vars
  <2>1. running' \subseteq running /\ mails' = mails /\ doubled' = doubled
      BY <1>6 DEF Crash, Finish, vars, historyVars
  <2> QED
      BY <2>1, MailKept
<1> QED
    BY <1>1, <1>4, <1>5, <1>6, MailArrives DEF Next

\* However often an e-mail is delivered it becomes one message, unless two
\* deliveries were under way at once.
THEOREM OneMessagePerEmail == Spec => []EmailOnce
<1>1. Init => MailInv
    BY DEF Init, MailInv
<1>2. TypeInv /\ MailInv => EmailOnce
    BY DEF TypeInv, TypeOK, MailInv, EmailOnce
<1> QED
    BY <1>1, <1>2, TypeInit, TypeNext, MailNext, PTL DEF Spec
=============================================================================
