-------------------------- MODULE OnboardingProofs --------------------------
(***************************************************************************)
(* Type correctness and the safety theorems of OnboardingSystem.           *)
(***************************************************************************)
EXTENDS OnboardingSystem, FiniteSetTheorems, SequenceTheorems, TLAPS

-----------------------------------------------------------------------------
(***************************************************************************)
(* Types.  Besides the type of its row a request has the rows that it is   *)
(* going to change, and its target is one of its provider's.               *)
(***************************************************************************)
Confirmation == {"count", "compare", "flag"}

HandlerOK(h) ==
    /\ h.pc \in Confirmation \cup {"generate", "send"} => h.target \in Phone \cup {h.user}
    /\ h.pc = "change_phone" => h.target \in Phone /\ h.n \in {0, 1}
    /\ h.pc \in {"approve", "reject"} => h.k \in DOMAIN kyc[h.user]
    /\ h.pc \in {"pass", "fail"} => h.k \in DOMAIN guarantor[h.user]
    /\ h.pc = "judge" => h.k \in DOMAIN interview[h.user] /\ h.to \in InterviewStatus
    /\ h.pc \in {"save_tier", "save_profile"} => h.k \in {2, 3}
    /\ h.pc = "sync" => h.row.tier \in 4 .. 7

TypeInv ==
    /\ TypeOK
    /\ IsFiniteSet(running)
    /\ \A h \in running : HandlerOK(h)

RowsTyped ==
    /\ account \in [Provider -> Account]
    /\ profile \in [Provider -> Profile]
    /\ kyc \in [Provider -> Seq(Document)]
    /\ guarantor \in [Provider -> Seq(ReviewStatus)]
    /\ interview \in [Provider -> Seq(InterviewStatus)]
    /\ otp \in [Target -> Otp]
    /\ codes \in Nat /\ changes \in Nat /\ reviews \in Nat
    /\ confirmed \in [Provider -> SUBSET Target]
    /\ overtaken \in [Provider -> SUBSET Phone]
    /\ stages \in [Provider -> SUBSET {"kyc", "guarantor", "interview"}]
    /\ crossed \subseteq Provider

LEMMA NewProfileTyped == NewProfile \in Profile
BY DEF NewProfile, Profile, KYCStatus, OnboardingStep

\* A copy has the columns that it is asked for.
LEMMA CopyTyped ==
    ASSUME TypeInv, NEW v \in Provider, NEW fields
    PROVE  /\ Copy(v, fields) \in Profile
           /\ "kyc" \in fields => Copy(v, fields).kyc = profile[v].kyc
           /\ "step" \in fields => Copy(v, fields).step = profile[v].step
           /\ "tier" \in fields => Copy(v, fields).tier = profile[v].tier
<1>1. profile[v] \in Profile
    BY DEF TypeInv, TypeOK
<1> DEFINE a == IF "kyc" \in fields THEN profile[v].kyc ELSE NewProfile.kyc
           b == IF "step" \in fields THEN profile[v].step ELSE NewProfile.step
           c == IF "tier" \in fields THEN profile[v].tier ELSE NewProfile.tier
<1>2. Copy(v, fields) = [NewProfile EXCEPT !.kyc = a, !.step = b, !.tier = c]
    BY DEF Copy, NewProfile
<1>3. a \in KYCStatus /\ b \in OnboardingStep /\ c \in 1 .. 8
    BY <1>1, NewProfileTyped DEF Profile
<1> HIDE DEF a, b, c
<1>4. Copy(v, fields) = [exists |-> 0, kyc |-> a, step |-> b, tier |-> c]
    BY <1>2 DEF NewProfile
<1>5. Copy(v, fields) \in Profile
    BY <1>3, <1>4 DEF Profile
<1>6. Copy(v, fields).kyc = a /\ Copy(v, fields).step = b /\ Copy(v, fields).tier = c
    BY <1>4
<1> QED
    BY <1>5, <1>6 DEF a, b, c

LEMMA FreeIds ==
    ASSUME IsFiniteSet(running), Cardinality(running) < MaxRunning
    PROVE  FreeId \in Nat /\ \A h \in running : h.id # FreeId
<1> DEFINE Ids == 1 .. MaxRunning
<1>1. MaxRunning \in Nat
    BY ConstantsAssumption
<1>2. IsFiniteSet(Ids) /\ Cardinality(Ids) = MaxRunning
    BY <1>1, FS_Interval
<1> HIDE DEF Ids
<1>3. \E i \in Ids : \A h \in running : h.id # i
  <2> SUFFICES ASSUME \A i \in Ids : \E h \in running : h.id = i
               PROVE  FALSE
      OBVIOUS
  <2> DEFINE f == [i \in Ids |-> CHOOSE h \in running : h.id = i]
  <2>1. \A i \in Ids : f[i] \in running /\ f[i].id = i
      OBVIOUS
  <2>2. f \in [Ids -> running]
      BY <2>1
  <2> HIDE DEF f
  <2>3. \E i, j \in Ids : i # j /\ f[i] = f[j]
      BY <1>2, <2>2, FS_PigeonHole
  <2> QED
      BY <2>1, <2>3
<1>4. FreeId \in Ids /\ \A h \in running : h.id # FreeId
    BY <1>3 DEF FreeId, Ids
<1> QED
    BY <1>1, <1>4 DEF Ids

\* A request that begins: whose it is, and with which columns.
Opens(g, label, v) ==
    /\ g \in HandlerRow /\ g.pc = label /\ g.user = v
    /\ running' = running \cup {g} /\ IsFiniteSet(running')
    /\ \A h \in running : h.id # g.id

\* A request that goes on.
Turns(h, g, label) ==
    /\ g \in HandlerRow /\ g.pc = label /\ g.user = h.user /\ g.id = h.id
    /\ running' = (running \ {h}) \cup {g} /\ IsFiniteSet(running')

Ends(h) == running' = running \ {h} /\ IsFiniteSet(running')

LEMMA NewTyped ==
    ASSUME TypeInv, NEW label \in Label, NEW v \in Provider, NEW i \in Nat
    PROVE  LET g == Blank(label, v, i)
           IN  g \in HandlerRow /\ g.pc = label /\ g.user = v /\ g.id = i
<1> DEFINE targets == Target \cup {NoTarget}
           documents == Seq(ReviewStatus \cup InterviewStatus)
           results == InterviewStatus \cup {""}
           zero == 0
           none == <<>>
           any == ""
           g == Blank(label, v, i)
<1>1. g = [pc |-> label, id |-> i, user |-> v, target |-> NoTarget, k |-> zero, n |-> zero, docs |-> none,
           row |-> NewProfile, to |-> any]
    BY DEF Blank
<1>2. zero \in Nat /\ NoTarget \in targets /\ none \in documents /\ any \in results
    BY EmptySeq
<1>3. HandlerRow = [pc: Label, id: Nat, user: Provider, target: targets, k: Nat, n: Nat, docs: documents,
                    row: Profile, to: results]
    BY DEF HandlerRow
<1> HIDE DEF targets, documents, results, zero, none, any, g
<1>4. g \in [pc: Label, id: Nat, user: Provider, target: targets, k: Nat, n: Nat, docs: documents,
             row: Profile, to: results]
    BY <1>1, <1>2, NewProfileTyped
<1>5. g.pc = label /\ g.user = v /\ g.id = i
    BY <1>1
<1> QED
    BY <1>3, <1>4, <1>5 DEF g

LEMMA FirstTyped ==
    ASSUME TypeInv, NEW label \in Label, NEW v \in Provider, Cardinality(running) < MaxRunning
    PROVE  New(label, v) \in HandlerRow /\ New(label, v).pc = label /\ New(label, v).user = v /\ New(label, v).id = FreeId
<1>1. FreeId \in Nat
    BY FreeIds DEF TypeInv
<1> QED
    BY <1>1, NewTyped DEF New

LEMMA OpensBy ==
    ASSUME TypeInv, NEW g \in HandlerRow, g.id = FreeId, NEW label, NEW v, g.pc = label, g.user = v, Run(g)
    PROVE  Opens(g, label, v)
<1>1. running' = running \cup {g} /\ IsFiniteSet(running')
    BY FS_AddElement DEF Run, TypeInv
<1>2. \A h \in running : h.id # FreeId
    BY FreeIds DEF Run, TypeInv
<1> QED
    BY <1>1, <1>2 DEF Opens

LEMMA TurnsBy ==
    ASSUME TypeInv, NEW h \in running, NEW label, NEW g \in HandlerRow, Become(h, g),
           g.id = h.id, g.user = h.user, g.pc = label
    PROVE  Turns(h, g, label)
<1>1. running' = (running \ {h}) \cup {g} /\ IsFiniteSet(running')
    BY FS_AddElement, FS_RemoveElement DEF Become, TypeInv
<1> QED
    BY <1>1 DEF Turns

LEMMA EndsBy ==
    ASSUME TypeInv, NEW h \in running, Finish(h)
    PROVE  Ends(h)
BY FS_RemoveElement DEF Ends, Finish, TypeInv

LEMMA GoesTo ==
    ASSUME TypeInv, NEW h \in running, NEW label \in Label, Goto(h, label)
    PROVE  \E g : /\ Turns(h, g, label) /\ g.target = h.target /\ g.k = h.k /\ g.n = h.n
                  /\ g.row = h.row /\ g.to = h.to
<1> DEFINE g == [h EXCEPT !.pc = label]
<1>1. h \in HandlerRow
    BY DEF TypeInv, TypeOK
<1>2. /\ g \in HandlerRow /\ g.id = h.id /\ g.user = h.user /\ g.pc = label
      /\ g.target = h.target /\ g.k = h.k /\ g.n = h.n /\ g.row = h.row /\ g.to = h.to
    BY <1>1 DEF HandlerRow
<1>3. Become(h, g)
    BY DEF Goto
<1> HIDE DEF g
<1> QED
    BY <1>2, <1>3, TurnsBy

\* Requests keep to the type when they begin, go on and end.
Longer ==
    \A v \in Provider : /\ DOMAIN kyc[v] \subseteq DOMAIN kyc'[v]
                        /\ DOMAIN guarantor[v] \subseteq DOMAIN guarantor'[v]
                        /\ DOMAIN interview[v] \subseteq DOMAIN interview'[v]

LEMMA StayOK ==
    ASSUME TypeInv, Longer
    PROVE  \A h \in running : HandlerOK(h)'
BY DEF TypeInv, TypeOK, HandlerRow, Longer, HandlerOK

LEMMA TypeOpens ==
    ASSUME TypeInv, RowsTyped', Longer, NEW g, NEW label, NEW v, Opens(g, label, v), HandlerOK(g)'
    PROVE  TypeInv'
<1>1. \A h \in running' : HandlerOK(h)'
    BY StayOK DEF Opens
<1> QED
    BY <1>1 DEF Opens, TypeInv, TypeOK, RowsTyped

LEMMA TypeTurns ==
    ASSUME TypeInv, RowsTyped', Longer, NEW h \in running, NEW g, NEW label, Turns(h, g, label), HandlerOK(g)'
    PROVE  TypeInv'
<1>1. \A e \in running' : HandlerOK(e)'
    BY StayOK DEF Turns
<1> QED
    BY <1>1 DEF Turns, TypeInv, TypeOK, RowsTyped

LEMMA TypeEnds ==
    ASSUME TypeInv, RowsTyped', Longer, NEW h \in running, Ends(h)
    PROVE  TypeInv'
<1>1. \A e \in running' : HandlerOK(e)'
    BY StayOK DEF Ends
<1> QED
    BY <1>1 DEF Ends, TypeInv, TypeOK, RowsTyped

LEMMA TypeStays ==
    ASSUME TypeInv, RowsTyped', Longer, UNCHANGED running
    PROVE  TypeInv'
<1>1. \A e \in running' : HandlerOK(e)'
    BY StayOK
<1> QED
    BY <1>1 DEF TypeInv, TypeOK, RowsTyped

-----------------------------------------------------------------------------
(***************************************************************************)
(* What the steps do.  First the requests that begin.                      *)
(***************************************************************************)
\* What is known of a request that begins, by its label.
Asks(g, v) ==
    /\ \E label \in {"add_user", "generate", "count", "change_phone", "upload", "approve", "reject",
                     "add_guarantor", "pass", "fail", "schedule", "judge", "sync"} : Opens(g, label, v)
    /\ g.pc \in {"generate", "count"} => g.target \in Target /\ g.target \in {v, account[v].phone}
    /\ g.pc = "change_phone" => g.target \in Phone /\ g.n \in {0, 1}
    /\ g.pc = "upload" => account[v].verified = {"phone", "email"}
    /\ g.pc \in {"approve", "reject"} => g.k \in DOMAIN kyc[v]
    /\ g.pc \in {"pass", "fail"} => g.k \in DOMAIN guarantor[v]
    /\ g.pc = "schedule" => profile[v].kyc = "VERIFIED"
    /\ g.pc = "judge" => g.k \in DOMAIN interview[v] /\ g.to \in InterviewStatus
    /\ g.pc = "sync" => g.row.tier = profile[v].tier /\ g.row.tier \in 4 .. 7

LEMMA RegisterAsks ==
    ASSUME TypeInv, NEW v \in Provider, BeginRegister(v)
    PROVE  \E g : Asks(g, v)
<1> DEFINE g == New("add_user", v)
<1>1. Run(g)
    BY DEF BeginRegister, Begin
<1>2. g \in HandlerRow /\ g.id = FreeId /\ g.pc = "add_user" /\ g.user = v
    BY <1>1, FirstTyped DEF Run, Label
<1> HIDE DEF g
<1>3. Opens(g, "add_user", v)
    BY <1>1, <1>2, OpensBy
<1> QED
    BY <1>2, <1>3 DEF Asks

LEMMA OtpAsks ==
    ASSUME TypeInv, NEW v \in Provider, NEW t \in Target, BeginRequestOtp(v, t)
    PROVE  \E g : Asks(g, v)
<1> DEFINE n == New("generate", v)
           g == [n EXCEPT !.target = t]
<1>1. Run(g) /\ t \in {v, account[v].phone}
    BY DEF BeginRequestOtp, Holds
<1>2. n \in HandlerRow /\ n.id = FreeId /\ n.pc = "generate" /\ n.user = v
    BY <1>1, FirstTyped DEF Run, Label
<1> HIDE DEF n
<1>3. g \in HandlerRow /\ g.id = FreeId /\ g.pc = "generate" /\ g.user = v /\ g.target = t
    BY <1>2 DEF HandlerRow
<1> HIDE DEF g
<1>4. Opens(g, "generate", v)
    BY <1>1, <1>3, OpensBy
<1> QED
    BY <1>1, <1>3, <1>4 DEF Asks

LEMMA VerifyAsks ==
    ASSUME TypeInv, NEW v \in Provider, NEW t \in Target, NEW k \in {0, 1}, BeginVerifyOtp(v, t, k)
    PROVE  \/ UNCHANGED running /\ Set(t, Spent(t))
           \/ UNCHANGED otp /\ \E g : Asks(g, v)
<1> DEFINE n == New("count", v)
           m == otp[t].tries
           g == [n EXCEPT !.target = t, !.k = k, !.n = m]
<1>0. CASE otp[t].tries >= OtpMaxAttempts
    BY <1>0 DEF BeginVerifyOtp
<1>1. CASE ~(otp[t].tries >= OtpMaxAttempts)
  <2>1. Run(g) /\ t \in {v, account[v].phone} /\ UNCHANGED otp
      BY <1>1 DEF BeginVerifyOtp, Holds
  <2>2. n \in HandlerRow /\ n.id = FreeId /\ n.pc = "count" /\ n.user = v
      BY <2>1, FirstTyped DEF Run, Label
  <2>3. m \in Nat /\ k \in Nat
      BY DEF TypeInv, TypeOK, Otp
  <2> HIDE DEF n, m
  <2>4. g \in HandlerRow /\ g.id = FreeId /\ g.pc = "count" /\ g.user = v /\ g.target = t
      BY <2>2, <2>3 DEF HandlerRow
  <2> HIDE DEF g
  <2>5. Opens(g, "count", v)
      BY <2>1, <2>4, OpensBy
  <2> QED
      BY <2>1, <2>4, <2>5 DEF Asks
<1> QED
    BY <1>0, <1>1

LEMMA PhoneAsks ==
    ASSUME TypeInv, NEW v \in Provider, NEW p \in Phone, BeginChangePhone(v, p)
    PROVE  \E g : Asks(g, v)
<1> DEFINE n == New("change_phone", v)
           m == IF "phone" \in account[v].verified THEN 1 ELSE 0
           g == [n EXCEPT !.target = p, !.n = m]
<1>1. Run(g)
    BY DEF BeginChangePhone
<1>2. n \in HandlerRow /\ n.id = FreeId /\ n.pc = "change_phone" /\ n.user = v
    BY <1>1, FirstTyped DEF Run, Label
<1>3. m \in Nat /\ m \in {0, 1}
    OBVIOUS
<1> HIDE DEF n, m
<1>4. g \in HandlerRow /\ g.id = FreeId /\ g.pc = "change_phone" /\ g.user = v /\ g.target = p /\ g.n = m
    BY <1>2, <1>3 DEF HandlerRow, Target
<1> HIDE DEF g
<1>5. Opens(g, "change_phone", v)
    BY <1>1, <1>4, OpensBy
<1> QED
    BY <1>3, <1>4, <1>5 DEF Asks

LEMMA SubmitAsks ==
    ASSUME TypeInv, NEW v \in Provider, BeginSubmitKyc(v)
    PROVE  \E g : Asks(g, v)
<1> DEFINE n == New("upload", v)
           docs == Statuses(v)
           s == profile[v].kyc
           g == [n EXCEPT !.docs = docs, !.row.kyc = s]
<1>1. Run(g) /\ account[v].verified = {"phone", "email"}
    BY DEF BeginSubmitKyc, MayUpload
<1>2. n \in HandlerRow /\ n.id = FreeId /\ n.pc = "upload" /\ n.user = v
    BY <1>1, FirstTyped DEF Run, Label
<1>3. s \in KYCStatus
    BY DEF TypeInv, TypeOK, Profile
<1>4. docs \in Seq(ReviewStatus \cup InterviewStatus)
  <2> DEFINE m == Len(kyc[v])
             all == ReviewStatus \cup InterviewStatus
  <2>1. kyc[v] \in Seq(Document)
      BY DEF TypeInv, TypeOK
  <2>2. m \in Nat /\ DOMAIN kyc[v] = 1 .. m /\ \A k \in 1 .. m : kyc[v][k].status \in ReviewStatus
    <3>1. m \in Nat /\ DOMAIN kyc[v] = 1 .. m /\ kyc[v] \in [1 .. m -> Document]
        BY <2>1, LenProperties
    <3>2. \A d \in Document : d.status \in ReviewStatus
        BY DEF Document
    <3> QED
        BY <3>1, <3>2
  <2>3. docs \in [1 .. m -> all]
      BY <2>2 DEF Statuses
  <2> HIDE DEF docs, m, all
  <2>4. docs \in Seq(all)
      BY <2>2, <2>3, SeqDef
  <2> QED
      BY <2>4 DEF all
<1> HIDE DEF n, s, docs
<1> DEFINE r == [n.row EXCEPT !.kyc = s]
<1>5. n.row \in Profile
    BY <1>2 DEF HandlerRow
<1>6. r \in Profile
    BY <1>3, <1>5 DEF Profile
<1>7. g = [n EXCEPT !.docs = docs, !.row = r]
    BY <1>2 DEF HandlerRow
<1> HIDE DEF r, g
<1>8. g \in HandlerRow /\ g.id = FreeId /\ g.pc = "upload" /\ g.user = v
    BY <1>2, <1>4, <1>6, <1>7 DEF HandlerRow
<1>9. Opens(g, "upload", v)
    BY <1>1, <1>8, OpensBy DEF g
<1> QED
    BY <1>1, <1>8, <1>9 DEF Asks

LEMMA GuarantorAsks ==
    ASSUME TypeInv, NEW v \in Provider, BeginAddGuarantor(v)
    PROVE  \E g : Asks(g, v)
<1> DEFINE g == New("add_guarantor", v)
<1>1. Run(g)
    BY DEF BeginAddGuarantor, Begin
<1>2. g \in HandlerRow /\ g.id = FreeId /\ g.pc = "add_guarantor" /\ g.user = v
    BY <1>1, FirstTyped DEF Run, Label
<1> HIDE DEF g
<1>3. Opens(g, "add_guarantor", v)
    BY <1>1, <1>2, OpensBy
<1> QED
    BY <1>2, <1>3 DEF Asks

\* Requests that load some columns of the profile.
LEMMA CopyAsks ==
    ASSUME TypeInv, NEW v \in Provider, NEW label \in Label, NEW fields, NEW g,
           g = [New(label, v) EXCEPT !.row = Copy(v, fields)], Run(g)
    PROVE  Opens(g, label, v) /\ ("tier" \in fields => g.row.tier = profile[v].tier)
<1> DEFINE n == New(label, v)
           r == Copy(v, fields)
<1>1. n \in HandlerRow /\ n.id = FreeId /\ n.pc = label /\ n.user = v
    BY FirstTyped DEF Run
<1>2. r \in Profile /\ ("tier" \in fields => r.tier = profile[v].tier)
    BY CopyTyped
<1>3. g = [n EXCEPT !.row = r]
    OBVIOUS
<1> HIDE DEF n, r
<1>4. g \in HandlerRow /\ g.id = FreeId /\ g.pc = label /\ g.user = v /\ g.row = r
    BY <1>1, <1>2, <1>3 DEF HandlerRow
<1> QED
    BY <1>2, <1>4, OpensBy

LEMMA ScheduleAsks ==
    ASSUME TypeInv, NEW v \in Provider, BeginScheduleInterview(v)
    PROVE  \E g : Asks(g, v)
<1> DEFINE g == [New("schedule", v) EXCEPT !.row = Copy(v, {"step"})]
<1>1. Run(g) /\ profile[v].kyc = "VERIFIED"
    BY DEF BeginScheduleInterview
<1>2. Opens(g, "schedule", v)
    BY <1>1, CopyAsks DEF Label
<1> HIDE DEF g
<1> QED
    BY <1>1, <1>2 DEF Asks, Opens

LEMMA SyncAsks ==
    ASSUME TypeInv, NEW v \in Provider, BeginSyncTier(v)
    PROVE  \E g : Asks(g, v)
<1> DEFINE n == New("sync", v)
           r == Copy(v, {"tier"})
           g == [n EXCEPT !.row = r]
<1>1. Run(g) /\ profile[v].tier + 1 \in 5 .. 8 /\ profile[v].tier \in 1 .. 8
    BY DEF BeginSyncTier, TierRules, TypeInv, TypeOK, Profile
<1>2. n \in HandlerRow /\ n.id = FreeId /\ n.pc = "sync" /\ n.user = v
    BY <1>1, FirstTyped DEF Run, Label
<1>3. r \in Profile /\ r.tier = profile[v].tier
    BY CopyTyped
<1> HIDE DEF n, r
<1>4. g \in HandlerRow /\ g.id = FreeId /\ g.pc = "sync" /\ g.user = v /\ g.row = r
    BY <1>2, <1>3 DEF HandlerRow
<1> HIDE DEF g
<1>5. Opens(g, "sync", v)
    BY <1>1, <1>4, OpensBy
<1>6. g.row.tier \in 4 .. 7
    BY <1>1, <1>3, <1>4
<1> QED
    BY <1>3, <1>4, <1>5, <1>6 DEF Asks

LEMMA Single ==
    ASSUME NEW S, NEW s \in S
    PROVE  <<s>> \in Seq(S)
OBVIOUS

\* Requests that judge a row of a history.
LEMMA ReviewAsks ==
    ASSUME TypeInv, NEW v \in Provider, NEW m \in {0, 1}, BeginReviewKyc(v, m)
    PROVE  \E g : Asks(g, v)
<1>1. PICK k \in Latest(v) : Run([New(IF m = 1 THEN "approve" ELSE "reject", v) EXCEPT !.k = k, !.docs = <<kyc[v][k].status>>])
    BY DEF BeginReviewKyc
<1> DEFINE label == IF m = 1 THEN "approve" ELSE "reject"
           s == kyc[v][k].status
           docs == <<s>>
           n == New(label, v)
           g == [n EXCEPT !.k = k, !.docs = docs]
<1>2. Run(g) /\ label \in Label
    BY <1>1 DEF Label
<1>3. kyc[v] \in Seq(Document) /\ k \in DOMAIN kyc[v]
    BY DEF TypeInv, TypeOK, Latest
<1>4. k \in Nat /\ kyc[v][k] \in Document
    BY <1>3, LenProperties
<1>5. s \in ReviewStatus
    BY <1>4 DEF Document
<1>6. docs \in Seq(ReviewStatus \cup InterviewStatus)
    BY <1>5, Single
<1>7. n \in HandlerRow /\ n.id = FreeId /\ n.pc = label /\ n.user = v
    BY <1>2, FirstTyped DEF Run
<1>8. label \in {"approve", "reject"}
    OBVIOUS
<1> HIDE DEF n, docs, s, label
<1>9. g \in HandlerRow /\ g.id = FreeId /\ g.pc = label /\ g.user = v /\ g.k = k
    BY <1>4, <1>6, <1>7 DEF HandlerRow
<1> HIDE DEF g
<1>10. Opens(g, label, v)
    BY <1>2, <1>9, OpensBy
<1>11. g.pc \in {"approve", "reject"}
    BY <1>8, <1>9
<1> QED
    BY <1>3, <1>8, <1>9, <1>10, <1>11, SMT DEF Asks

LEMMA ReferenceAsks ==
    ASSUME TypeInv, NEW v \in Provider, NEW l \in {"pass", "fail"}, BeginReviewGuarantor(v, l)
    PROVE  \E g : Asks(g, v)
<1>1. PICK k \in DOMAIN guarantor[v] : Run([New(l, v) EXCEPT !.k = k, !.docs = <<guarantor[v][k]>>])
    BY DEF BeginReviewGuarantor
<1> DEFINE label == l
           s == guarantor[v][k]
           docs == <<s>>
           n == New(label, v)
           g == [n EXCEPT !.k = k, !.docs = docs]
<1>2. Run(g) /\ label \in Label
    BY <1>1 DEF Label
<1>3. guarantor[v] \in Seq(ReviewStatus) /\ k \in DOMAIN guarantor[v]
    BY DEF TypeInv, TypeOK, Latest
<1>4. k \in Nat /\ guarantor[v][k] \in ReviewStatus
    BY <1>3, LenProperties
<1>5. s \in ReviewStatus
    BY <1>4 DEF Document
<1>6. docs \in Seq(ReviewStatus \cup InterviewStatus)
    BY <1>5, Single
<1>7. n \in HandlerRow /\ n.id = FreeId /\ n.pc = label /\ n.user = v
    BY <1>2, FirstTyped DEF Run
<1>8. label \in {"pass", "fail"}
    OBVIOUS
<1> HIDE DEF n, docs, s, label
<1>9. g \in HandlerRow /\ g.id = FreeId /\ g.pc = label /\ g.user = v /\ g.k = k
    BY <1>4, <1>6, <1>7 DEF HandlerRow
<1> HIDE DEF g
<1>10. Opens(g, label, v)
    BY <1>2, <1>9, OpensBy
<1>11. g.pc \in {"pass", "fail"}
    BY <1>8, <1>9
<1> QED
    BY <1>3, <1>8, <1>9, <1>10, <1>11, SMT DEF Asks

LEMMA InterviewAsks ==
    ASSUME TypeInv, NEW v \in Provider, NEW to \in InterviewStatus, BeginUpdateInterview(v, to)
    PROVE  \E g : Asks(g, v)
<1>1. PICK k \in DOMAIN interview[v] : Run([New("judge", v) EXCEPT !.k = k, !.to = to, !.docs = <<interview[v][k]>>])
    BY DEF BeginUpdateInterview
<1> DEFINE label == "judge"
           s == interview[v][k]
           docs == <<s>>
           n == New(label, v)
           g == [n EXCEPT !.k = k, !.to = to, !.docs = docs]
<1>2. Run(g) /\ label \in Label
    BY <1>1 DEF Label
<1>3. interview[v] \in Seq(InterviewStatus) /\ k \in DOMAIN interview[v]
    BY DEF TypeInv, TypeOK, Latest
<1>4. k \in Nat /\ interview[v][k] \in InterviewStatus
    BY <1>3, LenProperties
<1>5. s \in InterviewStatus
    BY <1>4 DEF Document
<1>6. docs \in Seq(ReviewStatus \cup InterviewStatus)
    BY <1>5, Single
<1>7. n \in HandlerRow /\ n.id = FreeId /\ n.pc = label /\ n.user = v
    BY <1>2, FirstTyped DEF Run
<1>8. label \in {"judge"}
    OBVIOUS
<1> HIDE DEF n, docs, s, label
<1>9. g \in HandlerRow /\ g.id = FreeId /\ g.pc = label /\ g.user = v /\ g.k = k /\ g.to = to
    BY <1>4, <1>6, <1>7 DEF HandlerRow
<1> HIDE DEF g
<1>10. Opens(g, label, v)
    BY <1>2, <1>9, OpensBy
<1>11. g.pc \in {"judge"}
    BY <1>8, <1>9
<1> QED
    BY <1>3, <1>8, <1>9, <1>10, <1>11, SMT DEF Asks

LEMMA Requests ==
    ASSUME TypeInv, NEW v \in Provider, AccountRequest(v) \/ VettingRequest(v)
    PROVE  /\ UNCHANGED <<account, confirmed, overtaken, vettingVars, profile>>
           /\ codes' \in Nat /\ changes' \in Nat /\ reviews' \in Nat
           /\ \/ UNCHANGED otp /\ \E g : Asks(g, v)
              \/ UNCHANGED running /\ \E t \in Target : Set(t, Spent(t))
<1>0. codes \in Nat /\ changes \in Nat /\ reviews \in Nat
    BY DEF TypeInv, TypeOK
<1>1. CASE BeginRegister(v)
    BY <1>0, <1>1, RegisterAsks DEF BeginRegister, otpVars
<1>2. ASSUME NEW t \in Target, BeginRequestOtp(v, t)
      PROVE  /\ UNCHANGED <<account, otp, confirmed, overtaken, vettingVars, profile>>
             /\ codes' \in Nat /\ changes' \in Nat /\ reviews' \in Nat /\ \E g : Asks(g, v)
    BY <1>0, <1>2, OtpAsks DEF BeginRequestOtp
<1>3. ASSUME NEW t \in Target, NEW k \in {0, 1}, BeginVerifyOtp(v, t, k)
      PROVE  /\ UNCHANGED <<account, confirmed, overtaken, vettingVars, profile>>
             /\ codes' \in Nat /\ changes' \in Nat /\ reviews' \in Nat
             /\ \/ UNCHANGED otp /\ \E g : Asks(g, v)
                \/ UNCHANGED running /\ \E u \in Target : Set(u, Spent(u))
    BY <1>0, <1>3, VerifyAsks DEF BeginVerifyOtp
<1>4. ASSUME NEW p \in Phone, BeginChangePhone(v, p)
      PROVE  /\ UNCHANGED <<account, otp, confirmed, overtaken, vettingVars, profile>>
             /\ codes' \in Nat /\ changes' \in Nat /\ reviews' \in Nat /\ \E g : Asks(g, v)
  <2>1. \E g : Asks(g, v)
      BY <1>4, PhoneAsks
  <2> QED
      BY <1>0, <1>4, <2>1 DEF BeginChangePhone, otpVars
<1>5. CASE BeginSubmitKyc(v)
    BY <1>0, <1>5, SubmitAsks DEF BeginSubmitKyc, otpVars
<1>6. CASE BeginAddGuarantor(v)
    BY <1>0, <1>6, GuarantorAsks DEF BeginAddGuarantor, otpVars
<1>7. CASE BeginScheduleInterview(v)
    BY <1>0, <1>7, ScheduleAsks DEF BeginScheduleInterview, otpVars
<1>8. CASE BeginSyncTier(v)
    BY <1>0, <1>8, SyncAsks DEF BeginSyncTier, otpVars
<1>9. ASSUME NEW n \in {0, 1}, BeginReviewKyc(v, n)
      PROVE  /\ UNCHANGED <<account, otp, confirmed, overtaken, vettingVars, profile>>
             /\ codes' \in Nat /\ changes' \in Nat /\ reviews' \in Nat /\ \E g : Asks(g, v)
  <2>1. \E g : Asks(g, v)
      BY <1>9, ReviewAsks
  <2> QED
      BY <1>0, <1>9, <2>1 DEF BeginReviewKyc, Judged, otpVars
<1>10. ASSUME NEW label \in {"pass", "fail"}, BeginReviewGuarantor(v, label)
       PROVE  /\ UNCHANGED <<account, otp, confirmed, overtaken, vettingVars, profile>>
              /\ codes' \in Nat /\ changes' \in Nat /\ reviews' \in Nat /\ \E g : Asks(g, v)
  <2>1. \E g : Asks(g, v)
      BY <1>10, ReferenceAsks
  <2> QED
      BY <1>0, <1>10, <2>1 DEF BeginReviewGuarantor, Judged, otpVars
<1>11. ASSUME NEW s \in InterviewStatus, BeginUpdateInterview(v, s)
       PROVE  /\ UNCHANGED <<account, otp, confirmed, overtaken, vettingVars, profile>>
              /\ codes' \in Nat /\ changes' \in Nat /\ reviews' \in Nat /\ \E g : Asks(g, v)
  <2>1. \E g : Asks(g, v)
      BY <1>11, InterviewAsks
  <2> QED
      BY <1>0, <1>11, <2>1 DEF BeginUpdateInterview, Judged, otpVars
<1>12. CASE AccountRequest(v)
    BY <1>1, <1>2, <1>3, <1>4, <1>12 DEF AccountRequest
<1>13. CASE VettingRequest(v)
    BY <1>5, <1>6, <1>7, <1>8, <1>9, <1>10, <1>11, <1>13 DEF VettingRequest
<1> QED
    BY <1>12, <1>13

-----------------------------------------------------------------------------
(***************************************************************************)
(* Rows that steps write.                                                  *)
(***************************************************************************)
\* A commit to a profile leaves the other columns and the other profiles.
Saves(v, p) ==
    /\ p \in Profile /\ profile' \in [Provider -> Profile] /\ profile'[v] = p
    /\ \A w \in Provider \ {v} : profile'[w] = profile[w]

LEMMA SavesTier ==
    ASSUME TypeInv, NEW h \in running, NEW t \in 1 .. 8, RaiseTier(h, t)
    PROVE  \E p : /\ Saves(h.user, p) /\ p.tier = IF h.row.tier < t THEN t ELSE profile[h.user].tier
                  /\ p.kyc = profile[h.user].kyc
<1> DEFINE v == h.user
           s == IF h.row.tier < t THEN t ELSE profile[v].tier
           p == [profile[v] EXCEPT !.tier = s]
<1>1. v \in Provider /\ profile \in [Provider -> Profile]
    BY DEF TypeInv, TypeOK, HandlerRow
<1>2. profile[v] \in Profile /\ s \in 1 .. 8
    BY <1>1 DEF Profile
<1>3. profile' = [profile EXCEPT ![v] = p]
    BY <1>1 DEF RaiseTier
<1> HIDE DEF s
<1>4. p \in Profile /\ p.tier = s /\ p.kyc = profile[v].kyc
    BY <1>2 DEF Profile
<1> HIDE DEF p, v
<1>5. Saves(v, p)
    BY <1>1, <1>3, <1>4 DEF Saves
<1> QED
    BY <1>4, <1>5 DEF s, v

LEMMA SavesStep ==
    ASSUME TypeInv, NEW h \in running, NEW s \in OnboardingStep, SaveStep(h, s)
    PROVE  \E p : /\ Saves(h.user, p)
                  /\ p.tier = profile[h.user].tier /\ p.kyc = profile[h.user].kyc
<1> DEFINE v == h.user
           w == Written(h.row.step, profile[v].step, s)
           p == [profile[v] EXCEPT !.step = w]
<1>1. v \in Provider /\ profile \in [Provider -> Profile]
    BY DEF TypeInv, TypeOK, HandlerRow
<1>2. profile[v] \in Profile /\ w \in OnboardingStep
    BY <1>1 DEF Profile, Written
<1>3. profile' = [profile EXCEPT ![v] = p]
    BY <1>1 DEF SaveStep
<1> HIDE DEF w
<1>4. p \in Profile /\ p.tier = profile[v].tier /\ p.kyc = profile[v].kyc
    BY <1>2 DEF Profile
<1> HIDE DEF p, v
<1>5. Saves(v, p)
    BY <1>1, <1>3, <1>4 DEF Saves
<1> QED
    BY <1>4, <1>5 DEF v

LEMMA SavesKyc ==
    ASSUME TypeInv, NEW h \in running, SaveKyc(h, "SUBMITTED")
    PROVE  \E p : /\ Saves(h.user, p) /\ p.tier = profile[h.user].tier
                  /\ p.kyc = "VERIFIED" => profile[h.user].kyc = "VERIFIED"
<1> DEFINE v == h.user
           w == Written(h.row.kyc, profile[v].kyc, "SUBMITTED")
           p == [profile[v] EXCEPT !.kyc = w]
<1>1. v \in Provider /\ profile \in [Provider -> Profile]
    BY DEF TypeInv, TypeOK, HandlerRow
<1>2. profile[v] \in Profile /\ w \in KYCStatus /\ (w = "VERIFIED" => profile[v].kyc = "VERIFIED")
    BY <1>1 DEF Profile, Written, KYCStatus, ReviewStatus
<1>3. profile' = [profile EXCEPT ![v] = p]
    BY <1>1 DEF SaveKyc
<1> HIDE DEF w
<1>4. p \in Profile /\ p.tier = profile[v].tier /\ p.kyc = w
    BY <1>2 DEF Profile
<1> HIDE DEF p, v
<1>5. Saves(v, p)
    BY <1>1, <1>3, <1>4 DEF Saves
<1> QED
    BY <1>2, <1>4, <1>5 DEF v

\* One more row in a history, and one that is changed.
LEMMA Appended ==
    ASSUME NEW S, NEW s \in Seq(S), NEW x \in S
    PROVE  /\ Append(s, x) \in Seq(S) /\ DOMAIN s \subseteq DOMAIN Append(s, x)
           /\ \A k \in DOMAIN Append(s, x) : Append(s, x)[k] = x \/ (k \in DOMAIN s /\ Append(s, x)[k] = s[k])
<1>1. Append(s, x) \in Seq(S) /\ Len(Append(s, x)) = Len(s) + 1 /\ Len(s) \in Nat
    BY AppendProperties, LenProperties
<1>2. DOMAIN s = 1 .. Len(s) /\ DOMAIN Append(s, x) = 1 .. Len(s) + 1
    BY <1>1, LenProperties
<1> QED
    BY <1>1, <1>2, AppendProperties

LEMMA Replaced ==
    ASSUME NEW S, NEW s \in Seq(S), NEW x \in S, NEW k \in DOMAIN s
    PROVE  /\ [s EXCEPT ![k] = x] \in Seq(S) /\ DOMAIN [s EXCEPT ![k] = x] = DOMAIN s
           /\ [s EXCEPT ![k] = x][k] = x
           /\ \A j \in DOMAIN s : j # k => [s EXCEPT ![k] = x][j] = s[j]
<1>1. k \in 1 .. Len(s)
    BY LenProperties
<1>2. [s EXCEPT ![k] = x] \in Seq(S)
    BY <1>1, ExceptSeq
<1> QED
    BY <1>2

-----------------------------------------------------------------------------
(***************************************************************************)
(* The steps of accounts.                                                  *)
(***************************************************************************)
LEMMA Rowed ==
    ASSUME TypeInv
    PROVE  /\ RowsTyped
           /\ \A h \in running : h \in HandlerRow /\ h.user \in Provider /\ HandlerOK(h)
BY DEF TypeInv, TypeOK, RowsTyped, HandlerRow

LEMMA RegisterTyped ==
    ASSUME TypeInv, NEW h \in running, RegisterUser(h)
    PROVE  /\ \/ Ends(h)
              \/ \E g : \E label \in {"add_stats", "add_profile"} : Turns(h, g, label)
           /\ UNCHANGED <<otpVars, vettingVars, reviews>>
           /\ profile' \in [Provider -> Profile]
           /\ \A w \in Provider : profile'[w].kyc = profile[w].kyc /\ profile'[w].tier = profile[w].tier
<1>1. h.user \in Provider /\ profile \in [Provider -> Profile]
    BY DEF TypeInv, TypeOK, HandlerRow
<1>2. ASSUME NEW n \in 0 .. 3, AddRow(h.user, n)
      PROVE  /\ profile' \in [Provider -> Profile]
             /\ \A w \in Provider : profile'[w].kyc = profile[w].kyc /\ profile'[w].tier = profile[w].tier
    BY <1>1, <1>2 DEF AddRow, Profile
<1>3. CASE Finish(h) /\ UNCHANGED profile
    BY <1>1, <1>3, EndsBy DEF RegisterUser
<1>4. CASE AddRow(h.user, 1) /\ Goto(h, "add_stats")
    BY <1>2, <1>4, GoesTo DEF RegisterUser, Label
<1>5. CASE AddRow(h.user, 2) /\ Goto(h, "add_profile")
    BY <1>2, <1>5, GoesTo DEF RegisterUser, Label
<1>6. CASE AddRow(h.user, 3) /\ Finish(h)
    BY <1>2, <1>6, EndsBy DEF RegisterUser
<1> QED
    BY <1>3, <1>4, <1>5, <1>6 DEF RegisterUser

LEMMA Targeted ==
    ASSUME TypeInv, NEW h \in running, h.pc \in Confirmation \cup {"generate", "send"}
    PROVE  h.target \in Target
BY DEF TypeInv, TypeOK, HandlerRow, HandlerOK, Target

\* The keys of a target in the cache.
LEMMA KeysTyped ==
    ASSUME TypeInv, NEW t \in Target
    PROVE  /\ NoOtp \in Otp /\ Spent(t) \in Otp /\ ~Spent(t).code /\ otp[t] \in Otp
           /\ [otp[t] EXCEPT !.cooldown = FALSE] \in Otp
           /\ \A n \in Nat : [otp[t] EXCEPT !.tries = n] \in Otp
<1>1. otp[t] \in Otp
    BY DEF TypeInv, TypeOK
<1> DEFINE o == otp[t]
<1>2. NoOtp \in Otp
    BY DEF NoOtp, Otp
<1>3. Spent(t) = [o EXCEPT !.code = FALSE, !.tries = 0]
    BY DEF Spent
<1> HIDE DEF o
<1>4. Spent(t) \in Otp /\ ~Spent(t).code
  <2>1. o \in Otp
      BY <1>1 DEF o
  <2> DEFINE zero == 0
             r == [o EXCEPT !.code = FALSE, !.tries = zero]
  <2>2. zero \in Nat /\ Spent(t) = r
      BY <1>3
  <2> HIDE DEF zero
  <2>3. r \in Otp
      BY <2>1, <2>2 DEF Otp
  <2>4. r.code = FALSE
      BY <2>1 DEF Otp
  <2> HIDE DEF r
  <2> QED
      BY <2>2, <2>3, <2>4
<1>5. [o EXCEPT !.cooldown = FALSE] \in Otp /\ \A n \in Nat : [o EXCEPT !.tries = n] \in Otp
    BY <1>1 DEF Otp, o
<1> QED
    BY <1>1, <1>2, <1>4, <1>5 DEF o

LEMMA KeysSet ==
    ASSUME TypeInv, NEW t \in Target, NEW o \in Otp, Set(t, o)
    PROVE  otp' \in [Target -> Otp] /\ otp'[t] = o /\ \A u \in Target \ {t} : otp'[u] = otp[u]
BY DEF Set, TypeInv, TypeOK

LEMMA GenerateDoes ==
    ASSUME TypeInv, NEW h \in running, GenerateOtp(h)
    PROVE  /\ \E g : Turns(h, g, "send") /\ g.target = h.target
           /\ h.target \in Target /\ otp' \in [Target -> Otp]
           /\ \A t \in Target \ {h.target} : otp'[t] = otp[t]
           /\ otp'[h.target].tries = 0
           /\ UNCHANGED <<account, codes, changes, confirmed, overtaken, vettingVars, profile, reviews>>
<1>1. h.target \in Target
    BY Targeted DEF GenerateOtp, At
<1>2. otp' \in [Target -> Otp] /\ otp'[h.target].tries = 0 /\ \A t \in Target \ {h.target} : otp'[t] = otp[t]
    BY <1>1 DEF GenerateOtp, Set, TypeInv, TypeOK, Otp
<1>3. \E g : Turns(h, g, "send") /\ g.target = h.target
    BY GoesTo DEF GenerateOtp, Label
<1> QED
    BY <1>1, <1>2, <1>3 DEF GenerateOtp

LEMMA SendDoes ==
    ASSUME TypeInv, NEW h \in running, SendOtp(h)
    PROVE  /\ Ends(h) /\ h.pc = "send"
           /\ UNCHANGED otp \/ Set(h.target, NoOtp)
           /\ h.target \in Target
           /\ UNCHANGED <<account, codes, changes, confirmed, overtaken, vettingVars, profile, reviews>>
BY EndsBy, Targeted DEF SendOtp, At

LEMMA CountDoes ==
    ASSUME TypeInv, NEW h \in running, CountAttempt(h)
    PROVE  /\ \E g : Turns(h, g, "compare") /\ g.target = h.target /\ g.n = h.n + 1
           /\ h.pc = "count" /\ h.target \in Target /\ h.n \in Nat
           /\ otp' = [otp EXCEPT ![h.target].tries = h.n + 1]
           /\ UNCHANGED <<account, codes, changes, confirmed, overtaken, vettingVars, profile, reviews>>
<1> DEFINE m == h.n + 1
           g == [h EXCEPT !.pc = "compare", !.n = m]
<1>0. h \in HandlerRow
    BY DEF TypeInv, TypeOK
<1>1. h \in HandlerRow /\ m \in Nat /\ h.n \in Nat
  <2>1. h.n \in Nat
      BY <1>0 DEF HandlerRow
  <2> QED
      BY <1>0, <2>1
<1>2. Become(h, g)
    BY <1>1 DEF CountAttempt, HandlerRow
<1>3. "compare" \in Label
    BY DEF Label
<1> HIDE DEF m
<1>4. /\ g \in HandlerRow /\ g.id = h.id /\ g.user = h.user /\ g.pc = "compare"
      /\ g.target = h.target /\ g.n = m
    BY <1>1, <1>3 DEF HandlerRow
<1> HIDE DEF g
<1>5. Turns(h, g, "compare")
    BY <1>2, <1>4, TurnsBy
<1> QED
    BY <1>1, <1>4, <1>5, Targeted DEF m, CountAttempt, At, Confirmation

LEMMA CompareDoes ==
    ASSUME TypeInv, NEW h \in running, CompareCode(h)
    PROVE  /\ \/ /\ \E g : Turns(h, g, "flag") /\ g.target = h.target
                 /\ confirmed' = [confirmed EXCEPT ![h.user] = @ \cup {h.target}]
              \/ Ends(h) /\ UNCHANGED confirmed
           /\ h.pc = "compare" /\ h.target \in Target
           /\ IF h.k = 1 \/ h.n >= OtpMaxAttempts THEN Set(h.target, Spent(h.target)) ELSE UNCHANGED otp
           /\ UNCHANGED <<account, codes, changes, overtaken, vettingVars, profile, reviews>>
<1>1. h.target \in Target /\ h.pc = "compare"
    BY Targeted DEF CompareCode, At, Confirmation
<1>2. CASE Goto(h, "flag") /\ confirmed' = [confirmed EXCEPT ![h.user] = @ \cup {h.target}]
  <2>1. \E g : Turns(h, g, "flag") /\ g.target = h.target
      BY <1>2, GoesTo DEF Label
  <2> QED
      BY <1>1, <1>2, <2>1 DEF CompareCode
<1>3. CASE Finish(h) /\ UNCHANGED confirmed
  <2>1. Ends(h)
      BY <1>3, EndsBy
  <2> QED
      BY <1>1, <1>3, <2>1 DEF CompareCode
<1> QED
    BY <1>2, <1>3 DEF CompareCode

LEMMA FlagDoes ==
    ASSUME TypeInv, NEW h \in running, SetVerified(h)
    PROVE  /\ Ends(h) /\ h.pc = "flag" /\ h.target \in Target
           /\ account' = [account EXCEPT ![h.user].verified = @ \cup {Flag(h.target)}]
           /\ Flag(h.target) \in {"phone", "email"}
           /\ UNCHANGED <<otp, codes, changes, confirmed, overtaken, vettingVars, profile, reviews>>
BY EndsBy, Targeted DEF SetVerified, At, Flag, Confirmation

LEMMA PhoneDoes ==
    ASSUME TypeInv, NEW h \in running, ChangePhone(h)
    PROVE  /\ Ends(h) /\ h.pc = "change_phone" /\ h.target \in Phone
           /\ account' = [account EXCEPT ![h.user] =
                 [phone |-> h.target, verified |-> IF h.n = 1 THEN @.verified \ {"phone"} ELSE @.verified]]
           /\ overtaken' = IF Confirming(h.user) \/ (h.n = 0 /\ "phone" \in account[h.user].verified)
                           THEN [overtaken EXCEPT ![h.user] = @ \cup {h.target}]
                           ELSE overtaken
           /\ UNCHANGED <<otp, codes, changes, confirmed, vettingVars, profile, reviews>>
BY EndsBy DEF ChangePhone, At, TypeInv, HandlerOK

-----------------------------------------------------------------------------
(***************************************************************************)
(* The steps of vetting.                                                   *)
(***************************************************************************)
LEMMA CheckDoes ==
    ASSUME TypeInv, NEW h \in running, CheckKyc(h)
    PROVE  /\ Ends(h) \/ \E g : Turns(h, g, "insert")
           /\ h.pc = "upload"
           /\ UNCHANGED <<otpVars, vettingVars, profile, reviews>>
<1>1. CASE Finish(h)
    BY <1>1, EndsBy DEF CheckKyc, At
<1>2. CASE Become(h, [h EXCEPT !.pc = "insert", !.docs = <<>>, !.k = Len(kyc[h.user]) + 1])
  <2> DEFINE none == <<>>
             k == Len(kyc[h.user]) + 1
             g == [h EXCEPT !.pc = "insert", !.docs = none, !.k = k]
  <2>1. h \in HandlerRow
      BY DEF TypeInv, TypeOK
  <2>2. none \in Seq(ReviewStatus \cup InterviewStatus)
      BY EmptySeq
  <2>3. kyc[h.user] \in Seq(Document)
      BY <2>1 DEF TypeInv, TypeOK, HandlerRow
  <2>4. k \in Nat /\ "insert" \in Label
      BY <2>3, LenProperties DEF Label
  <2>5. Become(h, g)
      BY <1>2
  <2> HIDE DEF none, k
  <2>6. g \in HandlerRow /\ g.id = h.id /\ g.user = h.user /\ g.pc = "insert"
      BY <2>1, <2>2, <2>4 DEF HandlerRow
  <2> HIDE DEF g
  <2>7. Turns(h, g, "insert")
      BY <2>5, <2>6, TurnsBy
  <2> QED
      BY <2>7 DEF CheckKyc, At
<1> QED
    BY <1>1, <1>2 DEF CheckKyc

LEMMA InsertDoes ==
    ASSUME TypeInv, NEW h \in running, InsertKyc(h)
    PROVE  /\ \E g : Turns(h, g, "submitted")
           /\ h.pc = "insert"
           /\ kyc' \in [Provider -> Seq(Document)] /\ \A v \in Provider : DOMAIN kyc[v] \subseteq DOMAIN kyc'[v]
           /\ \A w \in Provider \ {h.user} : kyc'[w] = kyc[w]
           /\ UNCHANGED <<otpVars, guarantor, interview, stages, crossed, profile, reviews>>
<1> DEFINE v == h.user
           d == [status |-> "SUBMITTED", attempt |-> h.k]
<1>1. h \in HandlerRow /\ kyc \in [Provider -> Seq(Document)]
    BY DEF TypeInv, TypeOK
<1>2. v \in Provider /\ d \in Document /\ kyc[v] \in Seq(Document)
    BY <1>1 DEF HandlerRow, Document, ReviewStatus
<1>3. kyc' = [kyc EXCEPT ![v] = Append(kyc[v], d)]
    BY <1>1, <1>2 DEF InsertKyc
<1>4. \E g : Turns(h, g, "submitted")
    BY GoesTo DEF InsertKyc, Label
<1> HIDE DEF v, d
<1> DEFINE s == kyc[v]
           t == Append(s, d)
<1>5. t \in Seq(Document) /\ DOMAIN s \subseteq DOMAIN t
    BY <1>2, Appended
<1> HIDE DEF t
<1>6. kyc' \in [Provider -> Seq(Document)] /\ (\A w \in Provider : DOMAIN kyc[w] \subseteq DOMAIN kyc'[w])
      /\ \A w \in Provider \ {v} : kyc'[w] = kyc[w]
  <2>1. kyc' = [kyc EXCEPT ![v] = t]
      BY <1>3 DEF t
  <2> QED
      BY <1>1, <1>2, <1>5, <2>1
<1> QED
    BY <1>4, <1>6 DEF InsertKyc, At, v

LEMMA SubmittedDoes ==
    ASSUME TypeInv, NEW h \in running, ProfileSubmitted(h)
    PROVE  /\ Ends(h) /\ h.pc = "submitted"
           /\ \E p : /\ Saves(h.user, p) /\ p.tier = profile[h.user].tier
                     /\ p.kyc = "VERIFIED" => profile[h.user].kyc = "VERIFIED"
           /\ UNCHANGED <<otpVars, vettingVars, reviews>>
BY EndsBy, SavesKyc DEF ProfileSubmitted, At

\* The status of a document is written, or left as it is.
LEMMA DocumentDoes ==
    ASSUME TypeInv, NEW h \in running, h.pc \in {"approve", "reject"}, NEW s \in ReviewStatus, SaveDocument(h, s)
    PROVE  /\ kyc' \in [Provider -> Seq(Document)] /\ \A v \in Provider : DOMAIN kyc[v] = DOMAIN kyc'[v]
           /\ \A w \in Provider \ {h.user} : kyc'[w] = kyc[w]
<1> DEFINE v == h.user
           f == kyc[v]
           r == Written(h.docs[1], f[h.k].status, s)
           d == [f[h.k] EXCEPT !.status = r]
           t == [f EXCEPT ![h.k] = d]
<1>1. v \in Provider /\ kyc \in [Provider -> Seq(Document)] /\ h.k \in DOMAIN f
    BY DEF TypeInv, TypeOK, HandlerRow, HandlerOK
<1>2. f \in Seq(Document)
    BY <1>1
<1>3. f[h.k] \in Document
    BY <1>1, <1>2, LenProperties
<1>4. r \in ReviewStatus
    BY <1>3 DEF Document, Written
<1>5. d \in Document
  <2> HIDE DEF r
  <2> QED
      BY <1>3, <1>4 DEF Document
<1>6. kyc' = [kyc EXCEPT ![v] = t]
    BY <1>1 DEF SaveDocument
<1> HIDE DEF d
<1>7. t \in Seq(Document) /\ DOMAIN t = DOMAIN f
    BY <1>1, <1>2, <1>5, Replaced
<1> HIDE DEF t
<1> QED
    BY <1>1, <1>6, <1>7

\* A request forgets the documents that it has loaded.
LEMMA Forgets ==
    ASSUME TypeInv, NEW h \in running, NEW label \in Label, Become(h, [h EXCEPT !.pc = label, !.docs = <<>>])
    PROVE  \E g : Turns(h, g, label)
<1> DEFINE none == <<>>
           g == [h EXCEPT !.pc = label, !.docs = none]
<1>1. h \in HandlerRow /\ none \in Seq(ReviewStatus \cup InterviewStatus)
    BY EmptySeq DEF TypeInv, TypeOK
<1>2. Become(h, g)
    OBVIOUS
<1> HIDE DEF none
<1>3. g \in HandlerRow /\ g.id = h.id /\ g.user = h.user /\ g.pc = label
    BY <1>1 DEF HandlerRow
<1> HIDE DEF g
<1> QED
    BY <1>2, <1>3, TurnsBy

LEMMA PassTyped ==
    ASSUME TypeInv, NEW v \in Provider, NEW stage \in {"kyc", "guarantor", "interview"}, Pass(v, stage)
    PROVE  /\ stages' \in [Provider -> SUBSET {"kyc", "guarantor", "interview"}]
           /\ stage \in stages'[v] /\ \A w \in Provider : stages[w] \subseteq stages'[w]
BY DEF TypeInv, TypeOK, Pass

LEMMA ApproveDoes ==
    ASSUME TypeInv, NEW h \in running, ApproveKyc(h)
    PROVE  /\ \E g : Turns(h, g, "promote")
           /\ h.pc = "approve"
           /\ kyc' \in [Provider -> Seq(Document)] /\ \A v \in Provider : DOMAIN kyc[v] = DOMAIN kyc'[v]
           /\ stages' \in [Provider -> SUBSET {"kyc", "guarantor", "interview"}]
           /\ "kyc" \in stages'[h.user] /\ \A w \in Provider : stages[w] \subseteq stages'[w]
           /\ UNCHANGED <<otpVars, guarantor, interview, crossed, profile, reviews>>
<1>1. \E g : Turns(h, g, "promote")
    BY Forgets DEF ApproveKyc, Label
<1>2. kyc' \in [Provider -> Seq(Document)] /\ \A v \in Provider : DOMAIN kyc[v] = DOMAIN kyc'[v]
    BY DocumentDoes DEF ApproveKyc, At, ReviewStatus
<1>3. /\ stages' \in [Provider -> SUBSET {"kyc", "guarantor", "interview"}]
      /\ "kyc" \in stages'[h.user] /\ \A w \in Provider : stages[w] \subseteq stages'[w]
    BY PassTyped, Rowed DEF ApproveKyc
<1> QED
    BY <1>1, <1>2, <1>3 DEF ApproveKyc, At

LEMMA GuarantorsDoes ==
    ASSUME TypeInv, NEW h \in running, ReadGuarantors(h)
    PROVE  /\ \E g : /\ Turns(h, g, "save_tier") /\ g.row.tier = profile[h.user].tier
                     /\ g.k = IF Passed(guarantor[h.user]) THEN 3 ELSE 2
           /\ h.pc = "promote" /\ Cross(h)
           /\ UNCHANGED <<otpVars, kyc, guarantor, interview, stages, profile, reviews>>
<1> DEFINE r == Copy(h.user, {"kyc", "step", "tier"})
           k == IF Passed(guarantor[h.user]) THEN 3 ELSE 2
           g == [h EXCEPT !.pc = "save_tier", !.row = r, !.k = k]
<1>1. h \in HandlerRow /\ h.user \in Provider
    BY Rowed
<1>2. r \in Profile /\ r.tier = profile[h.user].tier
    BY <1>1, CopyTyped
<1>3. k \in Nat /\ "save_tier" \in Label
    BY DEF Label
<1>4. Become(h, g)
    BY DEF ReadGuarantors
<1> HIDE DEF r, k
<1>5. g \in HandlerRow /\ g.id = h.id /\ g.user = h.user /\ g.pc = "save_tier" /\ g.row = r /\ g.k = k
    BY <1>1, <1>2, <1>3 DEF HandlerRow
<1> HIDE DEF g
<1>6. Turns(h, g, "save_tier")
    BY <1>4, <1>5, TurnsBy
<1> QED
    BY <1>2, <1>5, <1>6 DEF k, ReadGuarantors, At

LEMMA TierDoes ==
    ASSUME TypeInv, NEW h \in running, SaveKycTier(h)
    PROVE  /\ \E g : Turns(h, g, "save_profile") /\ g.k = h.k
           /\ h.pc = "save_tier" /\ h.k \in {2, 3}
           /\ \E p : /\ Saves(h.user, p) /\ p.tier = IF h.row.tier < h.k THEN h.k ELSE profile[h.user].tier
                     /\ p.kyc = profile[h.user].kyc
           /\ UNCHANGED <<otpVars, vettingVars, reviews>>
<1> DEFINE r == [h.row EXCEPT !.tier = 1]
           g == [h EXCEPT !.pc = "save_profile", !.row = r]
<1>0. h.k \in {2, 3} /\ h.pc = "save_tier"
    BY Rowed DEF SaveKycTier, At, HandlerOK
<1>1. h \in HandlerRow /\ h.row \in Profile
    BY DEF TypeInv, TypeOK, HandlerRow
<1>2. Become(h, g)
    BY <1>1 DEF SaveKycTier, HandlerRow
<1>3. r \in Profile
    BY <1>1 DEF Profile
<1> HIDE DEF r
<1>4. g \in HandlerRow /\ g.id = h.id /\ g.user = h.user /\ g.pc = "save_profile" /\ g.k = h.k
    BY <1>1, <1>3 DEF HandlerRow, Label
<1> HIDE DEF g
<1>5. Turns(h, g, "save_profile")
    BY <1>2, <1>4, TurnsBy
<1>6. h.k \in 1 .. 8
    BY <1>0
<1>7. \E p : /\ Saves(h.user, p) /\ p.tier = IF h.row.tier < h.k THEN h.k ELSE profile[h.user].tier
             /\ p.kyc = profile[h.user].kyc
    BY <1>6, SavesTier DEF SaveKycTier
<1> QED
    BY <1>0, <1>4, <1>5, <1>7 DEF SaveKycTier

LEMMA VerifiedDoes ==
    ASSUME TypeInv, NEW h \in running, ProfileVerified(h)
    PROVE  /\ Ends(h) /\ h.pc = "save_profile" /\ h.k \in {2, 3}
           /\ \E p : Saves(h.user, p) /\ p.tier = profile[h.user].tier
           /\ UNCHANGED <<otpVars, vettingVars, reviews>>
<1> DEFINE v == h.user
           step == IF h.k = 3 THEN "INTERVIEW" ELSE "GUARANTOR"
           a == Written(h.row.kyc, profile[v].kyc, "VERIFIED")
           b == Written(h.row.step, profile[v].step, step)
           p == [profile[v] EXCEPT !.kyc = a, !.step = b]
<1>1. v \in Provider /\ profile \in [Provider -> Profile]
    BY DEF TypeInv, TypeOK, HandlerRow
<1>2. profile[v] \in Profile /\ a \in KYCStatus /\ b \in OnboardingStep
    BY <1>1 DEF Profile, Written, KYCStatus, ReviewStatus, OnboardingStep
<1>3. profile' = [profile EXCEPT ![v] = p]
    BY <1>1 DEF ProfileVerified
<1> HIDE DEF a, b
<1>4. p \in Profile /\ p.tier = profile[v].tier
    BY <1>2 DEF Profile
<1> HIDE DEF p
<1>5. Saves(v, p)
    BY <1>1, <1>3, <1>4 DEF Saves
<1>6. Ends(h) /\ h.pc = "save_profile" /\ h.k \in {2, 3}
    BY EndsBy, Rowed DEF ProfileVerified, At, HandlerOK
<1> QED
    BY <1>4, <1>5, <1>6 DEF ProfileVerified

LEMMA RejectDoes ==
    ASSUME TypeInv, NEW h \in running, RejectKyc(h)
    PROVE  /\ \E g : Turns(h, g, "rejected")
           /\ h.pc = "reject"
           /\ kyc' \in [Provider -> Seq(Document)] /\ \A v \in Provider : DOMAIN kyc[v] = DOMAIN kyc'[v]
           /\ UNCHANGED <<otpVars, guarantor, interview, stages, crossed, profile, reviews>>
<1>1. \E g : Turns(h, g, "rejected")
    BY Forgets DEF RejectKyc, Label
<1>2. kyc' \in [Provider -> Seq(Document)] /\ \A v \in Provider : DOMAIN kyc[v] = DOMAIN kyc'[v]
    BY DocumentDoes DEF RejectKyc, At, ReviewStatus
<1> QED
    BY <1>1, <1>2 DEF RejectKyc, At

LEMMA FailedDoes ==
    ASSUME TypeInv, NEW h \in running, ProfileFailed(h)
    PROVE  /\ Ends(h) /\ h.pc = "rejected"
           /\ \E p : Saves(h.user, p) /\ p.tier = profile[h.user].tier /\ p.kyc = "FAILED"
           /\ UNCHANGED <<otpVars, vettingVars, reviews>>
<1> DEFINE v == h.user
           p == [profile[v] EXCEPT !.kyc = "FAILED"]
<1>1. v \in Provider /\ profile \in [Provider -> Profile]
    BY DEF TypeInv, TypeOK, HandlerRow
<1>2. p \in Profile /\ p.tier = profile[v].tier /\ p.kyc = "FAILED"
    BY <1>1 DEF Profile, KYCStatus, ReviewStatus
<1>3. Saves(v, p)
    BY <1>1, <1>2 DEF Saves, ProfileFailed
<1> QED
    BY <1>2, <1>3, EndsBy DEF ProfileFailed, At

LEMMA AddDoes ==
    ASSUME TypeInv, NEW h \in running, AddGuarantor(h)
    PROVE  /\ Ends(h) /\ h.pc = "add_guarantor"
           /\ guarantor' \in [Provider -> Seq(ReviewStatus)]
           /\ \A v \in Provider : DOMAIN guarantor[v] \subseteq DOMAIN guarantor'[v]
           /\ \A v \in Provider : Passed(guarantor'[v]) => Passed(guarantor[v])
           /\ UNCHANGED <<otpVars, kyc, interview, stages, crossed, profile, reviews>>
<1> DEFINE v == h.user
           s == guarantor[v]
           t == Append(s, "SUBMITTED")
<1>1. v \in Provider /\ guarantor \in [Provider -> Seq(ReviewStatus)]
    BY DEF TypeInv, TypeOK, HandlerRow
<1>2. s \in Seq(ReviewStatus) /\ "SUBMITTED" \in ReviewStatus
    BY <1>1 DEF ReviewStatus
<1>3. /\ t \in Seq(ReviewStatus) /\ DOMAIN s \subseteq DOMAIN t
      /\ \A k \in DOMAIN t : t[k] = "SUBMITTED" \/ (k \in DOMAIN s /\ t[k] = s[k])
    BY <1>2, Appended
<1>4. Passed(t) => Passed(s)
    BY <1>3 DEF Passed
<1>5. guarantor' = [guarantor EXCEPT ![v] = t]
    BY <1>1 DEF AddGuarantor
<1> HIDE DEF t
<1>6. /\ guarantor' \in [Provider -> Seq(ReviewStatus)]
      /\ \A w \in Provider : DOMAIN guarantor[w] \subseteq DOMAIN guarantor'[w]
    BY <1>1, <1>3, <1>5
<1>7. \A w \in Provider : Passed(guarantor'[w]) => Passed(guarantor[w])
  <2> TAKE w \in Provider
  <2>1. guarantor'[w] = IF w = v THEN t ELSE guarantor[w]
      BY <1>1, <1>5
  <2> QED
      BY <1>4, <2>1
<1> QED
    BY <1>6, <1>7, EndsBy DEF AddGuarantor, At

LEMMA GuarantorDoes ==
    ASSUME TypeInv, NEW h \in running, h.pc \in {"pass", "fail"}, NEW s \in ReviewStatus, SaveGuarantor(h, s)
    PROVE  /\ guarantor' \in [Provider -> Seq(ReviewStatus)]
           /\ \A v \in Provider : DOMAIN guarantor[v] = DOMAIN guarantor'[v]
           /\ \A w \in Provider \ {h.user} : guarantor'[w] = guarantor[w]
           /\ s # "VERIFIED" => \A v \in Provider : Passed(guarantor'[v]) => Passed(guarantor[v])
<1> DEFINE v == h.user
           f == guarantor[v]
           r == Written(h.docs[1], f[h.k], s)
           t == [f EXCEPT ![h.k] = r]
<1>1. v \in Provider /\ guarantor \in [Provider -> Seq(ReviewStatus)] /\ h.k \in DOMAIN f
    BY DEF TypeInv, TypeOK, HandlerRow, HandlerOK
<1>2. f \in Seq(ReviewStatus)
    BY <1>1
<1>3. f[h.k] \in ReviewStatus
    BY <1>1, <1>2, LenProperties
<1>4. r \in ReviewStatus /\ (r = f[h.k] \/ r = s)
    BY <1>3 DEF Written
<1>5. guarantor' = [guarantor EXCEPT ![v] = t]
    BY <1>1 DEF SaveGuarantor
<1> HIDE DEF r
<1>6. /\ t \in Seq(ReviewStatus) /\ DOMAIN t = DOMAIN f /\ t[h.k] = r
      /\ \A j \in DOMAIN f : j # h.k => t[j] = f[j]
    BY <1>1, <1>2, <1>4, Replaced
<1> HIDE DEF t
<1>7. s # "VERIFIED" => (Passed(t) => Passed(f))
    BY <1>1, <1>4, <1>6 DEF Passed
<1>8. s # "VERIFIED" => \A w \in Provider : Passed(guarantor'[w]) => Passed(guarantor[w])
  <2> SUFFICES ASSUME s # "VERIFIED", NEW w \in Provider
               PROVE  Passed(guarantor'[w]) => Passed(guarantor[w])
      OBVIOUS
  <2>1. guarantor'[w] = IF w = v THEN t ELSE guarantor[w]
      BY <1>1, <1>5
  <2> QED
      BY <1>7, <2>1
<1> QED
    BY <1>1, <1>5, <1>6, <1>8

LEMMA PassDoes ==
    ASSUME TypeInv, NEW h \in running, ApproveGuarantor(h)
    PROVE  /\ \E g : Turns(h, g, "passed")
           /\ h.pc = "pass"
           /\ guarantor' \in [Provider -> Seq(ReviewStatus)]
           /\ \A v \in Provider : DOMAIN guarantor[v] = DOMAIN guarantor'[v]
           /\ \A w \in Provider \ {h.user} : guarantor'[w] = guarantor[w]
           /\ stages' \in [Provider -> SUBSET {"kyc", "guarantor", "interview"}]
           /\ "guarantor" \in stages'[h.user] /\ \A w \in Provider : stages[w] \subseteq stages'[w]
           /\ UNCHANGED <<otpVars, kyc, interview, crossed, profile, reviews>>
<1>1. \E g : Turns(h, g, "passed")
  <2> DEFINE g == Blank("passed", h.user, h.id)
  <2>1. h \in HandlerRow /\ h.user \in Provider
      BY Rowed
  <2>2. h.id \in Nat /\ "passed" \in Label
      BY <2>1 DEF HandlerRow, Label
  <2>3. g \in HandlerRow /\ g.id = h.id /\ g.user = h.user /\ g.pc = "passed"
      BY <2>1, <2>2, NewTyped
  <2>4. Become(h, g)
      BY DEF ApproveGuarantor
  <2> HIDE DEF g
  <2> QED
      BY <2>3, <2>4, TurnsBy
<1>2. /\ guarantor' \in [Provider -> Seq(ReviewStatus)]
      /\ \A v \in Provider : DOMAIN guarantor[v] = DOMAIN guarantor'[v]
      /\ \A w \in Provider \ {h.user} : guarantor'[w] = guarantor[w]
    BY GuarantorDoes DEF ApproveGuarantor, At, ReviewStatus
<1>3. /\ stages' \in [Provider -> SUBSET {"kyc", "guarantor", "interview"}]
      /\ "guarantor" \in stages'[h.user] /\ \A w \in Provider : stages[w] \subseteq stages'[w]
    BY PassTyped, Rowed DEF ApproveGuarantor
<1> QED
    BY <1>1, <1>2, <1>3 DEF ApproveGuarantor, At

\* A request goes on with some columns of the profile.
LEMMA Copies ==
    ASSUME TypeInv, NEW h \in running, NEW label \in Label, NEW fields,
           Become(h, [h EXCEPT !.pc = label, !.row = Copy(h.user, fields)])
    PROVE  \E g : Turns(h, g, label) /\ g.row = Copy(h.user, fields)
<1> DEFINE r == Copy(h.user, fields)
           g == [h EXCEPT !.pc = label, !.row = r]
<1>1. h \in HandlerRow /\ h.user \in Provider
    BY Rowed
<1>2. r \in Profile
    BY <1>1, CopyTyped
<1>3. Become(h, g)
    OBVIOUS
<1> HIDE DEF r
<1>4. g \in HandlerRow /\ g.id = h.id /\ g.user = h.user /\ g.pc = label /\ g.row = r
    BY <1>1, <1>2 DEF HandlerRow
<1> HIDE DEF g
<1>5. Turns(h, g, label)
    BY <1>3, <1>4, TurnsBy
<1> QED
    BY <1>4, <1>5 DEF r

LEMMA PassedDoes ==
    ASSUME TypeInv, NEW h \in running, ReadKyc(h)
    PROVE  /\ h.pc = "passed" /\ Cross(h)
           /\ IF profile[h.user].kyc = "VERIFIED" THEN \E g : Turns(h, g, "step") ELSE Ends(h)
           /\ UNCHANGED <<otpVars, kyc, guarantor, interview, stages, profile, reviews>>
<1>1. CASE profile[h.user].kyc = "VERIFIED"
    BY <1>1, Copies DEF ReadKyc, Label, At
<1>2. CASE profile[h.user].kyc # "VERIFIED"
    BY <1>2, EndsBy DEF ReadKyc, At
<1> QED
    BY <1>1, <1>2

LEMMA StepDoes ==
    ASSUME TypeInv, NEW h \in running, StepInterview(h)
    PROVE  /\ \E g : Turns(h, g, "passed_tier") /\ g.row.tier = profile[h.user].tier
           /\ h.pc = "step"
           /\ \E p : Saves(h.user, p) /\ p.tier = profile[h.user].tier /\ p.kyc = profile[h.user].kyc
           /\ UNCHANGED <<otpVars, vettingVars, reviews>>
<1>1. PICK g : Turns(h, g, "passed_tier") /\ g.row = Copy(h.user, {"tier"})
  <2> DEFINE fields == {"tier"}
  <2>1. Become(h, [h EXCEPT !.pc = "passed_tier", !.row = Copy(h.user, fields)]) /\ "passed_tier" \in Label
      BY DEF StepInterview, Label
  <2> HIDE DEF fields
  <2>2. \E g : Turns(h, g, "passed_tier") /\ g.row = Copy(h.user, fields)
      BY <2>1, Copies
  <2> QED
      BY <2>2 DEF fields
<1>2. g.row.tier = profile[h.user].tier
    BY <1>1, CopyTyped, Rowed
<1>3. \E p : Saves(h.user, p) /\ p.tier = profile[h.user].tier /\ p.kyc = profile[h.user].kyc
    BY SavesStep DEF StepInterview, OnboardingStep
<1> QED
    BY <1>1, <1>2, <1>3 DEF StepInterview, At

LEMMA GuarantorTierDoes ==
    ASSUME TypeInv, NEW h \in running, SaveGuarantorTier(h)
    PROVE  /\ Ends(h) /\ h.pc = "passed_tier"
           /\ \E p : /\ Saves(h.user, p) /\ p.tier = IF h.row.tier < 3 THEN 3 ELSE profile[h.user].tier
                     /\ p.kyc = profile[h.user].kyc
           /\ UNCHANGED <<otpVars, vettingVars, reviews>>
<1>1. \E p : /\ Saves(h.user, p) /\ p.tier = IF h.row.tier < 3 THEN 3 ELSE profile[h.user].tier
             /\ p.kyc = profile[h.user].kyc
    BY SavesTier DEF SaveGuarantorTier
<1> QED
    BY <1>1, EndsBy DEF SaveGuarantorTier, At

LEMMA FailDoes ==
    ASSUME TypeInv, NEW h \in running, RejectGuarantor(h)
    PROVE  /\ Ends(h) /\ h.pc = "fail"
           /\ guarantor' \in [Provider -> Seq(ReviewStatus)]
           /\ \A v \in Provider : DOMAIN guarantor[v] = DOMAIN guarantor'[v]
           /\ \A v \in Provider : Passed(guarantor'[v]) => Passed(guarantor[v])
           /\ UNCHANGED <<otpVars, kyc, interview, stages, crossed, profile, reviews>>
BY EndsBy, GuarantorDoes DEF RejectGuarantor, At, ReviewStatus

LEMMA ScheduleDoes ==
    ASSUME TypeInv, NEW h \in running, ScheduleInterview(h)
    PROVE  /\ \E g : Turns(h, g, "scheduled")
           /\ h.pc = "schedule"
           /\ interview' \in [Provider -> Seq(InterviewStatus)]
           /\ \A v \in Provider : DOMAIN interview[v] \subseteq DOMAIN interview'[v]
           /\ \A w \in Provider \ {h.user} : interview'[w] = interview[w]
           /\ UNCHANGED <<otpVars, kyc, guarantor, stages, crossed, profile, reviews>>
<1> DEFINE v == h.user
           s == interview[v]
           t == Append(s, "SCHEDULED")
<1>1. v \in Provider /\ interview \in [Provider -> Seq(InterviewStatus)]
    BY DEF TypeInv, TypeOK, HandlerRow
<1>2. s \in Seq(InterviewStatus) /\ "SCHEDULED" \in InterviewStatus
    BY <1>1 DEF InterviewStatus
<1>3. t \in Seq(InterviewStatus) /\ DOMAIN s \subseteq DOMAIN t
    BY <1>2, Appended
<1>4. interview' = [interview EXCEPT ![v] = t]
    BY <1>1 DEF ScheduleInterview
<1> HIDE DEF t
<1>5. \E g : Turns(h, g, "scheduled")
    BY GoesTo DEF ScheduleInterview, Label
<1> QED
    BY <1>1, <1>3, <1>4, <1>5 DEF ScheduleInterview, At

LEMMA ScheduledDoes ==
    ASSUME TypeInv, NEW h \in running, ProfileScheduled(h)
    PROVE  /\ Ends(h) /\ h.pc = "scheduled"
           /\ \E p : Saves(h.user, p) /\ p.tier = profile[h.user].tier /\ p.kyc = profile[h.user].kyc
           /\ UNCHANGED <<otpVars, vettingVars, reviews>>
BY EndsBy, SavesStep DEF ProfileScheduled, At, OnboardingStep

LEMMA UpdateDoes ==
    ASSUME TypeInv, NEW h \in running, UpdateInterview(h)
    PROVE  /\ h.pc = "judge" /\ h.k \in DOMAIN interview[h.user]
           /\ \/ (\E g : Turns(h, g, "judged")) /\ "interview" \in stages'[h.user]
              \/ Ends(h) /\ UNCHANGED stages
           /\ interview' \in [Provider -> Seq(InterviewStatus)]
           /\ \A v \in Provider : DOMAIN interview[v] = DOMAIN interview'[v]
           /\ \A w \in Provider \ {h.user} : interview'[w] = interview[w]
           /\ stages' \in [Provider -> SUBSET {"kyc", "guarantor", "interview"}]
           /\ \A w \in Provider : stages[w] \subseteq stages'[w]
           /\ UNCHANGED <<otpVars, kyc, guarantor, crossed, profile, reviews>>
<1> DEFINE v == h.user
           f == interview[v]
           r == Written(h.docs[1], f[h.k], h.to)
           t == [f EXCEPT ![h.k] = r]
<1>1. /\ v \in Provider /\ interview \in [Provider -> Seq(InterviewStatus)] /\ h.k \in DOMAIN f
      /\ h.pc = "judge" /\ h.to \in InterviewStatus
    BY DEF TypeInv, TypeOK, HandlerRow, HandlerOK, UpdateInterview, At
<1>2. f \in Seq(InterviewStatus)
    BY <1>1
<1>3. f[h.k] \in InterviewStatus
    BY <1>1, <1>2, LenProperties
<1>4. r \in InterviewStatus
    BY <1>1, <1>3 DEF Written
<1>5. interview' = [interview EXCEPT ![v] = t]
    BY <1>1 DEF UpdateInterview
<1> HIDE DEF r
<1>6. t \in Seq(InterviewStatus) /\ DOMAIN t = DOMAIN f
    BY <1>1, <1>2, <1>4, Replaced
<1> HIDE DEF t
<1>7. /\ interview' \in [Provider -> Seq(InterviewStatus)]
      /\ \A w \in Provider : DOMAIN interview[w] = DOMAIN interview'[w]
      /\ \A w \in Provider \ {h.user} : interview'[w] = interview[w]
    BY <1>1, <1>5, <1>6
<1>8. CASE h.to = "PASSED"
  <2> DEFINE g == Blank("judged", h.user, h.id)
  <2>1. h \in HandlerRow /\ h.user \in Provider
      BY Rowed
  <2>2. h.id \in Nat /\ "judged" \in Label
      BY <2>1 DEF HandlerRow, Label
  <2>3. g \in HandlerRow /\ g.id = h.id /\ g.user = h.user /\ g.pc = "judged"
      BY <2>1, <2>2, NewTyped
  <2>4. Become(h, g) /\ Pass(h.user, "interview")
      BY <1>8 DEF UpdateInterview
  <2> HIDE DEF g
  <2>5. Turns(h, g, "judged")
      BY <2>3, <2>4, TurnsBy
  <2>6. /\ stages' \in [Provider -> SUBSET {"kyc", "guarantor", "interview"}]
        /\ "interview" \in stages'[h.user] /\ \A w \in Provider : stages[w] \subseteq stages'[w]
      BY <2>1, <2>4, PassTyped
  <2> QED
      BY <1>1, <1>7, <2>5, <2>6 DEF UpdateInterview
<1>9. CASE h.to # "PASSED"
  <2>1. Ends(h) /\ UNCHANGED stages
      BY <1>9, EndsBy DEF UpdateInterview
  <2> QED
      BY <1>1, <1>7, <2>1 DEF UpdateInterview, TypeInv, TypeOK
<1> QED
    BY <1>8, <1>9

LEMMA JudgedDoes ==
    ASSUME TypeInv, NEW h \in running, ReadTier(h)
    PROVE  /\ \E g : Turns(h, g, "judged_tier")
           /\ h.pc = "judged"
           /\ UNCHANGED <<otpVars, vettingVars, profile, reviews>>
BY Copies DEF ReadTier, Label, At

LEMMA InterviewTierDoes ==
    ASSUME TypeInv, NEW h \in running, SaveInterviewTier(h)
    PROVE  /\ \E g : Turns(h, g, "completed")
           /\ h.pc = "judged_tier"
           /\ \E p : /\ Saves(h.user, p) /\ p.tier = IF h.row.tier < 4 THEN 4 ELSE profile[h.user].tier
                     /\ p.kyc = profile[h.user].kyc
           /\ UNCHANGED <<otpVars, vettingVars, reviews>>
<1>1. \E p : /\ Saves(h.user, p) /\ p.tier = IF h.row.tier < 4 THEN 4 ELSE profile[h.user].tier
             /\ p.kyc = profile[h.user].kyc
    BY SavesTier DEF SaveInterviewTier
<1>2. \E g : Turns(h, g, "completed")
    BY Copies DEF SaveInterviewTier, Label
<1> QED
    BY <1>1, <1>2 DEF SaveInterviewTier, At

LEMMA CompleteDoes ==
    ASSUME TypeInv, NEW h \in running, CompleteOnboarding(h)
    PROVE  /\ Ends(h) /\ h.pc = "completed"
           /\ \E p : Saves(h.user, p) /\ p.tier = profile[h.user].tier /\ p.kyc = profile[h.user].kyc
           /\ UNCHANGED <<otpVars, vettingVars, reviews>>
BY EndsBy, SavesStep DEF CompleteOnboarding, At, OnboardingStep

LEMMA SyncDoes ==
    ASSUME TypeInv, NEW h \in running, SyncTier(h)
    PROVE  /\ Ends(h) /\ h.pc = "sync" /\ h.row.tier \in 4 .. 7
           /\ \E p : Saves(h.user, p) /\ p.tier = h.row.tier + 1 /\ p.kyc = profile[h.user].kyc
           /\ UNCHANGED <<otpVars, vettingVars, reviews>>
<1> DEFINE v == h.user
           s == h.row.tier + 1
           p == [profile[v] EXCEPT !.tier = s]
<1>1. v \in Provider /\ profile \in [Provider -> Profile] /\ h.row.tier \in 4 .. 7
    BY Rowed DEF TypeInv, TypeOK, SyncTier, At, HandlerOK
<1>2. profile[v] \in Profile /\ s \in 1 .. 8
    BY <1>1
<1>3. profile' = [profile EXCEPT ![v] = p]
    BY <1>1 DEF SyncTier
<1> HIDE DEF s
<1>4. p \in Profile /\ p.tier = s /\ p.kyc = profile[v].kyc
    BY <1>2 DEF Profile
<1> HIDE DEF p
<1>5. Saves(v, p)
    BY <1>1, <1>3, <1>4 DEF Saves
<1> QED
    BY <1>1, <1>4, <1>5, EndsBy DEF s, SyncTier, At

-----------------------------------------------------------------------------
(***************************************************************************)
(* Types are kept by every step.                                           *)
(***************************************************************************)
LEMMA ProfileTyped ==
    ASSUME TypeInv, NEW h \in running, NEW p, Saves(h.user, p), UNCHANGED <<otpVars, vettingVars, reviews>>
    PROVE  RowsTyped' /\ Longer
<1>1. RowsTyped'
    BY DEF Saves, otpVars, vettingVars, TypeInv, TypeOK, RowsTyped
<1>2. Longer
    BY DEF vettingVars, Longer
<1> QED
    BY <1>1, <1>2

LEMMA RequestTyped ==
    ASSUME TypeInv, NEW v \in Provider, AccountRequest(v) \/ VettingRequest(v)
    PROVE  TypeInv'
<1>1. /\ UNCHANGED <<account, confirmed, overtaken, vettingVars, profile>>
      /\ codes' \in Nat /\ changes' \in Nat /\ reviews' \in Nat
      /\ \/ UNCHANGED otp /\ \E g : Asks(g, v)
         \/ UNCHANGED running /\ \E t \in Target : Set(t, Spent(t))
    BY Requests
<1>2. Longer
    BY <1>1 DEF vettingVars, Longer
<1>3. CASE UNCHANGED otp /\ \E g : Asks(g, v)
  <2>1. PICK g : Asks(g, v)
      BY <1>3
  <2>2. PICK label \in {"add_user", "generate", "count", "change_phone", "upload", "approve", "reject",
                        "add_guarantor", "pass", "fail", "schedule", "judge", "sync"} : Opens(g, label, v)
      BY <2>1 DEF Asks
  <2>3. g.user = v /\ g.pc = label
      BY <2>2 DEF Opens
  <2>4. account[v].phone \in Phone
      BY DEF TypeInv, TypeOK, Account
  <2>5. HandlerOK(g)
      BY <2>1, <2>2, <2>3, <2>4 DEF Asks, HandlerOK, Confirmation
  <2>6. HandlerOK(g)'
      BY <1>1, <2>5 DEF HandlerOK, vettingVars
  <2>7. RowsTyped'
      BY <1>1, <1>3 DEF vettingVars, RowsTyped, TypeInv, TypeOK
  <2> QED
      BY <1>2, <2>2, <2>6, <2>7, TypeOpens
<1>4. CASE UNCHANGED running /\ \E t \in Target : Set(t, Spent(t))
  <2>1. PICK t \in Target : Set(t, Spent(t))
      BY <1>4
  <2>2. otp' \in [Target -> Otp]
      BY <2>1 DEF Set, Spent, TypeInv, TypeOK, Otp
  <2>3. RowsTyped'
      BY <1>1, <2>2 DEF vettingVars, RowsTyped, TypeInv, TypeOK
  <2> QED
      BY <1>2, <1>4, <2>3, TypeStays
<1> QED
    BY <1>1, <1>3, <1>4

LEMMA ExpiryTyped ==
    ASSUME TypeInv, NEW t \in Target, ExpireCooldown(t) \/ ExpireOtp(t)
    PROVE  TypeInv'
<1>1. otp' \in [Target -> Otp]
  <2>1. CASE ExpireCooldown(t)
    <3>1. Set(t, [otp[t] EXCEPT !.cooldown = FALSE])
        BY <2>1 DEF ExpireCooldown, Set, TypeInv, TypeOK
    <3> QED
        BY <3>1, KeysTyped, KeysSet
  <2>2. CASE ExpireOtp(t)
      BY <2>2, KeysTyped, KeysSet DEF ExpireOtp
  <2> QED
      BY <2>1, <2>2
<1>2. UNCHANGED <<account, codes, changes, confirmed, overtaken, vettingVars, profile, running, reviews>>
    BY DEF ExpireCooldown, ExpireOtp
<1>3. RowsTyped'
    BY <1>1, <1>2 DEF vettingVars, RowsTyped, TypeInv, TypeOK
<1>4. Longer
    BY <1>2 DEF vettingVars, Longer
<1> QED
    BY <1>2, <1>3, <1>4, TypeStays

LEMMA AccountTyped ==
    ASSUME TypeInv, NEW h \in running, AccountStep(h)
    PROVE  TypeInv'
<1>0. h.user \in Provider /\ HandlerOK(h) /\ RowsTyped
    BY Rowed
<1>1. CASE RegisterUser(h)
  <2>1. RowsTyped' /\ Longer
      BY <1>1, RegisterTyped DEF otpVars, vettingVars, RowsTyped, Longer, TypeInv, TypeOK
  <2>2. CASE Ends(h)
      BY <2>1, <2>2, TypeEnds
  <2>3. ASSUME NEW g, NEW label \in {"add_stats", "add_profile"}, Turns(h, g, label)
        PROVE  TypeInv'
    <3>1. HandlerOK(g)'
        BY <2>3 DEF Turns, HandlerOK, Confirmation
    <3> QED
        BY <2>1, <2>3, <3>1, TypeTurns
  <2> QED
      BY <1>1, <2>2, <2>3, RegisterTyped
<1>2. CASE GenerateOtp(h)
  <2>1. PICK g : Turns(h, g, "send") /\ g.target = h.target
      BY <1>2, GenerateDoes
  <2>2. RowsTyped' /\ Longer
      BY <1>0, <1>2, GenerateDoes DEF vettingVars, RowsTyped, Longer
  <2>3. HandlerOK(g)'
      BY <1>0, <1>2, <2>1 DEF GenerateOtp, At, Turns, HandlerOK, Confirmation
  <2> QED
      BY <2>1, <2>2, <2>3, TypeTurns
<1>3. CASE SendOtp(h)
  <2>1. otp' \in [Target -> Otp]
    <3>1. h.target \in Target /\ (UNCHANGED otp \/ Set(h.target, NoOtp))
        BY <1>3, SendDoes
    <3> QED
        BY <1>0, <3>1, KeysTyped, KeysSet DEF RowsTyped
  <2>2. RowsTyped' /\ Longer
      BY <1>0, <1>3, <2>1, SendDoes DEF vettingVars, RowsTyped, Longer
  <2> QED
      BY <1>3, <2>2, SendDoes, TypeEnds
<1>4. CASE CountAttempt(h)
  <2>1. PICK g : Turns(h, g, "compare") /\ g.target = h.target
      BY <1>4, CountDoes
  <2>2. otp' \in [Target -> Otp]
    <3> DEFINE t == h.target
               n == h.n + 1
    <3>1. t \in Target /\ n \in Nat /\ otp' = [otp EXCEPT ![t].tries = n]
        BY <1>4, CountDoes
    <3>2. Set(t, [otp[t] EXCEPT !.tries = n])
        BY <3>1 DEF Set, TypeInv, TypeOK
    <3>3. [otp[t] EXCEPT !.tries = n] \in Otp
        BY <3>1, KeysTyped
    <3> HIDE DEF t, n
    <3> QED
        BY <3>1, <3>2, <3>3, KeysSet
  <2>3. RowsTyped' /\ Longer
      BY <1>0, <1>4, <2>2, CountDoes DEF vettingVars, RowsTyped, Longer
  <2>4. HandlerOK(g)'
      BY <1>0, <1>4, <2>1 DEF CountAttempt, At, Turns, HandlerOK, Confirmation
  <2> QED
      BY <2>1, <2>3, <2>4, TypeTurns
<1>5. CASE CompareCode(h)
  <2>1. otp' \in [Target -> Otp]
    <3>1. h.target \in Target /\ (UNCHANGED otp \/ Set(h.target, Spent(h.target)))
        BY <1>5, CompareDoes
    <3> QED
        BY <1>0, <3>1, KeysTyped, KeysSet DEF RowsTyped
  <2>2. confirmed' \in [Provider -> SUBSET Target]
    <3>1. h.target \in Target /\ \/ UNCHANGED confirmed
                                 \/ confirmed' = [confirmed EXCEPT ![h.user] = @ \cup {h.target}]
        BY <1>5, CompareDoes
    <3> DEFINE c == confirmed[h.user] \cup {h.target}
    <3>2. confirmed \in [Provider -> SUBSET Target]
        BY <1>0 DEF RowsTyped
    <3>3. c \in SUBSET Target
        BY <1>0, <3>1, <3>2
    <3>4. UNCHANGED confirmed \/ confirmed' = [confirmed EXCEPT ![h.user] = c]
        BY <3>1
    <3> HIDE DEF c
    <3> QED
        BY <3>2, <3>3, <3>4
  <2>3. RowsTyped' /\ Longer
      BY <1>0, <1>5, <2>1, <2>2, CompareDoes DEF vettingVars, RowsTyped, Longer
  <2>4. CASE Ends(h)
      BY <2>3, <2>4, TypeEnds
  <2>5. ASSUME NEW g, Turns(h, g, "flag"), g.target = h.target
        PROVE  TypeInv'
    <3>1. HandlerOK(g)'
        BY <1>0, <1>5, <2>5 DEF CompareCode, At, Turns, HandlerOK, Confirmation
    <3> QED
        BY <2>3, <2>5, <3>1, TypeTurns
  <2> QED
      BY <1>5, <2>4, <2>5, CompareDoes
<1>6. CASE SetVerified(h)
  <2>1. account' \in [Provider -> Account]
    <3> DEFINE a == account[h.user]
               s == a.verified \cup {Flag(h.target)}
               b == [a EXCEPT !.verified = s]
    <3>1. a \in Account
        BY <1>0 DEF RowsTyped
    <3>2. s \in SUBSET {"phone", "email"}
        BY <1>6, <3>1, FlagDoes DEF Account
    <3>3. account' = [account EXCEPT ![h.user] = b]
        BY <1>0, <1>6, FlagDoes DEF RowsTyped
    <3> HIDE DEF s
    <3>4. b \in Account
        BY <3>1, <3>2 DEF Account
    <3> HIDE DEF b
    <3> QED
        BY <1>0, <3>3, <3>4 DEF RowsTyped
  <2>2. RowsTyped' /\ Longer
      BY <1>0, <1>6, <2>1, FlagDoes DEF vettingVars, RowsTyped, Longer
  <2> QED
      BY <1>6, <2>2, FlagDoes, TypeEnds
<1>7. CASE ChangePhone(h)
  <2>1. account' \in [Provider -> Account] /\ overtaken' \in [Provider -> SUBSET Phone]
    <3> DEFINE a == account[h.user]
               s == IF h.n = 1 THEN a.verified \ {"phone"} ELSE a.verified
               b == [phone |-> h.target, verified |-> s]
    <3>1. a \in Account /\ h.target \in Phone
        BY <1>0, <1>7, PhoneDoes DEF RowsTyped
    <3>2. s \in SUBSET {"phone", "email"}
        BY <3>1 DEF Account
    <3>3. account' = [account EXCEPT ![h.user] = b]
        BY <1>0, <1>7, PhoneDoes DEF RowsTyped
    <3> HIDE DEF s
    <3>4. b \in Account
        BY <3>1, <3>2 DEF Account
    <3> HIDE DEF b
    <3>5. overtaken' = overtaken \/ overtaken' = [overtaken EXCEPT ![h.user] = @ \cup {h.target}]
        BY <1>7, PhoneDoes
    <3>6. account' \in [Provider -> Account]
        BY <1>0, <3>3, <3>4 DEF RowsTyped
    <3>7. overtaken \in [Provider -> SUBSET Phone]
        BY <1>0 DEF RowsTyped
    <3> DEFINE t == h.target
               o == overtaken[h.user] \cup {t}
    <3>8. o \in SUBSET Phone
        BY <1>0, <3>1, <3>7
    <3>9. overtaken' = overtaken \/ overtaken' = [overtaken EXCEPT ![h.user] = o]
        BY <3>5
    <3> HIDE DEF o
    <3>10. overtaken' \in [Provider -> SUBSET Phone]
        BY <3>7, <3>8, <3>9
    <3> QED
        BY <3>6, <3>10
  <2>2. RowsTyped' /\ Longer
      BY <1>0, <1>7, <2>1, PhoneDoes DEF vettingVars, RowsTyped, Longer
  <2> QED
      BY <1>7, <2>2, PhoneDoes, TypeEnds
<1> QED
    BY <1>1, <1>2, <1>3, <1>4, <1>5, <1>6, <1>7 DEF AccountStep

LEMMA VettingTyped ==
    ASSUME TypeInv, NEW h \in running, VettingStep(h)
    PROVE  TypeInv'
<1>0. h.user \in Provider /\ HandlerOK(h) /\ RowsTyped
    BY Rowed
<1>p. ASSUME NEW p, Saves(h.user, p), UNCHANGED <<otpVars, vettingVars, reviews>>
      PROVE  RowsTyped' /\ Longer
    BY <1>p, ProfileTyped
<1>1. CASE CheckKyc(h)
  <2>1. RowsTyped' /\ Longer
      BY <1>0, <1>1, CheckDoes DEF otpVars, vettingVars, RowsTyped, Longer
  <2>2. ASSUME NEW g, Turns(h, g, "insert")
        PROVE  TypeInv'
    <3>1. HandlerOK(g)'
        BY <2>2 DEF Turns, HandlerOK, Confirmation
    <3> QED
        BY <2>1, <2>2, <3>1, TypeTurns
  <2> QED
      BY <1>1, <2>1, <2>2, CheckDoes, TypeEnds
<1>2. CASE InsertKyc(h)
  <2>1. PICK g : Turns(h, g, "submitted")
      BY <1>2, InsertDoes
  <2>2. RowsTyped' /\ Longer
      BY <1>0, <1>2, InsertDoes DEF otpVars, RowsTyped, Longer
  <2>3. HandlerOK(g)'
      BY <2>1 DEF Turns, HandlerOK, Confirmation
  <2> QED
      BY <2>1, <2>2, <2>3, TypeTurns
<1>3. CASE ProfileSubmitted(h)
    BY <1>3, <1>p, SubmittedDoes, TypeEnds
<1>4. CASE ApproveKyc(h)
  <2>1. PICK g : Turns(h, g, "promote")
      BY <1>4, ApproveDoes
  <2>2. RowsTyped' /\ Longer
      BY <1>0, <1>4, ApproveDoes DEF otpVars, RowsTyped, Longer
  <2>3. HandlerOK(g)'
      BY <2>1 DEF Turns, HandlerOK, Confirmation
  <2> QED
      BY <2>1, <2>2, <2>3, TypeTurns
<1>5. CASE ReadGuarantors(h)
  <2>1. PICK g : /\ Turns(h, g, "save_tier") /\ g.k = IF Passed(guarantor[h.user]) THEN 3 ELSE 2
      BY <1>5, GuarantorsDoes
  <2>2. crossed' \subseteq Provider
    <3>1. Cross(h) /\ crossed \subseteq Provider
        BY <1>0, <1>5, GuarantorsDoes DEF RowsTyped
    <3> QED
        BY <1>0, <3>1 DEF Cross
  <2>3. RowsTyped' /\ Longer
      BY <1>0, <1>5, <2>2, GuarantorsDoes DEF otpVars, RowsTyped, Longer
  <2>4. HandlerOK(g)'
      BY <2>1 DEF Turns, HandlerOK, Confirmation
  <2> QED
      BY <2>1, <2>3, <2>4, TypeTurns
<1>6. CASE SaveKycTier(h)
  <2>1. PICK g : Turns(h, g, "save_profile") /\ g.k = h.k
      BY <1>6, TierDoes
  <2>2. HandlerOK(g)'
      BY <1>6, <2>1, TierDoes DEF Turns, HandlerOK, Confirmation
  <2> QED
      BY <1>6, <1>p, <2>1, <2>2, TierDoes, TypeTurns
<1>7. CASE ProfileVerified(h)
    BY <1>7, <1>p, VerifiedDoes, TypeEnds
<1>8. CASE RejectKyc(h)
  <2>1. PICK g : Turns(h, g, "rejected")
      BY <1>8, RejectDoes
  <2>2. RowsTyped' /\ Longer
      BY <1>0, <1>8, RejectDoes DEF otpVars, RowsTyped, Longer
  <2>3. HandlerOK(g)'
      BY <2>1 DEF Turns, HandlerOK, Confirmation
  <2> QED
      BY <2>1, <2>2, <2>3, TypeTurns
<1>9. CASE ProfileFailed(h)
    BY <1>9, <1>p, FailedDoes, TypeEnds
<1>10. CASE AddGuarantor(h)
  <2>1. RowsTyped' /\ Longer
      BY <1>0, <1>10, AddDoes DEF otpVars, RowsTyped, Longer
  <2> QED
      BY <1>10, <2>1, AddDoes, TypeEnds
<1>11. CASE ApproveGuarantor(h)
  <2>1. PICK g : Turns(h, g, "passed")
      BY <1>11, PassDoes
  <2>2. RowsTyped' /\ Longer
      BY <1>0, <1>11, PassDoes DEF otpVars, RowsTyped, Longer
  <2>3. HandlerOK(g)'
      BY <2>1 DEF Turns, HandlerOK, Confirmation
  <2> QED
      BY <2>1, <2>2, <2>3, TypeTurns
<1>12. CASE ReadKyc(h)
  <2>1. crossed' \subseteq Provider
    <3>1. Cross(h) /\ crossed \subseteq Provider
        BY <1>0, <1>12, PassedDoes DEF RowsTyped
    <3> QED
        BY <1>0, <3>1 DEF Cross
  <2>2. RowsTyped' /\ Longer
      BY <1>0, <1>12, <2>1, PassedDoes DEF otpVars, RowsTyped, Longer
  <2>3. ASSUME NEW g, Turns(h, g, "step")
        PROVE  TypeInv'
    <3>1. HandlerOK(g)'
        BY <2>3 DEF Turns, HandlerOK, Confirmation
    <3> QED
        BY <2>2, <2>3, <3>1, TypeTurns
  <2> QED
      BY <1>12, <2>2, <2>3, PassedDoes, TypeEnds
<1>13. CASE StepInterview(h)
  <2>1. PICK g : Turns(h, g, "passed_tier")
      BY <1>13, StepDoes
  <2>2. HandlerOK(g)'
      BY <2>1 DEF Turns, HandlerOK, Confirmation
  <2> QED
      BY <1>13, <1>p, <2>1, <2>2, StepDoes, TypeTurns
<1>14. CASE SaveGuarantorTier(h)
    BY <1>14, <1>p, GuarantorTierDoes, TypeEnds
<1>15. CASE RejectGuarantor(h)
  <2>1. RowsTyped' /\ Longer
      BY <1>0, <1>15, FailDoes DEF otpVars, RowsTyped, Longer
  <2> QED
      BY <1>15, <2>1, FailDoes, TypeEnds
<1>16. CASE ScheduleInterview(h)
  <2>1. PICK g : Turns(h, g, "scheduled")
      BY <1>16, ScheduleDoes
  <2>2. RowsTyped' /\ Longer
      BY <1>0, <1>16, ScheduleDoes DEF otpVars, RowsTyped, Longer
  <2>3. HandlerOK(g)'
      BY <2>1 DEF Turns, HandlerOK, Confirmation
  <2> QED
      BY <2>1, <2>2, <2>3, TypeTurns
<1>17. CASE ProfileScheduled(h)
    BY <1>17, <1>p, ScheduledDoes, TypeEnds
<1>18. CASE UpdateInterview(h)
  <2>1. RowsTyped' /\ Longer
      BY <1>0, <1>18, UpdateDoes DEF otpVars, RowsTyped, Longer
  <2>2. ASSUME NEW g, Turns(h, g, "judged")
        PROVE  TypeInv'
    <3>1. HandlerOK(g)'
        BY <2>2 DEF Turns, HandlerOK, Confirmation
    <3> QED
        BY <2>1, <2>2, <3>1, TypeTurns
  <2> QED
      BY <1>18, <2>1, <2>2, UpdateDoes, TypeEnds
<1>19. CASE ReadTier(h)
  <2>1. PICK g : Turns(h, g, "judged_tier")
      BY <1>19, JudgedDoes
  <2>2. RowsTyped' /\ Longer
      BY <1>0, <1>19, JudgedDoes DEF otpVars, vettingVars, RowsTyped, Longer
  <2>3. HandlerOK(g)'
      BY <2>1 DEF Turns, HandlerOK, Confirmation
  <2> QED
      BY <2>1, <2>2, <2>3, TypeTurns
<1>20. CASE SaveInterviewTier(h)
  <2>1. PICK g : Turns(h, g, "completed")
      BY <1>20, InterviewTierDoes
  <2>2. HandlerOK(g)'
      BY <2>1 DEF Turns, HandlerOK, Confirmation
  <2> QED
      BY <1>20, <1>p, <2>1, <2>2, InterviewTierDoes, TypeTurns
<1>21. CASE CompleteOnboarding(h)
    BY <1>21, <1>p, CompleteDoes, TypeEnds
<1>22. CASE SyncTier(h)
    BY <1>22, <1>p, SyncDoes, TypeEnds
<1> QED
    BY <1>1, <1>2, <1>3, <1>4, <1>5, <1>6, <1>7, <1>8, <1>9, <1>10, <1>11, <1>12, <1>13, <1>14, <1>15, <1>16,
       <1>17, <1>18, <1>19, <1>20, <1>21, <1>22 DEF VettingStep

LEMMA TypeInit ==
    ASSUME Init
    PROVE  TypeInv
<1>1. PICK ready \in SUBSET Provider :
         /\ account = [v \in Provider |-> [phone |-> FirstPhone[v],
                                          verified |-> IF v \in ready THEN {"email"} ELSE {}]]
         /\ confirmed = [v \in Provider |-> {v} \cap ready]
         /\ profile = [v \in Provider |-> [NewProfile EXCEPT !.exists = IF v \in ready THEN 3 ELSE 0]]
    BY DEF Init
<1>2. account \in [Provider -> Account]
    BY <1>1, ConstantsAssumption DEF Account
<1>3. profile \in [Provider -> Profile]
    BY <1>1 DEF NewProfile, Profile, KYCStatus, OnboardingStep
<1>4. confirmed \in [Provider -> SUBSET Target]
    BY <1>1 DEF Target
<1> DEFINE none == <<>>
<1>5. none \in Seq(Document) /\ none \in Seq(ReviewStatus) /\ none \in Seq(InterviewStatus)
    BY EmptySeq
<1>6. kyc = [v \in Provider |-> none] /\ guarantor = [v \in Provider |-> none] /\ interview = [v \in Provider |-> none]
    BY DEF Init
<1> HIDE DEF none
<1>7. kyc \in [Provider -> Seq(Document)] /\ guarantor \in [Provider -> Seq(ReviewStatus)]
      /\ interview \in [Provider -> Seq(InterviewStatus)]
    BY <1>5, <1>6
<1>8. otp \in [Target -> Otp]
    BY DEF Init, NoOtp, Otp
<1>9. IsFiniteSet(running) /\ running = {}
    BY FS_EmptySet DEF Init
<1>10. overtaken \in [Provider -> SUBSET Phone] /\ crossed \subseteq Provider
       /\ stages \in [Provider -> SUBSET {"kyc", "guarantor", "interview"}]
    BY DEF Init
<1> QED
    BY <1>2, <1>3, <1>4, <1>7, <1>8, <1>9, <1>10 DEF Init, TypeInv, TypeOK

LEMMA TypeNext ==
    ASSUME TypeInv, [Next]_vars
    PROVE  TypeInv'
<1>1. CASE UNCHANGED vars
  <2>1. RowsTyped' /\ Longer
      BY <1>1, Rowed DEF vars, otpVars, vettingVars, RowsTyped, Longer
  <2> QED
      BY <1>1, <2>1, TypeStays DEF vars
<1>2. ASSUME NEW h \in running, HandlerStep(h)
      PROVE  TypeInv'
    BY <1>2, AccountTyped, VettingTyped DEF HandlerStep
<1>3. ASSUME NEW v \in Provider, AccountRequest(v) \/ VettingRequest(v)
      PROVE  TypeInv'
    BY <1>3, RequestTyped
<1>4. ASSUME NEW t \in Target, ExpireCooldown(t) \/ ExpireOtp(t)
      PROVE  TypeInv'
    BY <1>4, ExpiryTyped
<1> QED
    BY <1>1, <1>2, <1>3, <1>4 DEF Next

\* Every row and every request keeps the shape that the code gives it: no
\* tier beyond the highest, no status that a table does not have, and no two
\* requests with one identity, whatever is committed in between.
THEOREM OnboardingTypeCorrect == Spec => []TypeOK
<1>1. Init => TypeInv
    BY TypeInit
<1>2. TypeInv /\ [Next]_vars => TypeInv'
    BY TypeNext
<1>3. TypeInv => TypeOK
    BY DEF TypeInv
<1> QED
    BY <1>1, <1>2, <1>3, PTL DEF Spec

-----------------------------------------------------------------------------
(***************************************************************************)
(* What each group of steps leaves alone.                                  *)
(***************************************************************************)
AccountLabel == Confirmation \cup {"generate", "send", "change_phone"}
RegisterLabel == {"add_user", "add_stats", "add_profile"}

\* An account step changes no stage, no status and no tier.
LEMMA AccountMoves ==
    ASSUME TypeInv, NEW h \in running, AccountStep(h)
    PROVE  /\ UNCHANGED vettingVars
           /\ \A v \in Provider : profile'[v].kyc = profile[v].kyc /\ profile'[v].tier = profile[v].tier
           /\ \A e \in running' : e \in running \/ e.pc \in AccountLabel \cup RegisterLabel
           /\ \A e \in running : e \in running' \/ e.pc \in AccountLabel \cup RegisterLabel
<1>1. CASE RegisterUser(h)
  <2>1. h.pc \in RegisterLabel
      BY <1>1 DEF RegisterUser, At, RegisterLabel
  <2> QED
      BY <1>1, <2>1, RegisterTyped DEF Turns, Ends, RegisterLabel
<1>2. CASE GenerateOtp(h)
  <2>1. PICK g : Turns(h, g, "send")
      BY <1>2, GenerateDoes
  <2> QED
      BY <1>2, <2>1 DEF GenerateOtp, At, Turns, AccountLabel
<1>3. CASE SendOtp(h)
    BY <1>3, SendDoes DEF Ends, AccountLabel
<1>4. CASE CountAttempt(h)
  <2>1. PICK g : Turns(h, g, "compare")
      BY <1>4, CountDoes
  <2> QED
      BY <1>4, <2>1, CountDoes DEF Turns, AccountLabel, Confirmation
<1>5. CASE CompareCode(h)
  <2>1. Ends(h) \/ \E g : Turns(h, g, "flag")
      BY <1>5, CompareDoes
  <2>2. UNCHANGED <<vettingVars, profile>> /\ h.pc = "compare"
      BY <1>5, CompareDoes
  <2> QED
      BY <2>1, <2>2 DEF Ends, Turns, AccountLabel, Confirmation
<1>6. CASE SetVerified(h)
    BY <1>6, FlagDoes DEF Ends, AccountLabel, Confirmation
<1>7. CASE ChangePhone(h)
    BY <1>7, PhoneDoes DEF Ends, AccountLabel
<1> QED
    BY <1>1, <1>2, <1>3, <1>4, <1>5, <1>6, <1>7 DEF AccountStep

\* A vetting step changes no account and no code.
LEMMA VettingMoves ==
    ASSUME TypeInv, NEW h \in running, VettingStep(h)
    PROVE  /\ UNCHANGED otpVars
           /\ \A e \in running' : e \in running \/ e.pc \notin AccountLabel
           /\ \A e \in running : e \in running' \/ e.pc \notin AccountLabel
<1> DEFINE Moves == /\ UNCHANGED otpVars
                    /\ \A e \in running' : e \in running \/ e.pc \notin AccountLabel
                    /\ \A e \in running : e \in running' \/ e.pc \notin AccountLabel
<1> SUFFICES Moves
    OBVIOUS
<1>1. ASSUME NEW g, NEW label \in Label \ AccountLabel, Turns(h, g, label), h.pc \notin AccountLabel, UNCHANGED otpVars
      PROVE  Moves
    BY <1>1 DEF Turns
<1>2. ASSUME Ends(h), h.pc \notin AccountLabel, UNCHANGED otpVars
      PROVE  Moves
    BY <1>2 DEF Ends
<1> USE DEF AccountLabel, Confirmation, Label
<1> HIDE DEF Moves
<1>3. CASE CheckKyc(h)
    BY <1>1, <1>2, <1>3, CheckDoes
<1>4. CASE InsertKyc(h)
    BY <1>1, <1>4, InsertDoes
<1>5. CASE ProfileSubmitted(h)
    BY <1>2, <1>5, SubmittedDoes
<1>6. CASE ApproveKyc(h)
    BY <1>1, <1>6, ApproveDoes
<1>7. CASE ReadGuarantors(h)
    BY <1>1, <1>7, GuarantorsDoes
<1>8. CASE SaveKycTier(h)
    BY <1>1, <1>8, TierDoes
<1>9. CASE ProfileVerified(h)
    BY <1>2, <1>9, VerifiedDoes
<1>10. CASE RejectKyc(h)
    BY <1>1, <1>10, RejectDoes
<1>11. CASE ProfileFailed(h)
    BY <1>2, <1>11, FailedDoes
<1>12. CASE AddGuarantor(h)
    BY <1>2, <1>12, AddDoes
<1>13. CASE ApproveGuarantor(h)
    BY <1>1, <1>13, PassDoes
<1>14. CASE ReadKyc(h)
    BY <1>1, <1>2, <1>14, PassedDoes
<1>15. CASE StepInterview(h)
    BY <1>1, <1>15, StepDoes
<1>16. CASE SaveGuarantorTier(h)
    BY <1>2, <1>16, GuarantorTierDoes
<1>17. CASE RejectGuarantor(h)
    BY <1>2, <1>17, FailDoes
<1>18. CASE ScheduleInterview(h)
    BY <1>1, <1>18, ScheduleDoes
<1>19. CASE ProfileScheduled(h)
    BY <1>2, <1>19, ScheduledDoes
<1>20. CASE UpdateInterview(h)
    BY <1>1, <1>2, <1>20, UpdateDoes
<1>21. CASE ReadTier(h)
    BY <1>1, <1>21, JudgedDoes
<1>22. CASE SaveInterviewTier(h)
    BY <1>1, <1>22, InterviewTierDoes
<1>23. CASE CompleteOnboarding(h)
    BY <1>2, <1>23, CompleteDoes
<1>24. CASE SyncTier(h)
    BY <1>2, <1>24, SyncDoes
<1> QED
    BY <1>3, <1>4, <1>5, <1>6, <1>7, <1>8, <1>9, <1>10, <1>11, <1>12, <1>13, <1>14, <1>15, <1>16,
       <1>17, <1>18, <1>19, <1>20, <1>21, <1>22, <1>23, <1>24 DEF VettingStep, Moves

-----------------------------------------------------------------------------
(***************************************************************************)
(* Verified numbers.  A confirmation under way is about the number that    *)
(* the provider has, or the number it has has been noted as taken over.    *)
(***************************************************************************)
Confirms(h) ==
    /\ h.pc \in Confirmation /\ h.target \in Phone =>
          h.target = account[h.user].phone \/ account[h.user].phone \in overtaken[h.user]
    /\ h.pc = "flag" => h.target \in confirmed[h.user]

NumberInv ==
    /\ VerifiedNumber
    /\ \A h \in running : Confirms(h)

LEMMA NumberStays ==
    ASSUME NumberInv, UNCHANGED <<account, confirmed, overtaken>>,
           \A e \in running' : e \in running \/ Confirms(e)
    PROVE  NumberInv'
<1>1. VerifiedNumber'
    BY DEF NumberInv, VerifiedNumber
<1>2. \A e \in running' : Confirms(e)'
    BY DEF NumberInv, Confirms
<1> QED
    BY <1>1, <1>2 DEF NumberInv

LEMMA NumberRequest ==
    ASSUME TypeInv, NumberInv, NEW v \in Provider, AccountRequest(v) \/ VettingRequest(v)
    PROVE  NumberInv'
<1>1. UNCHANGED <<account, confirmed, overtaken>>
    BY Requests
<1>2. CASE \E g : Asks(g, v)
  <2>1. PICK g : Asks(g, v)
      BY <1>2
  <2>2. running' = running \cup {g} /\ g.user = v /\ g.pc # "compare" /\ g.pc # "flag"
      BY <2>1 DEF Asks, Opens
  <2>3. g.pc = "count" => g.target \in {v, account[v].phone}
      BY <2>1 DEF Asks
  <2>4. Confirms(g)
      BY <2>2, <2>3, ConstantsAssumption DEF Confirms, Confirmation
  <2> QED
      BY <1>1, <2>2, <2>4, NumberStays
<1>3. CASE UNCHANGED running
    BY <1>1, <1>3, NumberStays
<1> QED
    BY <1>2, <1>3, Requests

LEMMA NumberAccount ==
    ASSUME TypeInv, NumberInv, NEW h \in running, AccountStep(h)
    PROVE  NumberInv'
<1>0. h.user \in Provider /\ RowsTyped /\ h \in HandlerRow
    BY Rowed
<1>1. CASE RegisterUser(h)
  <2>1. UNCHANGED <<account, confirmed, overtaken>>
      BY <1>1, RegisterTyped DEF otpVars
  <2>2. \A e \in running' : e \in running \/ Confirms(e)
      BY <1>1, RegisterTyped DEF Turns, Ends, Confirms, Confirmation
  <2> QED
      BY <2>1, <2>2, NumberStays
<1>2. CASE GenerateOtp(h)
  <2>1. PICK g : Turns(h, g, "send")
      BY <1>2, GenerateDoes
  <2>2. \A e \in running' : e \in running \/ Confirms(e)
      BY <2>1 DEF Turns, Confirms, Confirmation
  <2> QED
      BY <1>2, <2>2, GenerateDoes, NumberStays
<1>3. CASE SendOtp(h)
    BY <1>3, SendDoes, NumberStays DEF Ends
<1>4. CASE CountAttempt(h)
  <2>1. PICK g : Turns(h, g, "compare") /\ g.target = h.target
      BY <1>4, CountDoes
  <2>2. Confirms(h) /\ h.pc = "count"
      BY <1>4, CountDoes DEF NumberInv
  <2>3. Confirms(g)
      BY <2>1, <2>2 DEF Turns, Confirms, Confirmation
  <2> QED
      BY <1>4, <2>1, <2>3, CountDoes, NumberStays DEF Turns
<1>5. CASE CompareCode(h)
  <2>1. h.pc = "compare" /\ h.target \in Target /\ UNCHANGED <<account, overtaken>> /\ Confirms(h)
      BY <1>5, CompareDoes DEF NumberInv
  <2>2. CASE Ends(h) /\ UNCHANGED confirmed
      BY <2>1, <2>2, NumberStays DEF Ends
  <2>3. ASSUME NEW g, Turns(h, g, "flag"), g.target = h.target,
               confirmed' = [confirmed EXCEPT ![h.user] = @ \cup {h.target}]
        PROVE  NumberInv'
    <3>1. confirmed \in [Provider -> SUBSET Target]
        BY <1>0 DEF RowsTyped
    <3>2. h.target \in confirmed'[h.user] /\ \A v \in Provider : confirmed[v] \subseteq confirmed'[v]
        BY <1>0, <2>3, <3>1
    <3>3. VerifiedNumber'
        BY <2>1, <3>2 DEF NumberInv, VerifiedNumber
    <3>4. \A e \in running : Confirms(e)'
        BY <2>1, <3>2, Rowed DEF NumberInv, Confirms
    <3>5. Confirms(g)'
        BY <2>1, <2>3, <3>2 DEF Turns, Confirms, Confirmation
    <3> QED
        BY <2>3, <3>3, <3>4, <3>5 DEF NumberInv, Turns
  <2> QED
      BY <1>5, <2>2, <2>3, CompareDoes
<1>6. CASE SetVerified(h)
  <2>1. h.pc = "flag" /\ h.target \in Target /\ Confirms(h) /\ Ends(h) /\ UNCHANGED <<confirmed, overtaken>>
      BY <1>6, FlagDoes DEF NumberInv
  <2>2. /\ \A v \in Provider : account'[v].phone = account[v].phone
        /\ \A v \in Provider \ {h.user} : account'[v] = account[v]
        /\ account'[h.user].verified = account[h.user].verified \cup {Flag(h.target)}
    <3> DEFINE a == account[h.user]
               b == [a EXCEPT !.verified = a.verified \cup {Flag(h.target)}]
    <3>1. a \in Account /\ account \in [Provider -> Account]
        BY <1>0 DEF RowsTyped
    <3>2. account' = [account EXCEPT ![h.user] = b]
        BY <1>6, <3>1, FlagDoes
    <3>3. b.phone = a.phone /\ b.verified = a.verified \cup {Flag(h.target)}
        BY <3>1 DEF Account
    <3> HIDE DEF b
    <3> QED
        BY <1>0, <3>1, <3>2, <3>3
  <2>3. ASSUME NEW v \in Provider, "phone" \in account'[v].verified
        PROVE  account'[v].phone \in confirmed[v] \cup overtaken[v]
    <3>1. CASE "phone" \in account[v].verified
        BY <2>2, <3>1 DEF NumberInv, VerifiedNumber
    <3>2. CASE "phone" \notin account[v].verified
      <4>1. v = h.user /\ Flag(h.target) = "phone"
          BY <2>2, <2>3, <3>2
      <4>2. h.target \in Phone
          BY <2>1, <4>1 DEF Flag, Target
      <4> QED
          BY <2>1, <2>2, <4>1, <4>2 DEF Confirms, Confirmation
    <3> QED
        BY <3>1, <3>2
  <2>4. VerifiedNumber'
      BY <2>1, <2>3 DEF VerifiedNumber
  <2>5. \A e \in running : Confirms(e)'
      BY <2>1, <2>2, Rowed DEF NumberInv, Confirms
  <2> QED
      BY <2>1, <2>4, <2>5 DEF NumberInv, Ends
<1>7. CASE ChangePhone(h)
  <2> DEFINE u == h.user
             a == account[u]
             n == h.target
  <2>1. h.pc = "change_phone" /\ n \in Phone /\ Ends(h) /\ UNCHANGED confirmed /\ h.n \in {0, 1}
    <3>1. HandlerOK(h)
        BY Rowed
    <3> QED
        BY <1>7, <3>1, PhoneDoes DEF HandlerOK
  <2>2. account \in [Provider -> Account] /\ overtaken \in [Provider -> SUBSET Phone]
      BY <1>0 DEF RowsTyped
  <2> DEFINE s == IF h.n = 1 THEN a.verified \ {"phone"} ELSE a.verified
             b == [phone |-> n, verified |-> s]
             o == overtaken[u] \cup {n}
  <2> DEFINE noted == Confirming(u) \/ (h.n = 0 /\ "phone" \in a.verified)
  <2>3. account' = [account EXCEPT ![u] = b]
      BY <1>0, <1>7, <2>2, PhoneDoes
  <2>4. IF noted THEN overtaken' = [overtaken EXCEPT ![u] = o] ELSE overtaken' = overtaken
      BY <1>7, PhoneDoes
  <2>5. account'[u] = b /\ \A v \in Provider \ {u} : account'[v] = account[v]
      BY <1>0, <2>2, <2>3
  <2>6. b.phone = n /\ b.verified = s
      OBVIOUS
  <2>7. /\ noted => n \in overtaken'[u]
        /\ \A v \in Provider : overtaken[v] \subseteq overtaken'[v]
    <3> HIDE DEF noted
    <3> QED
        BY <1>0, <2>2, <2>4
  <2>8. ASSUME NEW v \in Provider, "phone" \in account'[v].verified
        PROVE  account'[v].phone \in confirmed[v] \cup overtaken'[v]
    <3>1. CASE v # u
      <4>1. account'[v] = account[v]
          BY <2>5, <3>1
      <4> QED
          BY <2>7, <2>8, <4>1 DEF NumberInv, VerifiedNumber
    <3>2. CASE v = u
      <4>1. "phone" \in s
          BY <2>5, <2>6, <2>8, <3>2
      <4>2. noted
          BY <2>1, <4>1
      <4> HIDE DEF b, noted
      <4> QED
          BY <2>5, <2>6, <2>7, <3>2, <4>2
    <3> QED
        BY <3>1, <3>2
  <2>9. VerifiedNumber'
      BY <2>1, <2>8 DEF VerifiedNumber
  <2>10. ASSUME NEW e \in running
         PROVE  Confirms(e)'
    <3>0. Confirms(e) /\ e.user \in Provider
        BY Rowed DEF NumberInv
    <3>1. e.pc = "flag" => e.target \in confirmed'[e.user]
        BY <2>1, <3>0 DEF Confirms
    <3>2. ASSUME e.pc \in Confirmation, e.target \in Phone, e.user # u
          PROVE  e.target = account'[e.user].phone \/ account'[e.user].phone \in overtaken'[e.user]
      <4>1. account'[e.user] = account[e.user]
          BY <2>5, <3>0, <3>2
      <4> QED
          BY <2>7, <3>0, <3>2, <4>1 DEF Confirms
    <3>3. ASSUME e.pc \in Confirmation, e.target \in Phone, e.user = u
          PROVE  account'[e.user].phone \in overtaken'[e.user]
      <4>1. noted
          BY <3>3 DEF Confirming, Confirmation
      <4> HIDE DEF b, noted
      <4> QED
          BY <2>5, <2>6, <2>7, <3>3, <4>1
    <3> QED
        BY <3>1, <3>2, <3>3 DEF Confirms
  <2> QED
      BY <2>1, <2>9, <2>10 DEF NumberInv, Ends
<1> QED
    BY <1>1, <1>2, <1>3, <1>4, <1>5, <1>6, <1>7 DEF AccountStep

LEMMA NumberNext ==
    ASSUME TypeInv, NumberInv, [Next]_vars
    PROVE  NumberInv'
<1>1. CASE UNCHANGED vars
    BY <1>1, NumberStays DEF vars, otpVars
<1>2. ASSUME NEW h \in running, HandlerStep(h)
      PROVE  NumberInv'
  <2>1. CASE VettingStep(h)
    <3>1. UNCHANGED otpVars /\ \A e \in running' : e \in running \/ e.pc \notin AccountLabel
        BY <2>1, VettingMoves
    <3>2. \A e \in running' : e \in running \/ Confirms(e)
        BY <3>1 DEF AccountLabel, Confirms, Confirmation
    <3> QED
        BY <3>1, <3>2, NumberStays DEF otpVars
  <2> QED
      BY <1>2, <2>1, NumberAccount DEF HandlerStep
<1>3. ASSUME NEW v \in Provider, AccountRequest(v) \/ VettingRequest(v)
      PROVE  NumberInv'
    BY <1>3, NumberRequest
<1>4. ASSUME NEW t \in Target, ExpireCooldown(t) \/ ExpireOtp(t)
      PROVE  NumberInv'
    BY <1>4, NumberStays DEF ExpireCooldown, ExpireOtp
<1> QED
    BY <1>1, <1>2, <1>3, <1>4 DEF Next

\* A number counts as verified only if a code has confirmed that number, or
\* if it was taken over while a confirmation of the old one was under way:
\* change and confirmation of a number in every order of their commits.
THEOREM NumbersAreConfirmed == Spec => []VerifiedNumber
<1>1. Init => TypeInv /\ NumberInv
  <2>1. Init => \A v \in Provider : "phone" \notin account[v].verified
      BY DEF Init
  <2>2. Init => running = {}
      BY DEF Init
  <2> QED
      BY <2>1, <2>2, TypeInit DEF NumberInv, VerifiedNumber
<1>2. TypeInv /\ NumberInv /\ [Next]_vars => (TypeInv /\ NumberInv)'
    BY TypeNext, NumberNext
<1>3. NumberInv => VerifiedNumber
    BY DEF NumberInv
<1> QED
    BY <1>1, <1>2, <1>3, PTL DEF Spec

-----------------------------------------------------------------------------
(***************************************************************************)
(* Codes.  The attempt that reached the limit has yet to be compared.      *)
(***************************************************************************)
CodeInv ==
    \A t \in Target : otp[t].code /\ otp[t].tries >= OtpMaxAttempts =>
        \E h \in running : h.target = t /\ h.pc = "compare" /\ h.n >= OtpMaxAttempts

\* A step that leaves the keys and every comparison.
LEMMA CodeStays ==
    ASSUME CodeInv, UNCHANGED otp, \A h \in running : h.pc = "compare" => h \in running'
    PROVE  CodeInv'
BY DEF CodeInv

\* A step that leaves the code of a target dead, or its count at nothing.
LEMMA CodeSpent ==
    ASSUME TypeInv, CodeInv, NEW t \in Target, NEW o \in Otp, Set(t, o), ~o.code \/ o.tries = 0,
           \A h \in running : h.pc = "compare" /\ h.target # t => h \in running'
    PROVE  CodeInv'
<1>1. otp'[t] = o /\ \A u \in Target \ {t} : otp'[u] = otp[u]
    BY KeysSet
<1>2. OtpMaxAttempts \in Nat /\ OtpMaxAttempts # 0
    BY ConstantsAssumption
<1>3. ~(otp'[t].code /\ otp'[t].tries >= OtpMaxAttempts)
    BY <1>1, <1>2
<1> SUFFICES ASSUME NEW u \in Target, otp'[u].code, otp'[u].tries >= OtpMaxAttempts
             PROVE  \E h \in running' : h.target = u /\ h.pc = "compare" /\ h.n >= OtpMaxAttempts
    BY DEF CodeInv
<1>4. u # t /\ otp'[u] = otp[u]
    BY <1>1, <1>3
<1>5. PICK h \in running : h.target = u /\ h.pc = "compare" /\ h.n >= OtpMaxAttempts
    BY <1>4 DEF CodeInv
<1> QED
    BY <1>4, <1>5

LEMMA CodeAccount ==
    ASSUME TypeInv, CodeInv, NEW h \in running, AccountStep(h)
    PROVE  CodeInv'
<1>0. h.user \in Provider /\ RowsTyped /\ h \in HandlerRow
    BY Rowed
<1>1. CASE RegisterUser(h)
  <2>1. h.pc # "compare"
      BY <1>1 DEF RegisterUser, At
  <2> QED
      BY <1>1, <2>1, RegisterTyped, CodeStays DEF Turns, Ends, otpVars
<1>2. CASE GenerateOtp(h)
  <2>1. PICK g : Turns(h, g, "send")
      BY <1>2, GenerateDoes
  <2> DEFINE o == [code |-> TRUE, tries |-> 0, cooldown |-> TRUE]
  <2>2. Set(h.target, o) /\ h.target \in Target /\ o \in Otp /\ h.pc # "compare" /\ o.tries = 0
      BY <1>2, GenerateDoes DEF GenerateOtp, At, Otp
  <2> HIDE DEF o
  <2> QED
      BY <2>1, <2>2, CodeSpent DEF Turns
<1>3. CASE SendOtp(h)
  <2>1. Ends(h) /\ h.pc = "send" /\ h.target \in Target
      BY <1>3, SendDoes
  <2>2. CASE UNCHANGED otp
      BY <2>1, <2>2, CodeStays DEF Ends
  <2>3. CASE Set(h.target, NoOtp)
    <3>1. NoOtp \in Otp /\ ~NoOtp.code
        BY <2>1, KeysTyped DEF NoOtp
    <3> QED
        BY <2>1, <2>3, <3>1, CodeSpent DEF Ends
  <2> QED
      BY <1>3, <2>2, <2>3, SendDoes
<1>4. CASE CountAttempt(h)
  <2>1. PICK g : Turns(h, g, "compare") /\ g.target = h.target /\ g.n = h.n + 1
      BY <1>4, CountDoes
  <2> DEFINE t == h.target
             n == h.n + 1
             o == [otp[t] EXCEPT !.tries = n]
  <2>2. t \in Target /\ n \in Nat /\ h.pc = "count" /\ otp' = [otp EXCEPT ![t].tries = n]
      BY <1>4, CountDoes
  <2>3. Set(t, o) /\ otp[t] \in Otp
      BY <2>2 DEF Set, TypeInv, TypeOK
  <2>4. o \in Otp /\ o.tries = n /\ o.code = otp[t].code
      BY <2>2, <2>3, KeysTyped DEF Otp
  <2> HIDE DEF o
  <2>5. otp'[t] = o /\ \A u \in Target \ {t} : otp'[u] = otp[u]
      BY <2>2, <2>3, <2>4, KeysSet
  <2>6. ASSUME NEW u \in Target, otp'[u].code, otp'[u].tries >= OtpMaxAttempts
        PROVE  \E e \in running' : e.target = u /\ e.pc = "compare" /\ e.n >= OtpMaxAttempts
    <3>1. CASE u = t
      <4>1. n >= OtpMaxAttempts
          BY <2>4, <2>5, <2>6, <3>1
      <4>2. g \in running' /\ g.target = t /\ g.pc = "compare" /\ g.n = n
          BY <2>1 DEF Turns
      <4> QED
          BY <3>1, <4>1, <4>2
    <3>2. CASE u # t
      <4>1. PICK e \in running : e.target = u /\ e.pc = "compare" /\ e.n >= OtpMaxAttempts
          BY <2>5, <2>6, <3>2 DEF CodeInv
      <4>2. e \in running'
          BY <2>1, <2>2, <4>1 DEF Turns
      <4> QED
          BY <4>1, <4>2
    <3> QED
        BY <3>1, <3>2
  <2> QED
      BY <2>6 DEF CodeInv
<1>5. CASE CompareCode(h)
  <2>1. h.pc = "compare" /\ h.target \in Target
      BY <1>5, CompareDoes
  <2>2. Ends(h) \/ \E g : Turns(h, g, "flag")
      BY <1>5, CompareDoes
  <2>3. \A e \in running : e # h => e \in running'
      BY <2>2 DEF Ends, Turns
  <2>4. CASE h.k = 1 \/ h.n >= OtpMaxAttempts
    <3>1. Set(h.target, Spent(h.target))
        BY <1>5, <2>4, CompareDoes
    <3> DEFINE o == Spent(h.target)
    <3>2. o \in Otp /\ ~o.code
        BY <2>1, KeysTyped
    <3> HIDE DEF o
    <3>3. Set(h.target, o)
        BY <3>1 DEF o
    <3> QED
        BY <2>1, <2>3, <3>2, <3>3, CodeSpent
  <2>5. CASE ~(h.k = 1 \/ h.n >= OtpMaxAttempts)
    <3>1. UNCHANGED otp
        BY <1>5, <2>5, CompareDoes
    <3> QED
        BY <2>3, <2>5, <3>1 DEF CodeInv
  <2> QED
      BY <2>4, <2>5
<1>6. CASE SetVerified(h)
    BY <1>6, FlagDoes, CodeStays DEF Ends
<1>7. CASE ChangePhone(h)
    BY <1>7, PhoneDoes, CodeStays DEF Ends
<1> QED
    BY <1>1, <1>2, <1>3, <1>4, <1>5, <1>6, <1>7 DEF AccountStep

LEMMA CodeNext ==
    ASSUME TypeInv, CodeInv, [Next]_vars
    PROVE  CodeInv'
<1>1. CASE UNCHANGED vars
    BY <1>1, CodeStays DEF vars, otpVars
<1>2. ASSUME NEW h \in running, HandlerStep(h)
      PROVE  CodeInv'
  <2>1. CASE VettingStep(h)
    <3>1. UNCHANGED otpVars /\ \A e \in running : e \in running' \/ e.pc \notin AccountLabel
        BY <2>1, VettingMoves
    <3> QED
        BY <3>1, CodeStays DEF otpVars, AccountLabel, Confirmation
  <2> QED
      BY <1>2, <2>1, CodeAccount DEF HandlerStep
<1>3. ASSUME NEW v \in Provider, AccountRequest(v) \/ VettingRequest(v)
      PROVE  CodeInv'
  <2>1. CASE UNCHANGED otp /\ \E g : Asks(g, v)
      BY <2>1, CodeStays DEF Asks, Opens
  <2>2. ASSUME UNCHANGED running, NEW t \in Target, Set(t, Spent(t))
        PROVE  CodeInv'
    <3> DEFINE o == Spent(t)
    <3>1. o \in Otp /\ ~o.code
        BY KeysTyped
    <3>2. Set(t, o)
        BY <2>2
    <3> HIDE DEF o
    <3> QED
        BY <2>2, <3>1, <3>2, CodeSpent
  <2> QED
      BY <1>3, <2>1, <2>2, Requests
<1>4. ASSUME NEW t \in Target, ExpireOtp(t)
      PROVE  CodeInv'
  <2>1. Set(t, NoOtp) /\ UNCHANGED running /\ NoOtp \in Otp /\ ~NoOtp.code
      BY <1>4, KeysTyped DEF ExpireOtp, NoOtp
  <2> QED
      BY <2>1, CodeSpent
<1>5. ASSUME NEW t \in Target, ExpireCooldown(t)
      PROVE  CodeInv'
  <2>1. \A u \in Target : otp'[u].code = otp[u].code /\ otp'[u].tries = otp[u].tries
      BY <1>5 DEF ExpireCooldown, TypeInv, TypeOK, Otp
  <2> QED
      BY <1>5, <2>1 DEF ExpireCooldown, CodeInv
<1> QED
    BY <1>1, <1>2, <1>3, <1>4, <1>5 DEF Next

\* The last attempt kills the code, whatever attempts share its counter and
\* whatever code an old attempt counts against.
THEOREM CodesRunOut == Spec => []SpentCodeIsGone
<1>1. Init => TypeInv /\ CodeInv
  <2>1. Init => \A t \in Target : ~otp[t].code
      BY DEF Init, NoOtp
  <2> QED
      BY <2>1, TypeInit DEF CodeInv
<1>2. TypeInv /\ CodeInv /\ [Next]_vars => (TypeInv /\ CodeInv)'
    BY TypeNext, CodeNext
<1>3. CodeInv => SpentCodeIsGone
    BY DEF CodeInv, SpentCodeIsGone, At
<1> QED
    BY <1>1, <1>2, <1>3, PTL DEF Spec

-----------------------------------------------------------------------------
(***************************************************************************)
(* Who is looked at.  The flags stand for what has been confirmed once, a  *)
(* submission is let in by both of them, and so is each of its steps.      *)
(***************************************************************************)
Known(v) == v \in confirmed[v] /\ confirmed[v] \cap Phone # {}

Admitted(h) ==
    /\ h.pc = "flag" => h.target \in confirmed[h.user]
    /\ h.pc \in {"upload", "insert"} => Known(h.user)

KnownRows(v) ==
    /\ "email" \in account[v].verified => v \in confirmed[v]
    /\ "phone" \in account[v].verified => confirmed[v] \cap Phone # {}
    /\ DOMAIN kyc[v] # {} => Known(v)

KnownInv ==
    /\ \A v \in Provider : KnownRows(v)
    /\ \A h \in running : Admitted(h)

\* What is confirmed stays so.  A step that sets no flag, and files a document
\* of nobody who is not known.
LEMMA KnownStays ==
    ASSUME TypeInv, KnownInv,
           \A v \in Provider : confirmed[v] \subseteq confirmed'[v],
           \A v \in Provider : account'[v].verified \subseteq account[v].verified,
           \A v \in Provider : DOMAIN kyc'[v] = DOMAIN kyc[v] \/ Known(v),
           \A e \in running' : e \in running \/ Admitted(e)'
    PROVE  KnownInv'
<1>1. ASSUME NEW v \in Provider, Known(v)
      PROVE  Known(v)'
    BY <1>1 DEF Known
<1>2. ASSUME NEW v \in Provider
      PROVE  KnownRows(v)'
  <2>1. KnownRows(v)
      BY DEF KnownInv
  <2>2. "email" \in account'[v].verified => v \in confirmed'[v]
      BY <2>1 DEF KnownRows
  <2>3. "phone" \in account'[v].verified => confirmed'[v] \cap Phone # {}
      BY <2>1 DEF KnownRows
  <2>4. DOMAIN kyc'[v] # {} => Known(v)
      BY <2>1 DEF KnownRows
  <2> QED
      BY <1>1, <2>2, <2>3, <2>4 DEF KnownRows
<1>3. ASSUME NEW e \in running
      PROVE  Admitted(e)'
  <2>1. Admitted(e) /\ e.user \in Provider
      BY Rowed DEF KnownInv
  <2> QED
      BY <1>1, <2>1 DEF Admitted
<1> QED
    BY <1>2, <1>3 DEF KnownInv

LEMMA KnownRequest ==
    ASSUME TypeInv, KnownInv, NEW v \in Provider, AccountRequest(v) \/ VettingRequest(v)
    PROVE  KnownInv'
<1>1. UNCHANGED <<account, confirmed, kyc>>
    BY Requests DEF vettingVars
<1>2. CASE \E g : Asks(g, v)
  <2>1. PICK g : Asks(g, v)
      BY <1>2
  <2>2. running' = running \cup {g} /\ g.user = v /\ g.pc # "insert" /\ g.pc # "flag"
      BY <2>1 DEF Asks, Opens
  <2>3. g.pc = "upload" => Known(v)
      BY <2>1 DEF Asks, KnownInv, KnownRows, Known
  <2>4. Admitted(g)'
      BY <1>1, <2>2, <2>3 DEF Admitted, Known
  <2> QED
      BY <1>1, <2>2, <2>4, KnownStays
<1>3. CASE UNCHANGED running
    BY <1>1, <1>3, KnownStays
<1> QED
    BY <1>2, <1>3, Requests

LEMMA KnownAccount ==
    ASSUME TypeInv, KnownInv, NEW h \in running, AccountStep(h)
    PROVE  KnownInv'
<1>0. h.user \in Provider /\ RowsTyped /\ h \in HandlerRow
    BY Rowed
<1>1. UNCHANGED kyc /\ \A e \in running' : e \in running \/ e.pc \in AccountLabel \cup RegisterLabel
    BY AccountMoves DEF vettingVars
<1>2. \A e \in running' : e \in running \/ e.pc \notin {"upload", "insert"}
    BY <1>1 DEF AccountLabel, RegisterLabel, Confirmation
<1>3. ASSUME UNCHANGED <<account, confirmed>>, \A e \in running' : e \in running \/ e.pc # "flag"
      PROVE  KnownInv'
  <2>1. \A e \in running' : e \in running \/ Admitted(e)'
      BY <1>2, <1>3 DEF Admitted
  <2> QED
      BY <1>1, <1>3, <2>1, KnownStays
<1>4. CASE RegisterUser(h)
  <2>1. \A e \in running' : e \in running \/ e.pc # "flag"
      BY <1>4, RegisterTyped DEF Turns, Ends
  <2> QED
      BY <1>3, <1>4, <2>1, RegisterTyped DEF otpVars
<1>5. CASE GenerateOtp(h)
    BY <1>3, <1>5, GenerateDoes DEF Turns
<1>6. CASE SendOtp(h)
    BY <1>3, <1>6, SendDoes DEF Ends
<1>7. CASE CountAttempt(h)
    BY <1>3, <1>7, CountDoes DEF Turns
<1>8. CASE CompareCode(h)
  <2>1. CASE Ends(h) /\ UNCHANGED confirmed
      BY <1>3, <1>8, <2>1, CompareDoes DEF Ends
  <2>2. ASSUME NEW g, Turns(h, g, "flag"), g.target = h.target,
               confirmed' = [confirmed EXCEPT ![h.user] = @ \cup {h.target}]
        PROVE  KnownInv'
    <3>1. confirmed \in [Provider -> SUBSET Target]
        BY <1>0 DEF RowsTyped
    <3>2. h.target \in confirmed'[h.user] /\ \A v \in Provider : confirmed[v] \subseteq confirmed'[v]
        BY <1>0, <2>2, <3>1
    <3>3. Admitted(g)'
        BY <2>2, <3>2 DEF Turns, Admitted
    <3>4. \A e \in running' : e \in running \/ Admitted(e)'
        BY <2>2, <3>3 DEF Turns
    <3> QED
        BY <1>1, <1>8, <3>2, <3>4, CompareDoes, KnownStays
  <2> QED
      BY <1>8, <2>1, <2>2, CompareDoes
<1>9. CASE SetVerified(h)
  <2>1. h.pc = "flag" /\ h.target \in Target /\ Ends(h) /\ UNCHANGED <<confirmed, kyc>>
      BY <1>1, <1>9, FlagDoes
  <2>2. h.target \in confirmed[h.user]
      BY <2>1 DEF KnownInv, Admitted
  <2>3. /\ \A v \in Provider \ {h.user} : account'[v] = account[v]
        /\ account'[h.user].verified = account[h.user].verified \cup {Flag(h.target)}
    <3> DEFINE a == account[h.user]
               b == [a EXCEPT !.verified = a.verified \cup {Flag(h.target)}]
    <3>1. a \in Account /\ account \in [Provider -> Account]
        BY <1>0 DEF RowsTyped
    <3>2. account' = [account EXCEPT ![h.user] = b]
        BY <1>9, <3>1, FlagDoes
    <3>3. b.verified = a.verified \cup {Flag(h.target)}
        BY <3>1 DEF Account
    <3> HIDE DEF b
    <3> QED
        BY <1>0, <3>1, <3>2, <3>3
  <2>4. HandlerOK(h)
      BY Rowed
  <2>5. Flag(h.target) = "email" => h.target = h.user
      BY <2>1, <2>4, ConstantsAssumption DEF Flag, HandlerOK, Confirmation
  <2>6. Flag(h.target) = "phone" => h.target \in Phone
      BY <2>1 DEF Flag, Target
  <2>7. ASSUME NEW v \in Provider
        PROVE  KnownRows(v)'
    <3>1. KnownRows(v)
        BY DEF KnownInv
    <3>2. DOMAIN kyc'[v] # {} => Known(v)'
        BY <2>1, <3>1 DEF KnownRows, Known
    <3>3. CASE v # h.user
        BY <2>1, <2>3, <3>1, <3>2, <3>3 DEF KnownRows
    <3>4. CASE v = h.user
      <4>1. "email" \in account'[v].verified => v \in confirmed[v]
          BY <2>2, <2>3, <2>5, <3>1, <3>4 DEF KnownRows
      <4>2. "phone" \in account'[v].verified => confirmed[v] \cap Phone # {}
          BY <2>2, <2>3, <2>6, <3>1, <3>4 DEF KnownRows
      <4> QED
          BY <2>1, <3>2, <4>1, <4>2 DEF KnownRows
    <3> QED
        BY <3>3, <3>4
  <2>8. \A e \in running : Admitted(e)'
      BY <2>1 DEF KnownInv, Admitted, Known
  <2> QED
      BY <2>1, <2>7, <2>8 DEF KnownInv, Ends
<1>10. CASE ChangePhone(h)
  <2> DEFINE u == h.user
             a == account[u]
             s == IF h.n = 1 THEN a.verified \ {"phone"} ELSE a.verified
             b == [phone |-> h.target, verified |-> s]
  <2>1. account \in [Provider -> Account]
      BY <1>0 DEF RowsTyped
  <2>2. account' = [account EXCEPT ![u] = b]
      BY <1>0, <1>10, <2>1, PhoneDoes
  <2>3. b.verified \subseteq a.verified
      OBVIOUS
  <2> HIDE DEF b
  <2>4. \A v \in Provider : account'[v].verified \subseteq account[v].verified
      BY <1>0, <2>1, <2>2, <2>3
  <2> QED
      BY <1>1, <1>10, <2>4, PhoneDoes, KnownStays DEF Ends
<1> QED
    BY <1>4, <1>5, <1>6, <1>7, <1>8, <1>9, <1>10 DEF AccountStep

\* The other steps of vetting file no document and let nobody in.
LEMMA KnownVetting ==
    ASSUME TypeInv, KnownInv, NEW h \in running, VettingStep(h)
    PROVE  KnownInv'
<1>0. h.user \in Provider
    BY Rowed
<1>1. UNCHANGED <<account, confirmed>>
    BY VettingMoves DEF otpVars
<1>2. CASE CheckKyc(h)
  <2>1. h.pc = "upload" /\ UNCHANGED kyc
      BY <1>2, CheckDoes DEF vettingVars
  <2>2. Known(h.user)
      BY <2>1 DEF KnownInv, Admitted
  <2>3. \A e \in running' : e \in running \/ (e.user = h.user /\ e.pc # "flag")
      BY <1>2, CheckDoes DEF Turns, Ends
  <2>4. \A e \in running' : e \in running \/ Admitted(e)'
      BY <1>1, <2>2, <2>3 DEF Admitted, Known
  <2> QED
      BY <1>1, <2>1, <2>4, KnownStays
<1>3. CASE InsertKyc(h)
  <2>1. h.pc = "insert" /\ \A w \in Provider \ {h.user} : kyc'[w] = kyc[w]
      BY <1>3, InsertDoes
  <2>2. Known(h.user)
      BY <2>1 DEF KnownInv, Admitted
  <2>3. \A e \in running' : e \in running \/ Admitted(e)'
      BY <1>3, InsertDoes DEF Turns, Admitted
  <2> QED
      BY <1>1, <2>1, <2>2, <2>3, KnownStays
<1>4. ASSUME \A v \in Provider : DOMAIN kyc'[v] = DOMAIN kyc[v],
             \A e \in running' : e \in running \/ e.pc \notin {"flag", "upload", "insert"}
      PROVE  KnownInv'
  <2>1. \A e \in running' : e \in running \/ Admitted(e)'
      BY <1>4 DEF Admitted
  <2> QED
      BY <1>1, <1>4, <2>1, KnownStays
<1> DEFINE Files == /\ \A v \in Provider : DOMAIN kyc'[v] = DOMAIN kyc[v]
                    /\ \A e \in running' : e \in running \/ e.pc \notin {"flag", "upload", "insert"}
<1>5. ASSUME NEW g, NEW label \in Label \ {"flag", "upload", "insert"}, Turns(h, g, label),
             \A v \in Provider : DOMAIN kyc'[v] = DOMAIN kyc[v]
      PROVE  Files
    BY <1>5 DEF Turns
<1>6. ASSUME Ends(h), UNCHANGED kyc
      PROVE  Files
    BY <1>6 DEF Ends
<1> SUFFICES ASSUME ~CheckKyc(h), ~InsertKyc(h)
             PROVE  Files
    BY <1>2, <1>3, <1>4
<1> USE DEF Label
<1> HIDE DEF Files
<1>7. CASE ProfileSubmitted(h)
    BY <1>6, <1>7, SubmittedDoes DEF vettingVars
<1>8. CASE ApproveKyc(h)
    BY <1>5, <1>8, ApproveDoes
<1>9. CASE ReadGuarantors(h)
    BY <1>5, <1>9, GuarantorsDoes
<1>10. CASE SaveKycTier(h)
    BY <1>5, <1>10, TierDoes DEF vettingVars
<1>11. CASE ProfileVerified(h)
    BY <1>6, <1>11, VerifiedDoes DEF vettingVars
<1>12. CASE RejectKyc(h)
    BY <1>5, <1>12, RejectDoes
<1>13. CASE ProfileFailed(h)
    BY <1>6, <1>13, FailedDoes DEF vettingVars
<1>14. CASE AddGuarantor(h)
    BY <1>6, <1>14, AddDoes
<1>15. CASE ApproveGuarantor(h)
    BY <1>5, <1>15, PassDoes
<1>16. CASE ReadKyc(h)
    BY <1>5, <1>6, <1>16, PassedDoes
<1>17. CASE StepInterview(h)
    BY <1>5, <1>17, StepDoes DEF vettingVars
<1>18. CASE SaveGuarantorTier(h)
    BY <1>6, <1>18, GuarantorTierDoes DEF vettingVars
<1>19. CASE RejectGuarantor(h)
    BY <1>6, <1>19, FailDoes
<1>20. CASE ScheduleInterview(h)
    BY <1>5, <1>20, ScheduleDoes
<1>21. CASE ProfileScheduled(h)
    BY <1>6, <1>21, ScheduledDoes DEF vettingVars
<1>22. CASE UpdateInterview(h)
    BY <1>5, <1>6, <1>22, UpdateDoes
<1>23. CASE ReadTier(h)
    BY <1>5, <1>23, JudgedDoes DEF vettingVars
<1>24. CASE SaveInterviewTier(h)
    BY <1>5, <1>24, InterviewTierDoes DEF vettingVars
<1>25. CASE CompleteOnboarding(h)
    BY <1>6, <1>25, CompleteDoes DEF vettingVars
<1>26. CASE SyncTier(h)
    BY <1>6, <1>26, SyncDoes DEF vettingVars
<1> QED
    BY <1>7, <1>8, <1>9, <1>10, <1>11, <1>12, <1>13, <1>14, <1>15, <1>16, <1>17, <1>18, <1>19, <1>20,
       <1>21, <1>22, <1>23, <1>24, <1>25, <1>26 DEF VettingStep

LEMMA KnownInit == Init => KnownInv
<1>1. Init => \A v \in Provider : "phone" \notin account[v].verified
    BY DEF Init
<1>2. Init => \A v \in Provider : "email" \in account[v].verified => v \in confirmed[v]
    BY DEF Init
<1>3. Init => running = {} /\ \A v \in Provider : DOMAIN kyc[v] = {}
    BY DEF Init
<1> QED
    BY <1>1, <1>2, <1>3 DEF KnownInv, KnownRows

LEMMA KnownNext ==
    ASSUME TypeInv, KnownInv, [Next]_vars
    PROVE  KnownInv'
<1>1. CASE UNCHANGED vars
    BY <1>1, KnownStays DEF vars, otpVars, vettingVars
<1>2. ASSUME NEW h \in running, HandlerStep(h)
      PROVE  KnownInv'
    BY <1>2, KnownAccount, KnownVetting DEF HandlerStep
<1>3. ASSUME NEW v \in Provider, AccountRequest(v) \/ VettingRequest(v)
      PROVE  KnownInv'
    BY <1>3, KnownRequest
<1>4. ASSUME NEW t \in Target, ExpireCooldown(t) \/ ExpireOtp(t)
      PROVE  KnownInv'
    BY <1>4, KnownStays DEF ExpireCooldown, ExpireOtp, vettingVars
<1> QED
    BY <1>1, <1>2, <1>3, <1>4 DEF Next

-----------------------------------------------------------------------------
(***************************************************************************)
(* Tiers.  What a request is about to write has been earned when it read,  *)
(* and what has been earned stays so.                                      *)
(***************************************************************************)
Earned(h) ==
    /\ h.pc \in {"promote", "save_tier", "save_profile", "step", "passed_tier", "schedule",
                 "judged", "judged_tier", "sync"} => "kyc" \in stages[h.user]
    /\ (h.pc \in {"passed", "step", "passed_tier"} \/ (h.pc = "save_tier" /\ h.k = 3)) =>
          "guarantor" \in stages[h.user]
    /\ h.pc \in {"judged", "judged_tier", "sync"} => "interview" \in stages[h.user]

TierEarned(v) ==
    /\ profile[v].tier >= 2 => "kyc" \in stages[v]
    /\ profile[v].tier = 3 => "guarantor" \in stages[v]
    /\ profile[v].tier >= 4 => "interview" \in stages[v]

StatusEarned(v) ==
    /\ profile[v].kyc = "VERIFIED" => "kyc" \in stages[v]
    /\ DOMAIN interview[v] # {} => "kyc" \in stages[v]
    /\ Passed(guarantor[v]) => "guarantor" \in stages[v]

TierInv ==
    /\ \A v \in Provider : TierEarned(v) /\ StatusEarned(v)
    /\ \A h \in running : Earned(h)

\* A step whose new rows, and whose new tiers, are earned.
LEMMA TierStep ==
    ASSUME TypeInv, TierInv,
           \A v \in Provider : stages[v] \subseteq stages'[v],
           \A v \in Provider : profile'[v].tier = profile[v].tier \/ TierEarned(v)',
           \A v \in Provider : profile'[v].kyc = "VERIFIED" => profile[v].kyc = "VERIFIED" \/ "kyc" \in stages'[v],
           \A v \in Provider : DOMAIN interview'[v] = DOMAIN interview[v] \/ "kyc" \in stages'[v],
           \A v \in Provider : Passed(guarantor'[v]) => Passed(guarantor[v]) \/ "guarantor" \in stages'[v],
           \A e \in running' : e \in running \/ Earned(e)'
    PROVE  TierInv'
<1>1. ASSUME NEW v \in Provider
      PROVE  TierEarned(v)' /\ StatusEarned(v)'
  <2>1. TierEarned(v) /\ StatusEarned(v) /\ stages[v] \subseteq stages'[v]
      BY DEF TierInv
  <2>2. TierEarned(v)'
      BY <2>1 DEF TierEarned
  <2>3. StatusEarned(v)'
      BY <2>1 DEF StatusEarned
  <2> QED
      BY <2>2, <2>3
<1>2. ASSUME NEW e \in running
      PROVE  Earned(e)'
  <2>1. Earned(e) /\ e.user \in Provider
      BY Rowed DEF TierInv
  <2>2. stages[e.user] \subseteq stages'[e.user]
      BY <2>1
  <2> QED
      BY <2>1, <2>2 DEF Earned
<1> QED
    BY <1>1, <1>2 DEF TierInv

\* A commit to one profile.
LEMMA TierSaved ==
    ASSUME TypeInv, TierInv, UNCHANGED vettingVars, NEW v \in Provider, NEW p, Saves(v, p),
           p.tier = profile[v].tier \/ TierEarned(v)',
           p.kyc = "VERIFIED" => profile[v].kyc = "VERIFIED" \/ "kyc" \in stages[v],
           \A e \in running' : e \in running \/ Earned(e)'
    PROVE  TierInv'
<1>1. UNCHANGED <<guarantor, interview, stages>>
    BY DEF vettingVars
<1>2. profile'[v] = p /\ \A w \in Provider \ {v} : profile'[w] = profile[w]
    BY DEF Saves
<1>3. \A w \in Provider : profile'[w].tier = profile[w].tier \/ TierEarned(w)'
    BY <1>2
<1>4. \A w \in Provider : profile'[w].kyc = "VERIFIED" => profile[w].kyc = "VERIFIED" \/ "kyc" \in stages'[w]
    BY <1>1, <1>2
<1> QED
    BY <1>1, <1>3, <1>4, TierStep

LEMMA TierRequest ==
    ASSUME TypeInv, TierInv, NEW v \in Provider, AccountRequest(v) \/ VettingRequest(v)
    PROVE  TierInv'
<1>1. UNCHANGED <<guarantor, interview, stages, profile>>
    BY Requests DEF vettingVars
<1>2. CASE \E g : Asks(g, v)
  <2>1. PICK g : Asks(g, v)
      BY <1>2
  <2>2. /\ running' = running \cup {g} /\ g.user = v
        /\ g.pc \in {"add_user", "generate", "count", "change_phone", "upload", "approve", "reject",
                     "add_guarantor", "pass", "fail", "schedule", "judge", "sync"}
      BY <2>1 DEF Asks, Opens
  <2>3. TierEarned(v) /\ StatusEarned(v)
      BY DEF TierInv
  <2>4. g.pc = "schedule" => "kyc" \in stages[v]
      BY <2>1, <2>3 DEF Asks, StatusEarned
  <2>5. g.pc = "sync" => profile[v].tier \in 4 .. 7
      BY <2>1 DEF Asks
  <2>6. g.pc = "sync" => "kyc" \in stages[v] /\ "interview" \in stages[v]
      BY <2>3, <2>5 DEF TierEarned
  <2>7. Earned(g)'
      BY <1>1, <2>2, <2>4, <2>6 DEF Earned
  <2> QED
      BY <1>1, <2>2, <2>7, TierStep
<1>3. CASE UNCHANGED running
    BY <1>1, <1>3, TierStep
<1> QED
    BY <1>2, <1>3, Requests

LEMMA TierAccount ==
    ASSUME TypeInv, TierInv, NEW h \in running, AccountStep(h)
    PROVE  TierInv'
<1>1. /\ UNCHANGED vettingVars
      /\ \A v \in Provider : profile'[v].kyc = profile[v].kyc /\ profile'[v].tier = profile[v].tier
      /\ \A e \in running' : e \in running \/ e.pc \in AccountLabel \cup RegisterLabel
    BY AccountMoves
<1>2. \A e \in running' : e \in running \/ Earned(e)'
    BY <1>1 DEF AccountLabel, RegisterLabel, Confirmation, Earned
<1> QED
    BY <1>1, <1>2, TierStep DEF vettingVars

LEMMA TierVetting ==
    ASSUME TypeInv, TierInv, NEW h \in running, VettingStep(h)
    PROVE  TierInv'
<1>0. h.user \in Provider /\ profile \in [Provider -> Profile] /\ stages \in [Provider -> SUBSET {"kyc", "guarantor", "interview"}]
    BY Rowed DEF RowsTyped
<1> DEFINE v == h.user
<1>1. Earned(h) /\ TierEarned(v) /\ StatusEarned(v)
    BY <1>0 DEF TierInv
<1>2. profile[v] \in Profile /\ profile[v].tier \in 1 .. 8
    BY <1>0 DEF Profile
<1>3. CASE CheckKyc(h)
  <2>1. \A e \in running' : e \in running \/ Earned(e)'
      BY <1>3, CheckDoes DEF Turns, Ends, Earned
  <2> QED
      BY <1>3, <2>1, CheckDoes, TierStep DEF vettingVars
<1>4. CASE InsertKyc(h)
  <2>1. \A e \in running' : e \in running \/ Earned(e)'
      BY <1>4, InsertDoes DEF Turns, Earned
  <2> QED
      BY <1>4, <2>1, InsertDoes, TierStep
<1>5. CASE ProfileSubmitted(h)
    BY <1>0, <1>5, SubmittedDoes, TierSaved DEF Ends
<1>6. CASE ApproveKyc(h)
  <2>0. PICK g : Turns(h, g, "promote")
      BY <1>6, ApproveDoes
  <2>1. Earned(g)'
      BY <1>6, <2>0, ApproveDoes DEF Turns, Earned
  <2>2. \A e \in running' : e \in running \/ Earned(e)'
      BY <2>0, <2>1 DEF Turns
  <2> QED
      BY <1>6, <2>2, ApproveDoes, TierStep
<1>7. CASE ReadGuarantors(h)
  <2>1. PICK g : Turns(h, g, "save_tier") /\ g.k = IF Passed(guarantor[v]) THEN 3 ELSE 2
      BY <1>7, GuarantorsDoes
  <2>2. UNCHANGED <<guarantor, interview, stages, profile>> /\ h.pc = "promote"
      BY <1>7, GuarantorsDoes
  <2>3. "kyc" \in stages[v] /\ (g.k = 3 => "guarantor" \in stages[v])
      BY <1>1, <2>1, <2>2 DEF Earned, StatusEarned
  <2>4. Earned(g)'
      BY <2>1, <2>2, <2>3 DEF Turns, Earned
  <2>5. \A e \in running' : e \in running \/ Earned(e)'
      BY <2>1, <2>4 DEF Turns
  <2> QED
      BY <2>2, <2>5, TierStep
<1>8. CASE SaveKycTier(h)
  <2>1. PICK g : Turns(h, g, "save_profile") /\ g.k = h.k
      BY <1>8, TierDoes
  <2>2. PICK p : /\ Saves(v, p) /\ p.tier = IF h.row.tier < h.k THEN h.k ELSE profile[v].tier
                 /\ p.kyc = profile[v].kyc
      BY <1>8, TierDoes
  <2>3. UNCHANGED vettingVars /\ UNCHANGED stages /\ h.pc = "save_tier" /\ h.k \in {2, 3}
      BY <1>8, TierDoes DEF vettingVars
  <2>4. "kyc" \in stages[v] /\ (h.k = 3 => "guarantor" \in stages[v])
      BY <1>1, <2>3 DEF Earned
  <2>5. Earned(g)'
      BY <2>1, <2>3, <2>4 DEF Turns, Earned
  <2>6. \A e \in running' : e \in running \/ Earned(e)'
      BY <2>1, <2>5 DEF Turns
  <2>7. p.tier = profile[v].tier \/ (p.tier = h.k)
      BY <2>2
  <2>8. profile'[v] = p
      BY <2>2 DEF Saves
  <2>9. p.tier = h.k => TierEarned(v)'
      BY <2>3, <2>4, <2>8 DEF TierEarned
  <2> QED
      BY <1>0, <2>2, <2>3, <2>6, <2>7, <2>9, TierSaved
<1>9. CASE ProfileVerified(h)
  <2>1. "kyc" \in stages[v]
      BY <1>1, <1>9, VerifiedDoes DEF Earned
  <2> QED
      BY <1>0, <1>9, <2>1, VerifiedDoes, TierSaved DEF Ends
<1>10. CASE RejectKyc(h)
  <2>1. \A e \in running' : e \in running \/ Earned(e)'
      BY <1>10, RejectDoes DEF Turns, Earned
  <2> QED
      BY <1>10, <2>1, RejectDoes, TierStep
<1>11. CASE ProfileFailed(h)
    BY <1>0, <1>11, FailedDoes, TierSaved DEF Ends
<1>12. CASE AddGuarantor(h)
    BY <1>12, AddDoes, TierStep DEF Ends
<1>13. CASE ApproveGuarantor(h)
  <2>1. \A e \in running' : e \in running \/ Earned(e)'
      BY <1>13, PassDoes DEF Turns, Earned
  <2>2. \A w \in Provider : Passed(guarantor'[w]) => Passed(guarantor[w]) \/ "guarantor" \in stages'[w]
      BY <1>13, PassDoes
  <2> QED
      BY <1>13, <2>1, <2>2, PassDoes, TierStep
<1>14. CASE ReadKyc(h)
  <2>1. UNCHANGED <<guarantor, interview, stages, profile>> /\ h.pc = "passed"
      BY <1>14, PassedDoes
  <2>2. CASE profile[v].kyc = "VERIFIED"
    <3>1. PICK g : Turns(h, g, "step")
        BY <1>14, <2>2, PassedDoes
    <3>2. "kyc" \in stages[v] /\ "guarantor" \in stages[v]
        BY <1>1, <2>1, <2>2 DEF Earned, StatusEarned
    <3>3. Earned(g)'
        BY <2>1, <3>1, <3>2 DEF Turns, Earned
    <3>4. \A e \in running' : e \in running \/ Earned(e)'
        BY <3>1, <3>3 DEF Turns
    <3> QED
        BY <2>1, <3>4, TierStep
  <2>3. CASE Ends(h)
      BY <2>1, <2>3, TierStep DEF Ends
  <2> QED
      BY <1>14, <2>2, <2>3, PassedDoes
<1>15. CASE StepInterview(h)
  <2>1. PICK g : Turns(h, g, "passed_tier")
      BY <1>15, StepDoes
  <2>2. UNCHANGED vettingVars /\ UNCHANGED stages /\ h.pc = "step"
      BY <1>15, StepDoes DEF vettingVars
  <2>3. Earned(g)'
      BY <1>1, <2>1, <2>2 DEF Turns, Earned
  <2>4. \A e \in running' : e \in running \/ Earned(e)'
      BY <2>1, <2>3 DEF Turns
  <2> QED
      BY <1>0, <1>15, <2>2, <2>4, StepDoes, TierSaved
<1>16. CASE SaveGuarantorTier(h)
  <2>1. PICK p : /\ Saves(v, p) /\ p.tier = IF h.row.tier < 3 THEN 3 ELSE profile[v].tier
                 /\ p.kyc = profile[v].kyc
      BY <1>16, GuarantorTierDoes
  <2>2. UNCHANGED vettingVars /\ UNCHANGED stages /\ h.pc = "passed_tier" /\ Ends(h)
      BY <1>16, GuarantorTierDoes DEF vettingVars
  <2>3. "kyc" \in stages'[v] /\ "guarantor" \in stages'[v]
      BY <1>1, <2>2 DEF Earned
  <2>4. p.tier = profile[v].tier \/ p.tier = 3
      BY <2>1
  <2>5. p.tier = 3 => TierEarned(v)'
      BY <2>1, <2>3 DEF TierEarned, Saves
  <2> QED
      BY <1>0, <2>1, <2>2, <2>4, <2>5, TierSaved DEF Ends
<1>17. CASE RejectGuarantor(h)
    BY <1>17, FailDoes, TierStep DEF Ends
<1>18. CASE ScheduleInterview(h)
  <2>1. "kyc" \in stages[v]
      BY <1>1, <1>18, ScheduleDoes DEF Earned
  <2>2. \A e \in running' : e \in running \/ Earned(e)'
      BY <1>18, ScheduleDoes DEF Turns, Earned
  <2>3. \A w \in Provider : DOMAIN interview'[w] = DOMAIN interview[w] \/ "kyc" \in stages'[w]
      BY <1>18, <2>1, ScheduleDoes
  <2> QED
      BY <1>18, <2>2, <2>3, ScheduleDoes, TierStep
<1>19. CASE ProfileScheduled(h)
    BY <1>0, <1>19, ScheduledDoes, TierSaved DEF Ends
<1>20. CASE UpdateInterview(h)
  <2>1. h.k \in DOMAIN interview[v]
      BY <1>20, UpdateDoes
  <2>2. "kyc" \in stages[v] /\ stages[v] \subseteq stages'[v]
      BY <1>0, <1>1, <1>20, <2>1, UpdateDoes DEF StatusEarned
  <2>3. \A e \in running' : e \in running \/ Earned(e)'
    <3>1. CASE Ends(h)
        BY <3>1 DEF Ends
    <3>2. ASSUME NEW g, Turns(h, g, "judged"), "interview" \in stages'[v]
          PROVE  Earned(g)'
        BY <2>2, <3>2 DEF Turns, Earned
    <3>3. CASE (\E g : Turns(h, g, "judged")) /\ "interview" \in stages'[v]
        BY <3>2, <3>3 DEF Turns
    <3> QED
        BY <1>20, <3>1, <3>3, UpdateDoes
  <2> QED
      BY <1>20, <2>3, UpdateDoes, TierStep
<1>21. CASE ReadTier(h)
  <2>1. PICK g : Turns(h, g, "judged_tier")
      BY <1>21, JudgedDoes
  <2>2. UNCHANGED <<guarantor, interview, stages, profile>> /\ h.pc = "judged"
      BY <1>21, JudgedDoes DEF vettingVars
  <2>3. Earned(g)'
      BY <1>1, <2>1, <2>2 DEF Turns, Earned
  <2>4. \A e \in running' : e \in running \/ Earned(e)'
      BY <2>1, <2>3 DEF Turns
  <2> QED
      BY <2>2, <2>4, TierStep
<1>22. CASE SaveInterviewTier(h)
  <2>1. PICK p : /\ Saves(v, p) /\ p.tier = IF h.row.tier < 4 THEN 4 ELSE profile[v].tier
                 /\ p.kyc = profile[v].kyc
      BY <1>22, InterviewTierDoes
  <2>2. UNCHANGED vettingVars /\ UNCHANGED stages /\ h.pc = "judged_tier"
      BY <1>22, InterviewTierDoes DEF vettingVars
  <2>3. "kyc" \in stages'[v] /\ "interview" \in stages'[v]
      BY <1>1, <2>2 DEF Earned
  <2>4. p.tier = profile[v].tier \/ p.tier = 4
      BY <2>1
  <2>5. p.tier = 4 => TierEarned(v)'
      BY <2>1, <2>3 DEF TierEarned, Saves
  <2>6. \A e \in running' : e \in running \/ Earned(e)'
      BY <1>22, InterviewTierDoes DEF Turns, Earned
  <2> QED
      BY <1>0, <2>1, <2>2, <2>4, <2>5, <2>6, TierSaved
<1>23. CASE CompleteOnboarding(h)
    BY <1>0, <1>23, CompleteDoes, TierSaved DEF Ends
<1>24. CASE SyncTier(h)
  <2>1. PICK p : Saves(v, p) /\ p.tier = h.row.tier + 1 /\ p.kyc = profile[v].kyc
      BY <1>24, SyncDoes
  <2>2. UNCHANGED vettingVars /\ UNCHANGED stages /\ h.pc = "sync" /\ Ends(h) /\ h.row.tier \in 4 .. 7
      BY <1>24, SyncDoes DEF vettingVars
  <2>3. "kyc" \in stages'[v] /\ "interview" \in stages'[v]
      BY <1>1, <2>2 DEF Earned
  <2>4. p.tier \in 5 .. 8
      BY <2>1, <2>2
  <2>5. TierEarned(v)'
      BY <2>1, <2>3, <2>4 DEF TierEarned, Saves
  <2> QED
      BY <1>0, <2>1, <2>2, <2>5, TierSaved DEF Ends
<1> QED
    BY <1>3, <1>4, <1>5, <1>6, <1>7, <1>8, <1>9, <1>10, <1>11, <1>12, <1>13, <1>14, <1>15, <1>16,
       <1>17, <1>18, <1>19, <1>20, <1>21, <1>22, <1>23, <1>24 DEF VettingStep

LEMMA TierInit == Init => TierInv
<1>1. Init => running = {} /\ \A v \in Provider : DOMAIN interview[v] = {} /\ DOMAIN guarantor[v] = {}
    BY DEF Init
<1>2. Init => \A v \in Provider : profile[v].tier = 1 /\ profile[v].kyc = "PENDING_SUBMISSION"
    BY DEF Init, NewProfile
<1> QED
    BY <1>1, <1>2 DEF TierInv, TierEarned, StatusEarned, Passed

LEMMA TierNext ==
    ASSUME TypeInv, TierInv, [Next]_vars
    PROVE  TierInv'
<1>1. CASE UNCHANGED vars
    BY <1>1, TierStep DEF vars, vettingVars
<1>2. ASSUME NEW h \in running, HandlerStep(h)
      PROVE  TierInv'
    BY <1>2, TierAccount, TierVetting DEF HandlerStep
<1>3. ASSUME NEW v \in Provider, AccountRequest(v) \/ VettingRequest(v)
      PROVE  TierInv'
    BY <1>3, TierRequest
<1>4. ASSUME NEW t \in Target, ExpireCooldown(t) \/ ExpireOtp(t)
      PROVE  TierInv'
    BY <1>4, TierStep DEF ExpireCooldown, ExpireOtp, vettingVars
<1> QED
    BY <1>1, <1>2, <1>3, <1>4 DEF Next

\* A tier is earned by the stages before it, though each stage writes the
\* tier from a copy it read some commits before; and the documents on file are
\* those of providers whose e-mail address and number have been confirmed.
THEOREM TiersAreEarned == Spec => []EarnedTier
<1>1. Init => TypeInv /\ KnownInv /\ TierInv
    BY TypeInit, KnownInit, TierInit
<1>2. TypeInv /\ KnownInv /\ TierInv /\ [Next]_vars => (TypeInv /\ KnownInv /\ TierInv)'
    BY TypeNext, KnownNext, TierNext
<1>3. TypeInv /\ KnownInv /\ TierInv => EarnedTier
  <2> SUFFICES ASSUME TypeInv, KnownInv, TierInv, NEW v \in Provider
               PROVE  /\ TierEarned(v)
                      /\ kyc[v] # <<>> => v \in confirmed[v] /\ confirmed[v] \cap Phone # {}
      BY DEF EarnedTier, TierEarned
  <2>1. kyc[v] \in Seq(Document)
      BY DEF TypeInv, TypeOK
  <2>2. kyc[v] # <<>> => DOMAIN kyc[v] # {}
    <3> DEFINE s == kyc[v]
    <3>1. s # <<>> => Len(s) # 0
        BY <2>1, EmptySeq
    <3>2. Len(s) \in Nat /\ DOMAIN s = 1 .. Len(s)
        BY <2>1, LenProperties
    <3> HIDE DEF s
    <3>3. Len(s) # 0 => 1 \in DOMAIN s
        BY <3>2
    <3> QED
        BY <3>1, <3>3 DEF s
  <2> QED
      BY <2>2 DEF KnownInv, KnownRows, Known, TierInv
<1> QED
    BY <1>1, <1>2, <1>3, PTL DEF Spec

-----------------------------------------------------------------------------
(***************************************************************************)
(* The two approvals.  Unless two of them have crossed, one at a time is   *)
(* between its read and its last write.  An approval of KYC that read no   *)
(* passed guarantor leaves the tier to the approval of the guarantor that  *)
(* passed since, which has yet to read; one that did read it, or found     *)
(* tier 3 already, leaves tier 3 or above.                                 *)
(***************************************************************************)
Busy == {"save_tier", "save_profile", "step", "passed_tier"}

BusyOne(v) ==
    \A g, h \in running : g.user = v /\ h.user = v /\ g.pc \in Busy /\ h.pc \in Busy => g = h

Leads(h) ==
    /\ h.pc \in {"save_tier", "save_profile"} /\ h.k = 2 /\ Passed(guarantor[h.user]) =>
          Running(h.user, {"passed"})
    /\ h.pc = "save_profile" /\ h.k = 3 => profile[h.user].tier >= 3
    /\ h.pc \in {"save_tier", "passed_tier"} /\ h.row.tier >= 3 => profile[h.user].tier >= 3

AddsUp(v) ==
    profile[v].kyc = "VERIFIED" /\ Passed(guarantor[v]) =>
        profile[v].tier >= 3 \/ Running(v, Approving)

Meets(v) ==
    /\ BusyOne(v)
    /\ \A h \in running : h.user = v => Leads(h)
    /\ AddsUp(v)

MeetInv == \A v \in Provider : v \in crossed \/ Meets(v)

\* A step that is no approval's, as one provider sees it.
LEMMA MeetStays ==
    ASSUME NEW v \in Provider, v \in crossed \/ Meets(v), crossed \subseteq crossed',
           \A e \in running' : e.user = v /\ e.pc \in Busy => e \in running,
           \A e \in running : e.user = v /\ e.pc \in Approving => e \in running',
           profile[v].tier >= 3 => profile'[v].tier >= 3,
           profile'[v].kyc = "VERIFIED" => profile[v].kyc = "VERIFIED",
           Passed(guarantor'[v]) => Passed(guarantor[v])
    PROVE  v \in crossed' \/ Meets(v)'
<1> SUFFICES ASSUME Meets(v)
             PROVE  Meets(v)'
    OBVIOUS
<1>1. BusyOne(v)'
    BY DEF Meets, BusyOne
<1>2. Running(v, {"passed"}) => Running(v, {"passed"})'
    BY DEF Running, Approving
<1>3. ASSUME NEW e \in running', e.user = v
      PROVE  Leads(e)'
  <2>1. CASE e.pc \in Busy
    <3>1. Leads(e)
        BY <1>3, <2>1 DEF Meets
    <3> QED
        BY <1>2, <1>3, <3>1 DEF Leads
  <2>2. CASE e.pc \notin Busy
      BY <2>2 DEF Leads, Busy
  <2> QED
      BY <2>1, <2>2
<1>4. Running(v, Approving) => Running(v, Approving)'
    BY DEF Running
<1>5. AddsUp(v)'
    BY <1>4 DEF Meets, AddsUp
<1> QED
    BY <1>1, <1>3, <1>5 DEF Meets

\* A step of one provider's request, as the other providers see it.
LEMMA MeetOthers ==
    ASSUME TypeInv, MeetInv, NEW h \in running, NEW w \in Provider \ {h.user}, crossed \subseteq crossed',
           Ends(h) \/ (\E g, label : Turns(h, g, label)),
           profile'[w] = profile[w], Passed(guarantor'[w]) => Passed(guarantor[w])
    PROVE  w \in crossed' \/ Meets(w)'
<1>1. \A e \in running' : e.user = w => e \in running
    BY DEF Ends, Turns
<1>2. \A e \in running : e.user = w => e \in running'
    BY DEF Ends, Turns
<1> QED
    BY <1>1, <1>2, MeetStays DEF MeetInv

\* A commit to one profile, that is no approval's.
LEMMA MeetSaved ==
    ASSUME TypeInv, MeetInv, NEW h \in running, h.pc \notin Approving, UNCHANGED vettingVars,
           Ends(h) \/ (\E g, label : label \notin Busy /\ Turns(h, g, label)),
           NEW p, Saves(h.user, p), profile[h.user].tier >= 3 => p.tier >= 3,
           p.kyc = "VERIFIED" => profile[h.user].kyc = "VERIFIED"
    PROVE  MeetInv'
<1>1. UNCHANGED <<guarantor, crossed>> /\ h.user \in Provider
    BY Rowed DEF vettingVars
<1>2. /\ \A e \in running' : e.pc \in Busy => e \in running
      /\ \A e \in running : e.pc \in Approving => e \in running'
    BY DEF Ends, Turns
<1> SUFFICES ASSUME NEW v \in Provider
             PROVE  v \in crossed' \/ Meets(v)'
    BY DEF MeetInv
<1>3. profile[v].tier >= 3 => profile'[v].tier >= 3
    BY DEF Saves
<1>4. profile'[v].kyc = "VERIFIED" => profile[v].kyc = "VERIFIED"
    BY DEF Saves
<1> QED
    BY <1>1, <1>2, <1>3, <1>4, MeetStays DEF MeetInv

\* A step that leaves the profiles, and is no approval's.
LEMMA MeetMoved ==
    ASSUME TypeInv, MeetInv, crossed' = crossed,
           \A v \in Provider : profile'[v].kyc = profile[v].kyc /\ profile'[v].tier = profile[v].tier,
           \A v \in Provider : Passed(guarantor'[v]) => Passed(guarantor[v]),
           \A e \in running' : e.pc \in Busy => e \in running,
           \A e \in running : e.pc \in Approving => e \in running'
    PROVE  MeetInv'
BY MeetStays DEF MeetInv

LEMMA MeetRequest ==
    ASSUME TypeInv, MeetInv, NEW v \in Provider, AccountRequest(v) \/ VettingRequest(v)
    PROVE  MeetInv'
<1>1. UNCHANGED <<guarantor, crossed, profile>>
    BY Requests DEF vettingVars
<1>2. CASE \E g : Asks(g, v)
  <2>1. PICK g : Asks(g, v)
      BY <1>2
  <2>2. running' = running \cup {g} /\ g.pc \notin Busy
      BY <2>1 DEF Asks, Opens, Busy
  <2> QED
      BY <1>1, <2>2, MeetMoved
<1>3. CASE UNCHANGED running
    BY <1>1, <1>3, MeetMoved
<1> QED
    BY <1>2, <1>3, Requests

LEMMA MeetAccount ==
    ASSUME TypeInv, MeetInv, NEW h \in running, AccountStep(h)
    PROVE  MeetInv'
<1>1. \A label \in AccountLabel \cup RegisterLabel : label \notin Busy /\ label \notin Approving
    BY DEF AccountLabel, RegisterLabel, Confirmation, Busy, Approving
<1>2. /\ UNCHANGED vettingVars
      /\ \A v \in Provider : profile'[v].kyc = profile[v].kyc /\ profile'[v].tier = profile[v].tier
      /\ \A e \in running' : e \in running \/ e.pc \in AccountLabel \cup RegisterLabel
      /\ \A e \in running : e \in running' \/ e.pc \in AccountLabel \cup RegisterLabel
    BY AccountMoves
<1> QED
    BY <1>1, <1>2, MeetMoved DEF vettingVars

\* The first read of an approval: another approval that is busy is noted.
LEMMA CrossDoes ==
    ASSUME TypeInv, NEW h \in running, Cross(h)
    PROVE  /\ crossed \subseteq crossed'
           /\ h.user \in crossed' \/ \A e \in running : e.user = h.user => e.pc \notin Busy
BY DEF Cross, Running, Busy

LEMMA MeetGuarantors ==
    ASSUME TypeInv, MeetInv, NEW h \in running, ReadGuarantors(h)
    PROVE  MeetInv'
<1> DEFINE u == h.user
<1>1. PICK g : /\ Turns(h, g, "save_tier") /\ g.row.tier = profile[u].tier
               /\ g.k = IF Passed(guarantor[u]) THEN 3 ELSE 2
    BY GuarantorsDoes
<1>2. Cross(h) /\ UNCHANGED <<guarantor, profile>> /\ u \in Provider
    BY GuarantorsDoes, Rowed
<1>3. ASSUME u \notin crossed'
      PROVE  Meets(u)'
  <2>1. \A e \in running : e.user = u => e.pc \notin Busy
      BY <1>2, <1>3, CrossDoes
  <2>2. g \in running' /\ g.pc = "save_tier" /\ g.user = u /\ \A e \in running' : e = g \/ e \in running
      BY <1>1 DEF Turns
  <2>3. BusyOne(u)'
      BY <2>1, <2>2 DEF BusyOne
  <2>4. Leads(g)'
      BY <1>1, <1>2, <2>2 DEF Leads
  <2>5. \A e \in running' : e.user = u => Leads(e)'
      BY <2>1, <2>2, <2>4 DEF Leads, Busy
  <2>6. Running(u, Approving)'
      BY <2>2 DEF Running, Approving
  <2> QED
      BY <2>3, <2>5, <2>6 DEF Meets, AddsUp
<1>4. \A w \in Provider \ {u} : w \in crossed' \/ Meets(w)'
    BY <1>1, <1>2, CrossDoes, MeetOthers
<1> QED
    BY <1>3, <1>4 DEF MeetInv

LEMMA MeetTier ==
    ASSUME TypeInv, MeetInv, NEW h \in running, SaveKycTier(h)
    PROVE  MeetInv'
<1> DEFINE u == h.user
<1>1. PICK g : Turns(h, g, "save_profile") /\ g.k = h.k
    BY TierDoes
<1>2. PICK p : /\ Saves(u, p) /\ p.tier = IF h.row.tier < h.k THEN h.k ELSE profile[u].tier
               /\ p.kyc = profile[u].kyc
    BY TierDoes
<1>3. /\ h.pc = "save_tier" /\ h.k \in {2, 3} /\ UNCHANGED <<guarantor, crossed>>
      /\ u \in Provider /\ h.row.tier \in 1 .. 8
    BY TierDoes, Rowed DEF vettingVars, HandlerRow, Profile
<1>4. ASSUME Meets(u)
      PROVE  Meets(u)'
  <2>1. g \in running' /\ g.pc = "save_profile" /\ g.user = u /\ \A e \in running' : e = g \/ (e \in running /\ e # h)
      BY <1>1 DEF Turns
  <2>2. \A e \in running : e.user = u /\ e.pc \in Busy => e = h
      BY <1>3, <1>4 DEF Meets, BusyOne, Busy
  <2>3. BusyOne(u)'
      BY <2>1, <2>2 DEF BusyOne
  <2>4. Leads(h)
      BY <1>4 DEF Meets
  <2>5. Passed(guarantor'[u]) /\ g.k = 2 => Running(u, {"passed"})'
    <3>1. ASSUME Running(u, {"passed"})
          PROVE  Running(u, {"passed"})'
      <4>1. PICK e \in running : e.user = u /\ e.pc = "passed"
          BY <3>1 DEF Running
      <4>2. e \in running'
          BY <1>1, <1>3, <4>1 DEF Turns
      <4> QED
          BY <4>1, <4>2 DEF Running
    <3> QED
        BY <1>1, <1>3, <2>4, <3>1 DEF Leads
  <2>6. g.k = 3 => profile'[u].tier >= 3
    <3>1. profile'[u].tier = p.tier
        BY <1>2 DEF Saves
    <3>2. h.row.tier >= 3 => profile[u].tier >= 3
        BY <1>3, <2>4 DEF Leads
    <3> QED
        BY <1>1, <1>2, <1>3, <3>1, <3>2
  <2>7. Leads(g)'
      BY <2>1, <2>5, <2>6 DEF Leads
  <2>8. \A e \in running' : e.user = u => Leads(e)'
      BY <2>1, <2>2, <2>7 DEF Leads, Busy
  <2>9. Running(u, Approving)'
      BY <2>1 DEF Running, Approving
  <2> QED
      BY <2>3, <2>8, <2>9 DEF Meets, AddsUp
<1>5. \A w \in Provider \ {u} : w \in crossed' \/ Meets(w)'
    BY <1>1, <1>2, <1>3, MeetOthers DEF Saves
<1> QED
    BY <1>3, <1>4, <1>5 DEF MeetInv

LEMMA MeetVerified ==
    ASSUME TypeInv, MeetInv, NEW h \in running, ProfileVerified(h)
    PROVE  MeetInv'
<1> DEFINE u == h.user
<1>1. PICK p : Saves(u, p) /\ p.tier = profile[u].tier
    BY VerifiedDoes
<1>2. /\ h.pc = "save_profile" /\ h.k \in {2, 3} /\ UNCHANGED <<guarantor, crossed>>
      /\ u \in Provider /\ Ends(h)
    BY VerifiedDoes, Rowed DEF vettingVars
<1>3. ASSUME Meets(u)
      PROVE  Meets(u)'
  <2>1. \A e \in running' : e \in running /\ e # h
      BY <1>2 DEF Ends
  <2>2. \A e \in running : e.user = u /\ e.pc \in Busy => e = h
      BY <1>2, <1>3 DEF Meets, BusyOne, Busy
  <2>3. BusyOne(u)'
      BY <2>1, <2>2 DEF BusyOne
  <2>4. \A e \in running' : e.user = u => Leads(e)'
      BY <2>1, <2>2 DEF Leads, Busy
  <2>5. Leads(h) /\ profile'[u].tier = profile[u].tier
      BY <1>1, <1>3 DEF Meets, Saves
  <2>6. ASSUME Running(u, {"passed"})
        PROVE  Running(u, Approving)'
    <3>1. PICK e \in running : e.user = u /\ e.pc = "passed"
        BY <2>6 DEF Running
    <3>2. e \in running'
        BY <1>2, <3>1 DEF Ends
    <3> QED
        BY <3>1, <3>2 DEF Running, Approving
  <2>7. AddsUp(u)'
      BY <1>2, <2>5, <2>6 DEF Leads, AddsUp
  <2> QED
      BY <2>3, <2>4, <2>7 DEF Meets
<1>4. \A w \in Provider \ {u} : w \in crossed' \/ Meets(w)'
    BY <1>1, <1>2, MeetOthers DEF Saves
<1> QED
    BY <1>2, <1>3, <1>4 DEF MeetInv

LEMMA MeetPass ==
    ASSUME TypeInv, MeetInv, NEW h \in running, ApproveGuarantor(h)
    PROVE  MeetInv'
<1> DEFINE u == h.user
<1>1. PICK g : Turns(h, g, "passed")
    BY PassDoes
<1>2. /\ h.pc = "pass" /\ UNCHANGED <<profile, crossed>> /\ u \in Provider
      /\ \A w \in Provider \ {u} : guarantor'[w] = guarantor[w]
    BY PassDoes, Rowed
<1>3. ASSUME Meets(u)
      PROVE  Meets(u)'
  <2>1. g \in running' /\ g.pc = "passed" /\ g.user = u /\ \A e \in running' : e = g \/ e \in running
      BY <1>1 DEF Turns
  <2>2. BusyOne(u)'
      BY <1>3, <2>1 DEF Meets, BusyOne, Busy
  <2>3. Running(u, {"passed"})' /\ Running(u, Approving)'
      BY <2>1 DEF Running, Approving
  <2>4. ASSUME NEW e \in running', e.user = u
        PROVE  Leads(e)'
    <3>1. CASE e = g
        BY <2>1, <3>1 DEF Leads
    <3>2. CASE e \in running
      <4>1. Leads(e)
          BY <1>3, <2>4, <3>2 DEF Meets
      <4> QED
          BY <1>2, <2>3, <2>4, <4>1 DEF Leads
    <3> QED
        BY <2>1, <3>1, <3>2
  <2> QED
      BY <2>2, <2>3, <2>4 DEF Meets, AddsUp
<1>4. \A w \in Provider \ {u} : w \in crossed' \/ Meets(w)'
    BY <1>1, <1>2, MeetOthers
<1> QED
    BY <1>2, <1>3, <1>4 DEF MeetInv

LEMMA MeetReadKyc ==
    ASSUME TypeInv, MeetInv, NEW h \in running, ReadKyc(h)
    PROVE  MeetInv'
<1> DEFINE u == h.user
<1>1. h.pc = "passed" /\ Cross(h) /\ UNCHANGED <<guarantor, profile>> /\ u \in Provider
    BY PassedDoes, Rowed
<1>2. IF profile[u].kyc = "VERIFIED" THEN \E g : Turns(h, g, "step") ELSE Ends(h)
    BY PassedDoes
<1>3. ASSUME u \notin crossed'
      PROVE  Meets(u)'
  <2>1. \A e \in running : e.user = u => e.pc \notin Busy
      BY <1>1, <1>3, CrossDoes
  <2>2. CASE profile[u].kyc = "VERIFIED"
    <3>1. PICK g : Turns(h, g, "step")
        BY <1>2, <2>2
    <3>2. g \in running' /\ g.pc = "step" /\ g.user = u /\ \A e \in running' : e = g \/ e \in running
        BY <3>1 DEF Turns
    <3>3. BusyOne(u)'
        BY <2>1, <3>2 DEF BusyOne
    <3>4. \A e \in running' : e.user = u => Leads(e)'
        BY <2>1, <3>2 DEF Leads, Busy
    <3>5. Running(u, Approving)'
        BY <3>2 DEF Running, Approving
    <3> QED
        BY <3>3, <3>4, <3>5 DEF Meets, AddsUp
  <2>3. CASE profile[u].kyc # "VERIFIED"
    <3>1. \A e \in running' : e \in running
        BY <1>2, <2>3 DEF Ends
    <3>2. BusyOne(u)'
        BY <2>1, <3>1 DEF BusyOne
    <3>3. \A e \in running' : e.user = u => Leads(e)'
        BY <2>1, <3>1 DEF Leads, Busy
    <3> QED
        BY <1>1, <2>3, <3>2, <3>3 DEF Meets, AddsUp
  <2> QED
      BY <2>2, <2>3
<1>4. \A w \in Provider \ {u} : w \in crossed' \/ Meets(w)'
    BY <1>1, <1>2, CrossDoes, MeetOthers
<1> QED
    BY <1>3, <1>4 DEF MeetInv

LEMMA MeetStep ==
    ASSUME TypeInv, MeetInv, NEW h \in running, StepInterview(h)
    PROVE  MeetInv'
<1> DEFINE u == h.user
<1>1. PICK g : Turns(h, g, "passed_tier") /\ g.row.tier = profile[u].tier
    BY StepDoes
<1>2. PICK p : Saves(u, p) /\ p.tier = profile[u].tier /\ p.kyc = profile[u].kyc
    BY StepDoes
<1>3. h.pc = "step" /\ UNCHANGED <<guarantor, crossed>> /\ u \in Provider
    BY StepDoes, Rowed DEF vettingVars
<1>4. ASSUME Meets(u)
      PROVE  Meets(u)'
  <2>1. /\ g \in running' /\ g.pc = "passed_tier" /\ g.user = u
        /\ \A e \in running' : e = g \/ (e \in running /\ e # h)
      BY <1>1 DEF Turns
  <2>2. \A e \in running : e.user = u /\ e.pc \in Busy => e = h
      BY <1>3, <1>4 DEF Meets, BusyOne, Busy
  <2>3. BusyOne(u)'
      BY <2>1, <2>2 DEF BusyOne
  <2>4. profile'[u].tier = profile[u].tier
      BY <1>2 DEF Saves
  <2>5. Leads(g)'
      BY <1>1, <2>1, <2>4 DEF Leads
  <2>6. \A e \in running' : e.user = u => Leads(e)'
      BY <2>1, <2>2, <2>5 DEF Leads, Busy
  <2>7. Running(u, Approving)'
      BY <2>1 DEF Running, Approving
  <2> QED
      BY <2>3, <2>6, <2>7 DEF Meets, AddsUp
<1>5. \A w \in Provider \ {u} : w \in crossed' \/ Meets(w)'
    BY <1>1, <1>2, <1>3, MeetOthers DEF Saves
<1> QED
    BY <1>3, <1>4, <1>5 DEF MeetInv

LEMMA MeetGuarantorTier ==
    ASSUME TypeInv, MeetInv, NEW h \in running, SaveGuarantorTier(h)
    PROVE  MeetInv'
<1> DEFINE u == h.user
<1>1. PICK p : /\ Saves(u, p) /\ p.tier = IF h.row.tier < 3 THEN 3 ELSE profile[u].tier
               /\ p.kyc = profile[u].kyc
    BY GuarantorTierDoes
<1>2. /\ h.pc = "passed_tier" /\ UNCHANGED <<guarantor, crossed>> /\ Ends(h)
      /\ u \in Provider /\ h.row.tier \in 1 .. 8
    BY GuarantorTierDoes, Rowed DEF vettingVars, HandlerRow, Profile
<1>3. ASSUME Meets(u)
      PROVE  Meets(u)'
  <2>1. \A e \in running' : e \in running /\ e # h
      BY <1>2 DEF Ends
  <2>2. \A e \in running : e.user = u /\ e.pc \in Busy => e = h
      BY <1>2, <1>3 DEF Meets, BusyOne, Busy
  <2>3. BusyOne(u)'
      BY <2>1, <2>2 DEF BusyOne
  <2>4. \A e \in running' : e.user = u => Leads(e)'
      BY <2>1, <2>2 DEF Leads, Busy
  <2>5. Leads(h) /\ profile'[u].tier = p.tier
      BY <1>1, <1>3 DEF Meets, Saves
  <2>6. h.row.tier >= 3 => profile[u].tier >= 3
      BY <1>2, <2>5 DEF Leads
  <2>7. profile'[u].tier >= 3
      BY <1>1, <1>2, <2>5, <2>6
  <2> QED
      BY <2>3, <2>4, <2>7 DEF Meets, AddsUp
<1>4. \A w \in Provider \ {u} : w \in crossed' \/ Meets(w)'
    BY <1>1, <1>2, MeetOthers DEF Saves
<1> QED
    BY <1>2, <1>3, <1>4 DEF MeetInv

LEMMA MeetVetting ==
    ASSUME TypeInv, MeetInv, NEW h \in running, VettingStep(h)
    PROVE  MeetInv'
<1>0. h.user \in Provider /\ profile[h.user] \in Profile /\ profile[h.user].tier \in 1 .. 8
    BY Rowed DEF RowsTyped, Profile
<1>1. ASSUME NEW g, NEW label \in Label \ Busy, Turns(h, g, label), h.pc \notin Approving,
             UNCHANGED <<crossed, profile>>, \A v \in Provider : Passed(guarantor'[v]) => Passed(guarantor[v])
      PROVE  MeetInv'
  <2>1. /\ \A e \in running' : e.pc \in Busy => e \in running
        /\ \A e \in running : e.pc \in Approving => e \in running'
      BY <1>1 DEF Turns
  <2> QED
      BY <1>1, <2>1, MeetMoved
<1>2. ASSUME Ends(h), h.pc \notin Approving,
             UNCHANGED <<crossed, profile>>, \A v \in Provider : Passed(guarantor'[v]) => Passed(guarantor[v])
      PROVE  MeetInv'
  <2>1. /\ \A e \in running' : e.pc \in Busy => e \in running
        /\ \A e \in running : e.pc \in Approving => e \in running'
      BY <1>2 DEF Ends
  <2> QED
      BY <1>2, <2>1, MeetMoved
<1>3. CASE ApproveKyc(h)
  <2>1. PICK g : Turns(h, g, "promote")
      BY <1>3, ApproveDoes
  <2> QED
      BY <1>1, <1>3, <2>1, ApproveDoes DEF Label, Busy, Approving
<1>4. CASE SaveInterviewTier(h)
  <2>1. PICK p : /\ Saves(h.user, p) /\ p.tier = IF h.row.tier < 4 THEN 4 ELSE profile[h.user].tier
                 /\ p.kyc = profile[h.user].kyc
      BY <1>4, InterviewTierDoes
  <2>2. profile[h.user].tier >= 3 => p.tier >= 3
      BY <1>0, <2>1
  <2>3. h.pc \notin Approving /\ "completed" \notin Busy /\ UNCHANGED vettingVars
      BY <1>4, InterviewTierDoes DEF Approving, Busy
  <2> QED
      BY <1>4, <2>1, <2>2, <2>3, InterviewTierDoes, MeetSaved
<1>5. CASE SyncTier(h)
  <2>1. PICK p : Saves(h.user, p) /\ p.tier = h.row.tier + 1 /\ p.kyc = profile[h.user].kyc
      BY <1>5, SyncDoes
  <2>2. p.tier >= 3
      BY <1>5, <2>1, SyncDoes
  <2>3. h.pc \notin Approving /\ UNCHANGED vettingVars /\ Ends(h)
      BY <1>5, SyncDoes DEF Approving
  <2> QED
      BY <2>1, <2>2, <2>3, MeetSaved
<1> USE DEF Label, Busy, Approving, vettingVars
<1> HIDE DEF MeetInv
<1>6. CASE CheckKyc(h)
    BY <1>1, <1>2, <1>6, CheckDoes
<1>7. CASE InsertKyc(h)
    BY <1>1, <1>7, InsertDoes
<1>8. CASE ProfileSubmitted(h)
    BY <1>8, SubmittedDoes, MeetSaved
<1>9. CASE RejectKyc(h)
    BY <1>1, <1>9, RejectDoes
<1>10. CASE ProfileFailed(h)
    BY <1>10, FailedDoes, MeetSaved
<1>11. CASE AddGuarantor(h)
    BY <1>2, <1>11, AddDoes
<1>12. CASE RejectGuarantor(h)
    BY <1>2, <1>12, FailDoes
<1>13. CASE ScheduleInterview(h)
    BY <1>1, <1>13, ScheduleDoes
<1>14. CASE ProfileScheduled(h)
    BY <1>14, ScheduledDoes, MeetSaved
<1>15. CASE UpdateInterview(h)
    BY <1>1, <1>2, <1>15, UpdateDoes
<1>16. CASE ReadTier(h)
    BY <1>1, <1>16, JudgedDoes
<1>17. CASE CompleteOnboarding(h)
    BY <1>17, CompleteDoes, MeetSaved
<1> QED
    BY <1>3, <1>4, <1>5, <1>6, <1>7, <1>8, <1>9, <1>10, <1>11, <1>12, <1>13, <1>14, <1>15, <1>16, <1>17,
       MeetGuarantors, MeetTier, MeetVerified, MeetPass, MeetReadKyc, MeetStep, MeetGuarantorTier
       DEF VettingStep

LEMMA MeetNext ==
    ASSUME TypeInv, MeetInv, [Next]_vars
    PROVE  MeetInv'
<1>1. CASE UNCHANGED vars
    BY <1>1, MeetMoved DEF vars, vettingVars
<1>2. ASSUME NEW h \in running, HandlerStep(h)
      PROVE  MeetInv'
    BY <1>2, MeetAccount, MeetVetting DEF HandlerStep
<1>3. ASSUME NEW v \in Provider, AccountRequest(v) \/ VettingRequest(v)
      PROVE  MeetInv'
    BY <1>3, MeetRequest
<1>4. ASSUME NEW t \in Target, ExpireCooldown(t) \/ ExpireOtp(t)
      PROVE  MeetInv'
    BY <1>4, MeetMoved DEF ExpireCooldown, ExpireOtp, vettingVars
<1> QED
    BY <1>1, <1>2, <1>3, <1>4 DEF Next

\* The two approvals add up in either order: when KYC is verified and a
\* guarantor has passed, and no approval is under way, the provider is in tier
\* 3 or above, unless one approval read what another was about to write.
THEOREM ApprovalsAddUp == Spec => []StagesAddUp
<1>1. Init => TypeInv /\ MeetInv
  <2>1. Init => \A v \in Provider : DOMAIN guarantor[v] = {}
      BY DEF Init
  <2>2. Init => running = {}
      BY DEF Init
  <2> QED
      BY <2>1, <2>2, TypeInit DEF MeetInv, Meets, BusyOne, AddsUp, Passed
<1>2. TypeInv /\ MeetInv /\ [Next]_vars => (TypeInv /\ MeetInv)'
    BY TypeNext, MeetNext
<1>3. MeetInv => StagesAddUp
    BY DEF MeetInv, Meets, AddsUp, StagesAddUp
<1> QED
    BY <1>1, <1>2, <1>3, PTL DEF Spec

=============================================================================
