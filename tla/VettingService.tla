---------------------------- MODULE VettingService ----------------------------
(***************************************************************************)
(* The stages of vetting and the tiers they give: KYC documents (tier 2),  *)
(* guarantors (3), interviews (4), and the promotions by performance that  *)
(* follow (5 and more).  Providers submit, administrators judge.           *)
(***************************************************************************)
EXTENDS AccountService

Passed(history) == \E k \in DOMAIN history : history[k] = "VERIFIED"
Pending(history) == \E k \in DOMAIN history : history[k] = "SUBMITTED"

\* The policies of a first submission and of a resubmission come to the
\* same: all there is has failed, and there is not too much of it.
MaySubmit(history) == ~Passed(history) /\ ~Pending(history) /\ Len(history) < MaxAttempts

Pass(v, stage) == stages' = [stages EXCEPT ![v] = @ \cup {stage}]
Cross(h) ==
    crossed' = IF Running(h.user, {"save_tier", "save_profile", "step", "passed_tier"})
               THEN crossed \cup {h.user} ELSE crossed
Statuses(v) == [k \in DOMAIN kyc[v] |-> kyc[v][k].status]

\* The document with the highest attempt_number; of equals, either.
Latest(v) == {k \in DOMAIN kyc[v] : \A j \in DOMAIN kyc[v] : kyc[v][j].attempt <= kyc[v][k].attempt}

(***************************************************************************)
(* KYC.  The route admits a provider by its flags and kyc_status and loads *)
(* its documents with it; the service judges after the upload, by these    *)
(* copies and the documents that are new.                                  *)
(***************************************************************************)
MayUpload(v) ==
    /\ Registered(v)
    /\ account[v].verified = {"phone", "email"}
    /\ profile[v].kyc \in {"PENDING_SUBMISSION", "FAILED"}

BeginSubmitKyc(v) ==
    /\ MayUpload(v)
    /\ Run([New("upload", v) EXCEPT !.docs = Statuses(v), !.row.kyc = profile[v].kyc])
    /\ UNCHANGED <<otpVars, vettingVars, profile, reviews>>

History(h) ==
    [k \in DOMAIN kyc[h.user] |-> IF k <= Len(h.docs) THEN h.docs[k] ELSE kyc[h.user][k].status]

CheckKyc(h) ==
    /\ At(h, "upload")
    /\ IF MaySubmit(History(h))
       THEN Become(h, [h EXCEPT !.pc = "insert", !.docs = <<>>, !.k = Len(kyc[h.user]) + 1])
       ELSE Finish(h)
    /\ UNCHANGED <<otpVars, vettingVars, profile, reviews>>

InsertKyc(h) ==
    /\ At(h, "insert")
    /\ kyc' = [kyc EXCEPT ![h.user] = Append(@, [status |-> "SUBMITTED", attempt |-> h.k])]
    /\ Goto(h, "submitted")
    /\ UNCHANGED <<otpVars, guarantor, interview, stages, crossed, profile, reviews>>

ProfileSubmitted(h) ==
    /\ At(h, "submitted")
    /\ SaveKyc(h, "SUBMITTED")
    /\ Finish(h)
    /\ UNCHANGED <<otpVars, vettingVars, reviews>>

\* An approval is refused if the document it loads is verified, a rejection
\* never is.  n: 1 for an approval.
BeginReviewKyc(v, n) ==
    /\ Judged
    /\ \E k \in Latest(v) :
          /\ n = 1 => kyc[v][k].status # "VERIFIED"
          /\ Run([New(IF n = 1 THEN "approve" ELSE "reject", v) EXCEPT !.k = k, !.docs = <<kyc[v][k].status>>])
    /\ UNCHANGED <<otpVars, vettingVars, profile>>

\* Mutant: the status of an interview in a document.
SavePassed(h, s) ==
    kyc' = [kyc EXCEPT ![h.user][h.k].status = IF s = "VERIFIED" THEN "PASSED" ELSE s]

SaveDocument(h, s) == kyc' = [kyc EXCEPT ![h.user][h.k].status = Written(h.docs[1], @, s)]

ApproveKyc(h) ==
    /\ At(h, "approve")
    /\ SaveDocument(h, "VERIFIED")
    /\ Pass(h.user, "kyc")
    /\ Become(h, [h EXCEPT !.pc = "promote", !.docs = <<>>])
    /\ UNCHANGED <<otpVars, guarantor, interview, crossed, profile, reviews>>

\* Mutant: guarantors that passed before KYC are not looked for.
ReadNoGuarantors(h) ==
    /\ At(h, "promote")
    /\ Become(h, [h EXCEPT !.pc = "save_tier", !.row = Copy(h.user, {"kyc", "step", "tier"}), !.k = 2])
    /\ Cross(h)
    /\ UNCHANGED <<otpVars, kyc, guarantor, interview, stages, profile, reviews>>

\* k: the tier to give, 3 if a guarantor has passed already.
ReadGuarantors(h) ==
    /\ At(h, "promote")
    /\ Become(h, [h EXCEPT !.pc = "save_tier", !.row = Copy(h.user, {"kyc", "step", "tier"}),
                           !.k = IF Passed(guarantor[h.user]) THEN 3 ELSE 2])
    /\ Cross(h)
    /\ UNCHANGED <<otpVars, kyc, guarantor, interview, stages, profile, reviews>>

SaveKycTier(h) ==
    /\ At(h, "save_tier")
    /\ RaiseTier(h, h.k)
    /\ Become(h, [h EXCEPT !.pc = "save_profile", !.row.tier = 1])
    /\ UNCHANGED <<otpVars, vettingVars, reviews>>

ProfileVerified(h) ==
    /\ At(h, "save_profile")
    /\ LET step == IF h.k = 3 THEN "INTERVIEW" ELSE "GUARANTOR"
       IN  profile' = [profile EXCEPT ![h.user].kyc = Written(h.row.kyc, @, "VERIFIED"),
                                      ![h.user].step = Written(h.row.step, @, step)]
    /\ Finish(h)
    /\ UNCHANGED <<otpVars, vettingVars, reviews>>

RejectKyc(h) ==
    /\ At(h, "reject")
    /\ SaveDocument(h, "FAILED")
    /\ Become(h, [h EXCEPT !.pc = "rejected", !.docs = <<>>])
    /\ UNCHANGED <<otpVars, guarantor, interview, stages, crossed, profile, reviews>>

ProfileFailed(h) ==
    /\ At(h, "rejected")
    /\ profile' = [profile EXCEPT ![h.user].kyc = "FAILED"]
    /\ Finish(h)
    /\ UNCHANGED <<otpVars, vettingVars, reviews>>

(***************************************************************************)
(* Guarantors.                                                             *)
(***************************************************************************)
BeginAddGuarantor(v) ==
    /\ Registered(v)
    /\ MaySubmit(guarantor[v])
    /\ Begin("add_guarantor", v)
    /\ UNCHANGED <<otpVars, vettingVars, profile, reviews>>

AddGuarantor(h) ==
    /\ At(h, "add_guarantor")
    /\ guarantor' = [guarantor EXCEPT ![h.user] = Append(@, "SUBMITTED")]
    /\ Finish(h)
    /\ UNCHANGED <<otpVars, kyc, interview, stages, crossed, profile, reviews>>

BeginReviewGuarantor(v, label) ==
    /\ Judged
    /\ \E k \in DOMAIN guarantor[v] :
          /\ guarantor[v][k] # "VERIFIED"
          /\ Run([New(label, v) EXCEPT !.k = k, !.docs = <<guarantor[v][k]>>])
    /\ UNCHANGED <<otpVars, vettingVars, profile>>

SaveGuarantor(h, s) == guarantor' = [guarantor EXCEPT ![h.user][h.k] = Written(h.docs[1], @, s)]

ApproveGuarantor(h) ==
    /\ At(h, "pass")
    /\ SaveGuarantor(h, "VERIFIED")
    /\ Pass(h.user, "guarantor")
    /\ Become(h, Blank("passed", h.user, h.id))
    /\ UNCHANGED <<otpVars, kyc, interview, crossed, profile, reviews>>

\* Without a verified KYC the guarantor counts when KYC is approved.
ReadKyc(h) ==
    /\ At(h, "passed")
    /\ IF profile[h.user].kyc = "VERIFIED"
       THEN Become(h, [h EXCEPT !.pc = "step", !.row = Copy(h.user, {"step"})])
       ELSE Finish(h)
    /\ Cross(h)
    /\ UNCHANGED <<otpVars, kyc, guarantor, interview, stages, profile, reviews>>

StepInterview(h) ==
    /\ At(h, "step")
    /\ SaveStep(h, "INTERVIEW")
    /\ Become(h, [h EXCEPT !.pc = "passed_tier", !.row = Copy(h.user, {"tier"})])
    /\ UNCHANGED <<otpVars, vettingVars, reviews>>

SaveGuarantorTier(h) ==
    /\ At(h, "passed_tier")
    /\ RaiseTier(h, 3)
    /\ Finish(h)
    /\ UNCHANGED <<otpVars, vettingVars, reviews>>

RejectGuarantor(h) ==
    /\ At(h, "fail")
    /\ SaveGuarantor(h, "FAILED")
    /\ Finish(h)
    /\ UNCHANGED <<otpVars, kyc, interview, stages, crossed, profile, reviews>>

(***************************************************************************)
(* Interviews.                                                             *)
(***************************************************************************)
\* Mutant: an interview before KYC is verified.
BeginScheduleAnyTime(v) ==
    /\ Registered(v)
    /\ Len(interview[v]) < MaxInterviews
    /\ Run([New("schedule", v) EXCEPT !.row = Copy(v, {"step"})])
    /\ UNCHANGED <<otpVars, vettingVars, profile, reviews>>

BeginScheduleInterview(v) ==
    /\ profile[v].kyc = "VERIFIED"
    /\ Len(interview[v]) < MaxInterviews
    /\ Run([New("schedule", v) EXCEPT !.row = Copy(v, {"step"})])
    /\ UNCHANGED <<otpVars, vettingVars, profile, reviews>>

ScheduleInterview(h) ==
    /\ At(h, "schedule")
    /\ interview' = [interview EXCEPT ![h.user] = Append(@, "SCHEDULED")]
    /\ Goto(h, "scheduled")
    /\ UNCHANGED <<otpVars, kyc, guarantor, stages, crossed, profile, reviews>>

ProfileScheduled(h) ==
    /\ At(h, "scheduled")
    /\ SaveStep(h, "INTERVIEW")
    /\ Finish(h)
    /\ UNCHANGED <<otpVars, vettingVars, reviews>>

\* Whatever the interview's status is, another may be set.
BeginUpdateInterview(v, s) ==
    /\ Judged
    /\ \E k \in DOMAIN interview[v] :
          Run([New("judge", v) EXCEPT !.k = k, !.to = s, !.docs = <<interview[v][k]>>])
    /\ UNCHANGED <<otpVars, vettingVars, profile>>

UpdateInterview(h) ==
    /\ At(h, "judge")
    /\ interview' = [interview EXCEPT ![h.user][h.k] = Written(h.docs[1], @, h.to)]
    /\ IF h.to = "PASSED"
       THEN Pass(h.user, "interview") /\ Become(h, Blank("judged", h.user, h.id))
       ELSE Finish(h) /\ UNCHANGED stages
    /\ UNCHANGED <<otpVars, kyc, guarantor, crossed, profile, reviews>>

ReadTier(h) ==
    /\ At(h, "judged")
    /\ Become(h, [h EXCEPT !.pc = "judged_tier", !.row = Copy(h.user, {"tier"})])
    /\ UNCHANGED <<otpVars, vettingVars, profile, reviews>>

\* Mutant: the tier of a guarantor for an interview.
SaveLowTier(h) ==
    /\ At(h, "judged_tier")
    /\ RaiseTier(h, 3)
    /\ Become(h, [h EXCEPT !.pc = "completed", !.row = Copy(h.user, {"step"})])
    /\ UNCHANGED <<otpVars, vettingVars, reviews>>

SaveInterviewTier(h) ==
    /\ At(h, "judged_tier")
    /\ RaiseTier(h, 4)
    /\ Become(h, [h EXCEPT !.pc = "completed", !.row = Copy(h.user, {"step"})])
    /\ UNCHANGED <<otpVars, vettingVars, reviews>>

CompleteOnboarding(h) ==
    /\ At(h, "completed")
    /\ SaveStep(h, "COMPLETED")
    /\ Finish(h)
    /\ UNCHANGED <<otpVars, vettingVars, reviews>>

(***************************************************************************)
(* vetting.sync_provider_tier: one tier up, if the metrics allow it.       *)
(***************************************************************************)
TierRules == 5 .. 8

BeginSyncTier(v) ==
    /\ Registered(v) /\ profile[v].tier + 1 \in TierRules /\ profile[v].tier < MaxTier
    /\ Run([New("sync", v) EXCEPT !.row = Copy(v, {"tier"})])
    /\ UNCHANGED <<otpVars, vettingVars, profile, reviews>>

SyncTier(h) ==
    /\ At(h, "sync")
    /\ profile' = [profile EXCEPT ![h.user].tier = h.row.tier + 1]
    /\ Finish(h)
    /\ UNCHANGED <<otpVars, vettingVars, reviews>>

VettingRequest(v) ==
    \/ BeginSubmitKyc(v) \/ BeginAddGuarantor(v) \/ BeginScheduleInterview(v) \/ BeginSyncTier(v)
    \/ \E n \in {0, 1} : BeginReviewKyc(v, n)
    \/ \E label \in {"pass", "fail"} : BeginReviewGuarantor(v, label)
    \/ \E s \in InterviewStatus : BeginUpdateInterview(v, s)

VettingStep(h) ==
    \/ CheckKyc(h) \/ InsertKyc(h) \/ ProfileSubmitted(h)
    \/ ApproveKyc(h) \/ ReadGuarantors(h) \/ SaveKycTier(h) \/ ProfileVerified(h)
    \/ RejectKyc(h) \/ ProfileFailed(h)
    \/ AddGuarantor(h) \/ ApproveGuarantor(h) \/ ReadKyc(h) \/ StepInterview(h) \/ SaveGuarantorTier(h)
    \/ RejectGuarantor(h)
    \/ ScheduleInterview(h) \/ ProfileScheduled(h)
    \/ UpdateInterview(h) \/ ReadTier(h) \/ SaveInterviewTier(h) \/ CompleteOnboarding(h)
    \/ SyncTier(h)
=============================================================================
