--------------------------- MODULE OnboardingState ---------------------------
(***************************************************************************)
(* The shared state of a provider's way onto the platform: the rows of     *)
(* users, provider_profiles, user_stats, kyc_documents,                    *)
(* provider_guarantors and provider_interviews, the one-time passwords in  *)
(* the cache, and the copies that running requests have loaded.            *)
(***************************************************************************)
EXTENDS Integers, FiniteSets, Sequences

CONSTANTS
    Provider,
    Phone,
    NoTarget,
    FirstPhone,        \* Provider -> the number it registers with
    MaxAttempts,       \* KYCPolicy and GuarantorPolicy MAX_ATTEMPTS
    OtpMaxAttempts,    \* settings.OTP_MAX_ATTEMPTS
    MaxRunning,        \* bound on the requests running at a time
    MaxCodes,          \* bound on the codes asked for
    MaxChanges,        \* bound on the changes of number
    MaxInterviews,     \* bound on the interviews scheduled
    MaxReviews,        \* bound on the judgements of administrators
    MaxTier            \* bound on the promotions by performance

ASSUME ConstantsAssumption ==
    /\ Phone \cap Provider = {} /\ NoTarget \notin Phone \cup Provider
    /\ FirstPhone \in [Provider -> Phone]
    /\ \A v, w \in Provider : FirstPhone[v] = FirstPhone[w] => v = w
    /\ MaxAttempts \in Nat \ {0} /\ OtpMaxAttempts \in Nat \ {0}
    /\ MaxRunning \in Nat /\ MaxCodes \in Nat /\ MaxChanges \in Nat 
    /\ MaxInterviews \in Nat /\ MaxReviews \in Nat /\ MaxTier \in Nat

\* Whom a one-time password goes to; a provider stands for its e-mail address.
Target == Phone \cup Provider

\* SUBMITTED stands for PENDING too, VERIFIED for PASSED; nothing in the
\* code writes UNDER_REVIEW.
ReviewStatus == {"SUBMITTED", "VERIFIED", "FAILED"}
InterviewStatus == {"SCHEDULED", "PASSED", "FAILED"}  \* FAILED: or called off
KYCStatus == {"PENDING_SUBMISSION"} \cup ReviewStatus
OnboardingStep == {"KYC", "GUARANTOR", "INTERVIEW", "COMPLETED"}

\* A profile and its user_stats.  exists: the rows that registration has
\* inserted so far, of users, user_stats and provider_profiles.
Profile == [exists: 0 .. 3, kyc: KYCStatus, step: OnboardingStep, tier: 1 .. 8]
Account == [phone: Phone, verified: SUBSET {"phone", "email"}]

\* The three cache keys of a target; tries is 0 where its key is missing.
Otp == [code: BOOLEAN, tries: Nat, cooldown: BOOLEAN]
NoOtp == [code |-> FALSE, tries |-> 0, cooldown |-> FALSE]

Label == {"add_user", "add_stats", "add_profile", "generate", "send", "count", "compare", "flag",
          "change_phone", "upload", "insert", "submitted",
          "approve", "promote", "save_tier", "save_profile", "reject", "rejected",
          "add_guarantor", "pass", "passed", "step", "passed_tier", "fail",
          "schedule", "scheduled", "judge", "judged", "judged_tier", "completed",
          "sync"}

HandlerRow == [pc: Label, id: Nat, user: Provider, target: Target \cup {NoTarget},
               k: Nat, n: Nat, docs: Seq(ReviewStatus \cup InterviewStatus), row: Profile,
               to: InterviewStatus \cup {""}]

VARIABLES
    account,      \* Provider -> phone number and verification flags in users
    profile,      \* Provider -> provider_profiles and user_stats
    kyc,          \* Provider -> its kyc_documents by creation, with the status
                  \* and the attempt_number
    guarantor,    \* Provider -> its provider_guarantors, by creation
    interview,    \* Provider -> its provider_interviews, by creation
    otp,          \* Target -> its keys in the cache
    running,      \* the requests under way
    codes, changes, reviews,
    \* History, read by no action: what has ever been confirmed by a code,
    \* numbers taken over while a confirmation was under way, the stages an
    \* administrator has passed, and the providers for whom an approval has
    \* read while another had read and not yet written.
    confirmed, overtaken, stages, crossed

otpVars == <<account, otp, codes, changes, confirmed, overtaken>>
vettingVars == <<kyc, guarantor, interview, stages, crossed>>
vars == <<otpVars, vettingVars, profile, running, reviews>>

Document == [status: ReviewStatus, attempt: Nat]

TypeOK ==
    /\ account \in [Provider -> Account]
    /\ profile \in [Provider -> Profile]
    /\ kyc \in [Provider -> Seq(Document)]
    /\ guarantor \in [Provider -> Seq(ReviewStatus)]
    /\ interview \in [Provider -> Seq(InterviewStatus)]
    /\ otp \in [Target -> Otp]
    /\ running \subseteq HandlerRow
    /\ \A g, h \in running : g.id = h.id => g = h
    /\ codes \in Nat /\ changes \in Nat /\ reviews \in Nat
    /\ confirmed \in [Provider -> SUBSET Target]
    /\ overtaken \in [Provider -> SUBSET Phone]
    /\ stages \in [Provider -> SUBSET {"kyc", "guarantor", "interview"}]
    /\ crossed \subseteq Provider

NewProfile == [exists |-> 0, kyc |-> "PENDING_SUBMISSION", step |-> "KYC", tier |-> 1]

\* A provider is new, or has registered and confirmed its e-mail address.
Init == \E ready \in SUBSET Provider :
    /\ account = [v \in Provider |-> [phone |-> FirstPhone[v],
                                     verified |-> IF v \in ready THEN {"email"} ELSE {}]]
    /\ confirmed = [v \in Provider |-> {v} \cap ready]
    /\ profile = [v \in Provider |-> [NewProfile EXCEPT !.exists = IF v \in ready THEN 3 ELSE 0]]
    /\ codes = 0 /\ changes = 0
    /\ kyc = [v \in Provider |-> <<>>]
    /\ guarantor = [v \in Provider |-> <<>>]
    /\ interview = [v \in Provider |-> <<>>]
    /\ otp = [t \in Target |-> NoOtp]
    /\ running = {}
    /\ reviews = 0
    /\ overtaken = [v \in Provider |-> {}]
    /\ stages = [v \in Provider |-> {}]
    /\ crossed = {}

(***************************************************************************)
(* Requests.  A step goes up to the next commit or cache write.  The reads *)
(* between two commits are one step, of their own where they decide        *)
(* anything, else with the commit before.  A commit writes the attributes  *)
(* that it changes in the copy the request has loaded.                     *)
(***************************************************************************)
At(h, label) == h.pc = label
Running(v, labels) == \E h \in running : h.user = v /\ h.pc \in labels
Registered(v) == profile[v].exists = 3

\* What is read later of the profile as it is loaded.
Copy(v, fields) == [NewProfile EXCEPT !.kyc = IF "kyc" \in fields THEN profile[v].kyc ELSE @,
                                      !.step = IF "step" \in fields THEN profile[v].step ELSE @,
                                      !.tier = IF "tier" \in fields THEN profile[v].tier ELSE @]

Judged == reviews < MaxReviews /\ reviews' = reviews + 1

FreeId == CHOOSE i \in 1 .. MaxRunning : \A h \in running : h.id # i
Blank(label, v, i) == [pc |-> label, id |-> i, user |-> v, target |-> NoTarget,
                       k |-> 0, n |-> 0, docs |-> <<>>, row |-> NewProfile, to |-> ""]
New(label, v) == Blank(label, v, FreeId)
Run(h) == Cardinality(running) < MaxRunning /\ running' = running \cup {h}
Begin(label, v) == Run(New(label, v))
Become(h, w) == running' = (running \ {h}) \cup {w}
Goto(h, label) == Become(h, [h EXCEPT !.pc = label])
Finish(h) == running' = running \ {h}

Written(loaded, stored, new) == IF loaded = new THEN stored ELSE new
SaveKyc(h, s) == profile' = [profile EXCEPT ![h.user].kyc = Written(h.row.kyc, @, s)]
SaveStep(h, s) == profile' = [profile EXCEPT ![h.user].step = Written(h.row.step, @, s)]
\* current_tier = max(the tier that was read, tier)
RaiseTier(h, t) == profile' = [profile EXCEPT ![h.user].tier = IF h.row.tier < t THEN t ELSE @]
=============================================================================
