-------------------------- MODULE OnboardingSystem --------------------------
(***************************************************************************)
(* Onboarding as a whole: providers, administrators and the promotion      *)
(* worker, interleaved commit by commit.                                   *)
(***************************************************************************)
EXTENDS VettingService

HandlerStep(h) == AccountStep(h) \/ VettingStep(h)

Next ==
    \/ \E h \in running : HandlerStep(h)
    \/ \E v \in Provider : AccountRequest(v) \/ VettingRequest(v)
    \/ \E t \in Target : ExpireCooldown(t) \/ ExpireOtp(t)

Spec == Init /\ [][Next]_vars

\* Every request that is under way goes on, whatever the others do.
FairSpec ==
    Spec /\ \A i \in 1 .. MaxRunning : WF_vars(\E h \in running : h.id = i /\ HandlerStep(h))

-----------------------------------------------------------------------------
\* A tier is earned by the stages before it: an approved document for 2, a
\* passed guarantor for 3, a passed interview from 4 on, though every stage
\* writes the tier from a copy it read; and nobody's documents are looked at
\* before its e-mail address and a phone number have been confirmed.
EarnedTier ==
    \A v \in Provider :
        /\ profile[v].tier >= 2 => "kyc" \in stages[v]
        /\ profile[v].tier = 3 => "guarantor" \in stages[v]
        /\ profile[v].tier >= 4 => "interview" \in stages[v]
        /\ kyc[v] # <<>> => v \in confirmed[v] /\ confirmed[v] \cap Phone # {}

\* A number counts as verified only if a code has confirmed that number; a
\* change of number takes the flag back, except from the number that is
\* taken over while a confirmation of the old one is under way.
VerifiedNumber ==
    \A v \in Provider : "phone" \in account[v].verified =>
        account[v].phone \in confirmed[v] \cup overtaken[v]

\* The last attempt invalidates the code, also when several attempts at a
\* time share the counter or an old one counts against a new code.
SpentCodeIsGone ==
    \A t \in Target : otp[t].code /\ otp[t].tries >= OtpMaxAttempts =>
        \E h \in running : h.target = t /\ At(h, "compare")

\* The two approvals add up in either order: with KYC verified and a
\* guarantor passed the provider is in tier 3 or above, unless one approval
\* read what the other was about to write.
Approving == {"promote", "save_tier", "save_profile", "passed", "step", "passed_tier"}
StagesAddUp ==
    \A v \in Provider :
        profile[v].kyc = "VERIFIED" /\ Passed(guarantor[v]) =>
            profile[v].tier >= 3 \/ v \in crossed \/ Running(v, Approving)

\* Whoever is judged to have passed an interview gets tier 4 and keeps it
\* for the moment, through two more commits and whatever else is written to
\* the tier meanwhile.
PassedIsPromoted ==
    \A v \in Provider : Running(v, {"judged"}) ~> profile[v].tier >= 4
=============================================================================
