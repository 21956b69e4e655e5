---------------------------- MODULE AccountService ----------------------------
(***************************************************************************)
(* Accounts: registration, the one-time passwords that confirm an e-mail   *)
(* address or a phone number, and the change of the phone number, which    *)
(* takes the confirmation back.                                            *)
(***************************************************************************)
EXTENDS OnboardingState

\* register_user: user, user_stats and provider_profile, one commit each.
\* A second registration finds the e-mail address taken.
BeginRegister(v) ==
    /\ profile[v].exists = 0
    /\ Begin("add_user", v)
    /\ UNCHANGED <<otpVars, vettingVars, profile, reviews>>

AddRow(v, n) == profile' = [profile EXCEPT ![v].exists = n]

RegisterUser(h) ==
    /\ \/ /\ At(h, "add_user")
          /\ IF profile[h.user].exists > 0     \* the unique e-mail address
             THEN Finish(h) /\ UNCHANGED profile
             ELSE AddRow(h.user, 1) /\ Goto(h, "add_stats")
       \/ At(h, "add_stats") /\ AddRow(h.user, 2) /\ Goto(h, "add_profile")
       \/ At(h, "add_profile") /\ AddRow(h.user, 3) /\ Finish(h)
    /\ UNCHANGED <<otpVars, vettingVars, reviews>>

(***************************************************************************)
(* One-time passwords, in the cache.  Every code is "123456": a target has *)
(* one or has none.                                                        *)
(***************************************************************************)
Holds(v, t) == profile[v].exists > 0 /\ t \in {v, account[v].phone}
Flag(t) == IF t \in Provider THEN "email" ELSE "phone"
Set(t, key) == otp' = [otp EXCEPT ![t] = key]

BeginRequestOtp(v, t) ==
    /\ codes < MaxCodes
    /\ codes' = codes + 1
    /\ Holds(v, t) /\ ~otp[t].cooldown
    /\ Run([New("generate", v) EXCEPT !.target = t])
    /\ UNCHANGED <<account, otp, changes, confirmed, overtaken, vettingVars, profile, reviews>>

GenerateOtp(h) ==
    /\ At(h, "generate")
    /\ Set(h.target, [code |-> TRUE, tries |-> 0, cooldown |-> TRUE])
    /\ Goto(h, "send")
    /\ UNCHANGED <<account, codes, changes, confirmed, overtaken, vettingVars, profile, reviews>>

\* A delivery that fails takes back whatever the target has by then.
SendOtp(h) ==
    /\ At(h, "send")
    /\ \/ UNCHANGED otp
       \/ Set(h.target, NoOtp)
    /\ Finish(h)
    /\ UNCHANGED <<account, codes, changes, confirmed, overtaken, vettingVars, profile, reviews>>

\* The cooldown is shorter than the life of a code and of its counter.
ExpireCooldown(t) ==
    /\ otp[t].cooldown
    /\ otp' = [otp EXCEPT ![t].cooldown = FALSE]
    /\ UNCHANGED <<account, codes, changes, confirmed, overtaken, vettingVars, profile, running, reviews>>

ExpireOtp(t) ==
    /\ ~otp[t].cooldown /\ otp[t].code
    /\ Set(t, NoOtp)
    /\ UNCHANGED <<account, codes, changes, confirmed, overtaken, vettingVars, profile, running, reviews>>

\* k: 1 for the right code, which is compared with the code as it is read
\* here; n: the attempts as read here.
Spent(t) == [otp[t] EXCEPT !.code = FALSE, !.tries = 0]

BeginVerifyOtp(v, t, k) ==
    /\ Holds(v, t) /\ otp[t].code
    /\ IF otp[t].tries >= OtpMaxAttempts
       THEN Set(t, Spent(t)) /\ UNCHANGED running
       ELSE Run([New("count", v) EXCEPT !.target = t, !.k = k, !.n = otp[t].tries]) /\ UNCHANGED otp
    /\ UNCHANGED <<account, codes, changes, confirmed, overtaken, vettingVars, profile, reviews>>

CountAttempt(h) ==
    /\ At(h, "count")
    /\ otp' = [otp EXCEPT ![h.target].tries = h.n + 1]
    /\ Become(h, [h EXCEPT !.pc = "compare", !.n = @ + 1])
    /\ UNCHANGED <<account, codes, changes, confirmed, overtaken, vettingVars, profile, reviews>>

\* Mutant: the last attempt leaves the code.
CompareOnly(h) ==
    /\ At(h, "compare")
    /\ IF h.k = 1 THEN Set(h.target, Spent(h.target)) ELSE UNCHANGED otp
    /\ \/ /\ h.k = 1 /\ Goto(h, "flag")
          /\ confirmed' = [confirmed EXCEPT ![h.user] = @ \cup {h.target}]
       \/ Finish(h) /\ UNCHANGED confirmed
    /\ UNCHANGED <<account, codes, changes, overtaken, vettingVars, profile, reviews>>

\* The right code sets the flag, except in the route verify-otp.
CompareCode(h) ==
    /\ At(h, "compare")
    /\ IF h.k = 1 \/ h.n >= OtpMaxAttempts THEN Set(h.target, Spent(h.target)) ELSE UNCHANGED otp
    /\ \/ /\ h.k = 1 /\ Goto(h, "flag")
          /\ confirmed' = [confirmed EXCEPT ![h.user] = @ \cup {h.target}]
       \/ Finish(h) /\ UNCHANGED confirmed
    /\ UNCHANGED <<account, codes, changes, overtaken, vettingVars, profile, reviews>>

SetVerified(h) ==
    /\ At(h, "flag")
    /\ account' = [account EXCEPT ![h.user].verified = @ \cup {Flag(h.target)}]
    /\ Finish(h)
    /\ UNCHANGED <<otp, codes, changes, confirmed, overtaken, vettingVars, profile, reviews>>

\* update_provider_profile: a new number is not verified; n is 1 if the
\* number that was loaded is, so that the flag is written.
BeginChangePhone(v, p) ==
    /\ changes < MaxChanges
    /\ changes' = changes + 1
    /\ Registered(v)
    /\ ~Running(v, {"change_phone"})
    /\ \A w \in Provider : account[w].phone # p
    /\ Run([New("change_phone", v) EXCEPT !.target = p,
                                          !.n = IF "phone" \in account[v].verified THEN 1 ELSE 0])
    /\ UNCHANGED <<account, otp, codes, confirmed, overtaken, vettingVars, profile, reviews>>

Confirming(v) == \E g \in running : g.user = v /\ g.pc \in {"count", "compare", "flag"} /\ g.target \in Phone

\* Mutant: a new number inherits the flag.
ChangeNumberOnly(h) ==
    /\ At(h, "change_phone")
    /\ account' = [account EXCEPT ![h.user].phone = h.target]
    /\ Finish(h)
    /\ UNCHANGED <<otp, codes, changes, confirmed, overtaken, vettingVars, profile, reviews>>

ChangePhone(h) ==
    /\ At(h, "change_phone")
    /\ \A w \in Provider : account[w].phone # h.target    \* a unique column
    /\ account' = [account EXCEPT ![h.user] =
                      [phone |-> h.target, verified |-> IF h.n = 1 THEN @.verified \ {"phone"} ELSE @.verified]]
    /\ overtaken' = IF Confirming(h.user) \/ (h.n = 0 /\ "phone" \in account[h.user].verified)
                    THEN [overtaken EXCEPT ![h.user] = @ \cup {h.target}]
                    ELSE overtaken
    /\ Finish(h)
    /\ UNCHANGED <<otp, codes, changes, confirmed, vettingVars, profile, reviews>>

AccountRequest(v) ==
    \/ BeginRegister(v)
    \/ \E t \in Target : BeginRequestOtp(v, t) \/ \E k \in {0, 1} : BeginVerifyOtp(v, t, k)
    \/ \E p \in Phone : BeginChangePhone(v, p)

AccountStep(h) ==
    \/ RegisterUser(h) \/ GenerateOtp(h) \/ SendOtp(h)
    \/ CountAttempt(h) \/ CompareCode(h) \/ SetVerified(h) \/ ChangePhone(h)
=============================================================================
