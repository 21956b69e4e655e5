--------------------------- MODULE TransferMachine ---------------------------
(***************************************************************************)
(* What TransferService promises (its class docstring): every intended     *)
(* money movement follows the transition table, makes at most MaxAttempts  *)
(* attempts and reaches a known outcome, COMPLETED or FAILED, exactly      *)
(* once.  No processes, no database, no gateway: one status and one        *)
(* attempt counter per task.                                               *)
(***************************************************************************)
EXTENDS Naturals

CONSTANTS Task, MaxAttempts

VARIABLES status, attempts

vars == <<status, attempts>>

Init ==
    /\ status = [t \in Task |-> "NONE"]
    /\ attempts = [t \in Task |-> 0]

Create(t) ==
    /\ status[t] = "NONE"
    /\ status' = [status EXCEPT ![t] = "PENDING"]
    /\ UNCHANGED attempts

Attempt(t) ==
    /\ status[t] \in {"PENDING", "RETRYING"}
    /\ attempts[t] < MaxAttempts
    /\ status' = [status EXCEPT ![t] = "PROCESSING"]
    /\ attempts' = [attempts EXCEPT ![t] = @ + 1]

Retry(t) ==
    /\ status[t] = "PROCESSING"
    /\ attempts[t] < MaxAttempts
    /\ status' = [status EXCEPT ![t] = "RETRYING"]
    /\ UNCHANGED attempts

Resolve(t) ==
    /\ status[t] = "PROCESSING"
    /\ \E s \in {"COMPLETED", "FAILED"} : status' = [status EXCEPT ![t] = s]
    /\ UNCHANGED attempts

Next == \E t \in Task : Create(t) \/ Attempt(t) \/ Retry(t) \/ Resolve(t)

Spec == Init /\ [][Next]_vars
=============================================================================
