--------------------------- MODULE MCPayoutSystem ---------------------------
(***************************************************************************)
(* Finite instances of PayoutSystem.                                       *)
(***************************************************************************)
EXTENDS PayoutSystem, TLC

CONSTANTS t1, t2, r1, r2, p1, p2, p3

AllRoles == Role
NoTransferHooks == Role \ {"transfer.success", "transfer.failed", "charge.failed"}
SuccessRoles == {"worker", "reconciler", "transfer.success"}
PaymentRoles == {"payout", "charge.success", "charge.failed"}

\* Start at a transfer just enqueued by process_provider_payout, its charge
\* delivered and acknowledged: a state Spec reaches, without its history.
InitiatedInit ==
    LET e == [kind |-> "charge.success", task |-> t1, ref |-> r1]
    IN  /\ transfer = [t \in Task |-> NewTransfer]
        /\ payout = [t \in Task |-> "TRANSFER_INITIATED"]
        /\ current = [t \in Task |-> {}]
        /\ payStatus = [t \in Task |-> "TRANSFER_INITIATED"]
        /\ attemptLog = [t \in Task |-> {}]
        /\ txns = [f \in Event |-> IF f = e THEN 1 ELSE 0]
        /\ debt = Debt0
        /\ settled = 0
        /\ queue = Task
        /\ hooks = {}
        /\ charged = [t \in Task |-> {r1}]
        /\ paid = [t \in Task |-> FALSE]
        /\ session = [p \in Session |-> Idle]
        /\ crashes = 0

InitiatedSpec == InitiatedInit /\ [][Next]_vars
FairInitiatedSpec == InitiatedSpec /\ Fairness

\* Session slots and references are interchangeable.
Symmetry == Permutations(Session)
=============================================================================
