--------------------------- MODULE MandateStates ---------------------------
(***************************************************************************)
(* The pure decision rules of the payment runtime: the two lifecycles of   *)
(* src/lib/domain/state-machines.ts, the policy of                         *)
(* src/lib/modules/policy.ts and the two small functions with which the    *)
(* workers of src/lib/modules/execution-worker.ts settle a mandate.        *)
(*                                                                         *)
(* A mandate is a record with the fields status, cap, approved, receipt,   *)
(* reserved and consumed (all amounts in cents).                           *)
(*                                                                         *)
(* A definition marked "Mutant" is what a plausible slip would make of the *)
(* definition below it.  Nothing uses it: it stands in for the definition  *)
(* when a property is tried against that slip.  This holds in all modules. *)
(***************************************************************************)
EXTENDS Integers

MandateStatuses ==
    {"draft", "issued_active", "issued_reserved", "revoking", "revoked", "expired"}

AttemptStatuses ==
    {"created", "auth_validated", "policy_denied", "reserved",
     "dispatch_queued", "dispatching", "execution_unknown",
     "executed_charge_succeeded", "executed_charge_failed",
     "cancelled_released"}

\* The edges of the two tables; a status without an edge is terminal.
MandateTransitions ==
    {<<"draft", "issued_active">>,
     <<"issued_active", "issued_reserved">>,
     <<"issued_active", "revoking">>,
     <<"issued_active", "expired">>,
     <<"issued_reserved", "issued_active">>,
     <<"issued_reserved", "revoking">>,
     <<"issued_reserved", "expired">>,
     <<"revoking", "revoked">>}

AttemptTransitions ==
    {<<"created", "auth_validated">>,
     <<"created", "policy_denied">>,
     <<"auth_validated", "policy_denied">>,
     <<"auth_validated", "reserved">>,
     <<"reserved", "cancelled_released">>,
     <<"reserved", "dispatch_queued">>,
     <<"dispatch_queued", "dispatching">>,
     <<"dispatch_queued", "cancelled_released">>,
     <<"dispatching", "cancelled_released">>,
     <<"dispatching", "executed_charge_failed">>,
     <<"dispatching", "executed_charge_succeeded">>,
     <<"dispatching", "execution_unknown">>,
     <<"execution_unknown", "executed_charge_failed">>,
     <<"execution_unknown", "executed_charge_succeeded">>}

CanTransitionMandate(from, to) == <<from, to>> \in MandateTransitions
CanTransitionAttempt(from, to) == <<from, to>> \in AttemptTransitions

MandateCanReserve(mandate) ==
    mandate.status = "issued_active" /\ mandate.reserved = 0

AvailableBudget(mandate) == mandate.cap - mandate.consumed - mandate.reserved

\* evaluatePolicy, as the conjunction of the checks it makes one by one.
\* past is the comparison of the mandate's expiry with the clock, capable
\* says whether the vendor can give receipts.
PolicyApproves(mandate, vendor, capable, amount, past) ==
    /\ mandate.status = "issued_active"
    /\ ~past
    /\ MandateCanReserve(mandate)
    /\ vendor \in mandate.approved
    /\ mandate.receipt => capable
    /\ AvailableBudget(mandate) >= amount

\* Mutant: the mandate keeps the status it had while it was reserved.
KeepsMandateStatus(status) == status

\* Mutant: the resolution of an attempt reopens whatever mandate it has.
ReopensMandate(status) == "issued_active"

NextMandateStatusAfterResolution(status) ==
    IF status \in {"revoking", "revoked", "expired"} THEN status
                                                     ELSE "issued_active"

\* Mutant: the report is taken as it comes.
UnvalidatedSettledAmount(claimed, reported) == reported

\* Mutant: the report is validated but not capped.
UncappedSettledAmount(claimed, reported) ==
    IF reported >= 0 THEN reported ELSE claimed

\* What a vendor reports as the final amount is capped by what was claimed;
\* a report that is no natural number (null, negative) counts for nothing.
ResolveSettledAmount(claimed, reported) ==
    IF reported >= 0 /\ reported < claimed THEN reported ELSE claimed
=============================================================================
