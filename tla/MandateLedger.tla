--------------------------- MODULE MandateLedger ---------------------------
(***************************************************************************)
(* The mandates and payment attempts of the store, and what every          *)
(* transaction does to them.  A transaction is the callback of one         *)
(* withStoreLock call: the store runs it under a single lock and writes    *)
(* its result back or not at all, so each is one action here.              *)
(*                                                                         *)
(* The transactions of the operator's API are createMandate, revokeMandate *)
(* and runAttempt of src/lib/modules/mandates.ts; those of the workers are *)
(* in src/lib/modules/execution-worker.ts.  In this module they may be     *)
(* called in any order and by anyone.  ExecutionWorker conjoins them with  *)
(* what the same transactions do to the worker tasks (WorkerTasks) and     *)
(* says in which order the workers really call them.                       *)
(*                                                                         *)
(* Time is not counted.  Each comparison with the clock that the code      *)
(* makes is a flag that an action of the clock raises.                     *)
(***************************************************************************)
EXTENDS MandateStates, FiniteSetsExt

CONSTANTS
    Mandates,         \* mandate identifiers
    Attempts,         \* payment identifiers; an attempt is named by its own
    Vendors,          \* the vendor registry
    ReceiptCapable,   \* the vendors that can give receipts
    Terms,            \* what createMandate may be asked for
    Amounts,          \* amounts that runAttempt may be asked for
    Reports,          \* final amounts a vendor may report, NoReport among them
    None              \* the mandate of an attempt that does not exist

ASSUME VendorAssumption == ReceiptCapable \subseteq Vendors

ASSUME TermsAssumption ==
    Terms \subseteq [cap : Nat \ {0}, approved : SUBSET Vendors, receipt : BOOLEAN]

ASSUME AmountAssumption == Amounts \subseteq Nat \ {0}

\* finalAmountCents is null or left out: a vendor may always say nothing.
NoReport == -1

ASSUME ReportsAssumption == Reports \subseteq Int /\ NoReport \in Reports

ASSUME NoneAssumption == None \notin Mandates

VARIABLES
    mandates,     \* data.mandates
    attempts,     \* data.attempts
    pastExpiry    \* per mandate: the clock has passed expiresAt

ledgerVars == <<mandates, attempts, pastExpiry>>

-----------------------------------------------------------------------------
(***************************************************************************)
(* The shape of the store.  "absent" stands for a row that does not exist. *)
(***************************************************************************)
MandateRecords ==
    [status : MandateStatuses \cup {"absent"}, cap : Nat, approved : SUBSET Vendors,
     receipt : BOOLEAN, reserved : Nat, consumed : Nat]

\* artifacts: the attempt_reconciliation_started event of the attempt holds a
\* signed payment.  settled: finalAmountCents of its newest financial_outcome
\* event, which names an amount for a failed or unknown outcome as well.
\* window: whether 15 minutes passed since it entered execution_unknown.
AttemptRecords ==
    [status : AttemptStatuses \cup {"absent"}, mandate : Mandates \cup {None},
     amount : Nat, settled : Nat, artifacts : BOOLEAN,
     window : {"none", "open", "passed"}]

NoMandate ==
    [status |-> "absent", cap |-> 0, approved |-> {}, receipt |-> FALSE,
     reserved |-> 0, consumed |-> 0]

NoAttempt ==
    [status |-> "absent", mandate |-> None, amount |-> 0, settled |-> 0,
     artifacts |-> FALSE, window |-> "none"]

\* The statuses in which an attempt holds a part of its mandate's budget.
LiveStatuses == {"dispatch_queued", "dispatching", "execution_unknown"}
ResolvedStatuses ==
    {"policy_denied", "executed_charge_succeeded", "executed_charge_failed",
     "cancelled_released"}

LedgerInit ==
    /\ mandates = [m \in Mandates |-> NoMandate]
    /\ attempts = [a \in Attempts |-> NoAttempt]
    /\ pastExpiry = [m \in Mandates |-> FALSE]

-----------------------------------------------------------------------------
(***************************************************************************)
(* The operator's API.                                                     *)
(***************************************************************************)
\* draft -> issued_active happens inside the transaction and is not seen.
CreateMandate(m, terms) ==
    /\ mandates[m].status = "absent"
    /\ terms.approved # {}
    /\ mandates' = [mandates EXCEPT ![m] =
         [status |-> "issued_active", cap |-> terms.cap, approved |-> terms.approved,
          receipt |-> terms.receipt, reserved |-> 0, consumed |-> 0]]
    /\ UNCHANGED <<attempts, pastExpiry>>

\* Mutant: a revocation gives back what an attempt in flight holds.
RevokeDropsReservation(m) ==
    /\ CanTransitionMandate(mandates[m].status, "revoking")
    /\ mandates' = [mandates EXCEPT ![m].status = "revoked", ![m].reserved = 0]
    /\ UNCHANGED <<attempts, pastExpiry>>

\* Both transitions of a revocation, to revoking and on to revoked, are made
\* in one transaction, around the write of the revocation anchor.
RevokeMandate(m) ==
    /\ CanTransitionMandate(mandates[m].status, "revoking")
    /\ mandates' = [mandates EXCEPT ![m].status = "revoked"]
    /\ UNCHANGED <<attempts, pastExpiry>>

Materialized(m, amount, status) ==
    [NoAttempt EXCEPT !.status = status, !.mandate = m, !.amount = amount]

Approves(m, vendor, amount) ==
    PolicyApproves(mandates[m], vendor, vendor \in ReceiptCapable, amount,
                   pastExpiry[m])

\* The policy denies the attempt; the first denial after the expiry of an
\* active mandate also marks the mandate expired.
DenyAttempt(a, m, vendor, amount) ==
    /\ attempts[a].status = "absent"
    /\ mandates[m].status # "absent"
    /\ ~ Approves(m, vendor, amount)
    /\ attempts' = [attempts EXCEPT ![a] = Materialized(m, amount, "policy_denied")]
    /\ mandates' =
         IF mandates[m].status = "issued_active" /\ pastExpiry[m]
           THEN [mandates EXCEPT ![m].status = "expired"]
           ELSE mandates
    /\ UNCHANGED pastExpiry

\* The policy approves but the on-chain treasury refuses.
DenyByTreasury(a, m, vendor, amount) ==
    /\ attempts[a].status = "absent"
    /\ Approves(m, vendor, amount)
    /\ attempts' = [attempts EXCEPT ![a] = Materialized(m, amount, "policy_denied")]
    /\ UNCHANGED <<mandates, pastExpiry>>

\* The budget is reserved and the attempt queued for dispatch.
ReserveAttempt(a, m, vendor, amount) ==
    /\ attempts[a].status = "absent"
    /\ Approves(m, vendor, amount)
    /\ attempts' = [attempts EXCEPT ![a] = Materialized(m, amount, "dispatch_queued")]
    /\ mandates' = [mandates EXCEPT ![m].status = "issued_reserved",
                                    ![m].reserved = @ + amount]
    /\ UNCHANGED pastExpiry

\* A request that repeats a payment identifier returns the stored attempt or
\* a conflict and changes nothing, so an identifier is used here only once.
RunAttempt(a, m, vendor, amount) ==
    \/ DenyAttempt(a, m, vendor, amount)
    \/ DenyByTreasury(a, m, vendor, amount)
    \/ ReserveAttempt(a, m, vendor, amount)

-----------------------------------------------------------------------------
(***************************************************************************)
(* The workers' transactions.                                              *)
(***************************************************************************)
\* Mutant: a worker may take over an attempt that another one dispatches.
MarkDispatchingAgain(a) ==
    /\ attempts[a].status \in {"dispatch_queued", "dispatching"}
    /\ attempts' = [attempts EXCEPT ![a].status = "dispatching"]
    /\ UNCHANGED <<mandates, pastExpiry>>

MarkDispatching(a) ==
    /\ CanTransitionAttempt(attempts[a].status, "dispatching")
    /\ attempts' = [attempts EXCEPT ![a].status = "dispatching"]
    /\ UNCHANGED <<mandates, pastExpiry>>

PreflightPasses(a) ==
    /\ ~ pastExpiry[attempts[a].mandate]
    /\ mandates[attempts[a].mandate].status = "issued_reserved"
    /\ attempts[a].status = "dispatching"

\* Mutant: the amount is subtracted by the caller and once more here.
SubtractsTwice(a, left, spent) ==
    LET mandate == mandates[attempts[a].mandate] IN
    [mandates EXCEPT ![attempts[a].mandate] =
       [mandate EXCEPT !.reserved = left - attempts[a].amount,
                       !.consumed = mandate.consumed + spent,
                       !.status = NextMandateStatusAfterResolution(mandate.status)]]

\* What is left of the mandate of attempt a when its reservation has ended
\* and left is what remains reserved.
Settlement(a, left, spent) ==
    LET mandate == mandates[attempts[a].mandate] IN
    [mandates EXCEPT ![attempts[a].mandate] =
       [mandate EXCEPT !.reserved = left,
                       !.consumed = mandate.consumed + spent,
                       !.status = NextMandateStatusAfterResolution(mandate.status)]]

Reserved(a) == mandates[attempts[a].mandate].reserved

\* applyDispatchResult subtracts; release and reconciliation stop at zero.
Subtracted(a) == Reserved(a) - attempts[a].amount
SubtractedToZero(a) ==
    IF Reserved(a) >= attempts[a].amount THEN Subtracted(a) ELSE 0

\* The three outcomes of applyDispatchResult.  Each writes the settled amount
\* into its event; only a success charges it to the mandate.
ApplyDispatchSucceeded(a, reported) ==
    LET final == ResolveSettledAmount(attempts[a].amount, reported) IN
    /\ CanTransitionAttempt(attempts[a].status, "executed_charge_succeeded")
    /\ attempts' = [attempts EXCEPT ![a].status = "executed_charge_succeeded",
                                    ![a].settled = final]
    /\ mandates' = Settlement(a, Subtracted(a), final)
    /\ UNCHANGED pastExpiry

\* Mutant: the amount that the event names is charged for a failure as well.
ChargesFailures(a, reported) ==
    LET final == ResolveSettledAmount(attempts[a].amount, reported) IN
    /\ CanTransitionAttempt(attempts[a].status, "executed_charge_failed")
    /\ attempts' = [attempts EXCEPT ![a].status = "executed_charge_failed",
                                    ![a].settled = final]
    /\ mandates' = Settlement(a, Subtracted(a), final)
    /\ UNCHANGED pastExpiry

ApplyDispatchFailed(a, reported) ==
    /\ CanTransitionAttempt(attempts[a].status, "executed_charge_failed")
    /\ attempts' = [attempts EXCEPT
         ![a].status = "executed_charge_failed",
         ![a].settled = ResolveSettledAmount(attempts[a].amount, reported)]
    /\ mandates' = Settlement(a, Subtracted(a), 0)
    /\ UNCHANGED pastExpiry

\* The reservation stays.  An unknown result reports nothing, so its event
\* names the claimed amount.
ApplyDispatchUnknown(a, signed) ==
    /\ CanTransitionAttempt(attempts[a].status, "execution_unknown")
    /\ attempts' = [attempts EXCEPT ![a].status = "execution_unknown",
                                    ![a].settled =
                                      ResolveSettledAmount(attempts[a].amount, NoReport),
                                    ![a].artifacts = signed,
                                    ![a].window = "open"]
    /\ UNCHANGED <<mandates, pastExpiry>>

ReleaseAttempt(a) ==
    /\ CanTransitionAttempt(attempts[a].status, "cancelled_released")
    /\ attempts' = [attempts EXCEPT ![a].status = "cancelled_released"]
    /\ mandates' = Settlement(a, SubtractedToZero(a), 0)
    /\ UNCHANGED pastExpiry

\* What of the final amount an outcome charges to the mandate.
Charged(outcome, final) == IF outcome = "executed_charge_succeeded" THEN final ELSE 0

\* Mutant: the attempt is not checked again before a verdict is written.
ReconcilesBlindly(a, outcome, reported) ==
    LET final == ResolveSettledAmount(attempts[a].amount, reported) IN
    /\ attempts[a].status # "absent"
    /\ attempts' = [attempts EXCEPT ![a].status = outcome, ![a].settled = final]
    /\ mandates' = Settlement(a, SubtractedToZero(a), Charged(outcome, final))
    /\ UNCHANGED pastExpiry

ApplyReconciliation(a, outcome, reported) ==
    LET final == ResolveSettledAmount(attempts[a].amount, reported) IN
    /\ attempts[a].status = "execution_unknown"
    /\ attempts' = [attempts EXCEPT ![a].status = outcome, ![a].settled = final]
    /\ mandates' = Settlement(a, SubtractedToZero(a), Charged(outcome, final))
    /\ UNCHANGED pastExpiry

CorrelatedOutcomes == {"executed_charge_succeeded", "executed_charge_failed"}

-----------------------------------------------------------------------------
(***************************************************************************)
(* The clock.                                                              *)
(***************************************************************************)
MandateExpiryPasses(m) ==
    /\ mandates[m].status # "absent"
    /\ ~ pastExpiry[m]
    /\ pastExpiry' = [pastExpiry EXCEPT ![m] = TRUE]
    /\ UNCHANGED <<mandates, attempts>>

EscalationWindowPasses(a) ==
    /\ attempts[a].window = "open"
    /\ attempts' = [attempts EXCEPT ![a].window = "passed"]
    /\ UNCHANGED <<mandates, pastExpiry>>

-----------------------------------------------------------------------------
OperatorStep ==
    \/ \E m \in Mandates :
         \/ \E terms \in Terms : CreateMandate(m, terms)
         \/ RevokeMandate(m)
    \/ \E a \in Attempts, m \in Mandates, vendor \in Vendors, amount \in Amounts :
         RunAttempt(a, m, vendor, amount)

ClockStep ==
    \/ \E m \in Mandates : MandateExpiryPasses(m)
    \/ \E a \in Attempts : EscalationWindowPasses(a)

AttemptStep ==
    \E a \in Attempts :
      \/ MarkDispatching(a)
      \/ \E reported \in Reports : ApplyDispatchSucceeded(a, reported)
      \/ \E reported \in Reports : ApplyDispatchFailed(a, reported)
      \/ \E signed \in BOOLEAN : ApplyDispatchUnknown(a, signed)
      \/ ReleaseAttempt(a)
      \/ \E outcome \in CorrelatedOutcomes, reported \in Reports :
           ApplyReconciliation(a, outcome, reported)

LedgerNext == OperatorStep \/ ClockStep \/ AttemptStep

LedgerSpec == LedgerInit /\ [][LedgerNext]_ledgerVars

-----------------------------------------------------------------------------
(***************************************************************************)
(* Properties.                                                             *)
(***************************************************************************)
\* Every row of the store has the shape the schema gives it; in particular
\* neither counter of a mandate is ever negative, although a dispatch result
\* subtracts the claimed amount without a floor.
LedgerTypeOK ==
    /\ mandates \in [Mandates -> MandateRecords]
    /\ attempts \in [Attempts -> AttemptRecords]
    /\ pastExpiry \in [Mandates -> BOOLEAN]

LiveAttempt(a) == attempts[a].status \in LiveStatuses

\* The reserved counter of a mandate is backed by attempts: an attempt that is
\* queued, dispatching or unknown has its amount reserved, no two such
\* attempts share a mandate, and with no such attempt nothing is reserved.
\* Three separate counters and statuses, written by six transactions, agree.
ReservationBacked ==
    /\ \A a \in Attempts :
         LiveAttempt(a) => Reserved(a) = attempts[a].amount
    /\ \A a, b \in Attempts :
         LiveAttempt(a) /\ LiveAttempt(b) /\ attempts[a].mandate = attempts[b].mandate
           => a = b
    /\ \A m \in Mandates :
         mandates[m].reserved # 0
           => \E a \in Attempts : LiveAttempt(a) /\ attempts[a].mandate = m

\* Whatever the order of the transactions, a mandate never commits more than
\* its cap: what is consumed and what is reserved fit in it together
\* (budget_overflow of src/lib/infrastructure/store-integrity.ts).
BudgetNeverExceeded ==
    \A m \in Mandates :
      mandates[m].reserved + mandates[m].consumed <= mandates[m].cap

\* The status of a mandate says whether something is reserved: issued_reserved
\* exactly while an attempt is live, issued_active only when none is.  A
\* mandate left in issued_reserved without a live attempt could never be used
\* again, one in issued_active with a live attempt could be spent twice.
StatusMatchesReservation ==
    \A m \in Mandates :
      /\ mandates[m].status = "issued_reserved" => mandates[m].reserved > 0
      /\ mandates[m].status = "issued_active" => mandates[m].reserved = 0

\* What a mandate has consumed is the sum of the final amounts in the outcome
\* events of its successful attempts.  The counter that later payments are
\* measured against and the events that operators read are written by
\* different code, every event names an amount, also that of a failed or
\* unknown outcome, and an unknown attempt's is overwritten by its
\* reconciliation: only the successes may count, each once, with its last
\* amount.
ChargedTo(m) ==
    {a \in Attempts : attempts[a].mandate = m
                       /\ attempts[a].status = "executed_charge_succeeded"}

ConsumedIsAccounted ==
    \A m \in Mandates :
      mandates[m].consumed = MapThenSumSet(LAMBDA a : attempts[a].settled, ChargedTo(m))

\* A resolved attempt never changes again, and a revoked or expired mandate
\* is never reopened, not even by the resolution of an attempt that was in
\* flight when it was closed.
OutcomesAreFinal ==
    [][/\ \A a \in Attempts :
            attempts[a].status \in ResolvedStatuses
              => attempts'[a].status = attempts[a].status
       /\ \A m \in Mandates :
            mandates[m].status \in {"revoked", "expired"}
              => mandates'[m].status = mandates[m].status]_ledgerVars

(***************************************************************************)
(* The ledger implements PaymentLedger: seen without the clock and without *)
(* the progress of a dispatch, every transaction is one of the contract's  *)
(* actions or changes nothing.                                             *)
(***************************************************************************)
AuthorityOf(status) ==
    IF status = "absent" THEN "unopened"
    ELSE IF status \in {"revoking", "revoked", "expired"} THEN "closed"
    ELSE "open"

PaymentOf(status) ==
    IF status = "absent" THEN "none"
    ELSE IF status = "policy_denied" THEN "denied"
    ELSE IF status = "executed_charge_succeeded" THEN "settled"
    ELSE IF status \in {"executed_charge_failed", "cancelled_released"} THEN "returned"
    ELSE "held"

AuthorityBar == [m \in Mandates |-> AuthorityOf(mandates[m].status)]
LimitBar == [m \in Mandates |-> mandates[m].cap]
HeldBar == [m \in Mandates |-> mandates[m].reserved]
SpentBar == [m \in Mandates |-> mandates[m].consumed]
PaymentBar == [a \in Attempts |-> PaymentOf(attempts[a].status)]

Contract ==
    INSTANCE PaymentLedger WITH
      Authorities <- Mandates,
      Payments <- Attempts,
      Limits <- {terms.cap : terms \in Terms},
      authority <- AuthorityBar,
      limit <- LimitBar,
      held <- HeldBar,
      spent <- SpentBar,
      payment <- PaymentBar

\* Every transaction of the store is a step of the money contract or is
\* invisible to it, so that a payment holds budget once and its hold ends once.
ImplementsPaymentLedger == Contract!Spec
=============================================================================
