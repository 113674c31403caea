----------------------- MODULE ExecutionWorkerProofs -----------------------
(***************************************************************************)
(* Proofs about the ledger and the workers, for any number of mandates,    *)
(* attempts, vendors, amounts and workers and for any set of faults.       *)
(*                                                                         *)
(* 1. MandateLedger.  None of its invariants is inductive alone: that the  *)
(*    budget is kept when an attempt is settled needs that its amount is   *)
(*    what is reserved, which needs that no second attempt holds a part of *)
(*    the same mandate, which needs that the status of a mandate and its   *)
(*    counter agree.  LedgerInv is their conjunction with what rows that   *)
(*    do not exist look like.  The ledger implements PaymentLedger, and    *)
(*    what a mandate has consumed is the sum of what its attempts settled. *)
(*                                                                         *)
(* 2. ExecutionWorker implements the ledger, so that every invariant of    *)
(*    MandateLedger holds of it.  That needs to know what a worker holds:  *)
(*    one that is not idle holds an attempt and a task, and an answer it   *)
(*    is about to write is one that the ledger's action accepts            *)
(*    (WorkersHold).  The vendor of an attempt is called at most once, and *)
(*    only while the amount of the attempt is reserved (DispatchInv).      *)
(*                                                                         *)
(* 3. The books.  No unfinished attempt is left without a task: FitInv     *)
(*    says what the task in a worker's hands and the step it is at tell of *)
(*    its attempt, so that a worker ends a task only when the attempt      *)
(*    needs it no more.  While only crashes happen, the books say what the *)
(*    vendor did: TruthInv says what a worker knows of the vendor.  And    *)
(*    the workers keep the money contract of PaymentLedger.                *)
(***************************************************************************)
EXTENDS ExecutionWorker, CollectionFacts

-----------------------------------------------------------------------------
(***************************************************************************)
(* Part 1.  The ledger.                                                    *)
(***************************************************************************)
\* A row that does not exist reserves nothing, and no attempt is stored in a
\* status that runAttempt only passes through.
StoredRows ==
    /\ \A m \in Mandates :
         mandates[m].status = "absent"
           => mandates[m].reserved = 0 /\ mandates[m].consumed = 0
    /\ \A a \in Attempts :
         /\ attempts[a].status \notin {"created", "auth_validated", "reserved"}
         /\ LiveAttempt(a) => attempts[a].mandate \in Mandates /\ attempts[a].amount > 0

LedgerInv ==
    /\ LedgerTypeOK
    /\ StoredRows
    /\ ReservationBacked
    /\ BudgetNeverExceeded
    /\ StatusMatchesReservation

-----------------------------------------------------------------------------
\* A settled amount lies between nothing and what was claimed.
LEMMA SettledAmountBounded ==
    ASSUME NEW claimed \in Nat, NEW reported \in Int
    PROVE  ResolveSettledAmount(claimed, reported) \in 0 .. claimed
  BY DEF ResolveSettledAmount

LEMMA FinalAmount ==
    ASSUME NEW claimed \in Nat, NEW reported \in Reports
    PROVE  /\ ResolveSettledAmount(claimed, reported) \in 0 .. claimed
           /\ ResolveSettledAmount(claimed, reported) \in Nat
           /\ \A outcome : Charged(outcome, ResolveSettledAmount(claimed, reported))
                             \in 0 .. claimed
  <1>1. ResolveSettledAmount(claimed, reported) \in 0 .. claimed
    BY SettledAmountBounded, ReportsAssumption
  <1>2. QED
    BY <1>1 DEF Charged

\* The status a mandate takes when one of its attempts ends.
LEMMA ResolutionStatus ==
    ASSUME NEW status \in MandateStatuses \cup {"absent"}
    PROVE  /\ NextMandateStatusAfterResolution(status) \in MandateStatuses \cup {"absent"}
           /\ NextMandateStatusAfterResolution(status) \notin {"issued_reserved", "absent"}
  BY DEF NextMandateStatusAfterResolution, MandateStatuses

\* The statuses from which the workers' transactions may leave an attempt.
LEMMA LiveSources ==
    ASSUME NEW status, NEW target,
           CanTransitionAttempt(status, target)
    PROVE  /\ target = "dispatching" => status = "dispatch_queued"
           /\ target \in {"executed_charge_succeeded", "executed_charge_failed"}
                => status \in {"dispatching", "execution_unknown"}
           /\ target = "execution_unknown" => status = "dispatching"
           /\ target = "cancelled_released"
                => status \in {"reserved", "dispatch_queued", "dispatching"}
  BY DEF CanTransitionAttempt, AttemptTransitions

-----------------------------------------------------------------------------
LEMMA LedgerInvInit == LedgerInit => LedgerInv
  <1> SUFFICES ASSUME LedgerInit PROVE LedgerInv
    OBVIOUS
  <1>1. LedgerTypeOK
    BY DEF LedgerInit, LedgerTypeOK, NoMandate, NoAttempt, MandateRecords, AttemptRecords
  <1>2. \A a \in Attempts : attempts[a].status = "absent" /\ ~ LiveAttempt(a)
    BY DEF LedgerInit, NoAttempt, LiveAttempt, LiveStatuses
  <1>3. \A m \in Mandates : /\ mandates[m].status = "absent" /\ mandates[m].cap = 0
                            /\ mandates[m].reserved = 0 /\ mandates[m].consumed = 0
    BY DEF LedgerInit, NoMandate
  <1>4. QED
    BY <1>1, <1>2, <1>3
    DEF LedgerInv, StoredRows, ReservationBacked, BudgetNeverExceeded,
        StatusMatchesReservation

(***************************************************************************)
(* Every end of an attempt has the same shape: a live attempt leaves the   *)
(* live statuses, its mandate keeps nothing reserved and consumes at most  *)
(* the amount of the attempt.                                              *)
(***************************************************************************)
LEMMA EndOfAttempt ==
    ASSUME LedgerInv,
           NEW a \in Attempts, LiveAttempt(a),
           NEW row \in AttemptRecords,
           row.status \in ResolvedStatuses,
           NEW spent \in 0 .. attempts[a].amount,
           attempts' = [attempts EXCEPT ![a] = row],
           mandates' = Settlement(a, 0, spent),
           pastExpiry' = pastExpiry
    PROVE  LedgerInv'
  <1> DEFINE m == attempts[a].mandate
  <1>1. m \in Mandates /\ attempts[a].amount \in Nat
    BY DEF LedgerInv, LedgerTypeOK, StoredRows, AttemptRecords
  <1>2. /\ mandates \in [Mandates -> MandateRecords]
        /\ mandates[m] \in MandateRecords
        /\ mandates[m].status \in MandateStatuses \cup {"absent"}
        /\ mandates[m].cap \in Nat /\ mandates[m].consumed \in Nat
    BY <1>1 DEF LedgerInv, LedgerTypeOK, MandateRecords
  <1> DEFINE after == NextMandateStatusAfterResolution(mandates[m].status)
  <1>3. after \in MandateStatuses \cup {"absent"} /\ after \notin {"issued_reserved", "absent"}
    BY <1>2, ResolutionStatus
  <1>4. /\ mandates' \in [Mandates -> MandateRecords]
        /\ mandates'[m] = [mandates[m] EXCEPT !.reserved = 0, !.status = after,
                                              !.consumed = mandates[m].consumed + spent]
        /\ \A n \in Mandates \ {m} : mandates'[n] = mandates[n]
    <2>1. mandates[m].consumed + spent \in Nat
      BY <1>1, <1>2
    <2> DEFINE settled == [mandates[m] EXCEPT !.reserved = 0,
                                              !.consumed = mandates[m].consumed + spent,
                                              !.status = after]
    <2>2. mandates' = [mandates EXCEPT ![m] = settled]
      BY DEF Settlement
    <2>3. settled \in MandateRecords
      BY <1>2, <1>3, <2>1 DEF MandateRecords
    <2>4. settled = [mandates[m] EXCEPT !.reserved = 0, !.status = after,
                                        !.consumed = mandates[m].consumed + spent]
      BY <1>2 DEF MandateRecords
    <2> HIDE DEF settled
    <2>5. mandates' \in [Mandates -> MandateRecords]
      BY <1>1, <1>2, <2>2, <2>3
    <2>6. QED
      BY <1>1, <1>2, <2>2, <2>4, <2>5
  <1>5. /\ mandates'[m].reserved = 0 /\ mandates'[m].cap = mandates[m].cap
        /\ mandates'[m].consumed = mandates[m].consumed + spent
        /\ mandates'[m].status = after
    BY <1>2, <1>4 DEF MandateRecords
  <1>6. /\ attempts' \in [Attempts -> AttemptRecords]
        /\ attempts'[a] = row
        /\ \A b \in Attempts \ {a} : attempts'[b] = attempts[b]
    BY DEF LedgerInv, LedgerTypeOK
  <1>7. ~ LiveAttempt(a)' /\ row.status \notin {"created", "auth_validated", "reserved"}
    BY <1>6 DEF LiveAttempt, LiveStatuses, ResolvedStatuses
  <1>8. \A b \in Attempts : LiveAttempt(b)' => b # a /\ LiveAttempt(b) /\ attempts'[b] = attempts[b]
    BY <1>6, <1>7 DEF LiveAttempt
  <1>9. \A b \in Attempts : LiveAttempt(b)' => attempts[b].mandate # m
    BY <1>8 DEF LedgerInv, ReservationBacked
  <1>10. LedgerTypeOK'
    BY <1>4, <1>6 DEF LedgerInv, LedgerTypeOK
  <1>11. StoredRows'
    BY <1>3, <1>4, <1>5, <1>6, <1>7, <1>8 DEF LedgerInv, StoredRows
  <1>12. ReservationBacked'
    <2>1. \A b \in Attempts : LiveAttempt(b)' => Reserved(b)' = attempts'[b].amount
      <3> SUFFICES ASSUME NEW b \in Attempts, LiveAttempt(b)'
                   PROVE  Reserved(b)' = attempts'[b].amount
        OBVIOUS
      <3>1. attempts[b].mandate \in Mandates \ {m} /\ Reserved(b) = attempts[b].amount
        BY <1>8, <1>9 DEF LedgerInv, StoredRows, ReservationBacked
      <3>2. QED
        BY <3>1, <1>4, <1>8 DEF Reserved
    <2>2. \A b, c \in Attempts :
            LiveAttempt(b)' /\ LiveAttempt(c)' /\ attempts'[b].mandate = attempts'[c].mandate
              => b = c
      BY <1>8 DEF LedgerInv, ReservationBacked
    <2>3. \A n \in Mandates :
            mandates'[n].reserved # 0
              => \E b \in Attempts : LiveAttempt(b)' /\ attempts'[b].mandate = n
      <3> SUFFICES ASSUME NEW n \in Mandates, mandates'[n].reserved # 0
                   PROVE  \E b \in Attempts : LiveAttempt(b)' /\ attempts'[b].mandate = n
        OBVIOUS
      <3>1. n # m /\ mandates[n].reserved # 0
        BY <1>4, <1>5
      <3>2. PICK b \in Attempts : LiveAttempt(b) /\ attempts[b].mandate = n
        BY <3>1 DEF LedgerInv, ReservationBacked
      <3>3. QED
        BY <3>1, <3>2, <1>6 DEF LiveAttempt
    <2>4. QED
      BY <2>1, <2>2, <2>3 DEF ReservationBacked
  <1>13. BudgetNeverExceeded'
    <2>1. mandates[m].reserved = attempts[a].amount
      BY DEF LedgerInv, ReservationBacked, Reserved
    <2>2. mandates[m].reserved + mandates[m].consumed <= mandates[m].cap
      BY <1>1 DEF LedgerInv, BudgetNeverExceeded
    <2>3. mandates'[m].reserved + mandates'[m].consumed <= mandates'[m].cap
      BY <1>1, <1>2, <1>5, <2>1, <2>2
    <2>4. QED
      BY <1>4, <2>3 DEF LedgerInv, BudgetNeverExceeded
  <1>14. StatusMatchesReservation'
    BY <1>3, <1>4, <1>5 DEF LedgerInv, StatusMatchesReservation
  <1>15. QED
    BY <1>10, <1>11, <1>12, <1>13, <1>14 DEF LedgerInv

(***************************************************************************)
(* A step that leaves the money alone: no attempt enters or leaves the     *)
(* live statuses, no counter moves, and a mandate is at most closed.       *)
(***************************************************************************)
LEMMA MoneyUntouched ==
    ASSUME LedgerInv,
           LedgerTypeOK',
           \A b \in Attempts :
             /\ LiveAttempt(b)' <=> LiveAttempt(b)
             /\ LiveAttempt(b) => /\ attempts'[b].mandate = attempts[b].mandate
                                 /\ attempts'[b].amount = attempts[b].amount
             /\ attempts'[b].status \notin {"created", "auth_validated", "reserved"},
           \A n \in Mandates :
             /\ mandates'[n].reserved = mandates[n].reserved
             /\ mandates'[n].consumed = mandates[n].consumed
             /\ mandates'[n].cap = mandates[n].cap
             /\ \/ mandates'[n].status = mandates[n].status
                \/ mandates'[n].status \in {"revoked", "expired"}
    PROVE  LedgerInv'
  <1>1. \A b \in Attempts : LiveAttempt(b) => attempts[b].mandate \in Mandates
    BY DEF LedgerInv, StoredRows
  <1>2. StoredRows'
    BY <1>1 DEF LedgerInv, StoredRows
  <1>3. ReservationBacked'
    BY <1>1 DEF LedgerInv, ReservationBacked, Reserved
  <1>4. BudgetNeverExceeded'
    BY DEF LedgerInv, BudgetNeverExceeded
  <1>5. StatusMatchesReservation'
    BY DEF LedgerInv, StatusMatchesReservation
  <1>6. QED
    BY <1>2, <1>3, <1>4, <1>5 DEF LedgerInv

-----------------------------------------------------------------------------
(***************************************************************************)
(* One lemma per kind of step.                                             *)
(***************************************************************************)
LEMMA CreateMandateInv ==
    ASSUME LedgerInv, NEW m \in Mandates, NEW terms \in Terms, CreateMandate(m, terms)
    PROVE  LedgerInv'
  <1> DEFINE row == [status |-> "issued_active", cap |-> terms.cap,
                     approved |-> terms.approved, receipt |-> terms.receipt,
                     reserved |-> 0, consumed |-> 0]
  <1>1. row \in MandateRecords
    BY TermsAssumption DEF MandateRecords, MandateStatuses
  <1>2. /\ mandates' = [mandates EXCEPT ![m] = row]
        /\ attempts' = attempts /\ pastExpiry' = pastExpiry
        /\ mandates[m].status = "absent"
    BY DEF CreateMandate
  <1>3. row.status = "issued_active" /\ row.reserved = 0 /\ row.consumed = 0 /\ row.cap \in Nat
    BY <1>1 DEF MandateRecords
  <1> HIDE DEF row
  <1>4. LedgerTypeOK'
    BY <1>1, <1>2 DEF LedgerInv, LedgerTypeOK
  <1>5. mandates'[m] = row /\ \A n \in Mandates \ {m} : mandates'[n] = mandates[n]
    BY <1>2 DEF LedgerInv, LedgerTypeOK
  <1>6. mandates[m].reserved = 0
    BY <1>2 DEF LedgerInv, StoredRows
  <1>7. \A b \in Attempts : LiveAttempt(b)' <=> LiveAttempt(b)
    BY <1>2 DEF LiveAttempt
  <1>8. \A b \in Attempts : LiveAttempt(b) => attempts[b].mandate \in Mandates \ {m}
    BY <1>6 DEF LedgerInv, LedgerTypeOK, AttemptRecords, StoredRows, ReservationBacked, Reserved
  <1>9. StoredRows'
    BY <1>2, <1>3, <1>5, <1>7 DEF LedgerInv, StoredRows
  <1>10. ReservationBacked'
    BY <1>2, <1>3, <1>5, <1>7, <1>8 DEF LedgerInv, ReservationBacked, Reserved
  <1>11. BudgetNeverExceeded' /\ StatusMatchesReservation'
    BY <1>3, <1>5 DEF LedgerInv, BudgetNeverExceeded, StatusMatchesReservation
  <1>12. QED
    BY <1>4, <1>9, <1>10, <1>11 DEF LedgerInv

LEMMA RevokeMandateInv ==
    ASSUME LedgerInv, NEW m \in Mandates, RevokeMandate(m)
    PROVE  LedgerInv'
  <1>1. LedgerTypeOK'
    BY DEF RevokeMandate, LedgerInv, LedgerTypeOK, MandateRecords, MandateStatuses
  <1>2. QED
    BY <1>1, MoneyUntouched
    DEF RevokeMandate, LedgerInv, LedgerTypeOK, MandateRecords, StoredRows, LiveAttempt

LEMMA DenialInv ==
    ASSUME LedgerInv, NEW a \in Attempts, NEW m \in Mandates,
           NEW seller \in Vendors, NEW amount \in Amounts,
           DenyAttempt(a, m, seller, amount) \/ DenyByTreasury(a, m, seller, amount)
    PROVE  LedgerInv'
  <1> DEFINE row == Materialized(m, amount, "policy_denied")
  <1>1. row \in AttemptRecords /\ row.status = "policy_denied"
    BY AmountAssumption DEF Materialized, NoAttempt, AttemptRecords, AttemptStatuses
  <1>2. /\ attempts[a].status = "absent"
        /\ attempts' = [attempts EXCEPT ![a] = row]
        /\ pastExpiry' = pastExpiry
        /\ \/ mandates' = mandates
           \/ mandates' = [mandates EXCEPT ![m].status = "expired"]
    BY DEF DenyAttempt, DenyByTreasury
  <1> HIDE DEF row
  <1>3. LedgerTypeOK'
    BY <1>1, <1>2 DEF LedgerInv, LedgerTypeOK, MandateRecords, MandateStatuses
  <1>4. \A b \in Attempts :
          /\ LiveAttempt(b)' <=> LiveAttempt(b)
          /\ LiveAttempt(b) => attempts'[b] = attempts[b]
          /\ attempts'[b].status \notin {"created", "auth_validated", "reserved"}
    BY <1>1, <1>2 DEF LedgerInv, LedgerTypeOK, StoredRows, LiveAttempt, LiveStatuses
  <1>5. \A n \in Mandates :
          /\ mandates'[n].reserved = mandates[n].reserved
          /\ mandates'[n].consumed = mandates[n].consumed
          /\ mandates'[n].cap = mandates[n].cap
          /\ \/ mandates'[n].status = mandates[n].status
             \/ mandates'[n].status \in {"revoked", "expired"}
    BY <1>2 DEF LedgerInv, LedgerTypeOK, MandateRecords
  <1>6. QED
    BY <1>3, <1>4, <1>5, MoneyUntouched

LEMMA ReserveAttemptInv ==
    ASSUME LedgerInv, NEW a \in Attempts, NEW m \in Mandates,
           NEW seller \in Vendors, NEW amount \in Amounts,
           ReserveAttempt(a, m, seller, amount)
    PROVE  LedgerInv'
  <1> DEFINE row == Materialized(m, amount, "dispatch_queued")
  <1>1. /\ row \in AttemptRecords /\ row.status = "dispatch_queued"
        /\ row.mandate = m /\ row.amount = amount
        /\ amount \in Nat /\ amount > 0
    <2>1. amount \in Nat /\ amount > 0
      BY AmountAssumption
    <2>2. row \in AttemptRecords /\ row.status = "dispatch_queued"
      BY <2>1 DEF Materialized, NoAttempt, AttemptRecords, AttemptStatuses
    <2>3. row.mandate = m /\ row.amount = amount
      BY DEF Materialized, NoAttempt
    <2>4. QED
      BY <2>1, <2>2, <2>3
  <1>2. /\ attempts[a].status = "absent"
        /\ attempts' = [attempts EXCEPT ![a] = row]
        /\ mandates' = [mandates EXCEPT ![m].status = "issued_reserved",
                                        ![m].reserved = @ + amount]
        /\ pastExpiry' = pastExpiry
    BY DEF ReserveAttempt
  <1>3. /\ mandates[m].reserved = 0
        /\ mandates[m].cap - mandates[m].consumed - mandates[m].reserved >= amount
    BY DEF ReserveAttempt, Approves, PolicyApproves, MandateCanReserve, AvailableBudget
  <1> HIDE DEF row
  <1>4. /\ mandates[m] \in MandateRecords
        /\ mandates[m].cap \in Nat /\ mandates[m].consumed \in Nat
    BY DEF LedgerInv, LedgerTypeOK, MandateRecords
  <1>5. /\ mandates'[m] = [mandates[m] EXCEPT !.status = "issued_reserved", !.reserved = amount]
        /\ \A n \in Mandates \ {m} : mandates'[n] = mandates[n]
        /\ mandates' \in [Mandates -> MandateRecords]
    BY <1>1, <1>2, <1>3, <1>4 DEF LedgerInv, LedgerTypeOK, MandateRecords, MandateStatuses
  <1>6. /\ mandates'[m].reserved = amount /\ mandates'[m].status = "issued_reserved"
        /\ mandates'[m].cap = mandates[m].cap /\ mandates'[m].consumed = mandates[m].consumed
    BY <1>4, <1>5 DEF MandateRecords
  <1>7. LedgerTypeOK'
    BY <1>1, <1>2, <1>5 DEF LedgerInv, LedgerTypeOK
  <1>8. attempts'[a] = row /\ \A b \in Attempts \ {a} : attempts'[b] = attempts[b]
    BY <1>2 DEF LedgerInv, LedgerTypeOK
  <1>9. ~ LiveAttempt(a) /\ LiveAttempt(a)'
    BY <1>1, <1>2, <1>8 DEF LiveAttempt, LiveStatuses
  <1>10. \A b \in Attempts \ {a} :
           /\ LiveAttempt(b)' <=> LiveAttempt(b)
           /\ LiveAttempt(b) => attempts[b].mandate \in Mandates \ {m}
    <2> SUFFICES ASSUME NEW b \in Attempts \ {a}
                 PROVE  /\ LiveAttempt(b)' <=> LiveAttempt(b)
                        /\ LiveAttempt(b) => attempts[b].mandate \in Mandates \ {m}
      OBVIOUS
    <2>1. LiveAttempt(b)' <=> LiveAttempt(b)
      BY <1>8 DEF LiveAttempt
    <2>2. LiveAttempt(b) => attempts[b].mandate \in Mandates /\ Reserved(b) > 0
      BY DEF LedgerInv, StoredRows, ReservationBacked
    <2>3. QED
      BY <2>1, <2>2, <1>3 DEF Reserved
  <1>11. StoredRows'
    <2>1. \A n \in Mandates :
            mandates'[n].status = "absent"
              => mandates'[n].reserved = 0 /\ mandates'[n].consumed = 0
      BY <1>5, <1>6 DEF LedgerInv, StoredRows
    <2>2. \A b \in Attempts :
            /\ attempts'[b].status \notin {"created", "auth_validated", "reserved"}
            /\ LiveAttempt(b)' => attempts'[b].mandate \in Mandates /\ attempts'[b].amount > 0
      BY <1>1, <1>8, <1>10 DEF LedgerInv, StoredRows
    <2>3. QED
      BY <2>1, <2>2 DEF StoredRows
  <1>12. ReservationBacked'
    <2>1. \A b \in Attempts : LiveAttempt(b)' => Reserved(b)' = attempts'[b].amount
      <3>1. Reserved(a)' = attempts'[a].amount
        BY <1>1, <1>6, <1>8 DEF Reserved
      <3>2. ASSUME NEW b \in Attempts \ {a}, LiveAttempt(b)'
            PROVE  Reserved(b)' = attempts'[b].amount
        BY <3>2, <1>5, <1>8, <1>10 DEF LedgerInv, ReservationBacked, Reserved
      <3>3. QED
        BY <3>1, <3>2
    <2>2. \A b, c \in Attempts :
            LiveAttempt(b)' /\ LiveAttempt(c)' /\ attempts'[b].mandate = attempts'[c].mandate
              => b = c
      BY <1>1, <1>8, <1>10 DEF LedgerInv, ReservationBacked
    <2>3. \A n \in Mandates :
            mandates'[n].reserved # 0
              => \E b \in Attempts : LiveAttempt(b)' /\ attempts'[b].mandate = n
      BY <1>1, <1>5, <1>8, <1>9, <1>10 DEF LedgerInv, ReservationBacked
    <2>4. QED
      BY <2>1, <2>2, <2>3 DEF ReservationBacked
  <1>13. BudgetNeverExceeded'
    <2>1. mandates'[m].reserved + mandates'[m].consumed <= mandates'[m].cap
      BY <1>1, <1>3, <1>4, <1>6
    <2>2. QED
      BY <1>5, <2>1 DEF LedgerInv, BudgetNeverExceeded
  <1>14. StatusMatchesReservation'
    <2> SUFFICES ASSUME NEW n \in Mandates
                 PROVE  /\ mandates'[n].status = "issued_reserved" => mandates'[n].reserved > 0
                        /\ mandates'[n].status = "issued_active" => mandates'[n].reserved = 0
      BY DEF StatusMatchesReservation
    <2>1. CASE n = m
      BY <1>1, <1>6, <2>1
    <2>2. CASE n # m
      BY <1>5, <2>2 DEF LedgerInv, StatusMatchesReservation
    <2>3. QED
      BY <2>1, <2>2
  <1>15. QED
    BY <1>7, <1>11, <1>12, <1>13, <1>14 DEF LedgerInv

\* MarkDispatching, ApplyDispatchUnknown and the clock move an attempt within
\* the live statuses or do not move it.
LEMMA ProgressInv ==
    ASSUME LedgerInv, NEW a \in Attempts, NEW row \in AttemptRecords,
           row.mandate = attempts[a].mandate, row.amount = attempts[a].amount,
           \/ row.status = attempts[a].status
           \/ row.status \in LiveStatuses /\ attempts[a].status \in LiveStatuses,
           attempts' = [attempts EXCEPT ![a] = row],
           mandates' = mandates, pastExpiry' = pastExpiry
    PROVE  LedgerInv'
  <1>1. LedgerTypeOK'
    BY DEF LedgerInv, LedgerTypeOK
  <1>2. attempts'[a] = row /\ \A b \in Attempts \ {a} : attempts'[b] = attempts[b]
    BY DEF LedgerInv, LedgerTypeOK
  <1>3. \A b \in Attempts :
          /\ LiveAttempt(b)' <=> LiveAttempt(b)
          /\ attempts'[b].mandate = attempts[b].mandate
          /\ attempts'[b].amount = attempts[b].amount
          /\ attempts'[b].status \notin {"created", "auth_validated", "reserved"}
    BY <1>2 DEF LedgerInv, StoredRows, LiveAttempt, LiveStatuses
  <1>4. QED
    BY <1>1, <1>3, MoneyUntouched

\* What a transaction that ends an attempt finds.
LEMMA LiveAttemptHolds ==
    ASSUME LedgerInv, NEW a \in Attempts, LiveAttempt(a)
    PROVE  /\ attempts[a].amount \in Nat /\ attempts[a] \in AttemptRecords
           /\ Subtracted(a) = 0 /\ SubtractedToZero(a) = 0
  <1>1. attempts[a] \in AttemptRecords /\ attempts[a].amount \in Nat
    BY DEF LedgerInv, LedgerTypeOK, AttemptRecords
  <1>2. Reserved(a) = attempts[a].amount
    BY DEF LedgerInv, ReservationBacked
  <1>3. QED
    BY <1>1, <1>2 DEF Subtracted, SubtractedToZero

LEMMA AttemptStepInv ==
    ASSUME LedgerInv, AttemptStep
    PROVE  LedgerInv'
  <1> PICK a \in Attempts :
        \/ MarkDispatching(a)
        \/ \E reported \in Reports : ApplyDispatchSucceeded(a, reported)
        \/ \E reported \in Reports : ApplyDispatchFailed(a, reported)
        \/ \E signed \in BOOLEAN : ApplyDispatchUnknown(a, signed)
        \/ ReleaseAttempt(a)
        \/ \E outcome \in CorrelatedOutcomes, reported \in Reports :
             ApplyReconciliation(a, outcome, reported)
    BY DEF AttemptStep
  <1>1. attempts[a] \in AttemptRecords /\ attempts \in [Attempts -> AttemptRecords]
    BY DEF LedgerInv, LedgerTypeOK
  <1>2. CASE MarkDispatching(a)
    <2> DEFINE row == [attempts[a] EXCEPT !.status = "dispatching"]
    <2>1. attempts[a].status = "dispatch_queued"
      BY <1>2, LiveSources DEF MarkDispatching
    <2>2. row \in AttemptRecords
      BY <1>1 DEF AttemptRecords, AttemptStatuses
    <2>3. /\ row.mandate = attempts[a].mandate /\ row.amount = attempts[a].amount
          /\ row.status = "dispatching"
      BY <1>1 DEF AttemptRecords
    <2>4. attempts' = [attempts EXCEPT ![a] = row] /\ UNCHANGED <<mandates, pastExpiry>>
      BY <1>1, <1>2 DEF MarkDispatching
    <2> HIDE DEF row
    <2>5. QED
      BY <2>1, <2>2, <2>3, <2>4, ProgressInv DEF LiveStatuses
  <1>3. ASSUME NEW reported \in Reports, ApplyDispatchSucceeded(a, reported)
        PROVE  LedgerInv'
    <2> DEFINE final == ResolveSettledAmount(attempts[a].amount, reported)
               row == [attempts[a] EXCEPT !.status = "executed_charge_succeeded",
                                          !.settled = final]
    <2>1. LiveAttempt(a)
      BY <1>3, LiveSources DEF ApplyDispatchSucceeded, LiveAttempt, LiveStatuses
    <2>2. attempts[a].amount \in Nat /\ Subtracted(a) = 0
      BY <2>1, LiveAttemptHolds
    <2>3. final \in 0 .. attempts[a].amount
      BY <2>2, SettledAmountBounded, ReportsAssumption
    <2>4. /\ attempts' = [attempts EXCEPT ![a] = row]
          /\ mandates' = Settlement(a, 0, final)
          /\ pastExpiry' = pastExpiry
      BY <1>1, <1>3, <2>2 DEF ApplyDispatchSucceeded
    <2> HIDE DEF final
    <2>5. row \in AttemptRecords /\ row.status \in ResolvedStatuses
      <3>1. final \in Nat
        BY <2>2, <2>3
      <3>2. QED
        BY <1>1, <3>1 DEF AttemptRecords, AttemptStatuses, ResolvedStatuses
    <2> HIDE DEF row
    <2>6. QED
      BY <2>1, <2>3, <2>4, <2>5, EndOfAttempt
  <1>4. ASSUME NEW reported \in Reports, ApplyDispatchFailed(a, reported)
        PROVE  LedgerInv'
    <2> DEFINE final == ResolveSettledAmount(attempts[a].amount, reported)
               row == [attempts[a] EXCEPT !.status = "executed_charge_failed",
                                          !.settled = final]
    <2>1. LiveAttempt(a)
      BY <1>4, LiveSources DEF ApplyDispatchFailed, LiveAttempt, LiveStatuses
    <2>2. attempts[a].amount \in Nat /\ Subtracted(a) = 0
      BY <2>1, LiveAttemptHolds
    <2>7. final \in Nat
      BY <2>2, FinalAmount
    <2>4. /\ attempts' = [attempts EXCEPT ![a] = row]
          /\ mandates' = Settlement(a, 0, 0)
          /\ pastExpiry' = pastExpiry
      BY <1>1, <1>4, <2>2 DEF ApplyDispatchFailed
    <2> HIDE DEF final
    <2>3. row \in AttemptRecords /\ row.status \in ResolvedStatuses
      BY <1>1, <2>7 DEF AttemptRecords, AttemptStatuses, ResolvedStatuses
    <2> HIDE DEF row
    <2>5. 0 \in 0 .. attempts[a].amount
      BY <2>2
    <2>6. QED
      BY <2>1, <2>3, <2>4, <2>5, EndOfAttempt
  <1>5. ASSUME NEW signed \in BOOLEAN, ApplyDispatchUnknown(a, signed)
        PROVE  LedgerInv'
    <2> DEFINE final == ResolveSettledAmount(attempts[a].amount, NoReport)
               row == [attempts[a] EXCEPT !.status = "execution_unknown", !.settled = final,
                                          !.artifacts = signed, !.window = "open"]
    <2>1. attempts[a].status = "dispatching"
      BY <1>5, LiveSources DEF ApplyDispatchUnknown
    <2>6. final \in Nat
      BY <1>1, FinalAmount, ReportsAssumption DEF AttemptRecords
    <2>4. attempts' = [attempts EXCEPT ![a] = row] /\ UNCHANGED <<mandates, pastExpiry>>
      BY <1>1, <1>5 DEF ApplyDispatchUnknown
    <2> HIDE DEF final
    <2>2. row \in AttemptRecords
      BY <1>1, <2>6 DEF AttemptRecords, AttemptStatuses
    <2>3. /\ row.mandate = attempts[a].mandate /\ row.amount = attempts[a].amount
          /\ row.status = "execution_unknown"
      BY <1>1 DEF AttemptRecords
    <2> HIDE DEF row
    <2>5. QED
      BY <2>1, <2>2, <2>3, <2>4, ProgressInv DEF LiveStatuses
  <1>6. CASE ReleaseAttempt(a)
    <2> DEFINE row == [attempts[a] EXCEPT !.status = "cancelled_released"]
    <2>1. LiveAttempt(a)
      BY <1>6, LiveSources DEF ReleaseAttempt, LiveAttempt, LiveStatuses, LedgerInv, StoredRows
    <2>2. attempts[a].amount \in Nat /\ SubtractedToZero(a) = 0
      BY <2>1, LiveAttemptHolds
    <2>3. row \in AttemptRecords /\ row.status \in ResolvedStatuses
      BY <1>1 DEF AttemptRecords, AttemptStatuses, ResolvedStatuses
    <2>4. /\ attempts' = [attempts EXCEPT ![a] = row]
          /\ mandates' = Settlement(a, 0, 0)
          /\ pastExpiry' = pastExpiry
      BY <1>1, <1>6, <2>2 DEF ReleaseAttempt
    <2> HIDE DEF row
    <2>5. 0 \in 0 .. attempts[a].amount
      BY <2>2
    <2>6. QED
      BY <2>1, <2>3, <2>4, <2>5, EndOfAttempt
  <1>7. ASSUME NEW outcome \in CorrelatedOutcomes, NEW reported \in Reports,
               ApplyReconciliation(a, outcome, reported)
        PROVE  LedgerInv'
    <2> DEFINE final == ResolveSettledAmount(attempts[a].amount, reported)
               charge == Charged(outcome, final)
               row == [attempts[a] EXCEPT !.status = outcome, !.settled = final]
    <2>1. LiveAttempt(a)
      BY <1>7 DEF ApplyReconciliation, LiveAttempt, LiveStatuses
    <2>2. attempts[a].amount \in Nat /\ SubtractedToZero(a) = 0
      BY <2>1, LiveAttemptHolds
    <2>3. final \in Nat /\ charge \in 0 .. attempts[a].amount
      BY <2>2, FinalAmount
    <2>4. /\ attempts' = [attempts EXCEPT ![a] = row]
          /\ mandates' = Settlement(a, 0, charge)
          /\ pastExpiry' = pastExpiry
      BY <1>1, <1>7, <2>2 DEF ApplyReconciliation
    <2> HIDE DEF final, charge
    <2>5. row \in AttemptRecords /\ row.status \in ResolvedStatuses
      BY <1>1, <2>3 DEF AttemptRecords, AttemptStatuses, ResolvedStatuses, CorrelatedOutcomes
    <2> HIDE DEF row
    <2>6. QED
      BY <2>1, <2>3, <2>4, <2>5, EndOfAttempt
  <1>8. QED
    BY <1>2, <1>3, <1>4, <1>5, <1>6, <1>7

LEMMA ClockStepInv ==
    ASSUME LedgerInv, ClockStep
    PROVE  LedgerInv'
  <1>1. ASSUME NEW m \in Mandates, MandateExpiryPasses(m)
        PROVE  LedgerInv'
    <2>1. LedgerTypeOK' /\ mandates' = mandates /\ attempts' = attempts
      BY <1>1 DEF MandateExpiryPasses, LedgerInv, LedgerTypeOK
    <2>2. QED
      BY <2>1, MoneyUntouched DEF LedgerInv, StoredRows, LiveAttempt
  <1>2. ASSUME NEW a \in Attempts, EscalationWindowPasses(a)
        PROVE  LedgerInv'
    <2> DEFINE row == [attempts[a] EXCEPT !.window = "passed"]
    <2>1. attempts[a] \in AttemptRecords
      BY DEF LedgerInv, LedgerTypeOK
    <2>2. row \in AttemptRecords
      BY <2>1 DEF AttemptRecords
    <2>3. /\ row.mandate = attempts[a].mandate /\ row.amount = attempts[a].amount
          /\ row.status = attempts[a].status
      BY <2>1 DEF AttemptRecords
    <2>4. attempts' = [attempts EXCEPT ![a] = row] /\ mandates' = mandates /\ pastExpiry' = pastExpiry
      BY <1>2, <2>1 DEF EscalationWindowPasses, LedgerInv, LedgerTypeOK
    <2> HIDE DEF row
    <2>5. QED
      BY <2>2, <2>3, <2>4, ProgressInv
  <1>3. QED
    BY <1>1, <1>2 DEF ClockStep

LEMMA LedgerInvStep == LedgerInv /\ [LedgerNext]_ledgerVars => LedgerInv'
  <1> SUFFICES ASSUME LedgerInv, [LedgerNext]_ledgerVars PROVE LedgerInv'
    OBVIOUS
  <1>1. CASE OperatorStep
    <2>1. ASSUME NEW m \in Mandates, NEW terms \in Terms, CreateMandate(m, terms)
          PROVE  LedgerInv'
      BY <2>1, CreateMandateInv
    <2>2. ASSUME NEW m \in Mandates, RevokeMandate(m) PROVE LedgerInv'
      BY <2>2, RevokeMandateInv
    <2>3. ASSUME NEW a \in Attempts, NEW m \in Mandates, NEW seller \in Vendors,
                 NEW amount \in Amounts, RunAttempt(a, m, seller, amount)
          PROVE  LedgerInv'
      BY <2>3, DenialInv, ReserveAttemptInv DEF RunAttempt
    <2>4. QED
      BY <1>1, <2>1, <2>2, <2>3 DEF OperatorStep
  <1>2. CASE ClockStep
    BY <1>2, ClockStepInv
  <1>3. CASE AttemptStep
    BY <1>3, AttemptStepInv
  <1>4. CASE UNCHANGED ledgerVars
    BY <1>4
    DEF ledgerVars, LedgerInv, LedgerTypeOK, StoredRows, ReservationBacked,
        BudgetNeverExceeded, StatusMatchesReservation, LiveAttempt, Reserved
  <1>5. QED
    BY <1>1, <1>2, <1>3, <1>4 DEF LedgerNext

-----------------------------------------------------------------------------
(***************************************************************************)
(* The theorems.                                                           *)
(***************************************************************************)
\* The inductive invariant holds in every state of every behaviour.
THEOREM LedgerInvariant == LedgerSpec => []LedgerInv
  <1>1. QED
    BY LedgerInvInit, LedgerInvStep, PTL DEF LedgerSpec

\* Every row keeps the shape its schema gives it, whatever the transactions do:
\* no counter of a mandate becomes negative, although applyDispatchResult
\* subtracts the claimed amount without a floor.
THEOREM LedgerTypeCorrect == LedgerSpec => []LedgerTypeOK
  <1>1. LedgerInv => LedgerTypeOK
    BY DEF LedgerInv
  <1>2. QED
    BY <1>1, LedgerInvariant, PTL

\* No order of reservations, settlements, releases, reconciliations and
\* revocations commits more of a mandate than its cap.
THEOREM BudgetSafety == LedgerSpec => []BudgetNeverExceeded
  <1>1. LedgerInv => BudgetNeverExceeded
    BY DEF LedgerInv
  <1>2. QED
    BY <1>1, LedgerInvariant, PTL

\* What a mandate has reserved is always the amount of its one live attempt,
\* so the transaction that ends the attempt gives back exactly what was taken.
THEOREM ReservationsAreBacked == LedgerSpec => []ReservationBacked
  <1>1. LedgerInv => ReservationBacked
    BY DEF LedgerInv
  <1>2. QED
    BY <1>1, LedgerInvariant, PTL

\* A mandate is issued_reserved only while something is reserved, and ready
\* for its next attempt only when nothing is.
THEOREM StatusFollowsReservation == LedgerSpec => []StatusMatchesReservation
  <1>1. LedgerInv => StatusMatchesReservation
    BY DEF LedgerInv
  <1>2. QED
    BY <1>1, LedgerInvariant, PTL


-----------------------------------------------------------------------------
\* A transaction leaves a closed mandate closed.
LEMMA ClosedMandatesStay ==
    ASSUME LedgerInv, LedgerNext, NEW m \in Mandates,
           mandates[m].status \in {"revoked", "expired"}
    PROVE  mandates'[m].status = mandates[m].status
  <1>1. mandates \in [Mandates -> MandateRecords]
    BY DEF LedgerInv, LedgerTypeOK
  <1>2. CASE mandates' = mandates
    BY <1>2
  <1>3. ASSUME NEW n \in Mandates, NEW r,
               mandates' = [mandates EXCEPT ![n] = r],
               n = m => r.status = mandates[m].status
        PROVE  mandates'[m].status = mandates[m].status
    BY <1>1, <1>3
  <1>4. ASSUME NEW a \in Attempts, NEW left, NEW spent,
               mandates' = Settlement(a, left, spent), attempts[a].mandate \in Mandates
        PROVE  mandates'[m].status = mandates[m].status
    <2> DEFINE n == attempts[a].mandate
               r == [mandates[n] EXCEPT !.reserved = left,
                       !.consumed = mandates[n].consumed + spent,
                       !.status = NextMandateStatusAfterResolution(mandates[n].status)]
    <2>1. mandates' = [mandates EXCEPT ![n] = r]
      BY <1>4 DEF Settlement
    <2>2. r.status = NextMandateStatusAfterResolution(mandates[n].status)
      BY <1>1, <1>4 DEF MandateRecords
    <2> HIDE DEF r
    <2>3. n = m => r.status = mandates[m].status
      BY <2>2 DEF NextMandateStatusAfterResolution
    <2>4. QED
      BY <1>3, <1>4, <2>1, <2>3
  <1>5. CASE OperatorStep
    <2>1. ASSUME NEW n \in Mandates, NEW terms \in Terms, CreateMandate(n, terms)
          PROVE  mandates'[m].status = mandates[m].status
      <3>1. n # m
        BY <2>1 DEF CreateMandate
      <3>2. QED
        BY <1>3, <2>1, <3>1 DEF CreateMandate
    <2>2. ASSUME NEW n \in Mandates, RevokeMandate(n)
          PROVE  mandates'[m].status = mandates[m].status
      <3>1. n # m
        BY <2>2 DEF RevokeMandate, CanTransitionMandate, MandateTransitions
      <3>2. QED
        BY <1>1, <2>2, <3>1 DEF RevokeMandate
    <2>3. ASSUME NEW a \in Attempts, NEW n \in Mandates, NEW v \in Vendors, NEW amount \in Amounts,
                 RunAttempt(a, n, v, amount)
          PROVE  mandates'[m].status = mandates[m].status
      <3>1. CASE n = m
        <4>1. mandates[m].status # "issued_active" /\ ~ Approves(m, v, amount)
          BY DEF Approves, PolicyApproves
        <4>2. QED
          BY <1>2, <2>3, <3>1, <4>1 DEF RunAttempt, DenyAttempt, DenyByTreasury, ReserveAttempt
      <3>2. CASE n # m
        BY <1>1, <2>3, <3>2 DEF RunAttempt, DenyAttempt, DenyByTreasury, ReserveAttempt
      <3>3. QED
        BY <3>1, <3>2
    <2>4. QED
      BY <1>5, <2>1, <2>2, <2>3 DEF OperatorStep
  <1>6. CASE ClockStep
    BY <1>2, <1>6 DEF ClockStep, MandateExpiryPasses, EscalationWindowPasses
  <1>7. CASE AttemptStep
    <2>1. ASSUME NEW a \in Attempts, NEW left, NEW spent,
                 mandates' = Settlement(a, left, spent),
                 attempts[a].status \in LiveStatuses \cup {"reserved"}
          PROVE  mandates'[m].status = mandates[m].status
      <3>1. attempts[a].mandate \in Mandates
        BY <2>1 DEF LedgerInv, StoredRows, LiveAttempt
      <3>2. QED
        BY <1>4, <2>1, <3>1
    <2>2. ASSUME NEW a \in Attempts, NEW reported \in Reports,
                 ApplyDispatchSucceeded(a, reported)
          PROVE  mandates'[m].status = mandates[m].status
      BY <2>1, <2>2, LiveSources DEF ApplyDispatchSucceeded, LiveStatuses
    <2>3. ASSUME NEW a \in Attempts, NEW reported \in Reports, ApplyDispatchFailed(a, reported)
          PROVE  mandates'[m].status = mandates[m].status
      BY <2>1, <2>3, LiveSources DEF ApplyDispatchFailed, LiveStatuses
    <2>4. ASSUME NEW a \in Attempts, ReleaseAttempt(a)
          PROVE  mandates'[m].status = mandates[m].status
      BY <2>1, <2>4, LiveSources DEF ReleaseAttempt, LiveStatuses
    <2>5. ASSUME NEW a \in Attempts, NEW outcome \in CorrelatedOutcomes, NEW reported \in Reports,
                 ApplyReconciliation(a, outcome, reported)
          PROVE  mandates'[m].status = mandates[m].status
      BY <2>1, <2>5 DEF ApplyReconciliation, LiveStatuses
    <2>6. QED
      BY <1>2, <1>7, <2>2, <2>3, <2>4, <2>5
      DEF AttemptStep, MarkDispatching, ApplyDispatchUnknown
  <1>8. QED
    BY <1>5, <1>6, <1>7 DEF LedgerNext

LEMMA ResolvedAttemptsStay ==
    ASSUME LedgerInv, LedgerNext, NEW a \in Attempts,
           attempts[a].status \in ResolvedStatuses
    PROVE  attempts'[a].status = attempts[a].status
  <1>1. attempts \in [Attempts -> AttemptRecords]
    BY DEF LedgerInv, LedgerTypeOK
  <1>2. attempts[a].status \notin {"absent", "reserved"} \cup LiveStatuses
    BY DEF ResolvedStatuses, LiveStatuses
  <1>3. CASE OperatorStep
    <2>1. CASE \E m \in Mandates :
                 (\E terms \in Terms : CreateMandate(m, terms)) \/ RevokeMandate(m)
      BY <2>1 DEF CreateMandate, RevokeMandate
    <2>2. ASSUME NEW b \in Attempts, NEW m \in Mandates, NEW v \in Vendors,
                 NEW amount \in Amounts, RunAttempt(b, m, v, amount)
          PROVE  attempts'[a].status = attempts[a].status
      <3>1. attempts[b].status = "absent" /\ \E row : attempts' = [attempts EXCEPT ![b] = row]
        BY <2>2 DEF RunAttempt, DenyAttempt, DenyByTreasury, ReserveAttempt
      <3>2. a # b
        BY <1>2, <3>1
      <3>3. QED
        BY <1>1, <3>1, <3>2
    <2>3. QED
      BY <1>3, <2>1, <2>2 DEF OperatorStep
  <1>4. CASE ClockStep
    BY <1>1, <1>4 DEF ClockStep, MandateExpiryPasses, EscalationWindowPasses, AttemptRecords
  <1>5. ASSUME NEW b \in Attempts,
               \/ MarkDispatching(b)
               \/ \E reported \in Reports : ApplyDispatchSucceeded(b, reported)
               \/ \E reported \in Reports : ApplyDispatchFailed(b, reported)
               \/ \E signed \in BOOLEAN : ApplyDispatchUnknown(b, signed)
               \/ ReleaseAttempt(b)
               \/ \E outcome \in CorrelatedOutcomes, reported \in Reports :
                    ApplyReconciliation(b, outcome, reported)
        PROVE  attempts'[a].status = attempts[a].status
    <2>1. b # a
      BY <1>2, <1>5, LiveSources
      DEF MarkDispatching, ApplyDispatchSucceeded, ApplyDispatchFailed, ApplyDispatchUnknown,
          ReleaseAttempt, ApplyReconciliation, LiveStatuses
    <2>2. QED
      BY <1>1, <1>5, <2>1
      DEF MarkDispatching, ApplyDispatchSucceeded, ApplyDispatchFailed, ApplyDispatchUnknown,
          ReleaseAttempt, ApplyReconciliation
  <1>6. QED
    BY <1>3, <1>4, <1>5 DEF LedgerNext, AttemptStep

\* No order of the transactions changes the outcome of a resolved attempt or
\* reopens a revoked or expired mandate.
THEOREM OutcomesStayFinal == LedgerSpec => OutcomesAreFinal
  <1>1. LedgerInv /\ [LedgerNext]_ledgerVars
          => [/\ \A a \in Attempts :
                   attempts[a].status \in ResolvedStatuses
                     => attempts'[a].status = attempts[a].status
              /\ \A m \in Mandates :
                   mandates[m].status \in {"revoked", "expired"}
                     => mandates'[m].status = mandates[m].status]_ledgerVars
    BY ClosedMandatesStay, ResolvedAttemptsStay
  <1>2. QED
    BY <1>1, LedgerInvariant, PTL DEF LedgerSpec, OutcomesAreFinal

-----------------------------------------------------------------------------
(***************************************************************************)
(* The ledger implements PaymentLedger.  What the contract sees follows    *)
(* the rows: where one row changes, one value of each function does.       *)
(***************************************************************************)
LEMMA MandateRowSeen ==
    ASSUME mandates \in [Mandates -> MandateRecords],
           NEW m \in Mandates, NEW row,
           mandates' = [mandates EXCEPT ![m] = row]
    PROVE  /\ AuthorityBar' = [AuthorityBar EXCEPT ![m] = AuthorityOf(row.status)]
           /\ LimitBar' = [LimitBar EXCEPT ![m] = row.cap]
           /\ HeldBar' = [HeldBar EXCEPT ![m] = row.reserved]
           /\ SpentBar' = [SpentBar EXCEPT ![m] = row.consumed]
  BY DEF AuthorityBar, LimitBar, HeldBar, SpentBar

LEMMA MandatesUnseen ==
    ASSUME mandates' = mandates
    PROVE  /\ AuthorityBar' = AuthorityBar /\ LimitBar' = LimitBar
           /\ HeldBar' = HeldBar /\ SpentBar' = SpentBar
  BY DEF AuthorityBar, LimitBar, HeldBar, SpentBar

LEMMA AttemptRowSeen ==
    ASSUME attempts \in [Attempts -> AttemptRecords],
           NEW a \in Attempts, NEW row,
           attempts' = [attempts EXCEPT ![a] = row]
    PROVE  PaymentBar' = [PaymentBar EXCEPT ![a] = PaymentOf(row.status)]
  BY DEF PaymentBar

LEMMA ContractInit == LedgerInit => Contract!Init
  BY DEF LedgerInit, NoMandate, NoAttempt, Contract!Init, AuthorityOf, PaymentOf,
         AuthorityBar, LimitBar, HeldBar, SpentBar, PaymentBar

\* Every end of an attempt settles or returns what it held.
LEMMA EndIsSettledOrReturned ==
    ASSUME LedgerInv,
           NEW a \in Attempts, LiveAttempt(a),
           NEW row \in AttemptRecords,
           NEW spent \in 0 .. attempts[a].amount,
           \/ row.status = "executed_charge_succeeded"
           \/ row.status \in {"executed_charge_failed", "cancelled_released"} /\ spent = 0,
           attempts' = [attempts EXCEPT ![a] = row],
           mandates' = Settlement(a, 0, spent)
    PROVE  Contract!Next
  <1> DEFINE m == attempts[a].mandate
             settled == [mandates[m] EXCEPT !.reserved = 0,
                           !.consumed = mandates[m].consumed + spent,
                           !.status = NextMandateStatusAfterResolution(mandates[m].status)]
  <1>1. /\ m \in Mandates /\ attempts[a].amount \in Nat /\ attempts[a].amount > 0
        /\ mandates[m].reserved = attempts[a].amount
    BY DEF LedgerInv, LedgerTypeOK, StoredRows, AttemptRecords, ReservationBacked, Reserved
  <1>2. /\ mandates \in [Mandates -> MandateRecords] /\ mandates[m] \in MandateRecords
        /\ attempts \in [Attempts -> AttemptRecords]
        /\ mandates[m].consumed \in Nat
    BY <1>1 DEF LedgerInv, LedgerTypeOK, MandateRecords
  <1>3. /\ mandates' = [mandates EXCEPT ![m] = settled]
        /\ settled.reserved = 0 /\ settled.cap = mandates[m].cap
        /\ settled.consumed = mandates[m].consumed + spent
        /\ settled.status = NextMandateStatusAfterResolution(mandates[m].status)
    BY <1>2 DEF Settlement, MandateRecords
  <1> HIDE DEF settled
  <1>4. AuthorityOf(settled.status) = AuthorityBar[m]
    <2>1. mandates[m].status # "absent"
      BY <1>1 DEF LedgerInv, StoredRows
    <2>2. QED
      BY <1>1, <1>3, <2>1 DEF AuthorityOf, AuthorityBar, NextMandateStatusAfterResolution
  <1>5. /\ AuthorityBar' = AuthorityBar /\ LimitBar' = LimitBar
        /\ HeldBar' = [HeldBar EXCEPT ![m] = 0]
        /\ SpentBar' = [SpentBar EXCEPT ![m] = SpentBar[m] + spent]
    <2>1. /\ AuthorityBar' = [AuthorityBar EXCEPT ![m] = AuthorityOf(settled.status)]
          /\ LimitBar' = [LimitBar EXCEPT ![m] = settled.cap]
          /\ HeldBar' = [HeldBar EXCEPT ![m] = settled.reserved]
          /\ SpentBar' = [SpentBar EXCEPT ![m] = settled.consumed]
      BY <1>1, <1>2, <1>3, MandateRowSeen
    <2>2. /\ settled.cap = LimitBar[m] /\ settled.consumed = SpentBar[m] + spent
          /\ settled.reserved = 0
      BY <1>1, <1>3 DEF LimitBar, SpentBar
    <2>3. /\ [AuthorityBar EXCEPT ![m] = AuthorityBar[m]] = AuthorityBar
          /\ [LimitBar EXCEPT ![m] = LimitBar[m]] = LimitBar
      BY <1>1 DEF AuthorityBar, LimitBar
    <2>4. QED
      BY <1>4, <2>1, <2>2, <2>3
  <1>6. /\ PaymentBar[a] = "held" /\ HeldBar[m] = attempts[a].amount
        /\ PaymentBar' = [PaymentBar EXCEPT ![a] = PaymentOf(row.status)]
    BY <1>1, <1>2, AttemptRowSeen DEF LiveAttempt, LiveStatuses, PaymentBar, PaymentOf, HeldBar
  <1>7. CASE row.status = "executed_charge_succeeded"
    <2>1. Contract!Settle(a, m)
      BY <1>1, <1>5, <1>6, <1>7 DEF Contract!Settle, PaymentOf
    <2>2. QED
      BY <1>1, <2>1 DEF Contract!Next
  <1>8. CASE row.status \in {"executed_charge_failed", "cancelled_released"} /\ spent = 0
    <2>1. SpentBar' = SpentBar
      BY <1>1, <1>2, <1>5, <1>8 DEF SpentBar
    <2>2. Contract!Return(a, m)
      BY <1>1, <1>5, <1>6, <1>8, <2>1 DEF Contract!Return, PaymentOf
    <2>3. QED
      BY <1>1, <2>2 DEF Contract!Next
  <1>9. QED
    BY <1>7, <1>8

LEMMA OperatorStepSeen ==
    ASSUME LedgerInv, OperatorStep
    PROVE  Contract!Next
  <1>1. /\ mandates \in [Mandates -> MandateRecords]
        /\ attempts \in [Attempts -> AttemptRecords]
    BY DEF LedgerInv, LedgerTypeOK
  <1>2. ASSUME NEW m \in Mandates, NEW terms \in Terms, CreateMandate(m, terms)
        PROVE  Contract!Next
    <2> DEFINE row == [status |-> "issued_active", cap |-> terms.cap,
                       approved |-> terms.approved, receipt |-> terms.receipt,
                       reserved |-> 0, consumed |-> 0]
    <2>1. /\ mandates' = [mandates EXCEPT ![m] = row] /\ attempts' = attempts
          /\ mandates[m].status = "absent" /\ mandates[m].reserved = 0
          /\ mandates[m].consumed = 0
      BY <1>2 DEF CreateMandate, LedgerInv, StoredRows
    <2>2. /\ AuthorityBar' = [AuthorityBar EXCEPT ![m] = AuthorityOf(row.status)]
          /\ LimitBar' = [LimitBar EXCEPT ![m] = row.cap]
          /\ HeldBar' = [HeldBar EXCEPT ![m] = row.reserved]
          /\ SpentBar' = [SpentBar EXCEPT ![m] = row.consumed]
      BY <1>1, <2>1, MandateRowSeen
    <2>3. AuthorityBar[m] = "unopened" /\ HeldBar[m] = 0 /\ SpentBar[m] = 0
      BY <2>1 DEF AuthorityBar, AuthorityOf, HeldBar, SpentBar
    <2>4. HeldBar' = HeldBar /\ SpentBar' = SpentBar /\ PaymentBar' = PaymentBar
      BY <2>1, <2>2, <2>3 DEF HeldBar, SpentBar, PaymentBar
    <2>5. Contract!Open(m)
      BY <2>2, <2>3, <2>4 DEF Contract!Open, AuthorityOf
    <2>6. QED
      BY <2>5 DEF Contract!Next
  <1>3. ASSUME NEW m \in Mandates, NEW status \in {"revoked", "expired"},
               mandates' = [mandates EXCEPT ![m].status = status],
               mandates[m].status \in {"issued_active", "issued_reserved"}
        PROVE  /\ AuthorityBar[m] = "open"
               /\ AuthorityBar' = [AuthorityBar EXCEPT ![m] = "closed"]
               /\ LimitBar' = LimitBar /\ HeldBar' = HeldBar /\ SpentBar' = SpentBar
    <2> DEFINE row == [mandates[m] EXCEPT !.status = status]
    <2>1. /\ mandates' = [mandates EXCEPT ![m] = row]
          /\ row.status = status /\ row.cap = mandates[m].cap
          /\ row.reserved = mandates[m].reserved /\ row.consumed = mandates[m].consumed
      BY <1>1, <1>3 DEF MandateRecords
    <2> HIDE DEF row
    <2>2. /\ AuthorityBar' = [AuthorityBar EXCEPT ![m] = AuthorityOf(row.status)]
          /\ LimitBar' = [LimitBar EXCEPT ![m] = row.cap]
          /\ HeldBar' = [HeldBar EXCEPT ![m] = row.reserved]
          /\ SpentBar' = [SpentBar EXCEPT ![m] = row.consumed]
      BY <1>1, <2>1, MandateRowSeen
    <2>3. LimitBar' = LimitBar /\ HeldBar' = HeldBar /\ SpentBar' = SpentBar
      BY <2>1, <2>2 DEF LimitBar, HeldBar, SpentBar
    <2>4. AuthorityBar[m] = "open" /\ AuthorityOf(row.status) = "closed"
      BY <1>3, <2>1 DEF AuthorityBar, AuthorityOf
    <2>5. QED
      BY <2>2, <2>3, <2>4
  <1>4. ASSUME NEW m \in Mandates, RevokeMandate(m)
        PROVE  Contract!Next
    <2>1. /\ mandates' = [mandates EXCEPT ![m].status = "revoked"] /\ attempts' = attempts
          /\ mandates[m].status \in {"issued_active", "issued_reserved"}
      BY <1>4 DEF RevokeMandate, CanTransitionMandate, MandateTransitions
    <2>2. PaymentBar' = PaymentBar
      BY <2>1 DEF PaymentBar
    <2>3. Contract!Close(m)
      BY <1>3, <2>1, <2>2 DEF Contract!Close
    <2>4. QED
      BY <2>3 DEF Contract!Next
  <1>5. ASSUME NEW a \in Attempts, NEW m \in Mandates, NEW seller \in Vendors,
               NEW amount \in Amounts,
               DenyAttempt(a, m, seller, amount) \/ DenyByTreasury(a, m, seller, amount)
        PROVE  Contract!Next
    <2> DEFINE row == Materialized(m, amount, "policy_denied")
    <2>1. /\ attempts[a].status = "absent" /\ attempts' = [attempts EXCEPT ![a] = row]
          /\ row.status = "policy_denied"
          /\ \/ mandates' = mandates
             \/ /\ mandates[m].status = "issued_active"
                /\ mandates' = [mandates EXCEPT ![m].status = "expired"]
      BY <1>5 DEF DenyAttempt, DenyByTreasury, Materialized, NoAttempt
    <2> HIDE DEF row
    <2>2. PaymentBar[a] = "none" /\ PaymentBar' = [PaymentBar EXCEPT ![a] = "denied"]
      BY <1>1, <2>1, AttemptRowSeen DEF PaymentBar, PaymentOf
    <2>3. /\ LimitBar' = LimitBar /\ HeldBar' = HeldBar /\ SpentBar' = SpentBar
          /\ \/ AuthorityBar' = AuthorityBar
             \/ /\ AuthorityBar[m] = "open"
                /\ AuthorityBar' = [AuthorityBar EXCEPT ![m] = "closed"]
      BY <1>3, <2>1, MandatesUnseen
    <2>4. Contract!Deny(a)
      BY <2>2, <2>3 DEF Contract!Deny
    <2>5. QED
      BY <2>4 DEF Contract!Next
  <1>6. ASSUME NEW a \in Attempts, NEW m \in Mandates, NEW seller \in Vendors,
               NEW amount \in Amounts, ReserveAttempt(a, m, seller, amount)
        PROVE  Contract!Next
    <2> DEFINE row == Materialized(m, amount, "dispatch_queued")
               kept == [mandates[m] EXCEPT !.status = "issued_reserved", !.reserved = amount]
    <2>1. /\ attempts[a].status = "absent" /\ attempts' = [attempts EXCEPT ![a] = row]
          /\ row.status = "dispatch_queued"
      BY <1>6 DEF ReserveAttempt, Materialized, NoAttempt
    <2>2. /\ mandates[m].status = "issued_active" /\ mandates[m].reserved = 0
          /\ mandates[m].cap - mandates[m].consumed - mandates[m].reserved >= amount
          /\ mandates' = [mandates EXCEPT ![m].status = "issued_reserved",
                                          ![m].reserved = @ + amount]
      BY <1>6 DEF ReserveAttempt, Approves, PolicyApproves, MandateCanReserve, AvailableBudget
    <2>3. amount \in Nat /\ amount > 0 /\ mandates[m].cap \in Nat /\ mandates[m].consumed \in Nat
      BY <1>1, AmountAssumption DEF MandateRecords
    <2>4. /\ mandates' = [mandates EXCEPT ![m] = kept]
          /\ kept.status = "issued_reserved" /\ kept.reserved = amount
          /\ kept.cap = mandates[m].cap /\ kept.consumed = mandates[m].consumed
      BY <1>1, <2>2, <2>3 DEF MandateRecords
    <2> HIDE DEF row, kept
    <2>5. /\ AuthorityBar' = [AuthorityBar EXCEPT ![m] = AuthorityOf(kept.status)]
          /\ LimitBar' = [LimitBar EXCEPT ![m] = kept.cap]
          /\ HeldBar' = [HeldBar EXCEPT ![m] = kept.reserved]
          /\ SpentBar' = [SpentBar EXCEPT ![m] = kept.consumed]
      BY <1>1, <2>4, MandateRowSeen
    <2>6. AuthorityBar[m] = "open" /\ AuthorityOf(kept.status) = "open"
      BY <2>2, <2>4 DEF AuthorityBar, AuthorityOf
    <2>7. AuthorityBar' = AuthorityBar /\ LimitBar' = LimitBar /\ SpentBar' = SpentBar
      BY <2>4, <2>5, <2>6 DEF AuthorityBar, LimitBar, SpentBar
    <2>8. /\ HeldBar' = [HeldBar EXCEPT ![m] = amount] /\ HeldBar[m] = 0
          /\ amount \in 1 .. (LimitBar[m] - SpentBar[m])
      BY <2>2, <2>3, <2>4, <2>5 DEF HeldBar, LimitBar, SpentBar
    <2>9. PaymentBar[a] = "none" /\ PaymentBar' = [PaymentBar EXCEPT ![a] = "held"]
      BY <1>1, <2>1, AttemptRowSeen DEF PaymentBar, PaymentOf
    <2>10. Contract!Hold(a, m)
      BY <2>6, <2>7, <2>8, <2>9 DEF Contract!Hold
    <2>11. QED
      BY <2>10 DEF Contract!Next
  <1>7. QED
    BY <1>2, <1>4, <1>5, <1>6 DEF OperatorStep, RunAttempt

\* The workers' transactions and the clock end an attempt or show nothing.
LEMMA ProgressUnseen ==
    ASSUME attempts \in [Attempts -> AttemptRecords],
           NEW a \in Attempts, NEW row,
           PaymentOf(row.status) = PaymentOf(attempts[a].status),
           attempts' = [attempts EXCEPT ![a] = row], mandates' = mandates
    PROVE  UNCHANGED <<AuthorityBar, LimitBar, HeldBar, SpentBar, PaymentBar>>
  <1>1. PaymentBar' = [PaymentBar EXCEPT ![a] = PaymentOf(row.status)]
    BY AttemptRowSeen
  <1>2. PaymentBar' = PaymentBar
    BY <1>1 DEF PaymentBar
  <1>3. QED
    BY <1>2, MandatesUnseen

LEMMA AttemptStepSeen ==
    ASSUME LedgerInv, AttemptStep
    PROVE  \/ Contract!Next
           \/ UNCHANGED <<AuthorityBar, LimitBar, HeldBar, SpentBar, PaymentBar>>
  <1> DEFINE Unseen == UNCHANGED <<AuthorityBar, LimitBar, HeldBar, SpentBar, PaymentBar>>
  <1> HIDE DEF Unseen
  <1> SUFFICES Contract!Next \/ Unseen
    BY DEF Unseen
  <1> PICK a \in Attempts :
        \/ MarkDispatching(a)
        \/ \E reported \in Reports : ApplyDispatchSucceeded(a, reported)
        \/ \E reported \in Reports : ApplyDispatchFailed(a, reported)
        \/ \E signed \in BOOLEAN : ApplyDispatchUnknown(a, signed)
        \/ ReleaseAttempt(a)
        \/ \E outcome \in CorrelatedOutcomes, reported \in Reports :
             ApplyReconciliation(a, outcome, reported)
    BY DEF AttemptStep
  <1>1. attempts[a] \in AttemptRecords /\ attempts \in [Attempts -> AttemptRecords]
    BY DEF LedgerInv, LedgerTypeOK
  <1>2. CASE MarkDispatching(a)
    <2> DEFINE row == [attempts[a] EXCEPT !.status = "dispatching"]
    <2>1. /\ attempts' = [attempts EXCEPT ![a] = row] /\ mandates' = mandates
          /\ PaymentOf(row.status) = PaymentOf(attempts[a].status)
      BY <1>1, <1>2, LiveSources DEF MarkDispatching, PaymentOf, AttemptRecords
    <2> HIDE DEF row
    <2>2. QED
      BY <1>1, <2>1, ProgressUnseen DEF Unseen
  <1>3. ASSUME NEW signed \in BOOLEAN, ApplyDispatchUnknown(a, signed)
        PROVE  Unseen
    <2> DEFINE row == [attempts[a] EXCEPT
                         !.status = "execution_unknown",
                         !.settled = ResolveSettledAmount(attempts[a].amount, NoReport),
                         !.artifacts = signed, !.window = "open"]
    <2>1. /\ attempts' = [attempts EXCEPT ![a] = row] /\ mandates' = mandates
          /\ PaymentOf(row.status) = PaymentOf(attempts[a].status)
      BY <1>1, <1>3, LiveSources DEF ApplyDispatchUnknown, PaymentOf, AttemptRecords
    <2> HIDE DEF row
    <2>2. QED
      BY <1>1, <2>1, ProgressUnseen DEF Unseen
  <1>4. ASSUME NEW reported \in Reports, ApplyDispatchSucceeded(a, reported)
        PROVE  Contract!Next
    <2> DEFINE final == ResolveSettledAmount(attempts[a].amount, reported)
               row == [attempts[a] EXCEPT !.status = "executed_charge_succeeded",
                                          !.settled = final]
    <2>1. LiveAttempt(a)
      BY <1>4, LiveSources DEF ApplyDispatchSucceeded, LiveAttempt, LiveStatuses
    <2>2. attempts[a].amount \in Nat /\ Subtracted(a) = 0
      BY <2>1, LiveAttemptHolds
    <2>3. final \in 0 .. attempts[a].amount
      BY <2>2, SettledAmountBounded, ReportsAssumption
    <2>4. /\ attempts' = [attempts EXCEPT ![a] = row]
          /\ mandates' = Settlement(a, 0, final)
      BY <1>1, <1>4, <2>2 DEF ApplyDispatchSucceeded
    <2> HIDE DEF final
    <2>5. row \in AttemptRecords /\ row.status = "executed_charge_succeeded"
      <3>1. final \in Nat
        BY <2>2, <2>3
      <3>2. QED
        BY <1>1, <3>1 DEF AttemptRecords, AttemptStatuses
    <2> HIDE DEF row
    <2>6. QED
      BY <2>1, <2>3, <2>4, <2>5, EndIsSettledOrReturned
  <1>5. ASSUME NEW row \in AttemptRecords,
               row.status \in {"executed_charge_failed", "cancelled_released"},
               LiveAttempt(a),
               attempts' = [attempts EXCEPT ![a] = row],
               mandates' = Settlement(a, 0, 0)
        PROVE  Contract!Next
    <2>1. 0 \in 0 .. attempts[a].amount
      BY <1>1 DEF AttemptRecords
    <2>2. QED
      BY <1>5, <2>1, EndIsSettledOrReturned
  <1>6. ASSUME NEW reported \in Reports, ApplyDispatchFailed(a, reported)
        PROVE  Contract!Next
    <2> DEFINE final == ResolveSettledAmount(attempts[a].amount, reported)
               row == [attempts[a] EXCEPT !.status = "executed_charge_failed",
                                          !.settled = final]
    <2>1. LiveAttempt(a)
      BY <1>6, LiveSources DEF ApplyDispatchFailed, LiveAttempt, LiveStatuses
    <2>2. final \in Nat /\ Subtracted(a) = 0
      BY <2>1, LiveAttemptHolds, FinalAmount
    <2>3. attempts' = [attempts EXCEPT ![a] = row] /\ mandates' = Settlement(a, 0, 0)
      BY <1>1, <1>6, <2>2 DEF ApplyDispatchFailed
    <2> HIDE DEF final
    <2>4. row \in AttemptRecords /\ row.status = "executed_charge_failed"
      BY <1>1, <2>2 DEF AttemptRecords, AttemptStatuses
    <2> HIDE DEF row
    <2>5. QED
      BY <1>5, <2>1, <2>3, <2>4
  <1>7. CASE ReleaseAttempt(a)
    <2> DEFINE row == [attempts[a] EXCEPT !.status = "cancelled_released"]
    <2>1. LiveAttempt(a)
      BY <1>7, LiveSources DEF ReleaseAttempt, LiveAttempt, LiveStatuses, LedgerInv, StoredRows
    <2>2. attempts' = [attempts EXCEPT ![a] = row] /\ mandates' = Settlement(a, 0, 0)
      BY <1>1, <1>7, <2>1, LiveAttemptHolds DEF ReleaseAttempt
    <2>3. row \in AttemptRecords /\ row.status = "cancelled_released"
      BY <1>1 DEF AttemptRecords, AttemptStatuses
    <2> HIDE DEF row
    <2>4. QED
      BY <1>5, <2>1, <2>2, <2>3
  <1>8. ASSUME NEW outcome \in CorrelatedOutcomes, NEW reported \in Reports,
               ApplyReconciliation(a, outcome, reported)
        PROVE  Contract!Next
    <2> DEFINE final == ResolveSettledAmount(attempts[a].amount, reported)
               charge == Charged(outcome, final)
               row == [attempts[a] EXCEPT !.status = outcome, !.settled = final]
    <2>1. LiveAttempt(a)
      BY <1>8 DEF ApplyReconciliation, LiveAttempt, LiveStatuses
    <2>2. attempts[a].amount \in Nat /\ SubtractedToZero(a) = 0
      BY <2>1, LiveAttemptHolds
    <2>3. /\ final \in Nat /\ charge \in 0 .. attempts[a].amount
          /\ outcome # "executed_charge_succeeded" => charge = 0
      BY <2>2, FinalAmount DEF Charged
    <2>4. /\ attempts' = [attempts EXCEPT ![a] = row]
          /\ mandates' = Settlement(a, 0, charge)
      BY <1>1, <1>8, <2>2 DEF ApplyReconciliation
    <2> HIDE DEF final, charge
    <2>5. row \in AttemptRecords /\ row.status = outcome
      BY <1>1, <2>3 DEF AttemptRecords, AttemptStatuses, CorrelatedOutcomes
    <2> HIDE DEF row
    <2>6. QED
      BY <2>1, <2>3, <2>4, <2>5, EndIsSettledOrReturned DEF CorrelatedOutcomes
  <1>9. QED
    BY <1>2, <1>3, <1>4, <1>6, <1>7, <1>8

\* Every transaction of the store is a step of the money contract or is invisible to
\* it: budget is held once per payment and by one payment at a time, never beyond
\* the limit, and every hold ends once, settled for at most what was held or
\* returned, whatever order operators and workers call the transactions in.
THEOREM LedgerImplementsContract == LedgerSpec => ImplementsPaymentLedger
  <1>1. LedgerInv /\ [LedgerNext]_ledgerVars
          => [Contract!Next]_<<AuthorityBar, LimitBar, HeldBar, SpentBar, PaymentBar>>
    <2> SUFFICES ASSUME LedgerInv, [LedgerNext]_ledgerVars
                 PROVE  [Contract!Next]_<<AuthorityBar, LimitBar, HeldBar, SpentBar, PaymentBar>>
      OBVIOUS
    <2>1. CASE OperatorStep
      BY <2>1, OperatorStepSeen
    <2>2. CASE AttemptStep
      BY <2>2, AttemptStepSeen
    <2>3. CASE ClockStep
      <3>1. /\ mandates' = mandates
            /\ \/ attempts' = attempts
               \/ \E a \in Attempts : attempts' = [attempts EXCEPT ![a].window = "passed"]
        BY <2>3 DEF ClockStep, MandateExpiryPasses, EscalationWindowPasses
      <3>2. PaymentBar' = PaymentBar
        BY <3>1 DEF PaymentBar, LedgerInv, LedgerTypeOK, AttemptRecords
      <3>3. QED
        BY <3>1, <3>2, MandatesUnseen
    <2>4. CASE UNCHANGED ledgerVars
      BY <2>4, MandatesUnseen DEF ledgerVars, PaymentBar
    <2>5. QED
      BY <2>1, <2>2, <2>3, <2>4 DEF LedgerNext
  <1>2. QED
    BY <1>1, ContractInit, LedgerInvariant, PTL
    DEF LedgerSpec, ImplementsPaymentLedger, Contract!Spec, Contract!ledger


-----------------------------------------------------------------------------
(***************************************************************************)
(* Where the consumed cents come from.  Finitely many attempts have been   *)
(* charged to a mandate, only a success adds one to them, and it adds the  *)
(* same amount to its own event and to the counter of its mandate.  The    *)
(* amounts that the events of other outcomes name are not in the sum.      *)
(***************************************************************************)
SettledOf == [a \in Attempts |-> attempts[a].settled]

ConsumedInv ==
    \A m \in Mandates :
      /\ IsFiniteSet(ChargedTo(m))
      /\ mandates[m].consumed = SumOver(SettledOf, ChargedTo(m))

LEMMA SettledAreIntegers ==
    ASSUME LedgerTypeOK
    PROVE  \A a \in Attempts : SettledOf[a] \in Nat /\ SettledOf[a] = attempts[a].settled
  BY DEF LedgerTypeOK, AttemptRecords, SettledOf

LEMMA ConsumedInvInit == LedgerInit => ConsumedInv
  <1> SUFFICES ASSUME LedgerInit, NEW m \in Mandates
               PROVE  /\ IsFiniteSet(ChargedTo(m))
                      /\ mandates[m].consumed = SumOver(SettledOf, ChargedTo(m))
    BY DEF ConsumedInv
  <1>1. ChargedTo(m) = {}
    BY DEF LedgerInit, NoAttempt, ChargedTo
  <1>2. IsFiniteSet({}) /\ SumOver(SettledOf, {}) = 0
    BY FS_EmptySet, SumOverSteps
  <1>3. mandates[m].consumed = 0
    BY DEF LedgerInit, NoMandate
  <1>4. QED
    BY <1>1, <1>2, <1>3

\* A step that charges nothing: it moves no row to or from success, changes
\* no row that is there, and leaves the counters alone.
LEMMA NothingConsumed ==
    ASSUME LedgerTypeOK, LedgerTypeOK', ConsumedInv,
           \A b \in Attempts :
             \/ attempts'[b] = attempts[b]
             \/ /\ attempts[b].status # "executed_charge_succeeded"
                /\ attempts'[b].status # "executed_charge_succeeded"
             \/ /\ attempts'[b].status = attempts[b].status
                /\ attempts'[b].mandate = attempts[b].mandate
                /\ attempts'[b].settled = attempts[b].settled,
           \A n \in Mandates : mandates'[n].consumed = mandates[n].consumed
    PROVE  ConsumedInv'
  <1>1. \A n \in Mandates : ChargedTo(n)' = ChargedTo(n)
    BY DEF ChargedTo
  <1> DEFINE values == SettledOf'
  <1>2. ASSUME NEW n \in Mandates
        PROVE  SumOver(values, ChargedTo(n)) = SumOver(SettledOf, ChargedTo(n))
    <2>1. \A b \in ChargedTo(n) : values[b] = SettledOf[b]
      BY DEF ChargedTo, SettledOf
    <2>2. IsFiniteSet(ChargedTo(n))
      BY DEF ConsumedInv
    <2> HIDE DEF values
    <2>3. QED
      BY <2>1, <2>2, SumOfSame
  <1>3. QED
    BY <1>1, <1>2 DEF ConsumedInv

\* A step that ends an attempt with a success and charges its mandate.
LEMMA AttemptCharged ==
    ASSUME LedgerTypeOK, LedgerTypeOK', ConsumedInv,
           NEW a \in Attempts, LiveAttempt(a), attempts[a].mandate \in Mandates,
           NEW row \in AttemptRecords, NEW spent \in Nat,
           row.status = "executed_charge_succeeded", row.settled = spent,
           row.mandate = attempts[a].mandate,
           attempts' = [attempts EXCEPT ![a] = row],
           mandates' = Settlement(a, 0, spent)
    PROVE  ConsumedInv'
  <1> DEFINE m == attempts[a].mandate
  <1>1. /\ attempts'[a] = row
        /\ \A b \in Attempts \ {a} : attempts'[b] = attempts[b]
    BY DEF LedgerTypeOK
  <1>2. /\ mandates'[m].consumed = mandates[m].consumed + spent
        /\ \A n \in Mandates \ {m} : mandates'[n].consumed = mandates[n].consumed
    BY DEF LedgerTypeOK, MandateRecords, Settlement
  <1>3. a \notin ChargedTo(m) /\ ChargedTo(m)' = ChargedTo(m) \cup {a}
    BY <1>1 DEF ChargedTo, LiveAttempt, LiveStatuses
  <1>4. \A n \in Mandates \ {m} : ChargedTo(n)' = ChargedTo(n) /\ a \notin ChargedTo(n)
    BY <1>1 DEF ChargedTo
  <1> DEFINE values == SettledOf'
  <1>5. \A b \in Attempts : values[b] \in Int
    BY DEF SettledOf, LedgerTypeOK, AttemptRecords
  <1>6. values[a] = spent /\ \A b \in Attempts \ {a} : values[b] = SettledOf[b]
    BY <1>1 DEF SettledOf
  <1>7. \A n \in Mandates : IsFiniteSet(ChargedTo(n)) /\ ChargedTo(n) \subseteq Attempts
    BY DEF ConsumedInv, ChargedTo
  <1>8. \A n \in Mandates : SumOver(values, ChargedTo(n)) = SumOver(SettledOf, ChargedTo(n))
    <2>1. TAKE n \in Mandates
    <2>2. \A b \in ChargedTo(n) : values[b] = SettledOf[b]
      BY <1>3, <1>4, <1>6, <1>7
    <2> HIDE DEF values
    <2>3. QED
      BY <1>7, <2>2, SumOfSame
  <1>9. /\ IsFiniteSet(ChargedTo(m) \cup {a})
        /\ SumOver(values, ChargedTo(m) \cup {a}) = SumOver(SettledOf, ChargedTo(m)) + spent
    <2> HIDE DEF values
    <2>1. \A b \in ChargedTo(m) : values[b] \in Int
      BY <1>5, <1>7
    <2>2. SumOver(values, ChargedTo(m) \cup {a}) = SumOver(values, ChargedTo(m)) + values[a]
      BY <1>3, <1>5, <1>7, <2>1, SumWithElement
    <2>3. IsFiniteSet(ChargedTo(m) \cup {a})
      BY <1>7, FS_AddElement
    <2>4. QED
      BY <1>6, <1>8, <2>2, <2>3
  <1>10. ASSUME NEW n \in Mandates
         PROVE  /\ IsFiniteSet(ChargedTo(n)')
                /\ mandates'[n].consumed = SumOver(values, ChargedTo(n)')
    <2> HIDE DEF values
    <2>1. CASE n = m
      BY <1>2, <1>3, <1>9, <2>1 DEF ConsumedInv
    <2>2. CASE n # m
      BY <1>2, <1>4, <1>7, <1>8, <2>2 DEF ConsumedInv
    <2>3. QED
      BY <2>1, <2>2
  <1>11. QED
    BY <1>10 DEF ConsumedInv

LEMMA RunAttemptConsumed ==
    ASSUME LedgerInv, LedgerInv', ConsumedInv,
           NEW a \in Attempts, NEW m \in Mandates, NEW seller \in Vendors,
           NEW amount \in Amounts, RunAttempt(a, m, seller, amount)
    PROVE  ConsumedInv'
  <1>1. attempts \in [Attempts -> AttemptRecords] /\ mandates \in [Mandates -> MandateRecords]
    BY DEF LedgerInv, LedgerTypeOK
  <1>2. PICK status \in {"policy_denied", "dispatch_queued"} :
          attempts' = [attempts EXCEPT ![a] = Materialized(m, amount, status)]
    BY DEF RunAttempt, DenyAttempt, DenyByTreasury, ReserveAttempt
  <1>3. /\ attempts'[a].status # "executed_charge_succeeded"
        /\ \A b \in Attempts \ {a} : attempts'[b] = attempts[b]
    BY <1>1, <1>2 DEF Materialized, NoAttempt
  <1>4. attempts[a].status = "absent"
    BY DEF RunAttempt, DenyAttempt, DenyByTreasury, ReserveAttempt
  <1>5. \A n \in Mandates : mandates'[n].consumed = mandates[n].consumed
    BY <1>1 DEF RunAttempt, DenyAttempt, DenyByTreasury, ReserveAttempt, MandateRecords
  <1>6. QED
    BY <1>3, <1>4, <1>5, NothingConsumed DEF LedgerInv

\* A transaction or a tick that moves a row on and charges nothing.
LEMMA RowMovesOn ==
    ASSUME LedgerInv, LedgerInv', ConsumedInv,
           NEW a \in Attempts, NEW row,
           \/ /\ attempts[a].status # "executed_charge_succeeded"
              /\ row.status # "executed_charge_succeeded"
           \/ /\ row.status = attempts[a].status
              /\ row.mandate = attempts[a].mandate /\ row.settled = attempts[a].settled,
           attempts' = [attempts EXCEPT ![a] = row],
           \A n \in Mandates : mandates'[n].consumed = mandates[n].consumed
    PROVE  ConsumedInv'
  <1>1. /\ attempts'[a] = row
        /\ \A b \in Attempts \ {a} : attempts'[b] = attempts[b]
    BY DEF LedgerInv, LedgerTypeOK
  <1>2. QED
    BY <1>1, NothingConsumed DEF LedgerInv

LEMMA AttemptStepConsumed ==
    ASSUME LedgerInv, LedgerInv', ConsumedInv, AttemptStep
    PROVE  ConsumedInv'
  <1> PICK a \in Attempts :
        \/ MarkDispatching(a)
        \/ \E reported \in Reports : ApplyDispatchSucceeded(a, reported)
        \/ \E reported \in Reports : ApplyDispatchFailed(a, reported)
        \/ \E signed \in BOOLEAN : ApplyDispatchUnknown(a, signed)
        \/ ReleaseAttempt(a)
        \/ \E outcome \in CorrelatedOutcomes, reported \in Reports :
             ApplyReconciliation(a, outcome, reported)
    BY DEF AttemptStep
  <1>1. attempts[a] \in AttemptRecords /\ attempts \in [Attempts -> AttemptRecords]
    BY DEF LedgerInv, LedgerTypeOK
  <1>2. LiveAttempt(a) => /\ attempts[a].mandate \in Mandates /\ attempts[a].amount \in Nat
                          /\ Subtracted(a) = 0 /\ SubtractedToZero(a) = 0
    BY LiveAttemptHolds DEF LedgerInv, StoredRows, LiveAttempt
  <1>3. ASSUME NEW spent \in Nat, LiveAttempt(a),
               attempts' = [attempts EXCEPT ![a] =
                              [attempts[a] EXCEPT !.status = "executed_charge_succeeded",
                                                  !.settled = spent]],
               mandates' = Settlement(a, 0, spent)
        PROVE  ConsumedInv'
    <2>1. PICK row : row = [attempts[a] EXCEPT !.status = "executed_charge_succeeded",
                                               !.settled = spent]
      OBVIOUS
    <2>2. row \in AttemptRecords
      BY <1>1, <2>1 DEF AttemptRecords, AttemptStatuses
    <2>3. /\ row.status = "executed_charge_succeeded" /\ row.settled = spent
          /\ row.mandate = attempts[a].mandate
      BY <1>1, <2>1 DEF AttemptRecords
    <2>4. attempts' = [attempts EXCEPT ![a] = row]
      BY <1>3, <2>1
    <2>5. QED
      BY <1>2, <1>3, <2>2, <2>3, <2>4, AttemptCharged DEF LedgerInv
  <1>4. ASSUME NEW row, row.status # "executed_charge_succeeded", LiveAttempt(a),
               attempts' = [attempts EXCEPT ![a] = row],
               mandates' = mandates \/ mandates' = Settlement(a, 0, 0)
        PROVE  ConsumedInv'
    <2>1. attempts[a].status # "executed_charge_succeeded"
      BY <1>4 DEF LiveAttempt, LiveStatuses
    <2>2. \A n \in Mandates : mandates'[n].consumed = mandates[n].consumed
      <3> DEFINE m == attempts[a].mandate
      <3>1. mandates[m] \in MandateRecords /\ mandates \in [Mandates -> MandateRecords]
        BY <1>2, <1>4 DEF LedgerInv, LedgerTypeOK
      <3>2. mandates[m].consumed + 0 = mandates[m].consumed
        BY <3>1 DEF MandateRecords
      <3>3. mandates' = Settlement(a, 0, 0)
              => \A n \in Mandates : mandates'[n].consumed = mandates[n].consumed
        BY <3>1, <3>2 DEF Settlement, MandateRecords
      <3>4. QED
        BY <1>4, <3>3
    <2>3. QED
      BY <1>4, <2>1, <2>2, RowMovesOn
  <1>5. ASSUME NEW reported \in Reports, LiveAttempt(a)
        PROVE  ResolveSettledAmount(attempts[a].amount, reported) \in Nat
    BY <1>2, <1>5, FinalAmount
  <1>6. CASE MarkDispatching(a)
    <2>1. LiveAttempt(a)
      BY <1>6, LiveSources DEF MarkDispatching, LiveAttempt, LiveStatuses
    <2>2. PICK row : row = [attempts[a] EXCEPT !.status = "dispatching"]
      OBVIOUS
    <2>3. row.status # "executed_charge_succeeded"
      BY <1>1, <2>2 DEF AttemptRecords
    <2>4. attempts' = [attempts EXCEPT ![a] = row] /\ mandates' = mandates
      BY <1>6, <2>2 DEF MarkDispatching
    <2>5. QED
      BY <1>4, <2>1, <2>3, <2>4
  <1>7. ASSUME NEW signed \in BOOLEAN, ApplyDispatchUnknown(a, signed)
        PROVE  ConsumedInv'
    <2>1. LiveAttempt(a)
      BY <1>7, LiveSources DEF ApplyDispatchUnknown, LiveAttempt, LiveStatuses
    <2>2. PICK row : row = [attempts[a] EXCEPT
                              !.status = "execution_unknown",
                              !.settled = ResolveSettledAmount(attempts[a].amount, NoReport),
                              !.artifacts = signed, !.window = "open"]
      OBVIOUS
    <2>3. row.status # "executed_charge_succeeded"
      BY <1>1, <2>2 DEF AttemptRecords
    <2>4. attempts' = [attempts EXCEPT ![a] = row] /\ mandates' = mandates
      BY <1>7, <2>2 DEF ApplyDispatchUnknown
    <2>5. QED
      BY <1>4, <2>1, <2>3, <2>4
  <1>8. ASSUME NEW reported \in Reports, ApplyDispatchSucceeded(a, reported)
        PROVE  ConsumedInv'
    <2>1. LiveAttempt(a)
      BY <1>8, LiveSources DEF ApplyDispatchSucceeded, LiveAttempt, LiveStatuses
    <2>2. PICK spent \in Nat : spent = ResolveSettledAmount(attempts[a].amount, reported)
      BY <1>5, <2>1
    <2>3. /\ attempts' = [attempts EXCEPT ![a] =
                            [attempts[a] EXCEPT !.status = "executed_charge_succeeded",
                                                !.settled = spent]]
          /\ mandates' = Settlement(a, 0, spent)
      BY <1>1, <1>2, <1>8, <2>1, <2>2 DEF ApplyDispatchSucceeded
    <2>4. QED
      BY <1>3, <2>1, <2>3
  <1>9. ASSUME NEW reported \in Reports, ApplyDispatchFailed(a, reported)
        PROVE  ConsumedInv'
    <2>1. LiveAttempt(a)
      BY <1>9, LiveSources DEF ApplyDispatchFailed, LiveAttempt, LiveStatuses
    <2>2. PICK row : row = [attempts[a] EXCEPT
                              !.status = "executed_charge_failed",
                              !.settled = ResolveSettledAmount(attempts[a].amount, reported)]
      OBVIOUS
    <2>3. row.status # "executed_charge_succeeded"
      BY <1>1, <2>2 DEF AttemptRecords
    <2>4. attempts' = [attempts EXCEPT ![a] = row] /\ mandates' = Settlement(a, 0, 0)
      BY <1>2, <1>9, <2>1, <2>2 DEF ApplyDispatchFailed
    <2>5. QED
      BY <1>4, <2>1, <2>3, <2>4
  <1>10. CASE ReleaseAttempt(a)
    <2>1. LiveAttempt(a)
      BY <1>10, LiveSources DEF ReleaseAttempt, LiveAttempt, LiveStatuses, LedgerInv, StoredRows
    <2>2. PICK row : row = [attempts[a] EXCEPT !.status = "cancelled_released"]
      OBVIOUS
    <2>3. row.status # "executed_charge_succeeded"
      BY <1>1, <2>2 DEF AttemptRecords
    <2>4. attempts' = [attempts EXCEPT ![a] = row] /\ mandates' = Settlement(a, 0, 0)
      BY <1>2, <1>10, <2>1, <2>2 DEF ReleaseAttempt
    <2>5. QED
      BY <1>4, <2>1, <2>3, <2>4
  <1>11. ASSUME NEW outcome \in CorrelatedOutcomes, NEW reported \in Reports,
                ApplyReconciliation(a, outcome, reported)
         PROVE  ConsumedInv'
    <2>1. LiveAttempt(a)
      BY <1>11 DEF ApplyReconciliation, LiveAttempt, LiveStatuses
    <2>2. PICK final \in Nat : final = ResolveSettledAmount(attempts[a].amount, reported)
      BY <1>5, <2>1
    <2>3. PICK row : row = [attempts[a] EXCEPT !.status = outcome, !.settled = final]
      OBVIOUS
    <2>4. /\ attempts' = [attempts EXCEPT ![a] = row]
          /\ mandates' = Settlement(a, 0, Charged(outcome, final))
      BY <1>1, <1>2, <1>11, <2>1, <2>2, <2>3 DEF ApplyReconciliation
    <2>5. CASE outcome = "executed_charge_succeeded"
      BY <1>3, <2>1, <2>3, <2>4, <2>5 DEF Charged
    <2>6. CASE outcome # "executed_charge_succeeded"
      <3>1. row.status # "executed_charge_succeeded"
        BY <1>1, <2>3, <2>6 DEF AttemptRecords
      <3>2. mandates' = Settlement(a, 0, 0)
        BY <2>4, <2>6 DEF Charged
      <3>3. QED
        BY <1>4, <2>1, <2>4, <3>1, <3>2
    <2>7. QED
      BY <2>5, <2>6
  <1>12. QED
    BY <1>6, <1>7, <1>8, <1>9, <1>10, <1>11

LEMMA ConsumedInvStep ==
    LedgerInv /\ LedgerInv' /\ ConsumedInv /\ [LedgerNext]_ledgerVars => ConsumedInv'
  <1> SUFFICES ASSUME LedgerInv, LedgerInv', ConsumedInv, [LedgerNext]_ledgerVars
               PROVE  ConsumedInv'
    OBVIOUS
  <1>1. ASSUME NEW m \in Mandates, NEW terms \in Terms, CreateMandate(m, terms)
        PROVE  ConsumedInv'
    <2>1. mandates[m].consumed = 0 /\ attempts' = attempts
      BY <1>1 DEF CreateMandate, LedgerInv, StoredRows
    <2>2. \A n \in Mandates : mandates'[n].consumed = mandates[n].consumed
      BY <1>1, <2>1 DEF CreateMandate, LedgerInv, LedgerTypeOK
    <2>3. QED
      BY <2>1, <2>2, NothingConsumed DEF LedgerInv
  <1>2. ASSUME NEW m \in Mandates, RevokeMandate(m) PROVE ConsumedInv'
    <2>1. \A n \in Mandates : mandates'[n].consumed = mandates[n].consumed
      BY <1>2 DEF RevokeMandate, LedgerInv, LedgerTypeOK, MandateRecords
    <2>2. attempts' = attempts
      BY <1>2 DEF RevokeMandate
    <2>3. QED
      BY <2>1, <2>2, NothingConsumed DEF LedgerInv
  <1>3. ASSUME NEW m \in Mandates, MandateExpiryPasses(m) PROVE ConsumedInv'
    BY <1>3, NothingConsumed DEF MandateExpiryPasses, LedgerInv
  <1>4. ASSUME NEW a \in Attempts, EscalationWindowPasses(a) PROVE ConsumedInv'
    <2>1. attempts[a] \in AttemptRecords
      BY DEF LedgerInv, LedgerTypeOK
    <2>2. PICK row : row = [attempts[a] EXCEPT !.window = "passed"]
      OBVIOUS
    <2>3. row.mandate = attempts[a].mandate /\ row.settled = attempts[a].settled
          /\ row.status = attempts[a].status
      BY <2>1, <2>2 DEF AttemptRecords
    <2>4. attempts' = [attempts EXCEPT ![a] = row] /\ mandates' = mandates
      BY <1>4, <2>2 DEF EscalationWindowPasses
    <2>5. QED
      BY <2>3, <2>4, RowMovesOn
  <1>5. CASE UNCHANGED ledgerVars
    BY <1>5, NothingConsumed DEF ledgerVars, LedgerInv
  <1>6. QED
    BY <1>1, <1>2, <1>3, <1>4, <1>5, RunAttemptConsumed, AttemptStepConsumed
    DEF LedgerNext, OperatorStep, ClockStep

\* The sum that the property writes down is the one of the invariant.
LEMMA ConsumedInvImplies == ConsumedInv => ConsumedIsAccounted
  <1> SUFFICES ASSUME ConsumedInv, NEW m \in Mandates
               PROVE  MapThenSumSet(LAMBDA a : attempts[a].settled, ChargedTo(m))
                        = SumOver(SettledOf, ChargedTo(m))
    BY DEF ConsumedIsAccounted, ConsumedInv
  <1> DEFINE total[s \in SUBSET ChargedTo(m)] ==
               IF s = {} THEN 0
                         ELSE attempts[Picked(s)].settled + total[s \ {Picked(s)}]
  <1>1. MapThenSumSet(LAMBDA a : attempts[a].settled, ChargedTo(m)) = total[ChargedTo(m)]
    BY DEF MapThenSumSet, MapThenFoldSet, Picked
  <1>2. \A g : g = [s \in SUBSET ChargedTo(m) |->
                      IF s = {} THEN 0
                                ELSE attempts[Picked(s)].settled + g[s \ {Picked(s)}]]
                 <=> IsSum(SettledOf, ChargedTo(m), g)
    <2>1. \A s \in SUBSET ChargedTo(m) :
            s # {} => SettledOf[Picked(s)] = attempts[Picked(s)].settled
      BY DEF Picked, SettledOf, ChargedTo
    <2>2. QED
      BY <2>1 DEF IsSum
  <1>3. \E g : IsSum(SettledOf, ChargedTo(m), g)
    BY SumsExist DEF ConsumedInv
  <1>4. IsSum(SettledOf, ChargedTo(m), total)
    BY <1>2, <1>3
  <1> HIDE DEF total
  <1>5. SumOver(SettledOf, ChargedTo(m)) = total[ChargedTo(m)]
    BY <1>4, SumOverIs DEF ConsumedInv
  <1>6. QED
    BY <1>1, <1>5

\* What a mandate has consumed is the sum of the final amounts in the outcome
\* events of its successful attempts and of no others, whatever the order of
\* the transactions, the number of attempts and the amounts vendors report.
THEOREM ConsumedStaysAccounted == LedgerSpec => []ConsumedIsAccounted
  <1>1. LedgerInit => ConsumedInv
    BY ConsumedInvInit
  <1>2. LedgerInv /\ LedgerInv' /\ ConsumedInv /\ [LedgerNext]_ledgerVars => ConsumedInv'
    BY ConsumedInvStep
  <1>3. LedgerSpec => []ConsumedInv
    BY <1>1, <1>2, LedgerInvariant, PTL DEF LedgerSpec
  <1>4. QED
    BY <1>3, ConsumedInvImplies, PTL

-----------------------------------------------------------------------------
(***************************************************************************)
(* Part 2.  The workers implement the ledger.                              *)
(***************************************************************************)
\* The parts of TypeOK that are not about the ledger.
ControlTypeOK ==
    /\ tasks \in Seq(TaskRecords)
    /\ workers \in [Workers -> WorkerRecords]
    /\ vendor \in [Attempts -> VendorStates]
    /\ dispatches \in [Attempts -> Nat]

\* What the record r of a worker may be while there are so many tasks.
Holds(r, number) ==
    /\ r.pc # "idle" => r.attempt \in Attempts /\ r.task \in 1 .. number
    /\ r.pc = "answered"
         => /\ r.result.outcome \in Outcomes
            /\ r.result.reported \in Reports
    /\ r.pc = "correlated"
         => /\ r.result.outcome \in CorrelatedOutcomes
            /\ r.result.reported \in Reports

WorkersHold == \A w \in Workers : Holds(workers[w], Len(tasks))

ControlInv == ControlTypeOK /\ WorkersHold

-----------------------------------------------------------------------------
(***************************************************************************)
(* The task queue.                                                         *)
(***************************************************************************)
QueueGrows == tasks' \in Seq(TaskRecords) /\ Len(tasks') >= Len(tasks)

LEMMA EnqueueGrows ==
    ASSUME ControlTypeOK, NEW a \in Attempts,
           EnqueueDispatch(a) \/ EnqueueReconcile(a)
    PROVE  QueueGrows
  <1>1. ASSUME NEW kind \in TaskKinds, tasks' = Append(tasks, NewTask(kind, a))
        PROVE  QueueGrows
    <2>1. NewTask(kind, a) \in TaskRecords
      BY DEF NewTask, TaskRecords, TaskStatuses
    <2>2. tasks \in Seq(TaskRecords)
      BY DEF ControlTypeOK
    <2>3. Append(tasks, NewTask(kind, a)) \in Seq(TaskRecords)
      BY <2>1, <2>2, AppendProperties
    <2>4. Len(Append(tasks, NewTask(kind, a))) = Len(tasks) + 1
      BY <2>1, <2>2, AppendProperties
    <2>5. Len(tasks) \in Nat
      BY <2>2
    <2>6. QED
      BY <1>1, <2>3, <2>4, <2>5 DEF QueueGrows
  <1>2. ASSUME tasks' = tasks PROVE QueueGrows
    <2>1. Len(tasks) \in Nat
      BY DEF ControlTypeOK
    <2>2. QED
      BY <1>2, <2>1 DEF QueueGrows, ControlTypeOK
  <1>3. QED
    BY <1>1, <1>2 DEF EnqueueDispatch, EnqueueReconcile, TaskKinds

LEMMA StatusChangeGrows ==
    ASSUME ControlTypeOK, NEW i \in 1 .. Len(tasks), NEW status \in TaskStatuses,
           tasks' = [tasks EXCEPT ![i].status = status]
    PROVE  QueueGrows
  <1> DEFINE task == [tasks[i] EXCEPT !.status = status]
  <1>1. tasks \in Seq(TaskRecords) /\ Len(tasks) \in Nat
    BY DEF ControlTypeOK
  <1>2. tasks[i] \in TaskRecords
    BY <1>1
  <1>3. task \in TaskRecords
    BY <1>2 DEF TaskRecords
  <1>4. tasks' = [tasks EXCEPT ![i] = task]
    BY <1>1
  <1> HIDE DEF task
  <1>5. tasks' \in Seq(TaskRecords) /\ Len(tasks') = Len(tasks)
    BY <1>1, <1>3, <1>4, ExceptSeq
  <1>6. QED
    BY <1>1, <1>5 DEF QueueGrows

LEMMA QueueStays ==
    ASSUME ControlTypeOK, tasks' = tasks
    PROVE  QueueGrows
  <1>1. Len(tasks) \in Nat
    BY DEF ControlTypeOK
  <1>2. QED
    BY <1>1 DEF QueueGrows, ControlTypeOK

-----------------------------------------------------------------------------
(***************************************************************************)
(* A step of one worker.                                                   *)
(***************************************************************************)
LEMMA WorkerMoves ==
    ASSUME ControlInv, NEW w \in Workers, NEW r \in WorkerRecords,
           workers' = [workers EXCEPT ![w] = r],
           QueueGrows,
           Holds(r, Len(tasks)),
           vendor' \in [Attempts -> VendorStates],
           dispatches' \in [Attempts -> Nat]
    PROVE  ControlInv'
  <1>1. ControlTypeOK'
    BY DEF ControlInv, ControlTypeOK, QueueGrows
  <1>2. Len(tasks) \in Nat /\ Len(tasks') \in Nat /\ Len(tasks') >= Len(tasks)
    BY DEF ControlInv, ControlTypeOK, QueueGrows
  <1>3. \A v \in Workers : Holds(workers'[v], Len(tasks))
    BY DEF ControlInv, ControlTypeOK, WorkersHold
  <1>4. \A v \in Workers : Holds(workers'[v], Len(tasks'))
    BY <1>2, <1>3 DEF Holds
  <1>5. QED
    BY <1>1, <1>4 DEF ControlInv, WorkersHold

LEMMA WorkersStay ==
    ASSUME ControlInv, workers' = workers,
           QueueGrows,
           vendor' \in [Attempts -> VendorStates],
           dispatches' \in [Attempts -> Nat]
    PROVE  ControlInv'
  <1>1. ControlTypeOK'
    BY DEF ControlInv, ControlTypeOK, QueueGrows
  <1>2. Len(tasks) \in Nat /\ Len(tasks') \in Nat /\ Len(tasks') >= Len(tasks)
    BY DEF ControlInv, ControlTypeOK, QueueGrows
  <1>3. \A v \in Workers : Holds(workers'[v], Len(tasks'))
    BY <1>2 DEF ControlInv, WorkersHold, Holds
  <1>4. QED
    BY <1>1, <1>3 DEF ControlInv, WorkersHold

\* A worker that stops.
LEMMA IdleHolds ==
    IdleWorker \in WorkerRecords /\ \A number : Holds(IdleWorker, number)
  BY ReportsAssumption DEF IdleWorker, WorkerRecords, NoResult, Results, Holds

\* A worker that goes on to a step at which it has no answer to write.
LEMMA GotoHolds ==
    ASSUME NEW number, NEW r \in WorkerRecords, Holds(r, number), r.pc # "idle",
           NEW pc \in (ExecutionSteps \cup ReconciliationSteps) \ {"answered", "correlated"}
    PROVE  /\ [r EXCEPT !.pc = pc] \in WorkerRecords
           /\ Holds([r EXCEPT !.pc = pc], number)
  BY DEF WorkerRecords, Holds, ExecutionSteps, ReconciliationSteps

\* A worker that goes on and forgets its answer or what it has seen.
LEMMA ForgetHolds ==
    ASSUME NEW number, NEW r \in WorkerRecords, Holds(r, number), r.pc # "idle",
           NEW pc \in (ExecutionSteps \cup ReconciliationSteps) \ {"answered", "correlated"},
           NEW seen \in AttemptStatuses \cup {"absent"},
           NEW r1, r1 = [r EXCEPT !.pc = pc, !.result = NoResult, !.seen = seen]
    PROVE  r1 \in WorkerRecords /\ Holds(r1, number)
  <1>1. NoResult \in Results
    BY ReportsAssumption DEF NoResult, Results
  <1>2. QED
    BY <1>1 DEF WorkerRecords, Holds, ExecutionSteps, ReconciliationSteps

\* A worker that has just leased a task.
LEMMA ClaimHolds ==
    ASSUME NEW number \in Nat, NEW i \in 1 .. number, NEW a \in Attempts
    PROVE  /\ [IdleWorker EXCEPT !.pc = "claimed", !.task = i, !.attempt = a] \in WorkerRecords
           /\ Holds([IdleWorker EXCEPT !.pc = "claimed", !.task = i, !.attempt = a], number)
  <1> DEFINE r == [IdleWorker EXCEPT !.pc = "claimed", !.task = i, !.attempt = a]
  <1>1. IdleWorker \in WorkerRecords
    BY IdleHolds
  <1>2. i \in Nat
    OBVIOUS
  <1>3. r \in WorkerRecords
    BY <1>1, <1>2 DEF WorkerRecords, ExecutionSteps
  <1>4. r.pc = "claimed" /\ r.task = i /\ r.attempt = a
    BY <1>1 DEF WorkerRecords
  <1>5. QED
    BY <1>3, <1>4 DEF Holds

\* What a step of worker w finds.
LEMMA WorkerFinds ==
    ASSUME ControlInv, NEW w \in Workers
    PROVE  /\ workers \in [Workers -> WorkerRecords]
           /\ workers[w] \in WorkerRecords
           /\ Holds(workers[w], Len(tasks))
           /\ workers[w].pc # "idle"
                => workers[w].attempt \in Attempts /\ workers[w].task \in 1 .. Len(tasks)
           /\ vendor \in [Attempts -> VendorStates]
           /\ dispatches \in [Attempts -> Nat]
  BY DEF ControlInv, ControlTypeOK, WorkersHold, Holds

\* The three ways to leave a step while the world outside stays as it is.
LEMMA StopInv ==
    ASSUME ControlInv, NEW w \in Workers, Stop(w), QueueGrows, UNCHANGED world
    PROVE  ControlInv'
  <1>1. IdleWorker \in WorkerRecords /\ Holds(IdleWorker, Len(tasks))
    BY IdleHolds
  <1>2. vendor' \in [Attempts -> VendorStates] /\ dispatches' \in [Attempts -> Nat]
    BY WorkerFinds DEF world
  <1>3. workers' = [workers EXCEPT ![w] = IdleWorker]
    BY DEF Stop
  <1>4. QED
    BY <1>1, <1>2, <1>3, WorkerMoves

LEMMA GotoInv ==
    ASSUME ControlInv, NEW w \in Workers, ~ At(w, "idle"),
           NEW pc \in (ExecutionSteps \cup ReconciliationSteps) \ {"answered", "correlated"},
           Goto(w, pc), QueueGrows,
           vendor' \in [Attempts -> VendorStates],
           dispatches' \in [Attempts -> Nat]
    PROVE  ControlInv'
  <1> DEFINE r == [workers[w] EXCEPT !.pc = pc]
  <1>1. r \in WorkerRecords /\ Holds(r, Len(tasks))
    BY WorkerFinds, GotoHolds DEF At
  <1>2. workers' = [workers EXCEPT ![w] = r]
    BY WorkerFinds DEF Goto
  <1> HIDE DEF r
  <1>3. QED
    BY <1>1, <1>2, WorkerMoves

LEMMA ForgetInv ==
    ASSUME ControlInv, NEW w \in Workers, ~ At(w, "idle"),
           NEW pc \in (ExecutionSteps \cup ReconciliationSteps) \ {"answered", "correlated"},
           NEW seen \in AttemptStatuses \cup {"absent"},
           workers' = [workers EXCEPT ![w] =
             [workers[w] EXCEPT !.pc = pc, !.result = NoResult, !.seen = seen]],
           QueueGrows, UNCHANGED world
    PROVE  ControlInv'
  <1> DEFINE r == [workers[w] EXCEPT !.pc = pc, !.result = NoResult, !.seen = seen]
  <1>1. r \in WorkerRecords /\ Holds(r, Len(tasks))
    BY WorkerFinds, ForgetHolds DEF At
  <1>2. vendor' \in [Attempts -> VendorStates] /\ dispatches' \in [Attempts -> Nat]
    BY WorkerFinds DEF world
  <1> HIDE DEF r
  <1>3. workers' = [workers EXCEPT ![w] = r]
    BY DEF r
  <1>4. QED
    BY <1>1, <1>2, <1>3, WorkerMoves

LEMMA LearnInv ==
    ASSUME ControlInv, NEW w \in Workers, ~ At(w, "idle"),
           NEW pc \in {"answered", "correlated"},
           NEW outcome \in Outcomes, NEW reported \in Reports, NEW signed \in BOOLEAN,
           pc = "correlated" => outcome \in CorrelatedOutcomes,
           Learn(w, pc, outcome, reported, signed), tasks' = tasks, UNCHANGED world
    PROVE  ControlInv'
  <1> DEFINE result == [outcome |-> outcome, reported |-> reported, signed |-> signed]
             r == [workers[w] EXCEPT !.pc = pc, !.result = result]
  <1>1. result \in Results
    BY DEF Results
  <1>2. result.outcome = outcome /\ result.reported = reported
    OBVIOUS
  <1>3. workers' = [workers EXCEPT ![w] = r]
    BY WorkerFinds DEF Learn
  <1> HIDE DEF result
  <1>4. r \in WorkerRecords
    BY WorkerFinds, <1>1 DEF WorkerRecords, ExecutionSteps, ReconciliationSteps
  <1>5. Holds(r, Len(tasks))
    BY WorkerFinds, <1>2 DEF Holds, WorkerRecords, At
  <1>6. vendor' \in [Attempts -> VendorStates] /\ dispatches' \in [Attempts -> Nat]
    BY WorkerFinds DEF world
  <1>7. QueueGrows
    BY QueueStays DEF ControlInv
  <1> HIDE DEF r
  <1>8. QED
    BY <1>3, <1>4, <1>5, <1>6, <1>7, WorkerMoves

-----------------------------------------------------------------------------
(***************************************************************************)
(* Every step keeps the control invariant.                                 *)
(***************************************************************************)
LEMMA OperatorControl ==
    ASSUME ControlInv,
           Operator \/ LedgerClock \/ TaskClock
             \/ \E a \in Attempts : EnsureReconciliationQueued(a) \/ VendorSettles(a)
    PROVE  ControlInv'
  <1>1. ControlTypeOK /\ vendor \in [Attempts -> VendorStates] /\ dispatches \in [Attempts -> Nat]
    BY DEF ControlInv, ControlTypeOK
  <1>2. CASE Operator
    <2>1. UNCHANGED <<workers, world>>
      BY <1>2 DEF Operator
    <2>2. tasks' = tasks \/ \E a \in Attempts : EnqueueDispatch(a)
      BY <1>2 DEF Operator
    <2>3. QueueGrows
      BY <1>1, <2>2, QueueStays, EnqueueGrows
    <2>4. QED
      BY <1>1, <2>1, <2>3, WorkersStay DEF world
  <1>3. CASE LedgerClock
    BY <1>1, <1>3, QueueStays, WorkersStay DEF LedgerClock, world
  <1>4. CASE TaskClock
    <2>1. PICK i \in 1 .. Len(tasks) : LeaseExpires(i) \/ RetryDelayElapses(i)
      BY <1>1, <1>4 DEF TaskClock, ControlTypeOK
    <2>2. QueueGrows
      BY <1>1, <2>1, StatusChangeGrows DEF LeaseExpires, RetryDelayElapses, TaskStatuses
    <2>3. QED
      BY <1>1, <1>4, <2>2, WorkersStay DEF TaskClock, world
  <1>5. ASSUME NEW a \in Attempts, EnsureReconciliationQueued(a)
        PROVE  ControlInv'
    <2>1. QueueGrows
      BY <1>1, <1>5, EnqueueGrows DEF EnsureReconciliationQueued
    <2>2. QED
      BY <1>1, <1>5, <2>1, WorkersStay DEF EnsureReconciliationQueued, world
  <1>6. ASSUME NEW a \in Attempts, VendorSettles(a)
        PROVE  ControlInv'
    <2>1. tasks' = tasks /\ workers' = workers /\ dispatches' = dispatches
      BY <1>6 DEF VendorSettles
    <2>2. PICK verdict \in {"charged", "refused"} : vendor' = [vendor EXCEPT ![a] = verdict]
      BY <1>6 DEF VendorSettles
    <2>3. vendor' \in [Attempts -> VendorStates]
      BY <1>1, <2>2 DEF VendorStates
    <2>4. QED
      BY <1>1, <2>1, <2>3, QueueStays, WorkersStay
  <1>7. QED
    BY <1>2, <1>3, <1>4, <1>5, <1>6

\* The steps of an execution worker between its claim and its last write.
LEMMA DispatchControl ==
    ASSUME ControlInv, NEW w \in Workers,
           \/ ClaimAttempt(w) \/ Preflight(w) \/ SendToVendor(w) \/ AdapterThrows(w)
           \/ VendorAnswers(w) \/ DispatchTimesOut(w) \/ TransportFails(w)
           \/ ApplyDispatchResult(w) \/ DispatchStoreThrows(w) \/ ReleaseDispatch(w)
    PROVE  ControlInv'
  <1>1. ControlTypeOK /\ vendor \in [Attempts -> VendorStates] /\ dispatches \in [Attempts -> Nat]
    BY DEF ControlInv, ControlTypeOK
  <1>2. CASE ClaimAttempt(w)
    <2>1. QueueGrows /\ ~ At(w, "idle") /\ UNCHANGED world
      BY <1>1, <1>2, QueueStays DEF ClaimAttempt, At
    <2>2. Goto(w, "marked") \/ Stop(w)
      BY <1>2 DEF ClaimAttempt
    <2>3. QED
      BY <1>1, <2>1, <2>2, GotoInv, StopInv DEF world, ExecutionSteps
  <1>3. CASE Preflight(w)
    <2>1. QueueGrows /\ ~ At(w, "idle") /\ UNCHANGED world
      BY <1>1, <1>3, QueueStays DEF Preflight, At
    <2>2. Goto(w, "cleared") \/ Goto(w, "releasing")
      BY <1>3 DEF Preflight
    <2>3. QED
      BY <1>1, <2>1, <2>2, GotoInv DEF world, ExecutionSteps
  <1>4. CASE SendToVendor(w)
    <2> DEFINE a == workers[w].attempt
    <2>1. QueueGrows /\ ~ At(w, "idle") /\ Goto(w, "sent")
      BY <1>1, <1>4, QueueStays DEF SendToVendor, At
    <2>2. a \in Attempts
      BY <2>1, WorkerFinds DEF At
    <2>3. /\ vendor' = [vendor EXCEPT ![a] = "inflight"]
          /\ dispatches' = [dispatches EXCEPT ![a] = @ + 1]
      BY <1>4 DEF SendToVendor
    <2>4. vendor' \in [Attempts -> VendorStates]
      BY <1>1, <2>3 DEF VendorStates
    <2>5. dispatches' \in [Attempts -> Nat]
      BY <1>1, <2>2, <2>3
    <2>6. QED
      BY <2>1, <2>4, <2>5, GotoInv DEF ExecutionSteps
  <1>5. CASE AdapterThrows(w)
    <2>1. QueueGrows /\ ~ At(w, "idle") /\ Goto(w, "releasing") /\ UNCHANGED world
      BY <1>1, <1>5, QueueStays DEF AdapterThrows, At
    <2>2. QED
      BY <1>1, <2>1, GotoInv DEF world, ExecutionSteps
  <1>6. CASE VendorAnswers(w)
    <2>1. ~ At(w, "idle") /\ tasks' = tasks /\ UNCHANGED world
      BY <1>6 DEF VendorAnswers, At
    <2>2. \E reported \in Reports, outcome \in CorrelatedOutcomes :
            Learn(w, "answered", outcome, reported, FALSE)
      BY <1>6 DEF VendorAnswers, CorrelatedOutcomes
    <2>3. QED
      BY <2>1, <2>2, LearnInv DEF Outcomes, CorrelatedOutcomes
  <1>7. CASE DispatchTimesOut(w)
    <2>1. ~ At(w, "idle") /\ tasks' = tasks /\ UNCHANGED world
      BY <1>7 DEF DispatchTimesOut, At
    <2>2. QED
      BY <1>7, <2>1, LearnInv, ReportsAssumption DEF DispatchTimesOut, Outcomes
  <1>8. CASE TransportFails(w)
    <2>1. ~ At(w, "idle") /\ tasks' = tasks /\ UNCHANGED world
      BY <1>8 DEF TransportFails, At
    <2>2. QED
      BY <1>8, <2>1, LearnInv, ReportsAssumption DEF TransportFails, Outcomes
  <1>9. CASE ApplyDispatchResult(w)
    <2>1. ~ At(w, "idle") /\ UNCHANGED world /\ GotoApplied(w)
      BY <1>9 DEF ApplyDispatchResult, At
    <2>2. workers[w].attempt \in Attempts
      BY <2>1, WorkerFinds DEF At
    <2>3. QueueGrows
      BY <1>1, <1>9, <2>2, QueueStays, EnqueueGrows DEF ApplyDispatchResult
    <2>4. workers[w].seen \in AttemptStatuses \cup {"absent"}
      BY WorkerFinds DEF WorkerRecords
    <2>5. workers' = [workers EXCEPT ![w] =
            [workers[w] EXCEPT !.pc = "applied", !.result = NoResult, !.seen = workers[w].seen]]
      BY <2>1, WorkerFinds DEF GotoApplied, WorkerRecords
    <2>6. QED
      BY <2>1, <2>3, <2>4, <2>5, ForgetInv DEF ExecutionSteps
  <1>10. CASE DispatchStoreThrows(w)
    <2>1. QueueGrows /\ ~ At(w, "idle") /\ UNCHANGED world
      BY <1>1, <1>10, QueueStays DEF DispatchStoreThrows, At
    <2>2. workers[w].seen \in AttemptStatuses \cup {"absent"}
      BY WorkerFinds DEF WorkerRecords
    <2>3. workers' = [workers EXCEPT ![w] =
            [workers[w] EXCEPT !.pc = "releasing", !.result = NoResult, !.seen = workers[w].seen]]
      BY <1>10, WorkerFinds DEF DispatchStoreThrows, WorkerRecords
    <2>4. QED
      BY <2>1, <2>2, <2>3, ForgetInv DEF ExecutionSteps
  <1>11. CASE ReleaseDispatch(w)
    <2>1. QueueGrows /\ ~ At(w, "idle") /\ UNCHANGED world
      BY <1>1, <1>11, QueueStays DEF ReleaseDispatch, At
    <2>2. Goto(w, "released") \/ Stop(w)
      BY <1>11 DEF ReleaseDispatch
    <2>3. QED
      BY <1>1, <2>1, <2>2, GotoInv, StopInv DEF world, ExecutionSteps
  <1>12. QED
    BY <1>2, <1>3, <1>4, <1>5, <1>6, <1>7, <1>8, <1>9, <1>10, <1>11

\* The steps of a reconciler between its lease and its last write.
LEMMA ReconcileControl ==
    ASSUME ControlInv, LedgerTypeOK, NEW w \in Workers,
           \/ ReadAttempt(w) \/ CorrelateAttemptStatus(w) \/ CorrelationThrows(w)
           \/ ApplyReconciliationResult(w) \/ ReconciliationThrows(w)
    PROVE  ControlInv'
  <1>1. ControlTypeOK /\ vendor \in [Attempts -> VendorStates] /\ dispatches \in [Attempts -> Nat]
    BY DEF ControlInv, ControlTypeOK
  <1>2. CASE ReadAttempt(w)
    <2> DEFINE r == [workers[w] EXCEPT !.pc = "read",
                                       !.seen = attempts[workers[w].attempt].status]
    <2>1. QueueGrows /\ ~ At(w, "idle") /\ UNCHANGED world
      BY <1>1, <1>2, QueueStays DEF ReadAttempt, At
    <2>2. workers[w].attempt \in Attempts
      BY <2>1, WorkerFinds DEF At
    <2>3. attempts[workers[w].attempt].status \in AttemptStatuses \cup {"absent"}
      BY <2>2 DEF LedgerTypeOK, AttemptRecords
    <2>4. r \in WorkerRecords /\ Holds(r, Len(tasks))
      BY <2>1, <2>3, WorkerFinds DEF WorkerRecords, Holds, ReconciliationSteps, At
    <2>5. workers' = [workers EXCEPT ![w] = r]
      BY <1>2, WorkerFinds DEF ReadAttempt
    <2> HIDE DEF r
    <2>6. QED
      BY <1>1, <2>1, <2>4, <2>5, WorkerMoves DEF world
  <1>3. CASE CorrelateAttemptStatus(w)
    <2>1. ~ At(w, "idle") /\ tasks' = tasks /\ UNCHANGED world
      BY <1>3 DEF CorrelateAttemptStatus, At
    <2>2. \E reported \in Reports, outcome \in CorrelatedOutcomes :
            Learn(w, "correlated", outcome, reported, FALSE)
      BY <1>3, ReportsAssumption DEF CorrelateAttemptStatus, CorrelatedOutcomes
    <2>3. QED
      BY <2>1, <2>2, LearnInv DEF Outcomes, CorrelatedOutcomes
  <1>4. ASSUME CaughtReconciliation(w), ~ At(w, "idle"), tasks' = tasks, UNCHANGED world
        PROVE  ControlInv'
    <2>1. QueueGrows
      BY <1>1, <1>4, QueueStays
    <2>2. PICK pc \in {"requeueing", "failing"} :
            workers' = [workers EXCEPT ![w].result = NoResult, ![w].seen = "absent",
                                       ![w].pc = pc]
      BY <1>4 DEF CaughtReconciliation
    <2>3. workers' = [workers EXCEPT ![w] =
            [workers[w] EXCEPT !.pc = pc, !.result = NoResult, !.seen = "absent"]]
      BY <2>2, WorkerFinds DEF WorkerRecords
    <2>4. QED
      BY <1>4, <2>1, <2>3, ForgetInv DEF ReconciliationSteps
  <1>5. CASE CorrelationThrows(w)
    BY <1>4, <1>5 DEF CorrelationThrows, At
  <1>6. CASE ReconciliationThrows(w)
    BY <1>4, <1>6 DEF ReconciliationThrows, At
  <1>7. CASE ApplyReconciliationResult(w)
    <2>1. QueueGrows /\ ~ At(w, "idle") /\ UNCHANGED world /\ GotoApplied(w)
      BY <1>1, <1>7, QueueStays DEF ApplyReconciliationResult, At
    <2>2. workers[w].seen \in AttemptStatuses \cup {"absent"}
      BY WorkerFinds DEF WorkerRecords
    <2>3. workers' = [workers EXCEPT ![w] =
            [workers[w] EXCEPT !.pc = "applied", !.result = NoResult, !.seen = workers[w].seen]]
      BY <2>1, WorkerFinds DEF GotoApplied, WorkerRecords
    <2>4. QED
      BY <2>1, <2>2, <2>3, ForgetInv DEF ExecutionSteps
  <1>8. QED
    BY <1>2, <1>3, <1>5, <1>6, <1>7

\* The steps that take a task, give it back or drop it.
LEMMA TaskControl ==
    ASSUME ControlInv, NEW w \in Workers,
           \/ LeaseNextWorkerTask(w) \/ CompleteWorkerTask(w) \/ FailWorkerTask(w)
           \/ RequeueWorkerTask(w) \/ Crash(w)
    PROVE  ControlInv'
  <1>1. ControlTypeOK /\ vendor \in [Attempts -> VendorStates] /\ dispatches \in [Attempts -> Nat]
    BY DEF ControlInv, ControlTypeOK
  <1>2. CASE LeaseNextWorkerTask(w)
    <2>1. PICK i \in DOMAIN tasks :
            /\ LeaseTask(KindOf(w), i)
            /\ workers' = [workers EXCEPT ![w] =
                 [IdleWorker EXCEPT !.pc = "claimed", !.task = i,
                                    !.attempt = tasks[i].attempt]]
      BY <1>2 DEF LeaseNextWorkerTask
    <2> DEFINE r == [IdleWorker EXCEPT !.pc = "claimed", !.task = i,
                                       !.attempt = tasks[i].attempt]
    <2>2. i \in 1 .. Len(tasks) /\ tasks[i] \in TaskRecords /\ Len(tasks) \in Nat
      BY <1>1 DEF ControlTypeOK
    <2>3. tasks[i].attempt \in Attempts
      BY <2>2 DEF TaskRecords
    <2>4. r \in WorkerRecords /\ Holds(r, Len(tasks))
      BY <2>2, <2>3, ClaimHolds
    <2>5. QueueGrows
      BY <1>1, <2>1, <2>2, StatusChangeGrows DEF LeaseTask, TaskStatuses
    <2>6. UNCHANGED world /\ workers' = [workers EXCEPT ![w] = r]
      BY <1>2, <2>1 DEF LeaseNextWorkerTask
    <2> HIDE DEF r
    <2>7. QED
      BY <1>1, <2>4, <2>5, <2>6, WorkerMoves DEF world
  <1>3. CASE CompleteWorkerTask(w) \/ FailWorkerTask(w) \/ RequeueWorkerTask(w)
    <2>1. ~ At(w, "idle") /\ Stop(w) /\ UNCHANGED world
      BY <1>3 DEF CompleteWorkerTask, FailWorkerTask, RequeueWorkerTask, At
    <2>2. workers[w].task \in 1 .. Len(tasks)
      BY <2>1, WorkerFinds DEF At
    <2>3. PICK status \in TaskStatuses :
            tasks' = [tasks EXCEPT ![workers[w].task].status = status]
      BY <1>3
      DEF CompleteWorkerTask, FailWorkerTask, RequeueWorkerTask,
          CompleteTask, FailTask, RequeueTask, TaskStatuses
    <2>4. QueueGrows
      BY <1>1, <2>2, <2>3, StatusChangeGrows
    <2>5. QED
      BY <2>1, <2>4, StopInv
  <1>4. CASE Crash(w)
    <2>1. QueueGrows
      BY <1>1, <1>4, QueueStays DEF Crash
    <2>2. QED
      BY <1>4, <2>1, StopInv DEF Crash
  <1>5. QED
    BY <1>2, <1>3, <1>4

LEMMA ControlInit == Init => ControlInv
  <1> SUFFICES ASSUME Init PROVE ControlInv
    OBVIOUS
  <1>1. ControlTypeOK
    BY IdleHolds DEF Init, ControlTypeOK, VendorStates
  <1>2. \A w \in Workers : workers[w] = IdleWorker
    BY DEF Init
  <1>3. QED
    BY <1>1, <1>2, IdleHolds DEF ControlInv, WorkersHold

LEMMA ControlStep == LedgerTypeOK /\ ControlInv /\ [Next]_vars => ControlInv'
  <1> SUFFICES ASSUME LedgerTypeOK, ControlInv, [Next]_vars PROVE ControlInv'
    OBVIOUS
  <1>1. ASSUME NEW w \in Workers, WorkerStep(w) \/ FaultStep(w)
        PROVE  ControlInv'
    BY <1>1, DispatchControl, ReconcileControl, TaskControl DEF WorkerStep, FaultStep
  <1>2. CASE UNCHANGED vars
    BY <1>2
    DEF vars, ControlInv, ControlTypeOK, WorkersHold, Holds
  <1>3. QED
    BY <1>1, <1>2, OperatorControl DEF Next

-----------------------------------------------------------------------------
(***************************************************************************)
(* Every step is a step of the ledger or invisible to it.                  *)
(***************************************************************************)
LEMMA WorkerStepIsLedgerStep ==
    ASSUME ControlInv, NEW w \in Workers, WorkerStep(w) \/ FaultStep(w)
    PROVE  [LedgerNext]_ledgerVars
  <1> DEFINE a == workers[w].attempt
  <1>1. workers[w].pc # "idle" => a \in Attempts
    BY WorkerFinds
  <1>2. CASE ClaimAttempt(w)
    <2>1. MarkDispatching(a) \/ UNCHANGED ledgerVars
      BY <1>2 DEF ClaimAttempt
    <2>2. a \in Attempts
      BY <1>1, <1>2 DEF ClaimAttempt, At
    <2>3. QED
      BY <2>1, <2>2 DEF AttemptStep, LedgerNext
  <1>3. CASE ApplyDispatchResult(w)
    <2>1. a \in Attempts
      BY <1>1, <1>3 DEF ApplyDispatchResult, At
    <2>2. workers[w].result.reported \in Reports
      BY <1>3, WorkerFinds DEF ApplyDispatchResult, At, Holds
    <2>3. workers[w].result.signed \in BOOLEAN
      BY WorkerFinds DEF WorkerRecords, Results
    <2>4. \/ \E reported \in Reports : ApplyDispatchSucceeded(a, reported)
          \/ \E reported \in Reports : ApplyDispatchFailed(a, reported)
          \/ \E signed \in BOOLEAN : ApplyDispatchUnknown(a, signed)
      BY <1>3, <2>2, <2>3 DEF ApplyDispatchResult
    <2>5. QED
      BY <2>1, <2>4 DEF AttemptStep, LedgerNext
  <1>4. CASE ReleaseDispatch(w)
    <2>1. ReleaseAttempt(a) \/ UNCHANGED ledgerVars
      BY <1>4 DEF ReleaseDispatch
    <2>2. a \in Attempts
      BY <1>1, <1>4 DEF ReleaseDispatch, At
    <2>3. QED
      BY <2>1, <2>2 DEF AttemptStep, LedgerNext
  <1>5. CASE ApplyReconciliationResult(w)
    <2> DEFINE outcome == workers[w].result.outcome
               reported == workers[w].result.reported
    <2>1. a \in Attempts
      BY <1>1, <1>5 DEF ApplyReconciliationResult, At
    <2>2. outcome \in CorrelatedOutcomes /\ reported \in Reports
      BY <1>5, WorkerFinds DEF ApplyReconciliationResult, At, Holds
    <2>3. ApplyReconciliation(a, outcome, reported)
      BY <1>5 DEF ApplyReconciliationResult
    <2>4. QED
      BY <2>1, <2>2, <2>3 DEF AttemptStep, LedgerNext
  <1>6. CASE \/ LeaseNextWorkerTask(w) \/ Preflight(w) \/ SendToVendor(w)
             \/ AdapterThrows(w) \/ VendorAnswers(w) \/ DispatchTimesOut(w)
             \/ CompleteWorkerTask(w) \/ FailWorkerTask(w)
    BY <1>6
    DEF LeaseNextWorkerTask, Preflight, SendToVendor, AdapterThrows, VendorAnswers,
        DispatchTimesOut, CompleteWorkerTask, FailWorkerTask
  <1>7. CASE \/ ReadAttempt(w) \/ CorrelateAttemptStatus(w) \/ CorrelationThrows(w)
             \/ ReconciliationThrows(w) \/ RequeueWorkerTask(w)
    BY <1>7
    DEF ReadAttempt, CorrelateAttemptStatus, CorrelationThrows, ReconciliationThrows,
        RequeueWorkerTask
  <1>8. CASE Crash(w) \/ DispatchStoreThrows(w) \/ TransportFails(w)
    BY <1>8 DEF Crash, DispatchStoreThrows, TransportFails
  <1>9. QED
    BY <1>2, <1>3, <1>4, <1>5, <1>6, <1>7, <1>8 DEF WorkerStep, FaultStep

LEMMA StepIsLedgerStep == ControlInv /\ [Next]_vars => [LedgerNext]_ledgerVars
  <1> SUFFICES ASSUME ControlInv, [Next]_vars PROVE [LedgerNext]_ledgerVars
    OBVIOUS
  <1>1. CASE Operator
    <2>1. OperatorStep
      BY <1>1 DEF Operator, OperatorStep, RunAttempt
    <2>2. QED
      BY <2>1 DEF LedgerNext
  <1>2. CASE LedgerClock
    BY <1>2 DEF LedgerClock, LedgerNext
  <1>3. CASE TaskClock \/ \E a \in Attempts : EnsureReconciliationQueued(a) \/ VendorSettles(a)
    BY <1>3 DEF TaskClock, EnsureReconciliationQueued, VendorSettles
  <1>4. CASE \E w \in Workers : WorkerStep(w) \/ FaultStep(w)
    BY <1>4, WorkerStepIsLedgerStep
  <1>5. CASE UNCHANGED vars
    BY <1>5 DEF vars, ledgerVars
  <1>6. QED
    BY <1>1, <1>2, <1>3, <1>4, <1>5 DEF Next

-----------------------------------------------------------------------------
\* The invariant on which the theorems rest.
WorkerInv == LedgerInv /\ ControlInv

THEOREM WorkerInvariant == Spec => []WorkerInv
  <1>1. Init => WorkerInv
    BY LedgerInvInit, ControlInit DEF Init, WorkerInv
  <1>2. WorkerInv /\ [Next]_vars => WorkerInv'
    BY LedgerInvStep, StepIsLedgerStep, ControlStep DEF WorkerInv, LedgerInv
  <1>3. QED
    BY <1>1, <1>2, PTL DEF Spec

\* The workers, with all the faults, do nothing to mandates and attempts that
\* the ledger does not allow: what is proved of its transactions in any order
\* holds of the running system.
THEOREM WorkersImplementLedger == Spec => LedgerSpec
  <1>1. Init => LedgerInit
    BY DEF Init
  <1>2. WorkerInv /\ [Next]_vars => [LedgerNext]_ledgerVars
    BY StepIsLedgerStep DEF WorkerInv
  <1>3. QED
    BY <1>1, <1>2, WorkerInvariant, PTL DEF Spec, LedgerSpec

\* Tasks, workers and rows keep their shapes, and no counter becomes negative,
\* however many workers there are and whatever fails.
THEOREM WorkersTypeCorrect == Spec => []TypeOK
  <1>1. WorkerInv => TypeOK
    BY DEF WorkerInv, LedgerInv, ControlInv, ControlTypeOK, TypeOK
  <1>2. QED
    BY <1>1, WorkerInvariant, PTL

\* No interleaving and no fault of the workers spends more than a mandate's cap.
THEOREM WorkersKeepBudget == Spec => []BudgetNeverExceeded
  <1>1. WorkerInv => BudgetNeverExceeded
    BY DEF WorkerInv, LedgerInv
  <1>2. QED
    BY <1>1, WorkerInvariant, PTL

\* Workers that are late never overwrite the outcome of an attempt that another
\* one resolved, nor reopen a mandate that was closed meanwhile.
THEOREM WorkersKeepOutcomes == Spec => OutcomesAreFinal
  <1>1. QED
    BY WorkersImplementLedger, OutcomesStayFinal, PTL

-----------------------------------------------------------------------------
(***************************************************************************)
(* At most one call of the vendor.                                         *)
(*                                                                         *)
(* A worker that has claimed an attempt owns it until it is done with it.  *)
(* No second worker can come to own it: the claim needs an attempt that is *)
(* dispatch_queued, no owned attempt is, and no step leads back there.     *)
(***************************************************************************)
Started(attempt) == attempt.status \notin {"absent", "policy_denied", "dispatch_queued"}

\* A worker at one of these steps relies on its attempt being dispatching.
Bound == {"marked", "cleared", "sent", "answered"}
Unsent == {"marked", "cleared"}

\* Only an execution worker gets to the steps of a dispatch, and it gets to no
\* step of a reconciliation.
KeepsRole(w, r) ==
    /\ r.pc \in Bound \cup {"releasing"} => w \in ExecutionWorkers
    /\ r.pc \in {"read", "correlated"} => w \notin ExecutionWorkers

Owns(w, r) == w \in ExecutionWorkers /\ r.pc \in Bound \cup {"applied", "releasing"}

CalledOnce ==
    \A a \in Attempts :
      /\ dispatches[a] <= 1
      /\ ~ Started(attempts[a]) => dispatches[a] = 0

OwnersAgree ==
    \A w \in Workers :
      /\ KeepsRole(w, workers[w])
      /\ Owns(w, workers[w]) => Started(attempts[workers[w].attempt])
      /\ workers[w].pc \in Bound => attempts[workers[w].attempt].status = "dispatching"
      /\ workers[w].pc \in Unsent => dispatches[workers[w].attempt] = 0

OneOwner ==
    \A v, w \in Workers :
      Owns(v, workers[v]) /\ Owns(w, workers[w])
        /\ workers[v].attempt = workers[w].attempt => v = w

DispatchInv == CalledOnce /\ OwnersAgree /\ OneOwner

\* What an owner has.
LEMMA OwnerFinds ==
    ASSUME ControlInv, DispatchInv, NEW w \in Workers
    PROVE  /\ Owns(w, workers[w]) => workers[w].attempt \in Attempts
           /\ workers[w].pc \in Bound => Owns(w, workers[w])
  <1>1. workers[w].pc # "idle" => workers[w].attempt \in Attempts
    BY WorkerFinds
  <1>2. Owns(w, workers[w]) => workers[w].pc # "idle"
    BY DEF Owns, Bound
  <1>3. workers[w].pc \in Bound => w \in ExecutionWorkers
    BY DEF DispatchInv, OwnersAgree, KeepsRole
  <1>4. workers[w].pc \in Bound => Owns(w, workers[w])
    BY <1>3 DEF Owns
  <1>5. QED
    BY <1>1, <1>2, <1>4

\* A step after which worker w owns nothing new and no vendor was called.
LEMMA OwnersStay ==
    ASSUME ControlInv, DispatchInv, NEW w \in Workers, NEW r,
           workers' = [workers EXCEPT ![w] = r],
           dispatches' = dispatches,
           KeepsRole(w, r),
           Owns(w, r) => Owns(w, workers[w]) /\ r.attempt = workers[w].attempt,
           r.pc \in Bound => workers[w].pc \in Bound /\ r.attempt = workers[w].attempt,
           r.pc \in Unsent => workers[w].pc \in Unsent,
           \A a \in Attempts :
             /\ Started(attempts[a]) => Started(attempts'[a])
             /\ attempts[a].status = "dispatching" /\ attempts'[a].status # "dispatching"
                  => /\ Owns(w, workers[w]) /\ workers[w].attempt = a
                     /\ r.pc \notin Bound
    PROVE  DispatchInv'
  <1>1. workers'[w] = r /\ \A v \in Workers \ {w} : workers'[v] = workers[v]
    BY WorkerFinds
  <1>2. ASSUME NEW v \in Workers
        PROVE  /\ KeepsRole(v, workers'[v])
               /\ Owns(v, workers'[v])
                    => Owns(v, workers[v]) /\ workers'[v].attempt = workers[v].attempt
               /\ workers'[v].pc \in Bound
                    => workers[v].pc \in Bound /\ workers'[v].attempt = workers[v].attempt
               /\ workers'[v].pc \in Unsent => workers[v].pc \in Unsent
    <2>1. CASE v = w
      BY <1>1, <2>1
    <2>2. CASE v # w
      BY <1>1, <2>2 DEF DispatchInv, OwnersAgree
    <2>3. QED
      BY <2>1, <2>2
  <1>3. CalledOnce'
    BY DEF DispatchInv, CalledOnce
  <1>4. OwnersAgree'
    <2> SUFFICES ASSUME NEW v \in Workers
                 PROVE  /\ KeepsRole(v, workers'[v])
                        /\ Owns(v, workers'[v]) => Started(attempts'[workers'[v].attempt])
                        /\ workers'[v].pc \in Bound
                             => attempts'[workers'[v].attempt].status = "dispatching"
                        /\ workers'[v].pc \in Unsent => dispatches'[workers'[v].attempt] = 0
      BY DEF OwnersAgree, Owns, Started, KeepsRole
    <2>1. KeepsRole(v, workers'[v])
      BY <1>2
    <2>2. Owns(v, workers'[v]) => Started(attempts'[workers'[v].attempt])
      BY <1>2, OwnerFinds DEF DispatchInv, OwnersAgree
    <2>3. ASSUME workers'[v].pc \in Bound
          PROVE  attempts'[workers'[v].attempt].status = "dispatching"
      <3>1. /\ workers[v].pc \in Bound /\ workers'[v].attempt = workers[v].attempt
            /\ Owns(v, workers[v]) /\ workers[v].attempt \in Attempts
        BY <1>2, <2>3, OwnerFinds
      <3>2. attempts[workers[v].attempt].status = "dispatching"
        BY <3>1 DEF DispatchInv, OwnersAgree
      <3>3. ASSUME attempts'[workers[v].attempt].status # "dispatching" PROVE FALSE
        <4>1. Owns(w, workers[w]) /\ workers[w].attempt = workers[v].attempt /\ r.pc \notin Bound
          BY <3>1, <3>2, <3>3
        <4>2. v = w
          BY <3>1, <4>1 DEF DispatchInv, OneOwner
        <4>3. QED
          BY <1>1, <2>3, <4>1, <4>2
      <3>4. QED
        BY <3>1, <3>3
    <2>4. workers'[v].pc \in Unsent => dispatches'[workers'[v].attempt] = 0
      BY <1>2 DEF DispatchInv, OwnersAgree, Unsent, Bound
    <2>5. QED
      BY <2>1, <2>2, <2>3, <2>4
  <1>5. OneOwner'
    <2> SUFFICES ASSUME NEW u \in Workers, NEW v \in Workers,
                        Owns(u, workers'[u]), Owns(v, workers'[v]),
                        workers'[u].attempt = workers'[v].attempt
                 PROVE  u = v
      BY DEF OneOwner, Owns
    <2>1. /\ Owns(u, workers[u]) /\ Owns(v, workers[v])
          /\ workers[u].attempt = workers[v].attempt
      BY <1>2
    <2>2. QED
      BY <2>1 DEF DispatchInv, OneOwner
  <1>6. QED
    BY <1>3, <1>4, <1>5 DEF DispatchInv

\* A step of operators, vendors or the clock.
LEMMA OutsideKeepsOwners ==
    ASSUME ControlInv, DispatchInv, workers' = workers, dispatches' = dispatches,
           \A a \in Attempts :
             \/ attempts'[a].status = attempts[a].status
             \/ /\ attempts[a].status = "absent"
                /\ attempts'[a].status \in {"policy_denied", "dispatch_queued"}
    PROVE  DispatchInv'
  <1>1. \A a \in Attempts :
          /\ Started(attempts[a]) <=> Started(attempts'[a])
          /\ attempts[a].status = "dispatching" <=> attempts'[a].status = "dispatching"
    BY DEF Started
  <1>2. CalledOnce'
    BY <1>1 DEF DispatchInv, CalledOnce, Started
  <1>3. OwnersAgree'
    <2> SUFFICES ASSUME NEW v \in Workers
                 PROVE  /\ KeepsRole(v, workers[v])
                        /\ Owns(v, workers[v]) => Started(attempts'[workers[v].attempt])
                        /\ workers[v].pc \in Bound
                             => attempts'[workers[v].attempt].status = "dispatching"
                        /\ workers[v].pc \in Unsent => dispatches[workers[v].attempt] = 0
      BY DEF OwnersAgree, Owns, Started, KeepsRole
    <2>1. QED
      BY <1>1, OwnerFinds DEF DispatchInv, OwnersAgree
  <1>4. OneOwner'
    BY DEF DispatchInv, OneOwner, Owns
  <1>5. QED
    BY <1>2, <1>3, <1>4 DEF DispatchInv

LEMMA OutsideDispatch ==
    ASSUME LedgerTypeOK, ControlInv, DispatchInv,
           Operator \/ LedgerClock \/ TaskClock
             \/ \E a \in Attempts : EnsureReconciliationQueued(a) \/ VendorSettles(a)
    PROVE  DispatchInv'
  <1>1. workers' = workers /\ dispatches' = dispatches
    BY DEF Operator, LedgerClock, TaskClock, EnsureReconciliationQueued, VendorSettles, world
  <1>2. CASE attempts' = attempts
    BY <1>1, <1>2, OutsideKeepsOwners
  <1>3. ASSUME NEW a \in Attempts, NEW m \in Mandates, NEW v \in Vendors, NEW amount \in Amounts,
               RunAttempt(a, m, v, amount)
        PROVE  DispatchInv'
    <2>1. attempts[a].status = "absent"
      BY <1>3 DEF RunAttempt, DenyAttempt, DenyByTreasury, ReserveAttempt
    <2>2. PICK status \in {"policy_denied", "dispatch_queued"} :
            attempts' = [attempts EXCEPT ![a] = Materialized(m, amount, status)]
      BY <1>3 DEF RunAttempt, DenyAttempt, DenyByTreasury, ReserveAttempt
    <2>3. Materialized(m, amount, status).status = status
      BY DEF Materialized, NoAttempt
    <2>4. \A b \in Attempts :
            IF b = a THEN attempts'[b].status = status ELSE attempts'[b] = attempts[b]
      BY <2>2, <2>3 DEF LedgerTypeOK
    <2>5. QED
      BY <1>1, <2>1, <2>4, OutsideKeepsOwners
  <1>4. ASSUME NEW a \in Attempts, EscalationWindowPasses(a)
        PROVE  DispatchInv'
    <2>1. \A b \in Attempts : attempts'[b].status = attempts[b].status
      BY <1>4 DEF EscalationWindowPasses, LedgerTypeOK, AttemptRecords
    <2>2. QED
      BY <1>1, <2>1, OutsideKeepsOwners
  <1>5. CASE Operator
    <2>1. CASE \E m \in Mandates : RevokeMandate(m) \/ \E terms \in Terms : CreateMandate(m, terms)
      BY <1>2, <2>1 DEF RevokeMandate, CreateMandate
    <2>2. CASE \E a \in Attempts, m \in Mandates, v \in Vendors, amount \in Amounts :
                 RunAttempt(a, m, v, amount)
      BY <1>3, <2>2
    <2>3. QED
      BY <1>5, <2>1, <2>2 DEF Operator, RunAttempt
  <1>6. CASE LedgerClock
    BY <1>2, <1>4, <1>6 DEF LedgerClock, ClockStep, MandateExpiryPasses
  <1>7. CASE TaskClock \/ \E a \in Attempts : EnsureReconciliationQueued(a) \/ VendorSettles(a)
    BY <1>2, <1>7 DEF TaskClock, EnsureReconciliationQueued, VendorSettles, ledgerVars
  <1>8. QED
    BY <1>5, <1>6, <1>7

\* The steps of a worker that leave the attempts and the vendor alone.
LEMMA QuietDispatch ==
    ASSUME ControlInv, DispatchInv, NEW w \in Workers, NEW r,
           workers' = [workers EXCEPT ![w] = r],
           attempts' = attempts, dispatches' = dispatches,
           KeepsRole(w, r),
           Owns(w, r) => Owns(w, workers[w]) /\ r.attempt = workers[w].attempt,
           r.pc \in Bound => workers[w].pc \in Bound /\ r.attempt = workers[w].attempt,
           r.pc \in Unsent => workers[w].pc \in Unsent
    PROVE  DispatchInv'
  BY OwnersStay

\* The steps of a worker that end its attempt or make it unknown.
LEMMA EndingDispatch ==
    ASSUME LedgerTypeOK, ControlInv, DispatchInv, NEW w \in Workers, NEW r,
           workers' = [workers EXCEPT ![w] = r],
           r.pc \notin Bound, dispatches' = dispatches,
           KeepsRole(w, r),
           Owns(w, r) => Owns(w, workers[w]) /\ r.attempt = workers[w].attempt,
           NEW a \in Attempts,
           \A b \in Attempts \ {a} : attempts'[b] = attempts[b],
           Started(attempts'[a]),
           attempts[a].status = "dispatching" => Owns(w, workers[w]) /\ workers[w].attempt = a
    PROVE  DispatchInv'
  <1>1. \A b \in Attempts :
          /\ Started(attempts[b]) => Started(attempts'[b])
          /\ attempts[b].status = "dispatching" /\ attempts'[b].status # "dispatching"
               => Owns(w, workers[w]) /\ workers[w].attempt = b
    <2> TAKE b \in Attempts
    <2>1. CASE b = a
      BY <2>1
    <2>2. CASE b # a
      BY <2>2
    <2>3. QED
      BY <2>1, <2>2
  <1>2. r.pc \notin Unsent
    BY DEF Unsent, Bound
  <1>3. QED
    BY <1>1, <1>2, OwnersStay

\* What the transactions write in the row of one attempt.
LEMMA RowBecomesUnknown ==
    ASSUME attempts \in [Attempts -> AttemptRecords], NEW a \in Attempts, NEW signed,
           ApplyDispatchUnknown(a, signed)
    PROVE  /\ attempts'[a].status = "execution_unknown"
           /\ \A b \in Attempts \ {a} : attempts'[b] = attempts[b]
  BY DEF ApplyDispatchUnknown, AttemptRecords

LEMMA RowIsSettled ==
    ASSUME NEW before \in [Attempts -> AttemptRecords], NEW a \in Attempts,
           NEW status, NEW final,
           NEW after, after = [before EXCEPT ![a].status = status, ![a].settled = final]
    PROVE  /\ after[a].status = status
           /\ \A b \in Attempts \ {a} : after[b] = before[b]
  BY DEF AttemptRecords

LEMMA WritingDispatch ==
    ASSUME LedgerTypeOK, ControlInv, DispatchInv, NEW w \in Workers,
           ApplyDispatchResult(w) \/ ReleaseDispatch(w) \/ ApplyReconciliationResult(w)
    PROVE  DispatchInv'
  <1> DEFINE a == workers[w].attempt
  <1>1. a \in Attempts
    BY WorkerFinds DEF ApplyDispatchResult, ReleaseDispatch, ApplyReconciliationResult, At
  <1>2. dispatches' = dispatches /\ workers[w] \in WorkerRecords
    BY WorkerFinds DEF ApplyDispatchResult, ReleaseDispatch, ApplyReconciliationResult, world
  <1>3. CASE ApplyDispatchResult(w)
    <2> DEFINE r == [workers[w] EXCEPT !.pc = "applied", !.result = NoResult]
    <2>1. workers' = [workers EXCEPT ![w] = r]
      BY <1>3, WorkerFinds DEF ApplyDispatchResult, GotoApplied
    <2>2. r.pc = "applied" /\ r.attempt = a
      BY <1>2 DEF WorkerRecords
    <2>3. Owns(w, workers[w])
      BY <1>3, OwnerFinds DEF ApplyDispatchResult, At, Bound
    <2>4. /\ attempts'[a].status \in Outcomes
          /\ \A b \in Attempts \ {a} : attempts'[b] = attempts[b]
      <3>1. CASE ApplyDispatchSucceeded(a, workers[w].result.reported)
        <4>1. \E final :
                attempts' = [attempts EXCEPT ![a].status = "executed_charge_succeeded",
                                             ![a].settled = final]
          BY <3>1 DEF ApplyDispatchSucceeded
        <4>2. attempts \in [Attempts -> AttemptRecords]
          BY DEF LedgerTypeOK
        <4>3. QED
          BY <1>1, <4>1, <4>2, RowIsSettled DEF Outcomes
      <3>2. CASE ApplyDispatchFailed(a, workers[w].result.reported)
        <4>1. \E final :
                attempts' = [attempts EXCEPT ![a].status = "executed_charge_failed",
                                             ![a].settled = final]
          BY <3>2 DEF ApplyDispatchFailed
        <4>2. attempts \in [Attempts -> AttemptRecords]
          BY DEF LedgerTypeOK
        <4>3. QED
          BY <1>1, <4>1, <4>2, RowIsSettled DEF Outcomes
      <3>3. CASE ApplyDispatchUnknown(a, workers[w].result.signed)
        <4>1. attempts \in [Attempts -> AttemptRecords]
          BY DEF LedgerTypeOK
        <4>2. QED
          BY <1>1, <3>3, <4>1, RowBecomesUnknown DEF Outcomes
      <3>4. QED
        BY <1>3, <3>1, <3>2, <3>3 DEF ApplyDispatchResult
    <2>5. Started(attempts'[a])
      BY <2>4 DEF Started, Outcomes
    <2> HIDE DEF r
    <2>6. QED
      BY <1>1, <1>2, <2>1, <2>2, <2>3, <2>4, <2>5, EndingDispatch DEF Bound, KeepsRole
  <1>4. CASE ReleaseDispatch(w)
    <2>1. CASE Stop(w) /\ UNCHANGED ledgerVars
      BY <1>2, <2>1, QuietDispatch
      DEF Stop, ledgerVars, IdleWorker, Owns, Bound, Unsent, KeepsRole
    <2>2. CASE ReleaseAttempt(a) /\ Goto(w, "released")
      <3> DEFINE r == [workers[w] EXCEPT !.pc = "released"]
      <3>1. workers' = [workers EXCEPT ![w] = r]
        BY <2>2, WorkerFinds DEF Goto
      <3>2. r.pc = "released"
        BY <1>2 DEF WorkerRecords
      <3>3. Owns(w, workers[w])
        BY <1>4 DEF ReleaseDispatch, At, Owns, DispatchInv, OwnersAgree, KeepsRole
      <3>4. /\ attempts'[a].status = "cancelled_released"
            /\ \A b \in Attempts \ {a} : attempts'[b] = attempts[b]
        BY <1>1, <2>2 DEF ReleaseAttempt, LedgerTypeOK, AttemptRecords
      <3> HIDE DEF r
      <3>5. QED
        BY <1>1, <1>2, <3>1, <3>2, <3>3, <3>4, EndingDispatch
        DEF Bound, Owns, Started, KeepsRole
    <2>3. QED
      BY <1>4, <2>1, <2>2 DEF ReleaseDispatch
  <1>5. CASE ApplyReconciliationResult(w)
    <2> DEFINE r == [workers[w] EXCEPT !.pc = "applied", !.result = NoResult]
    <2>1. workers' = [workers EXCEPT ![w] = r]
      BY <1>5, WorkerFinds DEF ApplyReconciliationResult, GotoApplied
    <2>2. r.pc = "applied" /\ r.attempt = a
      BY <1>2 DEF WorkerRecords
    <2>3. workers[w].result.outcome \in CorrelatedOutcomes
      BY <1>5, WorkerFinds DEF ApplyReconciliationResult, At, Holds
    <2>4. /\ attempts[a].status = "execution_unknown"
          /\ attempts'[a].status \in CorrelatedOutcomes
          /\ \A b \in Attempts \ {a} : attempts'[b] = attempts[b]
      <3>1. /\ attempts[a].status = "execution_unknown"
            /\ \E final :
                 attempts' = [attempts EXCEPT ![a].status = workers[w].result.outcome,
                                              ![a].settled = final]
        BY <1>5 DEF ApplyReconciliationResult, ApplyReconciliation
      <3>2. attempts \in [Attempts -> AttemptRecords]
        BY DEF LedgerTypeOK
      <3>3. QED
        BY <1>1, <2>3, <3>1, <3>2, RowIsSettled
    <2>5. Started(attempts'[a])
      BY <2>4 DEF Started, CorrelatedOutcomes
    <2>6. w \notin ExecutionWorkers
      BY <1>5 DEF ApplyReconciliationResult, At, DispatchInv, OwnersAgree, KeepsRole
    <2> HIDE DEF r
    <2>7. QED
      BY <1>1, <1>2, <2>1, <2>2, <2>4, <2>5, <2>6, EndingDispatch
      DEF Bound, KeepsRole, Owns
  <1>6. QED
    BY <1>3, <1>4, <1>5

\* The claim: the attempt was not started, so nobody owns it and nobody called
\* its vendor.
LEMMA ClaimDispatch ==
    ASSUME LedgerTypeOK, ControlInv, DispatchInv, NEW w \in Workers, ClaimAttempt(w)
    PROVE  DispatchInv'
  <1> DEFINE a == workers[w].attempt
             r == [workers[w] EXCEPT !.pc = "marked"]
  <1>1. a \in Attempts /\ workers[w] \in WorkerRecords
    BY WorkerFinds DEF ClaimAttempt, At
  <1>2. dispatches' = dispatches
    BY DEF ClaimAttempt, world
  <1>3. CASE Stop(w) /\ UNCHANGED ledgerVars
    BY <1>2, <1>3, QuietDispatch
    DEF Stop, ledgerVars, IdleWorker, Owns, Bound, Unsent, KeepsRole
  <1>4. CASE MarkDispatching(a) /\ Goto(w, "marked")
    <2>1. workers' = [workers EXCEPT ![w] = r]
      BY <1>4, WorkerFinds DEF Goto
    <2>2. r.pc = "marked" /\ r.attempt = a
      BY <1>1 DEF WorkerRecords
    <2> HIDE DEF r
    <2>3. workers'[w] = r /\ \A v \in Workers \ {w} : workers'[v] = workers[v]
      BY <2>1, WorkerFinds
    <2>4. attempts[a].status = "dispatch_queued"
      BY <1>4, LiveSources DEF MarkDispatching
    <2>5. /\ attempts'[a].status = "dispatching"
          /\ \A b \in Attempts \ {a} : attempts'[b] = attempts[b]
      BY <1>1, <1>4 DEF MarkDispatching, LedgerTypeOK, AttemptRecords
    <2>6. ~ Started(attempts[a]) /\ Started(attempts'[a])
      BY <2>4, <2>5 DEF Started
    <2>7. dispatches[a] = 0
      BY <1>1, <2>6 DEF DispatchInv, CalledOnce
    <2>8. w \in ExecutionWorkers
      BY DEF ClaimAttempt
    <2>9. \A v \in Workers : Owns(v, workers[v]) => workers[v].attempt # a
      BY <2>6 DEF DispatchInv, OwnersAgree
    <2>10. CalledOnce'
      BY <1>1, <1>2, <2>5, <2>6 DEF DispatchInv, CalledOnce, Started
    <2>11. OwnersAgree'
      <3> SUFFICES ASSUME NEW v \in Workers
                   PROVE  /\ KeepsRole(v, workers'[v])
                          /\ Owns(v, workers'[v]) => Started(attempts'[workers'[v].attempt])
                          /\ workers'[v].pc \in Bound
                               => attempts'[workers'[v].attempt].status = "dispatching"
                          /\ workers'[v].pc \in Unsent => dispatches'[workers'[v].attempt] = 0
        BY DEF OwnersAgree, Owns, Started, KeepsRole
      <3>1. CASE v = w
        BY <1>2, <2>2, <2>3, <2>5, <2>6, <2>7, <2>8, <3>1 DEF KeepsRole
      <3>2. CASE v # w
        <4>1. workers'[v] = workers[v]
          BY <2>3, <3>2
        <4>2. workers[v].pc \in Unsent => workers[v].pc \in Bound
          BY DEF Unsent, Bound
        <4>3. Owns(v, workers[v])
                => attempts'[workers[v].attempt] = attempts[workers[v].attempt]
          BY <2>5, <2>9, OwnerFinds
        <4>4. QED
          BY <1>2, <4>1, <4>2, <4>3, OwnerFinds DEF DispatchInv, OwnersAgree
      <3>3. QED
        BY <3>1, <3>2
    <2>12. OneOwner'
      <3> SUFFICES ASSUME NEW u \in Workers, NEW v \in Workers,
                          Owns(u, workers'[u]), Owns(v, workers'[v]),
                          workers'[u].attempt = workers'[v].attempt
                   PROVE  u = v
        BY DEF OneOwner, Owns
      <3>1. CASE u # w /\ v # w
        BY <2>3, <3>1 DEF DispatchInv, OneOwner
      <3>2. CASE u = w /\ v # w
        BY <2>2, <2>3, <2>9, <3>2
      <3>3. CASE u # w /\ v = w
        BY <2>2, <2>3, <2>9, <3>3
      <3>4. QED
        BY <3>1, <3>2, <3>3
    <2>13. QED
      BY <2>10, <2>11, <2>12 DEF DispatchInv
  <1>5. QED
    BY <1>3, <1>4 DEF ClaimAttempt

\* The call: its caller is the only owner of an attempt not called for before.
LEMMA SendDispatch ==
    ASSUME LedgerTypeOK, ControlInv, DispatchInv, NEW w \in Workers, SendToVendor(w)
    PROVE  DispatchInv'
  <1> DEFINE a == workers[w].attempt
             r == [workers[w] EXCEPT !.pc = "sent"]
  <1>1. a \in Attempts /\ workers[w] \in WorkerRecords
    BY WorkerFinds DEF SendToVendor, At
  <1>2. workers[w].pc \in Unsent /\ workers[w].pc \in Bound
    BY DEF SendToVendor, At, Unsent, Bound
  <1>3. Owns(w, workers[w]) /\ attempts[a].status = "dispatching" /\ dispatches[a] = 0
    BY <1>2, OwnerFinds DEF DispatchInv, OwnersAgree
  <1>4. workers' = [workers EXCEPT ![w] = r] /\ attempts' = attempts
    BY WorkerFinds DEF SendToVendor, Goto, ledgerVars
  <1>5. r.pc = "sent" /\ r.attempt = a
    BY <1>1 DEF WorkerRecords
  <1> HIDE DEF r
  <1>6. workers'[w] = r /\ \A v \in Workers \ {w} : workers'[v] = workers[v]
    BY <1>4, WorkerFinds
  <1>7. dispatches'[a] = 1 /\ \A b \in Attempts \ {a} : dispatches'[b] = dispatches[b]
    BY <1>1, <1>3, WorkerFinds DEF SendToVendor
  <1>8. Owns(w, r) /\ KeepsRole(w, r) /\ r.pc \notin Unsent
    BY <1>3, <1>5 DEF Owns, KeepsRole, Bound, Unsent
  <1>9. CalledOnce'
    BY <1>3, <1>4, <1>7 DEF DispatchInv, CalledOnce, Started
  <1>10. OwnersAgree'
    <2> SUFFICES ASSUME NEW v \in Workers
                 PROVE  /\ KeepsRole(v, workers'[v])
                        /\ Owns(v, workers'[v]) => Started(attempts[workers'[v].attempt])
                        /\ workers'[v].pc \in Bound
                             => attempts[workers'[v].attempt].status = "dispatching"
                        /\ workers'[v].pc \in Unsent => dispatches'[workers'[v].attempt] = 0
      BY <1>4 DEF OwnersAgree, Owns, Started, KeepsRole
    <2>1. CASE v = w
      BY <1>3, <1>5, <1>6, <1>8, <2>1 DEF Started
    <2>2. CASE v # w
      <3>1. workers'[v] = workers[v]
        BY <1>6, <2>2
      <3>2. workers[v].pc \in Unsent => Owns(v, workers[v]) /\ workers[v].attempt \in Attempts
        BY OwnerFinds DEF Unsent, Bound
      <3>3. Owns(v, workers[v]) => workers[v].attempt # a
        BY <1>3, <2>2 DEF DispatchInv, OneOwner
      <3>4. QED
        BY <1>7, <3>1, <3>2, <3>3 DEF DispatchInv, OwnersAgree
    <2>3. QED
      BY <2>1, <2>2
  <1>11. OneOwner'
    <2> SUFFICES ASSUME NEW u \in Workers, NEW v \in Workers,
                        Owns(u, workers'[u]), Owns(v, workers'[v]),
                        workers'[u].attempt = workers'[v].attempt
                 PROVE  u = v
      BY DEF OneOwner, Owns
    <2>1. Owns(u, workers[u]) /\ workers'[u].attempt = workers[u].attempt
      BY <1>3, <1>5, <1>6
    <2>2. Owns(v, workers[v]) /\ workers'[v].attempt = workers[v].attempt
      BY <1>3, <1>5, <1>6
    <2>3. QED
      BY <2>1, <2>2 DEF DispatchInv, OneOwner
  <1>12. QED
    BY <1>9, <1>10, <1>11 DEF DispatchInv

\* The other steps of a worker write neither attempts nor the vendor.
LEMMA WaitingDispatch ==
    ASSUME ControlInv, DispatchInv, NEW w \in Workers,
           \/ Preflight(w) \/ AdapterThrows(w)
           \/ VendorAnswers(w) \/ DispatchTimesOut(w) \/ TransportFails(w)
           \/ DispatchStoreThrows(w)
           \/ ReadAttempt(w) \/ CorrelateAttemptStatus(w)
           \/ CorrelationThrows(w) \/ ReconciliationThrows(w)
    PROVE  DispatchInv'
  <1>1. attempts' = attempts /\ dispatches' = dispatches /\ workers[w] \in WorkerRecords
    BY WorkerFinds
    DEF Preflight, AdapterThrows, VendorAnswers, DispatchTimesOut, TransportFails,
        DispatchStoreThrows, ReadAttempt, CorrelateAttemptStatus, CorrelationThrows,
        ReconciliationThrows, ledgerVars, world
  <1>2. KeepsRole(w, workers[w]) /\ ExecutionWorkers \cap ReconciliationWorkers = {}
    BY WorkerAssumption DEF DispatchInv, OwnersAgree
  <1>3. ASSUME NEW r, workers' = [workers EXCEPT ![w] = r],
               r.attempt = workers[w].attempt, KeepsRole(w, r),
               r.pc \in Bound => workers[w].pc \in Bound,
               r.pc \in Unsent => workers[w].pc \in Unsent,
               r.pc \in {"applied", "releasing"} => workers[w].pc \in Bound \cup {"applied"}
        PROVE  DispatchInv'
    <2>1. Owns(w, r) => Owns(w, workers[w])
      BY <1>3 DEF Owns
    <2>2. QED
      BY <1>1, <1>3, <2>1, QuietDispatch
  <1>4. ASSUME NEW pc, workers' = [workers EXCEPT ![w] = [workers[w] EXCEPT !.pc = pc]],
               w \in ExecutionWorkers,
               pc \in {"cleared", "releasing"},
               workers[w].pc \in Unsent
        PROVE  DispatchInv'
    <2> DEFINE r == [workers[w] EXCEPT !.pc = pc]
    <2>1. r.pc = pc /\ r.attempt = workers[w].attempt
      BY <1>1 DEF WorkerRecords
    <2>2. workers' = [workers EXCEPT ![w] = r]
      BY <1>4
    <2> HIDE DEF r
    <2>3. KeepsRole(w, r)
      BY <1>4, <2>1 DEF KeepsRole
    <2>4. workers[w].pc \in Bound
      BY <1>4 DEF Bound, Unsent
    <2>5. QED
      BY <1>3, <1>4, <2>1, <2>2, <2>3, <2>4
  <1>5. CASE Preflight(w) \/ AdapterThrows(w)
    <2>1. workers[w].pc \in Unsent /\ w \in ExecutionWorkers
      BY <1>2, <1>5 DEF Preflight, AdapterThrows, At, KeepsRole, Bound, Unsent
    <2>2. PICK pc \in {"cleared", "releasing"} : Goto(w, pc)
      BY <1>5 DEF Preflight, AdapterThrows
    <2>3. workers' = [workers EXCEPT ![w] = [workers[w] EXCEPT !.pc = pc]]
      BY <2>2, WorkerFinds DEF Goto
    <2>4. QED
      BY <1>4, <2>1, <2>3
  <1>6. ASSUME NEW pc, NEW result,
               workers' = [workers EXCEPT ![w] =
                 [workers[w] EXCEPT !.pc = pc, !.result = result]],
               \/ pc = "answered" /\ workers[w].pc = "sent"
               \/ pc = "correlated" /\ workers[w].pc = "read"
        PROVE  DispatchInv'
    <2> DEFINE r == [workers[w] EXCEPT !.pc = pc, !.result = result]
    <2>1. r.pc = pc /\ r.attempt = workers[w].attempt
      BY <1>1 DEF WorkerRecords
    <2>2. workers' = [workers EXCEPT ![w] = r]
      BY <1>6
    <2> HIDE DEF r
    <2>3. KeepsRole(w, r)
      BY <1>2, <1>6, <2>1 DEF KeepsRole, Bound
    <2>4. /\ r.pc \in Bound => workers[w].pc \in Bound
          /\ r.pc \notin Unsent \cup {"applied", "releasing"}
      BY <1>6, <2>1 DEF Bound, Unsent
    <2>5. QED
      BY <1>3, <2>1, <2>2, <2>3, <2>4
  <1>7. CASE VendorAnswers(w) \/ DispatchTimesOut(w) \/ TransportFails(w)
    <2>1. workers[w].pc = "sent"
      BY <1>7 DEF VendorAnswers, DispatchTimesOut, TransportFails, At
    <2>2. PICK result :
            workers' = [workers EXCEPT ![w].pc = "answered", ![w].result = result]
      BY <1>7 DEF VendorAnswers, DispatchTimesOut, TransportFails, Learn
    <2>3. workers' = [workers EXCEPT ![w] =
            [workers[w] EXCEPT !.pc = "answered", !.result = result]]
      BY <2>2, WorkerFinds
    <2>4. QED
      BY <1>6, <2>1, <2>3
  <1>8. CASE DispatchStoreThrows(w)
    <2> DEFINE r == [workers[w] EXCEPT !.pc = "releasing", !.result = NoResult]
    <2>1. workers[w].pc \in Bound \cup {"applied"} /\ w \in ExecutionWorkers
      BY <1>8 DEF DispatchStoreThrows, At, Bound
    <2>2. workers' = [workers EXCEPT ![w] = r]
      BY <1>8, WorkerFinds DEF DispatchStoreThrows
    <2>3. r.pc = "releasing" /\ r.attempt = workers[w].attempt
      BY <1>1 DEF WorkerRecords
    <2> HIDE DEF r
    <2>4. QED
      BY <1>3, <2>1, <2>2, <2>3 DEF KeepsRole, Bound, Unsent
  <1>9. CASE ReadAttempt(w)
    <2> DEFINE r == [workers[w] EXCEPT !.pc = "read",
                                       !.seen = attempts[workers[w].attempt].status]
    <2>1. w \notin ExecutionWorkers
      BY <1>2, <1>9 DEF ReadAttempt
    <2>2. workers' = [workers EXCEPT ![w] = r]
      BY <1>9, WorkerFinds DEF ReadAttempt
    <2>3. r.pc = "read" /\ r.attempt = workers[w].attempt
      BY <1>1 DEF WorkerRecords
    <2> HIDE DEF r
    <2>4. QED
      BY <1>3, <2>1, <2>2, <2>3 DEF KeepsRole, Bound, Unsent
  <1>10. CASE CorrelateAttemptStatus(w)
    <2>1. workers[w].pc = "read"
      BY <1>10 DEF CorrelateAttemptStatus, At
    <2>2. PICK result :
            workers' = [workers EXCEPT ![w].pc = "correlated", ![w].result = result]
      BY <1>10 DEF CorrelateAttemptStatus, Learn
    <2>3. workers' = [workers EXCEPT ![w] =
            [workers[w] EXCEPT !.pc = "correlated", !.result = result]]
      BY <2>2, WorkerFinds
    <2>4. QED
      BY <1>6, <2>1, <2>3
  <1>11. CASE CorrelationThrows(w) \/ ReconciliationThrows(w)
    <2>1. PICK pc \in {"requeueing", "failing"} :
            workers' = [workers EXCEPT ![w].result = NoResult, ![w].seen = "absent",
                                       ![w].pc = pc]
      BY <1>11 DEF CorrelationThrows, ReconciliationThrows, CaughtReconciliation
    <2> DEFINE r == [workers[w] EXCEPT !.pc = pc, !.result = NoResult, !.seen = "absent"]
    <2>2. workers' = [workers EXCEPT ![w] = r]
      BY <2>1, WorkerFinds DEF WorkerRecords
    <2>3. r.pc = pc /\ r.attempt = workers[w].attempt
      BY <1>1 DEF WorkerRecords
    <2> HIDE DEF r
    <2>4. QED
      BY <1>3, <2>2, <2>3 DEF KeepsRole, Bound, Unsent
  <1>12. QED
    BY <1>5, <1>7, <1>8, <1>9, <1>10, <1>11

LEMMA TaskDispatch ==
    ASSUME ControlInv, DispatchInv, NEW w \in Workers,
           \/ LeaseNextWorkerTask(w) \/ CompleteWorkerTask(w) \/ FailWorkerTask(w)
           \/ RequeueWorkerTask(w) \/ Crash(w)
    PROVE  DispatchInv'
  <1>1. attempts' = attempts /\ dispatches' = dispatches
    BY DEF LeaseNextWorkerTask, CompleteWorkerTask, FailWorkerTask, RequeueWorkerTask,
           Crash, ledgerVars, world
  <1>2. CASE LeaseNextWorkerTask(w)
    <2>1. PICK i \in DOMAIN tasks :
            workers' = [workers EXCEPT ![w] =
              [IdleWorker EXCEPT !.pc = "claimed", !.task = i, !.attempt = tasks[i].attempt]]
      BY <1>2 DEF LeaseNextWorkerTask
    <2> DEFINE r == [IdleWorker EXCEPT !.pc = "claimed", !.task = i,
                                       !.attempt = tasks[i].attempt]
    <2>2. r.pc = "claimed"
      BY DEF IdleWorker
    <2>3. workers' = [workers EXCEPT ![w] = r]
      BY <2>1
    <2> HIDE DEF r
    <2>4. QED
      BY <1>1, <2>2, <2>3, QuietDispatch DEF Owns, KeepsRole, Bound, Unsent
  <1>3. CASE Stop(w)
    BY <1>1, <1>3, QuietDispatch DEF Stop, IdleWorker, Owns, KeepsRole, Bound, Unsent
  <1>4. QED
    BY <1>2, <1>3 DEF CompleteWorkerTask, FailWorkerTask, RequeueWorkerTask, Crash

LEMMA DispatchInit == Init => DispatchInv
  <1> SUFFICES ASSUME Init PROVE DispatchInv
    OBVIOUS
  <1>1. \A w \in Workers : workers[w].pc = "idle"
    BY DEF Init, IdleWorker
  <1>2. \A a \in Attempts : dispatches[a] = 0
    BY DEF Init
  <1>3. QED
    BY <1>1, <1>2
    DEF DispatchInv, CalledOnce, OwnersAgree, OneOwner, Owns, KeepsRole, Bound, Unsent

LEMMA DispatchStep == WorkerInv /\ DispatchInv /\ [Next]_vars => DispatchInv'
  <1> SUFFICES ASSUME WorkerInv, DispatchInv, [Next]_vars PROVE DispatchInv'
    OBVIOUS
  <1>1. LedgerTypeOK /\ ControlInv
    BY DEF WorkerInv, LedgerInv
  <1>2. ASSUME NEW w \in Workers, WorkerStep(w) \/ FaultStep(w)
        PROVE  DispatchInv'
    BY <1>1, <1>2, ClaimDispatch, SendDispatch, WritingDispatch, WaitingDispatch, TaskDispatch
    DEF WorkerStep, FaultStep
  <1>3. CASE UNCHANGED vars
    BY <1>3
    DEF vars, DispatchInv, CalledOnce, OwnersAgree, OneOwner, Owns, KeepsRole, Started
  <1>4. QED
    BY <1>1, <1>2, <1>3, OutsideDispatch DEF Next

LEMMA DispatchInvariant == Spec => []DispatchInv
  <1>1. QED
    BY DispatchInit, DispatchStep, WorkerInvariant, PTL DEF Spec

\* No vendor is called twice for an attempt, however many workers hold however
\* many expired leases on its task, and wherever they crash.
THEOREM VendorCalledAtMostOnce == Spec => []AtMostOneDispatch
  <1>1. DispatchInv => AtMostOneDispatch
    BY DEF DispatchInv, CalledOnce, AtMostOneDispatch
  <1>2. QED
    BY <1>1, DispatchInvariant, PTL

\* Whenever a vendor is called, the amount of the attempt is still reserved.
THEOREM VendorCallsAreCovered == Spec => VendorCalledOnlyWhileReserved
  <1>1. WorkerInv /\ DispatchInv /\ [Next]_vars
          => [\A a \in Attempts :
                dispatches'[a] # dispatches[a]
                  => /\ attempts[a].status = "dispatching"
                     /\ Reserved(a) = attempts[a].amount]_vars
    <2> DEFINE Covered ==
          \A a \in Attempts :
            dispatches'[a] # dispatches[a]
              => attempts[a].status = "dispatching" /\ Reserved(a) = attempts[a].amount
    <2> SUFFICES ASSUME WorkerInv, DispatchInv, [Next]_vars PROVE Covered
      OBVIOUS
    <2>1. ControlInv /\ ReservationBacked
      BY DEF WorkerInv, LedgerInv
    <2>2. dispatches' = dispatches \/ \E w \in Workers : SendToVendor(w)
      BY DEF Next, vars, Operator, LedgerClock, TaskClock, EnsureReconciliationQueued,
             VendorSettles, WorkerStep, FaultStep, LeaseNextWorkerTask, ClaimAttempt,
             Preflight, AdapterThrows, VendorAnswers, DispatchTimesOut, TransportFails,
             ApplyDispatchResult, CompleteWorkerTask, DispatchStoreThrows,
             ReleaseDispatch, FailWorkerTask, ReadAttempt, CorrelateAttemptStatus,
             CorrelationThrows, ApplyReconciliationResult, ReconciliationThrows,
             RequeueWorkerTask, Crash, world
    <2>3. ASSUME NEW w \in Workers, SendToVendor(w) PROVE Covered
      <3>1. /\ workers[w].attempt \in Attempts
            /\ attempts[workers[w].attempt].status = "dispatching"
        BY <2>1, <2>3, OwnerFinds DEF SendToVendor, At, Bound, DispatchInv, OwnersAgree
      <3>2. Reserved(workers[w].attempt) = attempts[workers[w].attempt].amount
        BY <2>1, <3>1 DEF ReservationBacked, LiveAttempt, LiveStatuses
      <3>3. \A b \in Attempts : dispatches'[b] # dispatches[b] => b = workers[w].attempt
        BY <2>1, <2>3, WorkerFinds DEF SendToVendor
      <3>4. QED
        BY <3>1, <3>2, <3>3
    <2>4. QED
      BY <2>2, <2>3
  <1>2. QED
    BY <1>1, WorkerInvariant, DispatchInvariant, PTL DEF Spec, VendorCalledOnlyWhileReserved

-----------------------------------------------------------------------------
(***************************************************************************)
(* Part 3.  The books of the workers.                                      *)
(***************************************************************************)
\* An attempt that is resolved, that no vendor is called for any more, and
\* that no reconciliation has to be retried for.
Ended(x) == x.status \in ResolvedStatuses
Left(x) == x.status \in ResolvedStatuses \cup {"execution_unknown"}
Over(x) == Ended(x) \/ (x.status = "execution_unknown" /\ x.window = "passed")

\* What a transaction of the ledger makes of the row x of an attempt.
Moves(x, y) ==
    \/ /\ y.status = x.status
       /\ x.window = "passed" => y.window = "passed"
    \/ x.status = "absent" /\ y.status \in {"policy_denied", "dispatch_queued"}
    \/ x.status = "dispatch_queued" /\ y.status = "dispatching"
    \/ x.status = "dispatching" /\ y.status = "execution_unknown"
    \/ /\ x.status \notin {"absent"} \cup ResolvedStatuses
       /\ y.status \in ResolvedStatuses \ {"policy_denied"}

LEMMA MovesOnward ==
    ASSUME NEW x, NEW y, Moves(x, y)
    PROVE  /\ Ended(x) => Ended(y)
           /\ Left(x) => Left(y)
           /\ Over(x) => Over(y)
  <1>1. Ended(x) => Ended(y)
    BY DEF Moves, Ended, ResolvedStatuses
  <1>2. Left(x) => Left(y)
    BY DEF Moves, Left, ResolvedStatuses
  <1>3. Over(x) => Over(y)
    BY <1>1 DEF Moves, Ended, Over, ResolvedStatuses
  <1>4. QED
    BY <1>1, <1>2, <1>3

LEMMA RowsMove ==
    ASSUME LedgerTypeOK, [LedgerNext]_ledgerVars, NEW b \in Attempts
    PROVE  Moves(attempts[b], attempts'[b])
  <1>1. attempts \in [Attempts -> AttemptRecords]
    BY DEF LedgerTypeOK
  <1>2. CASE attempts' = attempts
    BY <1>2 DEF Moves
  <1>3. ASSUME NEW a \in Attempts, NEW m \in Mandates, NEW v \in Vendors, NEW amount \in Amounts,
               RunAttempt(a, m, v, amount)
        PROVE  Moves(attempts[b], attempts'[b])
    <2>1. attempts[a].status = "absent"
      BY <1>3 DEF RunAttempt, DenyAttempt, DenyByTreasury, ReserveAttempt
    <2>2. PICK status \in {"policy_denied", "dispatch_queued"} :
            attempts' = [attempts EXCEPT ![a] = Materialized(m, amount, status)]
      BY <1>3 DEF RunAttempt, DenyAttempt, DenyByTreasury, ReserveAttempt
    <2>3. Materialized(m, amount, status).status = status
      BY DEF Materialized, NoAttempt
    <2>4. QED
      BY <1>1, <2>1, <2>2, <2>3 DEF Moves
  <1>4. ASSUME NEW a \in Attempts, EscalationWindowPasses(a)
        PROVE  Moves(attempts[b], attempts'[b])
    BY <1>1, <1>4 DEF EscalationWindowPasses, AttemptRecords, Moves
  <1>5. ASSUME NEW a \in Attempts, MarkDispatching(a)
        PROVE  Moves(attempts[b], attempts'[b])
    BY <1>1, <1>5, LiveSources DEF MarkDispatching, AttemptRecords, Moves
  <1>6. ASSUME NEW a \in Attempts, NEW signed, ApplyDispatchUnknown(a, signed)
        PROVE  Moves(attempts[b], attempts'[b])
    BY <1>1, <1>6, LiveSources DEF ApplyDispatchUnknown, AttemptRecords, Moves
  <1>7. ASSUME NEW a \in Attempts, NEW status \in ResolvedStatuses \ {"policy_denied"},
               NEW settled,
               attempts[a].status \notin {"absent"} \cup ResolvedStatuses,
               \/ attempts' = [attempts EXCEPT ![a].status = status]
               \/ attempts' = [attempts EXCEPT ![a].status = status, ![a].settled = settled]
        PROVE  Moves(attempts[b], attempts'[b])
    BY <1>1, <1>7 DEF AttemptRecords, Moves
  <1>8. CASE OperatorStep
    BY <1>2, <1>3, <1>8 DEF OperatorStep, CreateMandate, RevokeMandate
  <1>9. CASE ClockStep
    BY <1>2, <1>4, <1>9 DEF ClockStep, MandateExpiryPasses
  <1>10. CASE AttemptStep
    <2> PICK a \in Attempts :
          \/ MarkDispatching(a)
          \/ \E reported \in Reports : ApplyDispatchSucceeded(a, reported)
          \/ \E reported \in Reports : ApplyDispatchFailed(a, reported)
          \/ \E signed \in BOOLEAN : ApplyDispatchUnknown(a, signed)
          \/ ReleaseAttempt(a)
          \/ \E outcome \in CorrelatedOutcomes, reported \in Reports :
               ApplyReconciliation(a, outcome, reported)
      BY <1>10 DEF AttemptStep
    <2>1. ASSUME NEW reported, ApplyDispatchSucceeded(a, reported)
          PROVE  Moves(attempts[b], attempts'[b])
      BY <1>7, <2>1, LiveSources DEF ApplyDispatchSucceeded, ResolvedStatuses
    <2>2. ASSUME NEW reported, ApplyDispatchFailed(a, reported)
          PROVE  Moves(attempts[b], attempts'[b])
      BY <1>7, <2>2, LiveSources DEF ApplyDispatchFailed, ResolvedStatuses
    <2>3. CASE ReleaseAttempt(a)
      BY <1>7, <2>3, LiveSources DEF ReleaseAttempt, ResolvedStatuses
    <2>4. ASSUME NEW outcome \in CorrelatedOutcomes, NEW reported,
                 ApplyReconciliation(a, outcome, reported)
          PROVE  Moves(attempts[b], attempts'[b])
      BY <1>7, <2>4 DEF ApplyReconciliation, ResolvedStatuses, CorrelatedOutcomes
    <2>5. QED
      BY <1>5, <1>6, <2>1, <2>2, <2>3, <2>4
  <1>11. QED
    BY <1>2, <1>8, <1>9, <1>10 DEF LedgerNext, ledgerVars

-----------------------------------------------------------------------------
(***************************************************************************)
(* The tasks.                                                              *)
(***************************************************************************)
\* The tasks there are stay in place; TasksLast: no live one ends.
TasksKept ==
    \A i \in 1 .. Len(tasks) :
      /\ i \in 1 .. Len(tasks')
      /\ tasks'[i].kind = tasks[i].kind
      /\ tasks'[i].attempt = tasks[i].attempt

TasksLast ==
    /\ TasksKept
    /\ \A i \in 1 .. Len(tasks) :
         tasks[i].status \notin {"completed", "failed"}
           => tasks'[i].status \notin {"completed", "failed"}

LEMMA LiveTasksStay ==
    ASSUME ControlTypeOK, ControlTypeOK', TasksLast, NEW kind, NEW b, HasLiveTask(kind, b)
    PROVE  HasLiveTask(kind, b)'
  <1>1. PICK i \in DOMAIN tasks :
          tasks[i].kind = kind /\ tasks[i].attempt = b /\ LiveTask(i)
    BY DEF HasLiveTask
  <1>2. i \in 1 .. Len(tasks) /\ DOMAIN tasks' = 1 .. Len(tasks')
    BY <1>1 DEF ControlTypeOK
  <1>3. i \in DOMAIN tasks' /\ tasks'[i].kind = kind /\ tasks'[i].attempt = b
    BY <1>1, <1>2 DEF TasksLast, TasksKept
  <1>4. tasks'[i].status \notin {"completed", "failed"}
    BY <1>1, <1>2 DEF TasksLast, LiveTask
  <1>5. QED
    BY <1>3, <1>4 DEF HasLiveTask, LiveTask

LEMMA TasksSame ==
    ASSUME tasks' = tasks
    PROVE  TasksLast
  BY DEF TasksLast, TasksKept

LEMMA StatusChangeKeeps ==
    ASSUME ControlTypeOK, NEW i \in 1 .. Len(tasks), NEW status,
           tasks' = [tasks EXCEPT ![i].status = status]
    PROVE  /\ TasksKept
           /\ \A j \in (1 .. Len(tasks)) \ {i} : tasks'[j] = tasks[j]
           /\ status \notin {"completed", "failed"} => TasksLast
  <1>1. tasks \in Seq(TaskRecords) /\ Len(tasks) \in Nat
    BY DEF ControlTypeOK
  <1>2. tasks[i] \in TaskRecords
    BY <1>1
  <1>3. Len(tasks') = Len(tasks)
    BY <1>1
  <1>4. \A j \in 1 .. Len(tasks) :
          tasks'[j] = IF j = i THEN [tasks[i] EXCEPT !.status = status] ELSE tasks[j]
    BY <1>1
  <1>5. QED
    BY <1>2, <1>3, <1>4 DEF TasksKept, TasksLast, TaskRecords

\* A task is added for attempt a, or none.
OnlyNew(kind, a) ==
    \A i \in 1 .. Len(tasks') :
      i \in 1 .. Len(tasks) \/ (tasks'[i].kind = kind /\ tasks'[i].attempt = a)

LEMMA AppendKeeps ==
    ASSUME ControlTypeOK, NEW kind \in TaskKinds, NEW a \in Attempts,
           tasks' = Append(tasks, NewTask(kind, a))
    PROVE  TasksLast /\ OnlyNew(kind, a) /\ HasLiveTask(kind, a)'
  <1> DEFINE task == NewTask(kind, a)
             n == Len(tasks)
  <1>1. task \in TaskRecords /\ task.kind = kind /\ task.attempt = a /\ task.status = "queued"
    BY DEF NewTask, TaskRecords, TaskStatuses
  <1>2. tasks \in Seq(TaskRecords) /\ n \in Nat
    BY DEF ControlTypeOK
  <1> HIDE DEF task
  <1>3. /\ Len(tasks') = n + 1
        /\ \A i \in 1 .. n : tasks'[i] = tasks[i]
        /\ tasks'[n + 1] = task
    BY <1>1, <1>2, AppendProperties DEF task
  <1>4. TasksLast
    BY <1>2, <1>3 DEF TasksLast, TasksKept
  <1>5. \A i \in 1 .. Len(tasks') : i \in 1 .. n \/ i = n + 1
    BY <1>2, <1>3
  <1>6. OnlyNew(kind, a)
    BY <1>1, <1>3, <1>5 DEF OnlyNew
  <1>7. n + 1 \in DOMAIN tasks'
    BY <1>1, <1>2, AppendProperties DEF task
  <1>8. HasLiveTask(kind, a)'
    BY <1>1, <1>3, <1>7 DEF HasLiveTask, LiveTask
  <1>9. QED
    BY <1>4, <1>6, <1>8

LEMMA ReconcileKeeps ==
    ASSUME ControlTypeOK, NEW a \in Attempts, EnqueueReconcile(a)
    PROVE  /\ TasksLast
           /\ OnlyNew("reconcile_attempt", a)
           /\ HasLiveTask("reconcile_attempt", a)'
  <1>1. CASE HasLiveTask("reconcile_attempt", a)
    <2>1. tasks' = tasks
      BY <1>1 DEF EnqueueReconcile
    <2>2. HasLiveTask("reconcile_attempt", a)'
      BY <1>1, <2>1 DEF HasLiveTask, LiveTask
    <2>3. QED
      BY <2>1, <2>2, TasksSame DEF OnlyNew
  <1>2. CASE ~ HasLiveTask("reconcile_attempt", a)
    BY <1>2, AppendKeeps DEF EnqueueReconcile, TaskKinds
  <1>3. QED
    BY <1>1, <1>2

-----------------------------------------------------------------------------
(***************************************************************************)
(* What a worker's task and step tell of its attempt.                      *)
(***************************************************************************)
\* For a worker w with the record r, task t and attempt x.  A reconciliation
\* worker knows from the copy it read that an attempt is resolved when it was
\* not unknown: only attempts that were unknown once have tasks for it.
Fits(w, r, t, x) ==
    /\ w \in ExecutionWorkers => r.pc \in ExecutionSteps
    /\ w \notin ExecutionWorkers => r.pc \in ReconciliationSteps
    /\ t.kind = KindOf(w) /\ t.attempt = r.attempt
    /\ r.pc \in {"applied", "released"} => Left(x)
    /\ r.pc = "failing" => Over(x)
    /\ r.pc = "applied" /\ w \notin ExecutionWorkers => Ended(x)
    /\ r.pc \in {"read", "correlated"} /\ r.seen # "execution_unknown" => Ended(x)

WorkersFit ==
    \A w \in Workers :
      workers[w].pc # "idle"
        => Fits(w, workers[w], tasks[workers[w].task], attempts[workers[w].attempt])

TasksFit ==
    \A i \in 1 .. Len(tasks) :
      tasks[i].kind = "reconcile_attempt" => Left(attempts[tasks[i].attempt])

FitInv == WorkersFit /\ TasksFit

\* A step after which every worker has its record of before or one that fits.
LEMMA FitMoves ==
    ASSUME LedgerTypeOK, ControlInv, FitInv, [LedgerNext]_ledgerVars, TasksKept,
           \A i \in 1 .. Len(tasks') :
             i \in 1 .. Len(tasks) \/ (tasks'[i].kind = "reconcile_attempt"
                                         => Left(attempts'[tasks'[i].attempt])),
           \A v \in Workers :
             \/ workers'[v] = workers[v]
             \/ workers'[v].pc = "idle"
             \/ Fits(v, workers'[v], tasks'[workers'[v].task], attempts'[workers'[v].attempt])
    PROVE  FitInv'
  <1>1. ASSUME NEW b \in Attempts PROVE Moves(attempts[b], attempts'[b])
    BY RowsMove
  <1>2. ASSUME NEW i \in 1 .. Len(tasks) PROVE tasks[i].attempt \in Attempts
    <2>1. tasks[i] \in TaskRecords
      BY DEF ControlInv, ControlTypeOK
    <2>2. QED
      BY <2>1 DEF TaskRecords
  <1>3. TasksFit'
    <2> SUFFICES ASSUME NEW i \in 1 .. Len(tasks'), tasks'[i].kind = "reconcile_attempt"
                 PROVE  Left(attempts'[tasks'[i].attempt])
      BY DEF TasksFit, Left
    <2>1. CASE i \in 1 .. Len(tasks)
      <3>1. tasks'[i].attempt = tasks[i].attempt /\ tasks[i].attempt \in Attempts
            /\ Left(attempts[tasks[i].attempt])
        BY <1>2, <2>1 DEF TasksKept, FitInv, TasksFit
      <3>2. QED
        BY <1>1, <3>1, MovesOnward
    <2>2. QED
      BY <2>1
  <1>4. WorkersFit'
    <2> SUFFICES ASSUME NEW v \in Workers, workers'[v].pc # "idle"
                 PROVE  Fits(v, workers'[v], tasks'[workers'[v].task],
                             attempts'[workers'[v].attempt])
      BY DEF WorkersFit, Fits, Left, Ended, Over, KindOf
    <2>1. CASE workers'[v] = workers[v]
      <3> DEFINE t == tasks[workers[v].task]
                 x == attempts[workers[v].attempt]
                 u == tasks'[workers[v].task]
                 y == attempts'[workers[v].attempt]
      <3>1. workers[v].attempt \in Attempts /\ workers[v].task \in 1 .. Len(tasks)
        BY <2>1, WorkerFinds
      <3>2. Fits(v, workers[v], t, x)
        BY <2>1 DEF FitInv, WorkersFit
      <3>3. u.kind = t.kind /\ u.attempt = t.attempt
        BY <3>1 DEF TasksKept
      <3>4. Moves(x, y)
        BY <1>1, <3>1
      <3> HIDE DEF t, x, u, y
      <3>5. (Ended(x) => Ended(y)) /\ (Left(x) => Left(y)) /\ (Over(x) => Over(y))
        BY <3>4, MovesOnward
      <3>6. Fits(v, workers[v], u, y)
        BY <3>2, <3>3, <3>5 DEF Fits
      <3>7. QED
        BY <2>1, <3>6 DEF u, y
    <2>2. QED
      BY <2>1
  <1>5. QED
    BY <1>3, <1>4 DEF FitInv

LEMMA OutsideFits ==
    ASSUME LedgerTypeOK, ControlInv, ControlInv', FitInv, [LedgerNext]_ledgerVars,
           Operator \/ LedgerClock \/ TaskClock
             \/ \E a \in Attempts : EnsureReconciliationQueued(a) \/ VendorSettles(a)
    PROVE  FitInv'
  <1>1. workers' = workers /\ ControlTypeOK
    BY DEF ControlInv, Operator, LedgerClock, TaskClock, EnsureReconciliationQueued,
           VendorSettles
  <1>2. CASE TasksKept /\ Len(tasks') = Len(tasks)
    BY <1>1, <1>2, FitMoves
  <1>3. ASSUME NEW kind \in TaskKinds, NEW a \in Attempts, TasksKept, OnlyNew(kind, a),
               kind = "reconcile_attempt" => Left(attempts'[a])
        PROVE  FitInv'
    BY <1>1, <1>3, FitMoves DEF OnlyNew
  <1>4. CASE tasks' = tasks
    BY <1>2, <1>4, TasksSame DEF TasksLast
  <1>5. CASE Operator
    <2>1. tasks' = tasks \/ \E a \in Attempts : EnqueueDispatch(a)
      BY <1>5 DEF Operator
    <2>2. ASSUME NEW a \in Attempts, EnqueueDispatch(a) PROVE FitInv'
      BY <1>1, <1>3, <2>2, AppendKeeps DEF EnqueueDispatch, TaskKinds, TasksLast
    <2>3. QED
      BY <1>4, <2>1, <2>2
  <1>6. CASE TaskClock
    <2>1. PICK i \in 1 .. Len(tasks) : LeaseExpires(i) \/ RetryDelayElapses(i)
      BY <1>1, <1>6 DEF TaskClock, ControlTypeOK
    <2>2. TasksKept
      BY <1>1, <2>1, StatusChangeKeeps DEF LeaseExpires, RetryDelayElapses
    <2>3. Len(tasks') = Len(tasks)
      BY <1>1, <2>1 DEF LeaseExpires, RetryDelayElapses, ControlTypeOK
    <2>4. QED
      BY <1>2, <2>2, <2>3
  <1>7. ASSUME NEW a \in Attempts, EnsureReconciliationQueued(a) PROVE FitInv'
    <2>1. attempts' = attempts /\ attempts[a].status = "execution_unknown"
      BY <1>7 DEF EnsureReconciliationQueued, ledgerVars
    <2>2. TasksKept /\ OnlyNew("reconcile_attempt", a)
      BY <1>1, <1>7, ReconcileKeeps DEF EnsureReconciliationQueued, TasksLast
    <2>3. QED
      BY <1>3, <2>1, <2>2 DEF TaskKinds, Left
  <1>8. CASE LedgerClock \/ \E a \in Attempts : VendorSettles(a)
    BY <1>4, <1>8 DEF LedgerClock, VendorSettles
  <1>9. QED
    BY <1>5, <1>6, <1>7, <1>8

\* What a worker that is not idle finds.
LEMMA FitFinds ==
    ASSUME ControlInv, FitInv, NEW w \in Workers, workers[w].pc # "idle"
    PROVE  /\ workers[w] \in WorkerRecords
           /\ workers[w].attempt \in Attempts /\ workers[w].task \in 1 .. Len(tasks)
           /\ Fits(w, workers[w], tasks[workers[w].task], attempts[workers[w].attempt])
           /\ w \notin ExecutionWorkers => Left(attempts[workers[w].attempt])
  <1>1. /\ workers[w] \in WorkerRecords
        /\ workers[w].attempt \in Attempts /\ workers[w].task \in 1 .. Len(tasks)
    BY WorkerFinds
  <1>2. Fits(w, workers[w], tasks[workers[w].task], attempts[workers[w].attempt])
    BY DEF FitInv, WorkersFit
  <1>3. tasks[workers[w].task].kind = KindOf(w)
        /\ tasks[workers[w].task].attempt = workers[w].attempt
    BY <1>2 DEF Fits
  <1>4. w \notin ExecutionWorkers => Left(attempts[workers[w].attempt])
    BY <1>1, <1>3 DEF FitInv, TasksFit, KindOf
  <1>5. QED
    BY <1>1, <1>2, <1>4

\* A step of worker w that adds no task, or one for its own attempt.
LEMMA WorkerFits ==
    ASSUME LedgerTypeOK, ControlInv, FitInv, [LedgerNext]_ledgerVars, TasksKept,
           NEW w \in Workers, NEW r, workers' = [workers EXCEPT ![w] = r],
           \/ Len(tasks') = Len(tasks)
           \/ /\ OnlyNew("reconcile_attempt", workers[w].attempt)
              /\ Left(attempts'[workers[w].attempt]),
           r.pc = "idle" \/ Fits(w, r, tasks'[r.task], attempts'[r.attempt])
    PROVE  FitInv'
  <1>1. workers'[w] = r /\ \A v \in Workers \ {w} : workers'[v] = workers[v]
    BY WorkerFinds
  <1>2. \A i \in 1 .. Len(tasks') :
          i \in 1 .. Len(tasks) \/ (tasks'[i].kind = "reconcile_attempt"
                                      => Left(attempts'[tasks'[i].attempt]))
    BY DEF OnlyNew
  <1>3. ASSUME NEW v \in Workers
        PROVE  \/ workers'[v] = workers[v]
               \/ workers'[v].pc = "idle"
               \/ Fits(v, workers'[v], tasks'[workers'[v].task], attempts'[workers'[v].attempt])
    BY <1>1
  <1>4. QED
    BY <1>2, <1>3, FitMoves

\* A worker that stops.
LEMMA StopFits ==
    ASSUME LedgerTypeOK, ControlInv, FitInv, [LedgerNext]_ledgerVars, NEW w \in Workers,
           Stop(w),
           \/ tasks' = tasks
           \/ \E i \in 1 .. Len(tasks), status \in TaskStatuses :
                tasks' = [tasks EXCEPT ![i].status = status]
    PROVE  FitInv'
  <1>1. ControlTypeOK
    BY DEF ControlInv
  <1>2. TasksKept
    BY <1>1, TasksSame, StatusChangeKeeps DEF TasksLast
  <1>3. Len(tasks') = Len(tasks)
    BY <1>1 DEF ControlTypeOK
  <1>4. IdleWorker.pc = "idle"
    BY DEF IdleWorker
  <1>5. QED
    BY <1>2, <1>3, <1>4, WorkerFits DEF Stop

\* A worker that goes on while tasks and attempts stay.
LEMMA GoesOnFits ==
    ASSUME LedgerTypeOK, ControlInv, FitInv, NEW w \in Workers, workers[w].pc # "idle",
           UNCHANGED ledgerVars, tasks' = tasks,
           NEW r, workers' = [workers EXCEPT ![w] = r],
           r.attempt = workers[w].attempt, r.task = workers[w].task,
           w \in ExecutionWorkers => r.pc \in ExecutionSteps \ {"applied", "released"},
           w \notin ExecutionWorkers => r.pc \in ReconciliationSteps \ {"applied"},
           r.pc = "failing" => Over(attempts[workers[w].attempt]),
           r.pc \in {"read", "correlated"} /\ r.seen # "execution_unknown"
             => Ended(attempts[workers[w].attempt])
    PROVE  FitInv'
  <1>1. TasksKept
    BY TasksSame DEF TasksLast
  <1>2. attempts' = attempts
    BY DEF ledgerVars
  <1>3. Fits(w, workers[w], tasks[workers[w].task], attempts[workers[w].attempt])
    BY FitFinds
  <1>4. r.pc # "released"
    BY DEF ReconciliationSteps
  <1>5. Fits(w, r, tasks'[r.task], attempts'[r.attempt])
    BY <1>2, <1>3, <1>4 DEF Fits
  <1>6. QED
    BY <1>1, <1>5, WorkerFits

\* Where the catch block of a reconciliation leads.
LEMMA CaughtFits ==
    ASSUME LedgerTypeOK, ControlInv, FitInv, NEW w \in Workers,
           workers[w].pc \in {"read", "correlated", "applied"}, w \notin ExecutionWorkers,
           UNCHANGED ledgerVars, tasks' = tasks, CaughtReconciliation(w)
    PROVE  FitInv'
  <1> DEFINE x == attempts[workers[w].attempt]
             pc == IF workers[w].seen = "execution_unknown" /\ x.window # "passed"
                     THEN "requeueing" ELSE "failing"
             r == [workers[w] EXCEPT !.result = NoResult, !.seen = "absent", !.pc = pc]
  <1>1. /\ workers[w] \in WorkerRecords
        /\ Fits(w, workers[w], tasks[workers[w].task], x)
        /\ Left(x)
    BY FitFinds
  <1>2. workers' = [workers EXCEPT ![w] = r]
    BY <1>1, WorkerFinds DEF CaughtReconciliation
  <1>3. r.pc = pc /\ r.attempt = workers[w].attempt /\ r.task = workers[w].task
    BY <1>1 DEF WorkerRecords
  <1>4. pc = "failing" => Over(x)
    BY <1>1 DEF Fits, Over, Ended, Left
  <1>5. pc \in {"requeueing", "failing"}
    OBVIOUS
  <1> HIDE DEF r, pc
  <1>6. QED
    BY <1>2, <1>3, <1>4, <1>5, GoesOnFits DEF ReconciliationSteps

LEMMA DispatchFits ==
    ASSUME LedgerTypeOK, ControlInv, FitInv, NEW w \in Workers,
           \/ Preflight(w) \/ SendToVendor(w) \/ AdapterThrows(w)
           \/ VendorAnswers(w) \/ DispatchTimesOut(w) \/ TransportFails(w)
           \/ DispatchStoreThrows(w)
    PROVE  FitInv'
  <1>1. UNCHANGED ledgerVars /\ tasks' = tasks
    BY DEF Preflight, SendToVendor, AdapterThrows, VendorAnswers, DispatchTimesOut,
           TransportFails, DispatchStoreThrows
  <1>2. workers[w].pc \in {"marked", "cleared", "sent", "answered", "applied"}
    BY DEF Preflight, SendToVendor, AdapterThrows, VendorAnswers, DispatchTimesOut,
           TransportFails, DispatchStoreThrows, At
  <1>3. workers[w] \in WorkerRecords /\ workers \in [Workers -> WorkerRecords]
    BY WorkerFinds
  <1>4. w \in ExecutionWorkers
    <2>1. CASE DispatchStoreThrows(w)
      BY <2>1 DEF DispatchStoreThrows
    <2>2. CASE ~ DispatchStoreThrows(w)
      <3>1. workers[w].pc \in {"marked", "cleared", "sent"}
        BY <2>2 DEF Preflight, SendToVendor, AdapterThrows, VendorAnswers, DispatchTimesOut,
                    TransportFails, At
      <3>2. QED
        BY <3>1, FitFinds DEF Fits, ReconciliationSteps
    <2>3. QED
      BY <2>1, <2>2
  <1>5. ASSUME NEW pc \in {"cleared", "releasing", "sent", "answered"}, NEW result,
               \/ workers' = [workers EXCEPT ![w].pc = pc]
               \/ workers' = [workers EXCEPT ![w].pc = pc, ![w].result = result]
        PROVE  FitInv'
    <2>1. PICK r : /\ workers' = [workers EXCEPT ![w] = r]
                   /\ \/ r = [workers[w] EXCEPT !.pc = pc]
                      \/ r = [workers[w] EXCEPT !.pc = pc, !.result = result]
      <3>1. CASE workers' = [workers EXCEPT ![w].pc = pc]
        <4>1. workers' = [workers EXCEPT ![w] = [workers[w] EXCEPT !.pc = pc]]
          BY <1>3, <3>1
        <4>2. QED
          BY <4>1
      <3>2. CASE workers' = [workers EXCEPT ![w].pc = pc, ![w].result = result]
        <4>1. workers' = [workers EXCEPT ![w] =
                [workers[w] EXCEPT !.pc = pc, !.result = result]]
          BY <1>3, <3>2
        <4>2. QED
          BY <4>1
      <3>3. QED
        BY <1>5, <3>1, <3>2
    <2>2. r.pc = pc /\ r.attempt = workers[w].attempt /\ r.task = workers[w].task
      BY <1>3, <2>1 DEF WorkerRecords
    <2>3. QED
      BY <1>1, <1>2, <1>4, <2>1, <2>2, GoesOnFits DEF ExecutionSteps
  <1>6. CASE Preflight(w) \/ SendToVendor(w) \/ AdapterThrows(w)
    BY <1>5, <1>6 DEF Preflight, SendToVendor, AdapterThrows, Goto
  <1>7. CASE VendorAnswers(w) \/ DispatchTimesOut(w) \/ TransportFails(w)
    BY <1>5, <1>7 DEF VendorAnswers, DispatchTimesOut, TransportFails, Learn
  <1>8. CASE DispatchStoreThrows(w)
    BY <1>5, <1>8 DEF DispatchStoreThrows
  <1>9. QED
    BY <1>6, <1>7, <1>8

\* What the three writes of a worker make of its attempt.
LEMMA WrittenRow ==
    ASSUME LedgerTypeOK, ControlInv, NEW w \in Workers
    PROVE  /\ ApplyDispatchResult(w) => attempts'[workers[w].attempt].status \in Outcomes
           /\ ApplyReconciliationResult(w)
                => attempts'[workers[w].attempt].status \in CorrelatedOutcomes
           /\ \A a \in Attempts :
                ReleaseAttempt(a) => attempts'[a].status = "cancelled_released"
  <1> DEFINE a == workers[w].attempt
  <1>1. ASSUME ApplyDispatchResult(w) PROVE attempts'[a].status \in Outcomes
    <2>1. a \in Attempts
      BY <1>1, WorkerFinds DEF ApplyDispatchResult, At
    <2>2. CASE ApplyDispatchSucceeded(a, workers[w].result.reported)
      BY <2>1, <2>2 DEF ApplyDispatchSucceeded, LedgerTypeOK, AttemptRecords, Outcomes
    <2>3. CASE ApplyDispatchFailed(a, workers[w].result.reported)
      BY <2>1, <2>3 DEF ApplyDispatchFailed, LedgerTypeOK, AttemptRecords, Outcomes
    <2>4. CASE ApplyDispatchUnknown(a, workers[w].result.signed)
      BY <2>1, <2>4, SMTT(30)
      DEF ApplyDispatchUnknown, LedgerTypeOK, AttemptRecords, Outcomes
    <2>5. QED
      BY <1>1, <2>2, <2>3, <2>4 DEF ApplyDispatchResult
  <1>2. ASSUME ApplyReconciliationResult(w) PROVE attempts'[a].status \in CorrelatedOutcomes
    <2>1. a \in Attempts /\ workers[w].result.outcome \in CorrelatedOutcomes
      BY <1>2, WorkerFinds DEF ApplyReconciliationResult, At, Holds
    <2>2. QED
      BY <1>2, <2>1
      DEF ApplyReconciliationResult, ApplyReconciliation, LedgerTypeOK, AttemptRecords
  <1>3. ASSUME NEW b \in Attempts, ReleaseAttempt(b)
        PROVE  attempts'[b].status = "cancelled_released"
    BY <1>3 DEF ReleaseAttempt, LedgerTypeOK, AttemptRecords
  <1>4. QED
    BY <1>1, <1>2, <1>3

LEMMA WritingFits ==
    ASSUME LedgerTypeOK, ControlInv, FitInv, [LedgerNext]_ledgerVars, NEW w \in Workers,
           \/ ClaimAttempt(w) \/ ApplyDispatchResult(w) \/ ReleaseDispatch(w)
           \/ ApplyReconciliationResult(w)
    PROVE  FitInv'
  <1> DEFINE a == workers[w].attempt
             t == tasks[workers[w].task]
             x == attempts[a]
  <1>1. workers[w].pc \in {"claimed", "answered", "releasing", "correlated"} /\ ControlTypeOK
    BY DEF ClaimAttempt, ApplyDispatchResult, ReleaseDispatch, ApplyReconciliationResult, At,
           ControlInv
  <1>2. /\ workers[w] \in WorkerRecords /\ workers \in [Workers -> WorkerRecords]
        /\ a \in Attempts /\ workers[w].task \in 1 .. Len(tasks)
        /\ Fits(w, workers[w], t, x)
    BY <1>1, FitFinds, WorkerFinds
  <1>3. ASSUME NEW r, workers' = [workers EXCEPT ![w] = r],
               r.attempt = a, r.task = workers[w].task, TasksKept,
               Len(tasks') = Len(tasks) \/ OnlyNew("reconcile_attempt", a),
               \/ w \in ExecutionWorkers /\ r.pc = "marked" /\ tasks' = tasks
               \/ /\ w \in ExecutionWorkers /\ r.pc \in {"applied", "released"}
                  /\ Left(attempts'[a])
               \/ /\ w \notin ExecutionWorkers /\ r.pc = "applied"
                  /\ Ended(attempts'[a])
        PROVE  FitInv'
    <2>1. tasks'[r.task].kind = t.kind /\ tasks'[r.task].attempt = t.attempt
      BY <1>2, <1>3 DEF TasksKept
    <2>2. Ended(attempts'[a]) => Left(attempts'[a])
      BY DEF Ended, Left
    <2>3. Fits(w, r, tasks'[r.task], attempts'[r.attempt])
      BY <1>2, <1>3, <2>1, <2>2 DEF Fits, ExecutionSteps, ReconciliationSteps
    <2>4. Len(tasks') = Len(tasks) \/ Left(attempts'[a])
      BY <1>3, <2>2
    <2>5. QED
      BY <1>3, <2>3, <2>4, WorkerFits
  <1>4. CASE ClaimAttempt(w)
    <2>1. CASE Stop(w)
      BY <1>4, <2>1, StopFits DEF ClaimAttempt
    <2>2. CASE Goto(w, "marked")
      <3> DEFINE r == [workers[w] EXCEPT !.pc = "marked"]
      <3>1. workers' = [workers EXCEPT ![w] = r]
        BY <1>2, <2>2 DEF Goto
      <3>2. r.pc = "marked" /\ r.attempt = a /\ r.task = workers[w].task
        BY <1>2 DEF WorkerRecords
      <3> HIDE DEF r
      <3>3. TasksKept /\ tasks' = tasks /\ w \in ExecutionWorkers
        BY <1>4, TasksSame DEF ClaimAttempt, TasksLast
      <3>4. QED
        BY <1>3, <3>1, <3>2, <3>3
    <2>3. QED
      BY <1>4, <2>1, <2>2 DEF ClaimAttempt
  <1>5. CASE ApplyDispatchResult(w)
    <2> DEFINE r == [workers[w] EXCEPT !.pc = "applied", !.result = NoResult]
    <2>1. workers' = [workers EXCEPT ![w] = r]
      BY <1>2, <1>5 DEF ApplyDispatchResult, GotoApplied
    <2>2. r.pc = "applied" /\ r.attempt = a /\ r.task = workers[w].task
      BY <1>2 DEF WorkerRecords
    <2> HIDE DEF r
    <2>3. tasks' = tasks \/ EnqueueReconcile(a)
      BY <1>5 DEF ApplyDispatchResult
    <2>4. TasksKept /\ (Len(tasks') = Len(tasks) \/ OnlyNew("reconcile_attempt", a))
      BY <1>1, <1>2, <2>3, TasksSame, ReconcileKeeps DEF TasksLast
    <2>5. Left(attempts'[a])
      BY <1>5, WrittenRow DEF Left, Outcomes, ResolvedStatuses
    <2>6. w \in ExecutionWorkers
      BY <1>2, <1>5 DEF ApplyDispatchResult, At, Fits, ReconciliationSteps
    <2>7. QED
      BY <1>3, <2>1, <2>2, <2>4, <2>5, <2>6
  <1>6. CASE ReleaseDispatch(w)
    <2>1. CASE Stop(w)
      BY <1>6, <2>1, StopFits DEF ReleaseDispatch
    <2>2. CASE ReleaseAttempt(a) /\ Goto(w, "released")
      <3> DEFINE r == [workers[w] EXCEPT !.pc = "released"]
      <3>1. workers' = [workers EXCEPT ![w] = r]
        BY <1>2, <2>2 DEF Goto
      <3>2. r.pc = "released" /\ r.attempt = a /\ r.task = workers[w].task
        BY <1>2 DEF WorkerRecords
      <3> HIDE DEF r
      <3>3. TasksKept /\ tasks' = tasks
        BY <1>6, TasksSame DEF ReleaseDispatch, TasksLast
      <3>4. Left(attempts'[a])
        BY <1>2, <2>2, WrittenRow DEF Left, ResolvedStatuses
      <3>5. w \in ExecutionWorkers
        BY <1>2, <1>6 DEF ReleaseDispatch, At, Fits, ReconciliationSteps
      <3>6. QED
        BY <1>3, <3>1, <3>2, <3>3, <3>4, <3>5
    <2>3. QED
      BY <1>6, <2>1, <2>2 DEF ReleaseDispatch
  <1>7. CASE ApplyReconciliationResult(w)
    <2> DEFINE r == [workers[w] EXCEPT !.pc = "applied", !.result = NoResult]
    <2>1. workers' = [workers EXCEPT ![w] = r]
      BY <1>2, <1>7 DEF ApplyReconciliationResult, GotoApplied
    <2>2. r.pc = "applied" /\ r.attempt = a /\ r.task = workers[w].task
      BY <1>2 DEF WorkerRecords
    <2> HIDE DEF r
    <2>3. TasksKept /\ tasks' = tasks
      BY <1>7, TasksSame DEF ApplyReconciliationResult, TasksLast
    <2>4. Ended(attempts'[a])
      BY <1>7, WrittenRow DEF Ended, CorrelatedOutcomes, ResolvedStatuses
    <2>5. w \notin ExecutionWorkers
      BY <1>2, <1>7 DEF ApplyReconciliationResult, At, Fits, ExecutionSteps
    <2>6. QED
      BY <1>3, <2>1, <2>2, <2>3, <2>4, <2>5
  <1>8. QED
    BY <1>4, <1>5, <1>6, <1>7

LEMMA ReconcileFits ==
    ASSUME LedgerTypeOK, ControlInv, FitInv, NEW w \in Workers,
           \/ ReadAttempt(w) \/ CorrelateAttemptStatus(w) \/ CorrelationThrows(w)
           \/ ReconciliationThrows(w)
    PROVE  FitInv'
  <1> DEFINE x == attempts[workers[w].attempt]
  <1>1. workers[w].pc \in {"claimed", "read", "correlated", "applied"}
    BY DEF ReadAttempt, CorrelateAttemptStatus, CorrelationThrows, ReconciliationThrows, At
  <1>2. /\ workers[w] \in WorkerRecords /\ workers \in [Workers -> WorkerRecords]
        /\ Fits(w, workers[w], tasks[workers[w].task], x)
        /\ w \notin ExecutionWorkers => Left(x)
    BY <1>1, FitFinds, WorkerFinds
  <1>3. UNCHANGED ledgerVars /\ tasks' = tasks
    BY DEF ReadAttempt, CorrelateAttemptStatus, CorrelationThrows, ReconciliationThrows
  <1>4. w \notin ExecutionWorkers
    <2>1. CASE ReadAttempt(w) \/ ReconciliationThrows(w)
      BY <2>1, WorkerAssumption DEF ReadAttempt, ReconciliationThrows
    <2>2. CASE CorrelateAttemptStatus(w) \/ CorrelationThrows(w)
      BY <1>2, <2>2 DEF CorrelateAttemptStatus, CorrelationThrows, At, Fits, ExecutionSteps
    <2>3. QED
      BY <2>1, <2>2
  <1>5. CASE ReadAttempt(w)
    <2> DEFINE r == [workers[w] EXCEPT !.pc = "read", !.seen = x.status]
    <2>1. workers' = [workers EXCEPT ![w] = r]
      BY <1>2, <1>5 DEF ReadAttempt
    <2>2. /\ r.pc = "read" /\ r.attempt = workers[w].attempt /\ r.task = workers[w].task
          /\ r.seen = x.status
      BY <1>2 DEF WorkerRecords
    <2> HIDE DEF r
    <2>3. x.status # "execution_unknown" => Ended(x)
      BY <1>2, <1>4 DEF Left, Ended
    <2>4. QED
      BY <1>1, <1>3, <1>4, <2>1, <2>2, <2>3, GoesOnFits DEF ReconciliationSteps
  <1>6. CASE CorrelateAttemptStatus(w)
    <2>1. PICK result : workers' = [workers EXCEPT ![w].pc = "correlated", ![w].result = result]
      BY <1>6 DEF CorrelateAttemptStatus, Learn
    <2> DEFINE r == [workers[w] EXCEPT !.pc = "correlated", !.result = result]
    <2>2. workers' = [workers EXCEPT ![w] = r]
      BY <1>2, <2>1
    <2>3. /\ r.pc = "correlated" /\ r.attempt = workers[w].attempt
          /\ r.task = workers[w].task /\ r.seen = workers[w].seen
      BY <1>2 DEF WorkerRecords
    <2> HIDE DEF r
    <2>4. workers[w].seen # "execution_unknown" => Ended(x)
      BY <1>2, <1>6 DEF CorrelateAttemptStatus, At, Fits
    <2>5. QED
      BY <1>1, <1>3, <1>4, <2>2, <2>3, <2>4, GoesOnFits DEF ReconciliationSteps
  <1>7. CASE CorrelationThrows(w) \/ ReconciliationThrows(w)
    BY <1>3, <1>4, <1>7, CaughtFits DEF CorrelationThrows, ReconciliationThrows, At
  <1>8. QED
    BY <1>5, <1>6, <1>7

LEMMA TaskFits ==
    ASSUME LedgerTypeOK, ControlInv, FitInv, NEW w \in Workers,
           \/ LeaseNextWorkerTask(w) \/ CompleteWorkerTask(w) \/ FailWorkerTask(w)
           \/ RequeueWorkerTask(w) \/ Crash(w)
    PROVE  FitInv'
  <1>1. UNCHANGED ledgerVars /\ ControlTypeOK /\ tasks \in Seq(TaskRecords)
    BY DEF LeaseNextWorkerTask, CompleteWorkerTask, FailWorkerTask, RequeueWorkerTask, Crash,
           ControlInv, ControlTypeOK
  <1>2. CASE LeaseNextWorkerTask(w)
    <2>0. DOMAIN tasks = 1 .. Len(tasks)
      BY <1>1
    <2>1. PICK i \in 1 .. Len(tasks) :
            /\ LeaseTask(KindOf(w), i)
            /\ workers' = [workers EXCEPT ![w] =
                 [IdleWorker EXCEPT !.pc = "claimed", !.task = i, !.attempt = tasks[i].attempt]]
      BY <1>2, <2>0 DEF LeaseNextWorkerTask
    <2> DEFINE r == [IdleWorker EXCEPT !.pc = "claimed", !.task = i,
                                       !.attempt = tasks[i].attempt]
    <2>2. r.pc = "claimed" /\ r.task = i /\ r.attempt = tasks[i].attempt
      BY DEF IdleWorker
    <2>3. workers' = [workers EXCEPT ![w] = r]
      BY <2>1
    <2> HIDE DEF r
    <2>4. TasksKept /\ Len(tasks') = Len(tasks)
      <3>1. tasks' = [tasks EXCEPT ![i].status = "leased"]
        BY <2>1 DEF LeaseTask
      <3>2. Len(tasks') = Len(tasks)
        BY <1>1, <3>1
      <3>3. QED
        BY <1>1, <3>1, <3>2, StatusChangeKeeps
    <2>5. tasks'[i].kind = KindOf(w) /\ tasks'[i].attempt = tasks[i].attempt
      BY <2>1, <2>4 DEF TasksKept, LeaseTask
    <2>6. Fits(w, r, tasks'[r.task], attempts'[r.attempt])
      BY <2>2, <2>5 DEF Fits, ExecutionSteps, ReconciliationSteps
    <2>7. QED
      BY <1>1, <2>3, <2>4, <2>6, WorkerFits
  <1>3. CASE Crash(w)
    BY <1>1, <1>3, StopFits DEF Crash
  <1>4. CASE CompleteWorkerTask(w) \/ FailWorkerTask(w) \/ RequeueWorkerTask(w)
    <2>1. workers[w].pc # "idle"
      BY <1>4 DEF CompleteWorkerTask, FailWorkerTask, RequeueWorkerTask, At
    <2>2. workers[w].task \in 1 .. Len(tasks)
      BY <2>1, WorkerFinds
    <2>3. PICK status \in TaskStatuses : tasks' = [tasks EXCEPT ![workers[w].task].status = status]
      BY <1>4 DEF CompleteWorkerTask, FailWorkerTask, RequeueWorkerTask, CompleteTask, FailTask,
                  RequeueTask, TaskStatuses
    <2>4. Stop(w)
      BY <1>4 DEF CompleteWorkerTask, FailWorkerTask, RequeueWorkerTask
    <2>5. QED
      BY <1>1, <2>2, <2>3, <2>4, StopFits
  <1>5. QED
    BY <1>2, <1>3, <1>4

LEMMA FitInit == Init => FitInv
  <1> SUFFICES ASSUME Init PROVE FitInv
    OBVIOUS
  <1>1. Len(tasks) = 0 /\ \A w \in Workers : workers[w].pc = "idle"
    BY DEF Init, IdleWorker
  <1>2. QED
    BY <1>1 DEF FitInv, WorkersFit, TasksFit

LEMMA FitStep == WorkerInv /\ FitInv /\ WorkerInv' /\ [Next]_vars => FitInv'
  <1> SUFFICES ASSUME WorkerInv, FitInv, WorkerInv', [Next]_vars PROVE FitInv'
    OBVIOUS
  <1>1. LedgerTypeOK /\ ControlInv /\ ControlInv' /\ [LedgerNext]_ledgerVars
    BY StepIsLedgerStep DEF WorkerInv, LedgerInv
  <1>2. ASSUME NEW w \in Workers, WorkerStep(w) \/ FaultStep(w)
        PROVE  FitInv'
    BY <1>1, <1>2, DispatchFits, WritingFits, ReconcileFits, TaskFits DEF WorkerStep, FaultStep
  <1>3. CASE UNCHANGED vars
    BY <1>3 DEF vars, FitInv, WorkersFit, TasksFit, Fits, Left, Over, Ended, KindOf
  <1>4. QED
    BY <1>1, <1>2, <1>3, OutsideFits DEF Next

LEMMA FitInvariant == Spec => []FitInv
  <1>1. QED
    BY FitInit, FitStep, WorkerInvariant, PTL DEF Spec

-----------------------------------------------------------------------------
(***************************************************************************)
(* No attempt is forgotten.                                                *)
(***************************************************************************)
\* A task of attempt a that a step ends, the attempt needed no more; and for
\* an attempt that comes to need a task there is one.
TasksServe(a) ==
    /\ HasLiveTask("dispatch_attempt", a)
         => HasLiveTask("dispatch_attempt", a)' \/ Left(attempts[a])
    /\ HasLiveTask("reconcile_attempt", a)
         => HasLiveTask("reconcile_attempt", a)' \/ Over(attempts[a])
    /\ attempts[a].status = "absent" /\ attempts'[a].status = "dispatch_queued"
         => HasLiveTask("dispatch_attempt", a)'
    /\ attempts[a].status = "dispatching" /\ attempts'[a].status = "execution_unknown"
         => HasLiveTask("reconcile_attempt", a)'

LEMMA ServedAreAttended ==
    ASSUME LedgerTypeOK, [LedgerNext]_ledgerVars, NoAttemptForgotten,
           \A a \in Attempts : TasksServe(a)
    PROVE  NoAttemptForgotten'
  <1> SUFFICES ASSUME NEW a \in Attempts
               PROVE  /\ attempts'[a].status \in {"dispatch_queued", "dispatching"}
                           => HasLiveTask("dispatch_attempt", a)'
                      /\ attempts'[a].status = "execution_unknown"
                           => \/ HasLiveTask("reconcile_attempt", a)'
                              \/ attempts'[a].window = "passed"
    BY DEF NoAttemptForgotten
  <1> DEFINE x == attempts[a]
             y == attempts'[a]
             queued == HasLiveTask("dispatch_attempt", a)
             asked == HasLiveTask("reconcile_attempt", a)
             queuedNext == HasLiveTask("dispatch_attempt", a)'
             askedNext == HasLiveTask("reconcile_attempt", a)'
  <1>1. Moves(x, y)
    BY RowsMove
  <1>2. /\ x.status \in {"dispatch_queued", "dispatching"} => queued
        /\ x.status = "execution_unknown" => asked \/ x.window = "passed"
    BY DEF NoAttemptForgotten
  <1>3. /\ queued => queuedNext \/ Left(x)
        /\ asked => askedNext \/ Over(x)
        /\ x.status = "absent" /\ y.status = "dispatch_queued" => queuedNext
        /\ x.status = "dispatching" /\ y.status = "execution_unknown" => askedNext
    BY DEF TasksServe
  <1> HIDE DEF x, y, queued, asked, queuedNext, askedNext
  <1>4. /\ y.status \in {"dispatch_queued", "dispatching"} => queuedNext
        /\ y.status = "execution_unknown" => askedNext \/ y.window = "passed"
    BY <1>1, <1>2, <1>3 DEF Moves, Left, Over, Ended, ResolvedStatuses
  <1>5. QED
    BY <1>4 DEF y, queuedNext, askedNext

\* A step that ends no task and takes no attempt to a status with a new need.
LEMMA LastingTasksServe ==
    ASSUME ControlTypeOK, ControlTypeOK', TasksLast, NEW a \in Attempts,
           attempts[a].status = "absent" /\ attempts'[a].status = "dispatch_queued"
             => HasLiveTask("dispatch_attempt", a)',
           attempts[a].status = "dispatching" /\ attempts'[a].status = "execution_unknown"
             => HasLiveTask("reconcile_attempt", a)'
    PROVE  TasksServe(a)
  BY LiveTasksStay DEF TasksServe

\* A worker ends its task.
LEMMA EndedTasksServe ==
    ASSUME ControlInv, FitInv, ControlInv', NEW w \in Workers,
           CompleteWorkerTask(w) \/ FailWorkerTask(w), NEW a \in Attempts
    PROVE  TasksServe(a)
  <1> DEFINE i == workers[w].task
             b == workers[w].attempt
  <1>1. workers[w].pc \in {"applied", "released", "failing"}
    BY DEF CompleteWorkerTask, FailWorkerTask, At
  <1>2. i \in 1 .. Len(tasks) /\ Fits(w, workers[w], tasks[i], attempts[b])
    BY <1>1, FitFinds
  <1>3. attempts' = attempts /\ ControlTypeOK /\ ControlTypeOK'
    BY DEF CompleteWorkerTask, FailWorkerTask, ledgerVars, ControlInv
  <1>4. PICK status \in TaskStatuses : tasks' = [tasks EXCEPT ![i].status = status]
    BY DEF CompleteWorkerTask, FailWorkerTask, CompleteTask, FailTask, TaskStatuses
  <1>5. /\ tasks[i].attempt = b
        /\ tasks[i].kind = "dispatch_attempt" => Left(attempts[b])
        /\ tasks[i].kind = "reconcile_attempt" => Over(attempts[b])
    BY <1>1, <1>2 DEF Fits, KindOf, Over, Ended, Left, ExecutionSteps, ReconciliationSteps
  <1> HIDE DEF i, b
  <1>6. ASSUME NEW kind, HasLiveTask(kind, a)
        PROVE  HasLiveTask(kind, a)' \/ (tasks[i].kind = kind /\ tasks[i].attempt = a)
    <2>1. PICK j \in DOMAIN tasks :
            tasks[j].kind = kind /\ tasks[j].attempt = a /\ LiveTask(j)
      BY <1>6 DEF HasLiveTask
    <2>2. CASE j = i
      BY <2>1, <2>2
    <2>3. CASE j # i
      <3>1. j \in 1 .. Len(tasks) /\ DOMAIN tasks' = 1 .. Len(tasks')
        BY <1>3, <2>1 DEF ControlTypeOK
      <3>2. tasks'[j] = tasks[j] /\ j \in 1 .. Len(tasks')
        BY <1>2, <1>3, <1>4, <2>3, <3>1, StatusChangeKeeps DEF TasksKept
      <3>3. QED
        BY <2>1, <3>1, <3>2 DEF HasLiveTask, LiveTask
    <2>4. QED
      BY <2>2, <2>3
  <1>7. attempts[a].status # "absent" \/ attempts'[a].status # "dispatch_queued"
    BY <1>3
  <1>8. attempts[a].status # "dispatching" \/ attempts'[a].status # "execution_unknown"
    BY <1>3
  <1>9. QED
    BY <1>5, <1>6, <1>7, <1>8 DEF TasksServe

LEMMA OutsideServes ==
    ASSUME LedgerTypeOK, ControlInv, ControlInv',
           Operator \/ LedgerClock \/ TaskClock
             \/ \E a \in Attempts : EnsureReconciliationQueued(a) \/ VendorSettles(a),
           NEW b \in Attempts
    PROVE  TasksServe(b)
  <1>1. ControlTypeOK /\ ControlTypeOK' /\ attempts \in [Attempts -> AttemptRecords]
    BY DEF ControlInv, LedgerTypeOK
  <1>2. ASSUME TasksLast, attempts'[b].status = attempts[b].status
        PROVE  TasksServe(b)
    BY <1>1, <1>2, LastingTasksServe
  <1>3. CASE Operator
    <2>1. CASE attempts' = attempts /\ tasks' = tasks
      BY <1>2, <2>1, TasksSame
    <2>2. ASSUME NEW a \in Attempts, NEW m \in Mandates, NEW v \in Vendors, NEW amount \in Amounts,
                 DenyAttempt(a, m, v, amount) \/ DenyByTreasury(a, m, v, amount),
                 tasks' = tasks
          PROVE  TasksServe(b)
      <3>1. attempts' = [attempts EXCEPT ![a] = Materialized(m, amount, "policy_denied")]
            /\ Materialized(m, amount, "policy_denied").status = "policy_denied"
        BY <2>2 DEF DenyAttempt, DenyByTreasury, Materialized, NoAttempt
      <3>2. attempts'[b].status = attempts[b].status \/ attempts'[b].status = "policy_denied"
        BY <1>1, <3>1
      <3>3. QED
        BY <1>1, <1>2, <2>2, <3>2, TasksSame, LastingTasksServe
    <2>3. ASSUME NEW a \in Attempts, NEW m \in Mandates, NEW v \in Vendors, NEW amount \in Amounts,
                 ReserveAttempt(a, m, v, amount), EnqueueDispatch(a)
          PROVE  TasksServe(b)
      <3>1. attempts' = [attempts EXCEPT ![a] = Materialized(m, amount, "dispatch_queued")]
            /\ Materialized(m, amount, "dispatch_queued").status = "dispatch_queued"
        BY <2>3 DEF ReserveAttempt, Materialized, NoAttempt
      <3>2. TasksLast /\ HasLiveTask("dispatch_attempt", a)'
        BY <1>1, <2>3, AppendKeeps DEF EnqueueDispatch, TaskKinds
      <3>3. CASE b = a
        BY <1>1, <3>1, <3>2, <3>3, LastingTasksServe
      <3>4. CASE b # a
        BY <1>1, <1>2, <3>1, <3>2, <3>4
      <3>5. QED
        BY <3>3, <3>4
    <2>4. QED
      BY <1>3, <2>1, <2>2, <2>3 DEF Operator, RevokeMandate, CreateMandate
  <1>4. CASE LedgerClock
    <2>1. tasks' = tasks
      BY <1>4 DEF LedgerClock
    <2>2. attempts'[b].status = attempts[b].status
      BY <1>1, <1>4
      DEF LedgerClock, ClockStep, MandateExpiryPasses, EscalationWindowPasses, AttemptRecords
    <2>3. QED
      BY <1>2, <2>1, <2>2, TasksSame
  <1>5. CASE TaskClock
    <2>1. DOMAIN tasks = 1 .. Len(tasks)
      BY <1>1 DEF ControlTypeOK
    <2>2. PICK i \in 1 .. Len(tasks), status \in {"lapsed", "queued"} :
            tasks' = [tasks EXCEPT ![i].status = status]
      BY <1>5, <2>1 DEF TaskClock, LeaseExpires, RetryDelayElapses
    <2>3. TasksLast
      BY <1>1, <2>2, StatusChangeKeeps
    <2>4. QED
      BY <1>2, <1>5, <2>3 DEF TaskClock, ledgerVars
  <1>6. ASSUME NEW a \in Attempts, EnsureReconciliationQueued(a) PROVE TasksServe(b)
    BY <1>1, <1>2, <1>6, ReconcileKeeps DEF EnsureReconciliationQueued, ledgerVars
  <1>7. ASSUME NEW a \in Attempts, VendorSettles(a) PROVE TasksServe(b)
    BY <1>2, <1>7, TasksSame DEF VendorSettles, ledgerVars
  <1>8. QED
    BY <1>3, <1>4, <1>5, <1>6, <1>7

LEMMA WorkerServes ==
    ASSUME LedgerTypeOK, ControlInv, ControlInv', FitInv,
           NEW w \in Workers, WorkerStep(w) \/ FaultStep(w), NEW b \in Attempts
    PROVE  TasksServe(b)
  <1> DEFINE a == workers[w].attempt
  <1>1. ControlTypeOK /\ ControlTypeOK' /\ attempts \in [Attempts -> AttemptRecords]
    BY DEF ControlInv, LedgerTypeOK
  <1>2. ASSUME TasksLast,
               \/ attempts'[b].status = attempts[b].status
               \/ attempts'[b].status \notin {"dispatch_queued", "execution_unknown"}
        PROVE  TasksServe(b)
    BY <1>1, <1>2, LastingTasksServe
  <1>3. ASSUME NEW i \in 1 .. Len(tasks), NEW status \in {"leased", "delayed"},
               tasks' = [tasks EXCEPT ![i].status = status], attempts' = attempts
        PROVE  TasksServe(b)
    BY <1>1, <1>2, <1>3, StatusChangeKeeps
  <1>4. CASE LeaseNextWorkerTask(w)
    <2>1. DOMAIN tasks = 1 .. Len(tasks)
      BY <1>1 DEF ControlTypeOK
    <2>2. QED
      BY <1>3, <1>4, <2>1 DEF LeaseNextWorkerTask, LeaseTask, ledgerVars
  <1>5. CASE RequeueWorkerTask(w)
    <2>1. workers[w].task \in 1 .. Len(tasks)
      BY <1>5, WorkerFinds DEF RequeueWorkerTask, At
    <2>2. QED
      BY <1>3, <1>5, <2>1 DEF RequeueWorkerTask, RequeueTask, ledgerVars
  <1>6. CASE CompleteWorkerTask(w) \/ FailWorkerTask(w)
    BY <1>6, EndedTasksServe
  <1>7. CASE ClaimAttempt(w) \/ ReleaseDispatch(w) \/ ApplyReconciliationResult(w)
    <2>1. a \in Attempts /\ tasks' = tasks
      BY <1>7, WorkerFinds DEF ClaimAttempt, ReleaseDispatch, ApplyReconciliationResult, At
    <2>2. PICK status \in {"dispatching", "cancelled_released"} \cup CorrelatedOutcomes :
            \/ attempts' = attempts
            \/ attempts'[a].status = status
               /\ \A c \in Attempts \ {a} : attempts'[c] = attempts[c]
      <3>1. CASE ClaimAttempt(w)
        BY <1>1, <2>1, <3>1 DEF ClaimAttempt, MarkDispatching, ledgerVars, AttemptRecords
      <3>2. CASE ReleaseDispatch(w)
        BY <1>1, <2>1, <3>2 DEF ReleaseDispatch, ReleaseAttempt, ledgerVars, AttemptRecords
      <3>3. CASE ApplyReconciliationResult(w)
        <4>1. workers[w].result.outcome \in CorrelatedOutcomes
          BY <3>3, WorkerFinds DEF ApplyReconciliationResult, At, Holds
        <4>2. \E final :
                attempts' = [attempts EXCEPT ![a].status = workers[w].result.outcome,
                                             ![a].settled = final]
          BY <3>3 DEF ApplyReconciliationResult, ApplyReconciliation
        <4>3. QED
          BY <1>1, <2>1, <4>1, <4>2, RowIsSettled
      <3>4. QED
        BY <1>7, <3>1, <3>2, <3>3
    <2>3. QED
      BY <1>2, <2>1, <2>2, TasksSame DEF CorrelatedOutcomes
  <1>8. CASE ApplyDispatchResult(w)
    <2>1. a \in Attempts
      BY <1>8, WorkerFinds DEF ApplyDispatchResult, At
    <2> PICK c \in Attempts : c = a
      BY <2>1
    <2>2. CASE ApplyDispatchSucceeded(c, workers[w].result.reported) /\ tasks' = tasks
      BY <1>1, <1>2, <2>2, TasksSame DEF ApplyDispatchSucceeded, AttemptRecords
    <2>3. CASE ApplyDispatchFailed(c, workers[w].result.reported) /\ tasks' = tasks
      BY <1>1, <1>2, <2>3, TasksSame DEF ApplyDispatchFailed, AttemptRecords
    <2>4. CASE ApplyDispatchUnknown(c, workers[w].result.signed) /\ EnqueueReconcile(c)
      <3>1. TasksLast /\ HasLiveTask("reconcile_attempt", c)'
        BY <1>1, <2>4, ReconcileKeeps
      <3>2. /\ attempts'[c].status = "execution_unknown"
            /\ \A d \in Attempts \ {c} : attempts'[d] = attempts[d]
        BY <1>1, <2>4, RowBecomesUnknown
      <3>3. CASE b = c
        BY <1>1, <3>1, <3>2, <3>3, LastingTasksServe
      <3>4. CASE b # c
        BY <1>2, <3>1, <3>2, <3>4
      <3>5. QED
        BY <3>3, <3>4
    <2>5. QED
      BY <1>8, <2>2, <2>3, <2>4 DEF ApplyDispatchResult
  <1>9. CASE \/ Preflight(w) \/ SendToVendor(w) \/ AdapterThrows(w) \/ VendorAnswers(w)
             \/ DispatchTimesOut(w) \/ ReadAttempt(w) \/ CorrelateAttemptStatus(w)
             \/ CorrelationThrows(w) \/ ReconciliationThrows(w) \/ FaultStep(w)
    <2>1. attempts' = attempts /\ tasks' = tasks
      BY <1>9
      DEF Preflight, SendToVendor, AdapterThrows, VendorAnswers, DispatchTimesOut, ReadAttempt,
          CorrelateAttemptStatus, CorrelationThrows, ReconciliationThrows, FaultStep, Crash,
          DispatchStoreThrows, TransportFails, ledgerVars
    <2>2. QED
      BY <1>2, <2>1, TasksSame
  <1>10. QED
    BY <1>4, <1>5, <1>6, <1>7, <1>8, <1>9 DEF WorkerStep

\* Whatever leases run out, whoever crashes and whichever write fails: an
\* attempt that is not resolved has a task that is still to be taken up, or is
\* an unknown one that was left to the operators after its 15 minutes.
THEOREM AttemptsAreNotForgotten == Spec => []NoAttemptForgotten
  <1>1. Init => NoAttemptForgotten
    BY DEF Init, LedgerInit, NoAttempt, NoAttemptForgotten
  <1>2. WorkerInv /\ FitInv /\ NoAttemptForgotten /\ WorkerInv' /\ [Next]_vars
          => NoAttemptForgotten'
    <2> SUFFICES ASSUME WorkerInv, FitInv, NoAttemptForgotten, WorkerInv', [Next]_vars
                 PROVE  NoAttemptForgotten'
      OBVIOUS
    <2>1. LedgerTypeOK /\ ControlInv /\ ControlInv' /\ [LedgerNext]_ledgerVars
      BY StepIsLedgerStep DEF WorkerInv, LedgerInv
    <2>2. CASE Next
      <3>1. ASSUME NEW b \in Attempts PROVE TasksServe(b)
        BY <2>1, <2>2, OutsideServes, WorkerServes DEF Next
      <3>2. QED
        BY <2>1, <3>1, ServedAreAttended
    <2>3. CASE UNCHANGED vars
      BY <2>3 DEF vars, NoAttemptForgotten, HasLiveTask, LiveTask
    <2>4. QED
      BY <2>2, <2>3
  <1>3. QED
    BY <1>1, <1>2, FitInvariant, WorkerInvariant, PTL DEF Spec

-----------------------------------------------------------------------------
(***************************************************************************)
(* While only crashes happen, the books say what the vendor did.           *)
(***************************************************************************)
\* What the row x of an attempt says of the state v of its vendor.
TellsTruth(x, v) ==
    /\ ~ Started(x) => v = "untouched"
    /\ x.status = "executed_charge_succeeded" => v = "charged"
    /\ x.status = "executed_charge_failed" => v = "refused"
    /\ x.status = "cancelled_released" => v = "untouched"

\* What a worker with the record r knows of the state v of the vendor: that
\* it was not called yet, or what it made of the call.
Knows(r, v) ==
    /\ r.pc \in Unsent \cup {"releasing"} => v = "untouched"
    /\ r.pc \in {"answered", "correlated"}
         => /\ r.result.outcome = "executed_charge_succeeded" => v = "charged"
            /\ r.result.outcome = "executed_charge_failed" => v = "refused"

TruthInv ==
    /\ \A a \in Attempts : TellsTruth(attempts[a], vendor[a])
    /\ \A w \in Workers :
         workers[w].pc # "idle" => Knows(workers[w], vendor[workers[w].attempt])

\* A step of worker w that changes no vendor and after which the row of no
\* attempt but its own says anything new.
LEMMA TruthStays ==
    ASSUME ControlInv, TruthInv, vendor' = vendor, NEW w \in Workers, NEW r,
           workers' = [workers EXCEPT ![w] = r],
           r.pc = "idle" \/ Knows(r, vendor[r.attempt]),
           \A b \in Attempts :
             \/ attempts'[b].status = attempts[b].status
             \/ TellsTruth(attempts'[b], vendor[b])
    PROVE  TruthInv'
  <1>1. workers'[w] = r /\ \A v \in Workers \ {w} : workers'[v] = workers[v]
    BY WorkerFinds
  <1>2. ASSUME NEW b \in Attempts PROVE TellsTruth(attempts'[b], vendor'[b])
    BY DEF TruthInv, TellsTruth, Started
  <1>3. ASSUME NEW v \in Workers, workers'[v].pc # "idle"
        PROVE  Knows(workers'[v], vendor'[workers'[v].attempt])
    BY <1>1, <1>3 DEF TruthInv
  <1>4. QED
    BY <1>2, <1>3 DEF TruthInv, TellsTruth, Started, Knows, Unsent

\* A step that leaves the workers and the vendors alone.
LEMMA RowsTellTruth ==
    ASSUME TruthInv, UNCHANGED <<workers, vendor>>,
           \A b \in Attempts :
             \/ attempts'[b].status = attempts[b].status
             \/ TellsTruth(attempts'[b], vendor[b])
    PROVE  TruthInv'
  <1>1. ASSUME NEW b \in Attempts PROVE TellsTruth(attempts'[b], vendor'[b])
    BY DEF TruthInv, TellsTruth, Started
  <1>2. QED
    BY <1>1 DEF TruthInv, TellsTruth, Started, Knows, Unsent

LEMMA OutsideTruth ==
    ASSUME LedgerTypeOK, ControlInv, TruthInv,
           Operator \/ LedgerClock \/ TaskClock
             \/ \E a \in Attempts : EnsureReconciliationQueued(a) \/ VendorSettles(a)
    PROVE  TruthInv'
  <1>1. /\ attempts \in [Attempts -> AttemptRecords]
        /\ vendor \in [Attempts -> VendorStates] /\ ControlTypeOK
    BY DEF ControlInv, ControlTypeOK, LedgerTypeOK
  <1>2. CASE Operator
    <2>1. UNCHANGED <<workers, vendor>>
      BY <1>2 DEF Operator, world
    <2>2. CASE attempts' = attempts
      BY <2>1, <2>2, RowsTellTruth
    <2>3. ASSUME NEW a \in Attempts, NEW m \in Mandates, NEW v \in Vendors, NEW amount \in Amounts,
                 RunAttempt(a, m, v, amount)
          PROVE  TruthInv'
      <3>1. attempts[a].status = "absent"
        BY <2>3 DEF RunAttempt, DenyAttempt, DenyByTreasury, ReserveAttempt
      <3>2. PICK status \in {"policy_denied", "dispatch_queued"} :
              attempts' = [attempts EXCEPT ![a] = Materialized(m, amount, status)]
        BY <2>3 DEF RunAttempt, DenyAttempt, DenyByTreasury, ReserveAttempt
      <3>3. Materialized(m, amount, status).status = status
        BY DEF Materialized, NoAttempt
      <3>4. vendor[a] = "untouched"
        BY <3>1 DEF TruthInv, TellsTruth, Started
      <3>5. TellsTruth(attempts'[a], vendor[a])
        BY <1>1, <3>2, <3>3, <3>4 DEF TellsTruth
      <3>6. \A b \in Attempts \ {a} : attempts'[b] = attempts[b]
        BY <1>1, <3>2
      <3>7. QED
        BY <2>1, <3>5, <3>6, RowsTellTruth
    <2>4. QED
      BY <1>2, <2>2, <2>3 DEF Operator, RevokeMandate, CreateMandate, RunAttempt
  <1>3. CASE LedgerClock
    <2>1. ASSUME NEW b \in Attempts PROVE attempts'[b].status = attempts[b].status
      BY <1>1, <1>3
      DEF LedgerClock, ClockStep, MandateExpiryPasses, EscalationWindowPasses, AttemptRecords
    <2>2. QED
      BY <1>3, <2>1, RowsTellTruth DEF LedgerClock, world
  <1>4. CASE TaskClock \/ \E a \in Attempts : EnsureReconciliationQueued(a)
    BY <1>4, RowsTellTruth DEF TaskClock, EnsureReconciliationQueued, ledgerVars, world
  <1>5. ASSUME NEW a \in Attempts, VendorSettles(a) PROVE TruthInv'
    <2>1. vendor[a] = "inflight" /\ attempts' = attempts /\ workers' = workers
      BY <1>5 DEF VendorSettles, ledgerVars
    <2>2. \A b \in Attempts \ {a} : vendor'[b] = vendor[b]
      BY <1>1, <1>5 DEF VendorSettles
    <2>3. ASSUME NEW b \in Attempts PROVE TellsTruth(attempts'[b], vendor'[b])
      BY <2>1, <2>2 DEF TruthInv, TellsTruth
    <2>4. ASSUME NEW v \in Workers, workers[v].pc # "idle"
          PROVE  Knows(workers[v], vendor'[workers[v].attempt])
      <3>1. workers[v].attempt \in Attempts
        BY <2>4, WorkerFinds
      <3>2. QED
        BY <2>1, <2>2, <2>4, <3>1 DEF TruthInv, Knows
    <2>5. QED
      BY <2>1, <2>3, <2>4 DEF TruthInv, TellsTruth, Started, Knows, Unsent
  <1>6. QED
    BY <1>2, <1>3, <1>4, <1>5

\* The call: no other worker relies on the vendor not having been called.
LEMMA SendTruth ==
    ASSUME ControlInv, DispatchInv, TruthInv, NEW w \in Workers, SendToVendor(w)
    PROVE  TruthInv'
  <1> DEFINE a == workers[w].attempt
  <1>1. a \in Attempts /\ workers[w] \in WorkerRecords
    BY WorkerFinds DEF SendToVendor, At
  <1>2. Owns(w, workers[w]) /\ attempts[a].status = "dispatching" /\ vendor[a] = "untouched"
    BY OwnerFinds DEF SendToVendor, At, Bound, Unsent, DispatchInv, OwnersAgree, TruthInv, Knows
  <1>3. attempts' = attempts /\ \A b \in Attempts \ {a} : vendor'[b] = vendor[b]
    BY <1>1, WorkerFinds DEF SendToVendor, ledgerVars
  <1>4. /\ \A v \in Workers \ {w} : workers'[v] = workers[v]
        /\ workers'[w].pc = "sent"
    BY <1>1, WorkerFinds DEF SendToVendor, Goto, WorkerRecords
  <1>5. ASSUME NEW b \in Attempts PROVE TellsTruth(attempts'[b], vendor'[b])
    <2>1. CASE b = a
      BY <1>2, <1>3, <2>1 DEF TellsTruth, Started
    <2>2. CASE b # a
      BY <1>3, <2>2 DEF TruthInv
    <2>3. QED
      BY <2>1, <2>2
  <1>6. ASSUME NEW v \in Workers, workers'[v].pc # "idle"
        PROVE  Knows(workers'[v], vendor'[workers'[v].attempt])
    <2>1. CASE v = w
      BY <1>4, <2>1 DEF Knows, Unsent
    <2>2. CASE v # w
      <3>1. workers'[v] = workers[v] /\ Knows(workers[v], vendor[workers[v].attempt])
        BY <1>4, <1>6, <2>2 DEF TruthInv
      <3>2. workers[v].attempt \in Attempts
        BY <1>6, <3>1, WorkerFinds
      <3>3. CASE workers[v].attempt # a
        BY <1>3, <3>1, <3>2, <3>3
      <3>4. CASE workers[v].attempt = a
        <4>1. ~ Owns(v, workers[v])
          BY <1>2, <2>2, <3>4 DEF DispatchInv, OneOwner
        <4>2. workers[v].pc \in Unsent \cup {"releasing"} => Owns(v, workers[v])
          BY DEF Unsent, Bound, Owns, DispatchInv, OwnersAgree, KeepsRole
        <4>3. QED
          BY <1>2, <3>1, <3>4, <4>1, <4>2 DEF Knows
      <3>5. QED
        BY <3>3, <3>4
    <2>3. QED
      BY <2>1, <2>2
  <1>7. QED
    BY <1>5, <1>6 DEF TruthInv, TellsTruth, Started, Knows, Unsent

\* A worker learns an outcome that is what the vendor did, or none.
LEMMA LearnTruth ==
    ASSUME ControlInv, TruthInv, NEW w \in Workers, UNCHANGED <<attempts, vendor>>,
           NEW pc \in {"answered", "correlated"}, NEW outcome, NEW reported, NEW signed,
           Learn(w, pc, outcome, reported, signed),
           outcome = "executed_charge_succeeded" => vendor[workers[w].attempt] = "charged",
           outcome = "executed_charge_failed" => vendor[workers[w].attempt] = "refused"
    PROVE  TruthInv'
  <1> DEFINE result == [outcome |-> outcome, reported |-> reported, signed |-> signed]
             r == [workers[w] EXCEPT !.pc = pc, !.result = result]
  <1>1. workers[w] \in WorkerRecords
    BY WorkerFinds
  <1>2. workers' = [workers EXCEPT ![w] = r]
    BY WorkerFinds DEF Learn
  <1>3. r.pc = pc /\ r.result.outcome = outcome /\ r.attempt = workers[w].attempt
    BY <1>1 DEF WorkerRecords
  <1> HIDE DEF r
  <1>4. Knows(r, vendor[r.attempt])
    BY <1>3 DEF Knows, Unsent
  <1>5. QED
    BY <1>2, <1>4, TruthStays

\* A worker goes on to a step at which it relies on nothing, or on no more
\* than at the step before.
LEMMA GoesOnTruth ==
    ASSUME ControlInv, TruthInv, NEW w \in Workers, UNCHANGED <<attempts, vendor>>,
           NEW r, workers' = [workers EXCEPT ![w] = r],
           \/ r.pc \in {"idle", "claimed", "read", "requeueing", "failing"}
           \/ /\ r.pc \in {"cleared", "releasing"} /\ workers[w].pc \in Unsent
              /\ r.attempt = workers[w].attempt
    PROVE  TruthInv'
  <1>1. r.pc = "idle" \/ Knows(r, vendor[r.attempt])
    <2>1. CASE r.pc \in {"idle", "claimed", "read", "requeueing", "failing"}
      BY <2>1 DEF Knows, Unsent
    <2>2. CASE /\ r.pc \in {"cleared", "releasing"} /\ workers[w].pc \in Unsent
               /\ r.attempt = workers[w].attempt
      BY <2>2 DEF TruthInv, Knows, Unsent
    <2>3. QED
      BY <2>1, <2>2
  <1>2. QED
    BY <1>1, TruthStays

LEMMA KnowingTruth ==
    ASSUME Faults \subseteq {"crash"}, ControlInv, TruthInv, NEW w \in Workers,
           \/ Preflight(w) \/ AdapterThrows(w) \/ VendorAnswers(w) \/ DispatchTimesOut(w)
           \/ ReadAttempt(w) \/ CorrelateAttemptStatus(w) \/ CorrelationThrows(w)
           \/ ReconciliationThrows(w)
    PROVE  TruthInv'
  <1> DEFINE a == workers[w].attempt
  <1>1. UNCHANGED <<attempts, vendor>>
    BY DEF Preflight, AdapterThrows, VendorAnswers, DispatchTimesOut, ReadAttempt,
           CorrelateAttemptStatus, CorrelationThrows, ReconciliationThrows, ledgerVars, world
  <1>2. workers[w] \in WorkerRecords /\ workers \in [Workers -> WorkerRecords]
    BY WorkerFinds
  <1>3. CASE Preflight(w) \/ AdapterThrows(w)
    <2>1. PICK pc \in {"cleared", "releasing"} : Goto(w, pc)
      BY <1>3 DEF Preflight, AdapterThrows
    <2> DEFINE r == [workers[w] EXCEPT !.pc = pc]
    <2>2. workers' = [workers EXCEPT ![w] = r]
      BY <1>2, <2>1 DEF Goto
    <2>3. r.pc = pc /\ r.attempt = a /\ workers[w].pc \in Unsent
      BY <1>2, <1>3 DEF WorkerRecords, Preflight, AdapterThrows, At, Unsent
    <2> HIDE DEF r
    <2>4. QED
      BY <1>1, <2>2, <2>3, GoesOnTruth
  <1>4. CASE VendorAnswers(w)
    BY <1>1, <1>4, LearnTruth DEF VendorAnswers
  <1>5. CASE DispatchTimesOut(w)
    BY <1>1, <1>5, LearnTruth DEF DispatchTimesOut
  <1>6. CASE ReadAttempt(w)
    <2> DEFINE r == [workers[w] EXCEPT !.pc = "read", !.seen = attempts[a].status]
    <2>1. workers' = [workers EXCEPT ![w] = r]
      BY <1>2, <1>6 DEF ReadAttempt
    <2>2. r.pc = "read"
      BY <1>2 DEF WorkerRecords
    <2> HIDE DEF r
    <2>3. QED
      BY <1>1, <2>1, <2>2, GoesOnTruth
  <1>7. CASE CorrelateAttemptStatus(w)
    <2>1. PICK verdict \in FacilitatorVerdicts(a) :
            \/ verdict = "invalid" /\ Learn(w, "correlated", "executed_charge_failed", NoReport, FALSE)
            \/ /\ verdict # "invalid" /\ vendor[a] \in {"charged", "refused"}
               /\ \E reported \in Reports :
                    Learn(w, "correlated",
                          IF verdict = "valid" \/ vendor[a] = "charged"
                            THEN "executed_charge_succeeded"
                            ELSE "executed_charge_failed",
                          reported, FALSE)
      BY <1>7 DEF CorrelateAttemptStatus
    <2>2. /\ verdict = "valid" => vendor[a] = "charged"
          /\ verdict = "invalid" => vendor[a] = "refused"
      BY <2>1 DEF FacilitatorVerdicts
    <2>3. QED
      BY <1>1, <2>1, <2>2, LearnTruth
  <1>8. CASE CorrelationThrows(w) \/ ReconciliationThrows(w)
    <2>1. PICK pc \in {"requeueing", "failing"} :
            workers' = [workers EXCEPT ![w].result = NoResult, ![w].seen = "absent",
                                       ![w].pc = pc]
      BY <1>8 DEF CorrelationThrows, ReconciliationThrows, CaughtReconciliation
    <2> DEFINE r == [workers[w] EXCEPT !.result = NoResult, !.seen = "absent", !.pc = pc]
    <2>2. workers' = [workers EXCEPT ![w] = r]
      BY <1>2, <2>1
    <2>3. r.pc = pc
      BY <1>2 DEF WorkerRecords
    <2> HIDE DEF r
    <2>4. QED
      BY <1>1, <2>2, <2>3, GoesOnTruth
  <1>9. QED
    BY <1>3, <1>4, <1>5, <1>6, <1>7, <1>8

LEMMA WritingTruth ==
    ASSUME LedgerTypeOK, ControlInv, TruthInv, NEW w \in Workers,
           \/ ClaimAttempt(w) \/ ApplyDispatchResult(w) \/ ReleaseDispatch(w)
           \/ ApplyReconciliationResult(w)
    PROVE  TruthInv'
  <1> DEFINE a == workers[w].attempt
             v == vendor[a]
  <1>1. workers[w].pc \in {"claimed", "answered", "releasing", "correlated"}
    BY DEF ClaimAttempt, ApplyDispatchResult, ReleaseDispatch, ApplyReconciliationResult, At
  <1>2. /\ workers[w] \in WorkerRecords /\ workers \in [Workers -> WorkerRecords]
        /\ a \in Attempts /\ attempts \in [Attempts -> AttemptRecords]
        /\ Knows(workers[w], v) /\ TellsTruth(attempts[a], v)
    BY <1>1, WorkerFinds DEF TruthInv, LedgerTypeOK
  <1>3. vendor' = vendor
    BY DEF ClaimAttempt, ApplyDispatchResult, ReleaseDispatch, ApplyReconciliationResult, world
  <1>4. ASSUME NEW r, workers' = [workers EXCEPT ![w] = r],
               \/ r.pc \in {"idle", "applied", "released"}
               \/ r.pc = "marked" /\ r.attempt = a /\ v = "untouched",
               attempts' = attempts
                 \/ (/\ \A b \in Attempts \ {a} : attempts'[b] = attempts[b]
                     /\ TellsTruth(attempts'[a], v))
        PROVE  TruthInv'
    <2>1. r.pc = "idle" \/ Knows(r, vendor[r.attempt])
      BY <1>4 DEF Knows, Unsent
    <2>2. \A b \in Attempts :
            \/ attempts'[b].status = attempts[b].status
            \/ TellsTruth(attempts'[b], vendor[b])
      BY <1>4
    <2>3. QED
      BY <1>3, <1>4, <2>1, <2>2, TruthStays
  <1>5. ASSUME UNCHANGED ledgerVars, Stop(w) PROVE TruthInv'
    BY <1>4, <1>5 DEF Stop, IdleWorker, ledgerVars
  <1>6. CASE ClaimAttempt(w)
    <2>1. CASE MarkDispatching(a) /\ Goto(w, "marked")
      <3> DEFINE r == [workers[w] EXCEPT !.pc = "marked"]
      <3>1. workers' = [workers EXCEPT ![w] = r]
        BY <1>2, <2>1 DEF Goto
      <3>2. r.pc = "marked" /\ r.attempt = a
        BY <1>2 DEF WorkerRecords
      <3> HIDE DEF r
      <3>3. v = "untouched"
        BY <1>2, <2>1, LiveSources DEF MarkDispatching, TellsTruth, Started
      <3>4. /\ attempts'[a].status = "dispatching"
            /\ \A b \in Attempts \ {a} : attempts'[b] = attempts[b]
        BY <1>2, <2>1 DEF MarkDispatching, AttemptRecords
      <3>5. TellsTruth(attempts'[a], v)
        BY <3>3, <3>4 DEF TellsTruth
      <3>6. QED
        BY <1>4, <3>1, <3>2, <3>3, <3>4, <3>5
    <2>2. QED
      BY <1>5, <1>6, <2>1 DEF ClaimAttempt
  <1>7. CASE ApplyDispatchResult(w)
    <2> DEFINE r == [workers[w] EXCEPT !.pc = "applied", !.result = NoResult]
               outcome == workers[w].result.outcome
    <2>1. workers' = [workers EXCEPT ![w] = r]
      BY <1>2, <1>7 DEF ApplyDispatchResult, GotoApplied
    <2>2. r.pc = "applied"
      BY <1>2 DEF WorkerRecords
    <2> HIDE DEF r
    <2>3. /\ attempts'[a].status = outcome /\ outcome \in Outcomes
          /\ \A b \in Attempts \ {a} : attempts'[b] = attempts[b]
      <3>1. CASE outcome = "executed_charge_succeeded"
                 /\ ApplyDispatchSucceeded(a, workers[w].result.reported)
        BY <1>2, <3>1 DEF ApplyDispatchSucceeded, AttemptRecords, Outcomes
      <3>2. CASE outcome = "executed_charge_failed"
                 /\ ApplyDispatchFailed(a, workers[w].result.reported)
        BY <1>2, <3>2 DEF ApplyDispatchFailed, AttemptRecords, Outcomes
      <3>3. CASE outcome = "execution_unknown"
                 /\ ApplyDispatchUnknown(a, workers[w].result.signed)
        BY <1>2, <3>3 DEF ApplyDispatchUnknown, AttemptRecords, Outcomes
      <3>4. QED
        BY <1>7, <3>1, <3>2, <3>3 DEF ApplyDispatchResult
    <2>4. /\ outcome = "executed_charge_succeeded" => v = "charged"
          /\ outcome = "executed_charge_failed" => v = "refused"
      BY <1>2, <1>7 DEF ApplyDispatchResult, At, Knows
    <2>5. TellsTruth(attempts'[a], v)
      BY <2>3, <2>4 DEF TellsTruth, Started, Outcomes
    <2>6. QED
      BY <1>4, <2>1, <2>2, <2>3, <2>5
  <1>8. CASE ReleaseDispatch(w)
    <2>1. CASE ReleaseAttempt(a) /\ Goto(w, "released")
      <3> DEFINE r == [workers[w] EXCEPT !.pc = "released"]
      <3>1. workers' = [workers EXCEPT ![w] = r]
        BY <1>2, <2>1 DEF Goto
      <3>2. r.pc = "released"
        BY <1>2 DEF WorkerRecords
      <3> HIDE DEF r
      <3>3. /\ attempts'[a].status = "cancelled_released"
            /\ \A b \in Attempts \ {a} : attempts'[b] = attempts[b]
        BY <1>2, <2>1 DEF ReleaseAttempt, AttemptRecords
      <3>4. v = "untouched"
        BY <1>2, <1>8 DEF ReleaseDispatch, At, Knows
      <3>5. TellsTruth(attempts'[a], v)
        BY <3>3, <3>4 DEF TellsTruth
      <3>6. QED
        BY <1>4, <3>1, <3>2, <3>3, <3>5
    <2>2. QED
      BY <1>5, <1>8, <2>1 DEF ReleaseDispatch
  <1>9. CASE ApplyReconciliationResult(w)
    <2> DEFINE r == [workers[w] EXCEPT !.pc = "applied", !.result = NoResult]
               outcome == workers[w].result.outcome
    <2>1. workers' = [workers EXCEPT ![w] = r]
      BY <1>2, <1>9 DEF ApplyReconciliationResult, GotoApplied
    <2>2. r.pc = "applied"
      BY <1>2 DEF WorkerRecords
    <2> HIDE DEF r
    <2>3. outcome \in CorrelatedOutcomes
      BY <1>9, WorkerFinds DEF ApplyReconciliationResult, At, Holds
    <2>4. /\ attempts'[a].status = outcome
          /\ \A b \in Attempts \ {a} : attempts'[b] = attempts[b]
      BY <1>2, <1>9 DEF ApplyReconciliationResult, ApplyReconciliation, AttemptRecords
    <2>5. /\ outcome = "executed_charge_succeeded" => v = "charged"
          /\ outcome = "executed_charge_failed" => v = "refused"
      BY <1>2, <1>9 DEF ApplyReconciliationResult, At, Knows
    <2>6. TellsTruth(attempts'[a], v)
      BY <2>3, <2>4, <2>5 DEF TellsTruth, Started, CorrelatedOutcomes
    <2>7. QED
      BY <1>4, <2>1, <2>2, <2>4, <2>6
  <1>10. QED
    BY <1>6, <1>7, <1>8, <1>9

LEMMA TaskTruth ==
    ASSUME ControlInv, TruthInv, NEW w \in Workers,
           \/ LeaseNextWorkerTask(w) \/ CompleteWorkerTask(w) \/ FailWorkerTask(w)
           \/ RequeueWorkerTask(w) \/ Crash(w)
    PROVE  TruthInv'
  <1>1. UNCHANGED <<attempts, vendor>>
    BY DEF LeaseNextWorkerTask, CompleteWorkerTask, FailWorkerTask, RequeueWorkerTask, Crash,
           ledgerVars, world
  <1>2. CASE LeaseNextWorkerTask(w)
    <2>1. PICK i \in DOMAIN tasks :
            workers' = [workers EXCEPT ![w] =
              [IdleWorker EXCEPT !.pc = "claimed", !.task = i, !.attempt = tasks[i].attempt]]
      BY <1>2 DEF LeaseNextWorkerTask
    <2> DEFINE r == [IdleWorker EXCEPT !.pc = "claimed", !.task = i,
                                       !.attempt = tasks[i].attempt]
    <2>2. r.pc = "claimed" /\ workers' = [workers EXCEPT ![w] = r]
      BY <2>1 DEF IdleWorker
    <2> HIDE DEF r
    <2>3. QED
      BY <1>1, <2>2, GoesOnTruth
  <1>3. CASE Stop(w)
    BY <1>1, <1>3, GoesOnTruth DEF Stop, IdleWorker
  <1>4. QED
    BY <1>2, <1>3 DEF CompleteWorkerTask, FailWorkerTask, RequeueWorkerTask, Crash

\* With no fault but crashes, the books never contradict the vendor: a charge
\* is booked only if the vendor made it, a failure only if it refused, and the
\* budget of an attempt is given back only if its vendor never heard of it.
\* (With a store error the opposite happens: run ReleasedCharge.)
THEOREM BooksAreTrueDespiteCrashes ==
    ASSUME Faults \subseteq {"crash"}
    PROVE  Spec => []BooksTellTheTruth
  <1>1. Init => TruthInv
    BY DEF Init, LedgerInit, NoAttempt, IdleWorker, TruthInv, TellsTruth, Started
  <1>2. WorkerInv /\ DispatchInv /\ TruthInv /\ [Next]_vars => TruthInv'
    <2> SUFFICES ASSUME WorkerInv, DispatchInv, TruthInv, [Next]_vars
                 PROVE  TruthInv'
      OBVIOUS
    <2>1. LedgerTypeOK /\ ControlInv
      BY DEF WorkerInv, LedgerInv
    <2>2. ASSUME NEW w \in Workers, WorkerStep(w) \/ FaultStep(w)
          PROVE  TruthInv'
      <3>1. ~ DispatchStoreThrows(w) /\ ~ TransportFails(w)
        BY DEF DispatchStoreThrows, TransportFails
      <3>2. QED
        BY <2>1, <2>2, <3>1, SendTruth, KnowingTruth, WritingTruth, TaskTruth
        DEF WorkerStep, FaultStep
    <2>3. CASE UNCHANGED vars
      BY <2>3 DEF vars, TruthInv, TellsTruth, Started, Knows, Unsent
    <2>4. QED
      BY <2>1, <2>2, <2>3, OutsideTruth DEF Next
  <1>3. TruthInv => BooksTellTheTruth
    BY DEF TruthInv, TellsTruth, BooksTellTheTruth
  <1>4. QED
    BY <1>1, <1>2, <1>3, WorkerInvariant, DispatchInvariant, PTL DEF Spec

-----------------------------------------------------------------------------
\* The workers, with all the faults, keep the money contract: seen through
\* AuthorityBar and the others, each of their steps is one of its actions.
THEOREM WorkersImplementContract == Spec => ImplementsPaymentLedger
  <1>1. QED
    BY WorkersImplementLedger, LedgerImplementsContract, PTL
=============================================================================
