-------------------------- MODULE ExecutionWorker --------------------------
(***************************************************************************)
(* The workers of src/lib/modules/execution-worker.ts at work on the store *)
(* while operators use it: any number of drains run at once (the scheduled *)
(* one, those of queue messages, those of control requests), each a loop   *)
(* over processNextQueuedAttempt or processNextReconciliation.             *)
(*                                                                         *)
(* Between two transactions a worker only holds what it has read, and the  *)
(* store may change under it: every store transaction, every call to a     *)
(* vendor and every decision taken on a value read earlier is a step of    *)
(* its own.  A lease may run out while its holder is still working.        *)
(*                                                                         *)
(* A transaction that commits although the caller sees an error needs no   *)
(* action: it is the commit followed by the failure of the next step.      *)
(***************************************************************************)
EXTENDS WorkerTasks, FiniteSets

CONSTANTS
    ExecutionWorkers,         \* drains of dispatch_attempt tasks
    ReconciliationWorkers,    \* drains of reconcile_attempt tasks
    Faults                    \* the faults of FaultKinds that may happen

Workers == ExecutionWorkers \cup ReconciliationWorkers

\* crash: a worker stops, or an exception leaves its loop, anywhere.
\* store_error: a transaction inside a try block fails and is rolled back.
\* transport_error: a vendor call fails with no answer and no time-out.
\* facilitator_error: the facilitator's verdict says nothing of the charge.
FaultKinds == {"crash", "store_error", "transport_error", "facilitator_error"}

ASSUME FaultAssumption == Faults \subseteq FaultKinds

ASSUME WorkerAssumption == ExecutionWorkers \cap ReconciliationWorkers = {}

VARIABLES
    workers,       \* per worker: where it is and what it holds
    vendor,        \* per attempt: what the vendor made of it
    dispatches     \* per attempt: how often the vendor was called (history)

vars == <<mandates, attempts, pastExpiry, tasks, workers, vendor, dispatches>>

-----------------------------------------------------------------------------
ExecutionSteps ==
    {"claimed", "marked", "cleared", "sent", "answered", "applied",
     "releasing", "released"}
ReconciliationSteps ==
    {"claimed", "read", "correlated", "applied", "requeueing", "failing"}

Outcomes ==
    {"executed_charge_succeeded", "executed_charge_failed", "execution_unknown"}

NoResult == [outcome |-> "none", reported |-> NoReport, signed |-> FALSE]

\* DispatchResult and the result of correlateAttemptStatus.
Results ==
    [outcome : Outcomes \cup {"none"}, reported : Reports, signed : BOOLEAN]

\* seen is the status in the copy of the attempt that a reconciliation reads.
WorkerRecords ==
    [pc : ExecutionSteps \cup ReconciliationSteps \cup {"idle"},
     task : Nat, attempt : Attempts \cup {None}, result : Results,
     seen : AttemptStatuses \cup {"absent"}]

IdleWorker ==
    [pc |-> "idle", task |-> 0, attempt |-> None, result |-> NoResult,
     seen |-> "absent"]

VendorStates == {"untouched", "inflight", "charged", "refused"}

Init ==
    /\ LedgerInit
    /\ tasks = << >>
    /\ workers = [w \in Workers |-> IdleWorker]
    /\ vendor = [a \in Attempts |-> "untouched"]
    /\ dispatches = [a \in Attempts |-> 0]

At(w, pc) == workers[w].pc = pc
Goto(w, pc) == workers' = [workers EXCEPT ![w].pc = pc]
\* The result is forgotten once it is written.
GotoApplied(w) == workers' = [workers EXCEPT ![w].pc = "applied", ![w].result = NoResult]
Stop(w) == workers' = [workers EXCEPT ![w] = IdleWorker]

Learn(w, pc, outcome, reported, signed) ==
    workers' = [workers EXCEPT ![w].pc = pc, ![w].result =
                  [outcome |-> outcome, reported |-> reported, signed |-> signed]]

world == <<vendor, dispatches>>

-----------------------------------------------------------------------------
(***************************************************************************)
(* Operators and the clock.                                                *)
(***************************************************************************)
Operator ==
    /\ \/ \E m \in Mandates :
            /\ RevokeMandate(m) \/ \E terms \in Terms : CreateMandate(m, terms)
            /\ UNCHANGED tasks
       \/ \E a \in Attempts, m \in Mandates, v \in Vendors, amount \in Amounts :
            \/ /\ DenyAttempt(a, m, v, amount) \/ DenyByTreasury(a, m, v, amount)
               /\ UNCHANGED tasks
            \/ ReserveAttempt(a, m, v, amount) /\ EnqueueDispatch(a)
    /\ UNCHANGED <<workers, world>>

EnsureReconciliationQueued(a) ==
    /\ attempts[a].status = "execution_unknown"
    /\ Len(tasks) < MaxTasks
    /\ EnqueueReconcile(a)
    /\ UNCHANGED <<ledgerVars, workers, world>>

LedgerClock == ClockStep /\ UNCHANGED <<tasks, workers, world>>

TaskClock ==
    /\ \E i \in DOMAIN tasks : LeaseExpires(i) \/ RetryDelayElapses(i)
    /\ UNCHANGED <<ledgerVars, workers, world>>

-----------------------------------------------------------------------------
(***************************************************************************)
(* processNextQueuedAttempt.  Every worker begins by leasing a task.       *)
(***************************************************************************)
KindOf(w) ==
    IF w \in ExecutionWorkers THEN "dispatch_attempt" ELSE "reconcile_attempt"

LeaseNextWorkerTask(w) ==
    /\ At(w, "idle")
    /\ \E i \in DOMAIN tasks :
         /\ LeaseTask(KindOf(w), i)
         /\ workers' = [workers EXCEPT ![w] =
              [IdleWorker EXCEPT !.pc = "claimed", !.task = i,
                                 !.attempt = tasks[i].attempt]]
    /\ UNCHANGED <<ledgerVars, world>>

\* A transition that is not allowed throws out of the loop and leaves the
\* task leased.
ClaimAttempt(w) ==
    /\ w \in ExecutionWorkers /\ At(w, "claimed")
    /\ \/ MarkDispatching(workers[w].attempt) /\ Goto(w, "marked")
       \/ /\ ~ CanTransitionAttempt(attempts[workers[w].attempt].status, "dispatching")
          /\ Stop(w) /\ UNCHANGED ledgerVars
    /\ UNCHANGED <<tasks, world>>

\* Mutant: an attempt that may not be sent any more is left as it is.
PreflightAbandons(w) ==
    /\ At(w, "marked")
    /\ \/ PreflightPasses(workers[w].attempt) /\ Goto(w, "cleared")
       \/ ~ PreflightPasses(workers[w].attempt) /\ Stop(w)
    /\ UNCHANGED <<ledgerVars, tasks, world>>

Preflight(w) ==
    /\ At(w, "marked")
    /\ Goto(w, IF PreflightPasses(workers[w].attempt) THEN "cleared" ELSE "releasing")
    /\ UNCHANGED <<ledgerVars, tasks, world>>

\* The preflight's answer may be out of date when the request leaves.
SendToVendor(w) ==
    LET a == workers[w].attempt IN
    /\ At(w, "cleared")
    /\ Goto(w, "sent")
    /\ vendor' = [vendor EXCEPT ![a] = "inflight"]
    /\ dispatches' = [dispatches EXCEPT ![a] = @ + 1]
    /\ UNCHANGED <<ledgerVars, tasks>>

\* No endpoint or signer is configured, or the vendor is fallback-only.
AdapterThrows(w) ==
    /\ At(w, "cleared")
    /\ Goto(w, "releasing")
    /\ UNCHANGED <<ledgerVars, tasks, world>>

VendorSettles(a) ==
    /\ vendor[a] = "inflight"
    /\ \E verdict \in {"charged", "refused"} : vendor' = [vendor EXCEPT ![a] = verdict]
    /\ UNCHANGED <<ledgerVars, tasks, workers, dispatches>>

VendorAnswers(w) ==
    /\ At(w, "sent")
    /\ vendor[workers[w].attempt] \in {"charged", "refused"}
    /\ \E reported \in Reports :
         Learn(w, "answered",
               IF vendor[workers[w].attempt] = "charged"
                 THEN "executed_charge_succeeded"
                 ELSE "executed_charge_failed",
               reported, FALSE)
    /\ UNCHANGED <<ledgerVars, tasks, world>>

\* Mutant: no answer in time counts as a failed charge.
TimeOutIsFailure(w) ==
    /\ At(w, "sent")
    /\ Learn(w, "answered", "executed_charge_failed", NoReport, FALSE)
    /\ UNCHANGED <<ledgerVars, tasks, world>>

\* signed: the time-out struck after the payment had been signed, so that the
\* facilitator can be asked about it later.
DispatchTimesOut(w) ==
    /\ At(w, "sent")
    /\ \E signed \in BOOLEAN : Learn(w, "answered", "execution_unknown", NoReport, signed)
    /\ UNCHANGED <<ledgerVars, tasks, world>>

\* Any other error of the vendor call counts as a failed charge.
TransportFails(w) ==
    /\ "transport_error" \in Faults
    /\ At(w, "sent")
    /\ Learn(w, "answered", "executed_charge_failed", NoReport, FALSE)
    /\ UNCHANGED <<ledgerVars, tasks, world>>

ApplyDispatchResult(w) ==
    LET a == workers[w].attempt
        result == workers[w].result
    IN
    /\ At(w, "answered")
    /\ GotoApplied(w)
    /\ \/ /\ result.outcome = "executed_charge_succeeded"
          /\ ApplyDispatchSucceeded(a, result.reported)
          /\ UNCHANGED tasks
       \/ /\ result.outcome = "executed_charge_failed"
          /\ ApplyDispatchFailed(a, result.reported)
          /\ UNCHANGED tasks
       \/ /\ result.outcome = "execution_unknown"
          /\ ApplyDispatchUnknown(a, result.signed)
          /\ EnqueueReconcile(a)
    /\ UNCHANGED world

CompleteWorkerTask(w) ==
    /\ At(w, "applied")
    /\ CompleteTask(workers[w].task)
    /\ Stop(w)
    /\ UNCHANGED <<ledgerVars, world>>

\* The catch block around the vendor call and both writes of its result.
DispatchStoreThrows(w) ==
    /\ w \in ExecutionWorkers
    /\ "store_error" \in Faults
    /\ At(w, "answered") \/ At(w, "applied")
    /\ workers' = [workers EXCEPT ![w].pc = "releasing", ![w].result = NoResult]
    /\ UNCHANGED <<ledgerVars, tasks, world>>

\* releaseDispatchTask; when the attempt cannot be released it throws.
ReleaseDispatch(w) ==
    /\ At(w, "releasing")
    /\ \/ ReleaseAttempt(workers[w].attempt) /\ Goto(w, "released")
       \/ /\ ~ CanTransitionAttempt(attempts[workers[w].attempt].status,
                                    "cancelled_released")
          /\ Stop(w) /\ UNCHANGED ledgerVars
    /\ UNCHANGED <<tasks, world>>

FailWorkerTask(w) ==
    /\ At(w, "released") \/ At(w, "failing")
    /\ FailTask(workers[w].task)
    /\ Stop(w)
    /\ UNCHANGED <<ledgerVars, world>>

-----------------------------------------------------------------------------
(***************************************************************************)
(* processNextReconciliation.                                              *)
(***************************************************************************)
\* The payment artifacts, read in a transaction of their own, never change
\* once the attempt is unknown.
ReadAttempt(w) ==
    /\ w \in ReconciliationWorkers /\ At(w, "claimed")
    /\ workers' = [workers EXCEPT ![w].pc = "read",
                     ![w].seen = attempts[workers[w].attempt].status]
    /\ UNCHANGED <<ledgerVars, tasks, world>>

FacilitatorVerdicts(a) ==
    {"unavailable"} \cup
      {verdict \in {"valid", "invalid"} :
         /\ attempts[a].artifacts
         /\ \/ "facilitator_error" \in Faults
            \/ verdict = "valid" /\ vendor[a] = "charged"
            \/ verdict = "invalid" /\ vendor[a] = "refused"}

\* An invalid verdict settles the matter without the vendor; a valid one
\* overrides what the vendor's status endpoint says, which knows the outcome
\* only when the vendor has settled.
CorrelateAttemptStatus(w) ==
    LET a == workers[w].attempt IN
    /\ At(w, "read")
    /\ \E verdict \in FacilitatorVerdicts(a) :
         \/ /\ verdict = "invalid"
            /\ Learn(w, "correlated", "executed_charge_failed", NoReport, FALSE)
         \/ /\ verdict # "invalid"
            /\ vendor[a] \in {"charged", "refused"}
            /\ \E reported \in Reports :
                 Learn(w, "correlated",
                       IF verdict = "valid" \/ vendor[a] = "charged"
                         THEN "executed_charge_succeeded"
                         ELSE "executed_charge_failed",
                       reported, FALSE)
    /\ UNCHANGED <<ledgerVars, tasks, world>>

\* Mutant: no failed reconciliation is tried again.
NeverRetries(w) ==
    workers' = [workers EXCEPT ![w].result = NoResult, ![w].seen = "absent",
                               ![w].pc = "failing"]

\* Mutant: an unknown attempt is tried again for ever.
RetriesForEver(w) ==
    workers' = [workers EXCEPT ![w].result = NoResult, ![w].seen = "absent", ![w].pc =
                  IF workers[w].seen = "execution_unknown" THEN "requeueing" ELSE "failing"]

\* Where the catch block goes on: it judges the age and the status in the copy
\* read before, so only a young unknown attempt is tried again.
CaughtReconciliation(w) ==
    workers' = [workers EXCEPT ![w].result = NoResult, ![w].seen = "absent", ![w].pc =
                  IF /\ workers[w].seen = "execution_unknown"
                     /\ attempts[workers[w].attempt].window # "passed"
                    THEN "requeueing" ELSE "failing"]

\* The vendor or the facilitator cannot be reached, or does not know yet.
CorrelationThrows(w) ==
    /\ At(w, "read")
    /\ CaughtReconciliation(w)
    /\ UNCHANGED <<ledgerVars, tasks, world>>

ApplyReconciliationResult(w) ==
    /\ At(w, "correlated")
    /\ ApplyReconciliation(workers[w].attempt, workers[w].result.outcome,
                           workers[w].result.reported)
    /\ GotoApplied(w)
    /\ UNCHANGED <<tasks, world>>

\* The attempt is not execution_unknown any more, or the store fails.
ReconciliationThrows(w) ==
    /\ w \in ReconciliationWorkers
    /\ \/ At(w, "correlated") /\ attempts[workers[w].attempt].status # "execution_unknown"
       \/ "store_error" \in Faults /\ (At(w, "correlated") \/ At(w, "applied"))
    /\ CaughtReconciliation(w)
    /\ UNCHANGED <<ledgerVars, tasks, world>>

RequeueWorkerTask(w) ==
    /\ At(w, "requeueing")
    /\ RequeueTask(workers[w].task)
    /\ Stop(w)
    /\ UNCHANGED <<ledgerVars, world>>

-----------------------------------------------------------------------------
Crash(w) ==
    /\ "crash" \in Faults
    /\ ~ At(w, "idle")
    /\ Stop(w)
    /\ UNCHANGED <<ledgerVars, tasks, world>>

\* What a worker does when nothing fails in its own process or in the store.
WorkerStep(w) ==
    \/ LeaseNextWorkerTask(w)
    \/ ClaimAttempt(w)
    \/ Preflight(w)
    \/ SendToVendor(w) \/ AdapterThrows(w)
    \/ VendorAnswers(w) \/ DispatchTimesOut(w)
    \/ ApplyDispatchResult(w)
    \/ CompleteWorkerTask(w)
    \/ ReleaseDispatch(w)
    \/ FailWorkerTask(w)
    \/ ReadAttempt(w)
    \/ CorrelateAttemptStatus(w) \/ CorrelationThrows(w)
    \/ ApplyReconciliationResult(w)
    \/ ReconciliationThrows(w)
    \/ RequeueWorkerTask(w)

FaultStep(w) == Crash(w) \/ DispatchStoreThrows(w) \/ TransportFails(w)

Next ==
    \/ Operator
    \/ \E a \in Attempts : EnsureReconciliationQueued(a) \/ VendorSettles(a)
    \/ LedgerClock
    \/ TaskClock
    \/ \E w \in Workers : WorkerStep(w) \/ FaultStep(w)

Spec == Init /\ [][Next]_vars

(***************************************************************************)
(* Fairness.  A drain that was started runs on: the worker routes are      *)
(* called again and again (every five minutes by the cron trigger), and    *)
(* each await in a worker ends, the vendor call by its own time-out.       *)
(* Leases, retry delays and the 15-minute window are measured by a clock   *)
(* that does not stop.  Nothing is assumed of operators or vendors.        *)
(***************************************************************************)
TaskIds == 1 .. (MaxTasks + 2 * Cardinality(Attempts))

TaskTimer(i) ==
    /\ i \in DOMAIN tasks
    /\ LeaseExpires(i) \/ RetryDelayElapses(i)
    /\ UNCHANGED <<ledgerVars, workers, world>>

WindowTimer(a) == EscalationWindowPasses(a) /\ UNCHANGED <<tasks, workers, world>>

Fairness ==
    /\ \A w \in Workers : WF_vars(WorkerStep(w))
    /\ \A i \in TaskIds : WF_vars(TaskTimer(i))
    /\ \A a \in Attempts : WF_vars(WindowTimer(a))

FairSpec == Spec /\ Fairness

-----------------------------------------------------------------------------
(***************************************************************************)
(* Properties.                                                             *)
(***************************************************************************)
\* The queue, the workers and the history have their shapes, and the rows of
\* the ledger keep theirs.
TypeOK ==
    /\ LedgerTypeOK
    /\ tasks \in Seq(TaskRecords)
    /\ workers \in [Workers -> WorkerRecords]
    /\ vendor \in [Attempts -> VendorStates]
    /\ dispatches \in [Attempts -> Nat]

\* The vendor of an attempt is called at most once, whatever leases run out
\* under their holders, whoever crashes and whichever write fails: the lease
\* alone does not exclude a second worker, the claim of the attempt does.
AtMostOneDispatch == \A a \in Attempts : dispatches[a] <= 1

\* An unfinished attempt always has a task that some worker will still take
\* up, except an unknown one whose 15 minutes are over.  The queue and the
\* attempt are written in different transactions once the vendor was called,
\* and stale workers finish tasks that are no longer theirs.
NoAttemptForgotten ==
    \A a \in Attempts :
      /\ attempts[a].status \in {"dispatch_queued", "dispatching"}
           => HasLiveTask("dispatch_attempt", a)
      /\ attempts[a].status = "execution_unknown"
           => HasLiveTask("reconcile_attempt", a) \/ attempts[a].window = "passed"

\* No vendor is called unless the attempt, at that very moment and not only
\* when the preflight looked, is dispatching and holds its amount of budget.
VendorCalledOnlyWhileReserved ==
    [][\A a \in Attempts :
         dispatches'[a] # dispatches[a]
           => /\ attempts[a].status = "dispatching"
              /\ Reserved(a) = attempts[a].amount]_vars

\* While only crashes happen, the books say what the vendor did: an attempt
\* counts as charged only if it was, as failed only if it was refused, and is
\* released only if its vendor never heard of it.
BooksTellTheTruth ==
    \A a \in Attempts :
      /\ attempts[a].status = "executed_charge_succeeded" => vendor[a] = "charged"
      /\ attempts[a].status = "executed_charge_failed" => vendor[a] = "refused"
      /\ attempts[a].status = "cancelled_released" => vendor[a] = "untouched"

\* Every attempt that holds budget is resolved in the end, or is left to the
\* operators as unknown for more than 15 minutes with no task at work on it.
Escalated(a) ==
    /\ attempts[a].status = "execution_unknown"
    /\ attempts[a].window = "passed"
    /\ ~ HasLiveTask("reconcile_attempt", a)

EveryAttemptConcludes ==
    \A a \in Attempts :
      LiveAttempt(a) ~> (attempts[a].status \in ResolvedStatuses \/ Escalated(a))

\* A task that is never given up: whatever is queued is completed or failed in
\* the end, so that no old task keeps workers from the younger ones for ever.
EveryTaskEnds ==
    \A i \in TaskIds :
      (i \in DOMAIN tasks /\ LiveTask(i)) ~> (i \in DOMAIN tasks /\ ~ LiveTask(i))

-----------------------------------------------------------------------------
(***************************************************************************)
(* What the documents say and the code does not do after a store error.    *)
(***************************************************************************)
\* "Reservations stay held until reconciliation completes": budget is never
\* released for an attempt that the vendor has charged.
ChargedIsNeverReleased ==
    \A a \in Attempts :
      ~ (attempts[a].status = "cancelled_released" /\ vendor[a] = "charged")
=============================================================================
