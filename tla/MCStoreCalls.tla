---------------------------- MODULE MCStoreCalls ----------------------------
(***************************************************************************)
(* Three callbacks for the store: a mandate is issued while two payments   *)
(* are asked for on it.                                                    *)
(***************************************************************************)
EXTENDS StoreRows

CONSTANTS v1, g1, m1, o1, issue

MCSeed == [EmptyStore EXCEPT !.agents = {[id |-> g1, name |-> "name"]}]

\* createMandate makes the mandate; runAttempt needs it and throws without it.
MCThrows(call, store) ==
    IF call = issue THEN m1 \in Ids(store.mandates) ELSE m1 \notin Ids(store.mandates)

Issued(store) ==
    [store EXCEPT
       !.mandates = @ \cup {[id |-> m1, agentId |-> g1, agentName |-> "name",
                             budgetCapCents |-> 2, reservedCents |-> 0,
                             consumedCents |-> 0, approvedVendorIds |-> <<v1>>]},
       !.auditEntries = @ \cup {[id |-> issue, mandateId |-> m1, attemptId |-> NoId]},
       !.domainEvents = @ \cup {[id |-> issue, entityType |-> "mandate", entityId |-> m1]}]

\* An attempt, named by the call; the first one reserves and queues a task.
Paid(call, store) ==
    LET mandate == Named(store.mandates, m1)
        reserves == mandate.reservedCents = 0
    IN
    [store EXCEPT
       !.mandates = IF reserves THEN {[mandate EXCEPT !.reservedCents = 2]} ELSE @,
       !.attempts = @ \cup {[id |-> call, mandateId |-> m1, amountCents |-> 2,
                             operatorId |-> o1, paymentIdentifier |-> call]},
       !.workerTasks = IF ~ reserves THEN @ ELSE
         @ \cup {[id |-> call, mandateId |-> m1, attemptId |-> call, operatorId |-> o1]},
       !.auditEntries = @ \cup {[id |-> call, mandateId |-> m1, attemptId |-> call]},
       !.domainEvents =
         @ \cup {[id |-> call, entityType |-> "payment_attempt", entityId |-> call]}]

MCResult(call, store) == IF call = issue THEN Issued(store) ELSE Paid(call, store)
=============================================================================
