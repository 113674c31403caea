--------------------------- MODULE MCStoreWrites ---------------------------
(***************************************************************************)
(* A few records of every kind, sound ones and broken ones.                *)
(***************************************************************************)
EXTENDS StoreWrites, TLC

CONSTANTS v1, v2, g1, m1, m2, a1, a2, t1, p1, p2, o1, o2

Mandate(id, agent, cap, reserved, vendors) ==
    [id |-> id, agentId |-> agent, agentName |-> "name", budgetCapCents |-> cap,
     reservedCents |-> reserved, consumedCents |-> 0, approvedVendorIds |-> vendors]
Attempt(id, mandate, amount, payment) ==
    [id |-> id, mandateId |-> mandate, amountCents |-> amount, operatorId |-> o1,
     paymentIdentifier |-> payment]
Task(mandate, attempt, operator) ==
    [id |-> t1, mandateId |-> mandate, attemptId |-> attempt, operatorId |-> operator]

MCAgents == {[id |-> g1, name |-> "name"]}

MCSeed == [EmptyStore EXCEPT !.agents = MCAgents,
                             !.mandates = {Mandate(m1, g1, 2, 0, <<v1>>)}]

\* Amount 4 does not fit its column; vendor ids repeat; an attempt, a task, an
\* audit entry and an event may name what is not there or not its own; a2 may
\* take the identifier of an a1 that is dropped or renamed.
MCCandidates ==
    [agents |-> MCAgents,
     mandates |-> {Mandate(m1, g1, 2, 0, <<v1>>), Mandate(m1, g1, 3, 3, <<v2>>),
                   Mandate(m2, g1, 2, 3, <<v1, v1>>), Mandate(m2, g1, 2, 1, <<>>)},
     attempts |-> {Attempt(a1, m1, 1, p1), Attempt(a1, m1, 1, p2), Attempt(a2, m2, 1, p1),
                  Attempt(a2, m2, 4, p2)},
     workerTasks |-> {Task(m1, a1, o1), Task(m1, a2, NoId)},
     auditEntries |-> {[id |-> t1, mandateId |-> m2, attemptId |-> a2]},
     domainEvents |-> {[id |-> t1, entityType |-> "worker_task", entityId |-> t1]}]
=============================================================================
