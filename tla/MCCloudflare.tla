---------------------------- MODULE MCCloudflare ----------------------------
(***************************************************************************)
(* The Cloudflare worker on small instances: its queues (WorkerQueue), and *)
(* the budget lock of a mandate (BudgetLock), delivered commands in any    *)
(* order and in their order.  The queues carry no budget commands, so that *)
(* these share no state; which one a behaviour is about is chosen in its   *)
(* initial state.                                                          *)
(***************************************************************************)
EXTENDS WorkerQueue

CONSTANTS
    settle, foreign, p1, p2, p3, p4,
    MixedPayments, OrderedPayments,    \* the payments of either environment
    Cents,                             \* per payment, its amount
    Memory, MaxDeliveries

VARIABLES object, reservedCents, consumedCents, processedCommandIds, history

\* One command to reconcile and a message that is none.
MCKindOf == [c \in Commands |-> IF c = settle THEN "reconcile_attempt" ELSE "invalid"]

MCCents == [p \in {p1, p2, p3, p4} |-> IF p = p1 THEN 1 ELSE 2]

CentsOf(payments) == [p \in payments |-> Cents[p]]

Mixed ==
    INSTANCE BudgetLock WITH
      Payments <- MixedPayments, Amount <- CentsOf(MixedPayments)

Ordered ==
    INSTANCE BudgetLock WITH
      Payments <- OrderedPayments, Amount <- CentsOf(OrderedPayments)

ASSUME LockAssumption == Mixed!BudgetAssumption /\ Ordered!BudgetAssumption

lockVars == <<reservedCents, consumedCents, processedCommandIds, history>>
cloudVars == <<object, workerVars, lockVars>>

CloudInit ==
    /\ object \in {"queues", "mixed", "ordered"}
    /\ Init /\ Mixed!Init

InQueues(step) == object = "queues" /\ step /\ UNCHANGED <<object, lockVars>>

CloudNext ==
    \/ InQueues(Next)
    \/ object = "mixed" /\ Mixed!Deliver /\ UNCHANGED <<object, workerVars>>
    \/ object = "ordered" /\ Ordered!DeliverInOrder /\ UNCHANGED <<object, workerVars>>

\* The platform delivers what waits and runs its handlers and its schedule.
CloudFairness ==
    /\ WF_cloudVars(InQueues(ScheduledDrain))
    /\ \A c \in Commands : WF_cloudVars(InQueues(RecordQueued(c)))
    /\ \A k \in Consumers : WF_cloudVars(InQueues(Handle(k)))
    /\ \A queue \in {"queue", "dead_letter_queue"} :
         WF_cloudVars(InQueues(\E k \in Consumers : Deliver(k, queue)))

CloudSpec == CloudInit /\ [][CloudNext]_cloudVars /\ CloudFairness

-----------------------------------------------------------------------------
\* A command is only applied again after so many others that the object had
\* to forget it, however deliveries are repeated and mixed.
AppliedAgainOnlyIfForgotten == Mixed!AppliedAgainOnlyIfForgotten

\* For commands that come in order the object is exact: it holds what is
\* reserved and not settled, and has spent what was consumed, once each.
BudgetIsExact == object = "ordered" => Ordered!BudgetIsExact

\* Whatever a caller was told, its command does not stay in the queues, and a
\* foreign message does not keep the commands of its batch there.
EveryCommandEnds == \A c \in Commands : caller[c] # "none" ~> Ended(c)

\* Tasks are drained even if every command is lost: the schedule does it.
EveryTaskIsDrained == \A kind \in Kinds : tasks[kind] > 0 ~> tasks[kind] = 0
=============================================================================
