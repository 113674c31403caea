---------------------------- MODULE WorkerTasks ----------------------------
(***************************************************************************)
(* The durable task queue of the store, data.workerTasks, and what the     *)
(* functions of src/lib/modules/execution-worker.ts do to it.  A task asks *)
(* a worker to dispatch an attempt or to reconcile it.                     *)
(*                                                                         *)
(* The code inserts tasks at the front and leases the one with the oldest  *)
(* createdAt; here they are kept oldest first and a task is known by its   *)
(* index.  The fields leaseOwner, attemptCount, lastError and the          *)
(* timestamps that no guard reads are left out.                            *)
(***************************************************************************)
EXTENDS MandateLedger, Sequences

CONSTANT MaxTasks     \* bound: operators add no reconcile task beyond it

ASSUME MaxTasksAssumption == MaxTasks \in Nat

VARIABLE tasks

TaskKinds == {"dispatch_attempt", "reconcile_attempt"}

\* delayed is queued with an availableAt that lies ahead, lapsed is leased with
\* a leaseExpiresAt that lies behind.
TaskStatuses == {"queued", "delayed", "leased", "lapsed", "completed", "failed"}

TaskRecords == [kind : TaskKinds, attempt : Attempts, status : TaskStatuses]

NewTask(kind, a) == [kind |-> kind, attempt |-> a, status |-> "queued"]

LiveTask(i) == tasks[i].status \notin {"completed", "failed"}

HasLiveTask(kind, a) ==
    \E i \in DOMAIN tasks :
      tasks[i].kind = kind /\ tasks[i].attempt = a /\ LiveTask(i)

\* runAttempt queues the dispatch of its new attempt without a look at others.
EnqueueDispatch(a) == tasks' = Append(tasks, NewTask("dispatch_attempt", a))

\* enqueueWorkerTask reuses a live task of the same kind and attempt.
EnqueueReconcile(a) ==
    tasks' = IF HasLiveTask("reconcile_attempt", a)
               THEN tasks
               ELSE Append(tasks, NewTask("reconcile_attempt", a))

Eligible(i) == tasks[i].status \in {"queued", "lapsed"}

\* The oldest eligible task of the kind is leased.
LeaseTask(kind, i) ==
    /\ tasks[i].kind = kind
    /\ Eligible(i)
    /\ \A j \in DOMAIN tasks : tasks[j].kind = kind /\ Eligible(j) => i <= j
    /\ tasks' = [tasks EXCEPT ![i].status = "leased"]

\* None of these three looks at who holds the lease, or at the status of the
\* task: a task that was completed or failed can be queued again.
CompleteTask(i) == tasks' = [tasks EXCEPT ![i].status = "completed"]
FailTask(i) == tasks' = [tasks EXCEPT ![i].status = "failed"]
RequeueTask(i) == tasks' = [tasks EXCEPT ![i].status = "delayed"]

LeaseExpires(i) ==
    /\ tasks[i].status = "leased"
    /\ tasks' = [tasks EXCEPT ![i].status = "lapsed"]

RetryDelayElapses(i) ==
    /\ tasks[i].status = "delayed"
    /\ tasks' = [tasks EXCEPT ![i].status = "queued"]
=============================================================================
