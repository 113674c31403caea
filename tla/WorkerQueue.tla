------------------------------ MODULE WorkerQueue ------------------------------
(***************************************************************************)
(* The Cloudflare worker of workers/mandate402.ts: commands are put in a   *)
(* queue, consumed in batches and forwarded to the control routes of the   *)
(* application, each of which drains the tasks of its kind; a schedule     *)
(* forwards both without a queue.  Control events go to a D1 table.        *)
(*                                                                         *)
(* The queues deliver at least once.  A message of a batch that was        *)
(* neither acknowledged nor put back when the handler ends is delivered    *)
(* again; after max_retries it goes to the dead letter queue, and from     *)
(* there, after as many again, nowhere.                                    *)
(***************************************************************************)
EXTENDS Integers, Sequences, FiniteSets, SequencesExt

CONSTANTS
    Commands,          \* calls of /queues/execute and /queues/reconcile
    KindOf,            \* per command: its kind; "invalid" for a foreign message
    Consumers,         \* handlers of batches that run at the same time
    MaxBatch,          \* max_batch_size
    MaxRetries,        \* max_retries of wrangler.worker.toml
    MaxTasks,          \* bound on tasks made by the application
    Faults,            \* what may go wrong, of FaultKinds
    MaxFaults          \* bound on faults

Kinds == {"dispatch_attempt", "reconcile_attempt"}
FaultKinds == {"send", "record", "forward", "handler"}

ASSUME KindAssumption == KindOf \in [Commands -> Kinds \cup {"invalid"}]
ASSUME WorkerFaultAssumption == Faults \subseteq FaultKinds
ASSUME QueueAssumption == IsFiniteSet(Commands) /\ MaxRetries \in Nat

VARIABLES
    caller,        \* per command: what its request is at or was told
    place,         \* per command: where its message is
    attempts,      \* per command: deliveries from its queue so far
    batch,         \* per consumer: the messages it has still to handle
    stage,         \* per consumer: what it does with the first of them
    events,        \* worker_control_events
    tasks,         \* per kind: the queued tasks of the application
    made,          \* tasks made so far
    faults

queueVars == <<place, attempts>>
consumerVars == <<batch, stage>>
workVars == <<tasks, made>>
workerVars == <<caller, queueVars, consumerVars, events, workVars, faults>>

Init ==
    /\ caller = [c \in Commands |-> "none"]
    /\ place = [c \in Commands |-> "nowhere"]
    /\ attempts = [c \in Commands |-> 0]
    /\ batch = [k \in Consumers |-> <<>>]
    /\ stage = [k \in Consumers |-> "idle"]
    /\ events = {}
    /\ tasks = [kind \in Kinds |-> 0]
    /\ made = 0
    /\ faults = 0

Fault(kind) ==
    /\ kind \in Faults /\ faults < MaxFaults
    /\ faults' = faults + 1

\* The application queues a task.
NewTask(kind) ==
    /\ made < MaxTasks
    /\ made' = made + 1
    /\ tasks' = [tasks EXCEPT ![kind] = @ + 1]
    /\ UNCHANGED <<caller, queueVars, consumerVars, events, faults>>

\* processExecutionQueue(10) and processReconciliationQueue(10) drain what
\* there is; see ExecutionWorker.
Drained(kinds) == [kind \in Kinds |-> IF kind \in kinds THEN 0 ELSE tasks[kind]]

-----------------------------------------------------------------------------
(***************************************************************************)
(* enqueueRequest                                                          *)
(***************************************************************************)
Send(c) ==
    /\ caller[c] = "none"
    /\ caller' = [caller EXCEPT ![c] = "sent"]
    /\ place' = [place EXCEPT ![c] = "queue"]
    /\ UNCHANGED <<attempts, consumerVars, events, workVars, faults>>

\* The queue refuses, or takes the message and its answer is lost.
SendFails(c) ==
    /\ caller[c] = "none"
    /\ Fault("send")
    /\ caller' = [caller EXCEPT ![c] = "failed"]
    /\ \/ place' = [place EXCEPT ![c] = "queue"]
       \/ UNCHANGED place
    /\ UNCHANGED <<attempts, consumerVars, events, workVars>>

RecordQueued(c) ==
    /\ caller[c] = "sent"
    /\ \/ /\ caller' = [caller EXCEPT ![c] = "queued"]
          /\ events' = events \cup {<<c, "queued">>}
          /\ UNCHANGED faults
       \/ /\ Fault("record")
          /\ caller' = [caller EXCEPT ![c] = "failed"]
          /\ UNCHANGED events
    /\ UNCHANGED <<queueVars, consumerVars, workVars>>

-----------------------------------------------------------------------------
(***************************************************************************)
(* handleWorkerQueue                                                       *)
(***************************************************************************)
InBatch == UNION {ToSet(batch[k]) : k \in Consumers}

Waiting(queue) == {c \in Commands : place[c] = queue} \ InBatch

\* A queue delivers some of its messages, in any order.
Deliver(k, queue) ==
    /\ stage[k] = "idle"
    /\ \E messages \in SUBSET Waiting(queue) :
         /\ messages # {} /\ Cardinality(messages) <= MaxBatch
         /\ batch' = [batch EXCEPT ![k] = SetToSeq(messages)]
         /\ attempts' = [c \in Commands |->
                           IF c \in messages THEN attempts[c] + 1 ELSE attempts[c]]
    /\ stage' = [stage EXCEPT ![k] = IF queue = "queue" THEN "forward" ELSE "dead_letter"]
    /\ UNCHANGED <<caller, place, events, workVars, faults>>

Current(k) == Head(batch[k])

\* Where a message goes that is to be delivered again.
Returned(c) ==
    IF attempts[c] <= MaxRetries THEN place[c]
    ELSE IF place[c] = "queue" THEN "dead_letter_queue" ELSE "dropped"

\* Going to another queue, a message starts anew.
Redeliver(messages) ==
    /\ place' = [c \in Commands |-> IF c \in messages THEN Returned(c) ELSE place[c]]
    /\ attempts' = [c \in Commands |->
         IF c \in messages /\ Returned(c) # place[c] THEN 0 ELSE attempts[c]]

\* The handler goes on to the next message or is done.
NextMessage(k, begin) ==
    /\ batch' = [batch EXCEPT ![k] = Tail(@)]
    /\ stage' = [stage EXCEPT ![k] = IF Len(batch[k]) = 1 THEN "idle" ELSE begin]

Acknowledge(k) ==
    /\ place' = [place EXCEPT ![Current(k)] = "acked"]
    /\ UNCHANGED attempts

At(k, where) == stage' = [stage EXCEPT ![k] = where] /\ UNCHANGED batch

\* forwardWorkerRoute answers.
Forward(k) ==
    LET kind == KindOf[Current(k)] IN
    /\ stage[k] = "forward" /\ kind \in Kinds
    /\ tasks' = Drained({kind})
    /\ At(k, "record")
    /\ UNCHANGED <<caller, queueVars, events, made, faults>>

\* Mutant: a message that cannot be forwarded is tried again at once.
TryAgainAtOnce(k) ==
    /\ stage[k] = "forward" /\ KindOf[Current(k)] = "invalid"
    /\ UNCHANGED workerVars

\* The route fails before or after it has drained its tasks, or the message
\* has no valid kind.
ForwardFails(k) ==
    LET kind == KindOf[Current(k)] IN
    /\ stage[k] = "forward"
    /\ IF kind = "invalid"
         THEN UNCHANGED <<tasks, faults>>
         ELSE Fault("forward") /\ (tasks' = Drained({kind}) \/ UNCHANGED tasks)
    /\ At(k, "retry")
    /\ UNCHANGED <<caller, queueVars, events, made>>

\* Mutant: the message is acknowledged before its event is recorded.
AcknowledgeFirst(k) ==
    /\ stage[k] = "record"
    /\ \/ events' = events \cup {<<Current(k), "forwarded">>} /\ UNCHANGED faults
       \/ Fault("record") /\ UNCHANGED events
    /\ Acknowledge(k)
    /\ NextMessage(k, "forward")
    /\ UNCHANGED <<caller, workVars>>

\* The event is recorded and the message acknowledged; if recording throws,
\* the message is put back although its command has run.
RecordForwarded(k) ==
    /\ stage[k] = "record"
    /\ \/ /\ events' = events \cup {<<Current(k), "forwarded">>}
          /\ Acknowledge(k)
          /\ NextMessage(k, "forward")
          /\ UNCHANGED faults
       \/ /\ Fault("record")
          /\ At(k, "retry")
          /\ UNCHANGED <<queueVars, events>>
    /\ UNCHANGED <<caller, workVars>>

\* The handler throws or is stopped: what it has left goes back.
Abandon(k) ==
    /\ Redeliver(ToSet(batch[k]))
    /\ batch' = [batch EXCEPT ![k] = <<>>]
    /\ stage' = [stage EXCEPT ![k] = "idle"]

\* The catch clause; if it throws itself the handler ends.
RecordRetrying(k) ==
    /\ stage[k] = "retry"
    /\ \/ /\ events' = events \cup {<<Current(k), "retrying">>}
          /\ Redeliver({Current(k)})
          /\ NextMessage(k, "forward")
          /\ UNCHANGED faults
       \/ /\ Fault("record")
          /\ Abandon(k)
          /\ UNCHANGED events
    /\ UNCHANGED <<caller, workVars>>

\* A batch of the dead letter queue.
RecordDeadLetter(k) ==
    /\ stage[k] = "dead_letter"
    /\ \/ /\ events' = events \cup {<<Current(k), "dead_letter">>}
          /\ Acknowledge(k)
          /\ NextMessage(k, "dead_letter")
          /\ UNCHANGED faults
       \/ /\ Fault("record")
          /\ Abandon(k)
          /\ UNCHANGED events
    /\ UNCHANGED <<caller, workVars>>

HandlerStops(k) ==
    /\ stage[k] # "idle"
    /\ Fault("handler")
    /\ Abandon(k)
    /\ UNCHANGED <<caller, events, workVars>>

-----------------------------------------------------------------------------
\* Mutant: the schedule forwards the first route only.
DrainsExecution ==
    /\ tasks' = Drained({"dispatch_attempt"})
    /\ UNCHANGED <<caller, queueVars, consumerVars, events, made, faults>>

\* runScheduledDrain: both routes are called, each may fail by itself.
ScheduledDrain ==
    /\ \/ tasks' = Drained(Kinds) /\ UNCHANGED faults
       \/ Fault("forward") /\ \E kinds \in SUBSET Kinds : tasks' = Drained(kinds)
    /\ UNCHANGED <<caller, queueVars, consumerVars, events, made>>

Handle(k) ==
    \/ Forward(k) \/ ForwardFails(k)
    \/ RecordForwarded(k) \/ RecordRetrying(k) \/ RecordDeadLetter(k)

Request(c) == Send(c) \/ SendFails(c) \/ RecordQueued(c)

Next ==
    \/ \E kind \in Kinds : NewTask(kind)
    \/ \E c \in Commands : Request(c)
    \/ \E k \in Consumers :
         \/ \E queue \in {"queue", "dead_letter_queue"} : Deliver(k, queue)
         \/ Handle(k)
         \/ HandlerStops(k)
    \/ ScheduledDrain

Spec == Init /\ [][Next]_workerVars

-----------------------------------------------------------------------------
(***************************************************************************)
(* Properties.                                                             *)
(***************************************************************************)
\* No command leaves the queues without a control event that says how: it was
\* forwarded or it is dead; only if recording itself fails once for every
\* delivery of a dead letter does it go unseen.
GoneIsRecorded ==
    \A c \in Commands :
      /\ place[c] = "acked" => {<<c, "forwarded">>, <<c, "dead_letter">>} \cap events # {}
      /\ place[c] = "dropped" => faults > MaxRetries

\* Whatever its caller was told, a command does not stay in the queues.
Ended(c) == place[c] \in {"nowhere", "acked", "dropped"}
=============================================================================
