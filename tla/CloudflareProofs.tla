--------------------------- MODULE CloudflareProofs ---------------------------
(***************************************************************************)
(* Proofs about the Cloudflare worker: no command leaves the queues        *)
(* unseen; the budget object applies a command again only after it had to  *)
(* forget it; and for commands that come in order its counters are exact.  *)
(*                                                                         *)
(* The first argument counts: a message is in at most one batch, and every *)
(* delivery of a dead letter that did not end in an acknowledgement has    *)
(* cost a fault of its own.  The second relates what the object remembers  *)
(* to the end of its history.  The third takes the counters for sums over  *)
(* the payments of the history (CollectionFacts).                          *)
(***************************************************************************)
EXTENDS MCCloudflare, CollectionFacts

Places == {"nowhere", "queue", "dead_letter_queue", "acked", "dropped"}
Stages == {"idle", "forward", "record", "retry", "dead_letter"}

Held(k) == ToSet(batch[k])

\* The queue whose batch a consumer handles.
Source(where) == IF where = "dead_letter" THEN "dead_letter_queue" ELSE "queue"

QueueTypes ==
    /\ place \in [Commands -> Places]
    /\ attempts \in [Commands -> Nat]
    /\ batch \in [Consumers -> Seq(Commands)]
    /\ stage \in [Consumers -> Stages]
    /\ caller = [c \in Commands |-> caller[c]]
    /\ faults \in Nat

\* Batches repeat nothing, do not overlap, and their messages are still where
\* they were delivered from.
BatchesInv ==
    /\ \A k \in Consumers :
         /\ IsInjective(batch[k])
         /\ stage[k] = "idle" <=> batch[k] = <<>>
         /\ \A c \in Held(k) : place[c] = Source(stage[k])
    /\ \A k, l \in Consumers : k # l => Held(k) \cap Held(l) = {}

\* A dead letter that waits has cost a fault for each of its deliveries; one
\* that is delivered has cost one less.
DeadLettersInv ==
    \A c \in Commands : place[c] = "dead_letter_queue" =>
      attempts[c] <= IF c \in InBatch THEN faults + 1 ELSE faults

NotYetSent == \A c \in Commands : caller[c] = "none" => place[c] = "nowhere"

QueueInv == QueueTypes /\ BatchesInv /\ DeadLettersInv /\ NotYetSent

-----------------------------------------------------------------------------
(***************************************************************************)
(* What the handlers do to the queues.                                     *)
(***************************************************************************)
LEMMA HeldAreCommands ==
  ASSUME QueueTypes, NEW k \in Consumers
  PROVE  Held(k) \subseteq Commands
<1>1. batch[k] \in Seq(Commands)
  BY DEF QueueTypes
<1> QED
  BY <1>1 DEF Held, ToSet

\* A consumer that is at work has a current message, and it has it alone.
LEMMA CurrentIsHeld ==
  ASSUME QueueInv, NEW k \in Consumers, stage[k] # "idle"
  PROVE  /\ batch[k] # <<>> /\ batch[k] \in Seq(Commands) /\ IsInjective(batch[k])
         /\ Held(k) \subseteq Commands
         /\ Current(k) \in Held(k) /\ Current(k) \in Commands
         /\ \A c \in Held(k) : place[c] = Source(stage[k])
         /\ \A l \in Consumers : l # k => Held(l) \cap Held(k) = {}
<1>1. batch[k] # <<>> /\ batch[k] \in Seq(Commands) /\ IsInjective(batch[k])
  BY DEF QueueInv, QueueTypes, BatchesInv
<1>2. Held(k) \subseteq Commands
  BY <1>1 DEF Held, ToSet
<1>3. Current(k) \in Held(k)
  BY <1>1, TailLeavesOthers DEF Current, Held
<1> QED
  BY <1>1, <1>2, <1>3 DEF QueueInv, BatchesInv

\* Where redelivered messages are, and what their deliveries have cost.
LEMMA RedeliverMoves ==
  ASSUME QueueInv, NEW messages \in SUBSET Commands, Redeliver(messages)
  PROVE  /\ place' \in [Commands -> Places] /\ attempts' \in [Commands -> Nat]
         /\ \A c \in Commands \ messages : place'[c] = place[c] /\ attempts'[c] = attempts[c]
         /\ \A c \in messages : place[c] = "queue" =>
              \/ place'[c] = "queue"
              \/ place'[c] = "dead_letter_queue" /\ attempts'[c] = 0
         /\ \A c \in messages : place[c] = "dead_letter_queue" =>
              \/ place'[c] = "dead_letter_queue" /\ attempts'[c] = attempts[c]
              \/ place'[c] = "dropped" /\ attempts[c] > MaxRetries
<1>1. /\ place \in [Commands -> Places] /\ attempts \in [Commands -> Nat]
  BY DEF QueueInv, QueueTypes
<1>2. /\ place' = [c \in Commands |-> IF c \in messages THEN Returned(c) ELSE place[c]]
      /\ attempts' = [c \in Commands |->
           IF c \in messages /\ Returned(c) # place[c] THEN 0 ELSE attempts[c]]
  BY DEF Redeliver
<1>3. \A c \in Commands : Returned(c) \in Places
  BY <1>1 DEF Returned, Places
<1>4. place' \in [Commands -> Places] /\ attempts' \in [Commands -> Nat]
  BY <1>1, <1>2, <1>3
<1>5. ASSUME NEW c \in messages, place[c] = "queue"
      PROVE  \/ place'[c] = "queue"
             \/ place'[c] = "dead_letter_queue" /\ attempts'[c] = 0
  BY <1>2, <1>5 DEF Returned
<1>6. ASSUME NEW c \in messages, place[c] = "dead_letter_queue"
      PROVE  \/ place'[c] = "dead_letter_queue" /\ attempts'[c] = attempts[c]
             \/ place'[c] = "dropped" /\ attempts[c] > MaxRetries
  <2>1. attempts[c] \in Nat /\ MaxRetries \in Nat
    BY <1>1, QueueAssumption
  <2>2. Returned(c) = IF attempts[c] <= MaxRetries THEN "dead_letter_queue" ELSE "dropped"
    BY <1>6 DEF Returned
  <2> QED
    BY <1>2, <1>6, <2>1, <2>2
<1> QED
  BY <1>2, <1>4, <1>5, <1>6

\* A message that is settled leaves its batch.
LEMMA MessageLeaves ==
  ASSUME QueueInv, NEW k \in Consumers, stage[k] # "idle",
         NEW begin \in {"forward", "dead_letter"}, Source(begin) = Source(stage[k]),
         NextMessage(k, begin),
         place' \in [Commands -> Places], attempts' \in [Commands -> Nat],
         caller' = caller, faults' \in Nat, faults' >= faults,
         \A c \in Commands \ {Current(k)} : place'[c] = place[c] /\ attempts'[c] = attempts[c],
         place'[Current(k)] = "dead_letter_queue" => attempts'[Current(k)] <= faults'
  PROVE  QueueInv'
<1> DEFINE m == Current(k)
<1>1. /\ batch[k] # <<>> /\ batch[k] \in Seq(Commands) /\ IsInjective(batch[k])
      /\ m \in Held(k) /\ m \in Commands /\ Held(k) \subseteq Commands
      /\ \A c \in Held(k) : place[c] = Source(stage[k])
      /\ \A l \in Consumers : l # k => Held(l) \cap Held(k) = {}
  BY CurrentIsHeld
<1>2. QueueTypes /\ BatchesInv /\ DeadLettersInv /\ NotYetSent
  BY DEF QueueInv
<1>3. /\ batch' = [batch EXCEPT ![k] = Tail(@)]
      /\ stage' = [stage EXCEPT ![k] = IF Len(batch[k]) = 1 THEN "idle" ELSE begin]
  BY DEF NextMessage
<1>4. /\ Tail(batch[k]) \in Seq(Commands) /\ IsInjective(Tail(batch[k]))
      /\ ToSet(Tail(batch[k])) = Held(k) \ {m}
      /\ (Len(batch[k]) = 1 <=> Tail(batch[k]) = <<>>)
  BY <1>1, TailLeavesOthers DEF Held, Current
<1>5. /\ batch'[k] = Tail(batch[k]) /\ stage'[k] = IF Len(batch[k]) = 1 THEN "idle" ELSE begin
      /\ \A l \in Consumers : l # k => batch'[l] = batch[l] /\ stage'[l] = stage[l]
  BY <1>2, <1>3 DEF QueueTypes
<1>6. Held(k)' = Held(k) \ {m} /\ \A l \in Consumers : l # k => Held(l)' = Held(l)
  BY <1>4, <1>5 DEF Held
<1>7. QueueTypes'
  BY <1>2, <1>3, <1>4 DEF QueueTypes, Stages
<1>8. BatchesInv'
  <2>1. ASSUME NEW l \in Consumers
        PROVE  /\ IsInjective(batch[l])'
               /\ (stage[l] = "idle" <=> batch[l] = <<>>)'
               /\ \A c \in Held(l)' : place'[c] = Source(stage'[l])
    <3>1. CASE l = k
      <4>1. \A c \in Held(k)' : place'[c] = place[c] /\ place[c] = Source(stage[k]) /\ c \in Commands
        BY <1>1, <1>6
      <4>2. (stage[k] = "idle" <=> batch[k] = <<>>)'
        BY <1>4, <1>5
      <4>3. Held(k)' # {} => stage'[k] = begin
        BY <1>4, <1>5, <1>6 DEF ToSet
      <4>4. IsInjective(batch[k])'
        BY <1>4, <1>5 DEF IsInjective
      <4> QED
        BY <3>1, <4>1, <4>2, <4>3, <4>4
    <3>2. CASE l # k
      <4>1. m \notin Held(l)
        BY <1>1, <3>2
      <4>2. Held(l) \subseteq Commands
        BY <1>2, HeldAreCommands
      <4>3. \A c \in Held(l)' : place'[c] = Source(stage'[l])
        BY <1>2, <1>5, <1>6, <3>2, <4>1, <4>2 DEF BatchesInv
      <4>4. IsInjective(batch[l])'
        BY <1>2, <1>5, <3>2 DEF IsInjective, BatchesInv
      <4>5. (stage[l] = "idle" <=> batch[l] = <<>>)'
        BY <1>2, <1>5, <3>2 DEF BatchesInv
      <4> QED
        BY <4>3, <4>4, <4>5
    <3> QED
      BY <3>1, <3>2
  <2>2. \A j, l \in Consumers : j # l => Held(j)' \cap Held(l)' = {}
    BY <1>2, <1>6 DEF BatchesInv
  <2> QED
    BY <2>1, <2>2 DEF BatchesInv
<1>9. DeadLettersInv'
  <2> SUFFICES ASSUME NEW c \in Commands, place'[c] = "dead_letter_queue"
               PROVE  attempts'[c] <= IF c \in InBatch' THEN faults' + 1 ELSE faults'
    BY DEF DeadLettersInv
  <2>0. attempts'[c] \in Nat /\ faults' \in Nat /\ faults \in Nat
    BY <1>2 DEF QueueTypes
  <2>1. CASE c = m
    BY <2>0, <2>1
  <2>2. CASE c # m
    <3>1. c \in InBatch' <=> c \in InBatch
      BY <2>2, <1>6 DEF InBatch, Held
    <3>2. attempts[c] <= IF c \in InBatch THEN faults + 1 ELSE faults
      BY <1>2, <2>2 DEF DeadLettersInv
    <3> QED
      BY <2>0, <2>2, <3>1, <3>2
  <2> QED
    BY <2>1, <2>2
<1>10. NotYetSent'
  <2>1. place[m] # "nowhere"
    BY <1>1 DEF Source
  <2> QED
    BY <1>1, <1>2, <2>1 DEF NotYetSent
<1> QED
  BY <1>7, <1>8, <1>9, <1>10 DEF QueueInv

\* A handler that ends early costs a fault, and with it each of its messages.
LEMMA BatchIsAbandoned ==
  ASSUME QueueInv, NEW k \in Consumers, stage[k] # "idle", Abandon(k),
         caller' = caller, faults' = faults + 1
  PROVE  /\ QueueInv'
         /\ \A c \in Commands : place'[c] = "dropped" =>
              place[c] = "dropped" \/ faults' > MaxRetries
         /\ \A c \in Commands : place'[c] = "acked" => place[c] = "acked"
<1>1. /\ Held(k) \subseteq Commands
      /\ \A c \in Held(k) : place[c] = Source(stage[k])
      /\ \A l \in Consumers : l # k => Held(l) \cap Held(k) = {}
  BY CurrentIsHeld
<1>2. QueueTypes /\ BatchesInv /\ DeadLettersInv /\ NotYetSent
  BY DEF QueueInv
<1>3. /\ Redeliver(Held(k)) /\ batch' = [batch EXCEPT ![k] = <<>>]
      /\ stage' = [stage EXCEPT ![k] = "idle"]
  BY DEF Abandon, Held
<1>4. /\ place' \in [Commands -> Places] /\ attempts' \in [Commands -> Nat]
      /\ \A c \in Commands \ Held(k) : place'[c] = place[c] /\ attempts'[c] = attempts[c]
      /\ \A c \in Held(k) : place[c] = "queue" =>
           \/ place'[c] = "queue"
           \/ place'[c] = "dead_letter_queue" /\ attempts'[c] = 0
      /\ \A c \in Held(k) : place[c] = "dead_letter_queue" =>
           \/ place'[c] = "dead_letter_queue" /\ attempts'[c] = attempts[c]
           \/ place'[c] = "dropped" /\ attempts[c] > MaxRetries
  BY <1>1, <1>3, RedeliverMoves
<1>5. /\ batch'[k] = <<>> /\ stage'[k] = "idle"
      /\ \A l \in Consumers : l # k => batch'[l] = batch[l] /\ stage'[l] = stage[l]
  BY <1>2, <1>3 DEF QueueTypes
<1>6. Held(k)' = {} /\ \A l \in Consumers : l # k => Held(l)' = Held(l)
  BY <1>5 DEF Held, ToSet
<1>7. QueueTypes'
  BY <1>2, <1>3, <1>4 DEF QueueTypes, Stages
<1>8. BatchesInv'
  <2>1. ASSUME NEW l \in Consumers
        PROVE  /\ IsInjective(batch[l])'
               /\ (stage[l] = "idle" <=> batch[l] = <<>>)'
               /\ \A c \in Held(l)' : place'[c] = Source(stage'[l])
    <3>1. CASE l = k
      <4>1. IsInjective(batch[k])' /\ \A c \in Held(k)' : FALSE
        BY <1>5, <1>6 DEF IsInjective
      <4>2. IsInjective(batch[l])'
        BY <3>1, <4>1
      <4>3. (stage[l] = "idle" <=> batch[l] = <<>>)'
        BY <3>1, <1>5
      <4>4. \A c \in Held(l)' : place'[c] = Source(stage'[l])
        BY <3>1, <4>1
      <4> QED
        BY <4>2, <4>3, <4>4
    <3>2. CASE l # k
      <4>1. Held(l) \subseteq Commands \ Held(k)
        BY <1>1, <1>2, <3>2, HeldAreCommands
      <4>2. \A c \in Held(l)' : place'[c] = Source(stage'[l])
        BY <1>2, <1>4, <1>5, <1>6, <3>2, <4>1 DEF BatchesInv
      <4>3. IsInjective(batch[l])'
        BY <1>2, <1>5, <3>2 DEF IsInjective, BatchesInv
      <4>4. (stage[l] = "idle" <=> batch[l] = <<>>)'
        BY <1>2, <1>5, <3>2 DEF BatchesInv
      <4> QED
        BY <4>2, <4>3, <4>4
    <3> QED
      BY <3>1, <3>2
  <2>2. \A j, l \in Consumers : j # l => Held(j)' \cap Held(l)' = {}
    BY <1>2, <1>6 DEF BatchesInv
  <2> QED
    BY <2>1, <2>2 DEF BatchesInv
<1>9. ASSUME NEW c \in Held(k)
      PROVE  /\ attempts[c] \in Nat
             /\ place[c] = "dead_letter_queue" => attempts[c] <= faults'
             /\ place[c] = "queue" \/ place[c] = "dead_letter_queue"
  <2>1. c \in InBatch
    BY DEF InBatch, Held
  <2> QED
    BY <1>1, <1>2, <2>1 DEF DeadLettersInv, QueueTypes, Source
<1>10. DeadLettersInv'
  <2> SUFFICES ASSUME NEW c \in Commands, place'[c] = "dead_letter_queue"
               PROVE  attempts'[c] <= IF c \in InBatch' THEN faults' + 1 ELSE faults'
    BY DEF DeadLettersInv
  <2>0. attempts'[c] \in Nat /\ faults' \in Nat /\ faults \in Nat
    BY <1>2, <1>4 DEF QueueTypes
  <2>1. CASE c \in Held(k)
    BY <2>0, <2>1, <1>4, <1>9
  <2>2. CASE c \notin Held(k)
    <3>1. c \in InBatch' <=> c \in InBatch
      BY <2>2, <1>6 DEF InBatch, Held
    <3>2. attempts[c] <= IF c \in InBatch THEN faults + 1 ELSE faults
      BY <1>2, <1>4, <2>2 DEF DeadLettersInv
    <3> QED
      BY <2>0, <2>2, <1>4, <3>1, <3>2
  <2> QED
    BY <2>1, <2>2
<1>11. NotYetSent'
  BY <1>2, <1>4, <1>9 DEF NotYetSent
<1>12. ASSUME NEW c \in Commands, place'[c] = "dropped"
       PROVE  place[c] = "dropped" \/ faults' > MaxRetries
  <2>1. MaxRetries \in Nat /\ faults' \in Nat
    BY <1>2, QueueAssumption DEF QueueTypes
  <2> QED
    BY <1>4, <1>9, <1>12, <2>1
<1>13. \A c \in Commands : place'[c] = "acked" => place[c] = "acked"
  BY <1>4, <1>9
<1> QED
  BY <1>7, <1>8, <1>10, <1>11, <1>12, <1>13 DEF QueueInv

-----------------------------------------------------------------------------
(***************************************************************************)
(* No command leaves the queues unseen.                                    *)
(***************************************************************************)
\* Nothing that was settled is lost sight of.
LEMMA RecordsStay ==
  ASSUME GoneIsRecorded, QueueTypes, faults' \in Nat, faults' >= faults, events \subseteq events',
         \A c \in Commands : place'[c] = "acked" =>
           place[c] = "acked" \/ {<<c, "forwarded">>, <<c, "dead_letter">>} \cap events' # {},
         \A c \in Commands : place'[c] = "dropped" =>
           place[c] = "dropped" \/ faults' > MaxRetries
  PROVE  GoneIsRecorded'
<1>1. faults \in Nat /\ MaxRetries \in Nat
  BY QueueAssumption DEF QueueTypes
<1>2. ASSUME NEW c \in Commands, place'[c] = "acked"
      PROVE  {<<c, "forwarded">>, <<c, "dead_letter">>} \cap events' # {}
  <2>1. CASE place[c] = "acked"
    <3>1. {<<c, "forwarded">>, <<c, "dead_letter">>} \cap events # {}
      BY <2>1 DEF GoneIsRecorded
    <3> QED
      BY <3>1
  <2> QED
    BY <1>2, <2>1
<1>3. ASSUME NEW c \in Commands, place'[c] = "dropped" PROVE faults' > MaxRetries
  BY <1>1, <1>3 DEF GoneIsRecorded
<1> QED
  BY <1>2, <1>3 DEF GoneIsRecorded

\* Steps that move no message.
LEMMA NothingMoves ==
  ASSUME QueueInv, GoneIsRecorded, UNCHANGED <<place, attempts, batch>>,
         stage' \in [Consumers -> Stages],
         \A k \in Consumers : (stage'[k] = "idle" <=> stage[k] = "idle")
                              /\ Source(stage'[k]) = Source(stage[k]),
         caller' = [c \in Commands |-> caller'[c]],
         \A c \in Commands : caller'[c] = "none" => caller[c] = "none",
         faults' \in Nat, faults' >= faults, events \subseteq events'
  PROVE  QueueInv' /\ GoneIsRecorded'
<1>1. QueueTypes /\ BatchesInv /\ DeadLettersInv /\ NotYetSent
  BY DEF QueueInv
<1>2. QueueTypes'
  BY <1>1 DEF QueueTypes
<1>3. \A k : Held(k)' = Held(k)
  BY DEF Held
<1>4. BatchesInv'
  <2>1. ASSUME NEW k \in Consumers
        PROVE  /\ IsInjective(batch[k])'
               /\ (stage[k] = "idle" <=> batch[k] = <<>>)'
               /\ \A c \in Held(k)' : place'[c] = Source(stage'[k])
    <3>1. IsInjective(batch[k])'
      BY <1>1 DEF BatchesInv
    <3>2. \A c \in Held(k)' : place'[c] = Source(stage'[k])
      BY <1>1, <1>3 DEF BatchesInv
    <3> QED
      BY <1>1, <3>1, <3>2 DEF BatchesInv
  <2> QED
    BY <1>1, <1>3, <2>1 DEF BatchesInv
<1>5. DeadLettersInv'
  <2>1. InBatch' = InBatch
    BY DEF InBatch
  <2>2. faults \in Nat /\ \A c \in Commands : attempts[c] \in Nat
    BY <1>1 DEF QueueTypes
  <2> QED
    BY <1>1, <2>1, <2>2 DEF DeadLettersInv
<1>6. NotYetSent'
  BY <1>1 DEF NotYetSent
<1>7. GoneIsRecorded'
  BY <1>1, RecordsStay
<1> QED
  BY <1>2, <1>4, <1>5, <1>6, <1>7 DEF QueueInv

\* A message is put in the queue.
LEMMA MessageIsSent ==
  ASSUME QueueInv, GoneIsRecorded, NEW c \in Commands, caller[c] = "none",
         place' = [place EXCEPT ![c] = "queue"],
         NEW told \in {"sent", "failed"}, caller' = [caller EXCEPT ![c] = told],
         UNCHANGED <<attempts, batch, stage, events>>, faults' \in Nat, faults' >= faults
  PROVE  QueueInv' /\ GoneIsRecorded'
<1>1. QueueTypes /\ BatchesInv /\ DeadLettersInv /\ NotYetSent
  BY DEF QueueInv
<1>2. place[c] = "nowhere" /\ place'[c] = "queue"
  BY <1>1 DEF NotYetSent, QueueTypes
<1>3. \A d \in Commands \ {c} : place'[d] = place[d] /\ caller'[d] = caller[d]
  BY <1>1 DEF QueueTypes
<1>4. caller'[c] = told /\ caller' = [d \in Commands |-> caller'[d]]
  BY <1>1 DEF QueueTypes
<1>5. QueueTypes'
  BY <1>1, <1>4 DEF QueueTypes, Places
<1>6. \A k : Held(k)' = Held(k)
  BY DEF Held
<1>7. BatchesInv'
  <2>1. ASSUME NEW k \in Consumers
        PROVE  /\ IsInjective(batch[k])'
               /\ (stage[k] = "idle" <=> batch[k] = <<>>)'
               /\ \A d \in Held(k)' : place'[d] = Source(stage'[k])
    <3>1. IsInjective(batch[k])'
      BY <1>1 DEF BatchesInv
    <3>2. Held(k) \subseteq Commands /\ \A d \in Held(k) : place[d] = Source(stage[k])
      BY <1>1, HeldAreCommands DEF BatchesInv
    <3>3. c \notin Held(k)
      BY <1>2, <3>2 DEF Source
    <3>4. \A d \in Held(k)' : place'[d] = Source(stage'[k])
      BY <1>3, <1>6, <3>2, <3>3
    <3> QED
      BY <1>1, <3>1, <3>4 DEF BatchesInv
  <2> QED
    BY <1>1, <1>6, <2>1 DEF BatchesInv
<1>8. DeadLettersInv'
  <2>1. InBatch' = InBatch
    BY DEF InBatch
  <2>2. faults \in Nat /\ \A d \in Commands : attempts[d] \in Nat
    BY <1>1 DEF QueueTypes
  <2> QED
    BY <1>1, <1>2, <1>3, <2>1, <2>2 DEF DeadLettersInv
<1>9. NotYetSent'
  BY <1>1, <1>3, <1>4 DEF NotYetSent
<1>10. GoneIsRecorded'
  BY <1>1, <1>2, <1>3, RecordsStay
<1> QED
  BY <1>5, <1>7, <1>8, <1>9, <1>10 DEF QueueInv

\* A batch is made of messages that wait and are in no other.
LEMMA BatchIsDelivered ==
  ASSUME QueueInv, GoneIsRecorded, NEW k \in Consumers,
         NEW queue \in {"queue", "dead_letter_queue"}, Deliver(k, queue)
  PROVE  QueueInv' /\ GoneIsRecorded'
<1>1. QueueTypes /\ BatchesInv /\ DeadLettersInv /\ NotYetSent
  BY DEF QueueInv
<1>2. PICK messages \in SUBSET Waiting(queue) :
        /\ messages # {}
        /\ batch' = [batch EXCEPT ![k] = SetToSeq(messages)]
        /\ attempts' = [c \in Commands |->
                          IF c \in messages THEN attempts[c] + 1 ELSE attempts[c]]
  BY DEF Deliver
<1> DEFINE begin == IF queue = "queue" THEN "forward" ELSE "dead_letter"
<1>3. /\ stage[k] = "idle" /\ stage' = [stage EXCEPT ![k] = begin]
      /\ UNCHANGED <<caller, place, events, faults>>
  BY DEF Deliver
<1>4. /\ messages \subseteq Commands /\ messages \cap InBatch = {}
      /\ \A c \in messages : place[c] = queue
  BY <1>2 DEF Waiting
<1>5. IsFiniteSet(messages)
  BY <1>4, QueueAssumption, FS_Subset
<1> DEFINE s == SetToSeq(messages)
<1>6. /\ s \in Seq(messages) /\ IsInjective(s) /\ ToSet(s) = messages /\ s # <<>>
  BY <1>2, <1>5, SetToSeqLists
<1>7. s \in Seq(Commands)
  BY <1>4, <1>6
<1>7a. batch' = [batch EXCEPT ![k] = s]
  BY <1>2
<1> HIDE DEF s
<1>8. /\ batch'[k] = s /\ stage'[k] = begin
      /\ \A l \in Consumers : l # k => batch'[l] = batch[l] /\ stage'[l] = stage[l]
  BY <1>1, <1>3, <1>7a DEF QueueTypes
<1>9. Held(k)' = messages /\ \A l \in Consumers : l # k => Held(l)' = Held(l)
  BY <1>6, <1>8 DEF Held
<1>10. begin # "idle" /\ Source(begin) = queue /\ begin \in Stages
  BY DEF Source, Stages
<1> HIDE DEF begin
<1>11. QueueTypes'
  <2>1. attempts' \in [Commands -> Nat]
    BY <1>1, <1>2 DEF QueueTypes
  <2>2. batch' \in [Consumers -> Seq(Commands)]
    BY <1>1, <1>7, <1>7a DEF QueueTypes
  <2>3. stage' \in [Consumers -> Stages]
    BY <1>1, <1>3, <1>10 DEF QueueTypes
  <2> QED
    BY <1>1, <1>3, <2>1, <2>2, <2>3 DEF QueueTypes
<1>12. \A l \in Consumers : Held(l) \cap messages = {}
  BY <1>4 DEF InBatch, Held
<1>13. BatchesInv'
  <2>1. ASSUME NEW l \in Consumers
        PROVE  /\ IsInjective(batch[l])'
               /\ (stage[l] = "idle" <=> batch[l] = <<>>)'
               /\ \A c \in Held(l)' : place'[c] = Source(stage'[l])
    <3>1. CASE l = k
      <4>1. IsInjective(batch[l])'
        BY <3>1, <1>6, <1>8
      <4>2. (stage[l] = "idle" <=> batch[l] = <<>>)'
        BY <3>1, <1>6, <1>8, <1>10
      <4>3. \A c \in Held(l)' : place'[c] = Source(stage'[l])
        BY <3>1, <1>3, <1>4, <1>8, <1>9, <1>10
      <4> QED
        BY <4>1, <4>2, <4>3
    <3>2. CASE l # k
      <4>1. IsInjective(batch[l])'
        BY <1>1, <1>8, <3>2 DEF IsInjective, BatchesInv
      <4>2. \A c \in Held(l)' : place'[c] = Source(stage'[l])
        BY <1>1, <1>3, <1>8, <1>9, <3>2 DEF BatchesInv
      <4> QED
        BY <1>1, <1>8, <3>2, <4>1, <4>2 DEF BatchesInv
    <3> QED
      BY <3>1, <3>2
  <2>2. \A j, l \in Consumers : j # l => Held(j)' \cap Held(l)' = {}
    BY <1>1, <1>9, <1>12 DEF BatchesInv
  <2> QED
    BY <2>1, <2>2 DEF BatchesInv
<1>14. DeadLettersInv'
  <2> SUFFICES ASSUME NEW c \in Commands, place[c] = "dead_letter_queue"
               PROVE  attempts'[c] <= IF c \in InBatch' THEN faults + 1 ELSE faults
    BY <1>3 DEF DeadLettersInv
  <2>1. attempts[c] <= IF c \in InBatch THEN faults + 1 ELSE faults
    BY <1>1 DEF DeadLettersInv
  <2>2. attempts[c] \in Nat /\ faults \in Nat
    BY <1>1 DEF QueueTypes
  <2>3. CASE c \in messages
    <3>1. c \notin InBatch /\ attempts'[c] = attempts[c] + 1
      BY <1>2, <1>4, <2>3
    <3>2. c \in InBatch'
      BY <2>3, <1>9 DEF InBatch, Held
    <3> QED
      BY <2>1, <2>2, <3>1, <3>2
  <2>4. CASE c \notin messages
    <3>1. attempts'[c] = attempts[c]
      BY <1>2, <2>4
    <3>2. c \in InBatch => c \in InBatch'
      <4> SUFFICES ASSUME NEW l \in Consumers, c \in Held(l) PROVE c \in InBatch'
        BY DEF InBatch, Held
      <4>1. l # k
        BY <1>1, <1>3 DEF BatchesInv, Held, ToSet
      <4> QED
        BY <4>1, <1>9 DEF InBatch, Held
    <3> QED
      BY <2>1, <2>2, <3>1, <3>2
  <2> QED
    BY <2>3, <2>4
<1>15. NotYetSent'
  BY <1>1, <1>3 DEF NotYetSent
<1>16. GoneIsRecorded'
  <2>1. faults \in Nat
    BY <1>1 DEF QueueTypes
  <2> QED
    BY <2>1, <1>1, <1>3, RecordsStay
<1> QED
  BY <1>11, <1>13, <1>14, <1>15, <1>16 DEF QueueInv

\* A message that is acknowledged has its event.
LEMMA MessageIsAcknowledged ==
  ASSUME QueueInv, GoneIsRecorded, NEW k \in Consumers, stage[k] # "idle",
         NEW begin \in {"forward", "dead_letter"}, Source(begin) = Source(stage[k]),
         NEW what \in {"forwarded", "dead_letter"},
         events' = events \cup {<<Current(k), what>>},
         Acknowledge(k), NextMessage(k, begin), UNCHANGED <<caller, faults>>
  PROVE  QueueInv' /\ GoneIsRecorded'
<1> DEFINE m == Current(k)
<1>1. QueueTypes /\ m \in Commands
  BY CurrentIsHeld DEF QueueInv
<1>2. /\ place' = [place EXCEPT ![m] = "acked"] /\ attempts' = attempts
      /\ place \in [Commands -> Places] /\ attempts \in [Commands -> Nat] /\ faults \in Nat
  BY <1>1 DEF Acknowledge, QueueTypes
<1> HIDE DEF m
<1>3. /\ place' \in [Commands -> Places] /\ attempts' \in [Commands -> Nat]
      /\ faults' \in Nat /\ faults' >= faults
      /\ \A c \in Commands \ {m} : place'[c] = place[c] /\ attempts'[c] = attempts[c]
      /\ place'[m] = "acked"
  BY <1>1, <1>2 DEF Places
<1>4. QueueInv'
  BY <1>3, MessageLeaves DEF m
<1>5. {<<m, "forwarded">>, <<m, "dead_letter">>} \cap events' # {}
  BY DEF m
<1>6. GoneIsRecorded'
  BY <1>1, <1>3, <1>5, RecordsStay
<1> QED
  BY <1>4, <1>6

LEMMA HandlerStep ==
  ASSUME QueueInv, GoneIsRecorded, NEW k \in Consumers, Handle(k) \/ HandlerStops(k)
  PROVE  QueueInv' /\ GoneIsRecorded'
<1>0. /\ QueueTypes /\ faults \in Nat /\ stage \in [Consumers -> Stages]
      /\ caller = [c \in Commands |-> caller[c]]
  BY DEF QueueInv, QueueTypes
<1>1. ASSUME NEW where \in Stages, stage[k] \notin {"idle", "dead_letter"},
             where \notin {"idle", "dead_letter"}, At(k, where),
             UNCHANGED <<caller, place, attempts, events>>, faults' \in Nat, faults' >= faults
      PROVE  QueueInv' /\ GoneIsRecorded'
  <2>1. stage' = [stage EXCEPT ![k] = where] /\ batch' = batch
    BY <1>1 DEF At
  <2>2. /\ stage' \in [Consumers -> Stages]
        /\ \A l \in Consumers : (stage'[l] = "idle" <=> stage[l] = "idle")
                                /\ Source(stage'[l]) = Source(stage[l])
    BY <1>0, <1>1, <2>1 DEF Source
  <2> QED
    BY <1>0, <1>1, <2>1, <2>2, NothingMoves
<1>2. ASSUME stage[k] # "idle", Abandon(k), faults' = faults + 1, UNCHANGED <<caller, events>>
      PROVE  QueueInv' /\ GoneIsRecorded'
  <2>1. /\ QueueInv'
        /\ \A c \in Commands : place'[c] = "dropped" =>
             place[c] = "dropped" \/ faults' > MaxRetries
        /\ \A c \in Commands : place'[c] = "acked" => place[c] = "acked"
    BY <1>2, BatchIsAbandoned
  <2>2. faults' \in Nat /\ faults' >= faults
    BY <1>0, <1>2
  <2> QED
    BY <1>0, <1>2, <2>1, <2>2, RecordsStay
<1>3. CASE Forward(k)
  <2>1. /\ stage[k] = "forward" /\ At(k, "record")
        /\ UNCHANGED <<caller, place, attempts, events, faults>>
    BY <1>3 DEF Forward, queueVars
  <2> QED
    BY <1>0, <1>1, <2>1 DEF Stages
<1>4. CASE ForwardFails(k)
  <2>1. /\ stage[k] = "forward" /\ At(k, "retry")
        /\ UNCHANGED <<caller, place, attempts, events>>
        /\ faults' = faults \/ faults' = faults + 1
    BY <1>4 DEF ForwardFails, queueVars, Fault
  <2> QED
    BY <1>0, <1>1, <2>1 DEF Stages
<1>5. CASE RecordForwarded(k)
  <2>1. stage[k] = "record" /\ caller' = caller
    BY <1>5 DEF RecordForwarded
  <2>2. CASE /\ events' = events \cup {<<Current(k), "forwarded">>}
             /\ Acknowledge(k) /\ NextMessage(k, "forward") /\ faults' = faults
    BY <2>1, <2>2, MessageIsAcknowledged DEF Source
  <2>3. CASE Fault("record") /\ At(k, "retry") /\ UNCHANGED <<queueVars, events>>
    BY <1>0, <1>1, <2>1, <2>3 DEF Stages, queueVars, Fault
  <2> QED
    BY <1>5, <2>2, <2>3 DEF RecordForwarded
<1>6. CASE RecordRetrying(k)
  <2>1. stage[k] = "retry" /\ caller' = caller
    BY <1>6 DEF RecordRetrying
  <2>2. CASE /\ events' = events \cup {<<Current(k), "retrying">>}
             /\ Redeliver({Current(k)}) /\ NextMessage(k, "forward") /\ faults' = faults
    <3>1. Current(k) \in Commands /\ place[Current(k)] = "queue"
      BY <2>1, CurrentIsHeld DEF Source
    <3>2. /\ place' \in [Commands -> Places] /\ attempts' \in [Commands -> Nat]
          /\ \A c \in Commands \ {Current(k)} : place'[c] = place[c] /\ attempts'[c] = attempts[c]
          /\ \/ place'[Current(k)] = "queue"
             \/ place'[Current(k)] = "dead_letter_queue" /\ attempts'[Current(k)] = 0
      BY <2>2, <3>1, RedeliverMoves
    <3>3. QueueInv'
      BY <1>0, <2>1, <2>2, <3>2, MessageLeaves DEF Source
    <3>4. GoneIsRecorded'
      BY <1>0, <2>2, <3>2, RecordsStay
    <3> QED
      BY <3>3, <3>4
  <2>3. CASE Fault("record") /\ Abandon(k) /\ events' = events
    BY <1>2, <2>1, <2>3 DEF Fault
  <2> QED
    BY <1>6, <2>2, <2>3 DEF RecordRetrying
<1>7. CASE RecordDeadLetter(k)
  <2>1. stage[k] = "dead_letter" /\ caller' = caller
    BY <1>7 DEF RecordDeadLetter
  <2>2. CASE /\ events' = events \cup {<<Current(k), "dead_letter">>}
             /\ Acknowledge(k) /\ NextMessage(k, "dead_letter") /\ faults' = faults
    BY <2>1, <2>2, MessageIsAcknowledged
  <2>3. CASE Fault("record") /\ Abandon(k) /\ events' = events
    BY <1>2, <2>1, <2>3 DEF Fault
  <2> QED
    BY <1>7, <2>2, <2>3 DEF RecordDeadLetter
<1>8. CASE HandlerStops(k)
  BY <1>2, <1>8 DEF HandlerStops, Fault
<1> QED
  BY <1>3, <1>4, <1>5, <1>6, <1>7, <1>8 DEF Handle

LEMMA QueueStep ==
  QueueInv /\ GoneIsRecorded /\ [Next]_workerVars => QueueInv' /\ GoneIsRecorded'
<1> SUFFICES ASSUME QueueInv, GoneIsRecorded, [Next]_workerVars
             PROVE  QueueInv' /\ GoneIsRecorded'
  OBVIOUS
<1>0. /\ QueueTypes /\ faults \in Nat /\ stage \in [Consumers -> Stages]
      /\ caller = [c \in Commands |-> caller[c]]
  BY DEF QueueInv, QueueTypes
<1>1. ASSUME UNCHANGED <<place, attempts, batch, stage>>, events \subseteq events',
             caller' = [c \in Commands |-> caller'[c]],
             \A c \in Commands : caller'[c] = "none" => caller[c] = "none",
             faults' = faults \/ faults' = faults + 1
      PROVE  QueueInv' /\ GoneIsRecorded'
  BY <1>0, <1>1, NothingMoves
<1>2. ASSUME NEW kind \in Kinds, NewTask(kind) PROVE QueueInv' /\ GoneIsRecorded'
  BY <1>0, <1>1, <1>2 DEF NewTask, queueVars, consumerVars
<1>3. CASE ScheduledDrain
  BY <1>0, <1>1, <1>3 DEF ScheduledDrain, queueVars, consumerVars, Fault
<1>4. CASE UNCHANGED workerVars
  BY <1>0, <1>1, <1>4 DEF workerVars, queueVars, consumerVars
<1>5. ASSUME NEW c \in Commands, Send(c) PROVE QueueInv' /\ GoneIsRecorded'
  <2>1. /\ caller[c] = "none" /\ caller' = [caller EXCEPT ![c] = "sent"]
        /\ place' = [place EXCEPT ![c] = "queue"]
        /\ UNCHANGED <<attempts, batch, stage, events>> /\ faults' \in Nat /\ faults' >= faults
    BY <1>0, <1>5 DEF Send, consumerVars
  <2> QED
    BY <2>1, MessageIsSent
<1>6. ASSUME NEW c \in Commands, SendFails(c) PROVE QueueInv' /\ GoneIsRecorded'
  <2>1. /\ caller[c] = "none" /\ caller' = [caller EXCEPT ![c] = "failed"]
        /\ faults' = faults + 1 /\ faults' \in Nat /\ faults' >= faults
        /\ UNCHANGED <<attempts, batch, stage, events>>
    BY <1>0, <1>6 DEF SendFails, consumerVars, Fault
  <2>2. CASE place' = [place EXCEPT ![c] = "queue"]
    BY <2>1, <2>2, MessageIsSent
  <2>3. CASE UNCHANGED place
    BY <1>0, <1>1, <2>1, <2>3
  <2> QED
    BY <1>6, <2>2, <2>3 DEF SendFails
<1>7. ASSUME NEW c \in Commands, RecordQueued(c) PROVE QueueInv' /\ GoneIsRecorded'
  <2>1. /\ UNCHANGED <<place, attempts, batch, stage>> /\ events \subseteq events'
        /\ faults' = faults \/ faults' = faults + 1
        /\ caller' = [caller EXCEPT ![c] = "queued"] \/ caller' = [caller EXCEPT ![c] = "failed"]
    BY <1>7 DEF RecordQueued, queueVars, consumerVars, Fault
  <2> QED
    BY <1>0, <1>1, <2>1
<1> QED
  BY <1>2, <1>3, <1>4, <1>5, <1>6, <1>7, BatchIsDelivered, HandlerStep DEF Next, Request

LEMMA QueueInit == Init => QueueInv /\ GoneIsRecorded
<1> SUFFICES ASSUME Init PROVE QueueInv /\ GoneIsRecorded
  OBVIOUS
<1>1. /\ place = [c \in Commands |-> "nowhere"] /\ attempts = [c \in Commands |-> 0]
      /\ batch = [k \in Consumers |-> <<>>] /\ stage = [k \in Consumers |-> "idle"]
      /\ caller = [c \in Commands |-> "none"] /\ faults = 0
  BY DEF Init
<1>2. QueueTypes
  BY <1>1 DEF QueueTypes, Places, Stages
<1>3. \A k \in Consumers : Held(k) = {}
  BY <1>1 DEF Held, ToSet
<1>4. BatchesInv
  BY <1>1, <1>3 DEF BatchesInv, IsInjective
<1>5. DeadLettersInv /\ NotYetSent /\ GoneIsRecorded
  BY <1>1 DEF DeadLettersInv, NotYetSent, GoneIsRecorded
<1> QED
  BY <1>2, <1>4, <1>5 DEF QueueInv

\* However many handlers run at once, wherever they fail and whatever is
\* delivered twice, a command leaves the queues only with a control event that
\* says how, unless recording has failed once for every delivery of its dead
\* letter (src/workers/mandate402.ts, handleWorkerQueue).
THEOREM NothingLeavesUnseen == Spec => []GoneIsRecorded
<1>1. QueueInv /\ GoneIsRecorded /\ [Next]_workerVars => QueueInv' /\ GoneIsRecorded'
  BY QueueStep
<1> QED
  BY <1>1, QueueInit, PTL DEF Spec

-----------------------------------------------------------------------------
(***************************************************************************)
(* What the budget object remembers.                                       *)
(***************************************************************************)
LockCommands == Mixed!BudgetCommands \cup Ordered!BudgetCommands

\* ids is the end of a history, as much of it as can be held.
IsEndOf(ids, hist) ==
    /\ Len(ids) = IF Len(hist) < Memory THEN Len(hist) ELSE Memory
    /\ \A k \in 1 .. Len(ids) : ids[k] = hist[Len(hist) - Len(ids) + k]

\* The object remembers the end of its history.
RemembersTheLast ==
    /\ history \in Seq(LockCommands) /\ processedCommandIds \in Seq(LockCommands)
    /\ IsEndOf(processedCommandIds, history)

LockInv == RemembersTheLast /\ AppliedAgainOnlyIfForgotten

\* Where the kept part of the memory begins.
From(n) == CHOOSE x \in {1, n} : \A y \in {1, n} : x >= y

\* processedCommandIds after a command that was not among them.
WithNew(ids, command) ==
    Append(SubSeq(ids, From(Len(ids) - (Memory - 2)), Len(ids)), command)

LEMMA FromIsLarger ==
  ASSUME NEW n \in Int
  PROVE  From(n) = IF n > 1 THEN n ELSE 1
<1> DEFINE m == IF n > 1 THEN n ELSE 1
<1>1. m \in {1, n} /\ \A y \in {1, n} : m >= y
  OBVIOUS
<1>2. \A x \in {1, n} : (\A y \in {1, n} : x >= y) => x = m
  OBVIOUS
<1> HIDE DEF m
<1>3. From(n) = m
  BY <1>1, <1>2 DEF From
<1> QED
  BY <1>3 DEF m

\* slice(-99): all of it while there is room, else all but the first.
LEMMA KeepsTheLast ==
  ASSUME NEW S, NEW ids \in Seq(S), Len(ids) <= Memory
  PROVE  LET kept == SubSeq(ids, From(Len(ids) - (Memory - 2)), Len(ids))
             gone == IF Len(ids) = Memory THEN 1 ELSE 0
         IN  /\ kept \in Seq(S) /\ Len(kept) = Len(ids) - gone
             /\ \A k \in 1 .. Len(kept) : kept[k] = ids[k + gone]
<1> DEFINE n == Len(ids)
           m == From(Len(ids) - (Memory - 2))
           kept == SubSeq(ids, m, n)
           gone == IF n = Memory THEN 1 ELSE 0
<1>1. Memory \in Nat \ {0} /\ n \in Nat /\ n <= Memory
  BY LockAssumption DEF Mixed!BudgetAssumption
<1>2. m = IF n = Memory THEN 2 ELSE 1
  BY <1>1, FromIsLarger
<1>3. m = 1 + gone /\ gone \in {0, 1}
  BY <1>2
<1> HIDE DEF m
<1>4. \A i \in m .. n : ids[i] \in S
  BY <1>3
<1>5. /\ kept \in Seq(S) /\ Len(kept) = (IF m <= n THEN n - m + 1 ELSE 0)
      /\ \A i \in 1 .. n - m + 1 : kept[i] = ids[m + i - 1]
  BY <1>1, <1>3, <1>4, SubSeqProperties
<1>5a. gone = 1 => n >= 1
  BY <1>1
<1> HIDE DEF kept, n, gone
<1>6. Len(kept) = n - gone
  BY <1>1, <1>3, <1>5, <1>5a
<1>7. ASSUME NEW k \in 1 .. Len(kept) PROVE kept[k] = ids[k + gone]
  <2>1. k \in 1 .. n - m + 1 /\ m + k - 1 = k + gone
    BY <1>1, <1>3, <1>6
  <2> QED
    BY <1>5, <2>1
<1> QED
  BY <1>5, <1>6, <1>7 DEF kept, m, n, gone

\* A place counted from the end of a sequence, before and after the sequence
\* and its end have grown.
LEMMA PlaceFromEnd ==
  ASSUME NEW h \in Int, NEW i \in Int, NEW gone \in Int, NEW k \in Int,
         NEW h2, h2 = h + 1, NEW i2, i2 = (i - gone) + 1
  PROVE  h2 - i2 + k = h - i + (k + gone)
  OBVIOUS

\* What is remembered after an application is the end of the longer history.
LEMMA MemoryMovesOn ==
  ASSUME NEW S, NEW hist \in Seq(S), NEW ids \in Seq(S), NEW command \in S,
         IsEndOf(ids, hist), NEW hist2, hist2 = Append(hist, command),
         NEW ids2, ids2 = WithNew(ids, command)
  PROVE  hist2 \in Seq(S) /\ ids2 \in Seq(S) /\ IsEndOf(ids2, hist2)
<1>1. /\ Memory \in Nat \ {0} /\ Len(ids) \in Nat /\ Len(hist) \in Nat /\ Len(ids) <= Memory
      /\ Len(ids) <= Len(hist) /\ (Len(ids) < Memory => Len(ids) = Len(hist))
  BY LockAssumption DEF Mixed!BudgetAssumption, IsEndOf
<1>1a. \A k \in 1 .. Len(ids) : ids[k] = hist[Len(hist) - Len(ids) + k]
  BY DEF IsEndOf
<1>2. PICK gone \in {0, 1} : gone = 1 <=> Len(ids) = Memory
  OBVIOUS
<1>3. PICK kept \in Seq(S) :
        /\ ids2 = Append(kept, command) /\ Len(kept) = Len(ids) - gone
        /\ \A k \in 1 .. Len(kept) : kept[k] = ids[k + gone]
  <2> DEFINE q == SubSeq(ids, From(Len(ids) - (Memory - 2)), Len(ids))
  <2>1. /\ q \in Seq(S) /\ Len(q) = Len(ids) - (IF Len(ids) = Memory THEN 1 ELSE 0)
        /\ \A k \in 1 .. Len(q) : q[k] = ids[k + (IF Len(ids) = Memory THEN 1 ELSE 0)]
    BY <1>1, KeepsTheLast
  <2>2. gone = IF Len(ids) = Memory THEN 1 ELSE 0
    BY <1>2
  <2>3. ids2 = Append(q, command)
    BY DEF WithNew
  <2> HIDE DEF q
  <2>4. Len(q) = Len(ids) - gone /\ \A k \in 1 .. Len(q) : q[k] = ids[k + gone]
    BY <2>1, <2>2
  <2> QED
    BY <2>1, <2>3, <2>4
<1>4. /\ ids2 \in Seq(S) /\ Len(ids2) = Len(kept) + 1
      /\ \A k \in 1 .. Len(kept) : ids2[k] = kept[k]
      /\ ids2[Len(kept) + 1] = command
  BY <1>3, AppendProperties
<1>5. /\ hist2 \in Seq(S) /\ Len(hist2) = Len(hist) + 1
      /\ \A k \in 1 .. Len(hist) : hist2[k] = hist[k]
      /\ hist2[Len(hist) + 1] = command
  BY AppendProperties
<1>6. Len(ids2) = IF Len(hist2) < Memory THEN Len(hist2) ELSE Memory
  BY <1>1, <1>2, <1>3, <1>4, <1>5
<1>7. ASSUME NEW k \in 1 .. Len(ids2)
      PROVE  ids2[k] = hist2[Len(hist2) - Len(ids2) + k]
  <2>1. CASE k = Len(kept) + 1
    <3>1. Len(hist2) - Len(ids2) + k = Len(hist) + 1
      BY <1>1, <1>3, <1>4, <1>5, <2>1
    <3> QED
      BY <2>1, <3>1, <1>4, <1>5
  <2>2. CASE k # Len(kept) + 1
    <3>1. k \in 1 .. Len(kept) /\ k + gone \in 1 .. Len(ids)
      BY <2>2, <1>1, <1>2, <1>3, <1>4
    <3>2. ids2[k] = hist[Len(hist) - Len(ids) + (k + gone)]
      BY <3>1, <1>1a, <1>3, <1>4
    <3>3. Len(hist) - Len(ids) + (k + gone) \in 1 .. Len(hist)
      BY <3>1, <1>1
    <3>4. Len(hist2) - Len(ids2) + k = Len(hist) - Len(ids) + (k + gone)
      <4>1. /\ Len(hist) \in Int /\ Len(ids) \in Int /\ gone \in Int /\ k \in Int
            /\ Len(hist2) = Len(hist) + 1
        BY <3>1, <1>1, <1>5
      <4>2. Len(ids2) = (Len(ids) - gone) + 1
        BY <1>3, <1>4
      <4> QED
        BY <4>1, <4>2, PlaceFromEnd
    <3> QED
      BY <3>2, <3>3, <3>4, <1>5
  <2> QED
    BY <2>1, <2>2
<1> QED
  BY <1>4, <1>5, <1>6, <1>7 DEF IsEndOf

\* A command that is not among the last of its history is further back.
LEMMA ForgottenIsFar ==
  ASSUME NEW S, NEW hist \in Seq(S), NEW ids \in Seq(S), NEW command \in S,
         IsEndOf(ids, hist), command \notin ToSet(ids),
         NEW i \in 1 .. Len(hist), hist[i] = command
  PROVE  Len(hist) + 1 - i > Memory
<1>1. /\ Memory \in Nat \ {0} /\ Len(ids) \in Nat /\ Len(hist) \in Nat
      /\ Len(ids) <= Len(hist) /\ (Len(ids) < Memory => Len(ids) = Len(hist))
  BY LockAssumption DEF Mixed!BudgetAssumption, IsEndOf
<1>2. ASSUME i > Len(hist) - Len(ids) PROVE FALSE
  <2>1. PICK k \in 1 .. Len(ids) : Len(hist) - Len(ids) + k = i
    <3>1. /\ i - (Len(hist) - Len(ids)) \in 1 .. Len(ids)
          /\ Len(hist) - Len(ids) + (i - (Len(hist) - Len(ids))) = i
      BY <1>1, <1>2
    <3> QED
      BY <3>1
  <2>2. ids[k] = command /\ k \in DOMAIN ids
    BY <2>1 DEF IsEndOf
  <2> QED
    BY <2>2 DEF ToSet
<1> QED
  BY <1>1, <1>2

\* A command that is not remembered is at least as far back as the memory is
\* long.
LEMMA ApplicationIsRemembered ==
  ASSUME LockInv, NEW command \in LockCommands, command \notin ToSet(processedCommandIds),
         history' = Append(history, command),
         processedCommandIds' = WithNew(processedCommandIds, command)
  PROVE  LockInv'
<1>1. RemembersTheLast /\ AppliedAgainOnlyIfForgotten
  BY DEF LockInv
<1>2. RemembersTheLast'
  BY <1>1, MemoryMovesOn DEF RemembersTheLast
<1>3. history \in Seq(LockCommands) /\ Len(history) \in Nat
  BY <1>1 DEF RemembersTheLast
<1>4. /\ Len(history') = Len(history) + 1 /\ history' \in Seq(LockCommands)
      /\ \A k \in 1 .. Len(history) : history'[k] = history[k]
      /\ history'[Len(history) + 1] = command
  BY <1>3, AppendProperties
<1>5. \A i \in 1 .. Len(history) : history[i] = command => Len(history) + 1 - i > Memory
  BY <1>1, ForgottenIsFar DEF RemembersTheLast
<1>6. AppliedAgainOnlyIfForgotten'
  <2> SUFFICES ASSUME NEW i \in DOMAIN history', NEW j \in DOMAIN history',
                      i < j, history'[i] = history'[j]
               PROVE  j - i > Memory
    BY DEF AppliedAgainOnlyIfForgotten, Mixed!AppliedAgainOnlyIfForgotten
  <2>1. i \in 1 .. Len(history) + 1 /\ j \in 1 .. Len(history) + 1
    BY <1>3, <1>4
  <2>2. i \in 1 .. Len(history)
    BY <2>1, <1>3
  <2>3. CASE j = Len(history) + 1
    <3>1. history[i] = command
      BY <2>2, <2>3, <1>4
    <3> QED
      BY <3>1, <2>2, <2>3, <1>5
  <2>4. CASE j # Len(history) + 1
    <3>1. j \in 1 .. Len(history)
      BY <2>1, <2>4, <1>3
    <3>2. history[i] = history[j]
      BY <3>1, <2>2, <1>4
    <3>3. i \in DOMAIN history /\ j \in DOMAIN history
      BY <2>2, <3>1, <1>3
    <3> QED
      BY <1>1, <3>2, <3>3 DEF AppliedAgainOnlyIfForgotten, Mixed!AppliedAgainOnlyIfForgotten
  <2> QED
    BY <2>3, <2>4
<1> QED
  BY <1>2, <1>6 DEF LockInv

LEMMA LockInit == CloudInit => LockInv
<1> SUFFICES ASSUME CloudInit PROVE LockInv
  OBVIOUS
<1>1. history = <<>> /\ processedCommandIds = <<>>
  BY DEF CloudInit, Mixed!Init
<1>2. Memory \in Nat \ {0}
  BY LockAssumption DEF Mixed!BudgetAssumption
<1> QED
  BY <1>1, <1>2 DEF LockInv, RemembersTheLast, IsEndOf, AppliedAgainOnlyIfForgotten,
                    Mixed!AppliedAgainOnlyIfForgotten

LEMMA LockStep ==
  LockInv /\ [CloudNext]_cloudVars => LockInv'
<1> SUFFICES ASSUME LockInv, [CloudNext]_cloudVars PROVE LockInv'
  OBVIOUS
<1>1. ASSUME UNCHANGED <<processedCommandIds, history>> PROVE LockInv'
  BY <1>1 DEF LockInv, RemembersTheLast, AppliedAgainOnlyIfForgotten,
              Mixed!AppliedAgainOnlyIfForgotten
<1>2. ASSUME NEW command \in Mixed!BudgetCommands, Mixed!Apply(command) PROVE LockInv'
  <2>1. /\ command \in LockCommands /\ command \notin ToSet(processedCommandIds)
        /\ history' = Append(history, command)
        /\ processedCommandIds' = WithNew(processedCommandIds, command)
    BY <1>2 DEF LockCommands, Mixed!Apply, Mixed!Known, Mixed!Remember, Mixed!Max, From, WithNew,
                Mixed!ToSet, ToSet
  <2> QED
    BY <2>1, ApplicationIsRemembered
<1>3. ASSUME NEW command \in Ordered!BudgetCommands, Ordered!Apply(command) PROVE LockInv'
  <2>1. /\ command \in LockCommands /\ command \notin ToSet(processedCommandIds)
        /\ history' = Append(history, command)
        /\ processedCommandIds' = WithNew(processedCommandIds, command)
    BY <1>3 DEF LockCommands, Ordered!Apply, Ordered!Known, Ordered!Remember, Ordered!Max, From, WithNew,
                Ordered!ToSet, ToSet
  <2> QED
    BY <2>1, ApplicationIsRemembered
<1>4. CASE InQueues(Next)
  BY <1>1, <1>4 DEF InQueues, lockVars
<1>5. CASE Mixed!Deliver
  BY <1>1, <1>2, <1>5 DEF Mixed!Deliver, Mixed!Repeat, Mixed!budgetVars, Mixed!budgetState
<1>6. CASE Ordered!DeliverInOrder
  BY <1>1, <1>3, <1>6
     DEF Ordered!DeliverInOrder, Ordered!Repeat, Ordered!budgetVars, Ordered!budgetState
<1>7. CASE UNCHANGED cloudVars
  BY <1>1, <1>7 DEF cloudVars, lockVars
<1> QED
  BY <1>4, <1>5, <1>6, <1>7 DEF CloudNext

\* However deliveries are repeated, mixed and reordered, the budget object
\* applies a command a second time only after as many others as it can
\* remember (src/workers/mandate402.ts, MandateBudgetLockDurableObject).
THEOREM NotAppliedAgainWhileRemembered == CloudSpec => []AppliedAgainOnlyIfForgotten
<1>1. CloudInit => LockInv
  BY LockInit
<1>2. LockInv /\ [CloudNext]_cloudVars => LockInv'
  BY LockStep
<1>3. LockInv => AppliedAgainOnlyIfForgotten
  BY DEF LockInv
<1> QED
  BY <1>1, <1>2, <1>3, PTL DEF CloudSpec


-----------------------------------------------------------------------------
(***************************************************************************)
(* The money of the budget object, when commands come in their order.      *)
(***************************************************************************)
Price == CentsOf(OrderedPayments)

ReservedFor(hist) ==
    {p \in OrderedPayments :
       /\ [payment |-> p, kind |-> "reserve"] \in ToSet(hist)
       /\ [payment |-> p, kind |-> "consume"] \notin ToSet(hist)
       /\ [payment |-> p, kind |-> "release"] \notin ToSet(hist)}

SpentFor(hist) ==
    {p \in OrderedPayments : [payment |-> p, kind |-> "consume"] \in ToSet(hist)}

\* No payment is settled that was not reserved, and the two counters are sums
\* over finitely many payments.
MoneyInv ==
    object = "ordered" =>
      /\ \A p \in OrderedPayments, kind \in {"consume", "release"} :
           [payment |-> p, kind |-> kind] \in ToSet(history)
             => [payment |-> p, kind |-> "reserve"] \in ToSet(history)
      /\ IsFiniteSet(ReservedFor(history)) /\ IsFiniteSet(SpentFor(history))
      /\ reservedCents = SumOver(Price, ReservedFor(history))
      /\ consumedCents = SumOver(Price, SpentFor(history))

LEMMA PricesArePositive ==
  \A p \in OrderedPayments : Price[p] \in Nat \ {0} /\ Price[p] \in Int
BY LockAssumption DEF Price, Ordered!BudgetAssumption

\* A payment that is added to a sum, and one that is taken out of it.
LEMMA PaymentIsAdded ==
  ASSUME NEW S \in SUBSET OrderedPayments, IsFiniteSet(S), NEW p \in OrderedPayments \ S
  PROVE  /\ IsFiniteSet(S \cup {p})
         /\ SumOver(Price, S \cup {p}) = SumOver(Price, S) + Price[p]
<1>1. (\A q \in S : Price[q] \in Int) /\ Price[p] \in Int
  BY PricesArePositive
<1> QED
  BY <1>1, SumWithElement, FS_AddElement

LEMMA PaymentIsTaken ==
  ASSUME NEW S \in SUBSET OrderedPayments, IsFiniteSet(S), NEW p \in S
  PROVE  /\ IsFiniteSet(S \ {p})
         /\ SumOver(Price, S \ {p}) = Ordered!Lowered(SumOver(Price, S), Price[p])
<1>1. \A q \in S : Price[q] \in Nat /\ Price[q] \in Int
  BY PricesArePositive
<1>2. IsFiniteSet(S \ {p})
  BY FS_RemoveElement
<1>3. SumOver(Price, S) = Price[p] + SumOver(Price, S \ {p})
  BY <1>1, SumWithout
<1>4. SumOver(Price, S \ {p}) \in Nat
  BY <1>1, SumGrows
<1>5. PICK rest \in Nat : rest = SumOver(Price, S \ {p})
  BY <1>4
<1>6. PICK price \in Nat : price = Price[p]
  BY <1>1
<1>7. PICK total \in Nat : total = SumOver(Price, S)
  BY <1>3, <1>5, <1>6
<1>8. total - price = rest
  BY <1>3, <1>5, <1>6, <1>7
<1>9. Ordered!Lowered(total, price) = rest
  <2> DEFINE larger == CHOOSE x \in {0, rest} : \A y \in {0, rest} : x >= y
  <2>1. Ordered!Lowered(total, price) = larger
    BY <1>8 DEF Ordered!Lowered, Ordered!Max
  <2>2. rest \in {0, rest} /\ \A y \in {0, rest} : rest >= y
    OBVIOUS
  <2>3. \A x \in {0, rest} : (\A y \in {0, rest} : x >= y) => x = rest
    OBVIOUS
  <2>4. larger = rest
    BY <2>2, <2>3
  <2> QED
    BY <2>1, <2>4
<1> QED
  BY <1>2, <1>5, <1>6, <1>7, <1>9

LEMMA OrderedStep ==
  ASSUME LockInv, MoneyInv, object = "ordered", object' = "ordered",
         NEW command \in Ordered!BudgetCommands,
         command \notin ToSet(history),
         command.kind # "reserve"
           => Ordered!Issued(command.payment, "reserve") /\ ~ Ordered!Settled(command.payment),
         Ordered!Apply(command)
  PROVE  MoneyInv'
<1> DEFINE p == command.payment
<1>1. /\ p \in OrderedPayments /\ command.kind \in {"reserve", "consume", "release"}
      /\ command = [payment |-> p, kind |-> command.kind]
      /\ command \in LockCommands
  BY DEF Ordered!BudgetCommands, Ordered!Kinds, LockCommands
<1>2. ToSet(history') = ToSet(history) \cup {command}
  BY <1>1, AppendAddsElement DEF LockInv, RemembersTheLast, Ordered!Apply
<1>3. \A k : Ordered!Issued(p, k) <=> [payment |-> p, kind |-> k] \in ToSet(history)
  BY DEF Ordered!Issued, Ordered!ToSet, ToSet
<1>4. \A q \in OrderedPayments : \A k :
        [payment |-> q, kind |-> k] \in ToSet(history')
          <=> \/ [payment |-> q, kind |-> k] \in ToSet(history)
              \/ q = p /\ k = command.kind
  BY <1>1, <1>2
<1>5. \A q \in OrderedPayments, kind \in {"consume", "release"} :
        [payment |-> q, kind |-> kind] \in ToSet(history')
          => [payment |-> q, kind |-> "reserve"] \in ToSet(history')
  BY <1>1, <1>3, <1>4 DEF MoneyInv
<1>6. /\ IsFiniteSet(ReservedFor(history)) /\ ReservedFor(history) \in SUBSET OrderedPayments
      /\ IsFiniteSet(SpentFor(history)) /\ SpentFor(history) \in SUBSET OrderedPayments
      /\ reservedCents = SumOver(Price, ReservedFor(history))
      /\ consumedCents = SumOver(Price, SpentFor(history))
  BY DEF MoneyInv, ReservedFor, SpentFor
<1>7. Ordered!Book(command)
  BY DEF Ordered!Apply
<1>8. CentsOf(OrderedPayments)[p] = Price[p]
  BY DEF Price
<1>9. CASE command.kind = "reserve"
  <2>1. p \notin ReservedFor(history)
    BY <1>1, <1>9 DEF ReservedFor
  <2>2. [payment |-> p, kind |-> "consume"] \notin ToSet(history)
        /\ [payment |-> p, kind |-> "release"] \notin ToSet(history)
    BY <1>1, <1>9 DEF MoneyInv
  <2>3. ReservedFor(history') = ReservedFor(history) \cup {p}
    BY <1>1, <1>4, <1>9, <2>2 DEF ReservedFor
  <2>4. SpentFor(history') = SpentFor(history)
    BY <1>4, <1>9 DEF SpentFor
  <2>5. reservedCents' = reservedCents + Price[p] /\ consumedCents' = consumedCents
    BY <1>7, <1>8, <1>9 DEF Ordered!Book
  <2> QED
    BY <1>1, <1>5, <1>6, <2>1, <2>3, <2>4, <2>5, PaymentIsAdded DEF MoneyInv
<1>10. CASE command.kind = "consume"
  <2>1. /\ [payment |-> p, kind |-> "reserve"] \in ToSet(history)
        /\ [payment |-> p, kind |-> "consume"] \notin ToSet(history)
        /\ [payment |-> p, kind |-> "release"] \notin ToSet(history)
    BY <1>3, <1>10 DEF Ordered!Settled
  <2>2. p \in ReservedFor(history) /\ p \notin SpentFor(history)
    BY <1>1, <2>1 DEF ReservedFor, SpentFor
  <2>3. ReservedFor(history') = ReservedFor(history) \ {p}
    BY <1>1, <1>4, <1>10 DEF ReservedFor
  <2>4. SpentFor(history') = SpentFor(history) \cup {p}
    BY <1>1, <1>4, <1>10 DEF SpentFor
  <2>5. /\ reservedCents' = Ordered!Lowered(reservedCents, Price[p])
        /\ consumedCents' = consumedCents + Price[p]
    BY <1>7, <1>8, <1>10 DEF Ordered!Book
  <2>6. IsFiniteSet(ReservedFor(history')) /\ reservedCents' = SumOver(Price, ReservedFor(history'))
    BY <1>6, <2>2, <2>3, <2>5, PaymentIsTaken
  <2>7. IsFiniteSet(SpentFor(history')) /\ consumedCents' = SumOver(Price, SpentFor(history'))
    BY <1>1, <1>6, <2>2, <2>4, <2>5, PaymentIsAdded
  <2> QED
    BY <1>5, <2>6, <2>7 DEF MoneyInv
<1>11. CASE command.kind = "release"
  <2>1. /\ [payment |-> p, kind |-> "reserve"] \in ToSet(history)
        /\ [payment |-> p, kind |-> "consume"] \notin ToSet(history)
        /\ [payment |-> p, kind |-> "release"] \notin ToSet(history)
    BY <1>3, <1>11 DEF Ordered!Settled
  <2>2. p \in ReservedFor(history)
    BY <1>1, <2>1 DEF ReservedFor
  <2>3. ReservedFor(history') = ReservedFor(history) \ {p}
    BY <1>1, <1>4, <1>11 DEF ReservedFor
  <2>4. SpentFor(history') = SpentFor(history)
    BY <1>4, <1>11 DEF SpentFor
  <2>5. reservedCents' = Ordered!Lowered(reservedCents, Price[p]) /\ consumedCents' = consumedCents
    BY <1>7, <1>8, <1>11 DEF Ordered!Book
  <2>6. IsFiniteSet(ReservedFor(history')) /\ reservedCents' = SumOver(Price, ReservedFor(history'))
    BY <1>6, <2>2, <2>3, <2>5, PaymentIsTaken
  <2> QED
    BY <1>5, <1>6, <2>4, <2>5, <2>6 DEF MoneyInv
<1> QED
  BY <1>1, <1>9, <1>10, <1>11

LEMMA MoneyStep ==
  LockInv /\ MoneyInv /\ [CloudNext]_cloudVars => MoneyInv'
<1> SUFFICES ASSUME LockInv, MoneyInv, [CloudNext]_cloudVars PROVE MoneyInv'
  OBVIOUS
<1>1. ASSUME object' = object, UNCHANGED lockVars PROVE MoneyInv'
  BY <1>1 DEF MoneyInv, lockVars, ReservedFor, SpentFor
<1>2. CASE InQueues(Next)
  BY <1>1, <1>2 DEF InQueues
<1>3. CASE object = "mixed" /\ object' = object
  BY <1>3 DEF MoneyInv
<1>4. CASE object = "ordered" /\ Ordered!DeliverInOrder /\ object' = object
  <2>1. PICK command \in Ordered!BudgetCommands :
          \/ /\ command \notin Ordered!ToSet(history)
             /\ IF command.kind = "reserve" THEN TRUE
                ELSE Ordered!Issued(command.payment, "reserve") /\ ~ Ordered!Settled(command.payment)
             /\ Ordered!Apply(command)
          \/ Ordered!Repeat(command)
    BY <1>4 DEF Ordered!DeliverInOrder
  <2>2. Ordered!ToSet(history) = ToSet(history)
    BY DEF Ordered!ToSet, ToSet
  <2>3. CASE Ordered!Repeat(command)
    BY <1>1, <1>4, <2>3 DEF Ordered!Repeat, Ordered!budgetVars, Ordered!budgetState, lockVars
  <2>4. CASE ~ Ordered!Repeat(command)
    BY <1>4, <2>1, <2>2, <2>4, OrderedStep
  <2> QED
    BY <2>3, <2>4
<1>5. CASE UNCHANGED cloudVars
  BY <1>1, <1>5 DEF cloudVars
<1> QED
  BY <1>2, <1>3, <1>4, <1>5 DEF CloudNext

LEMMA MoneyInvImplies == MoneyInv => BudgetIsExact
<1> SUFFICES ASSUME MoneyInv, object = "ordered" PROVE Ordered!BudgetIsExact
  BY DEF BudgetIsExact
<1>1. ASSUME NEW S \in SUBSET OrderedPayments, IsFiniteSet(S)
      PROVE  Ordered!AmountOf(S) = SumOver(Price, S)
  <2> DEFINE total[s \in SUBSET S] ==
               IF s = {} THEN 0 ELSE Price[Picked(s)] + total[s \ {Picked(s)}]
  <2>1. Ordered!AmountOf(S) = total[S]
    BY DEF Ordered!AmountOf, Ordered!MapThenSumSet, Ordered!MapThenFoldSet, Picked, Price
  <2>2. \E g : IsSum(Price, S, g)
    BY <1>1, SumsExist
  <2>3. IsSum(Price, S, total)
    BY <2>2 DEF IsSum
  <2> HIDE DEF total
  <2> QED
    BY <1>1, <2>1, <2>3, SumOverIs
<1>2. {p \in OrderedPayments : Ordered!Issued(p, "reserve") /\ ~ Ordered!Settled(p)}
        = ReservedFor(history)
  BY DEF Ordered!Issued, Ordered!Settled, Ordered!ToSet, ToSet, ReservedFor
<1>3. {p \in OrderedPayments : Ordered!Issued(p, "consume")} = SpentFor(history)
  BY DEF Ordered!Issued, Ordered!ToSet, ToSet, SpentFor
<1>4. ReservedFor(history) \in SUBSET OrderedPayments /\ SpentFor(history) \in SUBSET OrderedPayments
  BY DEF ReservedFor, SpentFor
<1> QED
  BY <1>1, <1>2, <1>3, <1>4 DEF Ordered!BudgetIsExact, MoneyInv

\* When the commands of every payment come in their order, however often they
\* are repeated while they are remembered, the budget object holds what is
\* reserved and not settled and has spent what was consumed, once each.
THEOREM BudgetStaysExact == CloudSpec => []BudgetIsExact
<1>1. CloudInit => LockInv /\ MoneyInv
  <2> SUFFICES ASSUME CloudInit PROVE LockInv /\ MoneyInv
    OBVIOUS
  <2>1. /\ history = <<>> /\ processedCommandIds = <<>>
        /\ reservedCents = 0 /\ consumedCents = 0
    BY DEF CloudInit, Mixed!Init
  <2>2. LockInv
    BY LockInit
  <2>3. ToSet(history) = {}
    BY <2>1 DEF ToSet
  <2>4. ReservedFor(history) = {} /\ SpentFor(history) = {}
    BY <2>3 DEF ReservedFor, SpentFor
  <2>5. IsFiniteSet({}) /\ SumOver(Price, {}) = 0
    BY FS_EmptySet, SumOverSteps
  <2> QED
    BY <2>1, <2>2, <2>3, <2>4, <2>5 DEF MoneyInv
<1>2. LockInv /\ MoneyInv /\ [CloudNext]_cloudVars => (LockInv /\ MoneyInv)'
  BY LockStep, MoneyStep
<1> QED
  BY <1>1, <1>2, MoneyInvImplies, PTL DEF CloudSpec
=============================================================================
