---------------------------- MODULE TreasuryProofs ----------------------------
(***************************************************************************)
(* Proofs about the treasury: a reservation has an execution behind it     *)
(* that the chain has settled; as long as nothing is lost or interferes,   *)
(* store and chain agree; and no interval as long as the shortest window   *)
(* sees more than twice the largest cap.                                   *)
(*                                                                         *)
(* The argument for the attempts: at most one call runs, so a transaction  *)
(* that is pending while all is calm is the one the running call waits     *)
(* for.  What it was accepted for when its gas was estimated it is         *)
(* accepted for when it is mined, because time alone can only empty the    *)
(* window.  That no earlier transaction of a reserved identifier can still *)
(* be mined rests on the nonces: what is pending is what was sent last.    *)
(* The argument for the rate stands at its part.                           *)
(***************************************************************************)
EXTENDS MCTreasury, CollectionFacts

Outcomes == {"pending", "succeeded", "reverted"}
Verdicts == {"open", "approved", "denied"}

\* A running transaction of the store.
IsOp(o) ==
    \/ o = NoOp
    \/ /\ o = [f \in DOMAIN o |-> o[f]] /\ {"stage", "id", "tx", "verdict"} \subseteq DOMAIN o
       /\ o.stage \in {"treasury", "wait", "decided"}
       /\ o.id \in Identifiers
       /\ o.verdict \in Verdicts
       /\ o.stage = "decided" => o.verdict # "open"

\* What was sent, and what became of it.
TransactionsInv ==
    /\ receipt \in Seq(Outcomes)
    /\ sentFor \in Seq(Identifiers)
    /\ mempool \in Seq(Nat)
    /\ Len(sentFor) = Len(receipt)
    /\ \A k \in DOMAIN mempool : mempool[k] \in DOMAIN receipt

\* The mempool holds the last transactions, in the order of their nonces.
Mined == Len(receipt) - Len(mempool)

NonceInv ==
    /\ Mined >= 0
    /\ \A k \in DOMAIN mempool : mempool[k] = Mined + k
    /\ \A tx \in DOMAIN receipt : receipt[tx] = "pending" <=> tx > Mined

CallInv ==
    /\ attempt \in [Identifiers -> {"none", "reserved", "policy_denied"}]
    /\ enforced = [i \in Identifiers |-> enforced[i]]
    /\ IsOp(op)
    /\ op.stage = "wait" => op.tx \in DOMAIN receipt /\ sentFor[op.tx] = op.id

\* The last transaction that was sent for an identifier, and it is settled.
IsLast(tx, i) ==
    /\ tx \in DOMAIN receipt /\ sentFor[tx] = i
    /\ \A other \in DOMAIN receipt : sentFor[other] = i => other <= tx
Settled(tx, i) == IsLast(tx, i) /\ receipt[tx] # "pending"

\* A call runs for an identifier that is not reserved; with a treasury it
\* waits for the last transaction of its identifier, and is approved by it.
SettlementInv ==
    /\ op.stage # "none" => attempt[op.id] # "reserved"
    /\ op.stage = "wait" => IsLast(op.tx, op.id)
    /\ mode = "enabled" =>
         /\ op.stage = "decided" /\ op.verdict = "approved" => Settled(op.tx, op.id)
         /\ \A i \in Identifiers : attempt[i] = "reserved" => Settled(enforced[i], i)

ReservationInv == TransactionsInv /\ NonceInv /\ CallInv /\ SettlementInv

-----------------------------------------------------------------------------
\* The window of the contract, for the deployment's agent.
WindowInv ==
    /\ now \in Nat /\ spent \in Nat /\ resetTime \in Nat
    /\ mandate.max \in Nat /\ mandate.duration \in Nat
    /\ feed.price \in Int /\ feed.published \in Nat

SentFor(i) == {tx \in DOMAIN receipt : sentFor[tx] = i}

\* One transaction was sent for the identifier, and it has succeeded.
ExecutedOnce(i) ==
    \E tx \in DOMAIN receipt : receipt[tx] = "succeeded" /\ SentFor(i) = {tx}

\* The call waits for the one transaction that can still be mined, and it will
\* succeed; or it has.
CalmWait ==
    /\ attempt[op.id] = "none"
    /\ SentFor(op.id) = {op.tx}
    /\ \/ mempool = <<op.tx>> /\ receipt[op.tx] = "pending" /\ Accepts(Facilitator, Amount)
       \/ mempool = <<>> /\ receipt[op.tx] = "succeeded"

CalmDecision ==
    /\ attempt[op.id] = "none"
    /\ op.verdict = "approved" => ExecutedOnce(op.id)
    /\ op.verdict = "denied" => SentFor(op.id) = {}

CalmAttempt(i) ==
    /\ attempt[i] = "reserved" => ExecutedOnce(i)
    /\ attempt[i] = "policy_denied" => SentFor(i) = {}
    /\ attempt[i] = "none" =>
         \/ SentFor(i) = {}
         \/ op.stage \in {"wait", "decided"} /\ op.id = i

Agreement ==
    /\ op.stage = "wait" => CalmWait
    /\ op.stage # "wait" => mempool = <<>>
    /\ op.stage = "treasury" => attempt[op.id] = "none"
    /\ op.stage = "decided" => CalmDecision
    /\ \A i \in Identifiers : CalmAttempt(i)

CalmInv == calm /\ mode = "enabled" => Agreement

AgreementInv == ReservationInv /\ WindowInv /\ CalmInv

-----------------------------------------------------------------------------
(***************************************************************************)
(* Sending and mining, whatever the call does around them.                 *)
(***************************************************************************)
\* Sending adds one pending transaction for the call's identifier.
LEMMA SendAddsOne ==
  ASSUME TransactionsInv, NonceInv, op.id \in Identifiers, Send
  PROVE  /\ TransactionsInv' /\ NonceInv'
         /\ DOMAIN receipt' = DOMAIN receipt \cup {Len(receipt) + 1}
         /\ Len(receipt) + 1 \notin DOMAIN receipt
         /\ receipt'[Len(receipt) + 1] = "pending" /\ sentFor'[Len(receipt) + 1] = op.id
         /\ \A tx \in DOMAIN receipt : receipt'[tx] = receipt[tx] /\ sentFor'[tx] = sentFor[tx]
         /\ mempool' = Append(mempool, Len(receipt) + 1)
<1> USE DEF TransactionsInv
<1>1. /\ receipt' = Append(receipt, "pending") /\ sentFor' = Append(sentFor, op.id)
      /\ mempool' = Append(mempool, Len(receipt) + 1)
  BY DEF Send
<1>2. /\ receipt' \in Seq(Outcomes) /\ Len(receipt') = Len(receipt) + 1
      /\ \A k \in 1 .. Len(receipt) : receipt'[k] = receipt[k]
      /\ receipt'[Len(receipt) + 1] = "pending"
  BY <1>1, AppendProperties DEF Outcomes
<1>3. /\ sentFor' \in Seq(Identifiers) /\ Len(sentFor') = Len(receipt) + 1
      /\ \A k \in 1 .. Len(receipt) : sentFor'[k] = sentFor[k]
      /\ sentFor'[Len(receipt) + 1] = op.id
  BY <1>1, AppendProperties
<1>4. /\ mempool' \in Seq(Nat) /\ Len(mempool') = Len(mempool) + 1
      /\ \A k \in 1 .. Len(mempool) : mempool'[k] = mempool[k]
      /\ mempool'[Len(mempool) + 1] = Len(receipt) + 1
  BY <1>1, AppendProperties
<1>5. DOMAIN receipt = 1 .. Len(receipt) /\ DOMAIN receipt' = 1 .. Len(receipt) + 1
  BY <1>2
<1>6. ASSUME NEW k \in DOMAIN mempool' PROVE mempool'[k] \in DOMAIN receipt'
  <2>1. k \in 1 .. Len(mempool) \/ k = Len(mempool) + 1
    BY <1>4
  <2>2. CASE k \in 1 .. Len(mempool)
    <3>1. mempool'[k] = mempool[k] /\ k \in DOMAIN mempool
      BY <2>2, <1>4
    <3>2. mempool[k] \in DOMAIN receipt
      BY <3>1
    <3>3. DOMAIN receipt \subseteq DOMAIN receipt'
      BY <1>2, <1>5
    <3> QED
      BY <3>1, <3>2, <3>3
  <2>3. CASE k = Len(mempool) + 1
    BY <2>3, <1>4, <1>5
  <2> QED
    BY <2>1, <2>2, <2>3
<1>7. TransactionsInv'
  BY <1>2, <1>3, <1>4, <1>6
<1>8. Len(receipt) \in Nat /\ Len(mempool) \in Nat /\ Mined' = Mined
  BY <1>2, <1>4 DEF Mined
<1>9. NonceInv'
  <2>1. ASSUME NEW k \in DOMAIN mempool' PROVE mempool'[k] = Mined + k
    <3>1. k \in 1 .. Len(mempool) \/ k = Len(mempool) + 1
      BY <1>4
    <3>2. CASE k \in 1 .. Len(mempool)
      <4>1. k \in DOMAIN mempool /\ mempool'[k] = mempool[k]
        BY <3>2, <1>4
      <4> QED
        BY <4>1 DEF NonceInv
    <3>3. CASE k = Len(mempool) + 1
      <4>1. mempool'[k] = Len(receipt) + 1
        BY <3>3, <1>4
      <4> QED
        BY <3>3, <4>1, <1>8 DEF Mined
    <3> QED
      BY <3>1, <3>2, <3>3
  <2>2. ASSUME NEW tx \in DOMAIN receipt' PROVE receipt'[tx] = "pending" <=> tx > Mined
    <3>1. tx \in 1 .. Len(receipt) \/ tx = Len(receipt) + 1
      BY <1>5
    <3>2. CASE tx \in 1 .. Len(receipt)
      BY <3>2, <1>2, <1>5 DEF NonceInv
    <3>3. CASE tx = Len(receipt) + 1
      BY <3>3, <1>2, <1>8 DEF Mined
    <3> QED
      BY <3>1, <3>2, <3>3
  <2> QED
    BY <2>1, <2>2, <1>8 DEF NonceInv
<1> QED
  BY <1>1, <1>2, <1>3, <1>5, <1>7, <1>9

\* What has a place in the tail of a queue has the next one in the queue.
LEMMA NextPlace ==
  ASSUME NEW s \in Seq(Nat), NEW n, n = Len(s) - 1, NEW k \in 1 .. n
  PROVE  k + 1 \in DOMAIN s
<1>1. Len(s) \in Nat /\ DOMAIN s = 1 .. Len(s)
  OBVIOUS
<1>2. k + 1 \in 1 .. Len(s)
  BY <1>1
<1> QED
  BY <1>1, <1>2

\* Mining settles the next transaction and no other.
LEMMA MineSettlesHead ==
  ASSUME TransactionsInv, NonceInv, Mine
  PROVE  /\ TransactionsInv' /\ NonceInv'
         /\ mempool # <<>> /\ mempool' = Tail(mempool)
         /\ Head(mempool) \in DOMAIN receipt /\ DOMAIN receipt' = DOMAIN receipt
         /\ receipt'[Head(mempool)] =
              IF Accepts(Facilitator, Amount) THEN "succeeded" ELSE "reverted"
         /\ \A tx \in DOMAIN receipt \ {Head(mempool)} : receipt'[tx] = receipt[tx]
         /\ UNCHANGED <<storeVars, op, sentFor, faults, calm>>
<1> USE DEF TransactionsInv
<1>1. /\ mempool # <<>> /\ mempool' = Tail(mempool)
      /\ UNCHANGED <<storeVars, op, sentFor, faults, calm>>
      /\ receipt' = [receipt EXCEPT ![Head(mempool)] =
                       IF Accepts(Facilitator, Amount) THEN "succeeded" ELSE "reverted"]
  BY DEF Mine
<1>2. Head(mempool) = mempool[1] /\ 1 \in DOMAIN mempool
  BY <1>1
<1>3. Head(mempool) \in DOMAIN receipt
  BY <1>2
<1>4. /\ DOMAIN receipt' = DOMAIN receipt
      /\ receipt'[Head(mempool)] =
           IF Accepts(Facilitator, Amount) THEN "succeeded" ELSE "reverted"
      /\ \A tx \in DOMAIN receipt \ {Head(mempool)} : receipt'[tx] = receipt[tx]
  BY <1>1, <1>3
<1>5. \A tx \in DOMAIN receipt : receipt'[tx] \in Outcomes
  BY <1>4 DEF Outcomes
<1>6. receipt' \in Seq(Outcomes) /\ Len(receipt') = Len(receipt)
  BY <1>1, <1>3, ExceptSeq, <1>5 DEF Outcomes
<1>7. /\ mempool' \in Seq(Nat) /\ Len(mempool') = Len(mempool) - 1
      /\ \A k \in 1 .. Len(mempool') : mempool'[k] = mempool[k + 1]
  BY <1>1, HeadTailProperties
<1>8. ASSUME NEW k \in DOMAIN mempool' PROVE mempool'[k] \in DOMAIN receipt'
  <2>1. k \in 1 .. Len(mempool') /\ Len(mempool) \in Nat
    BY <1>7
  <2>2. k + 1 \in DOMAIN mempool
    <3>1. mempool \in Seq(Nat)
      OBVIOUS
    <3>2. Len(mempool') = Len(mempool) - 1
      BY <1>7
    <3> QED
      BY <2>1, <3>1, <3>2, NextPlace
  <2>3. mempool'[k] = mempool[k + 1]
    BY <2>1, <1>7
  <2> QED
    BY <2>2, <2>3, <1>4
<1>9. /\ Len(mempool) \in Nat /\ Len(receipt) \in Nat /\ DOMAIN receipt = 1 .. Len(receipt)
      /\ 1 <= Len(mempool) /\ Mined' = Mined + 1 /\ Mined \in Int
  BY <1>2, <1>6, <1>7 DEF Mined
<1>10. Head(mempool) = Mined + 1
  BY <1>2, <1>9 DEF NonceInv
<1>11. NonceInv'
  <2>1. ASSUME NEW k \in DOMAIN mempool' PROVE mempool'[k] = Mined' + k
    <3>0. k \in 1 .. Len(mempool') /\ k \in Int
      BY <1>7
    <3>1. k \in Int /\ mempool'[k] = mempool[k + 1]
      BY <3>0, <1>7
    <3>2. k + 1 \in DOMAIN mempool
      <4>1. mempool \in Seq(Nat) /\ Len(mempool') = Len(mempool) - 1
        BY <1>7
      <4> QED
        BY <3>0, <4>1, NextPlace
    <3>3. mempool[k + 1] = Mined + (k + 1)
      BY <3>2 DEF NonceInv
    <3> QED
      BY <3>1, <3>3, <1>9
  <2>2. ASSUME NEW tx \in DOMAIN receipt PROVE receipt'[tx] = "pending" <=> tx > Mined'
    <3>1. tx \in Int /\ (receipt[tx] = "pending" <=> tx > Mined)
      BY <1>9 DEF NonceInv
    <3>2. CASE tx = Mined + 1
      BY <3>2, <1>4, <1>9, <1>10
    <3>3. CASE tx # Mined + 1
      <4>1. receipt'[tx] = receipt[tx]
        BY <3>3, <1>4, <1>10
      <4> QED
        BY <3>1, <3>3, <4>1, <1>9
    <3> QED
      BY <3>2, <3>3
  <2> QED
    BY <2>1, <2>2, <1>4, <1>9 DEF NonceInv
<1> QED
  BY <1>1, <1>3, <1>4, <1>6, <1>7, <1>8, <1>11

\* A settled transaction stays settled, and the last of its identifier as long
\* as nothing else is sent for it.
LEMMA SettledStays ==
  ASSUME DOMAIN receipt \subseteq DOMAIN receipt',
         \A tx \in DOMAIN receipt : sentFor'[tx] = sentFor[tx],
         \A tx \in DOMAIN receipt : receipt[tx] # "pending" => receipt'[tx] # "pending"
  PROVE  \A tx, i :
           /\ Settled(tx, i)
           /\ \A new \in DOMAIN receipt' \ DOMAIN receipt : sentFor'[new] # i
           => Settled(tx, i)'
BY DEF Settled, IsLast

-----------------------------------------------------------------------------
(***************************************************************************)
(* What is reserved is settled.                                            *)
(***************************************************************************)
\* A decision keeps the call's identifier.
LEMMA DecideKeepsCall ==
  ASSUME NEW v \in {"approved", "denied"}, IsOp(op), op # NoOp, Decide(v)
  PROVE  /\ IsOp(op)' /\ op' # NoOp
         /\ op'.stage = "decided" /\ op'.verdict = v /\ op'.id = op.id /\ op'.tx = op.tx
<1>1. /\ op = [f \in DOMAIN op |-> op[f]] /\ {"stage", "id", "tx", "verdict"} \subseteq DOMAIN op
      /\ op.id \in Identifiers
  BY DEF IsOp
<1>2. op' = [op EXCEPT !.stage = "decided", !.verdict = v]
  BY DEF Decide
<1>3. /\ DOMAIN op' = DOMAIN op /\ op' = [f \in DOMAIN op' |-> op'[f]]
      /\ op'.stage = "decided" /\ op'.verdict = v /\ op'.id = op.id /\ op'.tx = op.tx
  BY <1>1, <1>2
<1>4. op' # NoOp
  BY <1>3 DEF NoOp
<1> QED
  BY <1>1, <1>3, <1>4 DEF IsOp, Verdicts

\* A call that begins is for an identifier without an attempt.
LEMMA BeginIsCall ==
  ASSUME NEW i \in Identifiers, Begin(i)
  PROVE  /\ IsOp(op)' /\ op'.stage = "treasury" /\ op'.id = i
         /\ op = NoOp /\ op.stage = "none" /\ attempt[i] = "none"
         /\ UNCHANGED <<storeVars, treasuryVars, mempool, receipt, sentFor, faults, calm>>
BY DEF Begin, IsOp, Verdicts, NoOp, NoTx, chainVars

\* Only a call that sends and steps of the chain change what the chain holds.
ChainRests == UNCHANGED <<mempool, receipt, sentFor>>

LEMMA RestKeepsTransactions ==
  ASSUME TransactionsInv, NonceInv, ChainRests
  PROVE  /\ TransactionsInv' /\ NonceInv'
         /\ DOMAIN receipt' = DOMAIN receipt
         /\ \A tx, i : IsLast(tx, i)' = IsLast(tx, i) /\ Settled(tx, i)' = Settled(tx, i)
BY DEF TransactionsInv, NonceInv, Mined, ChainRests, Settled, IsLast

LEMMA ReservationInit == Init => ReservationInv
<1> SUFFICES ASSUME Init PROVE ReservationInv
  OBVIOUS
<1>1. TransactionsInv /\ NonceInv
  BY DEF Init, TransactionsInv, NonceInv, Mined
<1>2. /\ op = NoOp /\ op.stage = "none" /\ attempt = [i \in Identifiers |-> "none"]
      /\ enforced = [i \in Identifiers |-> enforced[i]]
  BY DEF Init, NoOp
<1>3. CallInv
  BY <1>2 DEF CallInv, IsOp
<1>4. SettlementInv
  BY <1>2 DEF SettlementInv
<1> QED
  BY <1>1, <1>3, <1>4 DEF ReservationInv

LEMMA ReservationStep ==
  ReservationInv /\ [Next]_attemptVars => ReservationInv'
<1> SUFFICES ASSUME ReservationInv, [Next]_attemptVars PROVE ReservationInv'
  OBVIOUS
<1>0. /\ TransactionsInv /\ NonceInv /\ CallInv /\ SettlementInv
      /\ IsOp(op) /\ (op.stage # "none" => op # NoOp)
      /\ (op.stage # "none" => op.id \in Identifiers)
  BY DEF ReservationInv, CallInv, IsOp, NoOp
<1> USE DEF storeVars
<1>1. ASSUME NEW i \in Identifiers, Begin(i) PROVE ReservationInv'
  <2>1. /\ IsOp(op)' /\ op'.stage = "treasury" /\ op'.id = i /\ attempt[i] = "none"
        /\ ChainRests /\ UNCHANGED storeVars
    BY <1>1, BeginIsCall DEF ChainRests
  <2>2. /\ TransactionsInv' /\ NonceInv'
        /\ \A tx, j : Settled(tx, j)' = Settled(tx, j)
    BY <1>0, <2>1, RestKeepsTransactions
  <2>3. CallInv'
    BY <1>0, <2>1 DEF CallInv
  <2>4. SettlementInv'
    BY <1>0, <2>1, <2>2 DEF SettlementInv
  <2> QED
    BY <2>2, <2>3, <2>4 DEF ReservationInv
<1>2. ASSUME NEW v \in {"approved", "denied"}, op.stage # "none", Decide(v), ChainRests,
             UNCHANGED storeVars,
             v = "approved" /\ mode = "enabled" => Settled(op.tx, op.id)
      PROVE ReservationInv'
  <2>1. /\ IsOp(op)' /\ op'.stage = "decided" /\ op'.verdict = v
        /\ op'.id = op.id /\ op'.tx = op.tx
    BY <1>0, <1>2, DecideKeepsCall
  <2>2. /\ TransactionsInv' /\ NonceInv'
        /\ \A tx, j : Settled(tx, j)' = Settled(tx, j)
    BY <1>0, <1>2, RestKeepsTransactions
  <2>3. CallInv'
    BY <1>0, <1>2, <2>1 DEF CallInv
  <2>4. SettlementInv'
    BY <1>0, <1>2, <2>1, <2>2 DEF SettlementInv
  <2> QED
    BY <2>2, <2>3, <2>4 DEF ReservationInv
<1>3. CASE SkipTreasury
  <2>1. /\ op.stage # "none" /\ mode # "enabled" /\ ChainRests /\ UNCHANGED storeVars
        /\ Decide("denied") \/ Decide("approved")
    BY <1>3 DEF SkipTreasury, chainVars, ChainRests
  <2> QED
    BY <1>2, <2>1
<1>4. ASSUME Send, op.stage = "treasury", UNCHANGED storeVars, IsOp(op)', op'.id = op.id,
             op'.stage = "decided" => op'.verdict # "approved",
             op'.stage = "wait" => op'.tx = Len(receipt) + 1
      PROVE  ReservationInv'
  <2>1. op.id \in Identifiers /\ attempt[op.id] # "reserved"
    BY <1>0, <1>4 DEF SettlementInv
  <2>2. /\ TransactionsInv' /\ NonceInv'
        /\ DOMAIN receipt' = DOMAIN receipt \cup {Len(receipt) + 1}
        /\ Len(receipt) + 1 \notin DOMAIN receipt
        /\ sentFor'[Len(receipt) + 1] = op.id
        /\ \A tx \in DOMAIN receipt : receipt'[tx] = receipt[tx] /\ sentFor'[tx] = sentFor[tx]
    BY <1>0, <1>4, <2>1, SendAddsOne
  <2>3. CallInv'
    BY <1>0, <1>4, <2>2 DEF CallInv
  <2>4. \A tx, j : Settled(tx, j) /\ j # op.id => Settled(tx, j)'
    BY <2>2, SettledStays
  <2>5. PICK tx : tx = Len(receipt) + 1
    OBVIOUS
  <2>6. IsLast(tx, op.id)'
    <3>1. \A other \in DOMAIN receipt' : other <= tx
      BY <1>0, <2>2, <2>5 DEF TransactionsInv
    <3> QED
      BY <1>4, <2>2, <2>5, <3>1 DEF IsLast
  <2>7. op'.stage = "wait" => IsLast(op.tx, op.id)'
    BY <1>4, <2>5, <2>6 DEF IsLast
  <2>8. SettlementInv'
    BY <1>0, <1>4, <2>1, <2>4, <2>7 DEF SettlementInv
  <2> QED
    BY <2>2, <2>3, <2>8 DEF ReservationInv
<1>5. CASE Submit
  <2>1. CASE Accepts(Facilitator, Amount)
    <3>1. /\ Send /\ op.stage = "treasury" /\ UNCHANGED storeVars
          /\ op' = [stage |-> "wait", id |-> op.id, tx |-> Len(receipt) + 1, verdict |-> "open"]
      BY <1>5, <2>1 DEF Submit
    <3>2. op'.stage = "wait" /\ op'.id = op.id /\ op'.tx = Len(receipt) + 1 /\ IsOp(op)'
      BY <3>1, <1>0 DEF IsOp, Verdicts
    <3> QED
      BY <3>1, <3>2, <1>4
  <2>2. CASE ~ Accepts(Facilitator, Amount)
    <3>1. /\ op.stage # "none" /\ Decide("denied") /\ ChainRests /\ UNCHANGED storeVars
      BY <1>5, <2>2 DEF Submit, chainVars, ChainRests
    <3> QED
      BY <3>1, <1>2
  <2> QED
    BY <2>1, <2>2
<1>6. CASE SubmitFails
  <2>1. op.stage = "treasury" /\ Decide("denied") /\ UNCHANGED storeVars
    BY <1>6 DEF SubmitFails
  <2>2. IsOp(op)' /\ op'.stage = "decided" /\ op'.verdict = "denied" /\ op'.id = op.id
    BY <2>1, <1>0, DecideKeepsCall
  <2>3. CASE Send
    BY <1>4, <2>1, <2>2, <2>3
  <2>4. CASE UNCHANGED chainVars
    BY <1>2, <2>1, <2>4 DEF chainVars, ChainRests
  <2> QED
    BY <1>6, <2>3, <2>4 DEF SubmitFails
<1>7. CASE ReceiveReceipt
  <2>1. /\ op.stage = "wait" /\ receipt[op.tx] # "pending" /\ Decide("approved")
        /\ ChainRests /\ UNCHANGED storeVars
    BY <1>7 DEF ReceiveReceipt, chainVars, ChainRests
  <2>2. Settled(op.tx, op.id)
    BY <1>0, <2>1 DEF SettlementInv, Settled
  <2> QED
    BY <1>2, <2>1, <2>2
<1>8. CASE WaitTimesOut
  BY <1>8, <1>2 DEF WaitTimesOut, chainVars, ChainRests
<1>9. CASE Commit
  <2>1. /\ op.stage = "decided" /\ op' = NoOp /\ op'.stage = "none" /\ ChainRests /\ mode' = mode
        /\ attempt' = [attempt EXCEPT ![op.id] =
                         IF op.verdict = "approved" THEN "reserved" ELSE "policy_denied"]
        /\ enforced' = [enforced EXCEPT ![op.id] =
                         IF op.verdict = "approved" THEN op.tx ELSE NoTx]
    BY <1>9 DEF Commit, chainVars, ChainRests, NoOp
  <2>2. TransactionsInv' /\ NonceInv' /\ \A tx, j : Settled(tx, j)' = Settled(tx, j)
    BY <1>0, <2>1, RestKeepsTransactions
  <2>3. CallInv'
    BY <1>0, <2>1 DEF CallInv, IsOp
  <2>4. ASSUME mode' = "enabled", NEW i \in Identifiers, attempt'[i] = "reserved"
        PROVE  Settled(enforced[i], i)'
    <3>1. CASE i = op.id
      <4>1. op.verdict = "approved" /\ enforced'[i] = op.tx
        BY <3>1, <1>0, <2>1, <2>4 DEF CallInv
      <4>2. PICK tx : tx = op.tx
        OBVIOUS
      <4>3. Settled(tx, i)
        BY <3>1, <4>1, <4>2, <1>0, <2>1, <2>4 DEF SettlementInv
      <4>4. Settled(tx, i)'
        BY <4>3, <2>2
      <4> QED
        BY <4>1, <4>2, <4>4 DEF Settled, IsLast
    <3>2. CASE i # op.id
      <4>1. attempt[i] = "reserved" /\ enforced'[i] = enforced[i]
        BY <3>2, <1>0, <2>1, <2>4 DEF CallInv
      <4> QED
        BY <4>1, <1>0, <2>1, <2>2, <2>4 DEF SettlementInv
    <3> QED
      BY <3>1, <3>2
  <2>5. SettlementInv'
    BY <2>1, <2>4 DEF SettlementInv
  <2> QED
    BY <2>2, <2>3, <2>5 DEF ReservationInv
<1>10. ASSUME ChainRests, op' = NoOp, UNCHANGED storeVars
       PROVE  ReservationInv'
  <2>1. op'.stage = "none" /\ IsOp(op)'
    BY <1>10 DEF NoOp, IsOp
  <2>2. TransactionsInv' /\ NonceInv' /\ \A tx, j : Settled(tx, j)' = Settled(tx, j)
    BY <1>0, <1>10, RestKeepsTransactions
  <2>3. CallInv'
    BY <1>0, <1>10, <2>1 DEF CallInv
  <2>4. SettlementInv'
    BY <1>0, <1>10, <2>1, <2>2 DEF SettlementInv
  <2> QED
    BY <2>2, <2>3, <2>4 DEF ReservationInv
<1>11. CASE Lost
  BY <1>11, <1>10 DEF Lost, chainVars, ChainRests
<1>12. CASE Mine
  <2>1. /\ TransactionsInv' /\ NonceInv' /\ Head(mempool) \in DOMAIN receipt
        /\ DOMAIN receipt' = DOMAIN receipt
        /\ receipt'[Head(mempool)] \in {"succeeded", "reverted"}
        /\ \A tx \in DOMAIN receipt \ {Head(mempool)} : receipt'[tx] = receipt[tx]
        /\ UNCHANGED <<storeVars, op, sentFor>>
    BY <1>0, <1>12, MineSettlesHead
  <2>2. \A tx \in DOMAIN receipt : receipt[tx] # "pending" => receipt'[tx] # "pending"
    BY <2>1
  <2>3. \A tx, j : Settled(tx, j) => Settled(tx, j)'
    BY <2>1, <2>2, SettledStays
  <2>4. \A tx, j : IsLast(tx, j)' = IsLast(tx, j)
    BY <2>1 DEF IsLast
  <2>5. CallInv'
    BY <1>0, <2>1 DEF CallInv
  <2>6. SettlementInv'
    BY <1>0, <2>1, <2>3, <2>4 DEF SettlementInv
  <2> QED
    BY <2>1, <2>5, <2>6 DEF ReservationInv
<1>13. ASSUME ChainRests, UNCHANGED <<storeVars, op>>
       PROVE  ReservationInv'
  <2>1. /\ TransactionsInv' /\ NonceInv'
        /\ \A tx, j : IsLast(tx, j)' = IsLast(tx, j) /\ Settled(tx, j)' = Settled(tx, j)
    BY <1>0, <1>13, RestKeepsTransactions
  <2>2. CallInv' /\ SettlementInv'
    BY <1>0, <1>13, <2>1 DEF CallInv, SettlementInv, ChainRests
  <2> QED
    BY <2>1, <2>2 DEF ReservationInv
<1>14. CASE TimePasses
  BY <1>13, <1>14 DEF TimePasses, UnchangedByEnvironment, ChainRests
<1>15. CASE Interference
  BY <1>13, <1>15 DEF Interference, UnchangedByEnvironment, ChainRests
<1>16. CASE UNCHANGED attemptVars
  BY <1>13, <1>16 DEF attemptVars, chainVars, ChainRests
<1> QED
  BY <1>1, <1>3, <1>5, <1>6, <1>7, <1>8, <1>9, <1>11, <1>12, <1>14, <1>15, <1>16 DEF Next

\* In every deployment with an enabled treasury, an attempt is reserved only
\* with a transaction of its own that the chain has settled, the one that its
\* treasury_enforced event names, and with no other one left that the chain
\* could still execute (src/src/lib/modules/mandates.ts, runAttempt;
\* treasury.ts, enforceTreasuryExecution), whatever fails and whoever
\* interferes.
THEOREM ReservationsAreSettled == Spec => []ReservedIsSettled
<1>1. Init => ReservationInv
  BY ReservationInit
<1>2. ReservationInv /\ [Next]_attemptVars => ReservationInv'
  BY ReservationStep
<1>3. ReservationInv => ReservedIsSettled
  <2> SUFFICES ASSUME ReservationInv, mode = "enabled", NEW i \in Identifiers,
                      attempt[i] = "reserved"
               PROVE  /\ enforced[i] \in DOMAIN receipt /\ sentFor[enforced[i]] = i
                      /\ \A tx \in DOMAIN receipt : sentFor[tx] = i => receipt[tx] # "pending"
    BY DEF ReservedIsSettled
  <2>1. Settled(enforced[i], i) /\ TransactionsInv /\ NonceInv
    BY DEF ReservationInv, SettlementInv
  <2>2. DOMAIN receipt \subseteq Int /\ Mined \in Int
    BY <2>1 DEF TransactionsInv, Mined
  <2>3. enforced[i] <= Mined
    BY <2>1, <2>2 DEF Settled, IsLast, NonceInv
  <2>4. ASSUME NEW tx \in DOMAIN receipt, sentFor[tx] = i PROVE receipt[tx] # "pending"
    <3>1. tx <= enforced[i] /\ enforced[i] \in DOMAIN receipt
      BY <2>1, <2>4 DEF Settled, IsLast
    <3> QED
      BY <3>1, <2>1, <2>2, <2>3 DEF NonceInv
  <2> QED
    BY <2>1, <2>4 DEF Settled, IsLast
<1> QED
  BY <1>1, <1>2, <1>3, PTL DEF Spec

-----------------------------------------------------------------------------
(***************************************************************************)
(* The window of the contract.                                             *)
(***************************************************************************)
\* The configured limits are among those that governance may choose.
LEMMA LimitsAreConfigurable ==
  /\ Max(Caps) \in Nat
  /\ Min(Durations) \in Nat
<1>1. Max(Caps) \in Caps
  BY AmountAssumption DEF Max
<1>2. Min(Durations) \in Durations
  BY AmountAssumption DEF Min
<1> QED
  BY <1>1, <1>2, AmountAssumption, TreasuryAssumption

\* What a payment of the agent costs is a number of units.
LEMMA ValueIsNatural ==
  ASSUME NEW price \in Int, price > 0
  PROVE  UsdValue(Amount, price) \in Nat
<1>1. Amount \in Nat /\ PriceUnit \in Nat /\ PriceScale \in Nat \ {0} /\ price \in Nat
  BY AmountAssumption, TreasuryAssumption
<1>2. Amount * price \in Nat
  BY <1>1
<1>3. Amount * price * PriceUnit \in Nat
  BY <1>1, <1>2
<1> DEFINE n == Amount * price * PriceUnit
<1>4. n \in Nat
  BY <1>3
<1> HIDE DEF n
<1>5. n \div PriceScale \in Nat
  BY <1>1, <1>4
<1> QED
  BY <1>5 DEF UsdValue, n

\* Time alone never turns an accepted payment into a refused one, as long as
\* the price stays usable.
LEMMA TimeKeepsAcceptance ==
  ASSUME WindowInv, Accepts(Facilitator, Amount), Tick, PriceIsUsable'
  PROVE  Accepts(Facilitator, Amount)'
<1>1. /\ now' = now + 1
      /\ UNCHANGED <<mandate, killed, approved, spent, resetTime, feed>>
  BY DEF Tick, configVars, windowVars
<1>2. UsdValue(Amount, feed.price) \in Nat
  BY ValueIsNatural DEF WindowInv, Accepts, PriceIsUsable
<1> DEFINE usd == UsdValue(Amount, feed.price)
<1>3. usd \in Nat /\ UsdValue(Amount, feed.price)' = usd
  BY <1>1, <1>2 DEF UsdValue
<1> HIDE DEF usd
<1>4. SpentBefore + usd <= mandate.max
  BY DEF Accepts, usd
<1>5. SpentBefore' <= SpentBefore /\ SpentBefore \in Nat /\ SpentBefore' \in Nat
  BY <1>1 DEF SpentBefore, WindowIsOver, WindowInv
<1>6. SpentBefore' + usd <= mandate'.max
  BY <1>1, <1>3, <1>4, <1>5 DEF WindowInv
<1> QED
  BY <1>1, <1>3, <1>6 DEF Accepts

LEMMA WindowInit == Init => WindowInv
<1> SUFFICES ASSUME Init PROVE WindowInv
  OBVIOUS
<1>1. /\ now = 1 /\ spent = 0 /\ resetTime = 1 + Min(Durations)
      /\ mandate = [max |-> Max(Caps), duration |-> Min(Durations), active |-> TRUE]
      /\ feed.price \in Prices /\ feed.published = 1
  BY DEF Init
<1> DEFINE cap == Max(Caps)
           duration == Min(Durations)
<1>2. mandate.max = cap /\ mandate.duration = duration /\ resetTime = 1 + duration
  BY <1>1
<1>3. cap \in Nat /\ duration \in Nat /\ feed.price \in Int
  BY <1>1, LimitsAreConfigurable, AmountAssumption
<1> HIDE DEF cap, duration
<1> QED
  BY <1>1, <1>2, <1>3 DEF WindowInv

\* Governance changes limits within their types and leaves the rest alone.
LEMMA GovernKeepsWindow ==
  ASSUME WindowInv, Govern
  PROVE  WindowInv'
<1>1. ASSUME NEW caller, NEW max \in Caps, NEW duration \in Durations, NEW active,
             SetMandate(caller, max, duration, active)
      PROVE  WindowInv'
  <2>1. max \in Nat /\ duration \in Nat
    BY AmountAssumption, TreasuryAssumption
  <2>2. /\ mandate' = [max |-> max, duration |-> duration, active |-> active]
        /\ resetTime' = now + duration /\ UNCHANGED <<now, spent, feed>>
    BY <1>1 DEF SetMandate
  <2>3. mandate'.max = max /\ mandate'.duration = duration
    BY <2>2
  <2> QED
    BY <2>1, <2>2, <2>3 DEF WindowInv
<1>2. ASSUME NEW caller, NEW facilitator, NEW isApproved,
             SetApprovedFacilitator(caller, facilitator, isApproved)
      PROVE  WindowInv'
  BY <1>2 DEF SetApprovedFacilitator, WindowInv, windowVars
<1>3. ASSUME NEW caller, NEW enabled, SetKillSwitch(caller, enabled)
      PROVE  WindowInv'
  BY <1>3 DEF SetKillSwitch, WindowInv, windowVars
<1>4. ASSUME NEW caller, NEW newOwner, TransferGovernance(caller, newOwner)
      PROVE  WindowInv'
  BY <1>4 DEF TransferGovernance, WindowInv, windowVars
<1> QED
  BY <1>1, <1>2, <1>3, <1>4 DEF Govern

LEMMA WindowStep ==
  WindowInv /\ [Next]_attemptVars => WindowInv'
<1> SUFFICES ASSUME WindowInv, [Next]_attemptVars PROVE WindowInv'
  OBVIOUS
<1>1. ASSUME UNCHANGED treasuryVars PROVE WindowInv'
  BY <1>1 DEF treasuryVars, configVars, windowVars, WindowInv
<1>2. ASSUME Accepts(Facilitator, Amount), Spend(Amount) PROVE WindowInv'
  <2>1. UsdValue(Amount, feed.price) \in Nat
    BY <1>2, ValueIsNatural DEF WindowInv, Accepts, PriceIsUsable
  <2>2. /\ spent' = SpentBefore + UsdValue(Amount, feed.price)
        /\ resetTime' = IF WindowIsOver THEN now + mandate.duration ELSE resetTime
        /\ UNCHANGED <<now, mandate, feed>>
    BY <1>2 DEF Spend, NextResetTime, configVars
  <2>3. SpentBefore \in Nat
    BY DEF SpentBefore, WindowInv
  <2>4. spent' \in Nat
    BY <2>1, <2>2, <2>3
  <2>5. resetTime' \in Nat
    BY <2>2 DEF WindowInv
  <2> QED
    BY <2>2, <2>4, <2>5 DEF WindowInv
<1>3. CASE Mine
  BY <1>1, <1>2, <1>3 DEF Mine
<1>4. CASE TimePasses
  BY <1>4 DEF TimePasses, Tick, configVars, windowVars, WindowInv
<1>5. CASE Interference
  <2>1. ASSUME NEW price \in Prices, PublishPrice(price) PROVE WindowInv'
    <3>1. price \in Int /\ feed'.price = price /\ feed'.published = now
      BY <2>1, AmountAssumption DEF PublishPrice
    <3> QED
      BY <2>1, <3>1 DEF PublishPrice, WindowInv, configVars, windowVars
  <2> QED
    BY <1>5, <2>1, GovernKeepsWindow DEF Interference
<1>6. ASSUME NEW i \in Identifiers, Begin(i) PROVE WindowInv'
  BY <1>1, <1>6, BeginIsCall
<1>7. CASE SkipTreasury \/ ReceiveReceipt \/ WaitTimesOut \/ Commit \/ Lost
  BY <1>1, <1>7 DEF SkipTreasury, ReceiveReceipt, WaitTimesOut, Commit, Lost, chainVars
<1>8. CASE Submit \/ SubmitFails
  BY <1>1, <1>8 DEF Submit, SubmitFails, Send, chainVars
<1>9. CASE UNCHANGED attemptVars
  BY <1>1, <1>9 DEF attemptVars, chainVars
<1> QED
  BY <1>3, <1>4, <1>5, <1>6, <1>7, <1>8, <1>9 DEF Next

-----------------------------------------------------------------------------
(***************************************************************************)
(* While all is calm, store and chain agree.                               *)
(***************************************************************************)
\* The state in which a step of the calm system starts.
CalmStart == ReservationInv /\ WindowInv /\ calm /\ mode = "enabled" /\ Agreement

LEMMA CalmStartFacts ==
  ASSUME CalmStart
  PROVE  /\ TransactionsInv /\ NonceInv /\ CallInv /\ IsOp(op)
         /\ op.stage \in {"none", "treasury", "wait", "decided"}
         /\ (op.stage # "none" => op # NoOp /\ op.id \in Identifiers)
         /\ (op.stage = "decided" => op.verdict \in {"approved", "denied"})
         /\ \A i \in Identifiers : attempt[i] \in {"none", "reserved", "policy_denied"}
BY DEF CalmStart, ReservationInv, CallInv, IsOp, NoOp, Verdicts

\* What a call does while the chain rests leaves the chain's side as it is.
LEMMA RestKeepsChainSide ==
  ASSUME ChainRests
  PROVE  /\ \A i : SentFor(i)' = SentFor(i)
         /\ \A i : ExecutedOnce(i)' = ExecutedOnce(i)
BY DEF ChainRests, SentFor, ExecutedOnce

LEMMA CalmBegin ==
  ASSUME CalmStart, NEW i \in Identifiers, Begin(i)
  PROVE  Agreement'
<1>1. /\ op'.stage = "treasury" /\ op'.id = i /\ op.stage = "none" /\ attempt[i] = "none"
      /\ ChainRests /\ attempt' = attempt
  BY BeginIsCall DEF ChainRests, storeVars
<1>2. Agreement
  BY DEF CalmStart
<1>3. mempool' = <<>>
  BY <1>1, <1>2 DEF Agreement, ChainRests
<1>4. ASSUME NEW j \in Identifiers PROVE CalmAttempt(j)'
  <2>1. CalmAttempt(j)
    BY <1>2 DEF Agreement
  <2> QED
    BY <1>1, <2>1, RestKeepsChainSide DEF CalmAttempt
<1> QED
  BY <1>1, <1>3, <1>4 DEF Agreement

\* A call that decides without the chain denies what was never sent.
LEMMA CalmDenial ==
  ASSUME CalmStart, op.stage = "treasury", Decide("denied"), ChainRests, attempt' = attempt
  PROVE  Agreement'
<1>1. Agreement /\ op.id \in Identifiers /\ op # NoOp /\ IsOp(op)
  BY CalmStartFacts DEF CalmStart
<1>2. op'.stage = "decided" /\ op'.verdict = "denied" /\ op'.id = op.id
  BY <1>1, DecideKeepsCall
<1>3. mempool' = <<>>
  BY <1>1 DEF Agreement, ChainRests
<1>4. attempt[op.id] = "none" /\ SentFor(op.id) = {}
  BY <1>1 DEF Agreement, CalmAttempt
<1>5. CalmDecision'
  BY <1>2, <1>4, RestKeepsChainSide DEF CalmDecision
<1>6. ASSUME NEW j \in Identifiers PROVE CalmAttempt(j)'
  <2>1. CalmAttempt(j)
    BY <1>1 DEF Agreement
  <2> QED
    BY <1>2, <2>1, RestKeepsChainSide DEF CalmAttempt
<1> QED
  BY <1>2, <1>3, <1>5, <1>6 DEF Agreement

\* A call that sends waits for what it has sent.
LEMMA CalmSend ==
  ASSUME CalmStart, op.stage = "treasury", Send, Accepts(Facilitator, Amount),
         op' = [stage |-> "wait", id |-> op.id, tx |-> Len(receipt) + 1, verdict |-> "open"],
         UNCHANGED attempt
  PROVE  Agreement'
<1>1. Agreement /\ op.id \in Identifiers /\ TransactionsInv /\ NonceInv
  BY CalmStartFacts DEF CalmStart
<1>2. op'.stage = "wait" /\ op'.id = op.id /\ op'.tx = Len(receipt) + 1
  OBVIOUS
<1>3. /\ DOMAIN receipt' = DOMAIN receipt \cup {Len(receipt) + 1}
      /\ Len(receipt) + 1 \notin DOMAIN receipt
      /\ receipt'[Len(receipt) + 1] = "pending" /\ sentFor'[Len(receipt) + 1] = op.id
      /\ \A tx \in DOMAIN receipt : receipt'[tx] = receipt[tx] /\ sentFor'[tx] = sentFor[tx]
      /\ mempool' = Append(mempool, Len(receipt) + 1)
  BY <1>1, SendAddsOne
<1>4. attempt[op.id] = "none" /\ SentFor(op.id) = {} /\ mempool = <<>>
  BY <1>1 DEF Agreement, CalmAttempt
<1>5. mempool' = <<op'.tx>>
  BY <1>2, <1>3, <1>4
<1>6. SentFor(op.id)' = {Len(receipt) + 1}
  BY <1>3, <1>4 DEF SentFor
<1>7. Accepts(Facilitator, Amount)'
  BY DEF Send, treasuryVars, configVars, windowVars, Accepts, PriceIsUsable, SpentBefore,
         WindowIsOver
<1>8. CalmWait'
  BY <1>2, <1>3, <1>4, <1>5, <1>6, <1>7 DEF CalmWait
<1>9. ASSUME NEW j \in Identifiers PROVE CalmAttempt(j)'
  <2>1. CalmAttempt(j)
    BY <1>1 DEF Agreement
  <2>2. CASE j = op.id
    BY <2>2, <1>2, <1>4 DEF CalmAttempt
  <2>3. CASE j # op.id
    <3>1. SentFor(j)' = SentFor(j)
      BY <2>3, <1>3 DEF SentFor
    <3>2. ExecutedOnce(j) => ExecutedOnce(j)'
      BY <3>1, <1>3 DEF ExecutedOnce
    <3> QED
      BY <2>1, <2>3, <3>1, <3>2, <1>2 DEF CalmAttempt
  <2> QED
    BY <2>2, <2>3
<1> QED
  BY <1>2, <1>8, <1>9 DEF Agreement

\* A receipt approves an execution that happened.
LEMMA CalmReceipt ==
  ASSUME CalmStart, ReceiveReceipt
  PROVE  Agreement'
<1>1. Agreement /\ op.id \in Identifiers /\ op # NoOp /\ IsOp(op) /\ CallInv
  BY CalmStartFacts DEF CalmStart, ReceiveReceipt
<1>2. /\ op.stage = "wait" /\ receipt[op.tx] # "pending" /\ Decide("approved")
      /\ ChainRests /\ attempt' = attempt
  BY DEF storeVars, ReceiveReceipt, chainVars, ChainRests
<1>3. op'.stage = "decided" /\ op'.verdict = "approved" /\ op'.id = op.id
  BY <1>1, <1>2, DecideKeepsCall
<1>4. CalmWait /\ op.tx \in DOMAIN receipt
  BY <1>1, <1>2 DEF Agreement, CallInv
<1>5. /\ attempt[op.id] = "none" /\ SentFor(op.id) = {op.tx}
      /\ mempool = <<>> /\ receipt[op.tx] = "succeeded"
  BY <1>2, <1>4 DEF CalmWait
<1>6. ExecutedOnce(op.id)
  BY <1>4, <1>5 DEF ExecutedOnce
<1>7. CalmDecision' /\ mempool' = <<>>
  BY <1>2, <1>3, <1>5, <1>6, RestKeepsChainSide DEF CalmDecision, ChainRests
<1>8. ASSUME NEW j \in Identifiers PROVE CalmAttempt(j)'
  <2>1. CalmAttempt(j)
    BY <1>1 DEF Agreement
  <2> QED
    BY <1>2, <1>3, <2>1, RestKeepsChainSide DEF CalmAttempt
<1> QED
  BY <1>3, <1>7, <1>8 DEF Agreement

LEMMA CalmCommit ==
  ASSUME CalmStart, Commit
  PROVE  Agreement'
<1>1. /\ Agreement /\ op.id \in Identifiers /\ op.verdict \in {"approved", "denied"} /\ CallInv
  BY CalmStartFacts DEF CalmStart, Commit
<1>2. /\ op.stage = "decided" /\ op'.stage = "none" /\ ChainRests
      /\ attempt' = [attempt EXCEPT ![op.id] =
                       IF op.verdict = "approved" THEN "reserved" ELSE "policy_denied"]
  BY DEF Commit, chainVars, ChainRests, NoOp
<1>3. CalmDecision /\ mempool' = <<>>
  BY <1>1, <1>2 DEF Agreement, ChainRests
<1>4. ASSUME NEW j \in Identifiers PROVE CalmAttempt(j)'
  <2>1. CalmAttempt(j)
    BY <1>1 DEF Agreement
  <2>2. CASE j = op.id
    <3>1. attempt'[j] = IF op.verdict = "approved" THEN "reserved" ELSE "policy_denied"
      BY <2>2, <1>1, <1>2 DEF CallInv
    <3> QED
      BY <2>2, <3>1, <1>1, <1>2, <1>3, RestKeepsChainSide DEF CalmAttempt, CalmDecision
  <2>3. CASE j # op.id
    <3>1. attempt'[j] = attempt[j]
      BY <2>3, <1>1, <1>2 DEF CallInv
    <3> QED
      BY <2>1, <2>3, <3>1, <1>2, RestKeepsChainSide DEF CalmAttempt
  <2> QED
    BY <2>2, <2>3
<1> QED
  BY <1>2, <1>3, <1>4 DEF Agreement

\* What is mined is what the call waits for, and it succeeds.
LEMMA CalmMine ==
  ASSUME CalmStart, Mine
  PROVE  Agreement'
<1>1. Agreement /\ TransactionsInv /\ NonceInv
  BY CalmStartFacts DEF CalmStart
<1>2. /\ mempool # <<>> /\ mempool' = Tail(mempool)
      /\ DOMAIN receipt' = DOMAIN receipt /\ Head(mempool) \in DOMAIN receipt
      /\ receipt'[Head(mempool)] =
           IF Accepts(Facilitator, Amount) THEN "succeeded" ELSE "reverted"
      /\ \A tx \in DOMAIN receipt \ {Head(mempool)} : receipt'[tx] = receipt[tx]
      /\ UNCHANGED <<attempt, op, sentFor>>
  BY <1>1, MineSettlesHead DEF storeVars
<1>3. op.stage = "wait" /\ CalmWait
  BY <1>1, <1>2 DEF Agreement
<1>4. /\ mempool = <<op.tx>> /\ receipt[op.tx] = "pending" /\ Accepts(Facilitator, Amount)
      /\ attempt[op.id] = "none" /\ SentFor(op.id) = {op.tx}
  BY <1>2, <1>3 DEF CalmWait
<1>5. Head(mempool) = op.tx /\ mempool' = <<>>
  BY <1>2, <1>4
<1>6. receipt'[op.tx] = "succeeded"
  BY <1>2, <1>4, <1>5
<1>7. \A j : SentFor(j)' = SentFor(j)
  BY <1>2 DEF SentFor
<1>8. CalmWait'
  BY <1>2, <1>4, <1>5, <1>6, <1>7 DEF CalmWait
<1>9. ASSUME NEW j \in Identifiers PROVE CalmAttempt(j)'
  <2>1. CalmAttempt(j)
    BY <1>1 DEF Agreement
  <2>2. ExecutedOnce(j) => ExecutedOnce(j)'
    <3>1. SUFFICES ASSUME NEW tx \in DOMAIN receipt, receipt[tx] = "succeeded",
                          SentFor(j) = {tx}
                   PROVE  ExecutedOnce(j)'
      BY DEF ExecutedOnce
    <3>2. tx # op.tx
      BY <3>1, <1>4
    <3>3. receipt'[tx] = "succeeded" /\ tx \in DOMAIN receipt'
      BY <3>1, <3>2, <1>2, <1>5
    <3> QED
      BY <3>1, <3>3, <1>7 DEF ExecutedOnce
  <2> QED
    BY <2>1, <2>2, <1>2, <1>7 DEF CalmAttempt
<1> QED
  BY <1>2, <1>3, <1>8, <1>9 DEF Agreement

LEMMA CalmTime ==
  ASSUME CalmStart, TimePasses, calm'
  PROVE  Agreement'
<1>1. /\ Agreement /\ Tick /\ PriceIsUsable' /\ ChainRests /\ UNCHANGED <<attempt, op>>
  BY DEF storeVars, CalmStart, TimePasses, UnchangedByEnvironment, ChainRests
<1>2. Accepts(Facilitator, Amount) => Accepts(Facilitator, Amount)'
  BY <1>1, TimeKeepsAcceptance DEF CalmStart
<1>3. op.stage = "wait" => CalmWait'
  <2>1. op.stage = "wait" => CalmWait
    BY <1>1 DEF Agreement
  <2> QED
    BY <1>1, <1>2, <2>1, RestKeepsChainSide DEF CalmWait, ChainRests
<1>4. op.stage = "decided" => CalmDecision'
  BY <1>1, RestKeepsChainSide DEF Agreement, CalmDecision
<1>5. \A j \in Identifiers : CalmAttempt(j)'
  BY <1>1, RestKeepsChainSide DEF Agreement, CalmAttempt
<1> QED
  BY <1>1, <1>3, <1>4, <1>5 DEF Agreement, ChainRests

LEMMA CalmStutter ==
  ASSUME CalmStart, UNCHANGED attemptVars
  PROVE  Agreement'
<1>1. /\ Agreement /\ ChainRests /\ UNCHANGED <<attempt, op>> /\ UNCHANGED treasuryVars
  BY DEF storeVars, CalmStart, attemptVars, chainVars, ChainRests
<1>2. Accepts(Facilitator, Amount)' = Accepts(Facilitator, Amount)
  BY <1>1 DEF treasuryVars, configVars, windowVars, Accepts, PriceIsUsable, SpentBefore,
              WindowIsOver
<1>3. op.stage = "wait" => CalmWait'
  BY <1>1, <1>2, RestKeepsChainSide DEF Agreement, CalmWait, ChainRests
<1>4. op.stage = "decided" => CalmDecision'
  BY <1>1, RestKeepsChainSide DEF Agreement, CalmDecision
<1>5. \A j \in Identifiers : CalmAttempt(j)'
  BY <1>1, RestKeepsChainSide DEF Agreement, CalmAttempt
<1> QED
  BY <1>1, <1>3, <1>4, <1>5 DEF Agreement, ChainRests

LEMMA AgreementStep ==
  AgreementInv /\ [Next]_attemptVars => AgreementInv'
<1> SUFFICES ASSUME AgreementInv, [Next]_attemptVars PROVE AgreementInv'
  OBVIOUS
<1>1. ReservationInv' /\ WindowInv'
  BY ReservationStep, WindowStep DEF AgreementInv
<1>2. ASSUME calm', mode' = "enabled" PROVE Agreement'
  <2>1. ASSUME NEW kind, Fault(kind) PROVE FALSE
    BY <1>2, <2>1 DEF Fault
  <2>2. calm /\ mode = "enabled"
    BY <1>2, <2>1, BeginIsCall, MineSettlesHead
       DEF Next, SkipTreasury, Submit, SubmitFails, ReceiveReceipt, WaitTimesOut, Commit, Lost,
           TimePasses, Interference, UnchangedByEnvironment, attemptVars, Mine, storeVars
  <2>3. CalmStart
    BY <2>2 DEF AgreementInv, CalmInv, CalmStart
  <2>4. CASE Submit
    <3>1. CASE Accepts(Facilitator, Amount)
      BY <2>3, <2>4, <3>1, CalmSend DEF Submit, storeVars
    <3>2. CASE ~ Accepts(Facilitator, Amount)
      BY <2>3, <2>4, <3>2, CalmDenial DEF Submit, storeVars, chainVars, ChainRests
    <3> QED
      BY <3>1, <3>2
  <2>5. ~ SkipTreasury
    BY <2>2 DEF SkipTreasury
  <2>6. ~ SubmitFails /\ ~ Lost
    BY <2>1 DEF SubmitFails, Lost
  <2>7. ~ WaitTimesOut /\ ~ Interference
    BY <1>2 DEF WaitTimesOut, Interference
  <2> QED
    BY <1>2, <2>3, <2>4, <2>5, <2>6, <2>7, CalmBegin, CalmReceipt, CalmCommit, CalmMine,
       CalmTime, CalmStutter
       DEF Next
<1>3. CalmInv'
  BY <1>2 DEF CalmInv
<1> QED
  BY <1>1, <1>3 DEF AgreementInv

LEMMA AgreementInit == Init => AgreementInv
<1> SUFFICES ASSUME Init PROVE AgreementInv
  OBVIOUS
<1>1. /\ op.stage = "none" /\ mempool = <<>> /\ receipt = <<>>
      /\ attempt = [i \in Identifiers |-> "none"]
  BY DEF Init, NoOp
<1>2. \A i : SentFor(i) = {}
  BY <1>1 DEF SentFor
<1>3. Agreement
  BY <1>1, <1>2 DEF Agreement, CalmAttempt
<1> QED
  BY <1>3, ReservationInit, WindowInit DEF AgreementInv, CalmInv

\* While no call is lost, no receipt is late and governance and price stand,
\* the store of an enabled deployment says what the chain has executed: what is
\* reserved exactly once, what is denied never
\* (src/src/lib/blockchain/treasury.ts, enforceTreasuryExecution).
THEOREM StoreAgreesWhileCalm == Spec => []StoreAgreesWithTreasury
<1>1. AgreementInv => StoreAgreesWithTreasury
  <2> SUFFICES ASSUME AgreementInv, calm, mode = "enabled", NEW i \in Identifiers
               PROVE  /\ attempt[i] = "reserved" => Cardinality(Succeeded(i)) = 1
                      /\ attempt[i] = "policy_denied" => Succeeded(i) = {}
    BY DEF StoreAgreesWithTreasury
  <2>1. CalmAttempt(i)
    BY DEF AgreementInv, CalmInv, Agreement
  <2>2. Succeeded(i) = {tx \in SentFor(i) : receipt[tx] = "succeeded"}
    BY DEF Succeeded, SentFor
  <2>3. ASSUME attempt[i] = "reserved" PROVE Cardinality(Succeeded(i)) = 1
    <3>1. PICK tx \in DOMAIN receipt : receipt[tx] = "succeeded" /\ SentFor(i) = {tx}
      BY <2>1, <2>3 DEF CalmAttempt, ExecutedOnce
    <3>2. Succeeded(i) = {tx}
      BY <2>2, <3>1
    <3> QED
      BY <3>2, FS_Singleton
  <2>4. attempt[i] = "policy_denied" => Succeeded(i) = {}
    BY <2>1, <2>2 DEF CalmAttempt
  <2> QED
    BY <2>3, <2>4
<1> QED
  BY <1>1, AgreementInit, AgreementStep, PTL DEF Spec


-----------------------------------------------------------------------------
(***************************************************************************)
(* The contract by itself.  The payments split in two: those of the window *)
(* that runs, whose sum is spent, and the earlier ones.  A window begins   *)
(* at least as long as the shortest duration after the one before it, so   *)
(* that an interval of that length sees the end of one window and the      *)
(* beginning of the next, and each of them keeps a cap.                    *)
(***************************************************************************)
Shortest == Contract!Min(AloneDurations)
Largest == Contract!Max(AloneCaps)

Events == [time : Int, usd : Nat]

UsdOf(s) == [i \in 1 .. Len(s) |-> s[i].usd]
Since(s, w, from) == {i \in 1 .. w : s[i].time >= from}
Within(s, from) == {i \in 1 .. Len(s) : s[i].time \in from .. from + Shortest - 1}

\* The first w payments are those before the window that runs, which began at
\* t or never.
IsSplit(s, w, t, sum) ==
    /\ w \in 0 .. Len(s) /\ t \in Int
    /\ \A i \in 1 .. w : s[i].time <= t
    /\ \A from \in Int : from > t - Shortest => SumOver(UsdOf(s), Since(s, w, from)) <= Largest
    /\ sum = SumOver(UsdOf(s), w + 1 .. Len(s)) /\ sum <= Largest

RateIsKept(s) == \A from \in Int : SumOver(UsdOf(s), Within(s, from)) <= 2 * Largest

\* The payments and the window of the contract.
RateState ==
    /\ executed \in Seq(Events) /\ now \in Int /\ resetTime \in Int
    /\ feed.price \in Int
    /\ mandate.max \in Int /\ mandate.max <= Largest
    /\ mandate.active => mandate.duration \in Int /\ mandate.duration >= Shortest
    /\ \A i \in 1 .. Len(executed) : executed[i].time <= now
    /\ RateIsKept(executed)
    /\ \E w \in Nat, t \in Int :
         /\ IsSplit(executed, w, t, spent)
         /\ t <= now /\ resetTime >= t + Shortest

RateInv == alone => RateState

LEMMA LimitsOfContract ==
  /\ Shortest \in Nat \ {0} /\ \A d \in AloneDurations : d \in Nat /\ Shortest <= d
  /\ Largest \in Nat /\ \A c \in AloneCaps : c \in Nat /\ c <= Largest
<1>1. Shortest \in AloneDurations /\ \A d \in AloneDurations : Shortest <= d
  BY AloneAssumption DEF Shortest, Contract!Min
<1>2. Largest \in AloneCaps /\ \A c \in AloneCaps : Largest >= c
  BY AloneAssumption DEF Largest, Contract!Max
<1>3. \A c \in AloneCaps : c \in Nat
  BY AloneAssumption
<1> QED
  BY <1>1, <1>2, <1>3, AloneAssumption

\* Sums over the payments of a sequence are numbers and grow with the set.
LEMMA PaymentSums ==
  ASSUME NEW s \in Seq(Events)
  PROVE  /\ Len(s) \in Nat /\ IsFiniteSet(1 .. Len(s))
         /\ \A i \in 1 .. Len(s) : UsdOf(s)[i] \in Nat /\ s[i].time \in Int
         /\ \A T \in SUBSET (1 .. Len(s)) :
              /\ IsFiniteSet(T) /\ SumOver(UsdOf(s), T) \in Nat
              /\ \A U \in SUBSET T : SumOver(UsdOf(s), U) <= SumOver(UsdOf(s), T)
<1>1. Len(s) \in Nat /\ IsFiniteSet(1 .. Len(s))
  BY FS_Interval
<1>2. \A i \in 1 .. Len(s) : s[i] \in Events
  BY <1>1
<1>3. \A i \in 1 .. Len(s) : UsdOf(s)[i] \in Nat /\ s[i].time \in Int
  BY <1>2 DEF UsdOf, Events
<1>4. ASSUME NEW T \in SUBSET (1 .. Len(s))
      PROVE  /\ IsFiniteSet(T) /\ SumOver(UsdOf(s), T) \in Nat
             /\ \A U \in SUBSET T : SumOver(UsdOf(s), U) <= SumOver(UsdOf(s), T)
  <2>1. IsFiniteSet(T) /\ \A i \in T : UsdOf(s)[i] \in Nat
    BY <1>1, <1>3, FS_Subset
  <2> QED
    BY <2>1, SumGrows
<1> QED
  BY <1>1, <1>3, <1>4

\* One more payment changes no sum over the others.
LEMMA PaymentAppended ==
  ASSUME NEW s \in Seq(Events), NEW e \in Events, NEW r \in {Append(s, e)}
  PROVE  /\ r \in Seq(Events) /\ Len(r) = Len(s) + 1
         /\ r[Len(s) + 1] = e /\ \A i \in 1 .. Len(s) : r[i] = s[i]
         /\ UsdOf(r)[Len(s) + 1] = e.usd
         /\ \A T \in SUBSET (1 .. Len(s)) : SumOver(UsdOf(r), T) = SumOver(UsdOf(s), T)
<1>1. /\ r \in Seq(Events) /\ Len(r) = Len(s) + 1 /\ Len(s) \in Nat
      /\ r[Len(s) + 1] = e /\ \A i \in 1 .. Len(s) : r[i] = s[i]
  BY AppendProperties
<1>2. UsdOf(r)[Len(s) + 1] = e.usd /\ \A i \in 1 .. Len(s) : UsdOf(r)[i] = UsdOf(s)[i]
  BY <1>1 DEF UsdOf
<1>3. \A T \in SUBSET (1 .. Len(s)) : SumOver(UsdOf(r), T) = SumOver(UsdOf(s), T)
  <2>1. PICK S : S = 1 .. Len(s)
    OBVIOUS
  <2>2. IsFiniteSet(S) /\ \A i \in S : UsdOf(r)[i] = UsdOf(s)[i]
    BY <1>2, <2>1, PaymentSums
  <2>3. \A T \in SUBSET S : SumOver(UsdOf(r), T) = SumOver(UsdOf(s), T)
    BY <2>2, SumOfSame
  <2> QED
    BY <2>1, <2>3
<1> QED
  BY <1>1, <1>2, <1>3

\* A new window: all payments so far are earlier ones.
LEMMA WindowOpens ==
  ASSUME NEW s \in Seq(Events), NEW w \in Nat, NEW t \in Int, NEW sum,
         IsSplit(s, w, t, sum),
         NEW u \in Int, u >= t + Shortest, \A i \in 1 .. Len(s) : s[i].time <= u
  PROVE  IsSplit(s, Len(s), u, 0)
<1>1. Len(s) \in Nat /\ w \in 0 .. Len(s) /\ Shortest \in Nat
  BY PaymentSums, LimitsOfContract DEF IsSplit
<1>2. ASSUME NEW from \in Int, from > u - Shortest
      PROVE  SumOver(UsdOf(s), Since(s, Len(s), from)) <= Largest
  <2>1. from > t
    BY <1>1, <1>2
  <2>2. \A i \in 1 .. Len(s) : s[i].time \in Int
    BY PaymentSums
  <2>3. Since(s, Len(s), from) \in SUBSET (w + 1 .. Len(s))
    BY <1>1, <2>1, <2>2 DEF Since, IsSplit
  <2>4. w + 1 .. Len(s) \in SUBSET (1 .. Len(s))
    BY <1>1
  <2>5. PICK all \in Nat : all = SumOver(UsdOf(s), w + 1 .. Len(s))
    BY <2>4, PaymentSums
  <2>6. SumOver(UsdOf(s), Since(s, Len(s), from)) <= all
    BY <2>3, <2>4, <2>5, PaymentSums
  <2>7. PICK some \in Nat : some = SumOver(UsdOf(s), Since(s, Len(s), from))
    BY <1>1, PaymentSums DEF Since
  <2>8. all <= Largest /\ Largest \in Nat
    BY <2>5, LimitsOfContract DEF IsSplit
  <2> QED
    BY <2>5, <2>6, <2>7, <2>8
<1>3. Len(s) + 1 .. Len(s) = {}
  BY <1>1
<1>4. SumOver(UsdOf(s), {}) = 0
  BY SumOverSteps, FS_EmptySet
<1>5. 0 <= Largest
  BY LimitsOfContract
<1> QED
  BY <1>1, <1>2, <1>3, <1>4, <1>5 DEF IsSplit

\* A payment enters the window that runs.
LEMMA PaymentEnters ==
  ASSUME NEW s \in Seq(Events), NEW w \in Nat, NEW t \in Int, NEW sum \in Int,
         IsSplit(s, w, t, sum), RateIsKept(s),
         NEW e \in Events, e.time >= t, sum + e.usd <= Largest
  PROVE  IsSplit(Append(s, e), w, t, sum + e.usd) /\ RateIsKept(Append(s, e))
<1> DEFINE n == Len(s)
<1>1. PICK r : r = Append(s, e)
  OBVIOUS
<1>2. /\ r \in Seq(Events) /\ Len(r) = n + 1 /\ n \in Nat /\ w \in 0 .. n
      /\ r[n + 1] = e /\ \A i \in 1 .. n : r[i] = s[i]
      /\ UsdOf(r)[n + 1] = e.usd
      /\ \A T \in SUBSET (1 .. n) : SumOver(UsdOf(r), T) = SumOver(UsdOf(s), T)
  <2>1. n \in Nat /\ w \in 0 .. n
    BY PaymentSums DEF IsSplit
  <2>2. /\ r \in Seq(Events) /\ Len(r) = Len(s) + 1
        /\ r[Len(s) + 1] = e /\ \A i \in 1 .. Len(s) : r[i] = s[i]
        /\ UsdOf(r)[Len(s) + 1] = e.usd
        /\ \A T \in SUBSET (1 .. Len(s)) : SumOver(UsdOf(r), T) = SumOver(UsdOf(s), T)
    <3>1. r \in {Append(s, e)}
      BY <1>1
    <3> QED
      BY <3>1, PaymentAppended
  <2> QED
    BY <2>1, <2>2
<1>3. e.usd \in Nat /\ e.time \in Int /\ Largest \in Nat /\ Shortest \in Nat
  BY LimitsOfContract DEF Events
<1> HIDE DEF n
<1>4. \A T \in SUBSET (1 .. n + 1) : IsFiniteSet(T) /\ SumOver(UsdOf(r), T) \in Nat
  BY <1>2, PaymentSums
<1>5. \A i \in 1 .. n + 1 : UsdOf(r)[i] \in Int
  BY <1>2, PaymentSums
<1>6. SumOver(UsdOf(r), w + 1 .. n + 1) = sum + e.usd
  <2>1. w + 1 .. n \in SUBSET (1 .. n + 1) /\ w + 1 .. n \in SUBSET (1 .. n)
    BY <1>2
  <2>2. w + 1 .. n + 1 = (w + 1 .. n) \cup {n + 1} /\ n + 1 \notin w + 1 .. n /\ n + 1 \in 1 .. n + 1
    BY <1>2
  <2>3. SumOver(UsdOf(r), w + 1 .. n) = sum
    BY <1>2, <2>1 DEF IsSplit, n
  <2>4. IsFiniteSet(w + 1 .. n) /\ \A i \in w + 1 .. n : UsdOf(r)[i] \in Int
    BY <1>4, <1>5, <2>1
  <2>5. UsdOf(r)[n + 1] \in Int
    BY <1>5, <2>2
  <2>6. SumOver(UsdOf(r), (w + 1 .. n) \cup {n + 1}) = SumOver(UsdOf(r), w + 1 .. n) + UsdOf(r)[n + 1]
    <3>1. PICK S : S = w + 1 .. n
      OBVIOUS
    <3>2. PICK x : x = n + 1
      OBVIOUS
    <3>3. /\ IsFiniteSet(S) /\ (\A i \in S : UsdOf(r)[i] \in Int)
          /\ x \notin S /\ UsdOf(r)[x] \in Int
      BY <2>2, <2>4, <2>5, <3>1, <3>2
    <3>4. SumOver(UsdOf(r), S \cup {x}) = SumOver(UsdOf(r), S) + UsdOf(r)[x]
      BY <3>3, SumWithElement
    <3> QED
      BY <3>1, <3>2, <3>4
  <2> QED
    BY <1>2, <2>2, <2>3, <2>6
<1>7. ASSUME NEW from \in Int, from > t - Shortest
      PROVE  SumOver(UsdOf(r), Since(r, w, from)) <= Largest
  <2>1. Since(r, w, from) = Since(s, w, from) /\ Since(r, w, from) \in SUBSET (1 .. n)
    BY <1>2 DEF Since
  <2> QED
    BY <1>2, <1>7, <2>1 DEF IsSplit
<1>8. IsSplit(r, w, t, sum + e.usd)
  <2>1. \A i \in 1 .. w : r[i].time <= t
    <3>1. \A i \in 1 .. w : i \in 1 .. n /\ s[i].time <= t
      BY <1>2 DEF IsSplit
    <3> QED
      BY <1>2, <3>1
  <2>2. w \in 0 .. Len(r)
    BY <1>2
  <2> QED
    BY <1>2, <1>6, <1>7, <2>1, <2>2 DEF IsSplit
<1>9. ASSUME NEW from \in Int
      PROVE  SumOver(UsdOf(r), Within(r, from)) <= 2 * Largest
  <2>1. CASE e.time \notin from .. from + Shortest - 1
    <3>1. Within(r, from) = Within(s, from) /\ Within(r, from) \in SUBSET (1 .. n)
      BY <1>2, <2>1 DEF Within, n
    <3> QED
      BY <1>2, <3>1 DEF RateIsKept
  <2>2. CASE e.time \in from .. from + Shortest - 1
    <3> DEFINE early == Since(r, w, from)
               late == w + 1 .. n + 1
    <3>1. from > t - Shortest
      BY <1>3, <2>2
    <3>2. early \in SUBSET (1 .. n + 1) /\ late \in SUBSET (1 .. n + 1) /\ early \cap late = {}
      BY <1>2 DEF Since
    <3>3. Within(r, from) \in SUBSET (early \cup late) /\ early \cup late \in SUBSET (1 .. n + 1)
      <4>1. ASSUME NEW i \in Within(r, from), i \notin late PROVE i \in early
        <5>1. i \in 1 .. n + 1 /\ r[i].time \in from .. from + Shortest - 1
          BY <1>2, <4>1 DEF Within
        <5>2. i \in 1 .. w
          BY <1>2, <4>1, <5>1
        <5>3. r[i].time >= from
          BY <1>3, <5>1
        <5> QED
          BY <5>2, <5>3 DEF Since
      <4> QED
        BY <3>2, <4>1
    <3> HIDE DEF early, late
    <3>4. SumOver(UsdOf(r), early \cup late) = SumOver(UsdOf(r), early) + SumOver(UsdOf(r), late)
      BY <1>4, <1>5, <3>2, SumOfParts
    <3>5. SumOver(UsdOf(r), Within(r, from)) <= SumOver(UsdOf(r), early \cup late)
      BY <1>2, <3>3, PaymentSums
    <3>6. SumOver(UsdOf(r), early) <= Largest
      BY <1>7, <3>1 DEF early
    <3>7. SumOver(UsdOf(r), late) <= Largest
      BY <1>6 DEF late
    <3>8. PICK a \in Nat : a = SumOver(UsdOf(r), early)
      BY <1>4, <3>2
    <3>9. PICK b \in Nat : b = SumOver(UsdOf(r), late)
      BY <1>4, <3>2
    <3>10. PICK c \in Nat : c = SumOver(UsdOf(r), Within(r, from))
      BY <1>4, <3>3
    <3> QED
      BY <1>3, <3>4, <3>5, <3>6, <3>7, <3>8, <3>9, <3>10
  <2> QED
    BY <2>1, <2>2
<1> QED
  BY <1>1, <1>8, <1>9 DEF RateIsKept


LEMMA RateInit == MCTreasuryInit => RateInv
<1> SUFFICES ASSUME alone, Contract!TreasuryInit PROVE RateState
  BY DEF MCTreasuryInit, RateInv
<1>1. /\ now = 1 /\ spent = 0 /\ resetTime = 0 /\ executed = <<>>
      /\ mandate = [max |-> 0, duration |-> 0, active |-> FALSE]
      /\ feed \in [price : AlonePrices, published : {1}]
  BY DEF Contract!TreasuryInit
<1>2. Shortest \in Nat /\ Largest \in Nat
  BY LimitsOfContract
<1>3. feed.price \in Int
  BY <1>1, AloneAssumption
<1>4. mandate.max = 0 /\ mandate.active = FALSE
  BY <1>1
<1>5. executed \in Seq(Events) /\ Len(executed) = 0 /\ 1 .. Len(executed) = {}
  BY <1>1, EmptySeq
<1>6. \A f : SumOver(f, {}) = 0
  BY SumOverSteps, FS_EmptySet
<1>7. RateIsKept(executed)
  <2>1. ASSUME NEW from \in Int PROVE Within(executed, from) = {}
    BY <1>5 DEF Within
  <2> QED
    BY <1>2, <1>6, <2>1 DEF RateIsKept
<1>8. IsSplit(executed, 0, 0 - Shortest, spent)
  <2>1. \A from \in Int : Since(executed, 0, from) = {}
    BY DEF Since
  <2>2. 0 + 1 .. Len(executed) = {}
    BY <1>5
  <2>3. \A from \in Int : SumOver(UsdOf(executed), Since(executed, 0, from)) = 0
    BY <1>6, <2>1
  <2>4. SumOver(UsdOf(executed), 0 + 1 .. Len(executed)) = spent
    BY <1>1, <1>6, <2>2
  <2>5. 0 \in 0 .. Len(executed) /\ 0 - Shortest \in Int /\ \A i \in 1 .. 0 : FALSE
    BY <1>2, <1>5
  <2> QED
    BY <1>1, <1>2, <2>3, <2>4, <2>5 DEF IsSplit
<1>9. 0 \in Nat /\ 0 - Shortest \in Int /\ 0 - Shortest <= now /\ resetTime >= (0 - Shortest) + Shortest
  BY <1>1, <1>2
<1> QED
  BY <1>1, <1>2, <1>3, <1>4, <1>5, <1>7, <1>8, <1>9 DEF RateState

\* What the contract charges for tokens is a number of units.
LEMMA ChargeIsNatural ==
  ASSUME NEW amount \in AloneAmounts, NEW price \in Int, price > 0
  PROVE  Contract!UsdValue(amount, price) \in Nat
<1>1. amount \in Nat /\ PriceUnit \in Nat /\ AloneScale \in Nat \ {0} /\ price \in Nat
  BY AloneAssumption, TreasuryAssumption
<1>2. amount * price \in Nat
  BY <1>1
<1>3. amount * price * PriceUnit \in Nat
  BY <1>1, <1>2
<1> DEFINE n == amount * price * PriceUnit
<1>4. n \in Nat
  BY <1>3
<1> HIDE DEF n
<1>5. n \div AloneScale \in Nat
  BY <1>1, <1>4
<1> QED
  BY <1>5 DEF Contract!UsdValue, n

LEMMA PaymentKeepsRate ==
  ASSUME RateState, NEW facilitator, NEW amount \in AloneAmounts,
         Contract!ExecuteX402Payment(facilitator, amount)
  PROVE  RateState'
<1>1. PICK w \in Nat, t \in Int :
        IsSplit(executed, w, t, spent) /\ t <= now /\ resetTime >= t + Shortest
  BY DEF RateState
<1>2. PICK usd \in Nat : usd = Contract!UsdValue(amount, feed.price)
  BY ChargeIsNatural
     DEF RateState, Contract!ExecuteX402Payment, Contract!Accepts, Contract!PriceIsUsable
<1>3. PICK e : e = [time |-> now, usd |-> usd]
  OBVIOUS
<1>4. /\ spent' = Contract!SpentBefore + usd
      /\ executed' = Append(executed, e)
      /\ resetTime' = IF now >= resetTime THEN now + mandate.duration ELSE resetTime
      /\ Contract!SpentBefore = IF now >= resetTime THEN 0 ELSE spent
      /\ UNCHANGED <<now, mandate, feed>>
      /\ Contract!SpentBefore + usd <= mandate.max /\ mandate.active
  BY <1>2, <1>3
     DEF Contract!ExecuteX402Payment, Contract!Spend, Contract!NextResetTime,
         Contract!WindowIsOver, Contract!SpentBefore, Contract!Accepts, Contract!configVars
<1>5. /\ executed \in Seq(Events) /\ now \in Int /\ resetTime \in Int
      /\ mandate.max \in Int /\ mandate.max <= Largest
      /\ mandate.duration \in Int /\ mandate.duration >= Shortest
      /\ \A i \in 1 .. Len(executed) : executed[i].time <= now
      /\ RateIsKept(executed)
  BY <1>4 DEF RateState
<1>6. e \in Events /\ e.time = now /\ e.usd = usd
  BY <1>3, <1>5 DEF Events
<1>7. Shortest \in Nat \ {0} /\ Largest \in Nat /\ Len(executed) \in Nat
  BY <1>5, LimitsOfContract, PaymentSums
<1>8. spent \in Int
  <2>1. w \in 0 .. Len(executed) /\ spent = SumOver(UsdOf(executed), w + 1 .. Len(executed))
    BY <1>1 DEF IsSplit
  <2>2. w + 1 .. Len(executed) \in SUBSET (1 .. Len(executed))
    BY <1>7, <2>1
  <2> QED
    BY <1>5, <2>1, <2>2, PaymentSums
<1>9. \E v \in Nat, u \in Int :
        /\ IsSplit(executed, v, u, Contract!SpentBefore)
        /\ u <= now /\ resetTime' >= u + Shortest
  <2>1. CASE now >= resetTime
    <3>1. now >= t + Shortest
      BY <1>1, <1>5, <1>7, <2>1
    <3>2. IsSplit(executed, Len(executed), now, 0)
      BY <1>1, <1>5, <3>1, WindowOpens
    <3>3. resetTime' >= now + Shortest
      BY <1>4, <1>5, <1>7, <2>1
    <3> QED
      BY <1>4, <1>5, <1>7, <2>1, <3>2, <3>3
  <2>2. CASE ~ now >= resetTime
    BY <1>1, <1>4, <2>2
  <2> QED
    BY <2>1, <2>2
<1>10. PICK v \in Nat, u \in Int :
        /\ IsSplit(executed, v, u, Contract!SpentBefore)
        /\ u <= now /\ resetTime' >= u + Shortest
  BY <1>9
<1>11. PICK before \in Int : before = Contract!SpentBefore
  BY <1>4, <1>8
<1>12. e.time >= u /\ before + e.usd <= Largest
  <2>1. e.time >= u
    BY <1>6, <1>10
  <2>2. before + usd <= mandate.max
    BY <1>4, <1>11
  <2>3. before + usd <= Largest
    BY <1>5, <1>7, <1>11, <2>2
  <2> QED
    BY <1>6, <2>1, <2>3
<1>13. IsSplit(executed', v, u, spent') /\ RateIsKept(executed')
  <2>1. IsSplit(Append(executed, e), v, u, before + e.usd) /\ RateIsKept(Append(executed, e))
    BY <1>5, <1>6, <1>10, <1>11, <1>12, PaymentEnters
  <2> QED
    BY <1>4, <1>6, <1>11, <2>1
<1>14. executed' \in Seq(Events) /\ \A i \in 1 .. Len(executed') : executed'[i].time <= now
  <2>1. PICK r : r = Append(executed, e)
    OBVIOUS
  <2>2. /\ r \in Seq(Events) /\ Len(r) = Len(executed) + 1
        /\ r[Len(executed) + 1] = e /\ \A i \in 1 .. Len(executed) : r[i] = executed[i]
    BY <1>5, <1>6, <2>1, AppendProperties
  <2>3. \A i \in 1 .. Len(r) : r[i].time <= now
    BY <1>5, <1>6, <1>7, <2>2
  <2> QED
    BY <1>4, <2>1, <2>2, <2>3
<1>15. resetTime' \in Int /\ now' = now /\ mandate' = mandate /\ feed' = feed
  BY <1>4, <1>5
<1>16. feed.price \in Int
  BY DEF RateState
<1> QED
  BY <1>5, <1>10, <1>13, <1>14, <1>15, <1>16 DEF RateState

LEMMA MandateKeepsRate ==
  ASSUME RateState, NEW caller, NEW max \in AloneCaps, NEW duration \in AloneDurations, NEW active,
         Contract!SetMandate(caller, max, duration, active)
  PROVE  RateState'
<1>1. /\ mandate' = [max |-> max, duration |-> duration, active |-> active]
      /\ resetTime' = now + duration
      /\ UNCHANGED <<now, spent, executed, feed>>
  BY DEF Contract!SetMandate
<1>2. /\ max \in Nat /\ max <= Largest /\ duration \in Nat /\ duration >= Shortest
      /\ Shortest \in Nat
  BY LimitsOfContract
<1>3. mandate'.max = max /\ mandate'.duration = duration
  BY <1>1
<1>4. PICK w \in Nat, t \in Int : IsSplit(executed, w, t, spent) /\ t <= now
  BY DEF RateState
<1>5. now \in Int /\ now + duration \in Int /\ now + duration >= t + Shortest
  BY <1>2, <1>4 DEF RateState
<1>6. IsSplit(executed', w, t, spent') /\ t <= now' /\ resetTime' >= t + Shortest
  BY <1>1, <1>4, <1>5
<1> QED
  BY <1>1, <1>2, <1>3, <1>4, <1>5, <1>6, SMTT(30) DEF RateState

LEMMA RateStep == RateInv /\ [MCTreasuryNext]_<<alone, attemptVars>> => RateInv'
<1> SUFFICES ASSUME RateInv, [MCTreasuryNext]_<<alone, attemptVars>>, alone' PROVE RateState'
  BY DEF RateInv
<1>1. RateState
  BY DEF RateInv, MCTreasuryNext
<1>2. ASSUME UNCHANGED <<executed, spent, resetTime, mandate, now>>, feed'.price \in Int
      PROVE  RateState'
  BY <1>1, <1>2 DEF RateState
<1>3. CASE UNCHANGED <<alone, attemptVars>>
  BY <1>1, <1>2, <1>3
     DEF attemptVars, chainVars, treasuryVars, configVars, windowVars, RateState
<1>4. CASE ContractStep
  <2>1. ASSUME NEW facilitator, NEW amount \in AloneAmounts,
               Contract!ExecuteX402Payment(facilitator, amount)
        PROVE  RateState'
    BY <1>1, <2>1, PaymentKeepsRate
  <2>2. ASSUME NEW caller, NEW max \in AloneCaps, NEW duration \in AloneDurations, NEW active,
               Contract!SetMandate(caller, max, duration, active)
        PROVE  RateState'
    BY <1>1, <2>2, MandateKeepsRate
  <2>3. CASE Contract!Govern
    <3>1. ASSUME NEW caller, NEW facilitator, NEW isApproved,
                 Contract!SetApprovedFacilitator(caller, facilitator, isApproved)
          PROVE  RateState'
      BY <1>1, <1>2, <3>1 DEF Contract!SetApprovedFacilitator, Contract!windowVars, RateState
    <3>2. ASSUME NEW caller, NEW enabled, Contract!SetKillSwitch(caller, enabled)
          PROVE  RateState'
      BY <1>1, <1>2, <3>2 DEF Contract!SetKillSwitch, Contract!windowVars, RateState
    <3>3. ASSUME NEW caller, NEW newOwner, Contract!TransferGovernance(caller, newOwner)
          PROVE  RateState'
      BY <1>1, <1>2, <3>3 DEF Contract!TransferGovernance, Contract!windowVars, RateState
    <3> QED
      BY <2>2, <2>3, <3>1, <3>2, <3>3 DEF Contract!Govern
  <2>4. CASE Contract!Tick
    <3>1. now' = now + 1 /\ UNCHANGED <<executed, spent, resetTime, mandate, feed>>
      BY <2>4 DEF Contract!Tick, Contract!configVars, Contract!windowVars
    <3>2. now \in Int /\ now + 1 \in Int
      BY <1>1 DEF RateState
    <3>3. PICK w \in Nat, t \in Int :
            IsSplit(executed, w, t, spent) /\ t <= now /\ resetTime >= t + Shortest
      BY <1>1 DEF RateState
    <3>4. IsSplit(executed', w, t, spent') /\ t <= now' /\ resetTime' >= t + Shortest
      BY <3>1, <3>2, <3>3
    <3>5. \A i \in 1 .. Len(executed) : executed[i].time <= now + 1
      <4>1. executed \in Seq(Events) /\ \A i \in 1 .. Len(executed) : executed[i].time <= now
        BY <1>1 DEF RateState
      <4>2. \A i \in 1 .. Len(executed) : executed[i].time \in Int
        BY <4>1, PaymentSums
      <4> QED
        BY <3>2, <4>1, <4>2
    <3> QED
      BY <1>1, <3>1, <3>2, <3>3, <3>4, <3>5 DEF RateState
  <2>5. ASSUME NEW price \in AlonePrices, Contract!PublishPrice(price) PROVE RateState'
    <3>1. price \in Int /\ feed'.price = price
      BY <2>5, AloneAssumption DEF Contract!PublishPrice
    <3> QED
      BY <1>2, <2>5, <3>1 DEF Contract!PublishPrice, Contract!configVars, Contract!windowVars
  <2> QED
    BY <1>4, <2>1, <2>3, <2>4, <2>5 DEF ContractStep, Contract!TreasuryNext
<1> QED
  BY <1>3, <1>4 DEF MCTreasuryNext

\* The sum that the property speaks of is the sum of the lemmas.
LEMMA RateInvImplies == RateInv => SpendRateStaysBounded
<1> SUFFICES ASSUME RateState, NEW start \in 1 .. AloneMaxTime
             PROVE  Contract!MapThenSumSet(LAMBDA i : executed[i].usd, Contract!Interval(start))
                      <= 2 * Contract!Max(AloneCaps)
  BY DEF RateInv, SpendRateStaysBounded, Contract!SpendRateIsBounded
<1>1. executed \in Seq(Events) /\ RateIsKept(executed) /\ start \in Int
  BY DEF RateState
<1>2. PICK S : S = Within(executed, start)
  OBVIOUS
<1>3. Contract!Interval(start) = S
  BY <1>1, <1>2 DEF Contract!Interval, Within, Shortest
<1>4. IsFiniteSet(S) /\ S \in SUBSET (1 .. Len(executed))
  BY <1>1, <1>2, PaymentSums DEF Within
<1> DEFINE total[s \in SUBSET S] ==
             IF s = {} THEN 0 ELSE executed[Picked(s)].usd + total[s \ {Picked(s)}]
<1>5. Contract!MapThenSumSet(LAMBDA i : executed[i].usd, S) = total[S]
  BY DEF Contract!MapThenSumSet, Contract!MapThenFoldSet, Picked
<1>6. \A g : g = [s \in SUBSET S |->
                    IF s = {} THEN 0 ELSE executed[Picked(s)].usd + g[s \ {Picked(s)}]]
               <=> IsSum(UsdOf(executed), S, g)
  <2>1. \A s \in SUBSET S : s # {} => UsdOf(executed)[Picked(s)] = executed[Picked(s)].usd
    BY <1>4 DEF Picked, UsdOf
  <2> QED
    BY <2>1 DEF IsSum
<1>7. \E g : IsSum(UsdOf(executed), S, g)
  BY <1>4, SumsExist
<1>8. IsSum(UsdOf(executed), S, total)
  BY <1>6, <1>7
<1> HIDE DEF total
<1>9. SumOver(UsdOf(executed), S) = total[S]
  BY <1>4, <1>8, SumOverIs
<1> QED
  BY <1>1, <1>2, <1>3, <1>5, <1>9 DEF RateIsKept, Largest

\* No interval as long as the shortest window sees more than twice the largest
\* cap, for every sequence of payments, prices and decisions of governance.
THEOREM SpendRateStaysKept == MCTreasurySpec => []SpendRateStaysBounded
<1> QED
  BY RateInit, RateStep, RateInvImplies, PTL DEF MCTreasurySpec
=============================================================================
