--------------------------- MODULE TreasuryAttempts ---------------------------
(***************************************************************************)
(* enforceTreasuryExecution inside runAttempt: an attempt that policy has  *)
(* approved is executed on the treasury contract before it is reserved in  *)
(* the store, within one transaction of the store.  Any error of the chain *)
(* part is taken for a refusal of the treasury, and the attempt is stored  *)
(* as policy_denied.                                                       *)
(*                                                                         *)
(* Every payment identifier has a mandate of its own, all of one agent, so *)
(* that the attempts share a window of the contract and nothing else.      *)
(***************************************************************************)
EXTENDS TreasuryContract

CONSTANTS
    Identifiers,       \* payment identifiers
    Facilitator,       \* MANDATE402_TREASURY_FACILITATOR_ADDRESS
    Amount,            \* of every attempt
    Faults,            \* what may go wrong, of FaultKinds
    MaxTx,             \* bound on chain transactions
    MaxFaults          \* bound on faults, time-outs of a receipt not counted

FaultKinds == {"rpc", "wait_timeout", "commit_failed", "crash"}
Modes == {"enabled", "prepared_only", "no_agent_address"}

ASSUME TreasuryFaultAssumption == Faults \subseteq FaultKinds
ASSUME FacilitatorAssumption == Facilitator \in Facilitators

\* uint256 amounts and an unsigned price; the deployment configures the largest
\* of the caps and the shortest of the durations.
ASSUME AmountAssumption ==
    /\ Amount \in Nat /\ Prices \subseteq Int /\ Caps \subseteq Nat
    /\ MaxPriceAge \in Nat
    /\ \E cap \in Caps : \A c \in Caps : cap >= c
    /\ \E duration \in Durations : \A d \in Durations : duration <= d

VARIABLES
    mode,              \* the treasury configuration of the deployment
    attempt,           \* per identifier: its attempt in the store
    enforced,          \* per identifier: txHash of its treasury_enforced event
    op,                \* the running transaction of the store
    mempool,           \* the transactions sent and not mined, by their nonces
    receipt,           \* per transaction: what became of it
    sentFor,           \* per transaction: the identifier it was sent for
    faults,
    calm               \* history: nothing was lost and nobody has interfered

chainVars == <<treasuryVars, mempool, receipt, sentFor>>
storeVars == <<mode, attempt, enforced>>
attemptVars == <<storeVars, op, chainVars, faults, calm>>

NoOp == [stage |-> "none"]
NoTx == 0

\* The treasury has been configured for the agent.
Init ==
    /\ mode \in Modes
    /\ now = 1
    /\ mandate = [max |-> Max(Caps), duration |-> Min(Durations), active |-> TRUE]
    /\ spent = 0
    /\ resetTime = 1 + Min(Durations)
    /\ killed = FALSE
    /\ approved = Facilitators
    /\ governanceOwner \in Owners
    /\ feed \in [price : Prices, published : {1}]
    /\ executed = <<>>
    /\ attempt = [i \in Identifiers |-> "none"]
    /\ enforced = [i \in Identifiers |-> NoTx]
    /\ op = NoOp
    /\ mempool = <<>>
    /\ receipt = <<>>
    /\ sentFor = <<>>
    /\ faults = 0
    /\ calm = TRUE

-----------------------------------------------------------------------------
\* The next transaction of the signer is mined: one account sends them all,
\* and the chain takes them in the order of their nonces.
Mine ==
    /\ mempool # <<>>
    /\ mempool' = Tail(mempool)
    /\ IF Accepts(Facilitator, Amount)
         THEN Spend(Amount) /\ receipt' = [receipt EXCEPT ![Head(mempool)] = "succeeded"]
         ELSE /\ receipt' = [receipt EXCEPT ![Head(mempool)] = "reverted"]
              /\ UNCHANGED treasuryVars
    /\ UNCHANGED <<storeVars, op, sentFor, faults, calm>>

UnchangedByEnvironment == UNCHANGED <<storeVars, op, mempool, receipt, sentFor, faults>>

\* A price that has grown too old is as good as another price.
TimePasses == Tick /\ UnchangedByEnvironment /\ calm' = (calm /\ PriceIsUsable')

\* Between the estimate and the block, governance or the price may change.
Interference ==
    /\ Govern \/ \E price \in Prices : PublishPrice(price)
    /\ calm' = FALSE
    /\ UnchangedByEnvironment

-----------------------------------------------------------------------------
\* Mutant: an identifier that is in the store is paid for again.
BeginAgain(i) ==
    /\ op = NoOp /\ Len(receipt) < MaxTx
    /\ op' = [stage |-> "treasury", id |-> i, tx |-> NoTx, verdict |-> "open"]
    /\ UNCHANGED <<storeVars, chainVars, faults, calm>>

\* The identifier has no attempt yet and policy approves; with an attempt the
\* call returns it and changes nothing.
Begin(i) ==
    /\ op = NoOp /\ Len(receipt) < MaxTx
    /\ attempt[i] = "none"
    /\ op' = [stage |-> "treasury", id |-> i, tx |-> NoTx, verdict |-> "open"]
    /\ UNCHANGED <<storeVars, chainVars, faults, calm>>

Decide(verdict) == op' = [op EXCEPT !.stage = "decided", !.verdict = verdict]

\* Without a complete configuration nothing is executed and the attempt goes
\* on; without an address for the agent it is denied.
SkipTreasury ==
    /\ op.stage = "treasury" /\ mode # "enabled"
    /\ Decide(IF mode = "no_agent_address" THEN "denied" ELSE "approved")
    /\ UNCHANGED <<storeVars, chainVars, faults, calm>>

Send ==
    /\ receipt' = Append(receipt, "pending")
    /\ mempool' = Append(mempool, Len(receipt) + 1)
    /\ sentFor' = Append(sentFor, op.id)
    /\ UNCHANGED treasuryVars

\* writeContract estimates the gas, which throws if the call would revert.
Submit ==
    /\ op.stage = "treasury" /\ mode = "enabled"
    /\ IF Accepts(Facilitator, Amount)
         THEN /\ Send
              /\ op' = [stage |-> "wait", id |-> op.id, tx |-> Len(receipt) + 1,
                        verdict |-> "open"]
         ELSE Decide("denied") /\ UNCHANGED chainVars
    /\ UNCHANGED <<storeVars, faults, calm>>

Fault(kind) ==
    /\ kind \in Faults /\ faults < MaxFaults
    /\ faults' = faults + 1
    /\ calm' = FALSE

\* The node cannot be reached, or its answer is lost.
SubmitFails ==
    /\ op.stage = "treasury" /\ mode = "enabled"
    /\ Fault("rpc")
    /\ Send \/ UNCHANGED chainVars
    /\ Decide("denied")
    /\ UNCHANGED storeVars

\* Mutant: a transaction that has been sent counts as executed.
TrustsHash ==
    /\ op.stage = "wait"
    /\ Decide("approved")
    /\ UNCHANGED <<storeVars, chainVars, faults, calm>>

\* The receipt arrives; a reverted transaction is as good as any.
ReceiveReceipt ==
    /\ op.stage = "wait"
    /\ receipt[op.tx] # "pending"
    /\ Decide("approved")
    /\ UNCHANGED <<storeVars, chainVars, faults, calm>>

WaitTimesOut ==
    /\ op.stage = "wait"
    /\ "wait_timeout" \in Faults
    /\ receipt[op.tx] = "pending"
    /\ Decide("denied")
    /\ calm' = FALSE
    /\ UNCHANGED <<storeVars, chainVars, faults>>

\* The attempt is reserved and queued, with the transaction that the treasury
\* part has returned, or recorded as denied.
Commit ==
    /\ op.stage = "decided"
    /\ attempt' = [attempt EXCEPT ![op.id] =
                     IF op.verdict = "approved" THEN "reserved" ELSE "policy_denied"]
    /\ enforced' = [enforced EXCEPT ![op.id] = IF op.verdict = "approved" THEN op.tx ELSE NoTx]
    /\ op' = NoOp
    /\ UNCHANGED <<mode, chainVars, faults, calm>>

\* The transaction of the store is lost; the caller may ask again.
Lost ==
    /\ op # NoOp
    /\ Fault("crash") \/ (op.stage = "decided" /\ Fault("commit_failed"))
    /\ op' = NoOp
    /\ UNCHANGED <<storeVars, chainVars>>

Next ==
    \/ \E i \in Identifiers : Begin(i)
    \/ SkipTreasury
    \/ Submit \/ SubmitFails \/ ReceiveReceipt \/ WaitTimesOut
    \/ Commit
    \/ Lost
    \/ Mine
    \/ TimePasses
    \/ Interference

Spec == Init /\ [][Next]_attemptVars

-----------------------------------------------------------------------------
(***************************************************************************)
(* Properties.                                                             *)
(***************************************************************************)
Succeeded(i) == {tx \in DOMAIN receipt : sentFor[tx] = i /\ receipt[tx] = "succeeded"}

\* With a treasury, an attempt is reserved only with a transaction of its own
\* that the chain has settled, the one its treasury_enforced event names; and
\* no other transaction that was sent for it, by an earlier call that was
\* lost, is left that could be executed later.
ReservedIsSettled ==
    mode = "enabled" => \A i \in Identifiers : attempt[i] = "reserved" =>
      /\ enforced[i] \in DOMAIN receipt /\ sentFor[enforced[i]] = i
      /\ \A tx \in DOMAIN receipt : sentFor[tx] = i => receipt[tx] # "pending"

\* If no call is lost, no receipt is late, governance and price stand and the
\* price stays fresh enough, store and treasury agree: what is reserved was
\* executed exactly once, what is denied never.
StoreAgreesWithTreasury ==
    calm /\ mode = "enabled" => \A i \in Identifiers :
      /\ attempt[i] = "reserved" => Cardinality(Succeeded(i)) = 1
      /\ attempt[i] = "policy_denied" => Succeeded(i) = {}

\* SYSTEM_DESIGN.md 10: an identifier that is used again does not spend twice.
NoDoubleSpend == \A i \in Identifiers : Cardinality(Succeeded(i)) <= 1
=============================================================================
