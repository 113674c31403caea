--------------------------- MODULE MandateAnchoring ---------------------------
(***************************************************************************)
(* createMandate and revokeMandate with the anchor each writes on chain    *)
(* (morph-anchor.ts, MandateRegistry.sol).  The anchor is written inside   *)
(* the store's transaction, before the mandate is validated to the end and *)
(* before the transaction is committed; nothing takes it back.             *)
(*                                                                         *)
(* The store runs one transaction at a time (AtomicStore).  A chain        *)
(* transaction is a number, the nonce of the anchoring account.            *)
(***************************************************************************)
EXTENDS Integers, Sequences

CONSTANTS
    Mandates,        \* the identifiers createId will make
    Faults,          \* what may go wrong, of FaultKinds
    MaxTx,           \* bound on chain transactions
    MaxFaults        \* bound on faults, time-outs of a receipt not counted

FaultKinds == {"rpc", "wait_timeout", "commit_failed", "commit_unknown", "crash"}

ASSUME AnchorFaultAssumption == Faults \subseteq FaultKinds

Tx == 1 .. MaxTx
Demo == 0            \* a reference of the form demo_...

VARIABLES
    configured,      \* whether the Morph configuration is complete
    stored,          \* per mandate: its status in the store
    anchor,          \* per mandate and action: the reference in the store
    registry,        \* per mandate: its status in MandateRegistry
    mempool,         \* the transactions sent and not mined, in nonce order
    receipt,         \* per transaction: what became of it
    op,              \* the running transaction of the store
    used,            \* the identifiers that have been made
    faults

storeVars == <<stored, anchor>>
chainVars == <<registry, mempool, receipt>>
anchorVars == <<configured, storeVars, chainVars, op, used, faults>>

NoOp == [stage |-> "none"]

Init ==
    /\ configured \in BOOLEAN
    /\ stored = [m \in Mandates |-> "none"]
    /\ anchor = [m \in Mandates |-> [issue |-> -1, revoke |-> -1]]
    /\ registry = [m \in Mandates |-> "Unissued"]
    /\ mempool = <<>>
    /\ receipt = <<>>
    /\ op = NoOp
    /\ used = {}
    /\ faults = 0

-----------------------------------------------------------------------------
(***************************************************************************)
(* MandateRegistry.sol                                                     *)
(***************************************************************************)
\* What issueMandate and revokeMandate require; otherwise they revert.
Permitted(action, m) ==
    IF action = "issue" THEN registry[m] = "Unissued" ELSE registry[m] = "Active"

After(action) == IF action = "issue" THEN "Active" ELSE "Revoked"

\* The next transaction of the account is mined.
Mine ==
    /\ mempool # <<>>
    /\ LET sent == Head(mempool) IN
       IF Permitted(sent.action, sent.mandate)
         THEN /\ registry' = [registry EXCEPT ![sent.mandate] = After(sent.action)]
              /\ receipt' = [receipt EXCEPT ![sent.tx] = "succeeded"]
         ELSE /\ receipt' = [receipt EXCEPT ![sent.tx] = "reverted"]
              /\ UNCHANGED registry
    /\ mempool' = Tail(mempool)
    /\ UNCHANGED <<configured, storeVars, op, used, faults>>

-----------------------------------------------------------------------------
(***************************************************************************)
(* createMandate and revokeMandate                                         *)
(***************************************************************************)
\* The name, the budget, the expiry and the agent have been checked.  The
\* approved vendors are checked after the anchor.
BeginIssue(m, vendorsOk) ==
    /\ op = NoOp /\ m \notin used /\ Len(receipt) < MaxTx
    /\ used' = used \cup {m}
    /\ op' = [stage |-> "anchor", action |-> "issue", mandate |-> m, valid |-> vendorsOk,
              ref |-> -1]
    /\ UNCHANGED <<configured, storeVars, chainVars, faults>>

\* The mandate exists and may go to "revoking".
BeginRevoke(m) ==
    /\ op = NoOp /\ stored[m] = "issued" /\ Len(receipt) < MaxTx
    /\ op' = [stage |-> "anchor", action |-> "revoke", mandate |-> m, valid |-> TRUE,
              ref |-> -1]
    /\ UNCHANGED <<configured, storeVars, chainVars, used, faults>>

\* The transaction of the store is rolled back and its caller told so.
Throw == op' = NoOp

\* Without a configuration an invented reference stands for the anchor.
AnchorDemo ==
    /\ op.stage = "anchor" /\ ~ configured
    /\ op' = [op EXCEPT !.stage = "anchored", !.ref = Demo]
    /\ UNCHANGED <<configured, storeVars, chainVars, used, faults>>

Send ==
    LET tx == Len(receipt) + 1 IN
    /\ receipt' = Append(receipt, "pending")
    /\ mempool' = Append(mempool, [tx |-> tx, action |-> op.action, mandate |-> op.mandate])
    /\ UNCHANGED registry

\* writeContract estimates the gas against the latest block, which throws if
\* the call would revert there, and sends the transaction.
Submit ==
    /\ op.stage = "anchor" /\ configured
    /\ IF Permitted(op.action, op.mandate)
         THEN Send /\ op' = [op EXCEPT !.stage = "wait", !.ref = Len(receipt) + 1]
         ELSE Throw /\ UNCHANGED chainVars
    /\ UNCHANGED <<configured, storeVars, used, faults>>

Fault(kind) ==
    /\ kind \in Faults /\ faults < MaxFaults
    /\ faults' = faults + 1

\* The node cannot be reached, or its answer is lost.
SubmitFails ==
    /\ op.stage = "anchor" /\ configured
    /\ Fault("rpc")
    /\ Send \/ UNCHANGED chainVars
    /\ Throw
    /\ UNCHANGED <<configured, storeVars, used>>

\* waitForTransactionReceipt returns; whether the transaction succeeded or
\* reverted is not looked at.
ReceiveReceipt ==
    /\ op.stage = "wait"
    /\ receipt[op.ref] # "pending"
    /\ op' = [op EXCEPT !.stage = "anchored"]
    /\ UNCHANGED <<configured, storeVars, chainVars, used, faults>>

\* Mutant: a receipt is waited for without end.
WaitForEver ==
    /\ op.stage = "wait"
    /\ "wait_timeout" \in Faults
    /\ receipt[op.ref] = "pending"
    /\ UNCHANGED anchorVars

\* No receipt in the time that viem allows.
WaitTimesOut ==
    /\ op.stage = "wait"
    /\ "wait_timeout" \in Faults
    /\ receipt[op.ref] = "pending"
    /\ Throw
    /\ UNCHANGED <<configured, storeVars, chainVars, used, faults>>

\* normalizeApprovedVendorIds throws.
RejectVendors ==
    /\ op.stage = "anchored" /\ ~ op.valid
    /\ Throw
    /\ UNCHANGED <<configured, storeVars, chainVars, used, faults>>

Record ==
    /\ stored' = [stored EXCEPT ![op.mandate] =
                    IF op.action = "issue" THEN "issued" ELSE "revoked"]
    /\ anchor' = [anchor EXCEPT ![op.mandate][op.action] = op.ref]

\* Mutant: the mandate is stored while its anchor is under way.
CommitEarly ==
    /\ op.stage \in {"anchor", "wait", "anchored"} /\ op.valid
    /\ Record
    /\ Throw
    /\ UNCHANGED <<configured, chainVars, used, faults>>

\* The mandate gets its status, its reference, an audit entry and an event.
Commit ==
    /\ op.stage = "anchored" /\ op.valid
    /\ Record
    /\ Throw
    /\ UNCHANGED <<configured, chainVars, used, faults>>

\* The commit fails, or succeeds and its answer is lost.
CommitFails ==
    /\ op.stage = "anchored" /\ op.valid
    /\ \/ Fault("commit_failed") /\ UNCHANGED storeVars
       \/ Fault("commit_unknown") /\ Record
    /\ Throw
    /\ UNCHANGED <<configured, chainVars, used>>

\* The process stops; the database rolls its transaction back.
Crash ==
    /\ op # NoOp
    /\ Fault("crash")
    /\ Throw
    /\ UNCHANGED <<configured, storeVars, chainVars, used>>

OpStep ==
    \/ AnchorDemo \/ Submit \/ ReceiveReceipt \/ WaitTimesOut
    \/ RejectVendors \/ Commit

Next ==
    \/ \E m \in Mandates, vendorsOk \in BOOLEAN : BeginIssue(m, vendorsOk)
    \/ \E m \in Mandates : BeginRevoke(m)
    \/ OpStep
    \/ SubmitFails \/ CommitFails \/ Crash
    \/ Mine

Spec == Init /\ [][Next]_anchorVars

\* The handler goes on as long as its process runs.
FairSpec == Spec /\ WF_anchorVars(OpStep)

-----------------------------------------------------------------------------
(***************************************************************************)
(* Properties.                                                             *)
(***************************************************************************)
\* The chain is never behind the store: what the store calls issued has been
\* issued on chain, by the transaction that the store names, what it calls
\* revoked has been revoked there for good, although a reverted transaction is
\* taken for an anchor like any other and answers get lost.
StoreFollowsChain ==
    configured => \A m \in Mandates :
      /\ stored[m] # "none" => /\ registry[m] # "Unissued"
                              /\ receipt[anchor[m].issue] = "succeeded"
      /\ stored[m] = "revoked" => registry[m] = "Revoked"

\* A handler that waits for the chain holds the lock of the whole store; it
\* lets go of it even if the transaction is never mined.
LockIsReleased == [](op # NoOp => <>(op = NoOp))
=============================================================================
