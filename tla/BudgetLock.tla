------------------------------ MODULE BudgetLock ------------------------------
(***************************************************************************)
(* MandateBudgetLockDurableObject of workers/mandate402.ts: reserve,       *)
(* consume and release commands, applied one at a time in a transaction of *)
(* the object's storage.  A command that is delivered again is recognised  *)
(* by its identifier as long as the object remembers it.                   *)
(***************************************************************************)
EXTENDS Integers, Sequences, FiniteSets, SequencesExt, FiniteSetsExt

CONSTANTS
    Payments,        \* each reserves, and then consumes or releases
    Amount,          \* per payment, in cents
    Memory,          \* the length of processedCommandIds: 100 in the code
    MaxDeliveries    \* bound on deliveries

BudgetAssumption == Amount \in [Payments -> Nat \ {0}] /\ Memory \in Nat \ {0}

Kinds == {"reserve", "consume", "release"}
BudgetCommands == [payment : Payments, kind : Kinds]

VARIABLES
    reservedCents, consumedCents, processedCommandIds,    \* BudgetState
    history       \* history: the commands that were applied, in their order

budgetState == <<reservedCents, consumedCents, processedCommandIds>>
budgetVars == <<budgetState, history>>

Init ==
    /\ reservedCents = 0
    /\ consumedCents = 0
    /\ processedCommandIds = <<>>
    /\ history = <<>>

-----------------------------------------------------------------------------
Lowered(cents, amount) == Max({0, cents - amount})

\* Mutant: one identifier less is kept.
ForgetsEarly(command) ==
    LET ids == processedCommandIds
        kept == SubSeq(ids, Max({1, Len(ids) - (Memory - 3)}), Len(ids))
    IN processedCommandIds' = Append(kept, command)

\* processedCommandIds.slice(-99) and the new one
Remember(command) ==
    LET ids == processedCommandIds
        kept == SubSeq(ids, Max({1, Len(ids) - (Memory - 2)}), Len(ids))
    IN processedCommandIds' = Append(kept, command)

\* Mutant: consuming leaves the reservation.
BooksConsumption(command) ==
    LET amount == Amount[command.payment] IN
    CASE command.kind = "reserve" ->
           reservedCents' = reservedCents + amount /\ UNCHANGED consumedCents
      [] command.kind = "consume" ->
           consumedCents' = consumedCents + amount /\ UNCHANGED reservedCents
      [] command.kind = "release" ->
           reservedCents' = Lowered(reservedCents, amount) /\ UNCHANGED consumedCents

Book(command) ==
    LET amount == Amount[command.payment] IN
    CASE command.kind = "reserve" ->
           reservedCents' = reservedCents + amount /\ UNCHANGED consumedCents
      [] command.kind = "consume" ->
           /\ reservedCents' = Lowered(reservedCents, amount)
           /\ consumedCents' = consumedCents + amount
      [] command.kind = "release" ->
           reservedCents' = Lowered(reservedCents, amount) /\ UNCHANGED consumedCents

Known(command) == command \in ToSet(processedCommandIds)

\* A command that is not remembered.
Apply(command) ==
    /\ ~ Known(command)
    /\ Book(command)
    /\ Remember(command)
    /\ history' = Append(history, command)

\* Its answer is the state as it is.
Repeat(command) == Known(command) /\ UNCHANGED budgetVars

-----------------------------------------------------------------------------
(***************************************************************************)
(* Two environments.  One delivers anything at any time.  The other issues *)
(* the commands of a payment in their order, each once, and repeats a      *)
(* command as often as it likes while the object remembers it.             *)
(***************************************************************************)
Deliver ==
    /\ Len(history) < MaxDeliveries
    /\ \E command \in BudgetCommands : Apply(command) \/ Repeat(command)

Issued(payment, kind) == [payment |-> payment, kind |-> kind] \in ToSet(history)
Settled(payment) == Issued(payment, "consume") \/ Issued(payment, "release")

DeliverInOrder ==
    \E command \in BudgetCommands :
      \/ /\ command \notin ToSet(history)
         /\ IF command.kind = "reserve" THEN TRUE
            ELSE Issued(command.payment, "reserve") /\ ~ Settled(command.payment)
         /\ Apply(command)
      \/ Repeat(command)

-----------------------------------------------------------------------------
(***************************************************************************)
(* Properties.                                                             *)
(***************************************************************************)
\* A command is only applied again after so many others that the object had
\* to forget it, however deliveries are repeated and mixed.
AppliedAgainOnlyIfForgotten ==
    \A i, j \in DOMAIN history :
      i < j /\ history[i] = history[j] => j - i > Memory

AmountOf(payments) == MapThenSumSet(LAMBDA payment : Amount[payment], payments)

\* For commands that come in order the object is exact: it holds what is
\* reserved and not settled, and has spent what was consumed, once each.
BudgetIsExact ==
    /\ reservedCents = AmountOf({p \in Payments : Issued(p, "reserve") /\ ~ Settled(p)})
    /\ consumedCents = AmountOf({p \in Payments : Issued(p, "consume")})
=============================================================================
