----------------------------- MODULE MCTreasury -----------------------------
(***************************************************************************)
(* The treasury on small instances: the attempts of an agent with the      *)
(* store around them, and the contract by itself, called by anyone and     *)
(* with more prices, amounts and limits.  Which one a behaviour is about   *)
(* is chosen in its initial state.                                         *)
(***************************************************************************)
EXTENDS TreasuryAttempts

\* What the contract by itself may be called with and configured to.
CONSTANTS
    AloneAmounts, AlonePrices, AloneCaps, AloneDurations, AloneScale, AloneMaxTime

ASSUME AloneAssumption ==
    /\ AloneAmounts \subseteq Nat /\ AlonePrices \subseteq Int
    /\ AloneCaps \subseteq Nat /\ AloneDurations \subseteq Nat \ {0}
    /\ AloneScale \in Nat \ {0}
    /\ \E cap \in AloneCaps : \A c \in AloneCaps : cap >= c
    /\ \E duration \in AloneDurations : \A d \in AloneDurations : duration <= d

VARIABLES alone

Contract ==
    INSTANCE TreasuryContract WITH
      TokenAmounts <- AloneAmounts, Prices <- AlonePrices, Caps <- AloneCaps,
      Durations <- AloneDurations, PriceScale <- AloneScale, MaxTime <- AloneMaxTime

MCTreasuryInit ==
    /\ alone \in BOOLEAN
    /\ \/ ~ alone /\ Init
       \/ /\ alone /\ Contract!TreasuryInit
          /\ mode = "enabled" /\ calm = TRUE /\ faults = 0
          /\ attempt = [i \in Identifiers |-> "none"] /\ op = NoOp
          /\ enforced = [i \in Identifiers |-> NoTx]
          /\ mempool = <<>> /\ receipt = <<>> /\ sentFor = <<>>

ContractStep == alone /\ Contract!TreasuryNext /\ UnchangedByEnvironment /\ UNCHANGED calm

MCTreasuryNext ==
    \/ ~ alone /\ Next /\ UNCHANGED alone
    \/ ContractStep /\ UNCHANGED alone

MCTreasurySpec == MCTreasuryInit /\ [][MCTreasuryNext]_<<alone, attemptVars>>

-----------------------------------------------------------------------------
\* However payments are placed in time, and whatever governance configures in
\* between, no interval as long as the shortest window sees more than twice
\* the largest cap: the rest of one window and a full one.
SpendRateStaysBounded == alone => Contract!SpendRateIsBounded
=============================================================================
