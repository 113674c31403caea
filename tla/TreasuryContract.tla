--------------------------- MODULE TreasuryContract ---------------------------
(***************************************************************************)
(* Mandate402Treasury.sol for one agent and one token: the spend window in *)
(* USD, the price feed, the facilitators, the kill switch and the          *)
(* governance that configures them.  Calls revert or run in one step.      *)
(***************************************************************************)
EXTENDS Integers, Sequences, FiniteSets, Functions, FiniteSetsExt

CONSTANTS
    Facilitators,
    Owners,            \* accounts that may come to be governanceOwner
    TokenAmounts,
    Prices,            \* prices the feed may publish; not all are positive
    Caps,              \* maxUsdSpendPerWindow
    Durations,         \* windowDuration
    PriceUnit,         \* USD_DECIMALS
    PriceScale,        \* priceScale times ten to the power of the decimals
    MaxPriceAge,       \* MAX_PRICE_AGE_SECONDS
    MaxTime,           \* bound on the time
    MaxPayments        \* bound on executed payments

\* The contract accepts any duration; one of 0 resets the window with every
\* payment, which leaves nothing of the limit.
ASSUME TreasuryAssumption ==
    /\ Durations \subseteq Nat \ {0}
    /\ PriceScale \in Nat \ {0} /\ PriceUnit \in Nat \ {0}

VARIABLES
    now,               \* block.timestamp
    mandate,           \* the configured AgentMandate
    spent,             \* currentWindowUsdSpent
    resetTime,         \* windowResetTime
    killed,            \* killSwitches[agent]
    approved,          \* approvedFacilitators[agent]
    governanceOwner,
    feed,              \* the last price and when it was published
    executed           \* history: the MandateExecuted events

configVars == <<mandate, killed, approved, governanceOwner>>
windowVars == <<spent, resetTime, executed>>
treasuryVars == <<now, configVars, windowVars, feed>>

TreasuryInit ==
    /\ now = 1
    /\ mandate = [max |-> 0, duration |-> 0, active |-> FALSE]
    /\ spent = 0
    /\ resetTime = 0
    /\ killed = FALSE
    /\ approved = {}
    /\ governanceOwner \in Owners
    /\ feed \in [price : Prices, published : {1}]
    /\ executed = <<>>

-----------------------------------------------------------------------------

\* calculateUsdValue: the division truncates.
UsdValue(amount, price) == (amount * price * PriceUnit) \div PriceScale

\* Mutant: the new window starts empty but the old one goes on.
ConfigureClears(caller, max, duration, active) ==
    /\ caller = governanceOwner
    /\ mandate' = [max |-> max, duration |-> duration, active |-> active]
    /\ resetTime' = now + duration
    /\ spent' = 0
    /\ UNCHANGED <<now, killed, approved, governanceOwner, executed, feed>>

\* A new window begins, with what was spent in the old one.
SetMandate(caller, max, duration, active) ==
    /\ caller = governanceOwner
    /\ mandate' = [max |-> max, duration |-> duration, active |-> active]
    /\ resetTime' = now + duration
    /\ UNCHANGED <<now, spent, killed, approved, governanceOwner, executed, feed>>

SetApprovedFacilitator(caller, facilitator, isApproved) ==
    /\ caller = governanceOwner
    /\ approved' = IF isApproved THEN approved \cup {facilitator}
                   ELSE approved \ {facilitator}
    /\ UNCHANGED <<now, mandate, killed, governanceOwner, windowVars, feed>>

SetKillSwitch(caller, enabled) ==
    /\ caller = governanceOwner
    /\ killed' = enabled
    /\ UNCHANGED <<now, mandate, approved, governanceOwner, windowVars, feed>>

TransferGovernance(caller, newOwner) ==
    /\ caller = governanceOwner
    /\ governanceOwner' = newOwner
    /\ UNCHANGED <<now, mandate, killed, approved, windowVars, feed>>

-----------------------------------------------------------------------------
WindowIsOver == now >= resetTime
SpentBefore == IF WindowIsOver THEN 0 ELSE spent

\* getPriceNoOlderThan reverts on an old price, the contract on one that is
\* not positive.
PriceIsUsable == now - feed.published <= MaxPriceAge /\ feed.price > 0

\* The calls of executeX402Payment that do not revert.
Accepts(facilitator, amount) ==
    /\ mandate.active /\ ~ killed /\ facilitator \in approved
    /\ PriceIsUsable
    /\ SpentBefore + UsdValue(amount, feed.price) <= mandate.max

NextResetTime == resetTime' = IF WindowIsOver THEN now + mandate.duration ELSE resetTime

\* A payment enters the window.
Spend(amount) ==
    LET usd == UsdValue(amount, feed.price) IN
    /\ spent' = SpentBefore + usd
    /\ NextResetTime
    /\ executed' = Append(executed, [time |-> now, usd |-> usd])
    /\ UNCHANGED <<now, configVars, feed>>

\* executeX402Payment may be called by any account.
ExecuteX402Payment(facilitator, amount) ==
    /\ Len(executed) < MaxPayments
    /\ Accepts(facilitator, amount)
    /\ Spend(amount)

-----------------------------------------------------------------------------
\* Time passes, and the price feed publishes.
Tick ==
    /\ now < MaxTime
    /\ now' = now + 1
    /\ UNCHANGED <<configVars, windowVars, feed>>

PublishPrice(price) ==
    /\ feed' = [price |-> price, published |-> now]
    /\ UNCHANGED <<now, configVars, windowVars>>

Govern ==
    \E caller \in Owners :
      \/ \E max \in Caps, duration \in Durations, active \in BOOLEAN :
           SetMandate(caller, max, duration, active)
      \/ \E facilitator \in Facilitators, isApproved \in BOOLEAN :
           SetApprovedFacilitator(caller, facilitator, isApproved)
      \/ \E enabled \in BOOLEAN : SetKillSwitch(caller, enabled)
      \/ \E newOwner \in Owners : TransferGovernance(caller, newOwner)

TreasuryNext ==
    \/ Govern
    \/ \E facilitator \in Facilitators, amount \in TokenAmounts :
         ExecuteX402Payment(facilitator, amount)
    \/ Tick
    \/ \E price \in Prices : PublishPrice(price)

TreasurySpec == TreasuryInit /\ [][TreasuryNext]_treasuryVars

-----------------------------------------------------------------------------
(***************************************************************************)
(* Properties.                                                             *)
(***************************************************************************)
\* The payments of an interval of the shortest duration.
Interval(start) ==
    {i \in DOMAIN executed :
       executed[i].time \in start .. start + Min(Durations) - 1}

\* However payments are placed in time, and whatever governance configures in
\* between, no interval as long as the shortest window sees more than twice
\* the largest cap: the rest of one window and a full one.
SpendRateIsBounded ==
    \A start \in 1 .. MaxTime :
      MapThenSumSet(LAMBDA i : executed[i].usd, Interval(start)) <= 2 * Max(Caps)
=============================================================================
