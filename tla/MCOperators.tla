----------------------------- MODULE MCOperators -----------------------------
(***************************************************************************)
(* What operators see and do before the ledger is reached, on small        *)
(* instances: their profile and wallets at the server (OperatorAccess),    *)
(* the two places of the console that link a wallet (WalletPanel,          *)
(* ConsoleWallet), the session of a tab (ConsoleSession), and the          *)
(* readiness report of a deployment (Readiness).  The five share no state; *)
(* which one a behaviour is about is chosen in its initial state.          *)
(***************************************************************************)
EXTENDS OperatorAccess

CONSTANTS
    Chains, MaxLate,     \* of WalletPanel
    MaxNews, MaxLoads,   \* of ConsoleSession
    Vendors, Workloads, Environments   \* of Readiness

VARIABLES
    part,
    form, panel, controls, late, row,                          \* of WalletPanel
    hook, first, link, linked, arrived, behind,                       \* of ConsoleWallet
    stored, news, place, layout, check, held, dashboard, loads, holders,  \* of ConsoleSession
    env, work, database, chain, report, outcomes               \* of Readiness

Panel == INSTANCE WalletPanel WITH PanelWallets <- Wallets, NoRow <- NoWallet

Hook == INSTANCE ConsoleWallet WITH ConsoleWallets <- Wallets, NoConsoleWallet <- NoWallet

\* Users sign in with their wallets, one each.
Tab == INSTANCE ConsoleSession WITH Users <- Wallets, NoUser <- NoWallet, session <- held

Ready == INSTANCE Readiness

Contracts == {"treasury", "oracle", "feeds"}
Payees == {"token", "facilitator"}
Given == {"unset", "malformed", "valid"}

\* A deployment with everything set, and those that differ from it in one
\* group of settings.
FullySet ==
    [appEnv |-> "production", persistence |-> "unset", databaseUrl |-> TRUE,
     supabase |-> "valid", rpcUrl |-> "mainnet", explorerUrl |-> "unset",
     chainId |-> "mainnet", privateKey |-> "valid", registry |-> "valid",
     treasury |-> [setting \in Contracts \cup Payees |-> "unset"], decimals |-> "unset",
     agents |-> "unset", vendorUrl |-> [v \in Vendors |-> "public"],
     localVendors |-> FALSE, workerToken |-> TRUE, controlUrl |-> TRUE, dlq |-> TRUE]

OneVendor == CHOOSE v \in Vendors : TRUE

\* The settings of the contracts alike, and those of the payments.
TreasuryWith(contracts, payees) ==
    [setting \in Contracts \cup Payees |->
       IF setting \in Contracts THEN contracts ELSE payees]

MCEnvironments ==
    {[FullySet EXCEPT !.rpcUrl = rpc, !.explorerUrl = explorer, !.chainId = id] :
       rpc \in {"unset", "custom", "mainnet", "hoodi"}, explorer \in {"unset", "custom", "hoodi"},
       id \in {"unset", "malformed", "mainnet", "other"}}
    \cup {[FullySet EXCEPT !.privateKey = key, !.registry = address] :
            key \in {"unset", "placeholder", "malformed", "valid"},
            address \in {"unset", "malformed", "valid"}}
    \cup {[FullySet EXCEPT !.appEnv = app, !.persistence = mode, !.databaseUrl = url,
                            !.supabase = auth] :
            app \in {"test", "production"}, mode \in {"unset", "sqlite", "postgres"},
            url \in BOOLEAN, auth \in Given}
    \cup {[FullySet EXCEPT !.vendorUrl[OneVendor] = url, !.localVendors = allowed] :
            url \in {"unset", "malformed", "local", "public"}, allowed \in BOOLEAN}
    \cup {[FullySet EXCEPT !.workerToken = token, !.controlUrl = url, !.dlq = dlq] :
            token \in BOOLEAN, url \in BOOLEAN, dlq \in BOOLEAN}
    \cup {[FullySet EXCEPT !.treasury = TreasuryWith(contracts, payees), !.agents = "valid",
                            !.rpcUrl = rpc,
                            !.chainId = IF rpc = "hoodi" THEN "other" ELSE "mainnet"] :
            contracts \in Given, payees \in Given, rpc \in {"mainnet", "hoodi"}}
    \cup {[FullySet EXCEPT !.treasury = TreasuryWith("valid", payees), !.agents = agents,
                            !.decimals = decimals] :
            payees \in {"malformed", "valid"}, agents \in Given,
            decimals \in {"unset", "low", "valid", "huge"}}

\* A behaviour that is not about the deployment has a complete one.
ASSUME ReadinessSettings ==
    Ready!ReadinessAssumption /\ FullySet \in Environments /\ "none" \in Workloads

panelVars == <<form, panel, controls, late, row>>
hookVars == <<hook, first, link, linked, arrived, behind>>
tabVars == <<stored, news, place, layout, check, held, dashboard, loads, holders>>
readinessVars == <<env, work, database, chain, report, outcomes>>
operatorsVars == <<part, accessVars, panelVars, hookVars, tabVars, readinessVars>>

\* The parts that a behaviour is not about have one initial state each.
Idles(name, state) == part = name \/ state
OperatorsInit ==
    /\ part \in {"access", "panel", "hook", "tab", "readiness"}
    /\ AccessInit /\ Panel!PanelInit /\ Hook!HookInit /\ Tab!SessionInit /\ Ready!ReadyInit
    /\ Idles("access", user = "active" /\ identities = <<>>)
    /\ Idles("hook", ~ hook.authenticated /\ hook.external = NoWallet /\ linked = NoWallet)
    /\ Idles("tab", stored = NoWallet /\ place = "console")
    /\ Idles("readiness", env = FullySet /\ work = "none" /\ database /\ chain = "down")

OfAccess(step) ==
    part = "access" /\ step /\ UNCHANGED <<part, panelVars, hookVars, tabVars, readinessVars>>
OfPanel(step) ==
    part = "panel" /\ step /\ UNCHANGED <<part, accessVars, hookVars, tabVars, readinessVars>>
OfHook(step) ==
    part = "hook" /\ step /\ UNCHANGED <<part, accessVars, panelVars, tabVars, readinessVars>>
OfTab(step) ==
    part = "tab" /\ step /\ UNCHANGED <<part, accessVars, panelVars, hookVars, readinessVars>>
OfReadiness(step) ==
    part = "readiness" /\ step /\ UNCHANGED <<part, accessVars, panelVars, hookVars, tabVars>>

OperatorsNext ==
    \/ OfAccess(AccessNext) \/ OfPanel(Panel!PanelNext) \/ OfHook(Hook!HookNext)
    \/ OfTab(Tab!SessionNext) \/ OfReadiness(Ready!ReadyNext)

\* Requests, and wallets with their users, may be exchanged.
Symmetry == Permutations(Requests) \cup Permutations(Wallets)

OperatorsSpec == OperatorsInit /\ [][OperatorsNext]_operatorsVars

-----------------------------------------------------------------------------
\* What the panel saves is a wallet with its own binding (WalletPanel).
SavedBindingIsItsWallets == Panel!SavedBindingIsItsWallets

\* A wallet that connects for a link is linked, or tried again, unless another
\* one went before it (ConsoleWallet).
ArrivedIsLinked == Hook!ArrivedIsLinked

\* A page of the console shows no data of a session that ended (ConsoleSession).
DataIsOfSession == Tab!DataIsOfSession

\* A deployment that reports "ok" refuses nothing for its configuration
\* (Readiness).
ReadyIsOperational == Ready!ReadyIsOperational
=============================================================================
