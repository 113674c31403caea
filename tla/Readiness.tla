----------------------------- MODULE Readiness -----------------------------
(***************************************************************************)
(* What GET /api/system says of a deployment, and what the deployment then *)
(* does.  A process reads its settings from the environment, which does    *)
(* not change while it runs.  The report judges the settings by checks of  *)
(* its own (env.ts, networks.ts, contracts.ts, health.ts,                  *)
(* production-readiness.ts, system-status.ts), the operations by others,   *)
(* when they are called.  The report is put together in three steps,       *)
(* between which the store, the database and the chain change.             *)
(*                                                                         *)
(* A setting is a member of the classes that the checks tell apart; one is *)
(* malformed if a check of the report takes it for given and a library     *)
(* that uses it, or another check, does not accept it as it is.  The       *)
(* module is about running processes, not about the test runner, for which *)
(* some settings have other defaults.                                      *)
(***************************************************************************)
EXTENDS FiniteSets

CONSTANTS
    Vendors,        \* the primary vendors
    Environments,   \* settings that processes are started with
    Workloads       \* what the store holds: members of WorkloadClasses

\* Host names of Morph's networks in the RPC and explorer URLs.
Networks == {"mainnet", "hoodi"}
TreasurySettings == {"treasury", "oracle", "feeds", "token", "facilitator"}
WorkloadClasses == {"none", "queued", "unknown", "stale_unknown", "corrupt"}

Given == {"unset", "malformed", "valid"}

EnvironmentRecords ==
    [appEnv : {"test", "production"}, persistence : {"unset", "sqlite", "postgres"},
     databaseUrl : BOOLEAN, supabase : Given,
     rpcUrl : Networks \cup {"unset", "custom"},
     explorerUrl : Networks \cup {"unset", "custom"},
     chainId : {"unset", "malformed", "mainnet", "other"},
     privateKey : {"unset", "placeholder", "malformed", "valid"},
     registry : Given, treasury : [TreasurySettings -> Given],
     decimals : {"unset", "low", "valid", "huge"}, agents : Given,
     vendorUrl : [Vendors -> {"unset", "malformed", "local", "public"}],
     localVendors : BOOLEAN, workerToken : BOOLEAN, controlUrl : BOOLEAN, dlq : BOOLEAN]

ReadinessAssumption ==
    Environments \subseteq EnvironmentRecords /\ Workloads \subseteq WorkloadClasses

VARIABLES
    env,        \* the settings of the process
    work,       \* what is in the store
    database,   \* the database answers
    chain,      \* the RPC endpoint: "down", or the chain it serves
    report,     \* the request for the system status
    outcomes    \* how operations have ended so far

readyVars == <<env, work, database, chain, report, outcomes>>

NoReport == [step |-> "none", work |-> "none", probe |-> "none", status |-> "none"]

ReadyInit ==
    /\ env \in Environments
    /\ work \in Workloads
    /\ database \in BOOLEAN
    /\ chain \in {"down", "mainnet", "other"}
    /\ report = NoReport
    /\ outcomes = {}

-----------------------------------------------------------------------------
\* The settings as the code reads them.
IsProduction == env.appEnv = "production"

PersistenceMode ==
    IF env.persistence # "unset" THEN env.persistence
    ELSE IF IsProduction THEN "postgres" ELSE "sqlite"

\* Outside of tests, every use of the store insists on Postgres.
StoreOpens == PersistenceMode = "postgres" /\ env.databaseUrl

NetworkKey ==
    IF "hoodi" \in {env.rpcUrl, env.explorerUrl} THEN "hoodi"
    ELSE IF "mainnet" \in {env.chainId, env.rpcUrl, env.explorerUrl} THEN "mainnet"
    ELSE "custom"

\* The active network: what is not set comes from the manifest of the network
\* that the other settings point to.  Only mainnet has a default chain id.
HasChainId == env.chainId \in {"mainnet", "other"}
ActiveChainId ==
    IF HasChainId THEN env.chainId ELSE IF NetworkKey = "mainnet" THEN "mainnet" ELSE "none"
HasActiveRpc == env.rpcUrl # "unset" \/ NetworkKey \in Networks

HasSigner == env.privateKey \in {"malformed", "valid"}

\* Mutant: any text is taken for an address.
RegistryIsAnyText == env.registry # "unset"
RegistryConfigured == env.registry = "valid"

\* The treasury is deployed on Hoodi at known addresses, which a malformed one
\* does not give way to.  Feeds, token and facilitator need only begin with 0x.
Provided(setting) ==
    LET given == env.treasury[setting] IN
      CASE setting \in {"treasury", "oracle"}
             -> given = "valid" \/ (given = "unset" /\ NetworkKey = "hoodi")
        [] setting = "feeds" -> given # "unset" \/ NetworkKey = "hoodi"
        [] OTHER -> given # "unset"

\* The decimals of the token have a default, and need two places for cents.
TreasuryMode ==
    IF \E setting \in {"treasury", "oracle", "feeds"} : ~ Provided(setting) THEN "not_configured"
    ELSE IF (\A setting \in TreasurySettings : Provided(setting)) /\ env.decimals # "low"
         THEN "enabled" ELSE "prepared_only"

HasEndpoint(v) == env.vendorUrl[v] # "unset"
SomeLocal == \E v \in Vendors : env.vendorUrl[v] = "local"

-----------------------------------------------------------------------------
(***************************************************************************)
(* The report.                                                             *)
(***************************************************************************)
AnchoringReady ==
    HasActiveRpc /\ ActiveChainId # "none" /\ HasSigner /\ RegistryConfigured

ProbeAttempted == IsProduction /\ HasActiveRpc /\ ActiveChainId # "none"

BlockchainReady(probe) ==
    /\ IsProduction /\ HasActiveRpc /\ ActiveChainId # "none"
    /\ RegistryConfigured /\ HasSigner
    /\ probe \notin {"failed", "mismatch"}

PrimaryVendorsReady ==
    IsProduction =>
      (\A v \in Vendors : HasEndpoint(v)) /\ (SomeLocal => env.localVendors)

\* Without settings Supabase has defaults, except in production.
OperatorAuthReady == env.supabase # "unset" \/ ~ IsProduction

\* The reasons that are critical, by their codes.
CriticalReasons(seen, postgres) ==
    [postgres_persistence_required |-> IsProduction /\ PersistenceMode # "postgres",
     postgres_url_missing |-> PersistenceMode = "postgres" /\ ~ env.databaseUrl,
     postgres_unreachable |-> StoreOpens /\ ~ postgres,
     operator_auth_not_configured |-> ~ OperatorAuthReady,
     morph_anchoring_not_ready |-> IsProduction /\ ~ AnchoringReady,
     primary_vendor_urls_missing |-> IsProduction /\ \E v \in Vendors : ~ HasEndpoint(v),
     primary_vendor_local_only |-> SomeLocal /\ ~ env.localVendors,
     worker_token_missing |-> ~ env.workerToken,
     worker_control_api_missing |-> ~ env.controlUrl,
     worker_dlq_not_configured |-> ~ env.dlq,
     stale_execution_unknown |-> seen.work = "stale_unknown",
     store_integrity |-> seen.work = "corrupt"]

WorkerReady(seen, postgres) ==
    /\ StoreOpens /\ postgres
    /\ env.workerToken /\ env.controlUrl /\ env.dlq
    /\ seen.work \notin {"queued", "stale_unknown"}

ReadinessOk(seen, postgres) ==
    /\ \A code \in DOMAIN CriticalReasons(seen, postgres) :
         ~ CriticalReasons(seen, postgres)[code]
    /\ StoreOpens /\ postgres
    /\ OperatorAuthReady /\ AnchoringReady /\ PrimaryVendorsReady
    /\ WorkerReady(seen, postgres)

SystemOk(seen, postgres) ==
    /\ ReadinessOk(seen, postgres)
    /\ BlockchainReady(seen.probe)
    /\ seen.work = "none"
    /\ IsProduction => \A v \in Vendors : HasEndpoint(v) /\ ~ SomeLocal

\* The store is read first: without it there is no report at all.
ReadForStatus ==
    /\ report.step \in {"none", "done"}
    /\ report' = IF StoreOpens /\ database
                 THEN [NoReport EXCEPT !.step = "chain", !.work = work]
                 ELSE [NoReport EXCEPT !.step = "done", !.status = "throws"]
    /\ UNCHANGED <<env, work, database, chain, outcomes>>

ProbeChain ==
    /\ report.step = "chain"
    /\ report' =
         [report EXCEPT
            !.step = "postgres",
            !.probe = IF ~ ProbeAttempted THEN "none"
                      ELSE IF chain = "down" THEN "failed"
                      ELSE IF chain = ActiveChainId THEN "match" ELSE "mismatch"]
    /\ UNCHANGED <<env, work, database, chain, outcomes>>

ProbePostgres ==
    /\ report.step = "postgres"
    /\ report' =
         [report EXCEPT !.step = "done",
                        !.status = IF SystemOk(report, database) THEN "ok" ELSE "degraded"]
    /\ UNCHANGED <<env, work, database, chain, outcomes>>

-----------------------------------------------------------------------------
(***************************************************************************)
(* The operations, each with the checks that it makes itself.              *)
(***************************************************************************)
\* writeAnchor knows no network defaults.  Outside of production it invents a
\* hash when something is missing.
AnchorConfigured ==
    env.rpcUrl # "unset" /\ HasSigner /\ env.registry # "unset" /\ HasChainId
AnchorAccepts ==
    IF AnchorConfigured
    THEN env.privateKey = "valid" /\ env.registry = "valid"
    ELSE ~ IsProduction

\* enforceTreasuryExecution stands aside unless everything is configured; the
\* call of the contract encodes three addresses and an amount of the token.
TreasuryAccepts ==
    TreasuryMode = "enabled" =>
      /\ env.agents = "valid"
      /\ env.privateKey = "valid"
      /\ HasActiveRpc /\ ActiveChainId # "none"
      /\ env.treasury["token"] = "valid" /\ env.treasury["facilitator"] = "valid"
      /\ env.decimals # "huge"

\* A request can be made for the vendor's endpoint, or its status endpoint.
CanAsk(v) == env.vendorUrl[v] \notin {"unset", "malformed"}

\* The signer of payments, then the vendor's endpoint.
DispatchAccepts == env.privateKey = "valid" /\ \A v \in Vendors : CanAsk(v)

\* The client of the auth provider is made from its address.
AuthAccepts == OperatorAuthReady /\ env.supabase # "malformed"

Accepts ==
    [sign_in |-> AuthAccepts,
     create_mandate |-> StoreOpens /\ AnchorAccepts,
     run_attempt |-> StoreOpens /\ TreasuryAccepts,
     dispatch |-> StoreOpens /\ DispatchAccepts,
     reconcile |-> StoreOpens /\ \A v \in Vendors : CanAsk(v),
     drain |-> env.workerToken]

\* An operation while everything around the process is up: what stops it then
\* is the configuration.
Operate(operation) ==
    /\ database /\ chain # "down"
    /\ outcomes' = outcomes \cup {IF Accepts[operation] THEN "done" ELSE "refused"}
    /\ UNCHANGED <<env, work, database, chain, report>>

WorldChanges ==
    /\ \/ work' \in Workloads \ {work} /\ UNCHANGED <<database, chain>>
       \/ database' = ~ database /\ UNCHANGED <<work, chain>>
       \/ chain' \in {"down", "mainnet", "other"} \ {chain} /\ UNCHANGED <<work, database>>
    /\ UNCHANGED <<env, report, outcomes>>

ReadyNext ==
    \/ ReadForStatus \/ ProbeChain \/ ProbePostgres
    \/ \E operation \in DOMAIN Accepts : Operate(operation)
    \/ WorldChanges

-----------------------------------------------------------------------------
\* What the report takes for good unseen, and operations do not: the RPC
\* endpoint and the chain left to defaults that only the report knows; a key, an
\* auth provider or a vendor that is given but malformed; and of an enabled
\* treasury the agents, which it does not look at (a warning tells those that
\* are not set), addresses that only begin with 0x, and an amount of the token
\* that its decimals make too large to encode.
SettingsAreWellFormed ==
    /\ env.rpcUrl # "unset" /\ HasChainId
    /\ env.privateKey # "malformed" /\ env.supabase # "malformed"
    /\ \A v \in Vendors : env.vendorUrl[v] # "malformed"
    /\ TreasuryMode = "enabled" =>
         /\ env.agents = "valid"
         /\ env.treasury["token"] # "malformed" /\ env.treasury["facilitator"] # "malformed"
         /\ env.decimals # "huge"

\* A deployment that has once reported "ok" refuses no operation for its
\* configuration, whenever it was asked and whatever changed since: apart from
\* the settings named above, the report's checks and those of the operations,
\* written twice, agree.
ReadyIsOperational ==
    (report.status = "ok" /\ SettingsAreWellFormed) => "refused" \notin outcomes
=============================================================================
