# A formal model of the Mandate402 payment runtime

Mandate402 lets an agent spend money under a *mandate*: a budget with a cap, a
list of approved vendors and an expiry.  Operators sign in, link a treasury
wallet, issue and revoke mandates and ask for payment attempts; the policy and
the on-chain treasury decide; workers call the vendor over x402, write down what
happened, and reconcile later what they could not learn at once.  This
directory holds TLA+ modules of that system, the TLC runs that check them and
the proofs that TLAPS checks.

Paths below are relative to the repository.

## Inventory

| Component | Source | State | Operations | Talks to |
|---|---|---|---|---|
| Lifecycle tables, policy | `src/lib/domain/state-machines.ts`, `src/lib/modules/policy.ts` | none | transition checks, `mandateCanReserve`, `evaluatePolicy` | called by all below |
| Mandates and attempts | `src/lib/modules/mandates.ts` | `mandates`, `attempts` rows | `createMandate`, `revokeMandate`, `runAttempt` | store, registry contract, treasury |
| Worker tasks and workers | `src/lib/modules/execution-worker.ts` | `workerTasks` rows; what a drain holds between awaits | lease, claim, preflight, dispatch, apply, release, reconcile, requeue, complete, fail | store, vendor client |
| Vendor and facilitator client | `src/lib/modules/payments.ts` | none | `dispatchAttempt`, `correlateAttemptStatus` | merchant, facilitator |
| Merchant | `main.go` | payment records in memory | paid handlers, status | facilitator, data provider |
| SQLite store | `src/lib/infrastructure/store.ts` | tables, a chain of promises | `withStoreLock`, `readStore` | - |
| Postgres store | `src/lib/infrastructure/postgres-store.ts`, `db/migrations` | tables, pool, advisory lock, ledger of migrations | `withPostgresStoreLock`, `readStorePostgres`, the bootstrap of the schema | Postgres |
| Store integrity | `src/lib/infrastructure/store-integrity.ts` | none | the check before every write and after every read | stores |
| Cloudflare worker | `src/workers/mandate402.ts`, `wrangler.worker.toml` | queues, control events, `MandateBudgetLockDurableObject` | schedule, enqueue, queue handler, reserve/consume/release | worker routes of the API |
| Treasury client and contract | `src/lib/blockchain/treasury.ts`, `contracts/src/Mandate402Treasury.sol` | spend per agent and window | `enforceTreasuryExecution`, `setMandate`, `executeX402Payment` | chain, price oracle |
| Registry and anchors | `src/lib/modules/morph-anchor.ts`, `contracts/src/MandateRegistry.sol` | issue and revoke records on chain | `writeAnchor` | `createMandate`, `revokeMandate` |
| Authentication, wallet linking | `src/lib/modules/auth.ts`, `src/lib/operator-access.ts`, `src/lib/infrastructure/supabase-*.ts`, migrations 0003 and 0004 | profiles, identities, wallet accounts | `requireOperator`, provisioning, triggers, `linkTreasuryWalletAccount` | auth provider, routes, console |
| Console | `src/components`, `src/hooks` | forms, sessions, loaded data of a tab | the wallet form, the linking hook, the gates | API, wallet providers, auth client |
| Settings and readiness | `src/lib/infrastructure/env.ts`, `production-readiness.ts`, `system-status.ts`, `src/lib/blockchain` | environment | `getSystemStatus` | store, database, chain |
| API routes | `src/app/api` | rate limits | parsing and checks in front of the operations | all of the above |
| Fallback gate, grouped approvals | `src/lib/infrastructure/fallback-gate.ts` | a file | read and judged | readiness, display |
| Agent SDK | `agent-sdk` | none | client calls | API |

What is hard, and what makes each part correct:

* **Mandates and attempts.**  Two lifecycles and two counters (`reservedCents`,
  `consumedCents`) are written by eight transactions in any order.  Correct: the
  cap is never exceeded, what is reserved is backed by exactly one attempt, outcomes
  are final, a closed mandate stays closed, the total is the sum of what charged attempts name.
* **Workers.**  Drains run concurrently, hold their reads across awaits, lose leases
  while they work, stop anywhere, and see writes fail.  Correct: a vendor is called
  at most once per attempt and only while the budget is held; nothing is forgotten;
  the books say what the vendor did; everything ends.
* **Vendors.**  Answers get lost, late or never come.  Correct: an unclear outcome
  is reconciled, a definite result is true.
* **Stores.**  Many statements over shared connections, several processes, no
  transaction around reads.  Correct: callbacks are atomic, connections come back
  clean, what is written is what is read.
* **Chain and store.**  Two systems without a common transaction.  Correct: the
  store is never ahead of the chain, and without faults they agree.
* **Queue and budget lock.**  At-least-once delivery, a bounded memory.  Correct: no
  command vanishes unseen or counts twice while it is remembered.
* **Operators.**  Several statements without a transaction, several writers, several
  tabs, answers in any order.  Correct: who governs has a wallet, a binding belongs
  to its wallet, a page shows nobody's data whose session ended, a deployment that reports ok works.

## Modules

    MandateStates              pure decision rules
      MandateLedger            store transactions        --refines-->  PaymentLedger
        WorkerTasks            the task queue
          ExecutionWorker      the workers, composed with ledger and queue
    StoreRows                  rows, keys, columns, the integrity check
      StoreWrites              writing whole stores
      PostgresStore            statements, pool, lock    --refines-->  AtomicStore
      StoreLock                SQLite's promise chain    --refines-->  AtomicStore
    SchemaBootstrap            the Postgres schema
    TreasuryContract
      TreasuryAttempts         runAttempt around the contract
    MandateAnchoring           registry contract, anchors, store
    VendorExchange             x402 client, merchant, facilitator
    WorkerQueue, BudgetLock    the Cloudflare worker
    OperatorAccess             profiles, requests, wallet linking at the server
    WalletPanel, ConsoleWallet, ConsoleSession    the console
    Readiness                  settings, report, operations

* **`MandateStates`** translates the transition tables, the policy and two small
  functions of the workers.  A lifecycle is a set of pairs.
* **`PaymentLedger`** is the contract: what the runtime promises about money, with
  nothing of how.  An authority is opened with a limit and closed for good; a
  payment holds budget once, and its hold is settled for at most the held
  amount or returned in full.  It is not a translation of code.
* **`MandateLedger`** has the mandates and attempts of the store, and one action per
  transaction on them.  Every store access of the code is a `withStoreLock`
  callback, run under one lock and written back as a whole or not at all (which is
  what `AtomicStore` states and the two store modules show), so an action is the
  whole callback.  The transactions may come in any order here, which is more than
  the workers do.
* **`WorkerTasks`** adds `workerTasks` as a sequence, oldest first, and what the
  lease, complete, fail and requeue transactions do to it.
* **`ExecutionWorker`** adds the workers.  Each has a program counter and what it
  has read; each store transaction, each vendor call and each decision on a
  value read earlier is a step.  It conjoins the ledger's actions with those of
  the queue wherever one transaction does both.
* **`StoreRows`** has the store as the program holds it (records in collections) and
  as the database does (rows in tables), both directions of the mapping,
  every rule of `buildStoreIntegrityReport` (`Intact`) and the keys and columns of
  the schema (`SchemaHolds`).  **`StoreWrites`** lets callbacks do anything to the
  store and writes it as `writeStoreToClient` does: row by row, table by table, upserts
  before deletions, each statement judged by the keys on what the ones before it left.
* **`AtomicStore`** is the contract of `withStoreLock`: callbacks one after the other,
  and who is told of success has it stored.  A call that is told of failure may
  have taken effect, since an answer to COMMIT may be lost.
* **`PostgresStore`** has one step per statement, over connections of a pool with an
  advisory lock, under READ COMMITTED.  `readStorePostgres` does not await its read
  before `finally` releases the connection, and so does the model: a reader uses a
  connection that lies in the pool or serves a writer.
* **`StoreLock`** is the promise chain of `store.ts`.  **`SchemaBootstrap`** is
  `ensurePostgresSchema`: inference of what another tool has applied, files in order,
  one transaction, a promise per process that is thrown away when it fails.
* **`TreasuryContract`** translates the Solidity functions for one agent and one
  token; `executed` is a history of payments.  **`TreasuryAttempts`** puts
  `enforceTreasuryExecution` and the store's commit around it, with a mempool.
* **`MandateAnchoring`** has the registry, a mempool, the store and the handler that
  holds the store's lock while it waits for a receipt.
* **`VendorExchange`** follows `postToVendor` and the handlers of `main.go` for each
  payment: an answer that asks for nothing, or challenge, signature, verification, record,
  settlement, answer; then the status request and the facilitator's verdict, which may be wrong.
  The x402 middleware, which is a library, settles after the handler.
* **`WorkerQueue`** has the worker queue and the dead letter queue of
  `wrangler.worker.toml`, batches, control events, the schedule.  **`BudgetLock`**
  has the durable object and two environments.
* **`OperatorAccess`** has a profile, wallet accounts, the triggers that follow the
  auth provider's tables, and requests as sequences of statements.
* **`WalletPanel`**, **`ConsoleWallet`** and **`ConsoleSession`** have the state that
  the components keep between renderings and the calls under way; a React effect is
  part of the step that changes what it depends on.  In `ConsoleSession` the gate of the
  layout opens and closes the page around whose gate the data is loaded; a page that is closed
  loses its state while its calls go on.
* **`Readiness`** evaluates the settings twice, as the report does and as the
  operations do.
* The **`Proofs`** modules hold the theorems: `ExecutionWorkerProofs` those on the ledger, the
  queue of tasks and the workers, `LateAnswersProofs` on anchors and the exchange with the
  merchant, `TreasuryProofs`, `CloudflareProofs` and `OperatorsProofs` on the parts their names
  say, `StoresProofs` on the two stores and the bootstrap, `StoreWritesProofs` on writing a store.
  **`CollectionFacts`** has the lemmas on sums and sequences that they share.
* The **`MC`** modules hold instances for TLC.  Five of them join modules that share no
  state (the two stores and the bootstrap, the two calls that wait, the treasury
  with and without its callers, queues and budget lock, the five parts of
  the operators' side): the initial state chooses which one a behaviour is about, and
  the others stand still.

How state corresponds to code: an attempt is named by its payment identifier; a request
that repeats one changes nothing in the ledger.  Time is not counted except in the
treasury contract, where windows are about it: elsewhere each comparison with the
clock is a flag or an action that may happen once it can be true (`pastExpiry`, the
task statuses `delayed` and `lapsed`, an attempt's `window`, the time-outs).
`attempts[a].settled` is `finalAmountCents` of the newest `financial_outcome` event, which
names an amount for failed and unknown outcomes too (the claimed one if none is reported);
`artifacts` whether the stored reconciliation event carries a signed payment.
`vendor[a]`, `paid`, `receipt` and `executed` are what really happened outside, which the
code learns only through answers.  History variables are named as such where they are
declared.  Audit entries, wording, correlation ids, hashes, signatures and encodings are
left out: no guard reads them.

Faults are constants: each run says which of them may happen.  A time-out, a silent
vendor, a refusal and an expiring lease need no fault: they are always possible.

Definitions introduced by a comment "Mutant" are slips of the definition below
them.  No specification uses them; putting one in the place of its definition
makes a property fail, which shows that the property says something of the code.

## Runs

| Run | Instance | What it shows |
|---|---|---|
| `mandate_ledger` | 2 mandates, 2 attempts, 2 vendors, caps 1 and 3, amounts 1 and 2, reports of nothing (`NoReport`), 1 and 5 | `BudgetNeverExceeded`, `ReservationBacked`, `StatusMatchesReservation`, `ConsumedIsAccounted` and the refinement of `PaymentLedger`, under every order of transactions |
| `worker_safety` | 1 attempt, 2 workers of each kind, all faults | One vendor call at most (`AtMostOneDispatch`), only while the attempt is dispatching and its budget held; stale answers change no outcome; no attempt is forgotten |
| `worker_truth` | 2 attempts on 1 mandate, 1 worker of each kind, crashes | `BooksTellTheTruth`: charged, failed and released mean that the vendor charged, refused or was never called |
| `worker_liveness` | the same without faults, fairness | Every attempt is resolved or escalated, every task ends |
| `stores` | Postgres: 3 writers and a reader in 2 processes, a connection each, failing statements, one fragile connection. SQLite: 4 writers and a reader. Bootstrap: 2 processes, 2 requests each, 1 restart, 5 databases to start from | `StoresAreAtomic` (both refine `AtomicStore`), `ConnectionsAreAccountedFor`, every call ends, the ledger of migrations is true (`RecordedIsThere`), every process gets its schema |
| `store_writes` | 1 agent, 2 mandates in 5 variants, 2 attempts, 3 tasks, an audit entry, 2 events, sound and broken, integers up to 3 | `ReadBackIsWritten`, `CheckedStoresAreStorable`, `StoredIsIntact` |
| `treasury` | 2 identifiers, 3 transactions, 1 fault, governance by 2 owners; the contract alone with 3 payments in 4 units of time, prices 0, 1 and 5 with truncation | `ReservedIsSettled`, `StoreAgreesWithTreasury`, `SpendRateStaysBounded` |
| `late_answers` | 2 mandates, 5 transactions, 3 faults; one fast and one slow payment, every fault of vendor, merchant and facilitator, 1 restart of the merchant | `StoreFollowsChain`, `LockIsReleased`; `DefiniteResultsAreTrue`, `SignedPaymentsAreReconciled` |
| `cloudflare` | a command and a foreign message, 2 handlers, batches of 2, 1 retry, 2 faults; budget commands of 2 payments in any order with a memory of 3, of 4 payments in order | `GoneIsRecorded`, `EveryCommandEnds`, `EveryTaskIsDrained`; `AppliedAgainOnlyIfForgotten`, `BudgetIsExact` |
| `operators` | 2 requests, 2 wallets, 2 faults, 1 update by the auth provider; the form with 2 wallets and 2 chains; the hook; a tab with 2 loads and 2 unheard changes of other tabs; some hundred deployments | `GovernedMeansWallet`, `LoneLinkRepairs`, `SavedBindingIsItsWallets`, `ArrivedIsLinked`, `DataIsOfSession`, `ReadyIsOperational` |
| `released_charge` | 1 attempt, 1 worker of each kind, failing writes | violation: a charged attempt is released |
| `double_spend` | 2 identifiers, 2 transactions, 1 failing commit | violation: an identifier is spent twice |

**Bounds and why they are enough.**

* *Ledger and workers.*  A mandate holds one reservation, so two attempts are what it
  takes for one to wait for, follow or collide with another, and two mandates for a
  transaction to touch the wrong one.  Cap 3 with amount 2 lets a second payment through
  only if the first settled for less; a report of 5 is more than any cap.  The workers' runs take a cap of 4 and vendors
  that report nothing, `released_charge` also one that reports less than was claimed: what
  reports do to the books is the subject of `mandate_ledger`.  Two
  workers of a kind are what a lost lease needs: its old and its new holder.
  `MaxTasks` bounds only the reconcile tasks that operators add by hand.
* *Stores.*  A reader needs one other user of its connection, a writer one other
  holder of the lock; three writers are two that depend on the first, and one
  of them shares its process with the reader.  Two processes are what a race of
  bootstraps needs.
* *Chain.*  Two mandates keep a stale transaction of one apart from the other's;
  5 transactions are an issue and a revocation of each and one that is repeated.
  The contract's windows last 2 or 3 of 4 units of time, so that a window ends,
  is cut short and begins anew.  `MaxFaults` bounds faults; time-outs of a
  receipt are not counted.
* *Queues.*  Two handlers and batches of two are what it takes for a message to be
  abandoned with its batch.  A memory of 3 instead of 100 changes when the object
  forgets, not how; 6 deliveries pass it by 3.
* *Operators.*  Two wallets and two requests are one link against another.  Two
  loads are one under way and one that overtakes it.  Deployments differ
  from a complete one in one group of settings at a time; the checks join
  their groups by conjunctions only.

Symmetry is used where a run checks only safety and identifiers are interchangeable.
Deadlock is not checked where an instance stops when its identifiers or bounds are used
up; `store_writes` checks it.

**Fairness.**  Each worker is weakly fair in what it does without a fault: the cron trigger
of `wrangler.worker.toml` calls both worker routes every five minutes, and every
await ends, by a time-out of the code or, for the status request of a reconciliation,
of the HTTP runtime.  Leases, delays and the escalation window are weakly fair
because clocks go on.  Postgres answers statements with a result or an error, so a
call is weakly fair in the disjunction of both, and requests to a process keep coming, so
that a failed bootstrap is tried again.  A handler that waits for a receipt is weakly
fair because the wait itself times out; nothing is assumed of miners.  The reconciler of a
payment keeps asking the status endpoint, and the facilitator answers it something; that it
ever calls a payment invalid is not assumed, so a rejected payment may be asked for without end.  Queues deliver what
waits, the platform runs handlers and the schedule.  Operators may do nothing and vendors
may never settle: `EveryAttemptConcludes` counts an attempt as concluded that is unknown for
more than 15 minutes with no task left.

## Where documents and code part

Two disagreements have a run:

* **`released_charge`.**  `processNextQueuedAttempt` wraps the vendor call *and* the
  writes of its result in one `try`.  If the write fails after a charge, the catch
  block cancels the attempt and frees its reservation.
* **`double_spend`.**  `runAttempt` executes the treasury's spend before it commits the
  attempt, and the contract does not know the payment identifier: after a lost commit
  the same identifier is executed again.

The models contain the following behaviours too; the properties above are stated so
that they hold beside them, and say where they make an exception:

* An error of the vendor call other than a time-out is booked as a failed charge, even
  when the signed payment was already sent (`payments.ts:290`; `thrown` in
  `VendorExchange`).
* A worker that stops after its claim leaves the attempt `dispatching`: nobody can
  claim it again and it never becomes unknown (`execution-worker.ts:763`).
* Preflight and vendor call are not atomic, so a revocation in between does not stop
  the call (`execution-worker.ts:791`); the budget is still held.
* An invalid facilitator verdict resolves an unknown attempt as failed without the vendor's status
  endpoint, whatever made it invalid: also that the payment was settled or has expired
  (`payments.ts:401`; `misjudged` in `VendorExchange`).  Without a verdict a payment that the
  merchant turned away is asked for again and again, and answered 404 (`payments.ts:131`).
* A vendor that answers the first request with success is booked as charged although
  no payment was made (`payments.ts:203`; `unasked`).
* A read shares a connection it has given back; if one of its statements fails, the
  writer's transaction on it is aborted, its COMMIT rolls back without an error, and the caller
  is told of success (`postgres-store.ts:315`; with `"read_error"` in `Faults`,
  `StoresAreAtomic` fails).  A read may also see seven tables of different moments and be
  turned away by the integrity check.
* A mandate may be anchored and not stored; a revocation that reached the chain and not
  the store can never be stored (`mandates.ts:204`, `:260`).  The receipt's status is read neither
  by `writeAnchor` nor by `enforceTreasuryExecution` (`morph-anchor.ts:74`, `treasury.ts:172`): a
  reverted transaction counts.  A receipt that is late is a refusal, although its
  transaction may still be mined (`treasury.ts:179`).
* The merchant records a charge as succeeded before it settles and forgets its records when it
  restarts (`main.go:463`, `:90`): a status request may read a success that is never settled, and
  a settlement whose outcome the merchant did not learn is answered as an error.
* Postgres upserts before it deletes.  A transaction that drops or renames an attempt and
  gives its payment identifier to a new one fails half way on the unique key, while SQLite,
  which deletes first, stores it (`postgres-store.ts:662`, `:809`).  No callback of
  `src/lib/modules` does so: attempts are added and changed in place.
* A read error of a profile reads as no profile, and provisioning from an older user or
  session may make a disabled profile active again (`supabase-server.ts:128`,
  `supabase-browser.ts:44`).  Unlinking an identity overwrites the wallet that a treasury link has named
  (`0003_operator_auth_tables.sql:164`).
* A wallet that was connected before the operator asked for a link is not linked until
  something else changes (`use-console-treasury-wallet.ts:123`).  An address typed after its binding was
  made is saved with it (`treasury-connection-panel.tsx:531`).
* A wallet that arrives while the link of another one is under way is forgotten if that link
  ends well and the load after it does not tell (`use-console-treasury-wallet.ts:136`; `behind` in
  `ConsoleWallet`).
* A dashboard answer that outlives its session is shown on the sign-in page
  (`operator-gate.tsx:100`); inside the console the layout has closed the page by then.  A session
  that takes the place of another without a sign-out in between keeps showing the data of the
  first until it is refreshed.
* The readiness report takes for good what operations refuse: network defaults that `writeAnchor`
  does not know, a malformed private key, vendor endpoint or auth provider address, and of an enabled
  treasury agents without a well-formed address on chain, token and facilitator addresses that
  only begin with `0x`, and decimals that make an amount too large
  (`SettingsAreWellFormed` in `Readiness` names them all).

## What is proved

Every invariant, every action property and every refinement that a passing run checks is
also a theorem, proved for all values of the constants, with the restrictions
named here.  What a proof assumes about a constant is an `ASSUME` of the module that declares
it, and TLC evaluates it in each run.  Eight modules hold the proofs; each begins
with its argument in words.  Each proof is from one inductive invariant, given here with
the reason why the property alone is not inductive.

**`ExecutionWorkerProofs`, the ledger.**  For any mandates, attempts, vendors, amounts and
reports (amounts and caps are positive, reports are integers and `NoReport` is one, `None` is no
mandate): `LedgerTypeCorrect`, `BudgetSafety`, `ReservationsAreBacked`,
`StatusFollowsReservation` and `OutcomesStayFinal`, from `LedgerInv`.  The end of an attempt
adds at most its amount to `consumed`, which fits only because exactly that amount was
reserved (`ReservationBacked`); that in turn survives a new reservation only because a mandate
that is `issued_active` has none (`StatusMatchesReservation`), and survives
`createMandate` only because a row that does not exist reserves nothing (`StoredRows`).
The transactions are reduced to three shapes: an attempt ends (`EndOfAttempt`), money
is left alone (`MoneyUntouched`), budget is reserved (`ReserveAttemptInv`).

* `LedgerImplementsContract`: `LedgerSpec` implements `PaymentLedger`, transaction by transaction.
* `ConsumedStaysAccounted`: `consumed` is the sum of what the financial outcome events of the
  charged attempts name.  The sum is over a finite set, and what a step does to it comes from `CollectionFacts`.

**`ExecutionWorkerProofs`, the workers.**  For any number of workers and any set of faults, from
the same assumptions and that no worker is of both kinds:

* `WorkersImplementLedger`: `Spec => LedgerSpec`, and with it `WorkersImplementContract`.  It
  needs to know what a worker holds (`WorkersHold` in `ControlInv`): one that is not idle
  holds an attempt and a task that exist, and an answer it is about to write is one that
  the transaction accepts.  `WorkersTypeCorrect`, `WorkersKeepBudget` and `WorkersKeepOutcomes`
  follow.
* `VendorCalledAtMostOnce` and `VendorCallsAreCovered`, from `DispatchInv`: a worker owns
  its attempt from its claim until it is done with it; an attempt has at most one owner
  (`OneOwner`); an owned attempt is started (`OwnersAgree`); a vendor was called only for
  started attempts, and not before the owner sends (`CalledOnce`).  The lease plays no
  part: the claim, which needs an attempt that is `dispatch_queued`, is what excludes a second
  caller, and no step leads back to that status.
* `AttemptsAreNotForgotten`, from `FitInv`: the task and the program counter of a worker tell
  how far its attempt has come, so that a task which is completed or fails for good is
  one whose attempt needs none.
* `BooksAreTrueDespiteCrashes`, from `TruthInv`, for every set of faults with nothing but
  `"crash"` in it: a worker that has not sent knows that the vendor was not called, one with an
  answer knows what the vendor did.  With failing writes the property is false, which is what
  `released_charge` shows.

**`LateAnswersProofs`.**

* `DefiniteResultsStayTrue`, from `ExchangeInv`, which says where the merchant's handler can be
  when the client has ended, and where it is when a record of the payment
  exists.  The exceptions are those of the property, each named by a history
  variable or a state of the merchant.
* `StoreNeverAheadOfChain`, from `ChainInv`.  The code takes a reverted transaction for a
  success, so the store can be right only because of what such a transaction proves: an issue
  never reverts, since the handler that sent it named a mandate of its own, and a
  revocation reverts only when the mandate is revoked already.  The invariant
  says of the running call which of the mempool's transactions is its own.

**`TreasuryProofs`.**

* `ReservationsAreSettled`, from `ReservationInv`: a call waits for the last transaction that was
  sent for its identifier, and since nonces are mined in order none before it is pending then.
* `StoreAgreesWhileCalm`, from `AgreementInv`: at most one call runs, so while all is
  calm a pending transaction is the one that it waits for.  What the contract accepted when
  the gas was estimated it accepts when the transaction is mined, because time by itself can
  only empty the window.  It can also make a price too old, which the proof found: a price that
  ages under a waiting call now ends the calm, as other interference does.
* `SpendRateStaysKept`, from `RateState`, for any amounts, any prices, any caps with a largest
  one and any positive durations with a shortest one: the payments so far split into those of
  the running window, whose sum is `spent`, and the earlier ones; each window begins at
  least the shortest duration after the one before, so an interval of that length sees
  the end of one window and the beginning of the next.

**`CloudflareProofs`.**

* `NothingLeavesUnseen`, from `QueueInv`: batches do not overlap, and each delivery of a dead
  letter that was not acknowledged has cost a fault of its own, so that a dead letter that is
  dropped unrecorded has cost as many faults as it has deliveries.
* `NotAppliedAgainWhileRemembered`, from `LockInv`: the memory of the object is the end of its
  history (`RemembersTheLast`).
* `BudgetStaysExact`, from `MoneyInv`: the counters are sums over the payments
  that the history leaves open or consumed, and no payment is settled that was not reserved.
  It is about commands that come in the order of their payment, as the property is.

**`StoresProofs`.**

* `LedgerTellsTheTruth`: a migration is recorded in the transaction that runs it.
* `ConnectionsStayAccountedFor`, from `PoolInv`, for any processes, calls, connections and faults.
* `StoresKeepContract`: both stores implement `AtomicStore`.  For Postgres the invariant
  (`PgInv`) says of a writer, statement by statement, that it holds the advisory lock, that what
  it has read is what is committed, and that the tables it has written hold the result of
  its callback.  The theorem assumes that no statement of a reader fails (`"read_error"` is not
  in `Faults`): with it the refinement is false (see above).  For SQLite
  (`ChainInv`) it is that only the first call of the promise chain runs a callback.

**`StoreWritesProofs`**, for any records and any column width.  `WrittenIsReadBack`,
`CheckedStoresStayStorable` and `StoredStaysIntact`, from `WritesInv`: the tables hold a store that
passed the check.  Reading back is right only for such a store: were two mandates to share an
identifier, the vendors of both would come back with each.  That each statement passes rests on the order of
the tables (a row is written after those it refers to and deleted before them) and, for the
unique payment identifier, on the rows that are still there being kept.  `MandateAssumption` says that
callbacks write mandates with the fields that the type `Mandate` declares.

**`OperatorsProofs`**, for any number of requests, wallets, chains, loads and faults.

* `GovernorsHaveWallets` and `LoneLinksRepair`, from `AccessInv`: a profile is complete only when an
  account exists, and a link that started alone and meets nobody leaves its wallet alone primary.
* `SavedBindingStaysItsWallets`, from `PanelInv`: a binding in the form or in a request under way
  was made for the wallet next to it, or the operator typed since.
* `ArrivedStaysLinked`, from `HookInv`: a wallet that has arrived is in the state of the
  last rendering, from which the effect reads it, and unless it came behind another one it is
  still asked for and the only one whose link can be under way.
* `DataStayOfSession`, from `TabInv`: while the layout shows no page, no load may write to one, and
  what an open page holds or loads belongs to users who were signed in on it.  A late answer
  writes to the page that asked, which is why a page that was closed and opened again is safe.
* `ReadyStaysOperational`, from `ReadyInv`: an operation is refused for the settings alone, which do
  not change.  TLC checks some hundred deployments, the theorem is about every combination
  of settings (`EnvironmentRecords`), workload and failure.

**`CollectionFacts`** has what several of these need: sums over finite sets and what adding,
taking out or changing an element does to them, by induction over the subsets of a finite set (among
those for which something fails there is a smallest one), and facts on sequences and the
sets of their elements.

**Only model-checked.**  Everything under fairness: `EveryAttemptConcludes`, `EveryTaskEnds`,
`EveryCallEnds`, `EveryProcessGetsReady`, `LockIsReleased`, `SignedPaymentsAreReconciled`,
`EveryCommandEnds` and `EveryTaskIsDrained` are leads-to properties, whose proofs need `ENABLED`,
which the prover does not handle.  The two violations are counterexamples, not theorems.
Recursive functions of the community modules are used in the proofs through the lemmas of
`CollectionFacts` only; what a fold computes for each input is an induction over data that the
prover cannot instantiate.

**Next to prove:** what of `AtomicStore` survives a failing statement of a reader; the safety
half of the liveness properties, as bounds on what can still come between a cause and its
effect.

## Not modelled

* **Fallback gate, grouped approvals.**  The gate is a file of `config` that is read and judged
  by a pure predicate; its verdict changes a warning and what is shown, and
  no operation depends on it.  Grouped approvals are an empty collection in both stores.
* **API parsing, header tokens, rate limits.**  Per-process counters in front of the
  operations modelled here; they refuse requests and change nothing else.
* **The rest of the console**, styling and content: shows what it is given.
* **Agent SDK.**  A client of the API without state.
* **Logging and tracing.**  Written, never read.
* **Signing and encodings** of x402, Morph and the auth provider: cryptography, and
  libraries seen through the answers the code distinguishes.
