------------------------------ MODULE MCStores ------------------------------
(***************************************************************************)
(* The stores on small instances.  A deployment has one of them: Postgres  *)
(* if a database is configured, else SQLite (getStoreBackend).  The        *)
(* bootstrap of the Postgres schema comes before the first call and shares *)
(* nothing with the calls after it, so that it is an instance of its own.  *)
(* Which of the three a behaviour is about is chosen in its initial state. *)
(*                                                                         *)
(* Postgres: three writers and a reader in two processes with a connection *)
(* each.  SQLite: the same calls in one process, and one whose callback    *)
(* reserves more than there is.  Bootstrap: two processes with two         *)
(* requests each, on an empty database and on those that the Drizzle       *)
(* migrations leave after one or more of their steps.                      *)
(***************************************************************************)
EXTENDS PostgresStore, MCStoreCalls

CONSTANTS pay1, pay2, drift, read, p1, p2, c1, c2, Callers, Provided, MaxRestarts

VARIABLES
    backend,                                                \* the instance
    opened, rows, chain, at, copy, written,                 \* of StoreLock
    objects, recorded, hasAuth, ready, stage, sawAuth,      \* of SchemaBootstrap
    files, waits, caller, restarts

\* The calls of the first process: a writer and the reader.
MCProcessOf ==
    [who \in Calls \cup Clients |-> IF who \in {issue, read, c1} THEN p1 ELSE p2]

Overdrawn(store) ==
    [store EXCEPT !.mandates = {[row EXCEPT !.reservedCents = 3] : row \in @}]

LockResult(call, store) ==
    IF call = drift THEN Overdrawn(store) ELSE MCResult(call, store)

Sqlite ==
    INSTANCE StoreLock WITH
      Calls <- Writers \cup {drift}, Result <- LockResult,
      tables <- rows, pc <- at, data <- copy, applied <- written

Schema ==
    INSTANCE SchemaBootstrap WITH applied <- files

ASSUME DriftAssumption == drift \notin Readers
ASSUME BootstrapAssumption == Schema!ProvidedAssumption

sqliteVars == <<opened, rows, chain, at, copy, written>>
bootstrapVars ==
    <<objects, recorded, hasAuth, ready, stage, sawAuth, files, waits, caller, restarts>>
storesVars == <<backend, pgVars, sqliteVars, bootstrapVars>>

StoresInit ==
    /\ backend \in {"postgres", "sqlite", "bootstrap"}
    /\ Init /\ Sqlite!Init /\ Schema!Init
    /\ backend # "bootstrap" => objects = {} /\ ~ hasAuth

OnPostgres(step) ==
    backend = "postgres" /\ step /\ UNCHANGED <<backend, sqliteVars, bootstrapVars>>
OnSqlite(step) ==
    backend = "sqlite" /\ step /\ UNCHANGED <<backend, pgVars, bootstrapVars>>
AtBootstrap(step) ==
    backend = "bootstrap" /\ step /\ UNCHANGED <<backend, pgVars, sqliteVars>>

StoresNext == OnPostgres(Next) \/ OnSqlite(Sqlite!Next) \/ AtBootstrap(Schema!Next)

\* Statements are answered, callbacks end since every request they send has a
\* time-out, and requests to a process keep coming.
StoresFairness ==
    /\ \A w \in Writers : WF_storesVars(OnPostgres(WriterStep(w) \/ StatementFails(w)))
    /\ \A r \in Readers : WF_storesVars(OnPostgres(ReaderStep(r) \/ ReadFails(r)))
    /\ \A call \in Writers \cup {drift} : WF_storesVars(OnSqlite(Sqlite!CallStep(call)))
    /\ \A p \in Processes :
         /\ WF_storesVars(AtBootstrap(Schema!Bootstrap(p)))
         /\ \A c \in Callers : WF_storesVars(AtBootstrap(Schema!Call(p, c)))

StoresSpec == StoresInit /\ [][StoresNext]_storesVars /\ StoresFairness

-----------------------------------------------------------------------------
\* Every file in the ledger has its tables (see SchemaBootstrap).
RecordedIsThere == Schema!RecordedIsThere

\* Either store keeps the contract of AtomicStore.
StoresAreAtomic == ImplementsAtomicStore /\ Sqlite!ImplementsAtomicStore

\* Every call ends, although writers of Postgres wait for the lock with a
\* connection in hand and callers of one process wait for each other's
\* connections, and although callbacks of SQLite throw.
EveryCallEnds ==
    /\ <>(backend = "postgres" => \A call \in Calls : Ended(call))
    /\ <>(backend = "sqlite" => \A call \in Writers \cup {drift} : Sqlite!Ended(call))

\* Processes that start at once may make each other fail, and a failure takes
\* every caller of the process with it; but the next request tries again, and
\* in the end every process has its schema.
EveryProcessGetsReady == <>[](backend = "bootstrap" => \A p \in Processes : ready[p])
=============================================================================
