--------------------------- MODULE SchemaBootstrap ---------------------------
(***************************************************************************)
(* ensureSchema of postgres-store.ts: every process creates or completes   *)
(* the tables of the store before its first query, in one transaction,     *)
(* without a lock against other processes that do the same.                *)
(*                                                                         *)
(* A migration file stands for the tables and columns it creates.  The     *)
(* ledger of applied files, mandate402_schema_migrations, is a table too   *)
(* and is named 0.  Files that another tool (Drizzle) has applied are in   *)
(* the database but not in the ledger.                                     *)
(***************************************************************************)
EXTENDS Integers, FiniteSets

CONSTANTS
    Processes,
    Callers,         \* requests that wait for the schema, in every process
    Provided,        \* the sets of files another tool may have applied
    MaxRestarts      \* bound on process restarts

Ledger == 0
Files == 1 .. 6
SupabaseOnly == 3 .. 6
StoreFiles == Files \ SupabaseOnly

\* What the statements of a file refer to; a file that only alters tables
\* waits for another transaction that does the same and goes on after it, one
\* that creates a table fails if the other one has created it.
Needs == <<{}, {1}, {}, {3}, {4}, {3}>>
Creates == {Ledger, 1, 3, 4}

ProvidedAssumption ==
    /\ Provided \subseteq SUBSET Files /\ Provided # {}
    /\ \A files \in Provided, file \in Files : file \in files => Needs[file] \subseteq files

VARIABLES
    objects,      \* the files (and ledger) whose tables are committed
    recorded,     \* the rows of the ledger
    hasAuth,      \* the database has the schema "auth" of Supabase
    ready,        \* per process: schemaReady
    stage,        \* per process: how far its schemaEnsurePromise is
    sawAuth,      \* per process: whether its transaction found "auth"
    applied,      \* per process: the files its transaction found or executed
    waits,        \* per process: whether a statement waits for another process
    caller,       \* per process and caller: what it does
    restarts      \* restarts so far

dbVars == <<objects, recorded, hasAuth>>
bootVars == <<sawAuth, applied>>
schemaVars == <<dbVars, ready, stage, bootVars, waits, caller, restarts>>

Init ==
    /\ objects \in Provided
    /\ recorded = {}
    /\ hasAuth \in IF objects \cap SupabaseOnly = {} THEN BOOLEAN ELSE {TRUE}
    /\ ready = [p \in Processes |-> FALSE]
    /\ stage = [p \in Processes |-> "none"]
    /\ sawAuth = [p \in Processes |-> FALSE]
    /\ applied = [p \in Processes |-> {}]
    /\ waits = [p \in Processes |-> FALSE]
    /\ caller = [p \in Processes |-> [c \in Callers |-> "idle"]]
    /\ restarts = 0

-----------------------------------------------------------------------------
\* A request: it passes, joins the bootstrap under way or starts one.
Call(p, c) ==
    /\ caller[p][c] \in {"idle", "failed"}
    /\ IF ready[p]
         THEN caller' = [caller EXCEPT ![p][c] = "passed"] /\ UNCHANGED stage
         ELSE /\ caller' = [caller EXCEPT ![p][c] = "waiting"]
              /\ stage' = [stage EXCEPT ![p] = IF @ = "none" THEN "begin" ELSE @]
    /\ UNCHANGED <<dbVars, ready, bootVars, waits, restarts>>

\* The promise is settled: every caller that awaits it goes on or throws.
Settle(p, how) ==
    /\ stage' = [stage EXCEPT ![p] = "none"]
    /\ applied' = [applied EXCEPT ![p] = {}]
    /\ waits' = [waits EXCEPT ![p] = FALSE]
    /\ caller' = [caller EXCEPT ![p] =
         [c \in Callers |-> IF @[c] = "waiting" THEN how ELSE @[c]]]

\* ROLLBACK, and the error goes to the callers.
Fails(p) ==
    /\ Settle(p, "failed")
    /\ UNCHANGED <<dbVars, ready, sawAuth, restarts>>

Advance(p, file, next) ==
    /\ applied' = [applied EXCEPT ![p] = @ \cup {file}]
    /\ stage' = [stage EXCEPT ![p] = next]
    /\ waits' = [waits EXCEPT ![p] = FALSE]
    /\ UNCHANGED <<dbVars, ready, sawAuth, caller, restarts>>

StartWaiting(p) ==
    /\ ~ waits[p]
    /\ waits' = [waits EXCEPT ![p] = TRUE]
    /\ UNCHANGED <<dbVars, ready, stage, bootVars, caller, restarts>>

\* Another transaction has executed the file and is not over.
HeldByOther(p, file) ==
    file \notin objects /\ \E q \in Processes \ {p} : file \in applied[q]

\* The statements of a file in the transaction of process p.
Execute(p, file, next) ==
    IF HeldByOther(p, file) THEN StartWaiting(p)
    ELSE IF waits[p] /\ file \in objects \cap Creates THEN Fails(p)
    ELSE Advance(p, file, next)

\* BEGIN and CREATE TABLE IF NOT EXISTS mandate402_schema_migrations
CreateLedger(p) ==
    /\ stage[p] = "begin"
    /\ Execute(p, Ledger, "read")

\* An empty ledger is filled with what the tables show; 0006 shows nowhere.
Inferred == objects \cap (1 .. 5)

\* readAppliedBootstrapMigrations and schemaExists.
ReadApplied(p) ==
    /\ stage[p] = "read"
    /\ applied' = [applied EXCEPT ![p] =
         @ \cup (IF recorded # {} THEN recorded ELSE Inferred)]
    /\ sawAuth' = [sawAuth EXCEPT ![p] = hasAuth]
    /\ stage' = [stage EXCEPT ![p] = "apply"]
    /\ UNCHANGED <<dbVars, ready, waits, caller, restarts>>

\* Without the schema "auth" the files that need it are skipped.
Missing(p) == (IF sawAuth[p] THEN Files ELSE StoreFiles) \ applied[p]

\* Mutant: the files are applied in the order of the directory.
AnyFile(p) == Missing(p)

\* The files are applied in the order of their names.
NextFile(p) == {file \in Missing(p) : \A other \in Missing(p) : file <= other}

ApplyFile(p) ==
    /\ stage[p] = "apply"
    /\ \E file \in NextFile(p) :
         IF Needs[file] \subseteq objects \cup applied[p]
           THEN Execute(p, file, "apply")
           ELSE Fails(p)

\* Mutant: the files that were skipped are recorded with the others.
RecordsSkipped(p) ==
    /\ stage[p] = "apply" /\ Missing(p) = {}
    /\ objects' = objects \cup applied[p]
    /\ recorded' = Files
    /\ ready' = [ready EXCEPT ![p] = TRUE]
    /\ Settle(p, "passed")
    /\ UNCHANGED <<hasAuth, sawAuth, restarts>>

\* The ledger gets the files that were inferred or executed.
CommitSchema(p) ==
    /\ stage[p] = "apply" /\ Missing(p) = {}
    /\ objects' = objects \cup applied[p]
    /\ recorded' = recorded \cup (applied[p] \cap Files)
    /\ ready' = [ready EXCEPT ![p] = TRUE]
    /\ Settle(p, "passed")
    /\ UNCHANGED <<hasAuth, sawAuth, restarts>>

-----------------------------------------------------------------------------
\* A process stops, at any moment, and starts again.
Restart(p) ==
    /\ restarts < MaxRestarts
    /\ restarts' = restarts + 1
    /\ stage' = [stage EXCEPT ![p] = "none"]
    /\ applied' = [applied EXCEPT ![p] = {}]
    /\ waits' = [waits EXCEPT ![p] = FALSE]
    /\ caller' = [caller EXCEPT ![p] = [c \in Callers |-> "idle"]]
    /\ ready' = [ready EXCEPT ![p] = FALSE]
    /\ UNCHANGED <<dbVars, sawAuth>>

\* Supabase is set up on a database that ran without it.
InstallAuth ==
    /\ ~ hasAuth
    /\ hasAuth' = TRUE
    /\ UNCHANGED <<objects, recorded, ready, stage, bootVars, waits, caller, restarts>>

Bootstrap(p) == CreateLedger(p) \/ ReadApplied(p) \/ ApplyFile(p) \/ CommitSchema(p)

Next ==
    \/ \E p \in Processes :
         \/ \E c \in Callers : Call(p, c)
         \/ Bootstrap(p)
         \/ Restart(p)
    \/ InstallAuth

Spec == Init /\ [][Next]_schemaVars

-----------------------------------------------------------------------------
(***************************************************************************)
(* Properties.                                                             *)
(***************************************************************************)
\* A file in the ledger is never applied again, so its tables must be there,
\* whoever made them and however many processes started at once.
RecordedIsThere == recorded \subseteq objects
=============================================================================
