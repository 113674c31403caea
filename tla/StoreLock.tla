------------------------------ MODULE StoreLock ------------------------------
(***************************************************************************)
(* withStoreLock of store.ts over SQLite, or over a plain object where     *)
(* SQLite is not available: the calls of one process form a chain of       *)
(* promises, each waiting for the one before it.  Reads take no lock.      *)
(*                                                                         *)
(* Reads and writes are synchronous, so each is one step; a callback       *)
(* awaits network calls, so it starts in one step and ends in another.     *)
(***************************************************************************)
EXTENDS StoreRows

CONSTANTS
    Calls,
    Readers,             \* calls of readStore
    SeedStore,           \* testStoreData
    Throws(_, _),        \* whether the callback of a call throws on a store
    Result(_, _)         \* the store that the callback makes of a store

VARIABLES
    opened,      \* the database has been opened and seeded
    tables,      \* the tables; of memoryStoreData, what its tables would be
    chain,       \* the calls that have taken their place and not released it
    pc,          \* where a call is
    data,        \* the store a call works on
    applied      \* history: the calls whose store has been written

lockVars == <<opened, tables, chain, pc, data, applied>>

Init ==
    /\ opened = FALSE
    /\ tables = ToTables(EmptyStore)
    /\ chain = <<>>
    /\ pc = [call \in Calls \cup Readers |-> "start"]
    /\ data = [call \in Calls \cup Readers |-> EmptyStore]
    /\ applied = {}

\* ensureDatabase seeds tables that have no agents when it opens them; the
\* plain object is seeded by the first read.
Opened == IF opened THEN tables ELSE ToTables(SeedStore)

GoTo(call, where) == pc' = [pc EXCEPT ![call] = where]

\* The call replaces "lock" by a promise of its own and awaits the previous one.
Arrive(call) ==
    /\ pc[call] = "start"
    /\ chain' = Append(chain, call)
    /\ GoTo(call, "waiting")
    /\ UNCHANGED <<opened, tables, data, applied>>

\* Mutant: the call does not await the previous one.
BeginsAtOnce(call) ==
    /\ pc[call] = "waiting"
    /\ opened' = TRUE
    /\ tables' = Opened
    /\ data' = [data EXCEPT ![call] = FromTables(Opened)]
    /\ GoTo(call, "work")
    /\ UNCHANGED <<chain, applied>>

\* The previous call has released; the store is read and the callback starts.
Begin(call) ==
    /\ pc[call] = "waiting"
    /\ chain[1] = call
    /\ opened' = TRUE
    /\ tables' = Opened
    /\ data' = [data EXCEPT ![call] = FromTables(Opened)]
    /\ GoTo(call, "work")
    /\ UNCHANGED <<chain, applied>>

\* The callback does not throw and its store passes the check.
Accepted(call) == ~ Throws(call, data[call]) /\ Intact(Result(call, data[call]))

\* The callback returns, its store passes the check and is written.  The call
\* that runs is the first of the chain.
Complete(call) ==
    LET store == Result(call, data[call]) IN
    /\ pc[call] = "work"
    /\ Accepted(call)
    /\ tables' = WrittenSqlite(store)
    /\ applied' = applied \cup {call}
    /\ chain' = Tail(chain)
    /\ GoTo(call, "returned")
    /\ UNCHANGED <<opened, data>>

\* Mutant: the place in the chain is only given up on success.
ThrowsWithoutRelease(call) ==
    /\ pc[call] = "work"
    /\ ~ Accepted(call)
    /\ GoTo(call, "failed")
    /\ UNCHANGED <<opened, tables, chain, data, applied>>

\* The callback or the check throws; nothing is written.
Abort(call) ==
    /\ pc[call] = "work"
    /\ ~ Accepted(call)
    /\ chain' = Tail(chain)
    /\ GoTo(call, "failed")
    /\ UNCHANGED <<opened, tables, data, applied>>

\* readStore
ReadStore(reader) ==
    /\ pc[reader] = "start"
    /\ opened' = TRUE
    /\ tables' = Opened
    /\ data' = [data EXCEPT ![reader] = FromTables(Opened)]
    /\ GoTo(reader, IF Intact(FromTables(Opened)) THEN "returned" ELSE "refused")
    /\ UNCHANGED <<chain, applied>>

CallStep(call) == Arrive(call) \/ Begin(call) \/ Complete(call) \/ Abort(call)

Next ==
    \/ \E call \in Calls : CallStep(call)
    \/ \E reader \in Readers : ReadStore(reader)

Spec == Init /\ [][Next]_lockVars

-----------------------------------------------------------------------------
(***************************************************************************)
(* Properties.                                                             *)
(***************************************************************************)
\* The chain keeps the contract of AtomicStore.
ThrowsOn(call, rows) ==
    Throws(call, FromTables(rows)) \/ ~ Intact(Result(call, FromTables(rows)))
ResultOn(call, rows) == ToTables(Result(call, FromTables(rows)))
AnswerOf(where) == IF where \in {"returned", "failed"} THEN where ELSE "none"

Atomic ==
    INSTANCE AtomicStore WITH
      Seed <- ToTables(SeedStore),
      Throws <- ThrowsOn,
      Result <- ResultOn,
      stored <- Opened,
      answer <- [call \in Calls |-> AnswerOf(pc[call])]

ImplementsAtomicStore == Atomic!Spec

Ended(call) == pc[call] \in {"returned", "failed"}
=============================================================================
