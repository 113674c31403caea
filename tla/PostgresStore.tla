---------------------------- MODULE PostgresStore ----------------------------
(***************************************************************************)
(* The Postgres store under concurrent callers of several processes: a     *)
(* pool of connections per process, the advisory lock of                   *)
(* withPostgresStoreLock, and the reads of readStorePostgres, which take   *)
(* no lock.                                                                *)
(*                                                                         *)
(* A step is one statement on one connection.  Statements of a transaction *)
(* see what the same connection wrote and what others have committed when  *)
(* the statement runs (READ COMMITTED, the default that BEGIN leaves).     *)
(*                                                                         *)
(* readStorePostgres returns readStoreFromClient(client) without awaiting  *)
(* it.  The first SELECT is sent, the finally clause gives the connection  *)
(* back to the pool, and the other SELECTs are sent over a connection that *)
(* a later caller may already use for a transaction of its own.            *)
(***************************************************************************)
EXTENDS StoreRows

CONSTANTS
    Writers,             \* calls of withPostgresStoreLock
    Readers,             \* calls of readStorePostgres
    Processes,
    Clients,             \* connections
    ProcessOf,           \* the process of a call or a connection
    NoClient,
    SeedStore,
    Throws(_, _),        \* whether the callback of a writer throws on a store
    Result(_, _),        \* the store that the callback makes of a store
    Faults,              \* the statements that may fail, of FaultKinds
    Fragile              \* the connections that may break

FaultKinds == {"statement_error", "read_error"}

Calls == Writers \cup Readers

ASSUME CallAssumption == Writers \cap Readers = {}
ASSUME ProcessAssumption == ProcessOf \in [Calls \cup Clients -> Processes]
ASSUME FaultAssumption == Faults \subseteq FaultKinds /\ Fragile \subseteq Clients
ASSUME NoClientAssumption == NoClient \notin Clients

VARIABLES
    tables,      \* what is committed
    pending,     \* per connection: the tables its transaction has written
    aborted,     \* the connections whose transaction has failed
    holder,      \* the connection that holds the advisory lock
    idle,        \* the connections that lie in the pool of their process
    pc,          \* where a call is
    client,      \* the connection a call uses
    done,        \* how many tables a call has read or written
    got,         \* the tables a call has read
    data,        \* the store a writer is about to write
    applied      \* history: the writers whose transaction is committed

sessionVars == <<pending, aborted, holder>>
callVars == <<pc, client, done, got, data>>
pgVars == <<tables, sessionVars, idle, callVars, applied>>

\* The order of the SELECTs of readStoreFromClient and of the upserts of
\* writeStoreToClient.  The upserts of a table and the DELETE that prunes it
\* are one step: callbacks of this program never remove a row.
ReadOrder ==
    <<"agents", "approvedVendors", "mandates", "attempts", "workerTasks",
      "auditEntries", "domainEvents">>
WriteOrder ==
    <<"agents", "mandates", "approvedVendors", "attempts", "workerTasks",
      "auditEntries", "domainEvents">>

NothingWritten == [table \in {} |-> {}]
NothingRead == ToTables(EmptyStore)

Init ==
    /\ tables = ToTables(SeedStore)
    /\ pending = [c \in Clients |-> NothingWritten]
    /\ aborted = {}
    /\ holder = NoClient
    /\ idle = Clients
    /\ pc = [call \in Calls |-> "start"]
    /\ client = [call \in Calls |-> NoClient]
    /\ done = [call \in Calls |-> 0]
    /\ got = [call \in Calls |-> NothingRead]
    /\ data = [call \in Calls |-> EmptyStore]
    /\ applied = {}

-----------------------------------------------------------------------------
(***************************************************************************)
(* The server.                                                             *)
(***************************************************************************)
\* What a statement on connection c sees of a table.
Visible(c, table) ==
    IF table \in DOMAIN pending[c] THEN pending[c][table] ELSE tables[table]

\* A connection whose transaction waits for the advisory lock runs nothing
\* else: its statements queue behind the wait.
Blocked(c) == \E w \in Writers : pc[w] = "lock" /\ client[w] = c

EndTransaction(c) ==
    /\ pending' = [pending EXCEPT ![c] = NothingWritten]
    /\ aborted' = aborted \ {c}
    /\ holder' = IF holder = c THEN NoClient ELSE holder

-----------------------------------------------------------------------------
(***************************************************************************)
(* withPostgresStoreLock.                                                  *)
(***************************************************************************)
GoTo(call, where) == pc' = [pc EXCEPT ![call] = where]

\* A call ends, and what it held in its variables goes with it.
End(call, how) ==
    /\ GoTo(call, how)
    /\ client' = [client EXCEPT ![call] = NoClient]
    /\ done' = [done EXCEPT ![call] = 0]
    /\ got' = [got EXCEPT ![call] = NothingRead]
    /\ data' = [data EXCEPT ![call] = EmptyStore]

\* Takes a connection from the pool, or waits for one, and sends BEGIN.
ConnectWriter(w, c) ==
    /\ pc[w] = "start"
    /\ c \in idle /\ ProcessOf[c] = ProcessOf[w]
    /\ idle' = idle \ {c}
    /\ client' = [client EXCEPT ![w] = c]
    /\ GoTo(w, "lock")
    /\ UNCHANGED <<tables, sessionVars, done, got, data, applied>>

\* SELECT pg_advisory_xact_lock
AcquireLock(w) ==
    /\ pc[w] = "lock"
    /\ holder = NoClient
    /\ holder' = client[w]
    /\ GoTo(w, "read")
    /\ UNCHANGED <<tables, pending, aborted, idle, client, done, got, data, applied>>

\* One SELECT.  After the last one the store is checked, and a reader is done.
Select(call, checked, refused) ==
    LET table == ReadOrder[done[call] + 1]
        seen == [got EXCEPT ![call][table] = Visible(client[call], table)]
        next == IF done[call] + 1 < Len(ReadOrder) THEN "read"
                ELSE IF Intact(FromTables(seen[call])) THEN checked ELSE refused
    IN
    /\ pc[call] = "read"
    /\ ~ Blocked(client[call])
    /\ client[call] \notin aborted
    /\ IF next # "read" /\ call \in Readers
         THEN End(call, next)
         ELSE /\ GoTo(call, next)
              /\ got' = seen
              /\ done' = [done EXCEPT ![call] = (@ + 1) % Len(ReadOrder)]
              /\ UNCHANGED <<client, data>>
    /\ UNCHANGED <<tables, sessionVars, idle, applied>>

ReadLocked(w) == Select(w, "work", "rollback")

\* The callback runs; it throws or its result is checked before the first
\* statement of the write.
RunCallback(w) ==
    LET store == FromTables(got[w]) IN
    /\ pc[w] = "work"
    /\ IF Throws(w, store) \/ ~ Intact(Result(w, store))
         THEN GoTo(w, "rollback") /\ UNCHANGED data
         ELSE GoTo(w, "write") /\ data' = [data EXCEPT ![w] = Result(w, store)]
    /\ UNCHANGED <<tables, sessionVars, idle, client, done, got, applied>>

\* The write of one table.
Write(w) ==
    LET c == client[w]
        table == WriteOrder[done[w] + 1]
        seen == [t \in Tables |-> Visible(c, t)]
        last == done[w] + 1 = Len(WriteOrder)
    IN
    /\ pc[w] = "write"
    /\ c \notin aborted
    /\ pending' = [pending EXCEPT ![c] =
         [t \in DOMAIN @ \cup {table} |->
            IF t = table THEN WrittenPostgres(seen, data[w])[table] ELSE @[t]]]
    /\ done' = [done EXCEPT ![w] = IF last THEN 0 ELSE @ + 1]
    /\ GoTo(w, IF last THEN "commit" ELSE "write")
    /\ UNCHANGED <<tables, aborted, holder, idle, client, got, data, applied>>

\* The statement of a read or write fails, and with it the transaction; so
\* does every statement in a transaction that has already failed.
StatementFails(w) ==
    /\ pc[w] \in {"read", "write"}
    /\ client[w] \in aborted \/ "statement_error" \in Faults
    /\ aborted' = aborted \cup {client[w]}
    /\ GoTo(w, "rollback")
    /\ UNCHANGED <<tables, pending, holder, idle, client, done, got, data, applied>>

Committed(c) == [table \in Tables |-> Visible(c, table)]

\* COMMIT of a transaction that has failed rolls it back and is no error.
Commit(w) ==
    LET c == client[w] IN
    /\ pc[w] = "commit"
    /\ IF c \in aborted
         THEN UNCHANGED <<tables, applied>>
         ELSE tables' = Committed(c) /\ applied' = applied \cup {w}
    /\ EndTransaction(c)
    /\ End(w, "returned")
    /\ idle' = idle \cup {c}

\* Mutant: the connection is not given back after an error.
KeepsConnection(w) ==
    /\ pc[w] = "rollback"
    /\ EndTransaction(client[w])
    /\ End(w, "failed")
    /\ UNCHANGED <<tables, idle, applied>>

\* The catch and finally clauses.
Rollback(w) ==
    /\ pc[w] = "rollback"
    /\ EndTransaction(client[w])
    /\ End(w, "failed")
    /\ idle' = idle \cup {client[w]}
    /\ UNCHANGED <<tables, applied>>

-----------------------------------------------------------------------------
(***************************************************************************)
(* readStorePostgres.                                                      *)
(***************************************************************************)
\* Takes a connection, sends the first SELECT and gives the connection back.
ConnectReader(r, c) ==
    /\ pc[r] = "start"
    /\ c \in idle /\ ProcessOf[c] = ProcessOf[r]
    /\ client' = [client EXCEPT ![r] = c]
    /\ GoTo(r, "read")
    /\ UNCHANGED <<tables, sessionVars, idle, done, got, data, applied>>

Read(r) == Select(r, "returned", "refused")

\* A SELECT of a reader fails, with it the transaction that a writer has
\* begun on the connection in the meantime.
ReadFails(r) ==
    LET c == client[r] IN
    /\ pc[r] = "read"
    /\ ~ Blocked(c)
    /\ c \in aborted \/ "read_error" \in Faults
    /\ aborted' = IF c \in idle THEN aborted ELSE aborted \cup {c}
    /\ End(r, "failed")
    /\ UNCHANGED <<tables, pending, holder, idle, applied>>

-----------------------------------------------------------------------------
\* A connection breaks.  The server drops its transaction, its calls fail.
\* If a COMMIT was under way, it may have been executed.
ConnectionLost(c) ==
    LET users == {call \in Calls : client[call] = c /\ pc[call] \in
                    {"lock", "read", "work", "write", "commit"}}
        committing == {w \in users : pc[w] = "commit"}
    IN
    /\ c \in Fragile
    /\ users # {}
    /\ EndTransaction(c)
    /\ pc' = [call \in Calls |->
                IF call \notin users THEN pc[call]
                ELSE IF call \in Readers THEN "failed" ELSE "rollback"]
    /\ \/ UNCHANGED <<tables, applied>>
       \/ /\ committing # {} /\ c \notin aborted
          /\ tables' = Committed(c)
          /\ applied' = applied \cup committing
    /\ UNCHANGED <<idle, client, done, got, data>>

WriterStep(w) ==
    \/ \E c \in Clients : ConnectWriter(w, c)
    \/ AcquireLock(w)
    \/ ReadLocked(w)
    \/ RunCallback(w)
    \/ Write(w)
    \/ Commit(w)
    \/ Rollback(w)

ReaderStep(r) ==
    \/ \E c \in Clients : ConnectReader(r, c)
    \/ Read(r)

Fault ==
    \/ \E w \in Writers : StatementFails(w)
    \/ \E r \in Readers : ReadFails(r)
    \/ \E c \in Clients : ConnectionLost(c)

\* Reads and transactions of a process share its pool and nothing else.
Next ==
    \/ \E w \in Writers : WriterStep(w)
    \/ \E r \in Readers : ReaderStep(r)
    \/ Fault

Spec == Init /\ [][Next]_pgVars

-----------------------------------------------------------------------------
(***************************************************************************)
(* Properties.                                                             *)
(***************************************************************************)
Underway(w) == pc[w] \in {"lock", "read", "work", "write", "commit", "rollback"}

\* A connection is in the pool or with exactly one writer, whatever fails and
\* however many readers still use it: none is lost and none is shared by two
\* transactions.  One in the pool carries nothing of its last user: no open
\* transaction, no failed one, no lock.
ConnectionsAreAccountedFor ==
    /\ \A c \in idle : pending[c] = NothingWritten /\ c \notin aborted /\ c # holder
    /\ \A c \in Clients :
         c \notin idle <=> \E w \in Writers : Underway(w) /\ client[w] = c
    /\ \A v, w \in Writers :
         Underway(v) /\ Underway(w) /\ client[v] = client[w] => v = w

\* withStoreLock keeps the contract of AtomicStore: the transactions of the
\* processes, which take many statements each, have the effect of callbacks
\* that run one after another, and who is told of success has it stored.
ThrowsOn(w, rows) ==
    Throws(w, FromTables(rows)) \/ ~ Intact(Result(w, FromTables(rows)))
ResultOn(w, rows) == ToTables(Result(w, FromTables(rows)))
AnswerOf(where) == IF where \in {"returned", "failed"} THEN where ELSE "none"

Atomic ==
    INSTANCE AtomicStore WITH
      Calls <- Writers,
      Seed <- ToTables(SeedStore),
      Throws <- ThrowsOn,
      Result <- ResultOn,
      stored <- tables,
      answer <- [w \in Writers |-> AnswerOf(pc[w])]

ImplementsAtomicStore == Atomic!Spec

Ended(call) == pc[call] \in {"returned", "refused", "failed"}
=============================================================================
