----------------------------- MODULE StoresProofs -----------------------------
(***************************************************************************)
(* Proofs about the stores: the connections of the Postgres store are all  *)
(* accounted for, a migration in the ledger has its tables, and the lock   *)
(* of the SQLite store and that of the Postgres store keep the contract of *)
(* AtomicStore.                                                            *)
(***************************************************************************)
EXTENDS MCStores, SequenceTheorems, TLAPS

-----------------------------------------------------------------------------
(***************************************************************************)
(* The bootstrap of the schema: what is recorded is there.                 *)
(***************************************************************************)
\* The files a transaction has inferred are in the database; those it has read
\* from the ledger too.  What it commits beyond them it has executed itself.
LedgerInv == recorded \subseteq objects /\ recorded \subseteq Schema!Files

LEMMA CommitRecordsItsObjects ==
  ASSUME LedgerInv, NEW p \in Processes, Schema!CommitSchema(p)
  PROVE  LedgerInv'
BY DEF LedgerInv, Schema!CommitSchema

LEMMA OthersLeaveLedger ==
  ASSUME LedgerInv, NEW p \in Processes,
         \/ \E c \in Callers : Schema!Call(p, c)
         \/ Schema!CreateLedger(p)
         \/ Schema!ReadApplied(p)
         \/ Schema!ApplyFile(p)
         \/ Schema!Restart(p)
  PROVE  LedgerInv'
<1>1. UNCHANGED <<objects, recorded>>
  <2>1. ASSUME NEW file, NEW next, Schema!Execute(p, file, next)
        PROVE  UNCHANGED <<objects, recorded>>
    BY <2>1 DEF Schema!Execute, Schema!StartWaiting, Schema!Fails, Schema!Advance,
                Schema!dbVars
  <2>2. ASSUME Schema!ApplyFile(p) PROVE UNCHANGED <<objects, recorded>>
    BY <2>1, <2>2 DEF Schema!ApplyFile, Schema!Fails, Schema!dbVars
  <2> QED
    BY <2>1, <2>2 DEF Schema!Call, Schema!CreateLedger, Schema!ReadApplied, Schema!Restart,
                      Schema!dbVars
<1> QED
  BY <1>1 DEF LedgerInv

\* However many processes bootstrap at once, on whatever database, and
\* wherever they stop: a file in the ledger has its tables
\* (src/src/lib/infrastructure/postgres-store.ts, ensureSchema).
THEOREM LedgerTellsTheTruth == StoresSpec => []RecordedIsThere
<1>1. StoresInit => LedgerInv
  BY DEF StoresInit, Schema!Init, LedgerInv
<1>2. LedgerInv /\ [StoresNext]_storesVars => LedgerInv'
  <2> SUFFICES ASSUME LedgerInv, [StoresNext]_storesVars PROVE LedgerInv'
    OBVIOUS
  <2>1. CASE AtBootstrap(Schema!Next)
    <3>1. CASE Schema!InstallAuth
      BY <3>1 DEF Schema!InstallAuth, LedgerInv
    <3> QED
      BY <2>1, <3>1, CommitRecordsItsObjects, OthersLeaveLedger
         DEF AtBootstrap, Schema!Next, Schema!Bootstrap
  <2>2. CASE UNCHANGED bootstrapVars
    BY <2>2 DEF bootstrapVars, LedgerInv
  <2> QED
    BY <2>1, <2>2 DEF StoresNext, OnPostgres, OnSqlite, storesVars
<1>3. LedgerInv => RecordedIsThere
  BY DEF LedgerInv, RecordedIsThere, Schema!RecordedIsThere
<1> QED
  BY <1>1, <1>2, <1>3, PTL DEF StoresSpec

-----------------------------------------------------------------------------
(***************************************************************************)
(* The connections of the Postgres store.                                  *)
(***************************************************************************)
\* A call that uses a connection has one.
CallTypes ==
    /\ pc = [call \in Calls |-> pc[call]]
    /\ client \in [Calls -> Clients \cup {NoClient}]
    /\ pending = [c \in Clients |-> pending[c]]
    /\ idle \subseteq Clients
    /\ \A w \in Writers : Underway(w) => client[w] \in Clients
    /\ \A r \in Readers : pc[r] = "read" => client[r] \in Clients

PoolInv == CallTypes /\ ConnectionsAreAccountedFor

\* Ending a transaction cleans its connection and touches no other.
LEMMA EndTransactionCleans ==
  ASSUME CallTypes, NEW c \in Clients, EndTransaction(c)
  PROVE  /\ pending' = [d \in Clients |-> pending'[d]]
         /\ pending'[c] = NothingWritten /\ c \notin aborted' /\ c # holder'
         /\ \A d \in Clients \ {c} : pending'[d] = pending[d]
         /\ aborted' \subseteq aborted
         /\ \A d \in Clients : d = holder' => d = holder
<1>1. c # NoClient
  BY NoClientAssumption
<1>2. \A d \in Clients : d # NoClient
  BY NoClientAssumption
<1> QED
  BY <1>1, <1>2 DEF EndTransaction, CallTypes

\* Steps that hand over no connection.
LEMMA NoHandOver ==
  ASSUME PoolInv, idle' = idle,
         \A w \in Writers : Underway(w)' = Underway(w),
         \A w \in Writers : Underway(w) => client'[w] = client[w],
         \A c \in idle : pending'[c] \in {pending[c], NothingWritten},
         \A c \in idle : c \in aborted' => c \in aborted,
         \A c \in idle : c = holder' => c = holder
  PROVE  ConnectionsAreAccountedFor'
<1>1. ConnectionsAreAccountedFor
  BY DEF PoolInv
<1>2. (\A c \in idle : pending[c] = NothingWritten /\ c \notin aborted /\ c # holder)'
  BY <1>1 DEF ConnectionsAreAccountedFor
<1>3. ASSUME NEW c \in Clients
      PROVE  (c \notin idle <=> \E w \in Writers : Underway(w) /\ client[w] = c)'
  BY <1>1 DEF ConnectionsAreAccountedFor
<1>4. ASSUME NEW v \in Writers, NEW w \in Writers, Underway(v)', Underway(w)',
             client'[v] = client'[w]
      PROVE  v = w
  BY <1>1, <1>4 DEF ConnectionsAreAccountedFor
<1> QED
  BY <1>2, <1>3, <1>4 DEF ConnectionsAreAccountedFor

\* A call goes from one of its steps to another.
LEMMA CallMoves ==
  ASSUME PoolInv, NEW call \in Calls, NEW where, GoTo(call, where),
         UNCHANGED <<idle, client>>,
         call \in Writers => Underway(call) /\ where \in
           {"lock", "read", "work", "write", "commit", "rollback"},
         call \in Readers => where = "read" /\ pc[call] = "read",
         pending' = [c \in Clients |-> pending'[c]],
         \A c \in idle : pending'[c] \in {pending[c], NothingWritten},
         \A c \in idle : c \in aborted' => c \in aborted,
         \A c \in idle : c = holder' => c = holder
  PROVE  PoolInv'
<1>0. CallTypes
  BY DEF PoolInv
<1>1. pc' = [pc EXCEPT ![call] = where]
  BY DEF GoTo
<1>2. /\ pc' = [other \in Calls |-> pc'[other]] /\ pc'[call] = where
      /\ \A other \in Calls : other # call => pc'[other] = pc[other]
  BY <1>0, <1>1 DEF CallTypes
<1>3. \A w \in Writers : Underway(w)' = Underway(w)
  BY <1>2 DEF Underway, Calls
<1>4. \A r \in Readers : pc'[r] = "read" => pc[r] = "read"
  BY <1>2 DEF Calls
<1>5. CallTypes'
  BY <1>0, <1>2, <1>3, <1>4 DEF CallTypes
<1>6. ConnectionsAreAccountedFor'
  BY <1>3, NoHandOver
<1> QED
  BY <1>5, <1>6 DEF PoolInv

\* A writer gives its connection back, clean.
LEMMA WriterReleases ==
  ASSUME PoolInv, NEW w \in Writers, Underway(w), NEW how \in {"returned", "failed"},
         EndTransaction(client[w]), End(w, how), idle' = idle \cup {client[w]}
  PROVE  PoolInv'
<1> DEFINE c == client[w]
<1>0. CallTypes /\ ConnectionsAreAccountedFor /\ w \in Calls
  BY DEF PoolInv, Calls
<1>1. c \in Clients
  BY <1>0 DEF CallTypes
<1>2. /\ pending' = [d \in Clients |-> pending'[d]]
      /\ pending'[c] = NothingWritten /\ c \notin aborted' /\ c # holder'
      /\ \A d \in Clients \ {c} : pending'[d] = pending[d]
      /\ aborted' \subseteq aborted
      /\ \A d \in Clients : d = holder' => d = holder
  BY <1>0, <1>1, EndTransactionCleans
<1>3. /\ pc' = [pc EXCEPT ![w] = how] /\ client' = [client EXCEPT ![w] = NoClient]
  BY DEF End, GoTo
<1>4. /\ pc'[w] = how /\ client'[w] = NoClient
      /\ \A call \in Calls \ {w} : pc'[call] = pc[call] /\ client'[call] = client[call]
      /\ pc' = [call \in Calls |-> pc'[call]] /\ client' \in [Calls -> Clients \cup {NoClient}]
  BY <1>0, <1>3 DEF CallTypes
<1>5. ~ Underway(w)' /\ \A v \in Writers \ {w} : Underway(v)' = Underway(v)
  BY <1>4 DEF Underway, Calls
<1>5a. idle' = idle \cup {c}
  OBVIOUS
<1> HIDE DEF c
<1>6. CallTypes'
  <2>1. \A v \in Writers : Underway(v)' => client'[v] \in Clients
    BY <1>0, <1>4, <1>5 DEF CallTypes, Calls
  <2>2. \A r \in Readers : pc'[r] = "read" => client'[r] \in Clients
    BY <1>0, <1>4 DEF CallTypes, Calls
  <2> QED
    BY <1>0, <1>1, <1>2, <1>4, <1>5a, <2>1, <2>2 DEF CallTypes
<1>7. ConnectionsAreAccountedFor'
  <2>1. (\A d \in idle : pending[d] = NothingWritten /\ d \notin aborted /\ d # holder)'
    BY <1>0, <1>1, <1>2, <1>5a DEF ConnectionsAreAccountedFor, CallTypes
  <2>2. ASSUME NEW v \in Writers, NEW u \in Writers, Underway(v)', Underway(u)',
               client'[v] = client'[u]
        PROVE  v = u
    BY <1>0, <1>4, <1>5, <2>2 DEF ConnectionsAreAccountedFor, Calls
  <2>3. ASSUME NEW d \in Clients
        PROVE  (d \notin idle <=> \E v \in Writers : Underway(v) /\ client[v] = d)'
    <3>1. d \notin idle <=> \E v \in Writers : Underway(v) /\ client[v] = d
      BY <1>0 DEF ConnectionsAreAccountedFor
    <3>2. CASE d = c
      <4>1. \A v \in Writers \ {w} : ~ (Underway(v) /\ client[v] = c)
        BY <1>0 DEF ConnectionsAreAccountedFor, c
      <4> QED
        BY <3>2, <4>1, <1>4, <1>5, <1>5a DEF Calls
    <3>3. CASE d # c
      <4>1. \A v \in Writers : client[v] = d => v # w
        BY <3>3 DEF c
      <4>2. \A v \in Writers \ {w} : (Underway(v) /\ client[v] = d)' <=> Underway(v) /\ client[v] = d
        BY <1>4, <1>5 DEF Calls
      <4> QED
        BY <3>1, <3>3, <4>1, <4>2, <1>5, <1>5a
    <3> QED
      BY <3>2, <3>3
  <2> QED
    BY <2>1, <2>2, <2>3 DEF ConnectionsAreAccountedFor
<1> QED
  BY <1>6, <1>7 DEF PoolInv

\* A writer takes a connection out of the pool.
LEMMA WriterConnects ==
  ASSUME PoolInv, NEW w \in Writers, NEW c \in Clients, ConnectWriter(w, c)
  PROVE  PoolInv'
<1>0. CallTypes /\ ConnectionsAreAccountedFor /\ w \in Calls
  BY DEF PoolInv, Calls
<1>1. /\ pc[w] = "start" /\ c \in idle /\ idle' = idle \ {c}
      /\ client' = [client EXCEPT ![w] = c] /\ pc' = [pc EXCEPT ![w] = "lock"]
      /\ UNCHANGED <<pending, aborted, holder>>
  BY DEF ConnectWriter, GoTo, sessionVars
<1>2. /\ pc'[w] = "lock" /\ client'[w] = c
      /\ \A call \in Calls \ {w} : pc'[call] = pc[call] /\ client'[call] = client[call]
      /\ pc' = [call \in Calls |-> pc'[call]] /\ client' \in [Calls -> Clients \cup {NoClient}]
  BY <1>0, <1>1 DEF CallTypes
<1>3. /\ ~ Underway(w) /\ Underway(w)'
      /\ \A v \in Writers \ {w} : Underway(v)' = Underway(v)
  BY <1>1, <1>2 DEF Underway, Calls
<1>4. CallTypes'
  <2>1. \A v \in Writers : Underway(v)' => client'[v] \in Clients
    BY <1>0, <1>2, <1>3 DEF CallTypes, Calls
  <2>2. \A r \in Readers : pc'[r] = "read" => client'[r] \in Clients
    BY <1>0, <1>2 DEF CallTypes, Calls
  <2> QED
    BY <1>0, <1>1, <1>2, <2>1, <2>2 DEF CallTypes
<1>5. ConnectionsAreAccountedFor'
  <2>0. \A v \in Writers \ {w} : Underway(v) => client[v] # c
    BY <1>0, <1>1 DEF ConnectionsAreAccountedFor
  <2>1. (\A d \in idle : pending[d] = NothingWritten /\ d \notin aborted /\ d # holder)'
    BY <1>0, <1>1 DEF ConnectionsAreAccountedFor
  <2>2. ASSUME NEW v \in Writers, NEW u \in Writers, Underway(v)', Underway(u)',
               client'[v] = client'[u]
        PROVE  v = u
    BY <1>0, <1>2, <1>3, <2>0, <2>2 DEF ConnectionsAreAccountedFor, Calls
  <2>3. ASSUME NEW d \in Clients
        PROVE  (d \notin idle <=> \E v \in Writers : Underway(v) /\ client[v] = d)'
    <3>1. d \notin idle <=> \E v \in Writers : Underway(v) /\ client[v] = d
      BY <1>0 DEF ConnectionsAreAccountedFor
    <3>2. CASE d = c
      BY <3>2, <1>1, <1>2, <1>3
    <3>3. CASE d # c
      BY <3>1, <3>3, <1>1, <1>2, <1>3 DEF Calls
    <3> QED
      BY <3>2, <3>3
  <2> QED
    BY <2>1, <2>2, <2>3 DEF ConnectionsAreAccountedFor
<1> QED
  BY <1>4, <1>5 DEF PoolInv

\* A reader comes, or goes without a connection.
LEMMA ReaderMoves ==
  ASSUME PoolInv, NEW r \in Readers, NEW where, NEW c \in Clients \cup {NoClient},
         pc' = [pc EXCEPT ![r] = where], client' = [client EXCEPT ![r] = c],
         where = "read" => c \in Clients,
         UNCHANGED <<idle, pending, holder>>,
         \A d \in idle : d \in aborted' => d \in aborted
  PROVE  PoolInv'
<1>0. CallTypes /\ r \in Calls /\ r \notin Writers
  BY CallAssumption DEF PoolInv, Calls
<1>1. /\ pc'[r] = where /\ client'[r] = c
      /\ \A call \in Calls \ {r} : pc'[call] = pc[call] /\ client'[call] = client[call]
      /\ pc' = [call \in Calls |-> pc'[call]] /\ client' \in [Calls -> Clients \cup {NoClient}]
  BY <1>0 DEF CallTypes
<1>2. \A w \in Writers : Underway(w)' = Underway(w) /\ client'[w] = client[w]
  BY <1>0, <1>1 DEF Underway, Calls
<1>3. \A q \in Readers : pc'[q] = "read" => client'[q] \in Clients
  BY <1>0, <1>1 DEF CallTypes, Calls
<1>4. CallTypes'
  BY <1>0, <1>1, <1>2, <1>3 DEF CallTypes
<1>5. ConnectionsAreAccountedFor'
  BY <1>2, NoHandOver
<1> QED
  BY <1>4, <1>5 DEF PoolInv

\* The connection of a writer is not in the pool.
LEMMA WriterHoldsConnection ==
  ASSUME PoolInv, NEW w \in Writers, Underway(w)
  PROVE  client[w] \in Clients /\ client[w] \notin idle
BY DEF PoolInv, CallTypes, ConnectionsAreAccountedFor

LEMMA WriterSelects ==
  ASSUME PoolInv, NEW w \in Writers, ReadLocked(w)
  PROVE  PoolInv'
<1> DEFINE table == ReadOrder[done[w] + 1]
           seen == [got EXCEPT ![w][table] = Visible(client[w], table)]
           where == IF done[w] + 1 < Len(ReadOrder) THEN "read"
                    ELSE IF Intact(FromTables(seen[w])) THEN "work" ELSE "rollback"
<1>1. w \in Calls /\ w \notin Readers
  BY CallAssumption DEF Calls
<1>2. /\ pc[w] = "read" /\ GoTo(w, where)
      /\ UNCHANGED <<idle, client, pending, aborted, holder>>
  BY <1>1 DEF ReadLocked, Select, sessionVars
<1>3. where \in {"read", "work", "rollback"}
  OBVIOUS
<1>4. Underway(w)
  BY <1>2 DEF Underway
<1>5. pending' = [c \in Clients |-> pending'[c]]
  BY <1>2 DEF PoolInv, CallTypes
<1> HIDE DEF where
<1> QED
  BY <1>1, <1>2, <1>3, <1>4, <1>5, CallMoves

LEMMA ReaderSelects ==
  ASSUME PoolInv, NEW r \in Readers, Read(r)
  PROVE  PoolInv'
<1> DEFINE table == ReadOrder[done[r] + 1]
           seen == [got EXCEPT ![r][table] = Visible(client[r], table)]
           where == IF done[r] + 1 < Len(ReadOrder) THEN "read"
                    ELSE IF Intact(FromTables(seen[r])) THEN "returned" ELSE "refused"
<1>1. r \in Calls /\ r \notin Writers
  BY CallAssumption DEF Calls
<1>2. /\ pc[r] = "read"
      /\ IF where # "read" THEN End(r, where) ELSE GoTo(r, where) /\ client' = client
      /\ UNCHANGED <<idle, pending, aborted, holder>>
  BY <1>1 DEF Read, Select, sessionVars
<1> HIDE DEF where
<1>3. CASE where # "read"
  BY <1>2, <1>3, ReaderMoves DEF End, GoTo
<1>4. CASE where = "read"
  <2>1. pending' = [c \in Clients |-> pending'[c]]
    BY <1>2 DEF PoolInv, CallTypes
  <2> QED
    BY <1>1, <1>2, <1>4, <2>1, CallMoves
<1> QED
  BY <1>3, <1>4

\* The steps of a writer that keeps its connection.
LEMMA WriterWorks ==
  ASSUME PoolInv, NEW w \in Writers,
         AcquireLock(w) \/ RunCallback(w) \/ Write(w) \/ StatementFails(w)
  PROVE  PoolInv'
<1>1. w \in Calls /\ w \notin Readers
  BY CallAssumption DEF Calls
<1>2. pending = [c \in Clients |-> pending[c]]
  BY DEF PoolInv, CallTypes
<1>3. Underway(w)
  BY DEF AcquireLock, RunCallback, Write, StatementFails, Underway
<1>4. client[w] \in Clients /\ client[w] \notin idle
  BY <1>3, WriterHoldsConnection
<1>5. CASE AcquireLock(w)
  BY <1>1, <1>2, <1>3, <1>4, <1>5, CallMoves DEF AcquireLock
<1>6. CASE RunCallback(w)
  <2>1. GoTo(w, "rollback") \/ GoTo(w, "write")
    BY <1>6 DEF RunCallback
  <2> QED
    BY <1>1, <1>2, <1>3, <1>6, <2>1, CallMoves DEF RunCallback, sessionVars
<1>7. CASE Write(w)
  <2>1. PICK p : pending' = [pending EXCEPT ![client[w]] = p]
    BY <1>7 DEF Write
  <2>2. /\ pending' = [c \in Clients |-> pending'[c]]
        /\ \A c \in idle : pending'[c] = pending[c]
    <3>1. idle \subseteq Clients
      BY DEF PoolInv, CallTypes
    <3> QED
      BY <1>2, <1>4, <2>1, <3>1
  <2>3. GoTo(w, "commit") \/ GoTo(w, "write")
    BY <1>7 DEF Write
  <2>4. UNCHANGED <<idle, client, aborted, holder>>
    BY <1>7 DEF Write
  <2> QED
    BY <1>1, <1>3, <2>2, <2>3, <2>4, CallMoves
<1>8. CASE StatementFails(w)
  BY <1>1, <1>2, <1>3, <1>4, <1>8, CallMoves DEF StatementFails
<1> QED
  BY <1>5, <1>6, <1>7, <1>8

\* A connection breaks: its writer still has to give it back.
LEMMA ConnectionBreaks ==
  ASSUME PoolInv, NEW c \in Clients, ConnectionLost(c)
  PROVE  PoolInv'
<1> DEFINE users == {call \in Calls : client[call] = c /\ pc[call] \in
                       {"lock", "read", "work", "write", "commit"}}
<1>0. CallTypes
  BY DEF PoolInv
<1>1. /\ EndTransaction(c) /\ UNCHANGED <<idle, client>>
      /\ pc' = [call \in Calls |->
                  IF call \notin users THEN pc[call]
                  ELSE IF call \in Readers THEN "failed" ELSE "rollback"]
  BY DEF ConnectionLost
<1>2. /\ pending' = [d \in Clients |-> pending'[d]]
      /\ pending'[c] = NothingWritten
      /\ \A d \in Clients \ {c} : pending'[d] = pending[d]
      /\ aborted' \subseteq aborted
      /\ \A d \in Clients : d = holder' => d = holder
  BY <1>0, <1>1, EndTransactionCleans
<1>3. \A w \in Writers : pc'[w] = IF w \in users THEN "rollback" ELSE pc[w]
  BY <1>1, CallAssumption DEF Calls
<1>4. \A w \in Writers : Underway(w)' = Underway(w)
  BY <1>3 DEF Underway
<1>5. \A r \in Readers : pc'[r] = "read" => pc[r] = "read"
  BY <1>1 DEF Calls
<1>6. pc' = [call \in Calls |-> pc'[call]]
  BY <1>1
<1> HIDE DEF users
<1>7. CallTypes'
  BY <1>0, <1>1, <1>2, <1>4, <1>5, <1>6 DEF CallTypes
<1>8. ConnectionsAreAccountedFor'
  <2>1. idle \subseteq Clients
    BY <1>0 DEF CallTypes
  <2>2. \A d \in idle : pending'[d] \in {pending[d], NothingWritten}
    BY <1>2, <2>1
  <2> QED
    BY <1>1, <1>2, <1>4, <2>1, <2>2, NoHandOver
<1> QED
  BY <1>7, <1>8 DEF PoolInv

LEMMA PoolStarts == Init => PoolInv
<1> SUFFICES ASSUME Init PROVE PoolInv
  OBVIOUS
<1>1. \A w \in Writers : ~ Underway(w)
  BY DEF Init, Underway, Calls
<1>2. \A r \in Readers : pc[r] # "read"
  BY DEF Init, Calls
<1>3. CallTypes
  BY <1>1, <1>2 DEF Init, CallTypes
<1>4. ConnectionsAreAccountedFor
  BY <1>1, NoClientAssumption DEF Init, ConnectionsAreAccountedFor
<1> QED
  BY <1>3, <1>4 DEF PoolInv

LEMMA PoolStep == PoolInv /\ [Next]_pgVars => PoolInv'
<1> SUFFICES ASSUME PoolInv, [Next]_pgVars PROVE PoolInv'
  OBVIOUS
<1>1. ASSUME NEW w \in Writers, WriterStep(w) PROVE PoolInv'
  <2>1. CASE \E c \in Clients : ConnectWriter(w, c)
    BY <2>1, WriterConnects
  <2>2. CASE AcquireLock(w) \/ RunCallback(w) \/ Write(w)
    BY <2>2, WriterWorks
  <2>3. CASE ReadLocked(w)
    BY <2>3, WriterSelects
  <2>4. CASE Commit(w)
    BY <2>4, WriterReleases DEF Commit, Underway
  <2>5. CASE Rollback(w)
    BY <2>5, WriterReleases DEF Rollback, Underway
  <2> QED
    BY <1>1, <2>1, <2>2, <2>3, <2>4, <2>5 DEF WriterStep
<1>2. ASSUME NEW r \in Readers, ReaderStep(r) PROVE PoolInv'
  <2>1. ASSUME NEW c \in Clients, ConnectReader(r, c) PROVE PoolInv'
    BY <2>1, ReaderMoves DEF ConnectReader, GoTo, sessionVars
  <2> QED
    BY <1>2, <2>1, ReaderSelects DEF ReaderStep
<1>3. ASSUME Fault PROVE PoolInv'
  <2>1. ASSUME NEW r \in Readers, ReadFails(r) PROVE PoolInv'
    <3>1. \A d \in idle : d \in aborted' => d \in aborted
      BY <2>1 DEF ReadFails
    <3> QED
      BY <2>1, <3>1, ReaderMoves DEF ReadFails, End, GoTo
  <2> QED
    BY <1>3, <2>1, WriterWorks, ConnectionBreaks DEF Fault
<1>4. CASE UNCHANGED pgVars
  BY <1>4 DEF pgVars, sessionVars, callVars, PoolInv, CallTypes, ConnectionsAreAccountedFor,
              Underway
<1> QED
  BY <1>1, <1>2, <1>3, <1>4 DEF Next

\* Whatever fails and however calls overlap, a connection is in its pool,
\* clean, or with exactly one writer (src/src/lib/infrastructure/postgres-store.ts,
\* withPostgresStoreLock and readStorePostgres).
THEOREM ConnectionsStayAccountedFor == Spec => []ConnectionsAreAccountedFor
<1>1. PoolInv => ConnectionsAreAccountedFor
  BY DEF PoolInv
<1> QED
  BY <1>1, PoolStarts, PoolStep, PTL DEF Spec

-----------------------------------------------------------------------------
(***************************************************************************)
(* The SQLite store: one callback runs at a time, the first of the chain.  *)
(***************************************************************************)
LockCalls == Writers \cup {drift}

HasPlace(call, calls) == \E i \in 1 .. Len(calls) : calls[i] = call

\* The callback that runs is of the first call of the chain, and works on what
\* is stored.
RunsFirst(call) ==
    at[call] = "work" =>
      /\ chain # <<>> /\ chain[1] = call
      /\ opened /\ copy[call] = Sqlite!FromTables(rows)

ChainInv ==
    /\ at = [call \in LockCalls \cup Readers |-> at[call]]
    /\ copy = [call \in LockCalls \cup Readers |-> copy[call]]
    /\ opened \in BOOLEAN
    /\ chain \in Seq(LockCalls)
    /\ \A call \in LockCalls : at[call] \in {"waiting", "work"} => HasPlace(call, chain)
    /\ \A call \in LockCalls : RunsFirst(call)
    /\ \A call \in LockCalls : call \in written => at[call] = "returned"

LEMMA LockReadersAreNoCalls == LockCalls \cap Readers = {}
BY CallAssumption, DriftAssumption DEF LockCalls

LEMMA AppendKeepsPlaces ==
  ASSUME NEW S, NEW calls \in Seq(S), NEW last \in S
  PROVE  /\ Append(calls, last) \in Seq(S)
         /\ calls # <<>> => Append(calls, last) # <<>> /\ Append(calls, last)[1] = calls[1]
         /\ HasPlace(last, Append(calls, last))
         /\ \A call : HasPlace(call, calls) => HasPlace(call, Append(calls, last))
<1>1. /\ Append(calls, last) \in Seq(S) /\ Len(Append(calls, last)) = Len(calls) + 1
      /\ \A i \in 1 .. Len(calls) : Append(calls, last)[i] = calls[i]
      /\ Append(calls, last)[Len(calls) + 1] = last
      /\ Len(calls) \in Nat
  OBVIOUS
<1>2. calls # <<>> => 1 \in 1 .. Len(calls)
  OBVIOUS
<1>3. Append(calls, last) # <<>>
  <2>1. Len(Append(calls, last)) # 0 /\ Len(<<>>) = 0
    BY <1>1
  <2> QED
    BY <2>1
<1>4. \A i \in 1 .. Len(calls) : i \in 1 .. Len(Append(calls, last))
  BY <1>1
<1>5. Len(calls) + 1 \in 1 .. Len(Append(calls, last))
  BY <1>1
<1> QED
  BY <1>1, <1>2, <1>3, <1>4, <1>5 DEF HasPlace

LEMMA TailKeepsPlaces ==
  ASSUME NEW S, NEW calls \in Seq(S), calls # <<>>
  PROVE  /\ Tail(calls) \in Seq(S)
         /\ \A call : call # calls[1] /\ HasPlace(call, calls) => HasPlace(call, Tail(calls))
<1>1. /\ Tail(calls) \in Seq(S) /\ Len(calls) \in Nat \ {0} /\ Len(Tail(calls)) = Len(calls) - 1
      /\ \A i \in 1 .. (Len(calls) - 1) : Tail(calls)[i] = calls[i + 1]
  OBVIOUS
<1>2. ASSUME NEW call, call # calls[1], NEW i \in 1 .. Len(calls), calls[i] = call
      PROVE  HasPlace(call, Tail(calls))
  <2>1. i # 1
    BY <1>2
  <2>2. i - 1 \in 1 .. (Len(calls) - 1) /\ (i - 1) + 1 = i
    BY <1>1, <2>1
  <2>3. Tail(calls)[i - 1] = call
    BY <1>1, <1>2, <2>2
  <2> QED
    BY <1>1, <2>2, <2>3 DEF HasPlace
<1> QED
  BY <1>1, <1>2 DEF HasPlace

\* Reading the store opens it, and changes nothing of it.
LEMMA OpeningKeepsStore ==
  ASSUME ChainInv, opened' = TRUE, rows' = Sqlite!Opened
  PROVE  /\ Sqlite!Opened' = Sqlite!Opened
         /\ opened => rows' = rows
BY DEF Sqlite!Opened

LEMMA ChainStep ==
  ASSUME ChainInv, Sqlite!Next
  PROVE  ChainInv'
<1>1. ASSUME NEW call \in LockCalls, Sqlite!Arrive(call) PROVE ChainInv'
  <2>1. /\ at' = [at EXCEPT ![call] = "waiting"] /\ chain' = Append(chain, call)
        /\ at[call] = "start" /\ UNCHANGED <<opened, rows, copy, written>>
    BY <1>1 DEF Sqlite!Arrive, Sqlite!GoTo
  <2>2. /\ chain' \in Seq(LockCalls) /\ (chain # <<>> => chain' # <<>> /\ chain'[1] = chain[1])
        /\ HasPlace(call, chain')
        /\ \A other : HasPlace(other, chain) => HasPlace(other, chain')
    BY <2>1, AppendKeepsPlaces DEF ChainInv
  <2>4. ASSUME NEW other \in LockCalls, at'[other] \in {"waiting", "work"}
        PROVE  HasPlace(other, chain')
    <3>1. CASE other = call
      BY <2>2, <3>1
    <3>2. CASE other # call
      BY <2>1, <2>2, <2>4, <3>2 DEF ChainInv
    <3> QED
      BY <3>1, <3>2
  <2>3. \A other \in LockCalls : RunsFirst(other)'
    BY <2>1, <2>2 DEF ChainInv, RunsFirst
  <2> QED
    BY <2>1, <2>2, <2>3, <2>4 DEF ChainInv
<1>2. ASSUME NEW call \in LockCalls, Sqlite!Begin(call) PROVE ChainInv'
  <2>1. /\ at' = [at EXCEPT ![call] = "work"]
        /\ copy' = [copy EXCEPT ![call] = Sqlite!FromTables(rows')]
        /\ at[call] = "waiting" /\ chain[1] = call /\ opened' = TRUE
        /\ UNCHANGED <<chain, written>>
    BY <1>2 DEF Sqlite!Begin, Sqlite!GoTo
  <2>2. ASSUME NEW other \in LockCalls PROVE RunsFirst(other)'
    <3>1. CASE other = call
      <4>1. chain # <<>>
        <5>1. HasPlace(call, chain)
          BY <2>1 DEF ChainInv
        <5> QED
          BY <5>1 DEF HasPlace
      <4> QED
        BY <2>1, <3>1, <4>1 DEF ChainInv, RunsFirst, LockCalls
    <3>2. CASE other # call
      BY <2>1, <3>2 DEF ChainInv, RunsFirst
    <3> QED
      BY <3>1, <3>2
  <2>3. \A other \in LockCalls : other \in written' => at'[other] = "returned"
    BY <2>1 DEF ChainInv
  <2>4. \A other \in LockCalls : at'[other] \in {"waiting", "work"} => HasPlace(other, chain')
    BY <2>1 DEF ChainInv
  <2> QED
    BY <2>1, <2>2, <2>3, <2>4 DEF ChainInv
<1>3. ASSUME NEW call \in LockCalls, Sqlite!Complete(call) \/ Sqlite!Abort(call)
      PROVE  ChainInv'
  <2>1. PICK where \in {"returned", "failed"} :
          /\ at' = [at EXCEPT ![call] = where]
          /\ written' = IF where = "returned" THEN written \cup {call} ELSE written
    BY <1>3 DEF Sqlite!Complete, Sqlite!Abort, Sqlite!GoTo
  <2>2. at[call] = "work" /\ chain' = Tail(chain) /\ UNCHANGED <<opened, copy>>
    BY <1>3 DEF Sqlite!Complete, Sqlite!Abort
  <2>3. chain \in Seq(LockCalls) /\ chain # <<>> /\ chain[1] = call
    BY <2>2 DEF ChainInv, RunsFirst
  <2>4. /\ chain' \in Seq(LockCalls)
        /\ \A other : other # call /\ HasPlace(other, chain) => HasPlace(other, chain')
    BY <2>2, <2>3, TailKeepsPlaces
  <2>7. \A other \in LockCalls : at'[other] \in {"waiting", "work"} => HasPlace(other, chain')
    BY <2>1, <2>4 DEF ChainInv
  <2>5. \A other \in LockCalls : at'[other] # "work"
    BY <2>1, <2>3 DEF ChainInv, RunsFirst
  <2>6. \A other \in LockCalls : other \in written' => at'[other] = "returned"
    BY <2>1, <2>2 DEF ChainInv
  <2> QED
    BY <2>1, <2>2, <2>4, <2>5, <2>6, <2>7 DEF ChainInv, RunsFirst
<1>4. ASSUME NEW r \in Readers, Sqlite!ReadStore(r) PROVE ChainInv'
  <2>1. /\ \E where : at' = [at EXCEPT ![r] = where]
        /\ \E store : copy' = [copy EXCEPT ![r] = store]
        /\ opened' = TRUE /\ rows' = Sqlite!Opened /\ UNCHANGED <<chain, written>>
    BY <1>4 DEF Sqlite!ReadStore, Sqlite!GoTo
  <2>2. \A call \in LockCalls : at'[call] = at[call] /\ copy'[call] = copy[call]
    BY <2>1, LockReadersAreNoCalls DEF ChainInv
  <2>3. opened => rows' = rows
    BY <2>1, OpeningKeepsStore
  <2>4. \A call \in LockCalls : RunsFirst(call)'
    BY <2>1, <2>2, <2>3 DEF ChainInv, RunsFirst
  <2> QED
    BY <2>1, <2>2, <2>4 DEF ChainInv
<1> QED
  BY <1>1, <1>2, <1>3, <1>4 DEF Sqlite!Next, Sqlite!CallStep, LockCalls

\* The initial states and the steps of the chain are those of the contract.
LEMMA ChainStarts == Sqlite!Init => ChainInv /\ Sqlite!Atomic!Init
<1> SUFFICES ASSUME Sqlite!Init PROVE ChainInv /\ Sqlite!Atomic!Init
  OBVIOUS
<1>1. ChainInv
  <2>1. chain \in Seq(LockCalls)
    BY DEF Sqlite!Init
  <2>2. at = [call \in LockCalls \cup Readers |-> at[call]]
    BY DEF Sqlite!Init, LockCalls
  <2>3. copy = [call \in LockCalls \cup Readers |-> copy[call]]
    BY DEF Sqlite!Init, LockCalls
  <2>4. \A call \in LockCalls : at[call] = "start"
    BY DEF Sqlite!Init, LockCalls
  <2> QED
    BY <2>1, <2>2, <2>3, <2>4 DEF Sqlite!Init, ChainInv, RunsFirst
<1>2. Sqlite!Atomic!Init
  BY DEF Sqlite!Init, Sqlite!Atomic!Init, Sqlite!Opened, Sqlite!AnswerOf
<1> QED
  BY <1>1, <1>2

LEMMA ChainStepIsContractual ==
  ASSUME ChainInv, Sqlite!Next
  PROVE  [Sqlite!Atomic!Next]_(Sqlite!Atomic!vars)
<1> DEFINE answer == [call \in LockCalls |-> Sqlite!AnswerOf(at[call])]
<1>1. ASSUME NEW call \in LockCalls, Sqlite!Complete(call)
      PROVE  Sqlite!Atomic!Next
  <2>1. /\ Sqlite!Accepted(call) /\ at[call] = "work" /\ at' = [at EXCEPT ![call] = "returned"]
        /\ rows' = Sqlite!WrittenSqlite(LockResult(call, copy[call]))
        /\ written' = written \cup {call} /\ opened' = opened
    BY <1>1 DEF Sqlite!Complete, Sqlite!GoTo
  <2>2. opened /\ copy[call] = Sqlite!FromTables(rows)
    BY <2>1 DEF ChainInv, RunsFirst
  <2>3. Sqlite!Opened = rows /\ Sqlite!Opened' = rows'
    BY <2>1, <2>2 DEF Sqlite!Opened
  <2>4. ~ Sqlite!ThrowsOn(call, rows) /\ rows' = Sqlite!ResultOn(call, rows)
    BY <2>1, <2>2 DEF Sqlite!Accepted, Sqlite!ThrowsOn, Sqlite!ResultOn, Sqlite!WrittenSqlite
  <2>5. call \notin written
    BY <2>1 DEF ChainInv
  <2>6. answer[call] = "none" /\ answer' = [answer EXCEPT ![call] = "returned"]
    BY <2>1 DEF Sqlite!AnswerOf, ChainInv
  <2> QED
    BY <2>1, <2>3, <2>4, <2>5, <2>6
       DEF Sqlite!Atomic!Next, Sqlite!Atomic!Succeed, Sqlite!Atomic!Apply, Sqlite!Atomic!Tell,
           LockCalls
<1>2. ASSUME NEW call \in LockCalls, Sqlite!Abort(call)
      PROVE  Sqlite!Atomic!Next
  <2>1. /\ at[call] = "work" /\ at' = [at EXCEPT ![call] = "failed"]
        /\ UNCHANGED <<rows, written, opened>>
    BY <1>2 DEF Sqlite!Abort, Sqlite!GoTo
  <2>2. answer[call] = "none" /\ answer' = [answer EXCEPT ![call] = "failed"]
    BY <2>1 DEF Sqlite!AnswerOf, ChainInv
  <2>3. Sqlite!Opened' = Sqlite!Opened
    BY <2>1 DEF Sqlite!Opened
  <2> QED
    BY <2>1, <2>2, <2>3
       DEF Sqlite!Atomic!Next, Sqlite!Atomic!Fail, Sqlite!Atomic!Tell, LockCalls
<1>3. ASSUME NEW call \in LockCalls, Sqlite!Arrive(call) \/ Sqlite!Begin(call)
      PROVE  UNCHANGED <<Sqlite!Opened, written, answer>>
  <2>1. PICK where \in {"waiting", "work"} :
          at' = [at EXCEPT ![call] = where] /\ at[call] \in {"start", "waiting"}
    BY <1>3 DEF Sqlite!Arrive, Sqlite!Begin, Sqlite!GoTo
  <2>2. answer' = answer
    BY <2>1 DEF Sqlite!AnswerOf, ChainInv
  <2>3. Sqlite!Opened' = Sqlite!Opened /\ written' = written
    BY <1>3 DEF Sqlite!Arrive, Sqlite!Begin, Sqlite!Opened
  <2> QED
    BY <2>2, <2>3
<1>4. ASSUME NEW r \in Readers, Sqlite!ReadStore(r)
      PROVE  UNCHANGED <<Sqlite!Opened, written, answer>>
  <2>1. \E where : at' = [at EXCEPT ![r] = where]
    BY <1>4 DEF Sqlite!ReadStore, Sqlite!GoTo
  <2>2. \A call \in LockCalls : at'[call] = at[call]
    BY <2>1, LockReadersAreNoCalls DEF ChainInv
  <2>3. Sqlite!Opened' = Sqlite!Opened /\ written' = written
    BY <1>4 DEF Sqlite!ReadStore, Sqlite!Opened
  <2> QED
    BY <2>2, <2>3
<1> QED
  BY <1>1, <1>2, <1>3, <1>4
     DEF Sqlite!Next, Sqlite!CallStep, Sqlite!Atomic!vars, LockCalls

\* Callers of the SQLite store get what AtomicStore promises them
\* (src/src/lib/infrastructure/store.ts, withStoreLock): Spec of StoreLock.
LEMMA ChainKeepsContract ==
  Sqlite!Init /\ [][Sqlite!Next]_sqliteVars => Sqlite!ImplementsAtomicStore
<1>1. Sqlite!Init => ChainInv /\ Sqlite!Atomic!Init
  BY ChainStarts
<1>2. ChainInv /\ [Sqlite!Next]_sqliteVars => ChainInv'
  <2>1. ChainInv /\ UNCHANGED sqliteVars => ChainInv'
    BY DEF sqliteVars, ChainInv, RunsFirst
  <2> QED
    BY <2>1, ChainStep
<1>3. ChainInv /\ [Sqlite!Next]_sqliteVars => [Sqlite!Atomic!Next]_(Sqlite!Atomic!vars)
  <2>1. UNCHANGED sqliteVars => UNCHANGED Sqlite!Atomic!vars
    BY DEF sqliteVars, Sqlite!Atomic!vars, Sqlite!Opened, Sqlite!AnswerOf
  <2> QED
    BY <2>1, ChainStepIsContractual
<1> QED
  BY <1>1, <1>2, <1>3, PTL DEF Sqlite!ImplementsAtomicStore, Sqlite!Atomic!Spec

-----------------------------------------------------------------------------
(***************************************************************************)
(* The Postgres store: the transaction that holds the advisory lock works  *)
(* on what is committed, and leaves what its callback makes of it.         *)
(***************************************************************************)
Busy(w) == pc[w] \in {"read", "work", "write", "commit"}

HasRead(w) ==
    \A i \in 1 .. done[w] : got[w][ReadOrder[i]] = tables[ReadOrder[i]]

\* The callback has been run on what is committed.
CallbackIsDone(w) ==
    ~ ThrowsOn(w, tables) /\ data[w] = Result(w, FromTables(tables))

\* The tables that the transaction of w has written, and what they hold.
HasWritten(w, names) ==
    /\ DOMAIN pending[client[w]] = names
    /\ \A table \in names : pending[client[w]][table] = ToTables(data[w])[table]

Transaction(w) ==
    /\ pc[w] \in {"start", "lock", "work"} => done[w] = 0
    /\ pc[w] \in {"lock", "read", "work"} => pending[client[w]] = NothingWritten
    /\ pc[w] = "read" => done[w] \in 0 .. Len(ReadOrder) - 1 /\ HasRead(w)
    /\ pc[w] = "work" => got[w] = tables
    /\ pc[w] \in {"write", "commit"} => CallbackIsDone(w)
    /\ pc[w] = "write" =>
         /\ done[w] \in 0 .. Len(WriteOrder) - 1
         /\ HasWritten(w, {WriteOrder[i] : i \in 1 .. done[w]})
    /\ pc[w] = "commit" => HasWritten(w, Tables)
    /\ pc[w] = "lock" \/ Busy(w) => client[w] \notin aborted
    /\ Busy(w) => client[w] = holder
    /\ w \in applied => pc[w] \in {"returned", "rollback", "failed"}

CallData ==
    /\ tables = [table \in Tables |-> tables[table]]
    /\ done = [call \in Calls |-> done[call]]
    /\ data = [call \in Calls |-> data[call]]
    /\ got = [call \in Calls |-> got[call]]
    /\ \A call \in Calls : got[call] = [table \in Tables |-> got[call][table]]

TransactionsInv == CallData /\ \A w \in Writers : Transaction(w)

LEMMA ReadOrderCovers ==
  /\ Len(ReadOrder) = 7
  /\ \A i \in 1 .. 7 : ReadOrder[i] \in Tables
  /\ \A table \in Tables : \E i \in 1 .. 7 : ReadOrder[i] = table
BY DEF ReadOrder, Tables, Kinds

LEMMA WriteOrderCovers ==
  /\ Len(WriteOrder) = 7
  /\ \A i \in 1 .. 7 : WriteOrder[i] \in Tables
  /\ \A table \in Tables : \E i \in 1 .. 7 : WriteOrder[i] = table
BY DEF WriteOrder, Tables, Kinds

\* Upserting the rows of a store and deleting the others leaves its rows,
\* whatever was there.
LEMMA UpsertingReplaces ==
  ASSUME NEW old, NEW store, NEW table \in Tables
  PROVE  WrittenPostgres(old, store)[table] = ToTables(store)[table]
<1>0. WrittenPostgres(old, store)[table] = PrunedTable(old, store, table)
  <2>1. Turn[table] > 6 - 6
    BY DEF Turn, Tables, Kinds
  <2> QED
    BY <2>1 DEF WrittenPostgres, AfterDeletes
<1>1. CASE table = "approvedVendors"
  <2>1. ToTables(store).approvedVendors =
          UNION {VendorRows(mandate) : mandate \in store.mandates}
    BY DEF ToTables, Tables
  <2>2. \A row \in ToTables(store).approvedVendors : row.mandateId \in Ids(store.mandates)
    BY <2>1 DEF VendorRows, Ids
  <2>3. WrittenPostgres(old, store)[table] = PrunedVendors(UpsertedVendors(old, store), store)
    BY <1>0, <1>1 DEF PrunedTable
  <2> QED
    BY <1>1, <2>2, <2>3 DEF PrunedVendors, UpsertedVendors
<1>2. CASE table # "approvedVendors"
  <2> DEFINE kept == ToTables(store)[table]
  <2>1. WrittenPostgres(old, store)[table] = Pruned(Upserted(old[table], kept), kept)
    BY <1>0, <1>2 DEF PrunedTable
  <2> HIDE DEF kept
  <2>2. Pruned(Upserted(old[table], kept), kept) = kept
    BY DEF Pruned, Upserted, Ids
  <2> QED
    BY <2>1, <2>2 DEF kept
<1> QED
  BY <1>1, <1>2

\* Two writers have two connections.
LEMMA WritersAreApart ==
  ASSUME PoolInv, NEW v \in Writers, NEW w \in Writers, v # w, Underway(v), Underway(w)
  PROVE  client[v] # client[w]
BY DEF PoolInv, ConnectionsAreAccountedFor

LEMMA BusyIsUnderway == \A w : Busy(w) \/ pc[w] = "lock" => Underway(w)
BY DEF Busy, Underway

\* At most one writer holds the lock.
LEMMA OneIsBusy ==
  ASSUME PoolInv, TransactionsInv, NEW v \in Writers, NEW w \in Writers, Busy(v), Busy(w)
  PROVE  v = w
BY WritersAreApart, BusyIsUnderway DEF TransactionsInv, Transaction

\* A step of another call leaves a transaction as it was.
LEMMA TransactionStays ==
  ASSUME NEW v \in Writers, Transaction(v),
         pc'[v] = pc[v], client'[v] = client[v], done'[v] = done[v],
         got'[v] = got[v], data'[v] = data[v],
         Busy(v) \/ pc[v] = "lock" => pending'[client[v]] = pending[client[v]],
         Busy(v) \/ pc[v] = "lock" => client[v] \notin aborted',
         Busy(v) => holder' = holder /\ tables' = tables,
         v \in applied' => v \in applied
  PROVE  Transaction(v)'
<1>0. Busy(v)' = Busy(v)
  BY DEF Busy
<1>1. Busy(v) => CallbackIsDone(v)' = CallbackIsDone(v) /\ HasRead(v)' = HasRead(v)
  BY DEF CallbackIsDone, ThrowsOn, HasRead
<1>2. Busy(v) => \A names : HasWritten(v, names)' = HasWritten(v, names)
  BY DEF HasWritten
<1>3. pc[v] = "lock" \/ Busy(v) => client'[v] \notin aborted'
  OBVIOUS
<1>4. Busy(v) => client'[v] = holder' /\ tables' = tables /\ pending'[client'[v]] = pending[client[v]]
  BY DEF Transaction
<1>5. /\ pc[v] \in {"read", "work", "write", "commit"} => Busy(v)
      /\ pc[v] = "lock" => pending'[client'[v]] = pending[client[v]]
  BY DEF Busy
<1>6. pc[v] = "write" => HasWritten(v, {WriteOrder[i] : i \in 1 .. done[v]})'
  <2>1. SUFFICES ASSUME pc[v] = "write" PROVE HasWritten(v, {WriteOrder[i] : i \in 1 .. done[v]})'
    OBVIOUS
  <2> DEFINE names == {WriteOrder[i] : i \in 1 .. done[v]}
  <2>2. HasWritten(v, names)
    BY <2>1 DEF Transaction
  <2>3. {WriteOrder[i] : i \in 1 .. done[v]}' = names
    OBVIOUS
  <2> QED
    BY <1>4, <1>5, <2>1, <2>2, <2>3 DEF HasWritten
<1>7. pc[v] = "commit" => HasWritten(v, Tables)'
  BY <1>2, <1>5 DEF Transaction
<1> QED
  BY <1>0, <1>1, <1>3, <1>4, <1>5, <1>6, <1>7 DEF Transaction

\* What a step of another call leaves alone.
SameCall(v) ==
    /\ pc'[v] = pc[v] /\ client'[v] = client[v] /\ done'[v] = done[v]
    /\ got'[v] = got[v] /\ data'[v] = data[v]

\* A step of w on its own connection; other writers have connections of their own.
LEMMA OthersStay ==
  ASSUME PoolInv, TransactionsInv, NEW w \in Writers, Underway(w),
         \A v \in Writers \ {w} : SameCall(v),
         \A c \in Clients \ {client[w]} : pending'[c] = pending[c],
         aborted' \subseteq aborted \cup {client[w]},
         holder' = holder \/ ~ (\E v \in Writers \ {w} : Busy(v)),
         tables' = tables \/ Busy(w),
         applied' \subseteq applied \cup {w}
  PROVE  \A v \in Writers \ {w} : Transaction(v)'
<1> SUFFICES ASSUME NEW v \in Writers, v # w PROVE Transaction(v)'
  OBVIOUS
<1>1. Transaction(v)
  BY DEF TransactionsInv
<1>2. Busy(v) \/ pc[v] = "lock" => client[v] # client[w] /\ client[v] \in Clients
  BY WritersAreApart, BusyIsUnderway, WriterHoldsConnection
<1>3. Busy(v) \/ pc[v] = "lock" => pending'[client[v]] = pending[client[v]]
  BY <1>2
<1>4. Busy(v) \/ pc[v] = "lock" => client[v] \notin aborted'
  BY <1>1, <1>2 DEF Transaction
<1>5. Busy(v) => holder' = holder /\ tables' = tables
  BY OneIsBusy
<1>6. v \in applied' => v \in applied
  OBVIOUS
<1>7. SameCall(v)
  OBVIOUS
<1> QED
  BY <1>1, <1>3, <1>4, <1>5, <1>6, <1>7, TransactionStays DEF SameCall

LEMMA ConnectingTransactions ==
  ASSUME PoolInv, TransactionsInv, NEW w \in Writers, NEW c \in Clients, ConnectWriter(w, c)
  PROVE  TransactionsInv'
<1>0. CallTypes /\ ConnectionsAreAccountedFor /\ CallData /\ w \in Calls /\ Transaction(w)
  BY DEF PoolInv, TransactionsInv, Calls
<1>1. /\ pc[w] = "start" /\ c \in idle
      /\ client' = [client EXCEPT ![w] = c] /\ pc' = [pc EXCEPT ![w] = "lock"]
      /\ UNCHANGED <<tables, pending, aborted, holder, done, got, data, applied>>
  BY DEF ConnectWriter, GoTo, sessionVars
<1>2. pc'[w] = "lock" /\ client'[w] = c /\ \A v \in Writers \ {w} : SameCall(v)
  BY <1>0, <1>1 DEF CallTypes, SameCall, Calls
<1>3. ASSUME NEW v \in Writers, v # w PROVE Transaction(v)'
  <2>1. Transaction(v)
    BY DEF TransactionsInv
  <2> QED
    BY <1>1, <1>2, <1>3, <2>1, TransactionStays DEF SameCall, Transaction
<1>4. Transaction(w)'
  <2>1. pending[c] = NothingWritten /\ c \notin aborted
    BY <1>0, <1>1 DEF ConnectionsAreAccountedFor
  <2>2. done'[w] = 0 /\ w \notin applied'
    BY <1>0, <1>1 DEF Transaction
  <2>3. ~ Busy(w)'
    BY <1>2 DEF Busy
  <2> QED
    BY <1>1, <1>2, <2>1, <2>2, <2>3 DEF Transaction
<1>5. CallData'
  BY <1>0, <1>1 DEF CallData
<1> QED
  BY <1>3, <1>4, <1>5 DEF TransactionsInv

LEMMA LockingTransactions ==
  ASSUME PoolInv, TransactionsInv, NEW w \in Writers, AcquireLock(w)
  PROVE  TransactionsInv'
<1>0. CallTypes /\ CallData /\ w \in Calls /\ Transaction(w)
  BY DEF PoolInv, TransactionsInv, Calls
<1>1. /\ pc[w] = "lock" /\ holder = NoClient /\ holder' = client[w]
      /\ pc' = [pc EXCEPT ![w] = "read"]
      /\ UNCHANGED <<tables, pending, aborted, client, done, got, data, applied>>
  BY DEF AcquireLock, GoTo
<1>2. pc'[w] = "read" /\ \A v \in Writers \ {w} : SameCall(v)
  BY <1>0, <1>1 DEF CallTypes, SameCall, Calls
<1>3. \A v \in Writers : ~ Busy(v)
  <2> SUFFICES ASSUME NEW v \in Writers, Busy(v) PROVE FALSE
    OBVIOUS
  <2>1. client[v] \in Clients /\ client[v] = holder
    BY BusyIsUnderway, WriterHoldsConnection DEF TransactionsInv, Transaction
  <2> QED
    BY <1>1, <2>1, NoClientAssumption
<1>4. \A v \in Writers \ {w} : Transaction(v)'
  BY <1>1, <1>2, <1>3, OthersStay DEF Underway
<1>5. Transaction(w)'
  <2>1. HasRead(w)' /\ done'[w] \in 0 .. Len(ReadOrder) - 1
    BY <1>0, <1>1, ReadOrderCovers DEF HasRead, Transaction
  <2>2. Busy(w)' /\ client'[w] = holder' /\ client'[w] \notin aborted'
    BY <1>0, <1>1, <1>2 DEF Busy, Transaction
  <2>3. w \notin applied' /\ pending'[client'[w]] = NothingWritten
    BY <1>0, <1>1 DEF Transaction
  <2> QED
    BY <1>2, <2>1, <2>2, <2>3 DEF Transaction
<1>6. CallData'
  BY <1>0, <1>1 DEF CallData
<1> QED
  BY <1>4, <1>5, <1>6 DEF TransactionsInv

\* What a transaction sees before it has written is what is committed.
LEMMA ReadsCommitted ==
  ASSUME NEW c, pending[c] = NothingWritten, NEW table
  PROVE  Visible(c, table) = tables[table]
BY DEF Visible, NothingWritten

LEMMA ReadingTransactions ==
  ASSUME PoolInv, TransactionsInv, NEW w \in Writers, ReadLocked(w)
  PROVE  TransactionsInv'
<1> DEFINE n == done[w]
           table == ReadOrder[n + 1]
           seen == [got EXCEPT ![w][table] = Visible(client[w], table)]
           where == IF n + 1 < Len(ReadOrder) THEN "read"
                    ELSE IF Intact(FromTables(seen[w])) THEN "work" ELSE "rollback"
<1>0. CallTypes /\ CallData /\ w \in Calls /\ w \notin Readers /\ Transaction(w)
  BY CallAssumption DEF PoolInv, TransactionsInv, Calls
<1>1. /\ pc[w] = "read" /\ pc' = [pc EXCEPT ![w] = where]
      /\ got' = seen /\ done' = [done EXCEPT ![w] = (n + 1) % 7]
      /\ UNCHANGED <<tables, pending, aborted, holder, client, data, applied>>
  BY <1>0, ReadOrderCovers DEF ReadLocked, Select, GoTo, sessionVars
<1>2. n \in 0 .. 6 /\ HasRead(w) /\ pending[client[w]] = NothingWritten /\ Busy(w)
  BY <1>0, <1>1, ReadOrderCovers DEF Transaction, Busy
<1>3. table \in Tables /\ Visible(client[w], table) = tables[table]
  BY <1>2, ReadOrderCovers, ReadsCommitted
<1>4. /\ where \in {"read", "work", "rollback"}
      /\ where = "read" => n \in 0 .. 5
      /\ where = "work" => n = 6
  BY <1>2, ReadOrderCovers
<1>5. /\ got'[w] = [t \in Tables |-> IF t = table THEN tables[table] ELSE got[w][t]]
      /\ got' = [call \in Calls |-> got'[call]]
      /\ \A call \in Calls : call # w => got'[call] = got[call]
  BY <1>0, <1>1, <1>3 DEF CallData
<1> HIDE DEF where, table, seen
<1>6. pc'[w] = where /\ \A v \in Writers \ {w} : SameCall(v)
  BY <1>0, <1>1, <1>5 DEF CallTypes, CallData, SameCall, Calls
<1>7. done'[w] = (n + 1) % 7
  BY <1>0, <1>1 DEF CallData
<1>8. \A v \in Writers \ {w} : Transaction(v)'
  BY <1>1, <1>6, OthersStay DEF Underway
<1>9. \A i \in 1 .. n + 1 : got'[w][ReadOrder[i]] = tables[ReadOrder[i]]
  <2> SUFFICES ASSUME NEW i \in 1 .. n + 1 PROVE got'[w][ReadOrder[i]] = tables[ReadOrder[i]]
    OBVIOUS
  <2>1. ReadOrder[i] \in Tables
    BY <1>2, ReadOrderCovers
  <2>2. CASE ReadOrder[i] = table
    BY <1>5, <2>1, <2>2
  <2>3. CASE ReadOrder[i] # table
    <3>1. i \in 1 .. n
      BY <1>2, <2>3 DEF table
    <3> QED
      BY <1>2, <1>5, <2>1, <2>3, <3>1 DEF HasRead
  <2> QED
    BY <2>2, <2>3
<1>10. Transaction(w)'
  <2>1. client'[w] = holder' /\ client'[w] \notin aborted' /\ w \notin applied'
    BY <1>0, <1>1, <1>2 DEF Transaction
  <2>2. pending'[client'[w]] = NothingWritten
    BY <1>1, <1>2
  <2>3. CASE where = "read"
    <3>1. done'[w] = n + 1 /\ n + 1 \in 0 .. 6
      BY <1>4, <1>7, <2>3
    <3>2. HasRead(w)'
      BY <1>1, <1>9, <3>1 DEF HasRead
    <3> QED
      BY <1>6, <2>1, <2>2, <2>3, <3>1, <3>2, ReadOrderCovers DEF Transaction
  <2>4. CASE where = "work"
    <3>1. done'[w] = 0 /\ n = 6
      BY <1>4, <1>7, <2>4
    <3>2. got'[w] = tables'
      <4>1. \A t \in Tables : got'[w][t] = tables[t]
        BY <1>9, <3>1, ReadOrderCovers
      <4> QED
        BY <1>0, <1>1, <1>5, <4>1 DEF CallData
    <3> QED
      BY <1>6, <2>1, <2>2, <2>4, <3>1, <3>2 DEF Transaction
  <2>5. CASE where = "rollback"
    <3>1. ~ Busy(w)'
      BY <1>6, <2>5 DEF Busy
    <3> QED
      BY <1>6, <2>1, <2>5, <3>1 DEF Transaction
  <2> QED
    BY <1>4, <2>3, <2>4, <2>5
<1>11. CallData'
  BY <1>0, <1>1, <1>5 DEF CallData
<1> QED
  BY <1>8, <1>10, <1>11 DEF TransactionsInv

LEMMA CallingBackTransactions ==
  ASSUME PoolInv, TransactionsInv, NEW w \in Writers, RunCallback(w)
  PROVE  TransactionsInv'
<1> DEFINE store == FromTables(got[w])
           throws == Throws(w, store) \/ ~ Intact(Result(w, store))
<1>0. CallTypes /\ CallData /\ w \in Calls /\ Transaction(w)
  BY DEF PoolInv, TransactionsInv, Calls
<1>1. /\ pc[w] = "work" /\ pc' = [pc EXCEPT ![w] = IF throws THEN "rollback" ELSE "write"]
      /\ data' = IF throws THEN data ELSE [data EXCEPT ![w] = Result(w, store)]
      /\ UNCHANGED <<tables, pending, aborted, holder, client, done, got, applied>>
  BY DEF RunCallback, GoTo, sessionVars
<1>2. store = FromTables(tables) /\ throws = ThrowsOn(w, tables)
  BY <1>0, <1>1 DEF Transaction, ThrowsOn
<1> HIDE DEF store, throws
<1>3. pc'[w] = (IF throws THEN "rollback" ELSE "write")
  BY <1>0, <1>1 DEF CallTypes
<1>4. \A v \in Writers \ {w} : SameCall(v)
  BY <1>0, <1>1 DEF CallTypes, CallData, SameCall, Calls
<1>5. \A v \in Writers \ {w} : Transaction(v)'
  BY <1>1, <1>4, OthersStay DEF Underway
<1>6. Transaction(w)'
  <2>0. Busy(w)
    BY <1>1 DEF Busy
  <2>1. client'[w] = holder' /\ client'[w] \notin aborted' /\ w \notin applied'
    BY <1>0, <1>1, <2>0 DEF Transaction
  <2>2. CASE throws
    <3>1. pc'[w] = "rollback" /\ ~ Busy(w)'
      BY <1>3, <2>2 DEF Busy
    <3> QED
      BY <2>1, <3>1 DEF Transaction
  <2>3. CASE ~ throws
    <3>1. pc'[w] = "write" /\ data'[w] = Result(w, FromTables(tables))
      BY <1>0, <1>1, <1>2, <1>3, <2>3 DEF CallData
    <3>2. CallbackIsDone(w)'
      BY <1>1, <1>2, <2>3, <3>1 DEF CallbackIsDone, ThrowsOn
    <3>3. done'[w] = 0 /\ pending'[client'[w]] = NothingWritten
      BY <1>0, <1>1 DEF Transaction
    <3>4. HasWritten(w, {WriteOrder[i] : i \in 1 .. done[w]})'
      BY <3>3 DEF HasWritten, NothingWritten
    <3> QED
      BY <2>1, <3>1, <3>2, <3>3, <3>4, WriteOrderCovers DEF Transaction
  <2> QED
    BY <2>2, <2>3
<1>7. CallData'
  BY <1>0, <1>1 DEF CallData
<1> QED
  BY <1>5, <1>6, <1>7 DEF TransactionsInv

\* One more table joins those that are written.
LEMMA MergeWrites ==
  ASSUME NEW old, NEW names, DOMAIN old = names, NEW table, NEW value,
         NEW all, \A t \in names : old[t] = all[t], value = all[table],
         NEW new, new = [t \in DOMAIN old \cup {table} |-> IF t = table THEN value ELSE old[t]]
  PROVE  DOMAIN new = names \cup {table} /\ \A t \in names \cup {table} : new[t] = all[t]
OBVIOUS

LEMMA WritingTransactions ==
  ASSUME PoolInv, TransactionsInv, NEW w \in Writers, Write(w)
  PROVE  TransactionsInv'
<1> DEFINE c == client[w]
           n == done[w]
           table == WriteOrder[n + 1]
           seen == [t \in Tables |-> Visible(c, t)]
           value == WrittenPostgres(seen, data[w])[table]
           last == n + 1 = 7
           names == {WriteOrder[i] : i \in 1 .. n}
<1>0. CallTypes /\ CallData /\ w \in Calls /\ Transaction(w)
  BY DEF PoolInv, TransactionsInv, Calls
<1>1. /\ pc[w] = "write" /\ pc' = [pc EXCEPT ![w] = IF last THEN "commit" ELSE "write"]
      /\ pending' = [pending EXCEPT ![c] =
           [t \in DOMAIN @ \cup {table} |-> IF t = table THEN value ELSE @[t]]]
      /\ done' = [done EXCEPT ![w] = IF last THEN 0 ELSE @ + 1]
      /\ UNCHANGED <<tables, aborted, holder, client, got, data, applied>>
  BY WriteOrderCovers DEF Write, GoTo
<1>2. Busy(w) /\ Underway(w)
  BY <1>1 DEF Busy, Underway
<1>3. c \in Clients /\ n \in 0 .. 6 /\ HasWritten(w, names) /\ CallbackIsDone(w)
  BY <1>0, <1>1, <1>2, WriterHoldsConnection, WriteOrderCovers DEF Transaction
<1>4. table \in Tables /\ value = ToTables(data[w])[table]
  BY <1>3, WriteOrderCovers, UpsertingReplaces
<1> HIDE DEF value
<1>5. pending'[c] = [t \in DOMAIN pending[c] \cup {table} |->
                       IF t = table THEN value ELSE pending[c][t]]
  BY <1>0, <1>1, <1>3 DEF CallTypes
<1>6. \A d \in Clients \ {c} : pending'[d] = pending[d]
  BY <1>0, <1>1 DEF CallTypes
<1>7. /\ pc'[w] = (IF last THEN "commit" ELSE "write")
      /\ done'[w] = (IF last THEN 0 ELSE n + 1)
  BY <1>0, <1>1 DEF CallTypes, CallData
<1>8. \A v \in Writers \ {w} : SameCall(v)
  BY <1>0, <1>1 DEF CallTypes, CallData, SameCall, Calls
<1>9. \A v \in Writers \ {w} : Transaction(v)'
  BY <1>1, <1>2, <1>6, <1>8, OthersStay
<1>10. /\ DOMAIN pending'[c] = names \cup {table}
       /\ \A t \in names \cup {table} : pending'[c][t] = ToTables(data[w])[t]
  <2>1. /\ DOMAIN pending[c] = names
        /\ \A t \in names : pending[c][t] = ToTables(data[w])[t]
    BY <1>3 DEF HasWritten
  <2> HIDE DEF names, table, c
  <2> QED
    BY <1>4, <1>5, <2>1, MergeWrites
<1>11. names \cup {table} = {WriteOrder[i] : i \in 1 .. n + 1}
  <2>1. 1 .. n + 1 = (1 .. n) \cup {n + 1}
    BY <1>3
  <2> QED
    BY <2>1
<1>12. Transaction(w)'
  <2>1. client'[w] = holder' /\ client'[w] \notin aborted' /\ w \notin applied'
    BY <1>0, <1>1, <1>2 DEF Transaction
  <2>2. CallbackIsDone(w)'
    BY <1>1, <1>3 DEF CallbackIsDone, ThrowsOn
  <2>3. CASE last
    <3>1. pc'[w] = "commit"
      BY <1>7, <2>3
    <3>2. {WriteOrder[i] : i \in 1 .. n + 1} = Tables
      BY <2>3, WriteOrderCovers
    <3>3. HasWritten(w, Tables)'
      BY <1>1, <1>10, <1>11, <3>2 DEF HasWritten
    <3> QED
      BY <2>1, <2>2, <3>1, <3>3 DEF Transaction
  <2>4. CASE ~ last
    <3>1. pc'[w] = "write" /\ done'[w] = n + 1 /\ n + 1 \in 0 .. 6
      BY <1>3, <1>7, <2>4
    <3>2. HasWritten(w, {WriteOrder[i] : i \in 1 .. done[w]})'
      BY <1>1, <1>10, <1>11, <3>1 DEF HasWritten
    <3> QED
      BY <2>1, <2>2, <3>1, <3>2, WriteOrderCovers DEF Transaction
  <2> QED
    BY <2>3, <2>4
<1>13. CallData'
  BY <1>0, <1>1 DEF CallData
<1> QED
  BY <1>9, <1>12, <1>13 DEF TransactionsInv

LEMMA FailingTransactions ==
  ASSUME PoolInv, TransactionsInv, NEW w \in Writers, StatementFails(w)
  PROVE  TransactionsInv'
<1>0. CallTypes /\ CallData /\ w \in Calls /\ Transaction(w)
  BY DEF PoolInv, TransactionsInv, Calls
<1>1. /\ pc[w] \in {"read", "write"} /\ pc' = [pc EXCEPT ![w] = "rollback"]
      /\ aborted' = aborted \cup {client[w]}
      /\ UNCHANGED <<tables, pending, holder, client, done, got, data, applied>>
  BY DEF StatementFails, GoTo
<1>2. pc'[w] = "rollback" /\ \A v \in Writers \ {w} : SameCall(v)
  BY <1>0, <1>1 DEF CallTypes, SameCall, Calls
<1>3. \A v \in Writers \ {w} : Transaction(v)'
  BY <1>1, <1>2, OthersStay DEF Underway
<1>4. Transaction(w)'
  BY <1>2 DEF Transaction, Busy
<1>5. CallData'
  BY <1>0, <1>1 DEF CallData
<1> QED
  BY <1>3, <1>4, <1>5 DEF TransactionsInv

\* COMMIT and ROLLBACK.
LEMMA EndingTransactions ==
  ASSUME PoolInv, TransactionsInv, NEW w \in Writers, Commit(w) \/ Rollback(w)
  PROVE  TransactionsInv'
<1>0. CallTypes /\ CallData /\ w \in Calls /\ Transaction(w)
  BY DEF PoolInv, TransactionsInv, Calls
<1>1. PICK how \in {"returned", "failed"} : End(w, how)
  BY DEF Commit, Rollback
<1>2. /\ pc' = [pc EXCEPT ![w] = how] /\ client' = [client EXCEPT ![w] = NoClient]
      /\ done' = [done EXCEPT ![w] = 0] /\ got' = [got EXCEPT ![w] = NothingRead]
      /\ data' = [data EXCEPT ![w] = EmptyStore]
  BY <1>1 DEF End, GoTo
<1>3. /\ Underway(w) /\ EndTransaction(client[w])
      /\ tables' = tables \/ (Busy(w) /\ tables' = Committed(client[w]))
      /\ applied' \subseteq applied \cup {w}
  BY DEF Commit, Rollback, Underway, Busy
<1>4. client[w] \in Clients
  BY <1>3, WriterHoldsConnection
<1>5. /\ \A c \in Clients \ {client[w]} : pending'[c] = pending[c]
      /\ aborted' \subseteq aborted
  BY <1>0, <1>3, <1>4, EndTransactionCleans
<1>6. pc'[w] = how /\ \A v \in Writers \ {w} : SameCall(v)
  BY <1>0, <1>2 DEF CallTypes, CallData, SameCall, Calls
<1>7. holder' = holder \/ ~ \E v \in Writers \ {w} : Busy(v)
  <2> SUFFICES ASSUME NEW v \in Writers, v # w, Busy(v) PROVE holder' = holder
    OBVIOUS
  <2>1. client[v] # client[w] /\ client[v] = holder
    BY <1>3, WritersAreApart, BusyIsUnderway DEF TransactionsInv, Transaction
  <2> QED
    BY <1>3, <2>1 DEF EndTransaction
<1>8. \A v \in Writers \ {w} : Transaction(v)'
  BY <1>3, <1>5, <1>6, <1>7, OthersStay
<1>9. Transaction(w)'
  BY <1>6 DEF Transaction, Busy
<1>10. CallData'
  <2>1. tables' = [table \in Tables |-> tables'[table]]
    BY <1>0, <1>3 DEF CallData, Committed
  <2>2. got' = [call \in Calls |-> got'[call]]
    BY <1>0, <1>2 DEF CallData
  <2>3. \A call \in Calls : got'[call] = [table \in Tables |-> got'[call][table]]
    BY <1>0, <1>2 DEF CallData, NothingRead, ToTables
  <2> QED
    BY <1>0, <1>2, <2>1, <2>2, <2>3 DEF CallData
<1> QED
  BY <1>8, <1>9, <1>10 DEF TransactionsInv

\* A reader that ends, or goes on, touches what is its own.
LEMMA ReadersKeepToThemselves ==
  ASSUME PoolInv, TransactionsInv, NEW r \in Readers, "read_error" \notin Faults,
         ReaderStep(r) \/ ReadFails(r)
  PROVE  /\ \A w \in Writers : SameCall(w)
         /\ CallData'
         /\ UNCHANGED <<tables, pending, aborted, holder, applied>>
<1>0. CallTypes /\ CallData /\ r \in Calls /\ r \notin Writers
  BY CallAssumption DEF PoolInv, TransactionsInv, Calls
<1>1. ASSUME NEW how, End(r, how), UNCHANGED tables
      PROVE  (\A w \in Writers : SameCall(w)) /\ CallData'
  <2>1. /\ pc' = [pc EXCEPT ![r] = how] /\ client' = [client EXCEPT ![r] = NoClient]
        /\ done' = [done EXCEPT ![r] = 0] /\ got' = [got EXCEPT ![r] = NothingRead]
        /\ data' = [data EXCEPT ![r] = EmptyStore]
    BY <1>1 DEF End, GoTo
  <2>2. \A w \in Writers : SameCall(w)
    BY <1>0, <2>1 DEF SameCall, CallTypes, CallData, Calls
  <2>3. \A call \in Calls : got'[call] = [table \in Tables |-> got'[call][table]]
    BY <1>0, <2>1 DEF CallData, NothingRead, ToTables
  <2>4. CallData'
    BY <1>0, <1>1, <2>1, <2>3 DEF CallData
  <2> QED
    BY <2>2, <2>4
<1>2. CASE \E c \in Clients : ConnectReader(r, c)
  <2>1. PICK c \in Clients : ConnectReader(r, c)
    BY <1>2
  <2>2. /\ pc' = [pc EXCEPT ![r] = "read"] /\ client' = [client EXCEPT ![r] = c]
        /\ UNCHANGED <<tables, pending, aborted, holder, done, got, data, applied>>
    BY <2>1 DEF ConnectReader, GoTo, sessionVars
  <2> QED
    BY <1>0, <2>2 DEF SameCall, CallTypes, CallData, Calls
<1>3. CASE Read(r)
  <2>1. UNCHANGED <<tables, pending, aborted, holder, applied>>
    BY <1>3 DEF Read, Select, sessionVars
  <2>2. CASE \E how : End(r, how)
    BY <1>1, <2>1, <2>2
  <2>3. CASE ~ \E how : End(r, how)
    <3>1. /\ \E where : pc' = [pc EXCEPT ![r] = where]
          /\ \E table, content : got' = [got EXCEPT ![r][table] = content]
          /\ \E n : done' = [done EXCEPT ![r] = n]
          /\ UNCHANGED <<client, data>>
      BY <1>0, <1>3, <2>3 DEF Read, Select, GoTo
    <3>2. PICK table, content : got' = [got EXCEPT ![r][table] = content]
      BY <3>1
    <3>3. /\ got' = [call \in Calls |-> got'[call]]
          /\ got'[r] = [got[r] EXCEPT ![table] = content]
          /\ \A call \in Calls : call # r => got'[call] = got[call]
      BY <1>0, <3>2 DEF CallData
    <3>4. \A call \in Calls : got'[call] = [t \in Tables |-> got'[call][t]]
      BY <1>0, <3>3 DEF CallData
    <3>5. CallData'
      BY <1>0, <2>1, <3>1, <3>3, <3>4 DEF CallData
    <3>6. \A w \in Writers : SameCall(w)
      BY <1>0, <3>1, <3>3 DEF SameCall, CallTypes, CallData, Calls
    <3> QED
      BY <2>1, <3>5, <3>6
  <2> QED
    BY <2>2, <2>3
<1>4. CASE ReadFails(r)
  <2>1. UNCHANGED <<tables, pending, holder, applied>> /\ End(r, "failed")
    BY <1>4 DEF ReadFails
  <2>2. aborted' = aborted
    BY <1>4 DEF ReadFails
  <2> QED
    BY <1>1, <2>1, <2>2
<1> QED
  BY <1>2, <1>3, <1>4 DEF ReaderStep

LEMMA ReadersLeaveTransactions ==
  ASSUME PoolInv, TransactionsInv, NEW r \in Readers, "read_error" \notin Faults,
         ReaderStep(r) \/ ReadFails(r)
  PROVE  TransactionsInv'
<1>1. /\ \A w \in Writers : SameCall(w)
      /\ CallData'
      /\ UNCHANGED <<tables, pending, aborted, holder, applied>>
  BY ReadersKeepToThemselves
<1>2. ASSUME NEW w \in Writers PROVE Transaction(w)'
  <2>1. Transaction(w) /\ SameCall(w)
    BY <1>1 DEF TransactionsInv
  <2>2. Busy(w) \/ pc[w] = "lock" => client[w] \notin aborted'
    BY <1>1, <2>1 DEF Transaction
  <2> QED
    BY <1>1, <2>1, <2>2, TransactionStays DEF SameCall
<1> QED
  BY <1>1, <1>2 DEF TransactionsInv

\* The calls of a connection that breaks, and those whose COMMIT was under way.
UsersOf(c) ==
    {call \in Calls : client[call] = c /\ pc[call] \in
       {"lock", "read", "work", "write", "commit"}}
CommittingOn(c) == {w \in UsersOf(c) : pc[w] = "commit"}

NoReaderCommits == \A r \in Readers : pc[r] # "commit"

LEMMA ReadersNeverCommit ==
  ASSUME PoolInv, NoReaderCommits, [Next]_pgVars
  PROVE  NoReaderCommits'
<1>0. pc = [call \in Calls |-> pc[call]] /\ Writers \cap Readers = {}
  BY CallAssumption DEF PoolInv, CallTypes
<1>1. ASSUME NEW w \in Writers, WriterStep(w) \/ StatementFails(w) PROVE NoReaderCommits'
  <2>1. \E where : pc' = [pc EXCEPT ![w] = where]
    <3>1. ReadLocked(w) => \E where : pc' = [pc EXCEPT ![w] = where]
      BY <1>0 DEF ReadLocked, Select, GoTo, End
    <3>2. RunCallback(w) => \E where : pc' = [pc EXCEPT ![w] = where]
      BY DEF RunCallback, GoTo
    <3> QED
      BY <1>1, <3>1, <3>2 DEF WriterStep, ConnectWriter, AcquireLock, Write, Commit, Rollback,
                              StatementFails, End, GoTo
  <2> QED
    BY <1>0, <2>1 DEF NoReaderCommits
<1>2. ASSUME NEW r \in Readers, ReaderStep(r) \/ ReadFails(r) PROVE NoReaderCommits'
  <2>1. PICK where : pc' = [pc EXCEPT ![r] = where] /\ where # "commit"
    <3>1. CASE Read(r)
      BY <3>1 DEF Read, Select, GoTo, End
    <3> QED
      BY <1>2, <3>1 DEF ReaderStep, ConnectReader, ReadFails, End, GoTo
  <2> QED
    BY <1>0, <2>1 DEF NoReaderCommits
<1>3. ASSUME NEW c \in Clients, ConnectionLost(c) PROVE NoReaderCommits'
  BY <1>3 DEF ConnectionLost, NoReaderCommits, Calls
<1> QED
  BY <1>1, <1>2, <1>3 DEF Next, Fault, pgVars, callVars, NoReaderCommits

\* A COMMIT that may be under way on a connection is that of its writer, which
\* holds the lock.
LEMMA OneCommits ==
  ASSUME PoolInv, TransactionsInv, NoReaderCommits, NEW c \in Clients,
         NEW w \in CommittingOn(c)
  PROVE  /\ w \in Writers /\ pc[w] = "commit" /\ client[w] = c /\ Busy(w)
         /\ CommittingOn(c) = {w}
<1>1. \A v \in CommittingOn(c) :
        v \in Writers /\ pc[v] = "commit" /\ client[v] = c /\ Busy(v)
  BY DEF CommittingOn, UsersOf, Calls, NoReaderCommits, Busy
<1>2. \A v \in CommittingOn(c) : v = w
  BY <1>1, OneIsBusy
<1> QED
  BY <1>1, <1>2

LEMMA BreakingTransactions ==
  ASSUME PoolInv, TransactionsInv, NoReaderCommits, NEW c \in Clients, ConnectionLost(c)
  PROVE  TransactionsInv'
<1>0. CallTypes /\ CallData
  BY DEF PoolInv, TransactionsInv
<1>1. /\ pc' = [call \in Calls |->
                  IF call \notin UsersOf(c) THEN pc[call]
                  ELSE IF call \in Readers THEN "failed" ELSE "rollback"]
      /\ EndTransaction(c) /\ UNCHANGED <<client, done, got, data>>
  BY DEF ConnectionLost, UsersOf
<1>2. \/ UNCHANGED <<tables, applied>>
      \/ /\ CommittingOn(c) # {} /\ tables' = Committed(c)
         /\ applied' = applied \cup CommittingOn(c)
  BY DEF ConnectionLost, UsersOf, CommittingOn
<1>3. /\ \A d \in Clients \ {c} : pending'[d] = pending[d]
      /\ aborted' \subseteq aborted
  BY <1>0, <1>1, EndTransactionCleans
<1>4. \A w \in Writers : pc'[w] = IF w \in UsersOf(c) THEN "rollback" ELSE pc[w]
  BY <1>1, CallAssumption DEF Calls
<1>5. ASSUME NEW w \in Writers, w \in UsersOf(c) PROVE Transaction(w)'
  <2>1. pc'[w] = "rollback" /\ ~ Busy(w)'
    BY <1>4, <1>5 DEF Busy
  <2> QED
    BY <2>1 DEF Transaction
<1>6. ASSUME NEW w \in Writers, w \notin UsersOf(c) PROVE Transaction(w)'
  <2>0. Transaction(w) /\ pc'[w] = pc[w] /\ w \in Calls
    BY <1>4, <1>6 DEF TransactionsInv, Calls
  <2>1. Busy(w) \/ pc[w] = "lock" => client[w] # c /\ client[w] \in Clients
    BY <1>6, <2>0, BusyIsUnderway, WriterHoldsConnection DEF UsersOf, Busy
  <2>2. Busy(w) => holder' = holder
    BY <1>1, <2>0, <2>1 DEF EndTransaction, Transaction
  <2>3. Busy(w) => tables' = tables
    <3> SUFFICES ASSUME Busy(w), CommittingOn(c) # {} PROVE FALSE
      BY <1>2
    <3>1. PICK v \in CommittingOn(c) : v \in Writers /\ Busy(v) /\ client[v] = c
      BY OneCommits
    <3> QED
      BY <2>1, <3>1, OneIsBusy
  <2>4. w \in applied' => w \in applied
    BY <1>2, <1>6 DEF CommittingOn
  <2>5. Busy(w) \/ pc[w] = "lock" => client[w] \notin aborted'
    BY <1>3, <2>0 DEF Transaction
  <2> QED
    BY <1>1, <1>3, <2>0, <2>1, <2>2, <2>3, <2>4, <2>5, TransactionStays
<1>7. CallData'
  <2>1. tables' = [table \in Tables |-> tables'[table]]
    BY <1>0, <1>2 DEF CallData, Committed
  <2> QED
    BY <1>0, <1>1, <2>1 DEF CallData
<1> QED
  BY <1>5, <1>6, <1>7 DEF TransactionsInv

\* The invariant of the refinement, without read errors.
PgInv == PoolInv /\ TransactionsInv /\ NoReaderCommits

LEMMA TransactionsStart == Init => PgInv
<1> SUFFICES ASSUME Init PROVE PgInv
  OBVIOUS
<1>1. \A call \in Calls : pc[call] = "start" /\ done[call] = 0 /\ got[call] = NothingRead
  BY DEF Init
<1>2. \A w \in Writers : Transaction(w)
  BY <1>1 DEF Transaction, Busy, Calls, Init
<1>3. CallData
  BY DEF Init, CallData, ToTables, NothingRead
<1>4. NoReaderCommits
  BY <1>1 DEF NoReaderCommits, Calls
<1> QED
  BY <1>2, <1>3, <1>4, PoolStarts DEF PgInv, TransactionsInv

LEMMA TransactionsStep ==
  ASSUME PgInv, "read_error" \notin Faults, [Next]_pgVars
  PROVE  PgInv'
<1>0. PoolInv /\ TransactionsInv /\ NoReaderCommits
  BY DEF PgInv
<1>1. PoolInv' /\ NoReaderCommits'
  BY <1>0, PoolStep, ReadersNeverCommit
<1>2. TransactionsInv'
  <2>1. ASSUME NEW w \in Writers, WriterStep(w) PROVE TransactionsInv'
    BY <1>0, <2>1, ConnectingTransactions, LockingTransactions, ReadingTransactions,
       CallingBackTransactions, WritingTransactions, EndingTransactions DEF WriterStep
  <2>2. CASE Fault
    BY <1>0, <2>2, FailingTransactions, ReadersLeaveTransactions, BreakingTransactions DEF Fault
  <2>3. CASE UNCHANGED pgVars
    <3>1. /\ UNCHANGED <<tables, pending, aborted, holder>>
          /\ UNCHANGED <<pc, client, done, got, data, applied>>
      BY <2>3 DEF pgVars, sessionVars, callVars
    <3>2. CallData'
      BY <1>0, <3>1 DEF TransactionsInv, CallData
    <3>3. ASSUME NEW v \in Writers PROVE Transaction(v)'
      <4>1. Transaction(v)
        BY <1>0 DEF TransactionsInv
      <4>2. pc[v] = "lock" \/ Busy(v) => client[v] \notin aborted
        BY <4>1 DEF Transaction
      <4> QED
        BY <3>1, <4>1, <4>2, TransactionStays
    <3> QED
      BY <3>2, <3>3 DEF TransactionsInv
  <2> QED
    BY <1>0, <2>1, <2>2, <2>3, ReadersLeaveTransactions DEF Next
<1> QED
  BY <1>1, <1>2 DEF PgInv

\* COMMIT leaves what the callback makes of what was committed before.
LEMMA CommitsTheResult ==
  ASSUME PgInv, NEW w \in Writers, pc[w] = "commit"
  PROVE  /\ Committed(client[w]) = ResultOn(w, tables) /\ ~ ThrowsOn(w, tables)
         /\ client[w] \notin aborted /\ w \notin applied
<1>1. /\ CallbackIsDone(w) /\ HasWritten(w, Tables)
      /\ client[w] \notin aborted /\ w \notin applied
  BY DEF PgInv, TransactionsInv, Transaction, Busy
<1>2. \A table \in Tables : Visible(client[w], table) = ToTables(data[w])[table]
  BY <1>1 DEF HasWritten, Visible
<1>3. Committed(client[w]) = [table \in Tables |-> ToTables(data[w])[table]]
  BY <1>2 DEF Committed
<1>4. ToTables(data[w]) = [table \in Tables |-> ToTables(data[w])[table]]
  BY DEF ToTables
<1> QED
  BY <1>1, <1>3, <1>4 DEF CallbackIsDone, ResultOn

TellsOf == [w \in Writers |-> AnswerOf(pc[w])]

\* Steps that tell nobody anything.
LEMMA NobodyIsTold ==
  ASSUME \A w \in Writers : \/ pc'[w] = pc[w]
                            \/ ~ (pc[w] \in {"returned", "failed"})
                               /\ ~ (pc'[w] \in {"returned", "failed"})
  PROVE  TellsOf' = TellsOf
<1>1. \A w \in Writers : AnswerOf(pc'[w]) = AnswerOf(pc[w])
  BY DEF AnswerOf
<1> QED
  BY <1>1 DEF TellsOf

LEMMA OneIsTold ==
  ASSUME PgInv, NEW w \in Writers, NEW how \in {"returned", "failed"}, Underway(w),
         pc' = [pc EXCEPT ![w] = how]
  PROVE  TellsOf[w] = "none" /\ TellsOf' = [TellsOf EXCEPT ![w] = how]
<1>1. pc = [call \in Calls |-> pc[call]] /\ w \in Calls
  BY DEF PgInv, PoolInv, CallTypes, Calls
<1>2. TellsOf[w] = "none"
  BY DEF TellsOf, AnswerOf, Underway
<1>3. AnswerOf(pc'[w]) = how /\ \A v \in Writers : v # w => pc'[v] = pc[v]
  BY <1>1 DEF AnswerOf, Calls
<1>4. \A v \in Writers : AnswerOf(pc'[v]) = IF v = w THEN how ELSE AnswerOf(pc[v])
  BY <1>3
<1>5. TellsOf' = [v \in Writers |-> IF v = w THEN how ELSE AnswerOf(pc[v])]
  BY <1>4 DEF TellsOf
<1>6. [TellsOf EXCEPT ![w] = how] = [v \in Writers |-> IF v = w THEN how ELSE AnswerOf(pc[v])]
  BY DEF TellsOf
<1> QED
  BY <1>2, <1>5, <1>6

LEMMA PostgresStepIsContractual ==
  ASSUME PgInv, "read_error" \notin Faults, [Next]_pgVars
  PROVE  [Atomic!Next]_(Atomic!vars)
<1>0. PoolInv /\ TransactionsInv /\ NoReaderCommits /\ CallTypes
  BY DEF PgInv, PoolInv
<1>1. ASSUME NEW w \in Writers, Commit(w) PROVE Atomic!Next
  <2>1. pc[w] = "commit" /\ pc' = [pc EXCEPT ![w] = "returned"] /\ Underway(w)
    BY <1>1 DEF Commit, End, GoTo, Underway
  <2>2. TellsOf[w] = "none" /\ TellsOf' = [TellsOf EXCEPT ![w] = "returned"]
    BY <2>1, OneIsTold
  <2>3. /\ tables' = ResultOn(w, tables) /\ ~ ThrowsOn(w, tables)
        /\ w \notin applied /\ applied' = applied \cup {w}
    BY <1>1, <2>1, CommitsTheResult DEF Commit
  <2> QED
    BY <2>2, <2>3 DEF Atomic!Next, Atomic!Succeed, Atomic!Apply, Atomic!Tell, TellsOf
<1>2. ASSUME NEW w \in Writers, Rollback(w) PROVE Atomic!Next
  <2>1. pc' = [pc EXCEPT ![w] = "failed"] /\ Underway(w) /\ UNCHANGED <<tables, applied>>
    BY <1>2 DEF Rollback, End, GoTo, Underway
  <2>2. TellsOf[w] = "none" /\ TellsOf' = [TellsOf EXCEPT ![w] = "failed"]
    BY <2>1, OneIsTold
  <2> QED
    BY <2>1, <2>2 DEF Atomic!Next, Atomic!Fail, Atomic!Tell, TellsOf
<1>3. ASSUME NEW w \in Writers,
             \/ \E c \in Clients : ConnectWriter(w, c)
             \/ AcquireLock(w) \/ ReadLocked(w) \/ RunCallback(w) \/ Write(w)
             \/ StatementFails(w)
      PROVE  UNCHANGED <<tables, applied, TellsOf>>
  <2>0. w \in Calls /\ w \notin Readers /\ pc = [call \in Calls |-> pc[call]]
    BY <1>0, CallAssumption DEF Calls, CallTypes
  <2>1. /\ pc[w] \in {"start", "lock", "read", "work", "write"}
        /\ \E where \in {"lock", "read", "work", "write", "commit", "rollback"} :
             pc' = [pc EXCEPT ![w] = where]
        /\ UNCHANGED <<tables, applied>>
    <3>1. CASE \E c \in Clients : ConnectWriter(w, c)
      BY <3>1 DEF ConnectWriter, GoTo
    <3>2. CASE AcquireLock(w)
      BY <3>2 DEF AcquireLock, GoTo
    <3>3. CASE ReadLocked(w)
      BY <2>0, <3>3 DEF ReadLocked, Select, GoTo
    <3>4. CASE RunCallback(w)
      BY <3>4 DEF RunCallback, GoTo
    <3>5. CASE Write(w)
      BY <3>5 DEF Write, GoTo
    <3>6. CASE StatementFails(w)
      BY <3>6 DEF StatementFails, GoTo
    <3> QED
      BY <1>3, <3>1, <3>2, <3>3, <3>4, <3>5, <3>6
  <2>2. TellsOf' = TellsOf
    <3>1. /\ ~ (pc[w] \in {"returned", "failed"}) /\ ~ (pc'[w] \in {"returned", "failed"})
          /\ \A v \in Writers : v # w => pc'[v] = pc[v]
      BY <2>0, <2>1 DEF Calls
    <3> QED
      BY <3>1, NobodyIsTold
  <2> QED
    BY <2>1, <2>2
<1>4. ASSUME NEW r \in Readers, ReaderStep(r) \/ ReadFails(r)
      PROVE  UNCHANGED <<tables, applied, TellsOf>>
  <2>1. UNCHANGED <<tables, applied>> /\ \A w \in Writers : pc'[w] = pc[w]
    BY <1>0, <1>4, ReadersKeepToThemselves DEF SameCall
  <2> QED
    BY <2>1, NobodyIsTold
<1>5. ASSUME NEW c \in Clients, ConnectionLost(c)
      PROVE  Atomic!Next \/ UNCHANGED <<tables, applied, TellsOf>>
  <2>1. /\ pc' = [call \in Calls |->
                    IF call \notin UsersOf(c) THEN pc[call]
                    ELSE IF call \in Readers THEN "failed" ELSE "rollback"]
        /\ \/ UNCHANGED <<tables, applied>>
           \/ /\ CommittingOn(c) # {} /\ tables' = Committed(c)
              /\ applied' = applied \cup CommittingOn(c)
    BY <1>5 DEF ConnectionLost, UsersOf, CommittingOn
  <2>2. TellsOf' = TellsOf
    <3>1. \A w \in Writers : pc'[w] = IF w \in UsersOf(c) THEN "rollback" ELSE pc[w]
      BY <2>1, CallAssumption DEF Calls
    <3>2. \A w \in UsersOf(c) : ~ (pc[w] \in {"returned", "failed"})
      BY DEF UsersOf
    <3> QED
      BY <3>1, <3>2, NobodyIsTold
  <2>3. CASE ~ UNCHANGED <<tables, applied>>
    <3>1. PICK w \in CommittingOn(c) : TRUE
      BY <2>1, <2>3
    <3>2. w \in Writers /\ pc[w] = "commit" /\ client[w] = c /\ CommittingOn(c) = {w}
      BY <1>0, <3>1, OneCommits
    <3>3. /\ tables' = ResultOn(w, tables) /\ ~ ThrowsOn(w, tables)
          /\ w \notin applied /\ applied' = applied \cup {w}
      BY <2>1, <2>3, <3>2, CommitsTheResult
    <3>4. TellsOf[w] = "none"
      BY <3>2 DEF TellsOf, AnswerOf
    <3> QED
      BY <2>2, <3>2, <3>3, <3>4 DEF Atomic!Next, Atomic!ApplyUntold, Atomic!Apply, TellsOf
  <2> QED
    BY <2>2, <2>3
<1>6. UNCHANGED pgVars => UNCHANGED <<tables, applied, TellsOf>>
  BY DEF pgVars, callVars, TellsOf
<1> QED
  BY <1>1, <1>2, <1>3, <1>4, <1>5, <1>6
     DEF Next, Fault, WriterStep, Atomic!vars, TellsOf

LEMMA PostgresKeepsContract ==
  ASSUME "read_error" \notin Faults
  PROVE  Init /\ [][Next]_pgVars => ImplementsAtomicStore
<1>1. Init => PgInv /\ Atomic!Init
  <2>1. Init => Atomic!Init
    BY DEF Init, Atomic!Init, AnswerOf, Calls
  <2> QED
    BY <2>1, TransactionsStart
<1>2. PgInv /\ [Next]_pgVars => PgInv'
  BY TransactionsStep
<1>3. PgInv /\ [Next]_pgVars => [Atomic!Next]_(Atomic!vars)
  BY PostgresStepIsContractual
<1> QED
  BY <1>1, <1>2, <1>3, PTL DEF ImplementsAtomicStore, Atomic!Spec

\* Whoever calls withStoreLock, over Postgres or SQLite, gets what AtomicStore
\* promises: callbacks take effect one after another, and success means that
\* the result is stored; a break of the connection during COMMIT included.
\* Statements of a reader that fail are left out: they may fail the transaction
\* of a writer that is then told of success.
THEOREM StoresKeepContract ==
  ASSUME "read_error" \notin Faults
  PROVE  StoresSpec => StoresAreAtomic
<1>1. StoresInit => Init /\ Sqlite!Init
  BY DEF StoresInit
<1>2. [StoresNext]_storesVars => [Next]_pgVars /\ [Sqlite!Next]_sqliteVars
  BY DEF StoresNext, storesVars, OnPostgres, OnSqlite, AtBootstrap
<1> QED
  BY <1>1, <1>2, PostgresKeepsContract, ChainKeepsContract, PTL DEF StoresSpec, StoresAreAtomic
=============================================================================
