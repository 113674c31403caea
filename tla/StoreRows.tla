------------------------------ MODULE StoreRows ------------------------------
(***************************************************************************)
(* The rows of the store: what an in-memory StoreData must satisfy before  *)
(* it is written (store-integrity.ts), what the tables of the database     *)
(* accept (db/migrations/0001_store.sql), and how the two are mapped to    *)
(* each other by the Postgres and the SQLite store.                        *)
(*                                                                         *)
(* An array of the program is a set of records here, a table a set of      *)
(* rows.  Columns that no rule reads are left out.                         *)
(***************************************************************************)
EXTENDS Integers, Sequences, SequencesExt, FiniteSets

CONSTANTS
    VendorIds,     \* vendorRegistry
    MaxInteger,    \* the largest value of a column of type INTEGER
    NoId           \* the null of an optional reference

Kinds == {"agents", "mandates", "attempts", "workerTasks", "auditEntries", "domainEvents"}

EmptyStore == [kind \in Kinds |-> {}]

Ids(rows) == {row.id : row \in rows}
Named(rows, id) == CHOOSE row \in rows : row.id = id

-----------------------------------------------------------------------------
(***************************************************************************)
(* buildStoreIntegrityReport, one operator per loop.  assertStoreIntegrity *)
(* throws unless Intact.                                                   *)
(***************************************************************************)
IdsAreUnique(rows) == \A row1, row2 \in rows : row1.id = row2.id => row1 = row2

MandateIsSound(store, mandate) ==
    /\ mandate.agentId \in Ids(store.agents)
    /\ mandate.agentName = Named(store.agents, mandate.agentId).name
    /\ mandate.budgetCapCents > 0
    /\ mandate.reservedCents >= 0 /\ mandate.consumedCents >= 0
    /\ mandate.reservedCents + mandate.consumedCents <= mandate.budgetCapCents
    /\ IsInjective(mandate.approvedVendorIds)
    /\ ToSet(mandate.approvedVendorIds) \subseteq VendorIds

AttemptIsSound(store, attempt) ==
    /\ attempt.mandateId \in Ids(store.mandates)
    /\ attempt.amountCents > 0
    /\ attempt.paymentIdentifier # NoId
    /\ \A other \in store.attempts :
         other.paymentIdentifier = attempt.paymentIdentifier => other = attempt

\* A reference to an attempt is sound if the attempt exists and belongs to
\* the mandate that the same row names.
AttemptOf(store, row) ==
    /\ row.attemptId \in Ids(store.attempts)
    /\ Named(store.attempts, row.attemptId).mandateId = row.mandateId

TaskIsSound(store, task) ==
    /\ task.mandateId \in Ids(store.mandates)
    /\ AttemptOf(store, task)
    /\ \/ task.operatorId = NoId
       \/ task.operatorId = Named(store.attempts, task.attemptId).operatorId

AuditIsSound(store, audit) ==
    /\ audit.mandateId \in Ids(store.mandates)
    /\ audit.attemptId = NoId \/ AttemptOf(store, audit)

EventIsSound(store, event) ==
    /\ event.entityType = "mandate" => event.entityId \in Ids(store.mandates)
    /\ event.entityType = "payment_attempt" => event.entityId \in Ids(store.attempts)
    /\ event.entityType = "worker_task" => event.entityId \in Ids(store.workerTasks)

Intact(store) ==
    /\ \A kind \in Kinds : IdsAreUnique(store[kind])
    /\ \A mandate \in store.mandates : MandateIsSound(store, mandate)
    /\ \A attempt \in store.attempts : AttemptIsSound(store, attempt)
    /\ \A task \in store.workerTasks : TaskIsSound(store, task)
    /\ \A audit \in store.auditEntries : AuditIsSound(store, audit)
    /\ \A event \in store.domainEvents : EventIsSound(store, event)

-----------------------------------------------------------------------------
(***************************************************************************)
(* Tables.  The approved vendors of a mandate are rows of a table of their *)
(* own, and come back in the order of their identifiers.                   *)
(***************************************************************************)
Tables == Kinds \cup {"approvedVendors"}

MandateRow(mandate) ==
    [field \in DOMAIN mandate \ {"approvedVendorIds"} |-> mandate[field]]

VendorRows(mandate) ==
    {[mandateId |-> mandate.id, vendorId |-> vendor] :
       vendor \in ToSet(mandate.approvedVendorIds)}

ToTables(store) ==
    [table \in Tables |->
       CASE table = "mandates" -> {MandateRow(mandate) : mandate \in store.mandates}
         [] table = "approvedVendors" -> UNION {VendorRows(mandate) : mandate \in store.mandates}
         [] OTHER -> store[table]]

ApprovedVendors(tables, id) ==
    {row.vendorId : row \in {row \in tables.approvedVendors : row.mandateId = id}}

\* ORDER BY vendor_id: any fixed order, here that of SetToSeq.
FromTables(tables) ==
    [kind \in Kinds |->
       IF kind = "mandates"
         THEN {[field \in DOMAIN row \cup {"approvedVendorIds"} |->
                  IF field = "approvedVendorIds"
                    THEN SetToSeq(ApprovedVendors(tables, row.id))
                    ELSE row[field]] : row \in tables.mandates}
         ELSE tables[kind]]

\* PRIMARY KEY, UNIQUE, FOREIGN KEY and INTEGER of 0001_store.sql.
SchemaHolds(tables) ==
    /\ \A table \in Kinds : IdsAreUnique(tables[table])
    /\ \A row1, row2 \in tables.attempts :
         row1.paymentIdentifier = row2.paymentIdentifier => row1 = row2
    /\ \A row \in tables.mandates :
         /\ row.agentId \in Ids(tables.agents)
         /\ row.budgetCapCents <= MaxInteger
    /\ \A row \in tables.approvedVendors \cup tables.attempts \cup tables.workerTasks
                    \cup tables.auditEntries :
         row.mandateId \in Ids(tables.mandates)
    /\ \A row \in tables.attempts : row.amountCents <= MaxInteger
    /\ \A row \in tables.workerTasks : row.attemptId \in Ids(tables.attempts)

-----------------------------------------------------------------------------
(***************************************************************************)
(* The two writes.  Postgres upserts every row of the store, table by      *)
(* table, and then deletes what the store does not have, in the reverse    *)
(* order; SQLite deletes everything and inserts the store.  A constraint   *)
(* is judged by every statement, on the rows as they are half way.         *)
(***************************************************************************)
Upserted(old, new) == {row \in old : row.id \notin Ids(new)} \cup new
Pruned(rows, new) == {row \in rows : row.id \in Ids(new)}

\* Mutant: vendors are only added.
UpsertKeepsVendors(tables, store) ==
    tables.approvedVendors \cup ToTables(store).approvedVendors

UpsertedVendors(tables, store) ==
    {row \in tables.approvedVendors : row.mandateId \notin Ids(store.mandates)}
      \cup ToTables(store).approvedVendors

\* Deleting a mandate deletes its vendors: ON DELETE CASCADE.
PrunedVendors(rows, store) == {row \in rows : row.mandateId \in Ids(store.mandates)}

\* Mutant: the tasks are written before the attempts they name.
TasksFirst ==
    [agents |-> 1, mandates |-> 2, approvedVendors |-> 2, workerTasks |-> 3,
     attempts |-> 4, auditEntries |-> 5, domainEvents |-> 6]

\* The order of the INSERTs; the vendors of a mandate go with it.
Turn ==
    [agents |-> 1, mandates |-> 2, approvedVendors |-> 2, attempts |-> 3,
     workerTasks |-> 4, auditEntries |-> 5, domainEvents |-> 6]

UpsertedTable(tables, store, table) ==
    IF table = "approvedVendors"
      THEN UpsertedVendors(tables, store)
      ELSE Upserted(tables[table], ToTables(store)[table])

PrunedTable(tables, store, table) ==
    IF table = "approvedVendors"
      THEN PrunedVendors(UpsertedVendors(tables, store), store)
      ELSE Pruned(Upserted(tables[table], ToTables(store)[table]), ToTables(store)[table])

\* What the transaction sees once the first n tables are upserted, and once
\* the last n are cleared of the rows the store does not have.
AfterUpserts(tables, store, n) ==
    [table \in Tables |-> IF Turn[table] <= n THEN UpsertedTable(tables, store, table)
                                              ELSE tables[table]]

AfterDeletes(tables, store, n) ==
    [table \in Tables |-> IF Turn[table] > 6 - n THEN PrunedTable(tables, store, table)
                                                 ELSE UpsertedTable(tables, store, table)]

\* Attempts are upserted one by one in the order of their array.  A row
\* fails if another one still holds its identifier for payments.
RowsPass(old, order) ==
    \A i \in DOMAIN order : \A row \in old :
       /\ row.id # order[i].id
       /\ row.paymentIdentifier = order[i].paymentIdentifier
       => \E j \in DOMAIN order : j < i /\ order[j].id = row.id

StatementsPass(tables, store, order) ==
    /\ RowsPass(tables.attempts, order)
    /\ \A n \in 0 .. 6 : /\ SchemaHolds(AfterUpserts(tables, store, n))
                        /\ SchemaHolds(AfterDeletes(tables, store, n))

WrittenPostgres(tables, store) == AfterDeletes(tables, store, 6)

WrittenSqlite(store) == ToTables(store)
=============================================================================
