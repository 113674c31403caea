----------------------------- MODULE StoreWrites -----------------------------
(***************************************************************************)
(* One writer after another on the tables of StoreRows.  The callback of a *)
(* transaction may do anything to the store it was given; the store checks *)
(* the result, writes it, or throws and leaves the tables as they were:    *)
(* each statement is judged on what the ones before it have left.          *)
(***************************************************************************)
EXTENDS StoreRows

CONSTANTS
    Candidates,    \* per kind, the records a callback may put in the store
    SeedStore      \* what the database holds at first

ASSUME SeedAssumption == Intact(SeedStore) /\ SchemaHolds(ToTables(SeedStore))

\* What StoreData declares a mandate to be, as far as it is read here.
IsMandate(record) ==
    /\ {"id", "agentId", "agentName", "budgetCapCents", "reservedCents",
        "consumedCents", "approvedVendorIds"} \subseteq DOMAIN record
    /\ record = [field \in DOMAIN record |-> record[field]]
    /\ record.approvedVendorIds \in Seq(ToSet(record.approvedVendorIds))

ASSUME MandateAssumption ==
    \A mandate \in SeedStore.mandates \cup Candidates.mandates : IsMandate(mandate)

VARIABLES
    tables,    \* the database
    data,      \* the StoreData of the running transaction
    saved      \* history: the StoreData of the last transaction that returned

writeVars == <<tables, data, saved>>

Init ==
    /\ tables = ToTables(SeedStore)
    /\ data = FromTables(ToTables(SeedStore))
    /\ saved = SeedStore

\* The callback adds or replaces a record, or removes one.
PutRecord(kind, record) ==
    /\ data' = [data EXCEPT ![kind] = @ \cup {record}]
    /\ UNCHANGED <<tables, saved>>

DropRecord(kind, record) ==
    /\ data' = [data EXCEPT ![kind] = @ \ {record}]
    /\ UNCHANGED <<tables, saved>>

\* Mutant: the store is written without the check.
SavesUnchecked ==
    /\ SchemaHolds(WrittenPostgres(tables, data))
    /\ tables' = WrittenPostgres(tables, data)
    /\ saved' = data
    /\ data' = FromTables(tables')

\* The order of data.attempts, which is a set here, may be any.
Orders(store) == SetToSeqs(store.attempts)

\* The callback has returned; the check passes, every statement succeeds.
Save ==
    /\ Intact(data)
    /\ \E order \in Orders(data) : StatementsPass(tables, data, order)
    /\ tables' = WrittenPostgres(tables, data)
    /\ saved' = data
    /\ data' = FromTables(tables')

\* The check or a statement throws; the next transaction reads again.
Abandon ==
    /\ Intact(data) => \E order \in Orders(data) : ~ StatementsPass(tables, data, order)
    /\ data' = FromTables(tables)
    /\ UNCHANGED <<tables, saved>>

Next ==
    \/ \E kind \in Kinds :
         \/ \E record \in Candidates[kind] : PutRecord(kind, record)
         \/ \E record \in data[kind] : DropRecord(kind, record)
    \/ Save
    \/ Abandon

Spec == Init /\ [][Next]_writeVars

-----------------------------------------------------------------------------
(***************************************************************************)
(* Properties.                                                             *)
(***************************************************************************)
\* Two mandates are the same to the program if they differ only in the order
\* of their approved vendors.
Same(store1, store2) ==
    /\ \A kind \in Kinds \ {"mandates"} : store1[kind] = store2[kind]
    /\ ToTables(store1) = ToTables(store2)

\* What the next transaction reads is what the last one wrote, whatever rows
\* the tables held before: upserting and then deleting the rest amounts to
\* replacing every table, as the SQLite store does.
ReadBackIsWritten ==
    /\ Same(FromTables(tables), saved)
    /\ tables = WrittenSqlite(saved)

\* A store that passes the check of store-integrity.ts breaks no rule of the
\* schema at any of the statements that write it, in whatever order its
\* attempts come, if it keeps the attempts of the tables: every callback of
\* src/lib/modules only adds attempts and changes them in place
\* (mandates.ts:408, 487, 549).  Two things the check does not look at are
\* left, and a statement can fail by them: a number too large for its column,
\* and the payment identifier of an attempt that is dropped or renamed, which
\* a new attempt takes before the old row is gone.  SQLite, which deletes
\* first, can store the latter.
Fits(store) ==
    /\ \A mandate \in store.mandates : mandate.budgetCapCents <= MaxInteger
    /\ \A attempt \in store.attempts : attempt.amountCents <= MaxInteger

KeepsAttempts(old, store) ==
    \A row \in old : \E attempt \in store.attempts :
       attempt.id = row.id /\ attempt.paymentIdentifier = row.paymentIdentifier

CheckedStoresAreStorable ==
    Intact(data) /\ Fits(data) =>
      /\ SchemaHolds(WrittenSqlite(data))
      /\ KeepsAttempts(tables.attempts, data) =>
           \A order \in Orders(data) : StatementsPass(tables, data, order)

\* The database never holds what the check would refuse, so that no reader of
\* a committed store is ever turned away by the same check.
StoredIsIntact == Intact(FromTables(tables)) /\ SchemaHolds(tables)
=============================================================================
