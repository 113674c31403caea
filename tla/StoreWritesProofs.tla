-------------------------- MODULE StoreWritesProofs --------------------------
(***************************************************************************)
(* Proofs about StoreWrites, for any records that a callback may put in a  *)
(* store and any column width.                                             *)
(*                                                                         *)
(* What is read from the tables is the store that was written, but for the *)
(* order of the approved vendors (ReadStore).  That needs the check of the *)
(* store: were two mandates to have one identifier, their vendors would    *)
(* come back mixed.  The invariant is that the tables hold a store that    *)
(* passed the check.                                                       *)
(***************************************************************************)
EXTENDS StoreWrites, CollectionFacts

-----------------------------------------------------------------------------
(***************************************************************************)
(* Writing.                                                                *)
(***************************************************************************)
\* Clearing an upserted table of the rows that the store does not have leaves
\* the rows of the store, whatever was there.
LEMMA PrunedIsWritten ==
  ASSUME NEW old, NEW store, NEW table \in Tables
  PROVE  PrunedTable(old, store, table) = ToTables(store)[table]
<1>1. CASE table = "approvedVendors"
  <2>1. ToTables(store).approvedVendors =
          UNION {VendorRows(mandate) : mandate \in store.mandates}
    BY DEF ToTables, Tables
  <2>2. \A row \in ToTables(store).approvedVendors : row.mandateId \in Ids(store.mandates)
    BY <2>1 DEF VendorRows, Ids
  <2>3. PrunedTable(old, store, table) = PrunedVendors(UpsertedVendors(old, store), store)
    BY <1>1 DEF PrunedTable
  <2> QED
    BY <1>1, <2>2, <2>3 DEF PrunedVendors, UpsertedVendors
<1>2. CASE table # "approvedVendors"
  <2> DEFINE rows == ToTables(store)[table]
  <2>1. PrunedTable(old, store, table) = Pruned(Upserted(old[table], rows), rows)
    BY <1>2 DEF PrunedTable
  <2> HIDE DEF rows
  <2>2. Pruned(Upserted(old[table], rows), rows) = rows
    BY DEF Pruned, Upserted, Ids
  <2> QED
    BY <2>1, <2>2 DEF rows
<1> QED
  BY <1>1, <1>2

\* The Postgres and the SQLite store write the same.
LEMMA BothWriteTheStore ==
  ASSUME NEW old, NEW store
  PROVE  WrittenPostgres(old, store) = ToTables(store)
<1>1. ASSUME NEW table \in Tables
      PROVE  WrittenPostgres(old, store)[table] = ToTables(store)[table]
  <2>1. Turn[table] > 6 - 6
    BY DEF Turn, Tables, Kinds
  <2> QED
    BY <2>1, PrunedIsWritten DEF WrittenPostgres, AfterDeletes
<1>2. WrittenPostgres(old, store) = [table \in Tables |-> WrittenPostgres(old, store)[table]]
  BY DEF WrittenPostgres, AfterDeletes
<1>3. ToTables(store) = [table \in Tables |-> ToTables(store)[table]]
  BY DEF ToTables
<1> QED
  BY <1>1, <1>2, <1>3

\* The tables of a store, one by one.
LEMMA TablesOf ==
  ASSUME NEW store
  PROVE  /\ ToTables(store).mandates = {MandateRow(mandate) : mandate \in store.mandates}
         /\ ToTables(store).approvedVendors =
              UNION {VendorRows(mandate) : mandate \in store.mandates}
         /\ \A kind \in Kinds \ {"mandates"} : ToTables(store)[kind] = store[kind]
BY DEF ToTables, Tables, Kinds

-----------------------------------------------------------------------------
(***************************************************************************)
(* Reading back.  One mandate first, then a store.                         *)
(***************************************************************************)
\* A mandate as it comes back from its rows.
ReadMandate(mandate) ==
    [field \in DOMAIN mandate |->
       IF field = "approvedVendorIds" THEN SetToSeq(ToSet(mandate.approvedVendorIds))
                                      ELSE mandate[field]]

LEMMA VendorsAreFinite ==
  ASSUME NEW mandate, IsMandate(mandate)
  PROVE  IsFiniteSet(ToSet(mandate.approvedVendorIds))
<1> DEFINE s == mandate.approvedVendorIds
           n == Len(s)
<1>1. n \in Nat /\ DOMAIN s = 1 .. n /\ s = [i \in 1 .. n |-> s[i]]
  BY DEF IsMandate
<1> HIDE DEF s, n
<1>2. s \in Surjection(1 .. n, ToSet(s))
  BY <1>1 DEF Surjection, ToSet
<1>3. IsFiniteSet(1 .. n)
  BY <1>1, FS_Interval
<1> QED
  BY <1>2, <1>3, FS_Surjection DEF s

\* Only the order of its vendors changes.
LEMMA MandateComesBack ==
  ASSUME NEW mandate, IsMandate(mandate)
  PROVE  /\ DOMAIN ReadMandate(mandate) = DOMAIN mandate
         /\ \A field \in DOMAIN mandate \ {"approvedVendorIds"} :
              ReadMandate(mandate)[field] = mandate[field]
         /\ ReadMandate(mandate).id = mandate.id
         /\ ToSet(ReadMandate(mandate).approvedVendorIds) = ToSet(mandate.approvedVendorIds)
         /\ IsInjective(ReadMandate(mandate).approvedVendorIds)
         /\ IsMandate(ReadMandate(mandate))
         /\ MandateRow(ReadMandate(mandate)) = MandateRow(mandate)
         /\ VendorRows(ReadMandate(mandate)) = VendorRows(mandate)
<1> DEFINE back == ReadMandate(mandate)
           vendors == ToSet(mandate.approvedVendorIds)
<1>1. DOMAIN back = DOMAIN mandate
  BY DEF ReadMandate
<1>2. \A field \in DOMAIN mandate \ {"approvedVendorIds"} : back[field] = mandate[field]
  BY DEF ReadMandate
<1>3. "id" \in DOMAIN mandate /\ "approvedVendorIds" \in DOMAIN mandate
  BY DEF IsMandate
<1>4. back.id = mandate.id /\ back.approvedVendorIds = SetToSeq(vendors)
  BY <1>3 DEF ReadMandate
<1>5. /\ SetToSeq(vendors) \in Seq(vendors) /\ IsInjective(SetToSeq(vendors))
      /\ ToSet(SetToSeq(vendors)) = vendors
  BY VendorsAreFinite, SetToSeqLists
<1>6. back = [field \in DOMAIN back |-> back[field]]
  BY DEF ReadMandate
<1> HIDE DEF back
<1>7. IsMandate(back)
  <2>1. {"id", "agentId", "agentName", "budgetCapCents", "reservedCents",
         "consumedCents", "approvedVendorIds"} \subseteq DOMAIN back
    BY <1>1 DEF IsMandate
  <2>2. back.approvedVendorIds \in Seq(ToSet(back.approvedVendorIds))
    BY <1>4, <1>5
  <2> QED
    BY <1>6, <2>1, <2>2 DEF IsMandate
<1>8. MandateRow(back) = MandateRow(mandate)
  BY <1>1, <1>2 DEF MandateRow
<1>9. VendorRows(back) = VendorRows(mandate)
  BY <1>4, <1>5 DEF VendorRows
<1> QED
  BY <1>1, <1>2, <1>4, <1>5, <1>7, <1>8, <1>9 DEF back

\* The vendors of a mandate in the tables of a checked store are its own.
LEMMA VendorsComeBack ==
  ASSUME NEW store, IdsAreUnique(store.mandates), NEW mandate \in store.mandates
  PROVE  ApprovedVendors(ToTables(store), mandate.id) = ToSet(mandate.approvedVendorIds)
<1>1. \A row \in ToTables(store).approvedVendors :
        \E other \in store.mandates :
          row.mandateId = other.id /\ row.vendorId \in ToSet(other.approvedVendorIds)
  BY TablesOf DEF VendorRows
<1>2. \A row \in ToTables(store).approvedVendors :
        row.mandateId = mandate.id => row.vendorId \in ToSet(mandate.approvedVendorIds)
  BY <1>1 DEF IdsAreUnique
<1>3. \A vendor \in ToSet(mandate.approvedVendorIds) :
        [mandateId |-> mandate.id, vendorId |-> vendor] \in ToTables(store).approvedVendors
  BY TablesOf DEF VendorRows
<1>4. \A vendor :
        vendor \in ApprovedVendors(ToTables(store), mandate.id)
          <=> \E row \in ToTables(store).approvedVendors :
                row.mandateId = mandate.id /\ row.vendorId = vendor
  BY DEF ApprovedVendors
<1>5. \A vendor \in ToSet(mandate.approvedVendorIds) :
        \E row \in ToTables(store).approvedVendors :
          row.mandateId = mandate.id /\ row.vendorId = vendor
  <2>1. TAKE vendor \in ToSet(mandate.approvedVendorIds)
  <2>2. PICK row : row = [mandateId |-> mandate.id, vendorId |-> vendor]
    OBVIOUS
  <2>3. row.mandateId = mandate.id /\ row.vendorId = vendor
    BY <2>2
  <2> QED
    BY <1>3, <2>2, <2>3
<1> QED
  BY <1>2, <1>4, <1>5

\* A store as it comes back from its tables.
ReadStore(store) == FromTables(ToTables(store))

AreMandates(store) == \A mandate \in store.mandates : IsMandate(mandate)

LEMMA StoreComesBack ==
  ASSUME NEW store, IdsAreUnique(store.mandates), AreMandates(store)
  PROVE  /\ ReadStore(store).mandates = {ReadMandate(mandate) : mandate \in store.mandates}
         /\ \A kind \in Kinds \ {"mandates"} : ReadStore(store)[kind] = store[kind]
         /\ AreMandates(ReadStore(store))
<1> DEFINE Back(row) ==
             [field \in DOMAIN row \cup {"approvedVendorIds"} |->
                IF field = "approvedVendorIds"
                  THEN SetToSeq(ApprovedVendors(ToTables(store), row.id))
                  ELSE row[field]]
<1>1. ReadStore(store).mandates = {Back(row) : row \in ToTables(store).mandates}
  BY DEF ReadStore, FromTables, Kinds
<1>2. ASSUME NEW mandate \in store.mandates
      PROVE  Back(MandateRow(mandate)) = ReadMandate(mandate)
  <2>1. /\ "id" \in DOMAIN mandate \ {"approvedVendorIds"}
        /\ "approvedVendorIds" \in DOMAIN mandate
    BY DEF AreMandates, IsMandate
  <2>2. /\ DOMAIN MandateRow(mandate) = DOMAIN mandate \ {"approvedVendorIds"}
        /\ \A field \in DOMAIN mandate \ {"approvedVendorIds"} :
             MandateRow(mandate)[field] = mandate[field]
    BY DEF MandateRow
  <2>3. ApprovedVendors(ToTables(store), MandateRow(mandate).id)
          = ToSet(mandate.approvedVendorIds)
    BY <2>1, <2>2, VendorsComeBack
  <2>4. DOMAIN MandateRow(mandate) \cup {"approvedVendorIds"} = DOMAIN mandate
    BY <2>1, <2>2
  <2> QED
    BY <2>2, <2>3, <2>4 DEF ReadMandate
<1> HIDE DEF Back
<1>3. ReadStore(store).mandates = {ReadMandate(mandate) : mandate \in store.mandates}
  BY <1>1, <1>2, TablesOf
<1>4. \A kind \in Kinds \ {"mandates"} : ReadStore(store)[kind] = store[kind]
  BY TablesOf DEF ReadStore, FromTables
<1>5. AreMandates(ReadStore(store))
  BY <1>3, MandateComesBack DEF AreMandates
<1> QED
  BY <1>3, <1>4, <1>5

\* Written again, it fills the tables with the same rows.
LEMMA TablesComeBack ==
  ASSUME NEW store, IdsAreUnique(store.mandates), AreMandates(store)
  PROVE  ToTables(ReadStore(store)) = ToTables(store)
<1> DEFINE back == ReadStore(store)
<1>1. /\ back.mandates = {ReadMandate(mandate) : mandate \in store.mandates}
      /\ \A kind \in Kinds \ {"mandates"} : back[kind] = store[kind]
  BY StoreComesBack
<1>2. \A mandate \in store.mandates :
        /\ MandateRow(ReadMandate(mandate)) = MandateRow(mandate)
        /\ VendorRows(ReadMandate(mandate)) = VendorRows(mandate)
  BY MandateComesBack DEF AreMandates
<1> HIDE DEF back
<1>3. ToTables(back).mandates = ToTables(store).mandates
  <2>1. {MandateRow(mandate) : mandate \in back.mandates}
          = {MandateRow(mandate) : mandate \in store.mandates}
    BY <1>1, <1>2
  <2> QED
    BY <2>1, TablesOf
<1>4. ToTables(back).approvedVendors = ToTables(store).approvedVendors
  <2>1. \A row : (\E mandate \in back.mandates : row \in VendorRows(mandate))
                 <=> (\E mandate \in store.mandates : row \in VendorRows(mandate))
    BY <1>1, <1>2
  <2>2. UNION {VendorRows(mandate) : mandate \in back.mandates}
          = UNION {VendorRows(mandate) : mandate \in store.mandates}
    BY <2>1
  <2> QED
    BY <2>2, TablesOf
<1>5. \A kind \in Kinds \ {"mandates"} : ToTables(back)[kind] = ToTables(store)[kind]
  BY <1>1, TablesOf
<1>6. \A table \in Tables : ToTables(back)[table] = ToTables(store)[table]
  BY <1>3, <1>4, <1>5 DEF Tables
<1>7. /\ ToTables(back) = [table \in Tables |-> ToTables(back)[table]]
      /\ ToTables(store) = [table \in Tables |-> ToTables(store)[table]]
  BY DEF ToTables
<1> QED
  BY <1>6, <1>7 DEF back

-----------------------------------------------------------------------------
(***************************************************************************)
(* The check of a store and the rules of the schema.                       *)
(***************************************************************************)
\* What passed the check passes it again when it comes back.
LEMMA IntactComesBack ==
  ASSUME NEW store, Intact(store), AreMandates(store)
  PROVE  Intact(ReadStore(store))
<1> DEFINE back == ReadStore(store)
<1>1. IdsAreUnique(store.mandates)
  BY DEF Intact, Kinds
<1>2. /\ back.mandates = {ReadMandate(mandate) : mandate \in store.mandates}
      /\ \A kind \in Kinds \ {"mandates"} : back[kind] = store[kind]
  BY <1>1, StoreComesBack
<1> HIDE DEF back
<1>3. /\ back.agents = store.agents /\ back.attempts = store.attempts
      /\ back.workerTasks = store.workerTasks /\ back.auditEntries = store.auditEntries
      /\ back.domainEvents = store.domainEvents
  BY <1>2 DEF Kinds
<1>4. Ids(back.mandates) = Ids(store.mandates)
  <2>1. \A mandate \in store.mandates : ReadMandate(mandate).id = mandate.id
    BY MandateComesBack DEF AreMandates
  <2> QED
    BY <1>2, <2>1 DEF Ids
<1>5. \A kind \in Kinds : IdsAreUnique(back[kind])
  <2>1. IdsAreUnique(back.mandates)
    BY <1>1, <1>2, MandateComesBack DEF IdsAreUnique, AreMandates
  <2> QED
    BY <1>2, <2>1 DEF Intact
<1>6. \A mandate \in back.mandates : MandateIsSound(back, mandate)
  <2> SUFFICES ASSUME NEW mandate \in store.mandates
               PROVE  MandateIsSound(back, ReadMandate(mandate))
    BY <1>2
  <2>1. MandateIsSound(store, mandate)
    BY DEF Intact
  <2>2. IsMandate(mandate)
    BY DEF AreMandates
  <2>3. \A field \in {"agentId", "agentName", "budgetCapCents", "reservedCents",
                      "consumedCents"} :
          ReadMandate(mandate)[field] = mandate[field]
    BY <2>2, MandateComesBack DEF IsMandate
  <2>4. /\ ToSet(ReadMandate(mandate).approvedVendorIds) = ToSet(mandate.approvedVendorIds)
        /\ IsInjective(ReadMandate(mandate).approvedVendorIds)
    BY <2>2, MandateComesBack
  <2> QED
    BY <1>3, <2>1, <2>3, <2>4 DEF MandateIsSound
<1>7. \A attempt \in back.attempts : AttemptIsSound(back, attempt)
  BY <1>3, <1>4 DEF Intact, AttemptIsSound
<1>8. \A task \in back.workerTasks : TaskIsSound(back, task)
  BY <1>3, <1>4 DEF Intact, TaskIsSound, AttemptOf
<1>9. \A audit \in back.auditEntries : AuditIsSound(back, audit)
  BY <1>3, <1>4 DEF Intact, AuditIsSound, AttemptOf
<1>10. \A event \in back.domainEvents : EventIsSound(back, event)
  BY <1>3, <1>4 DEF Intact, EventIsSound
<1> QED
  BY <1>5, <1>6, <1>7, <1>8, <1>9, <1>10 DEF Intact, back

\* What passed the check and fits its columns breaks no rule of the schema.
LEMMA IntactIsStorable ==
  ASSUME NEW store, Intact(store), AreMandates(store), Fits(store)
  PROVE  SchemaHolds(ToTables(store))
<1> DEFINE filled == ToTables(store)
<1>1. /\ filled.mandates = {MandateRow(mandate) : mandate \in store.mandates}
      /\ filled.approvedVendors = UNION {VendorRows(mandate) : mandate \in store.mandates}
      /\ \A kind \in Kinds \ {"mandates"} : filled[kind] = store[kind]
  BY TablesOf
<1> HIDE DEF filled
<1>2. \A mandate \in store.mandates :
        /\ MandateRow(mandate).id = mandate.id
        /\ MandateRow(mandate).agentId = mandate.agentId
        /\ MandateRow(mandate).budgetCapCents = mandate.budgetCapCents
  BY DEF AreMandates, IsMandate, MandateRow
<1>3. Ids(filled.mandates) = Ids(store.mandates)
  BY <1>1, <1>2 DEF Ids
<1>4. /\ filled.agents = store.agents /\ filled.attempts = store.attempts
      /\ filled.workerTasks = store.workerTasks /\ filled.auditEntries = store.auditEntries
  BY <1>1 DEF Kinds
<1>5. \A table \in Kinds : IdsAreUnique(filled[table])
  <2>1. IdsAreUnique(filled.mandates)
    BY <1>1, <1>2 DEF IdsAreUnique, Intact, Kinds
  <2> QED
    BY <1>1, <2>1 DEF Intact
<1>6. \A row1, row2 \in filled.attempts :
        row1.paymentIdentifier = row2.paymentIdentifier => row1 = row2
  BY <1>4 DEF Intact, AttemptIsSound
<1>7. \A row \in filled.mandates :
        row.agentId \in Ids(filled.agents) /\ row.budgetCapCents <= MaxInteger
  BY <1>1, <1>2, <1>4 DEF Intact, MandateIsSound, Fits
<1>8. \A row \in filled.approvedVendors : row.mandateId \in Ids(filled.mandates)
  <2>1. \A mandate \in store.mandates : \A row \in VendorRows(mandate) :
          row.mandateId = mandate.id
    BY DEF VendorRows
  <2>2. \A mandate \in store.mandates : mandate.id \in Ids(store.mandates)
    BY DEF Ids
  <2> QED
    BY <1>1, <1>3, <2>1, <2>2
<1>9. \A row \in filled.attempts \cup filled.workerTasks \cup filled.auditEntries :
        row.mandateId \in Ids(filled.mandates)
  BY <1>3, <1>4 DEF Intact, AttemptIsSound, TaskIsSound, AuditIsSound
<1>10. \A row \in filled.attempts : row.amountCents <= MaxInteger
  BY <1>4 DEF Fits
<1>11. \A row \in filled.workerTasks : row.attemptId \in Ids(filled.attempts)
  BY <1>4 DEF Intact, TaskIsSound, AttemptOf
<1> QED
  BY <1>5, <1>6, <1>7, <1>8, <1>9, <1>10, <1>11 DEF SchemaHolds, filled

-----------------------------------------------------------------------------
(***************************************************************************)
(* Half way.  Every row is one of the old tables or one of the store, and  *)
(* the rows that it refers to are there: an upsert removes no identifier,  *)
(* parents are upserted before their children and cleared after them.      *)
(***************************************************************************)
Parents == {<<"mandates", "agents">>, <<"approvedVendors", "mandates">>,
            <<"attempts", "mandates">>, <<"workerTasks", "mandates">>,
            <<"auditEntries", "mandates">>, <<"workerTasks", "attempts">>}

\* Tables made of the rows of two others, each row with its parents.
Between(mid, old, new) ==
    \A table \in Tables : \A row \in mid[table] :
       \/ /\ row \in old[table]
          /\ \A parent \in Kinds :
               <<table, parent>> \in Parents => Ids(old[parent]) \subseteq Ids(mid[parent])
       \/ /\ row \in new[table]
          /\ \A parent \in Kinds :
               <<table, parent>> \in Parents => Ids(new[parent]) \subseteq Ids(mid[parent])

LEMMA BetweenHolds ==
  ASSUME NEW mid, NEW old, NEW new, Between(mid, old, new),
         SchemaHolds(old), SchemaHolds(new),
         \A kind \in Kinds : IdsAreUnique(mid[kind]),
         \A row1, row2 \in mid.attempts :
           row1.paymentIdentifier = row2.paymentIdentifier => row1 = row2
  PROVE  SchemaHolds(mid)
<1> USE DEF Tables, Kinds, Parents
<1>1. \A row \in mid.mandates :
        row.agentId \in Ids(mid.agents) /\ row.budgetCapCents <= MaxInteger
  BY DEF Between, SchemaHolds
<1>2. ASSUME NEW table \in {"approvedVendors", "attempts", "workerTasks", "auditEntries"}
      PROVE  \A row \in mid[table] : row.mandateId \in Ids(mid.mandates)
  <2>1. \A row \in old[table] : row.mandateId \in Ids(old.mandates)
    BY DEF SchemaHolds
  <2>2. \A row \in new[table] : row.mandateId \in Ids(new.mandates)
    BY DEF SchemaHolds
  <2> QED
    BY <2>1, <2>2 DEF Between
<1>3. \A row \in mid.attempts : row.amountCents <= MaxInteger
  BY DEF Between, SchemaHolds
<1>4. \A row \in mid.workerTasks : row.attemptId \in Ids(mid.attempts)
  BY DEF Between, SchemaHolds
<1>5. \A row \in mid.approvedVendors \cup mid.attempts \cup mid.workerTasks
                  \cup mid.auditEntries : row.mandateId \in Ids(mid.mandates)
  BY <1>2
<1> QED
  BY <1>1, <1>3, <1>4, <1>5 DEF SchemaHolds

\* An upserted table.
LEMMA UpsertedRows ==
  ASSUME NEW old, NEW store, NEW table \in Tables
  PROVE  /\ UpsertedTable(old, store, table) \subseteq old[table] \cup ToTables(store)[table]
         /\ table \in Kinds =>
              /\ Ids(old[table]) \subseteq Ids(UpsertedTable(old, store, table))
              /\ Ids(ToTables(store)[table]) \subseteq Ids(UpsertedTable(old, store, table))
              /\ IdsAreUnique(old[table]) /\ IdsAreUnique(ToTables(store)[table])
                  => IdsAreUnique(UpsertedTable(old, store, table))
<1>1. CASE table = "approvedVendors"
  BY <1>1 DEF UpsertedTable, UpsertedVendors, Kinds
<1>2. CASE table # "approvedVendors"
  <2> DEFINE rows == ToTables(store)[table]
             was == old[table]
  <2>1. UpsertedTable(old, store, table) = Upserted(was, rows)
    BY <1>2 DEF UpsertedTable
  <2> HIDE DEF rows, was
  <2>2. /\ Upserted(was, rows) \subseteq was \cup rows
        /\ Ids(was) \subseteq Ids(Upserted(was, rows))
        /\ Ids(rows) \subseteq Ids(Upserted(was, rows))
    BY DEF Upserted, Ids
  <2>3. IdsAreUnique(was) /\ IdsAreUnique(rows) => IdsAreUnique(Upserted(was, rows))
    BY DEF Upserted, Ids, IdsAreUnique
  <2> QED
    BY <2>1, <2>2, <2>3 DEF rows, was
<1> QED
  BY <1>1, <1>2

\* A store that keeps the attempts of the tables takes no identifier of
\* another attempt.
LEMMA KeptIdentifiers ==
  ASSUME NEW old, NEW store, Intact(store), SchemaHolds(old),
         KeepsAttempts(old.attempts, store)
  PROVE  /\ \A row \in old.attempts : \A attempt \in store.attempts :
              row.paymentIdentifier = attempt.paymentIdentifier => row.id = attempt.id
         /\ \A row1, row2 \in UpsertedTable(old, store, "attempts") :
              row1.paymentIdentifier = row2.paymentIdentifier => row1 = row2
<1>1. \A attempt, other \in store.attempts :
        attempt.paymentIdentifier = other.paymentIdentifier => attempt = other
  BY DEF Intact, AttemptIsSound
<1>2. \A row \in old.attempts : \A attempt \in store.attempts :
        row.paymentIdentifier = attempt.paymentIdentifier => row.id = attempt.id
  BY <1>1 DEF KeepsAttempts
<1>3. \A row1, row2 \in old.attempts :
        row1.paymentIdentifier = row2.paymentIdentifier => row1 = row2
  BY DEF SchemaHolds
<1>4. UpsertedTable(old, store, "attempts") = Upserted(old.attempts, store.attempts)
  BY TablesOf DEF UpsertedTable, Kinds
<1>5. \A row1, row2 \in Upserted(old.attempts, store.attempts) :
        row1.paymentIdentifier = row2.paymentIdentifier => row1 = row2
  BY <1>1, <1>2, <1>3 DEF Upserted, Ids
<1> QED
  BY <1>2, <1>4, <1>5

LEMMA HalfWayHolds ==
  ASSUME NEW old, NEW store, NEW n \in 0 .. 6, Intact(store), SchemaHolds(old),
         SchemaHolds(ToTables(store)), KeepsAttempts(old.attempts, store)
  PROVE  SchemaHolds(AfterUpserts(old, store, n)) /\ SchemaHolds(AfterDeletes(old, store, n))
<1> DEFINE new == ToTables(store)
           Up(table) == UpsertedTable(old, store, table)
<1>1. \A table \in Tables : Up(table) \subseteq old[table] \cup new[table]
  BY UpsertedRows
<1>2. \A kind \in Kinds : /\ Ids(old[kind]) \subseteq Ids(Up(kind))
                         /\ Ids(new[kind]) \subseteq Ids(Up(kind))
                         /\ IdsAreUnique(old[kind]) /\ IdsAreUnique(new[kind])
                         /\ IdsAreUnique(Up(kind))
  BY UpsertedRows DEF SchemaHolds, Tables
<1>3. \A row1, row2 \in Up("attempts") :
        row1.paymentIdentifier = row2.paymentIdentifier => row1 = row2
  BY KeptIdentifiers
<1>4. \A row1, row2 \in old.attempts :
        row1.paymentIdentifier = row2.paymentIdentifier => row1 = row2
  BY DEF SchemaHolds
<1>5. \A row1, row2 \in new.attempts :
        row1.paymentIdentifier = row2.paymentIdentifier => row1 = row2
  BY DEF SchemaHolds
<1>6. /\ \A table \in Tables : Turn[table] \in 1 .. 6
      /\ Kinds \subseteq Tables /\ "attempts" \in Kinds
      /\ \A table \in Tables : \A parent \in Kinds :
           <<table, parent>> \in Parents => Turn[parent] <= Turn[table]
  BY DEF Tables, Kinds, Parents, Turn
<1> HIDE DEF new, Up
<1>7. SchemaHolds(AfterUpserts(old, store, n))
  <2> DEFINE mid == AfterUpserts(old, store, n)
  <2>1. \A table \in Tables : mid[table] = IF Turn[table] <= n THEN Up(table) ELSE old[table]
    BY DEF AfterUpserts, Up
  <2> HIDE DEF mid
  <2>2. Between(mid, old, new)
    BY <1>1, <1>2, <1>6, <2>1 DEF Between
  <2>3. \A kind \in Kinds : IdsAreUnique(mid[kind])
    BY <1>2, <1>6, <2>1
  <2>4. \A row1, row2 \in mid.attempts :
          row1.paymentIdentifier = row2.paymentIdentifier => row1 = row2
    BY <1>3, <1>4, <1>6, <2>1
  <2>5. SchemaHolds(mid)
    BY <2>2, <2>3, <2>4, BetweenHolds DEF new
  <2> QED
    BY <2>5 DEF mid
<1>8. SchemaHolds(AfterDeletes(old, store, n))
  <2> DEFINE mid == AfterDeletes(old, store, n)
  <2>1. \A table \in Tables : mid[table] = IF Turn[table] > 6 - n THEN new[table] ELSE Up(table)
    BY PrunedIsWritten DEF AfterDeletes, Up, new
  <2> HIDE DEF mid
  <2>2. Between(mid, old, new)
    BY <1>1, <1>2, <1>6, <2>1 DEF Between
  <2>3. \A kind \in Kinds : IdsAreUnique(mid[kind])
    BY <1>2, <1>6, <2>1
  <2>4. \A row1, row2 \in mid.attempts :
          row1.paymentIdentifier = row2.paymentIdentifier => row1 = row2
    BY <1>3, <1>5, <1>6, <2>1
  <2>5. SchemaHolds(mid)
    BY <2>2, <2>3, <2>4, BetweenHolds DEF new
  <2> QED
    BY <2>5 DEF mid
<1> QED
  BY <1>7, <1>8

LEMMA EveryStatementPasses ==
  ASSUME NEW old, NEW store, Intact(store), AreMandates(store), Fits(store),
         SchemaHolds(old), KeepsAttempts(old.attempts, store),
         NEW order \in Orders(store)
  PROVE  StatementsPass(old, store, order)
<1>1. SchemaHolds(ToTables(store))
  BY IntactIsStorable
<1>2. \A i \in DOMAIN order : order[i] \in store.attempts
  BY DEF Orders, SetToSeqs
<1>3. \A row \in old.attempts : \A attempt \in store.attempts :
        row.paymentIdentifier = attempt.paymentIdentifier => row.id = attempt.id
  BY KeptIdentifiers
<1>4. RowsPass(old.attempts, order)
  BY <1>2, <1>3 DEF RowsPass
<1> QED
  BY <1>1, <1>4, HalfWayHolds DEF StatementsPass

-----------------------------------------------------------------------------
(***************************************************************************)
(* The invariant.                                                          *)
(***************************************************************************)
WritesInv ==
    /\ tables = ToTables(saved) /\ SchemaHolds(tables)
    /\ Intact(saved) /\ AreMandates(saved)
    /\ data = [kind \in Kinds |-> data[kind]] /\ AreMandates(data)

LEMMA ReadBackKeeps ==
  ASSUME NEW store, Intact(store), AreMandates(store)
  PROVE  /\ AreMandates(ReadStore(store))
         /\ ReadStore(store) = [kind \in Kinds |-> ReadStore(store)[kind]]
<1>1. IdsAreUnique(store.mandates)
  BY DEF Intact, Kinds
<1> QED
  BY <1>1, StoreComesBack DEF ReadStore, FromTables

LEMMA WritesStart == Init => WritesInv
<1> SUFFICES ASSUME Init PROVE WritesInv
  OBVIOUS
<1>1. Intact(SeedStore) /\ SchemaHolds(ToTables(SeedStore)) /\ AreMandates(SeedStore)
  BY SeedAssumption, MandateAssumption DEF AreMandates
<1>2. tables = ToTables(SeedStore) /\ data = ReadStore(SeedStore) /\ saved = SeedStore
  BY DEF Init, ReadStore
<1> QED
  BY <1>1, <1>2, ReadBackKeeps DEF WritesInv

LEMMA WritesStep == WritesInv /\ [Next]_writeVars => WritesInv'
<1> SUFFICES ASSUME WritesInv, [Next]_writeVars PROVE WritesInv'
  OBVIOUS
<1>1. ASSUME NEW kind \in Kinds, NEW record \in Candidates[kind], PutRecord(kind, record)
      PROVE  WritesInv'
  <2>1. data' = [data EXCEPT ![kind] = data[kind] \cup {record}]
        /\ tables' = tables /\ saved' = saved
    BY <1>1 DEF PutRecord
  <2>2. data' = [k \in Kinds |-> data'[k]] /\ "mandates" \in Kinds
    BY <2>1 DEF WritesInv, Kinds
  <2>3. \A mandate \in data'.mandates :
          mandate \in data.mandates \/ (kind = "mandates" /\ mandate = record)
    BY <2>1, <2>2 DEF WritesInv
  <2>4. AreMandates(data')
    BY <2>3, MandateAssumption DEF WritesInv, AreMandates
  <2> QED
    BY <2>1, <2>2, <2>4 DEF WritesInv
<1>2. ASSUME NEW kind \in Kinds, NEW record, DropRecord(kind, record)
      PROVE  WritesInv'
  <2>1. data' = [data EXCEPT ![kind] = data[kind] \ {record}]
        /\ tables' = tables /\ saved' = saved
    BY <1>2 DEF DropRecord
  <2>2. data' = [k \in Kinds |-> data'[k]] /\ "mandates" \in Kinds
    BY <2>1 DEF WritesInv, Kinds
  <2>3. \A mandate \in data'.mandates : mandate \in data.mandates
    BY <2>1, <2>2 DEF WritesInv
  <2>4. AreMandates(data')
    BY <2>3 DEF WritesInv, AreMandates
  <2> QED
    BY <2>1, <2>2, <2>4 DEF WritesInv
<1>3. CASE Save
  <2>1. tables' = ToTables(data) /\ Intact(data) /\ saved' = data
    BY <1>3, BothWriteTheStore DEF Save
  <2>2. SchemaHolds(AfterDeletes(tables, data, 6))
    BY <1>3 DEF Save, StatementsPass
  <2>3. SchemaHolds(tables')
    BY <2>1, <2>2, BothWriteTheStore DEF WrittenPostgres
  <2>4. data' = ReadStore(data)
    BY <1>3, <2>1 DEF Save, ReadStore
  <2> QED
    BY <2>1, <2>3, <2>4, ReadBackKeeps DEF WritesInv
<1>4. CASE Abandon
  <2>1. data' = ReadStore(saved) /\ tables' = tables /\ saved' = saved
    BY <1>4 DEF Abandon, WritesInv, ReadStore
  <2> QED
    BY <2>1, ReadBackKeeps DEF WritesInv
<1>5. CASE UNCHANGED writeVars
  BY <1>5 DEF writeVars, WritesInv
<1> QED
  BY <1>1, <1>2, <1>3, <1>4, <1>5 DEF Next

LEMMA WritesInvariant == Spec => []WritesInv
<1> QED
  BY WritesStart, WritesStep, PTL DEF Spec

-----------------------------------------------------------------------------
(***************************************************************************)
(* The theorems.                                                           *)
(***************************************************************************)
\* What the next transaction reads is what the last one wrote, up to the order
\* of the approved vendors, whatever the callbacks put in the store and
\* whatever rows the tables held before (writeStore and readStore of
\* src/lib/infrastructure/postgres-store.ts and sqlite-store.ts).
THEOREM WrittenIsReadBack == Spec => []ReadBackIsWritten
<1>1. WritesInv => ReadBackIsWritten
  <2> SUFFICES ASSUME WritesInv PROVE ReadBackIsWritten
    OBVIOUS
  <2>1. tables = ToTables(saved) /\ IdsAreUnique(saved.mandates) /\ AreMandates(saved)
    BY DEF WritesInv, Intact, Kinds
  <2>2. FromTables(tables) = ReadStore(saved)
    BY <2>1 DEF ReadStore
  <2>3. \A kind \in Kinds \ {"mandates"} : ReadStore(saved)[kind] = saved[kind]
    BY <2>1, StoreComesBack
  <2>4. ToTables(ReadStore(saved)) = ToTables(saved)
    BY <2>1, TablesComeBack
  <2> QED
    BY <2>1, <2>2, <2>3, <2>4 DEF ReadBackIsWritten, Same, WrittenSqlite
<1> QED
  BY <1>1, WritesInvariant, PTL

\* A store that passes the check of store-integrity.ts, fits its columns and
\* keeps the attempts of the tables breaks no rule of the schema at any
\* statement of writeStoreToClient (postgres-store.ts), in whatever order its
\* attempts are written; SQLite stores it even if it drops some.
THEOREM CheckedStoresStayStorable == Spec => []CheckedStoresAreStorable
<1>1. WritesInv => CheckedStoresAreStorable
  BY IntactIsStorable, EveryStatementPasses DEF WritesInv, CheckedStoresAreStorable, WrittenSqlite
<1> QED
  BY <1>1, WritesInvariant, PTL

\* The database never holds what the check would refuse, so that no reader of
\* a committed store is turned away by it.
THEOREM StoredStaysIntact == Spec => []StoredIsIntact
<1>1. WritesInv => StoredIsIntact
  BY IntactComesBack DEF WritesInv, StoredIsIntact, ReadStore
<1> QED
  BY <1>1, WritesInvariant, PTL
=============================================================================
