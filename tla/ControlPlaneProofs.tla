------------------------- MODULE ControlPlaneProofs -------------------------
(* Proofs about the components that administer what is run, and who may run *)
(* it, a section for each, for every value of their constants; and what the *)
(* composition of MCControlPlane keeps of each component.                   *)
EXTENDS MCControlPlane, ExecutionProofs

-----------------------------------------------------------------------------
(* RuntimeModels                                                            *)

(* What a caller is about to write is of the model its grant is for.        *)
CallsAreGranted ==
  /\ DOMAIN callerStage = Callers /\ DOMAIN call = Callers
  /\ \A c \in Callers : DOMAIN call[c] = { "granted", "metadata" }
  /\ \A c \in Callers : callerStage[c] = "write" => call[c].granted = call[c].metadata.id
  /\ WrittenUnderOwnGrant

\* One caller goes on, with what it has read.
LEMMA OneCaller ==
  ASSUME CallsAreGranted, NEW c \in Callers, NEW label, NEW value,
         callerStage' = [callerStage EXCEPT ![c] = label], call' = [call EXCEPT ![c] = value],
         DOMAIN value = { "granted", "metadata" },
         label = "write" => value.granted = value.metadata.id,
         written' = written
  PROVE  CallsAreGranted'
PROOF
  <1>1. /\ DOMAIN callerStage' = Callers /\ DOMAIN call' = Callers
        /\ callerStage'[c] = label /\ call'[c] = value
        /\ \A d \in Callers \ {c} : callerStage'[d] = callerStage[d] /\ call'[d] = call[d]
    BY DEF CallsAreGranted
  <1> QED BY <1>1 DEF CallsAreGranted, WrittenUnderOwnGrant

\* Every step of callers, editors and grants keeps it.
LEMMA ModelsStep == ASSUME CallsAreGranted, [ModelsNext]_modelVars PROVE CallsAreGranted'
PROOF
  <1>1. ASSUME UNCHANGED calling PROVE CallsAreGranted'
    BY <1>1 DEF calling, CallsAreGranted, WrittenUnderOwnGrant
  <1>2. ASSUME NEW e \in Editors,
               \/ CreateModel(e) \/ UpdateModelStatus(e) \/ DeleteModel(e)
               \/ \E f \in Fields : AddField(e, f) \/ DeleteField(e, f)
        PROVE  UNCHANGED calling
    BY <1>2, Zenon DEF CreateModel, UpdateModelStatus, DeleteModel, AddField, DeleteField, Mutates
  <1>3. ASSUME NEW e \in Editors,
               \/ AppendAudit(e) \/ CreateGrant(e) \/ RebuildFails(e) \/ ListFields(e)
               \/ ListRows(e) \/ InspectTable(e) \/ RefreshHealth(e) \/ Install(e)
        PROVE  UNCHANGED calling
    BY <1>3, Zenon DEF AppendAudit, CreateGrant, RebuildFails, ListFields, ListRows, InspectTable,
       RefreshHealth, Install
  <1>4. ASSUME ChangeGrant PROVE UNCHANGED calling
    BY <1>4 DEF ChangeGrant
  <1>5. ASSUME NEW c \in Callers, ResolveModel(c) PROVE CallsAreGranted'
    <2> DEFINE value == [call[c] EXCEPT !.metadata = registered]
    <2>1. /\ callerStage' = [callerStage EXCEPT ![c] = "authorize"]
          /\ call' = [call EXCEPT ![c] = value] /\ written' = written
      BY <1>5 DEF ResolveModel, CallerGoes
    <2>2. DOMAIN value = { "granted", "metadata" }
      BY DEF CallsAreGranted
    <2> HIDE DEF value
    <2> QED BY <2>1, <2>2, OneCaller
  <1>6. ASSUME NEW c \in Callers, LoadScopeGrant(c) PROVE CallsAreGranted'
    <2> DEFINE value == [granted |-> IF call[c].metadata.id \in grants THEN call[c].metadata.id
                                     ELSE 0, metadata |-> Unregistered]
    <2>1. /\ callerStage' = [callerStage EXCEPT ![c] = "load"]
          /\ call' = [call EXCEPT ![c] = value] /\ written' = written
      BY <1>6 DEF LoadScopeGrant, CallerGoes
    <2>2. DOMAIN value = { "granted", "metadata" }
      OBVIOUS
    <2> HIDE DEF value
    <2> QED BY <2>1, <2>2, OneCaller
  <1>7. ASSUME NEW c \in Callers, LoadMetadata(c) PROVE CallsAreGranted'
    <2> DEFINE value == [call[c] EXCEPT !.metadata = registered]
    <2>1. CASE /\ Accessible(registered, call[c].granted)
               /\ callerStage' = [callerStage EXCEPT ![c] = "write"]
               /\ call' = [call EXCEPT ![c] = value] /\ written' = written
      <3>1. DOMAIN value = { "granted", "metadata" } /\ value.granted = value.metadata.id
        BY <2>1 DEF CallsAreGranted, Accessible
      <3> HIDE DEF value
      <3> QED BY <2>1, <3>1, OneCaller
    <2>2. CASE /\ callerStage' = [callerStage EXCEPT ![c] = "idle"]
               /\ call' = [call EXCEPT ![c] = NoCall] /\ written' = written
      <3>1. DOMAIN NoCall = { "granted", "metadata" }
        BY DEF NoCall
      <3> QED BY <2>2, <3>1, OneCaller
    <2> QED BY <1>7, <2>1, <2>2, Zenon DEF LoadMetadata, CallerGoes
  <1>8. ASSUME NEW c \in Callers, WriteModelRecord(c) PROVE CallsAreGranted'
    <2>1. /\ callerStage[c] = "write"
          /\ callerStage' = [callerStage EXCEPT ![c] = "idle"]
          /\ call' = [call EXCEPT ![c] = NoCall]
          /\ written' \subseteq
               written \cup {[model |-> call[c].metadata.id, grant |-> call[c].granted]}
      BY <1>8 DEF WriteModelRecord, CallerGoes
    <2>2. call[c].granted = call[c].metadata.id
      BY <2>1 DEF CallsAreGranted
    <2>3. WrittenUnderOwnGrant'
      BY <2>1, <2>2 DEF CallsAreGranted, WrittenUnderOwnGrant
    <2>4. DOMAIN NoCall = { "granted", "metadata" }
      BY DEF NoCall
    <2>5. /\ DOMAIN callerStage' = Callers /\ DOMAIN call' = Callers
          /\ callerStage'[c] = "idle" /\ call'[c] = NoCall
          /\ \A d \in Callers \ {c} : callerStage'[d] = callerStage[d] /\ call'[d] = call[d]
      BY <2>1 DEF CallsAreGranted
    <2> QED BY <2>3, <2>4, <2>5 DEF CallsAreGranted
  <1> QED
    BY <1>1, <1>2, <1>3, <1>4, <1>5, <1>6, <1>7, <1>8, Zenon DEF ModelsNext, modelVars, calling

\* No record is written under another model's grant, whatever rebuilds and
\* mutations come between the look for the grant and the write.
THEOREM WrittenUnderOwnGrantHolds == ModelsSpec => []WrittenUnderOwnGrant
PROOF
  <1>1. ModelsInit => CallsAreGranted
    BY DEF ModelsInit, CallsAreGranted, NoCall, WrittenUnderOwnGrant
  <1>2. CallsAreGranted /\ [ModelsNext]_modelVars => CallsAreGranted'
    BY ModelsStep
  <1>3. CallsAreGranted => WrittenUnderOwnGrant
    BY DEF CallsAreGranted
  <1> QED BY <1>1, <1>2, <1>3, PTL DEF ModelsSpec

(* What the rows of the store and of the snapshots are.                     *)
RowOK(row) == row \in Row /\ (row.id = 0 => row = Absent)

RowsOK ==
  /\ made \in 0 .. MaxModels /\ RowOK(modelRow)
  /\ DOMAIN editorStage = Editors /\ DOMAIN alone = Editors
  /\ snapshot \in [Editors -> [row : Row, fields : SUBSET Fields, healthy : BOOLEAN]]
  /\ modelFields \subseteq Fields

(* A table is found healthy only once it was looked at, and there was one.  *)
SnapshotOK(e) ==
  /\ RowOK(snapshot[e].row)
  /\ editorStage[e] \in { "inspect", "refresh" } => snapshot[e].row # Absent
  /\ editorStage[e] \notin { "refresh", "install" } => snapshot[e].healthy = FALSE
  /\ editorStage[e] = "install" /\ snapshot[e].row = Absent => snapshot[e].healthy = FALSE

StoreHealthy == modelRow # Absent /\ Healthy(modelRow, modelFields)

(* A rebuild that nothing disturbed has read what the store holds.          *)
AloneOK(e) ==
  alone[e] = TRUE =>
    /\ editorStage[e] \in { "rows", "inspect", "refresh", "install" }
    /\ snapshot[e].fields = modelFields
    /\ editorStage[e] \in { "inspect", "refresh" } => snapshot[e].row = modelRow
    /\ editorStage[e] = "refresh" => (snapshot[e].healthy = TRUE <=> StoreHealthy)
    /\ editorStage[e] = "install" =>
         /\ snapshot[e].healthy = TRUE <=> StoreHealthy
         /\ snapshot[e].row.id = modelRow.id /\ snapshot[e].row.status = modelRow.status
         /\ modelRow # Absent => modelRow.availability = Availability(StoreHealthy)

SettledOK ==
  settled = TRUE =>
    /\ registered = RegisteredAs(modelRow, modelFields, StoreHealthy)
    /\ modelRow # Absent => modelRow.availability = Availability(StoreHealthy)

RegistryIInv ==
  RowsOK /\ SettledOK /\ \A e \in Editors : SnapshotOK(e) /\ AloneOK(e)

\* A change that leaves no rebuild alone leaves nothing to show about them.
LEMMA Disturbed ==
  ASSUME RegistryIInv, RowsOK', settled' = FALSE, \A e \in Editors : alone'[e] # TRUE,
         \A e \in Editors : SnapshotOK(e)'
  PROVE  RegistryIInv'
  BY Zenon DEF RegistryIInv, AloneOK, SettledOK

\* A mutation of the store.
LEMMA MutationStep ==
  ASSUME RegistryIInv, NEW e \in Editors, NEW label \in { "audit", "idle" }, Mutates(e, label),
         RowOK(modelRow'), made' \in 0 .. MaxModels, modelFields' \subseteq Fields
  PROVE  RegistryIInv'
PROOF
  <1>1. /\ editorStage[e] = "idle" /\ editorStage' = [editorStage EXCEPT ![e] = label]
        /\ alone' = [x \in Editors |-> x = e /\ alone[x]]
        /\ settled' = FALSE /\ snapshot' = snapshot
    BY DEF Mutates, EditorAt, EditorGoes, Disturb
  <1>2. RowsOK'
    BY <1>1 DEF RegistryIInv, RowsOK
  <1>3. ASSUME NEW x \in Editors PROVE alone'[x] # TRUE
    <2>1. AloneOK(e)
      BY DEF RegistryIInv
    <2>2. alone[e] # TRUE
      BY <1>1, <2>1 DEF AloneOK
    <2> QED BY <1>1, <2>2
  <1>4. ASSUME NEW x \in Editors PROVE SnapshotOK(x)'
    <2>0. DOMAIN editorStage = Editors
      BY DEF RegistryIInv, RowsOK
    <2>1. \/ editorStage'[x] = editorStage[x]
          \/ x = e /\ editorStage'[x] = label
      BY <1>1, <2>0
    <2>2. SnapshotOK(x)
      BY DEF RegistryIInv
    <2> QED BY <1>1, <2>1, <2>2, Zenon DEF SnapshotOK
  <1> QED BY <1>1, <1>2, <1>3, <1>4, Disturbed

\* An editor goes on while the store and the registry stay.
LEMMA EditorStep ==
  ASSUME RegistryIInv, NEW e \in Editors,
         UNCHANGED <<store, registered, settled>>,
         DOMAIN editorStage' = Editors, DOMAIN alone' = Editors,
         snapshot' \in [Editors -> [row : Row, fields : SUBSET Fields, healthy : BOOLEAN]],
         \A x \in Editors \ {e} : /\ editorStage'[x] = editorStage[x]
                                  /\ alone'[x] = alone[x] /\ snapshot'[x] = snapshot[x],
         SnapshotOK(e)', AloneOK(e)'
  PROVE  RegistryIInv'
PROOF
  <1>1. UNCHANGED <<modelRow, modelFields, table, made, registered, settled>>
    BY DEF store
  <1>2. StoreHealthy' = StoreHealthy
    BY <1>1 DEF StoreHealthy, Healthy
  <1>3. RowsOK'
    BY <1>1 DEF RegistryIInv, RowsOK
  <1>4. SettledOK'
    BY <1>1, <1>2, Zenon DEF RegistryIInv, SettledOK
  <1>5. ASSUME NEW x \in Editors, x # e PROVE SnapshotOK(x)' /\ AloneOK(x)'
    <2>1. /\ editorStage'[x] = editorStage[x] /\ alone'[x] = alone[x]
          /\ snapshot'[x] = snapshot[x]
      BY <1>5
    <2>2. SnapshotOK(x) /\ AloneOK(x)
      BY DEF RegistryIInv
    <2>3. SnapshotOK(x)'
      BY <2>1, <2>2, Zenon DEF SnapshotOK
    <2>4. AloneOK(x)'
      BY <1>1, <1>2, <2>1, <2>2, Zenon DEF AloneOK
    <2> QED BY <2>3, <2>4
  <1> QED BY <1>3, <1>4, <1>5 DEF RegistryIInv

\* The listing of the fields starts a rebuild, alone until something happens.
LEMMA ListFieldsStep == ASSUME RegistryIInv, NEW e \in Editors, ListFields(e) PROVE RegistryIInv'
PROOF
  <1>1. /\ UNCHANGED <<store, registered, settled>> /\ modelFields' = modelFields
        /\ editorStage[e] = "fields"
        /\ editorStage' = [editorStage EXCEPT ![e] = "rows"]
        /\ snapshot' = [snapshot EXCEPT ![e].fields = modelFields]
        /\ alone' = [alone EXCEPT ![e] = TRUE]
    BY DEF ListFields, EditorAt, EditorGoes, store
  <1>2. RowsOK /\ SnapshotOK(e)
    BY DEF RegistryIInv
  <1>3. /\ snapshot' \in [Editors -> [row : Row, fields : SUBSET Fields, healthy : BOOLEAN]]
        /\ snapshot'[e].row = snapshot[e].row /\ snapshot'[e].healthy = snapshot[e].healthy
        /\ snapshot'[e].fields = modelFields
    BY <1>1, <1>2 DEF RowsOK
  <1>4. /\ DOMAIN editorStage' = Editors /\ DOMAIN alone' = Editors
        /\ editorStage'[e] = "rows"
        /\ \A x \in Editors \ {e} : /\ editorStage'[x] = editorStage[x]
                                    /\ alone'[x] = alone[x] /\ snapshot'[x] = snapshot[x]
    BY <1>1, <1>2 DEF RowsOK
  <1>5. SnapshotOK(e)' /\ AloneOK(e)'
    BY <1>1, <1>2, <1>3, <1>4 DEF SnapshotOK, AloneOK
  <1> QED BY <1>1, <1>3, <1>4, <1>5, EditorStep

\* The listing of the rows.
LEMMA ListRowsStep == ASSUME RegistryIInv, NEW e \in Editors, ListRows(e) PROVE RegistryIInv'
PROOF
  <1> DEFINE label == IF modelRow = Absent THEN "install" ELSE "inspect"
  <1>1. /\ UNCHANGED <<store, registered, settled>> /\ alone' = alone
        /\ modelRow' = modelRow /\ modelFields' = modelFields /\ table' = table
        /\ editorStage[e] = "rows"
        /\ editorStage' = [editorStage EXCEPT ![e] = label]
        /\ snapshot' = [snapshot EXCEPT ![e].row = modelRow]
    BY DEF ListRows, EditorAt, EditorGoes, store
  <1>2. RowsOK /\ SnapshotOK(e) /\ AloneOK(e)
    BY DEF RegistryIInv
  <1>3. /\ snapshot' \in [Editors -> [row : Row, fields : SUBSET Fields, healthy : BOOLEAN]]
        /\ snapshot'[e].row = modelRow /\ snapshot'[e].healthy = snapshot[e].healthy
        /\ snapshot'[e].fields = snapshot[e].fields
    BY <1>1, <1>2 DEF RowsOK, RowOK
  <1>4. /\ DOMAIN editorStage' = Editors /\ DOMAIN alone' = Editors
        /\ editorStage'[e] = label
        /\ \A x \in Editors \ {e} : /\ editorStage'[x] = editorStage[x]
                                    /\ alone'[x] = alone[x] /\ snapshot'[x] = snapshot[x]
    BY <1>1, <1>2 DEF RowsOK
  <1>5. snapshot'[e].healthy = FALSE
    BY <1>1, <1>2, <1>3 DEF SnapshotOK
  <1>6. SnapshotOK(e)'
    BY <1>2, <1>3, <1>4, <1>5 DEF SnapshotOK, RowsOK
  <1>7. AloneOK(e)'
    <2>1. CASE modelRow = Absent
      BY <1>1, <1>2, <1>3, <1>4, <1>5, <2>1 DEF AloneOK, StoreHealthy
    <2>2. CASE modelRow # Absent
      BY <1>1, <1>2, <1>3, <1>4, <2>2 DEF AloneOK
    <2> QED BY <2>1, <2>2
  <1> HIDE DEF label
  <1> QED BY <1>1, <1>3, <1>4, <1>6, <1>7, EditorStep

\* The look at the table.
LEMMA InspectStep == ASSUME RegistryIInv, NEW e \in Editors, InspectTable(e) PROVE RegistryIInv'
PROOF
  <1> DEFINE healthy == Healthy(snapshot[e].row, snapshot[e].fields)
  <1>1. /\ UNCHANGED <<store, registered, settled>> /\ alone' = alone
        /\ modelRow' = modelRow /\ modelFields' = modelFields /\ table' = table
        /\ editorStage[e] = "inspect"
        /\ editorStage' = [editorStage EXCEPT ![e] = "refresh"]
        /\ snapshot' = [snapshot EXCEPT ![e].healthy = healthy]
    BY DEF InspectTable, EditorAt, EditorGoes, store
  <1>2. RowsOK /\ SnapshotOK(e) /\ AloneOK(e)
    BY DEF RegistryIInv
  <1>3. healthy \in BOOLEAN
    BY DEF Healthy
  <1>4. StoreHealthy' = StoreHealthy
    BY <1>1 DEF StoreHealthy, Healthy
  <1>5. alone[e] = TRUE => (healthy <=> StoreHealthy)
    BY <1>1, <1>2 DEF AloneOK, SnapshotOK, StoreHealthy
  <1> HIDE DEF healthy
  <1>6. /\ snapshot' \in [Editors -> [row : Row, fields : SUBSET Fields, healthy : BOOLEAN]]
        /\ snapshot'[e].row = snapshot[e].row /\ snapshot'[e].healthy = healthy
        /\ snapshot'[e].fields = snapshot[e].fields
    BY <1>1, <1>2, <1>3 DEF RowsOK
  <1>7. /\ DOMAIN editorStage' = Editors /\ DOMAIN alone' = Editors
        /\ editorStage'[e] = "refresh"
        /\ \A x \in Editors \ {e} : /\ editorStage'[x] = editorStage[x]
                                    /\ alone'[x] = alone[x] /\ snapshot'[x] = snapshot[x]
    BY <1>1, <1>2 DEF RowsOK
  <1>8. SnapshotOK(e)'
    BY <1>1, <1>2, <1>6, <1>7 DEF SnapshotOK
  <1>9. AloneOK(e)'
    <2>1. /\ alone[e] = TRUE => snapshot[e].fields = modelFields /\ snapshot[e].row = modelRow
      BY <1>1, <1>2 DEF AloneOK
    <2>2. alone[e] = TRUE => (snapshot'[e].healthy = TRUE <=> StoreHealthy')
      BY <1>3, <1>4, <1>5, <1>6, Zenon
    <2> QED BY <1>1, <1>6, <1>7, <2>1, <2>2 DEF AloneOK
  <1> QED BY <1>1, <1>6, <1>7, <1>8, <1>9, EditorStep

\* What the row is repaired to is what the table was found to be.
LEMMA RefreshStep == ASSUME RegistryIInv, NEW e \in Editors, RefreshHealth(e) PROVE RegistryIInv'
PROOF
  <1> DEFINE found == Availability(snapshot[e].healthy)
  <1>1. /\ editorStage[e] = "refresh" /\ editorStage' = [editorStage EXCEPT ![e] = "install"]
        /\ UNCHANGED <<modelFields, table, made, grants, registered, snapshot>>
    BY DEF RefreshHealth, EditorAt, EditorGoes
  <1>2. RowsOK /\ SnapshotOK(e) /\ AloneOK(e) /\ SettledOK
    BY DEF RegistryIInv
  <1>3. /\ DOMAIN editorStage' = Editors /\ editorStage'[e] = "install"
        /\ \A x \in Editors \ {e} : editorStage'[x] = editorStage[x]
    BY <1>1, <1>2 DEF RowsOK
  <1>4. SnapshotOK(e)'
    BY <1>1, <1>2, <1>3 DEF SnapshotOK
  <1>5. snapshot[e].healthy \in BOOLEAN /\ found \in { "available", "unavailable" }
        /\ snapshot[e].row.id # 0
    BY <1>1, <1>2 DEF RowsOK, SnapshotOK, RowOK, Availability
  <1>6. CASE /\ snapshot[e].row.availability # found /\ modelRow.id = snapshot[e].row.id
             /\ modelRow' = [modelRow EXCEPT !.availability = found] /\ Disturb(e)
    <2>1. /\ modelRow' \in Row /\ modelRow'.id = modelRow.id /\ modelRow'.status = modelRow.status
          /\ modelRow'.availability = found
      BY <1>2, <1>5, <1>6 DEF RowsOK, RowOK, Row
    <2>2. modelRow # Absent /\ modelRow' # Absent /\ RowOK(modelRow')
      BY <1>5, <1>6, <2>1 DEF Absent, RowOK
    <2>3. StoreHealthy' <=> StoreHealthy
      BY <1>1, <2>1, <2>2 DEF StoreHealthy, Healthy
    <2>4. settled' = FALSE /\ alone' = [x \in Editors |-> x = e /\ alone[x]]
      BY <1>6 DEF Disturb
    <2>5. RowsOK'
      BY <1>1, <1>2, <1>3, <2>2, <2>4 DEF RowsOK
    <2>6. SettledOK'
      BY <2>4 DEF SettledOK
    <2>7. AloneOK(e)'
      <3>1. alone'[e] = TRUE => alone[e] = TRUE
        BY <2>4
      <3>2. alone[e] = TRUE => /\ snapshot[e].row = modelRow /\ snapshot[e].fields = modelFields
                               /\ snapshot[e].healthy = TRUE <=> StoreHealthy
        BY <1>1, <1>2 DEF AloneOK
      <3>3. alone[e] = TRUE => modelRow'.availability = Availability(StoreHealthy')
        BY <1>5, <2>1, <2>3, <3>2 DEF Availability
      <3>4. snapshot' = snapshot /\ modelFields' = modelFields
        BY <1>1
      <3> QED BY <1>3, <2>1, <2>3, <3>1, <3>2, <3>3, <3>4, Zenon DEF AloneOK
    <2>8. ASSUME NEW x \in Editors, x # e PROVE SnapshotOK(x)' /\ AloneOK(x)'
      <3>1. SnapshotOK(x) /\ alone'[x] # TRUE
        BY <2>4, <2>8 DEF RegistryIInv
      <3>2. editorStage'[x] = editorStage[x] /\ snapshot' = snapshot
        BY <1>1, <1>3, <2>8
      <3> QED BY <3>1, <3>2, Zenon DEF SnapshotOK, AloneOK
    <2> QED BY <1>4, <2>5, <2>6, <2>7, <2>8 DEF RegistryIInv
  <1>7. CASE /\ ~ (snapshot[e].row.availability # found /\ modelRow.id = snapshot[e].row.id)
             /\ UNCHANGED <<modelRow, alone, settled>>
    <2>1. UNCHANGED <<store, registered, settled>>
      BY <1>1, <1>7 DEF store
    <2>2. StoreHealthy' <=> StoreHealthy
      BY <1>1, <1>7 DEF StoreHealthy, Healthy
    <2>3. AloneOK(e)'
      <3>1. alone[e] = TRUE => /\ snapshot[e].row = modelRow /\ snapshot[e].fields = modelFields
                               /\ snapshot[e].healthy = TRUE <=> StoreHealthy
        BY <1>1, <1>2 DEF AloneOK
      <3>2. alone[e] = TRUE => modelRow.availability = found
        BY <1>7, <3>1
      <3>3. alone[e] = TRUE => modelRow.availability = Availability(StoreHealthy)
        BY <1>5, <3>1, <3>2 DEF Availability
      <3>4. /\ snapshot' = snapshot /\ modelFields' = modelFields /\ modelRow' = modelRow
            /\ alone' = alone
        BY <1>1, <1>7
      <3>5. StoreHealthy' = StoreHealthy
        BY <1>1, <1>7 DEF StoreHealthy, Healthy
      <3> QED BY <1>3, <3>1, <3>3, <3>4, <3>5, Zenon DEF AloneOK
    <2>4. /\ DOMAIN alone' = Editors
          /\ snapshot' \in [Editors -> [row : Row, fields : SUBSET Fields, healthy : BOOLEAN]]
          /\ \A x \in Editors \ {e} : /\ editorStage'[x] = editorStage[x]
                                      /\ alone'[x] = alone[x] /\ snapshot'[x] = snapshot[x]
      BY <1>1, <1>2, <1>3, <1>7 DEF RowsOK
    <2> QED BY <1>3, <1>4, <2>1, <2>3, <2>4, EditorStep
  <1> QED BY <1>6, <1>7, Zenon DEF RefreshHealth

\* The installation shows what was listed: the store, when it was alone.
LEMMA InstallStep == ASSUME RegistryIInv, NEW e \in Editors, Install(e) PROVE RegistryIInv'
PROOF
  <1>1. /\ editorStage[e] = "install" /\ editorStage' = [editorStage EXCEPT ![e] = "idle"]
        /\ registered' = RegisteredAs(snapshot[e].row, snapshot[e].fields, snapshot[e].healthy)
        /\ alone' = [x \in Editors |-> FALSE] /\ settled' = alone[e]
        /\ snapshot' = [snapshot EXCEPT ![e] = NoSnapshot]
        /\ UNCHANGED <<modelRow, modelFields, table, made>>
    BY DEF Install, EditorAt, EditorGoes, store
  <1>2. RowsOK /\ SnapshotOK(e) /\ AloneOK(e)
    BY DEF RegistryIInv
  <1>3. NoSnapshot \in [row : Row, fields : SUBSET Fields, healthy : BOOLEAN]
        /\ RowOK(NoSnapshot.row) /\ NoSnapshot.healthy = FALSE
    BY ModelsAssumption DEF NoSnapshot, Row, Absent, Status, RowOK
  <1>4. RowsOK'
    BY <1>1, <1>2, <1>3 DEF RowsOK
  <1>5. SettledOK'
    <2>1. ASSUME alone[e] = TRUE
          PROVE  /\ snapshot[e].healthy = TRUE <=> StoreHealthy
                 /\ snapshot[e].row.id = modelRow.id /\ snapshot[e].row.status = modelRow.status
                 /\ snapshot[e].fields = modelFields
                 /\ modelRow # Absent => modelRow.availability = Availability(StoreHealthy)
      BY <1>1, <1>2, <2>1 DEF AloneOK
    <2>2. StoreHealthy' = StoreHealthy
      BY <1>1 DEF StoreHealthy, Healthy
    <2>3. snapshot[e].healthy \in BOOLEAN
      BY <1>2 DEF RowsOK
    <2>4. ASSUME alone[e] = TRUE
          PROVE  registered' = RegisteredAs(modelRow, modelFields, StoreHealthy)
      BY <1>1, <2>1, <2>3, <2>4 DEF RegisteredAs
    <2> QED BY <1>1, <2>1, <2>2, <2>4, Zenon DEF SettledOK
  <1>6. ASSUME NEW x \in Editors PROVE SnapshotOK(x)' /\ AloneOK(x)'
    <2>1. alone'[x] # TRUE /\ SnapshotOK(x)
      BY <1>1 DEF RegistryIInv
    <2>2. \/ editorStage'[x] = "idle" /\ snapshot'[x] = NoSnapshot
          \/ editorStage'[x] = editorStage[x] /\ snapshot'[x] = snapshot[x]
      BY <1>1, <1>2 DEF RowsOK
    <2>3. SnapshotOK(x)'
      BY <1>3, <2>1, <2>2 DEF SnapshotOK
    <2> QED BY <2>1, <2>3, Zenon DEF AloneOK
  <1> QED BY <1>4, <1>5, <1>6 DEF RegistryIInv

\* The steps on the way to a rebuild, and one that fails.
LEMMA EditorGoesOn ==
  ASSUME RegistryIInv, NEW e \in Editors, AppendAudit(e) \/ CreateGrant(e) \/ RebuildFails(e)
  PROVE  RegistryIInv'
PROOF
  <1>1. RowsOK /\ SnapshotOK(e) /\ AloneOK(e)
    BY DEF RegistryIInv
  <1>2. CASE AppendAudit(e) \/ CreateGrant(e)
    <2>1. PICK label \in { "idle", "grant", "fields" } :
            /\ editorStage' = [editorStage EXCEPT ![e] = label]
            /\ editorStage[e] \in { "audit", "grant" }
            /\ UNCHANGED <<store, registered, settled, snapshot, alone>>
      BY <1>2 DEF AppendAudit, CreateGrant, EditorGoes, EditorAt
    <2>2. /\ DOMAIN editorStage' = Editors /\ editorStage'[e] = label
          /\ \A x \in Editors \ {e} : editorStage'[x] = editorStage[x]
      BY <1>1, <2>1 DEF RowsOK
    <2>3. SnapshotOK(e)' /\ AloneOK(e)'
      BY <1>1, <2>1, <2>2 DEF SnapshotOK, AloneOK
    <2>4. DOMAIN alone' = Editors
          /\ snapshot' \in [Editors -> [row : Row, fields : SUBSET Fields, healthy : BOOLEAN]]
      BY <1>1, <2>1 DEF RowsOK
    <2> QED BY <2>1, <2>2, <2>3, <2>4, EditorStep
  <1>3. CASE RebuildFails(e)
    <2>1. /\ editorStage' = [editorStage EXCEPT ![e] = "idle"]
          /\ snapshot' = [snapshot EXCEPT ![e] = NoSnapshot]
          /\ alone' = [alone EXCEPT ![e] = FALSE]
          /\ UNCHANGED <<store, registered, settled>>
      BY <1>3 DEF RebuildFails, EditorGoes
    <2>2. NoSnapshot \in [row : Row, fields : SUBSET Fields, healthy : BOOLEAN]
          /\ RowOK(NoSnapshot.row) /\ NoSnapshot.healthy = FALSE
      BY ModelsAssumption DEF NoSnapshot, Row, Absent, Status, RowOK
    <2>3. /\ DOMAIN editorStage' = Editors /\ DOMAIN alone' = Editors
          /\ snapshot' \in [Editors -> [row : Row, fields : SUBSET Fields, healthy : BOOLEAN]]
          /\ editorStage'[e] = "idle" /\ snapshot'[e] = NoSnapshot /\ alone'[e] # TRUE
          /\ \A x \in Editors \ {e} : /\ editorStage'[x] = editorStage[x]
                                      /\ alone'[x] = alone[x] /\ snapshot'[x] = snapshot[x]
      BY <1>1, <2>1, <2>2 DEF RowsOK
    <2>4. SnapshotOK(e)' /\ AloneOK(e)'
      BY <2>2, <2>3 DEF SnapshotOK, AloneOK
    <2> QED BY <2>1, <2>3, <2>4, EditorStep
  <1> QED BY <1>2, <1>3

\* Nothing that the invariant is about changes.
LEMMA RegistryStays ==
  ASSUME RegistryIInv,
         UNCHANGED <<modelRow, modelFields, table, made, registered, editorStage, snapshot, alone,
                     settled>>
  PROVE  RegistryIInv'
PROOF
  <1>1. StoreHealthy' = StoreHealthy
    BY DEF StoreHealthy, Healthy
  <1>2. RowsOK' /\ SettledOK'
    BY <1>1, Zenon DEF RegistryIInv, RowsOK, SettledOK
  <1>3. ASSUME NEW x \in Editors PROVE SnapshotOK(x)' /\ AloneOK(x)'
    <2>1. SnapshotOK(x) /\ AloneOK(x)
      BY DEF RegistryIInv
    <2> QED BY <1>1, <2>1, Zenon DEF SnapshotOK, AloneOK
  <1> QED BY <1>2, <1>3 DEF RegistryIInv

\* A write that meets a missing table or column marks the model.
LEMMA WriteStep == ASSUME RegistryIInv, NEW c \in Callers, WriteModelRecord(c) PROVE RegistryIInv'
PROOF
  <1>1. UNCHANGED <<modelFields, table, made, registered, editorStage, snapshot>>
    BY DEF WriteModelRecord, editing
  <1>2. CASE UNCHANGED <<modelRow, alone, settled>>
    BY <1>1, <1>2, RegistryStays
  <1>3. CASE /\ modelRow' = [modelRow EXCEPT !.availability = "unavailable"]
             /\ alone' = [x \in Editors |-> FALSE] /\ settled' = FALSE
    <2>1. RowsOK
      BY DEF RegistryIInv
    <2>2. RowOK(modelRow')
      BY <1>3, <2>1 DEF RowsOK, RowOK, Row, Absent
    <2>3. RowsOK'
      BY <1>1, <1>3, <2>1, <2>2 DEF RowsOK
    <2>4. ASSUME NEW x \in Editors PROVE SnapshotOK(x)'
      BY <1>1, Zenon DEF RegistryIInv, SnapshotOK
    <2> QED BY <1>3, <2>3, <2>4, Disturbed
  <1> QED BY <1>2, <1>3, Zenon DEF WriteModelRecord

\* Every step keeps what a rebuild has read, and what the registry shows.
LEMMA RegistryStep == ASSUME RegistryIInv, [ModelsNext]_modelVars PROVE RegistryIInv'
PROOF
  <1>0. RowsOK
    BY DEF RegistryIInv
  <1>1. ASSUME NEW e \in Editors, CreateModel(e) PROVE RegistryIInv'
    <2>1. /\ made' = made + 1 /\ made < MaxModels /\ modelFields' = modelFields
          /\ \E status \in Status, b \in { "available", "broken" } :
               modelRow' = [id |-> made', status |-> status, availability |-> b]
          /\ Mutates(e, "audit") \/ Mutates(e, "idle")
      BY <1>1 DEF CreateModel
    <2>2. made' \in 0 .. MaxModels /\ made' # 0
      BY <1>0, <2>1, ModelsAssumption DEF RowsOK
    <2>3. RowOK(modelRow')
      BY <2>1, <2>2 DEF RowOK, Row
    <2> QED BY <1>0, <2>1, <2>2, <2>3, MutationStep DEF RowsOK
  <1>2. ASSUME NEW e \in Editors, UpdateModelStatus(e) PROVE RegistryIInv'
    <2>1. /\ made' = made /\ modelFields' = modelFields /\ modelRow # Absent
          /\ \E status \in Status : modelRow' = [modelRow EXCEPT !.status = status]
          /\ Mutates(e, "audit")
      BY <1>2 DEF UpdateModelStatus
    <2>2. RowOK(modelRow')
      BY <1>0, <2>1 DEF RowsOK, RowOK, Row
    <2> QED BY <1>0, <2>1, <2>2, MutationStep DEF RowsOK
  <1>3. ASSUME NEW e \in Editors, NEW f \in Fields, AddField(e, f) \/ DeleteField(e, f)
        PROVE  RegistryIInv'
    <2>1. /\ made' = made /\ modelFields' \subseteq modelFields \cup {f} /\ modelRow' = modelRow
          /\ Mutates(e, "audit") \/ Mutates(e, "idle")
      BY <1>3 DEF AddField, DeleteField
    <2> QED BY <1>0, <2>1, MutationStep DEF RowsOK
  <1>4. ASSUME NEW e \in Editors, DeleteModel(e) PROVE RegistryIInv'
    <2>1. /\ made' = made /\ modelFields' = {} /\ modelRow' = Absent /\ Mutates(e, "audit")
      BY <1>4 DEF DeleteModel
    <2>2. RowOK(Absent)
      BY ModelsAssumption DEF RowOK, Row, Absent, Status
    <2> QED BY <1>0, <2>1, <2>2, MutationStep DEF RowsOK
  <1>5. ASSUME NEW e \in Editors, AppendAudit(e) \/ CreateGrant(e) \/ RebuildFails(e)
        PROVE  RegistryIInv'
    BY <1>5, EditorGoesOn
  <1>6. ASSUME NEW e \in Editors,
               \/ ListFields(e) \/ ListRows(e) \/ InspectTable(e) \/ RefreshHealth(e) \/ Install(e)
        PROVE  RegistryIInv'
    BY <1>6, ListFieldsStep, ListRowsStep, InspectStep, RefreshStep, InstallStep
  <1>7. ASSUME \/ ChangeGrant
               \/ \E c \in Callers : ResolveModel(c) \/ LoadScopeGrant(c) \/ LoadMetadata(c)
               \/ UNCHANGED modelVars
        PROVE  RegistryIInv'
    <2>1. UNCHANGED <<modelRow, modelFields, table, made, registered, editorStage, snapshot, alone,
                      settled>>
      BY <1>7, Zenon DEF ChangeGrant, ResolveModel, LoadScopeGrant, LoadMetadata, modelVars, store,
         editing
    <2> QED BY <2>1, RegistryStays
  <1>8. ASSUME NEW c \in Callers, WriteModelRecord(c) PROVE RegistryIInv'
    BY <1>8, WriteStep
  <1> QED
    BY <1>1, <1>2, <1>3, <1>4, <1>5, <1>6, <1>7, <1>8, Zenon DEF ModelsNext

\* The inductive invariant holds of every reachable state.
LEMMA RegistryInvariant == ModelsSpec => []RegistryIInv
PROOF
  <1>1. ASSUME ModelsInit PROVE RegistryIInv
    <2>1. ModelsInit
      BY <1>1
    <2>2. RowOK(Absent) /\ Absent \in Row
      BY ModelsAssumption DEF RowOK, Row, Absent, Status
    <2>3. NoSnapshot \in [row : Row, fields : SUBSET Fields, healthy : BOOLEAN]
          /\ NoSnapshot.row = Absent /\ NoSnapshot.healthy = FALSE
      BY <2>2 DEF NoSnapshot
    <2>4. RowsOK
      BY <2>1, <2>2, <2>3, ModelsAssumption DEF ModelsInit, RowsOK
    <2>5. SettledOK
      BY <2>1 DEF ModelsInit, SettledOK, StoreHealthy, RegisteredAs
    <2>6. ASSUME NEW x \in Editors PROVE SnapshotOK(x) /\ AloneOK(x)
      <3>1. /\ snapshot[x] = NoSnapshot /\ alone[x] # TRUE /\ editorStage[x] = "idle"
        BY <2>1 DEF ModelsInit
      <3> QED BY <2>2, <2>3, <3>1 DEF SnapshotOK, AloneOK
    <2> QED BY <2>4, <2>5, <2>6 DEF RegistryIInv
  <1> QED BY <1>1, RegistryStep, PTL DEF ModelsSpec

\* The registry shows the store after a rebuild that was alone, with any
\* number of editors, callers, fields and models.
THEOREM RegistryFollowsStoreHolds == ModelsSpec => []RegistryFollowsStore
PROOF
  <1>1. RegistryIInv => RegistryFollowsStore
    <2> SUFFICES ASSUME RegistryIInv, settled PROVE RegistryFollowsStore
      BY DEF RegistryFollowsStore
    <2>1. SettledOK /\ settled = TRUE
      BY Zenon DEF RegistryIInv
    <2>2. modelRow # Absent => (StoreHealthy <=> Healthy(modelRow, modelFields))
      BY DEF StoreHealthy
    <2> QED BY <2>1, <2>2, Zenon DEF SettledOK, RegistryFollowsStore, StoreHealthy, Availability
  <1> QED BY <1>1, RegistryInvariant, PTL

(* The variables the rebuilds do not read, each with its type: the places   *)
(* of the editors, what the callers hold, the table and the grants.         *)
PlacesTyped ==
  /\ editorStage \in [Editors ->
       { "idle", "audit", "grant", "fields", "rows", "inspect", "refresh", "install" }]
  /\ alone \in [Editors -> BOOLEAN] /\ settled \in BOOLEAN
  /\ changes \in 0 .. MaxChanges

CallsTyped ==
  /\ registered \in Metadata
  /\ callerStage \in [Callers -> { "idle", "authorize", "load", "write" }]
  /\ call \in [Callers -> [granted : 0 .. MaxModels, metadata : Metadata]]
  /\ \A c \in Callers : callerStage[c] = "write" => call[c].metadata.id # 0
  /\ written \subseteq [model : ModelIds, grant : 0 .. MaxModels]

TableTyped ==
  /\ table \in [id : 0 .. MaxModels, columns : SUBSET Fields]
  /\ grants \subseteq ModelIds

\* The places, in every step.
LEMMA PlacesStep == ASSUME PlacesTyped, [ModelsNext]_modelVars PROVE PlacesTyped'
PROOF
  <1> USE DEF PlacesTyped
  <1>1. ASSUME NEW e \in Editors, NEW label \in { "audit", "idle" }, Mutates(e, label)
        PROVE  PlacesTyped'
    <2>1. changes' \in 0 .. MaxChanges
      BY <1>1, ModelsAssumption DEF Mutates
    <2>2. alone' \in [Editors -> BOOLEAN] /\ settled' \in BOOLEAN
      BY <1>1 DEF Mutates, Disturb
    <2> QED BY <1>1, <2>1, <2>2 DEF Mutates, EditorGoes
  <1>2. ASSUME NEW e \in Editors,
               \/ CreateModel(e) \/ UpdateModelStatus(e) \/ DeleteModel(e)
               \/ \E f \in Fields : AddField(e, f) \/ DeleteField(e, f)
        PROVE  PlacesTyped'
    BY <1>1, <1>2, Zenon DEF CreateModel, UpdateModelStatus, DeleteModel, AddField, DeleteField
  <1>3. ASSUME NEW e \in Editors, AppendAudit(e) \/ CreateGrant(e)
        PROVE  PlacesTyped'
    BY <1>3 DEF AppendAudit, CreateGrant, EditorGoes
  <1>4. ASSUME NEW e \in Editors,
               RebuildFails(e) \/ ListFields(e) \/ ListRows(e) \/ InspectTable(e)
        PROVE  PlacesTyped'
    BY <1>4 DEF RebuildFails, ListFields, ListRows, InspectTable, EditorGoes
  <1>5. ASSUME NEW e \in Editors, RefreshHealth(e)
        PROVE  PlacesTyped'
    BY <1>5 DEF RefreshHealth, EditorGoes, Disturb
  <1>6. ASSUME NEW e \in Editors, Install(e)
        PROVE  PlacesTyped'
    BY <1>6 DEF Install, EditorGoes
  <1>7. ASSUME NEW c \in Callers, WriteModelRecord(c)
        PROVE  PlacesTyped'
    BY <1>7 DEF WriteModelRecord, editing
  <1>8. ASSUME UNCHANGED <<editing, alone, settled>>
        PROVE  PlacesTyped'
    BY <1>8 DEF editing
  <1> QED
    BY <1>2, <1>3, <1>4, <1>5, <1>6, <1>7, <1>8, Zenon
       DEF ModelsNext, modelVars, ChangeGrant, ResolveModel, LoadScopeGrant, LoadMetadata

\* The table and the grants, by what the row is.
LEMMA TableStep ==
  ASSUME RowsOK, RowsOK', TableTyped, [ModelsNext]_modelVars
  PROVE  TableTyped'
PROOF
  <1> USE ModelsAssumption DEF TableTyped
  <1>1. modelRow # Absent => modelRow.id \in ModelIds
    BY DEF RowsOK, RowOK, Row, ModelIds
  <1>2. ASSUME NEW e \in Editors, CreateModel(e)
        PROVE  TableTyped'
    <2>1. made' \in 0 .. MaxModels
      BY DEF RowsOK
    <2> QED BY <1>2, <2>1 DEF CreateModel
  <1>3. ASSUME NEW e \in Editors, DeleteModel(e)
        PROVE  TableTyped'
    BY <1>3 DEF DeleteModel, NoTable
  <1>4. ASSUME NEW e \in Editors, NEW f \in Fields, AddField(e, f) \/ DeleteField(e, f)
        PROVE  TableTyped'
    BY <1>4 DEF AddField, DeleteField
  <1>5. ASSUME NEW e \in Editors, CreateGrant(e)
        PROVE  TableTyped'
    BY <1>1, <1>5 DEF CreateGrant, store
  <1>6. CASE ChangeGrant
    BY <1>1, <1>6 DEF ChangeGrant, store
  <1>7. ASSUME UNCHANGED <<table, grants>>
        PROVE  TableTyped'
    BY <1>7
  <1>8. ASSUME NEW e \in Editors,
               \/ UpdateModelStatus(e) \/ AppendAudit(e) \/ RebuildFails(e) \/ ListFields(e)
               \/ ListRows(e) \/ InspectTable(e) \/ RefreshHealth(e) \/ Install(e)
        PROVE  UNCHANGED <<table, grants>>
    BY <1>8 DEF UpdateModelStatus, AppendAudit, RebuildFails, ListFields, ListRows, InspectTable,
       RefreshHealth, Install, store
  <1>9. ASSUME NEW c \in Callers,
               ResolveModel(c) \/ LoadScopeGrant(c) \/ LoadMetadata(c) \/ WriteModelRecord(c)
        PROVE  UNCHANGED <<table, grants>>
    BY <1>9 DEF ResolveModel, LoadScopeGrant, LoadMetadata, WriteModelRecord, store
  <1>10. ASSUME UNCHANGED modelVars
         PROVE  UNCHANGED <<table, grants>>
    BY <1>10 DEF modelVars, store
  <1> QED
    BY <1>2, <1>3, <1>4, <1>5, <1>6, <1>7, <1>8, <1>9, <1>10, Zenon DEF ModelsNext

\* A caller holds what the registry shows, and reaches a write by a grant of
\* a model that is there.
LEMMA CallsStep == ASSUME RowsOK, CallsTyped, [ModelsNext]_modelVars PROVE CallsTyped'
PROOF
  <1> USE ModelsAssumption DEF CallsTyped
  <1>0. Unregistered \in Metadata /\ NoCall \in [granted : 0 .. MaxModels, metadata : Metadata]
    BY DEF Unregistered, Metadata, Status, NoCall
  <1>1. ASSUME NEW e \in Editors, Install(e)
        PROVE  CallsTyped'
    <2>1. snapshot[e].row \in Row /\ snapshot[e].fields \subseteq Fields
      BY DEF RowsOK
    <2>2. registered' \in Metadata
      BY <1>0, <1>1, <2>1 DEF Install, RegisteredAs, Row, Metadata
    <2> QED BY <1>1, <2>2 DEF Install, calling
  <1>2. ASSUME NEW c \in Callers, ResolveModel(c)
        PROVE  CallsTyped'
    BY <1>2 DEF ResolveModel, CallerGoes
  <1>3. ASSUME NEW c \in Callers, LoadScopeGrant(c)
        PROVE  CallsTyped'
    <2> DEFINE granted == IF call[c].metadata.id \in grants THEN call[c].metadata.id ELSE 0
    <2>1. granted \in 0 .. MaxModels
      BY DEF Metadata
    <2>2. call' = [call EXCEPT ![c] = [granted |-> granted, metadata |-> Unregistered]]
      BY <1>3 DEF LoadScopeGrant
    <2> HIDE DEF granted
    <2>3. call' \in [Callers -> [granted : 0 .. MaxModels, metadata : Metadata]]
      BY <1>0, <2>1, <2>2
    <2> QED BY <1>3, <2>2, <2>3 DEF LoadScopeGrant, CallerGoes
  <1>4. ASSUME NEW c \in Callers, LoadMetadata(c)
        PROVE  CallsTyped'
    <2>1. CASE CallerGoes(c, "idle") /\ call' = [call EXCEPT ![c] = NoCall]
      BY <1>0, <1>4, <2>1 DEF LoadMetadata, CallerGoes
    <2>2. CASE /\ Accessible(registered, call[c].granted)
               /\ CallerGoes(c, "write") /\ call' = [call EXCEPT ![c].metadata = registered]
      <3>1. registered.id # 0
        BY <2>2 DEF Accessible
      <3> QED BY <1>4, <2>2, <3>1 DEF LoadMetadata, CallerGoes
    <2> QED BY <1>4, <2>1, <2>2 DEF LoadMetadata
  <1>5. ASSUME NEW c \in Callers, WriteModelRecord(c)
        PROVE  CallsTyped'
    <2>1. call[c].metadata.id \in ModelIds /\ call[c].granted \in 0 .. MaxModels
      BY <1>5 DEF WriteModelRecord, Metadata, ModelIds
    <2>2. written' \subseteq [model : ModelIds, grant : 0 .. MaxModels]
      BY <1>5, <2>1 DEF WriteModelRecord
    <2> QED BY <1>0, <1>5, <2>2 DEF WriteModelRecord, CallerGoes
  <1>6. ASSUME UNCHANGED <<registered, calling>>
        PROVE  CallsTyped'
    BY <1>6 DEF calling
  <1>7. ASSUME NEW e \in Editors,
               \/ CreateModel(e) \/ UpdateModelStatus(e) \/ DeleteModel(e)
               \/ \E f \in Fields : AddField(e, f) \/ DeleteField(e, f)
        PROVE  UNCHANGED <<registered, calling>>
    BY <1>7, Zenon DEF CreateModel, UpdateModelStatus, DeleteModel, AddField, DeleteField, Mutates
  <1>8. ASSUME NEW e \in Editors,
               \/ AppendAudit(e) \/ CreateGrant(e) \/ RebuildFails(e) \/ ListFields(e)
               \/ ListRows(e) \/ InspectTable(e) \/ RefreshHealth(e)
        PROVE  UNCHANGED <<registered, calling>>
    BY <1>8, Zenon DEF AppendAudit, CreateGrant, RebuildFails, ListFields, ListRows, InspectTable,
       RefreshHealth
  <1> QED
    BY <1>1, <1>2, <1>3, <1>4, <1>5, <1>6, <1>7, <1>8, Zenon
       DEF ModelsNext, modelVars, ChangeGrant

\* The type invariant of the models.
LEMMA ModelsTypes == ModelsSpec => []ModelsTypeOK
PROOF
  <1> DEFINE Typed == PlacesTyped /\ CallsTyped /\ TableTyped
  <1>1. ModelsInit => Typed
    <2> SUFFICES ASSUME ModelsInit PROVE Typed
      OBVIOUS
    <2> USE ModelsAssumption DEF ModelsInit
    <2>1. PlacesTyped
      BY DEF PlacesTyped
    <2>2. CallsTyped
      BY DEF CallsTyped, Unregistered, Metadata, Status, NoCall
    <2>3. TableTyped
      BY DEF TableTyped, NoTable
    <2> QED BY <2>1, <2>2, <2>3
  <1>2. RegistryIInv /\ RegistryIInv' /\ Typed /\ [ModelsNext]_modelVars => Typed'
    BY PlacesStep, CallsStep, TableStep DEF RegistryIInv
  <1>3. RegistryIInv /\ Typed => ModelsTypeOK
    BY DEF RegistryIInv, RowsOK, RowOK, PlacesTyped, CallsTyped, TableTyped, ModelsTypeOK
  <1> HIDE DEF Typed
  <1> QED BY <1>1, <1>2, <1>3, RegistryInvariant, PTL DEF ModelsSpec

-----------------------------------------------------------------------------
(* PublicRunRequests                                                        *)

(* What the proof needs of the types.                                       *)
RequestsOK ==
  /\ published \in Seq(BOOLEAN) /\ Len(published) \in 0 .. MaxPublications
  /\ runs \in Seq([apiKey : ApiKeys, idempotency : IdempotencyKeys \cup {NoIdempotencyKey},
                   publication : 1 .. MaxPublications, began : Nat, offered : BOOLEAN])
  /\ requestStage \in [Requests -> { "new", "load", "bind", "find", "create", "ended" }]
  /\ DOMAIN request = Requests
  /\ \A q \in Requests : requestStage[q] # "new" => request[q] \in Request
  /\ answered \in [Requests -> Nat]

(* A request under way began behind the runs there are; one that is about   *)
(* to create a run found none of its key, so none from before it began.     *)
RequestsAreBehind ==
  \A q \in Requests :
    /\ InFlight(q) => request[q].began <= Len(runs)
    /\ requestStage[q] = "create" =>
         \A i \in 1 .. request[q].began : ~ SameRun(runs[i], request[q])
    /\ answered[q] # 0 => requestStage[q] = "ended" /\ answered[q] <= Len(runs)

(* A request under way has seen what is served, and has chosen from that.   *)
ChosenWasServed ==
  \A q \in Requests :
    /\ InFlight(q) => Serving \subseteq request[q].served
    /\ requestStage[q] \in { "bind", "find", "create" } =>
         /\ request[q].publication \in request[q].served
         /\ request[q].publication # 0

PublicIInv ==
  /\ RequestsOK /\ RequestsAreBehind /\ ChosenWasServed
  /\ RunsOnServedVersion /\ RetryCreatesNoRun /\ AnswerIsOwnRun

\* The console changes what is served, and every request under way sees it.
LEMMA ConsoleStep ==
  ASSUME PublicIInv, NEW serving \in SUBSET (1 .. MaxPublications), Watch(serving),
         published' \in Seq(BOOLEAN), Len(published') \in 0 .. MaxPublications,
         Serving' \subseteq Serving \cup serving,
         UNCHANGED <<runs, requestStage, answered>>
  PROVE  PublicIInv'
PROOF
  <1>0. /\ RequestsOK /\ RequestsAreBehind /\ ChosenWasServed
        /\ RunsOnServedVersion /\ RetryCreatesNoRun /\ AnswerIsOwnRun
    BY DEF PublicIInv
  <1>1. /\ DOMAIN request' = Requests
        /\ \A q \in Requests : ~ InFlight(q) => request'[q] = request[q]
        /\ \A q \in Requests : InFlight(q) =>
             /\ request[q] \in Request
             /\ request'[q] = [request[q] EXCEPT !.served = @ \cup serving]
    BY <1>0 DEF Watch, RequestsOK, InFlight
  <1>2. \A q \in Requests : InFlight(q) =>
          /\ request'[q] \in Request
          /\ request'[q].apiKey = request[q].apiKey
          /\ request'[q].idempotency = request[q].idempotency
          /\ request'[q].publication = request[q].publication
          /\ request'[q].began = request[q].began
          /\ request'[q].served = request[q].served \cup serving
    BY <1>1 DEF Request
  <1>3. RequestsOK'
    BY <1>0, <1>1, <1>2 DEF RequestsOK, InFlight
  <1>4. RequestsAreBehind'
    BY <1>0, <1>1, <1>2 DEF RequestsAreBehind, InFlight, SameRun
  <1>5. ChosenWasServed'
    BY <1>0, <1>1, <1>2 DEF ChosenWasServed, InFlight
  <1>6. AnswerIsOwnRun'
    BY <1>0, <1>1, <1>2 DEF AnswerIsOwnRun, RequestsAreBehind, InFlight
  <1>7. RunsOnServedVersion' /\ RetryCreatesNoRun'
    BY <1>0 DEF RunsOnServedVersion, RetryCreatesNoRun, SameKeyed
  <1> QED BY <1>3, <1>4, <1>5, <1>6, <1>7 DEF PublicIInv

\* A request that changes nothing but its own state, and creates no run.
LEMMA RequestStep ==
  ASSUME PublicIInv, NEW q \in Requests,
         requestStage' \in [Requests -> { "new", "load", "bind", "find", "create", "ended" }],
         answered' \in [Requests -> Nat],
         DOMAIN request' = Requests, request'[q] \in Request,
         requestStage'[q] # "new",
         \A x \in Requests \ {q} : /\ request'[x] = request[x]
                                   /\ requestStage'[x] = requestStage[x]
                                   /\ answered'[x] = answered[x],
         requestStage'[q] # "ended" =>
           /\ request'[q].began <= Len(runs)
           /\ Serving \subseteq request'[q].served
           /\ answered'[q] = 0,
         requestStage'[q] = "create" =>
           \A i \in 1 .. request'[q].began : ~ SameRun(runs[i], request'[q]),
         requestStage'[q] \in { "bind", "find", "create" } =>
           request'[q].publication \in request'[q].served /\ request'[q].publication # 0,
         answered'[q] # 0 =>
           /\ answered'[q] \in 1 .. Len(runs)
           /\ runs[answered'[q]].apiKey = request'[q].apiKey
           /\ runs[answered'[q]].idempotency = request'[q].idempotency,
         UNCHANGED <<published, runs>>
  PROVE  PublicIInv'
PROOF
  <1>0. /\ RequestsOK /\ RequestsAreBehind /\ ChosenWasServed
        /\ RunsOnServedVersion /\ RetryCreatesNoRun /\ AnswerIsOwnRun
    BY DEF PublicIInv
  <1>1. RequestsOK'
    BY <1>0 DEF RequestsOK
  <1>2. RequestsAreBehind'
    <2> DEFINE Behind(x) ==
          /\ requestStage'[x] \notin { "new", "ended" } => request'[x].began <= Len(runs)
          /\ requestStage'[x] = "create" =>
               \A i \in 1 .. request'[x].began : ~ SameRun(runs[i], request'[x])
          /\ answered'[x] # 0 => requestStage'[x] = "ended" /\ answered'[x] <= Len(runs)
    <2>1. Behind(q)
      BY <1>0 DEF RequestsOK
    <2>2. ASSUME NEW x \in Requests \ {q} PROVE Behind(x)
      BY <1>0, <2>2 DEF RequestsAreBehind, InFlight
    <2>3. \A x \in Requests : Behind(x)
      BY <2>1, <2>2
    <2> QED BY <2>3 DEF RequestsAreBehind, InFlight, SameRun
  <1>3. ChosenWasServed'
    <2>1. Serving' = Serving
      BY DEF Serving, ActivePublication
    <2> QED BY <1>0, <2>1 DEF ChosenWasServed, InFlight, RequestsOK
  <1>4. AnswerIsOwnRun'
    BY <1>0 DEF AnswerIsOwnRun
  <1>5. RunsOnServedVersion' /\ RetryCreatesNoRun'
    BY <1>0 DEF RunsOnServedVersion, RetryCreatesNoRun, SameKeyed
  <1> QED BY <1>1, <1>2, <1>3, <1>4, <1>5 DEF PublicIInv

\* What a request that ends is left with.
LEMMA RequestEnded ==
  ASSUME RequestsOK, NEW q \in Requests, requestStage[q] # "new", RequestEnds(q)
  PROVE  /\ requestStage' = [requestStage EXCEPT ![q] = "ended"]
         /\ DOMAIN request' = Requests /\ request'[q] \in Request
         /\ request'[q].apiKey = request[q].apiKey
         /\ request'[q].idempotency = request[q].idempotency
         /\ \A x \in Requests \ {q} : request'[x] = request[x]
PROOF
  <1>1. request[q] \in Request /\ DOMAIN request = Requests
    BY DEF RequestsOK
  <1>2. request'[q] = [request[q] EXCEPT !.publication = 0, !.began = 0, !.served = {}]
    BY <1>1 DEF RequestEnds
  <1>3. request'[q] = [apiKey |-> request[q].apiKey, idempotency |-> request[q].idempotency,
                       publication |-> 0, began |-> 0, served |-> {}]
    BY <1>1, <1>2 DEF Request
  <1>4. request[q].apiKey \in ApiKeys
        /\ request[q].idempotency \in IdempotencyKeys \cup {NoIdempotencyKey}
    BY <1>1 DEF Request
  <1>5. /\ request'[q] \in Request
        /\ request'[q].apiKey = request[q].apiKey
        /\ request'[q].idempotency = request[q].idempotency
    BY <1>3, <1>4, PublicAssumption DEF Request
  <1> QED BY <1>1, <1>5 DEF RequestEnds, RequestGoes

\* A run that is created is served, is its request's own, and has no elder of
\* its key from before the request began.
LEMMA CreateStep ==
  ASSUME PublicIInv, NEW q \in Requests, CreateRun(q)
  PROVE  PublicIInv'
PROOF
  <1>0. /\ RequestsOK /\ RequestsAreBehind /\ ChosenWasServed
        /\ RunsOnServedVersion /\ RetryCreatesNoRun /\ AnswerIsOwnRun
    BY DEF PublicIInv
  <1> DEFINE run == [apiKey |-> request[q].apiKey, idempotency |-> request[q].idempotency,
                     publication |-> request[q].publication, began |-> request[q].began,
                     offered |-> request[q].publication \in request[q].served]
             RunSet == [apiKey : ApiKeys, idempotency : IdempotencyKeys \cup {NoIdempotencyKey},
                        publication : 1 .. MaxPublications, began : Nat, offered : BOOLEAN]
  <1>1. /\ requestStage[q] = "create" /\ request[q] \in Request
        /\ runs' = Append(runs, run)
        /\ answered' = [answered EXCEPT ![q] = Len(runs')]
        /\ UNCHANGED <<published, keyState, appEnabled>>
        /\ RequestEnds(q)
    BY <1>0 DEF CreateRun, RequestsOK, consoleState
  <1>2. /\ requestStage' = [requestStage EXCEPT ![q] = "ended"]
        /\ DOMAIN request' = Requests /\ request'[q] \in Request
        /\ request'[q].apiKey = request[q].apiKey
        /\ request'[q].idempotency = request[q].idempotency
        /\ \A x \in Requests \ {q} : request'[x] = request[x]
    BY <1>0, <1>1, RequestEnded
  <1>3. run \in RunSet /\ run.offered = TRUE
    BY <1>0, <1>1, PublicAssumption DEF Request, ChosenWasServed
  <1>4. /\ runs \in Seq(RunSet) /\ runs' \in Seq(RunSet)
        /\ Len(runs') = Len(runs) + 1 /\ runs'[Len(runs) + 1] = run
        /\ \A i \in 1 .. Len(runs) : runs'[i] = runs[i]
        /\ DOMAIN runs = 1 .. Len(runs) /\ DOMAIN runs' = 1 .. Len(runs) + 1
    BY <1>0, <1>1, <1>3 DEF RequestsOK
  <1> HIDE DEF run, RunSet
  <1>5. /\ answered' \in [Requests -> Nat]
        /\ \A x \in Requests \ {q} : /\ answered'[x] = answered[x]
                                      /\ requestStage'[x] = requestStage[x]
        /\ answered'[q] = Len(runs) + 1 /\ requestStage'[q] = "ended"
    BY <1>0, <1>1, <1>2, <1>4 DEF RequestsOK
  <1>6. RequestsOK'
    BY <1>0, <1>1, <1>2, <1>4, <1>5 DEF RequestsOK, RunSet
  <1>7. RequestsAreBehind'
    <2> DEFINE Behind(x) ==
          /\ requestStage'[x] \notin { "new", "ended" } => request'[x].began <= Len(runs')
          /\ requestStage'[x] = "create" =>
               \A i \in 1 .. request'[x].began : ~ SameRun(runs'[i], request'[x])
          /\ answered'[x] # 0 => requestStage'[x] = "ended" /\ answered'[x] <= Len(runs')
    <2>1. Behind(q)
      BY <1>4, <1>5
    <2>2. ASSUME NEW x \in Requests \ {q} PROVE Behind(x)
      <3>1. requestStage[x] \notin { "new", "ended" } =>
              request[x] \in Request /\ request[x].began \in Nat
        BY <1>0 DEF RequestsOK, Request
      <3> QED BY <1>0, <1>2, <1>4, <1>5, <3>1, SMTT(30) DEF RequestsAreBehind, InFlight, RequestsOK
    <2>3. \A x \in Requests : Behind(x)
      BY <2>1, <2>2
    <2> QED BY <2>3 DEF RequestsAreBehind, InFlight, SameRun
  <1>8. ChosenWasServed'
    <2>1. Serving' = Serving
      BY <1>1 DEF Serving, ActivePublication
    <2> QED BY <1>0, <1>2, <1>5, <2>1 DEF ChosenWasServed, InFlight
  <1>9. RunsOnServedVersion'
    BY <1>0, <1>3, <1>4 DEF RunsOnServedVersion
  <1>10. RetryCreatesNoRun'
    <2> SUFFICES ASSUME NEW i \in 1 .. Len(runs) + 1, NEW j \in 1 .. Len(runs) + 1, i < j,
                        runs'[i].idempotency # NoIdempotencyKey,
                        runs'[i].idempotency = runs'[j].idempotency,
                        runs'[i].apiKey = runs'[j].apiKey
                 PROVE  runs'[j].began < i
      BY <1>4 DEF RetryCreatesNoRun, SameKeyed
    <2>1. CASE j \in 1 .. Len(runs)
      BY <1>0, <1>4, <2>1 DEF RetryCreatesNoRun, SameKeyed
    <2>2. CASE j = Len(runs) + 1
      <3>1. i \in 1 .. Len(runs) /\ runs'[i] = runs[i] /\ runs'[j] = run
        BY <1>4, <2>2
      <3>2. SameRun(runs[i], request[q])
        BY <3>1 DEF SameRun, run
      <3>3. i \notin 1 .. request[q].began
        BY <1>0, <1>1, <3>2 DEF RequestsAreBehind
      <3>4. request[q].began \in Nat /\ runs'[j].began = request[q].began
        BY <1>1, <3>1 DEF Request, run
      <3> QED BY <3>1, <3>3, <3>4
    <2> QED BY <1>4, <2>1, <2>2
  <1>11. AnswerIsOwnRun'
    <2>1. ASSUME NEW x \in Requests \ {q}, answered'[x] # 0
          PROVE  /\ runs'[answered'[x]].apiKey = request'[x].apiKey
                 /\ runs'[answered'[x]].idempotency = request'[x].idempotency
      BY <1>0, <1>2, <1>4, <1>5, <2>1 DEF AnswerIsOwnRun, RequestsAreBehind, RequestsOK
    <2>2. /\ runs'[answered'[q]].apiKey = request'[q].apiKey
          /\ runs'[answered'[q]].idempotency = request'[q].idempotency
      BY <1>2, <1>4, <1>5 DEF run
    <2> QED BY <2>1, <2>2 DEF AnswerIsOwnRun
  <1> QED BY <1>6, <1>7, <1>8, <1>9, <1>10, <1>11 DEF PublicIInv

\* A request that ends with a run of its own as its answer.
LEMMA AnsweredStep ==
  ASSUME PublicIInv, NEW q \in Requests, requestStage[q] # "new", RequestEnds(q),
         NEW i \in Nat, answered' = [answered EXCEPT ![q] = i],
         i # 0 => /\ i \in 1 .. Len(runs)
                  /\ runs[i].apiKey = request[q].apiKey
                  /\ runs[i].idempotency = request[q].idempotency,
         UNCHANGED <<published, runs>>
  PROVE  PublicIInv'
PROOF
  <1>1. RequestsOK
    BY DEF PublicIInv
  <1>2. /\ requestStage' = [requestStage EXCEPT ![q] = "ended"]
        /\ DOMAIN request' = Requests /\ request'[q] \in Request
        /\ request'[q].apiKey = request[q].apiKey
        /\ request'[q].idempotency = request[q].idempotency
        /\ \A x \in Requests \ {q} : request'[x] = request[x]
    BY <1>1, RequestEnded
  <1>3. /\ requestStage' \in [Requests -> { "new", "load", "bind", "find", "create", "ended" }]
        /\ requestStage'[q] = "ended"
        /\ answered' \in [Requests -> Nat] /\ answered'[q] = i
        /\ \A x \in Requests \ {q} : /\ requestStage'[x] = requestStage[x]
                                     /\ answered'[x] = answered[x]
    BY <1>1, <1>2 DEF RequestsOK
  <1> QED BY <1>2, <1>3, RequestStep

\* A request that ends without one.
LEMMA EndStep ==
  ASSUME PublicIInv, NEW q \in Requests, requestStage[q] # "new", answered[q] = 0,
         RequestEnds(q), UNCHANGED <<published, runs, answered>>
  PROVE  PublicIInv'
PROOF
  <1>1. answered' = [answered EXCEPT ![q] = 0]
    BY DEF PublicIInv, RequestsOK
  <1>2. 0 \in Nat
    OBVIOUS
  <1> QED BY <1>1, <1>2, AnsweredStep, Zenon

\* Every step of the console and of a request keeps the inductive invariant.
LEMMA PublicStep == ASSUME PublicIInv, [PublicNext]_publicVars PROVE PublicIInv'
PROOF
  <1> USE DEF consoleState
  <1>0. /\ RequestsOK /\ RequestsAreBehind /\ ChosenWasServed
        /\ RunsOnServedVersion /\ RetryCreatesNoRun /\ AnswerIsOwnRun
    BY DEF PublicIInv
  <1>1. ASSUME NEW b \in BOOLEAN, PublishVersion(b)
        PROVE  PublicIInv'
    <2> DEFINE serving == IF b THEN {Len(published) + 1} ELSE {}
    <2>1. /\ Len(published) < MaxPublications
          /\ published' = Append(published, b)
          /\ Watch(serving)
          /\ UNCHANGED <<runs, requestStage, answered>>
      BY <1>1 DEF PublishVersion, ActivePublication
    <2>2. /\ published \in Seq(BOOLEAN) /\ Len(published) \in Nat
          /\ published' \in Seq(BOOLEAN) /\ Len(published') = Len(published) + 1
          /\ published'[Len(published) + 1] = b
      <3>1. published \in Seq(BOOLEAN) /\ Len(published) \in Nat
        BY <1>0 DEF RequestsOK
      <3>2. published' = Append(published, b)
        BY <2>1
      <3> QED BY <3>1, <3>2
    <2>3. serving \in SUBSET (1 .. MaxPublications) /\ Len(published') \in 0 .. MaxPublications
      BY <2>1, <2>2, PublicAssumption
    <2>4. Serving' \subseteq Serving \cup serving
      BY <2>2 DEF Serving, ActivePublication
    <2> HIDE DEF serving
    <2> QED BY <2>1, <2>2, <2>3, <2>4, ConsoleStep
  <1>2. ASSUME NEW b \in BOOLEAN, SetApiEnabled(b)
        PROVE  PublicIInv'
    <2> DEFINE serving == IF b /\ Len(published) # 0 THEN {Len(published)} ELSE {}
    <2>1. /\ published' = IF Len(published) = 0 THEN published
                          ELSE [published EXCEPT ![Len(published)] = b]
          /\ Watch(serving)
          /\ UNCHANGED <<runs, requestStage, answered>>
      BY <1>2 DEF SetApiEnabled, ActivePublication
    <2>2. /\ published \in Seq(BOOLEAN) /\ Len(published) \in 0 .. MaxPublications
          /\ published' \in Seq(BOOLEAN) /\ Len(published') = Len(published)
          /\ Len(published) # 0 => published'[Len(published)] = b
      <3>1. published \in Seq(BOOLEAN) /\ Len(published) \in 0 .. MaxPublications
        BY <1>0 DEF RequestsOK
      <3>2. CASE Len(published) = 0
        BY <2>1, <3>1, <3>2
      <3>3. CASE Len(published) # 0
        <4>1. published' = [published EXCEPT ![Len(published)] = b]
          BY <2>1, <3>3
        <4>2. Len(published) \in 1 .. Len(published) /\ DOMAIN published = 1 .. Len(published)
          BY <3>1, <3>3, PublicAssumption
        <4> QED BY <3>1, <4>1, <4>2
      <3> QED BY <3>1, <3>2, <3>3
    <2>3. serving \in SUBSET (1 .. MaxPublications)
      BY <2>2, PublicAssumption
    <2>4. Serving' \subseteq Serving \cup serving
      BY <2>2 DEF Serving, ActivePublication
    <2> HIDE DEF serving
    <2> QED BY <2>1, <2>2, <2>3, <2>4, ConsoleStep
  <1>3. ASSUME NEW k \in ApiKeys, RevokeKey(k) \/ ExpireKey(k)
        PROVE  PublicIInv'
    <2>1. UNCHANGED <<published, runs, requestStage, request, answered>>
      BY <1>3 DEF RevokeKey, ExpireKey
    <2> QED BY <1>0, <2>1
            DEF PublicIInv, RequestsOK, RequestsAreBehind, ChosenWasServed, Serving,
                ActivePublication, InFlight, SameRun, RunsOnServedVersion,
                RetryCreatesNoRun, SameKeyed, AnswerIsOwnRun
  <1>4. ASSUME NEW q \in Requests, NEW k \in ApiKeys,
               NEW i \in IdempotencyKeys \cup {NoIdempotencyKey}, AuthenticateKey(q, k, i)
        PROVE  PublicIInv'
    <2>1. Serving \subseteq 1 .. MaxPublications /\ Len(runs) \in Nat
      BY <1>0 DEF Serving, ActivePublication, RequestsOK
    <2>2. /\ requestStage[q] = "new" /\ answered[q] = 0
          /\ request' = [request EXCEPT ![q] =
               [apiKey |-> k, idempotency |-> i, publication |-> 0,
                began |-> Len(runs), served |-> Serving]]
          /\ \E stage \in { "load", "ended" } :
               requestStage' = [requestStage EXCEPT ![q] = stage]
          /\ UNCHANGED <<published, runs, answered>>
      BY <1>0, <1>4 DEF AuthenticateKey, RequestGoes, RequestsAreBehind, RequestsOK
    <2>3. request'[q] \in Request /\ request'[q].began = Len(runs)
          /\ request'[q].served = Serving
      BY <1>0, <2>1, <2>2, PublicAssumption DEF Request, RequestsOK
    <2>4. /\ requestStage' \in [Requests -> { "new", "load", "bind", "find", "create", "ended" }]
          /\ requestStage'[q] \in { "load", "ended" }
          /\ answered' \in [Requests -> Nat] /\ answered'[q] = 0
          /\ DOMAIN request' = Requests
          /\ \A x \in Requests \ {q} : /\ request'[x] = request[x]
                                       /\ requestStage'[x] = requestStage[x]
                                       /\ answered'[x] = answered[x]
      BY <1>0, <2>2 DEF RequestsOK
    <2> QED BY <2>1, <2>2, <2>3, <2>4, RequestStep
  <1>5. ASSUME NEW q \in Requests, LoadPublication(q)
        PROVE  PublicIInv'
    <2>0. /\ requestStage[q] = "load" /\ answered[q] = 0
          /\ request[q] \in Request /\ request[q].began <= Len(runs)
          /\ Serving \subseteq request[q].served
          /\ UNCHANGED <<published, runs, answered>>
      BY <1>0, <1>5 DEF LoadPublication, RequestsOK, RequestsAreBehind, ChosenWasServed, InFlight
    <2>1. CASE \E p \in 1 .. ActivePublication : CallablePublication(p)
      <3>1. /\ ActivePublication \in Serving /\ ActivePublication \in 1 .. MaxPublications
        BY <1>0, <2>1, PublicAssumption
        DEF CallablePublication, Serving, ActivePublication, RequestsOK
      <3>2. /\ request' = [request EXCEPT ![q].publication = ActivePublication]
            /\ requestStage' = [requestStage EXCEPT ![q] = "bind"]
        BY <1>5, <2>1 DEF LoadPublication, RequestGoes
      <3>3. /\ DOMAIN request' = Requests
            /\ request'[q] = [request[q] EXCEPT !.publication = ActivePublication]
            /\ requestStage' \in [Requests -> { "new", "load", "bind", "find", "create", "ended" }]
            /\ requestStage'[q] = "bind"
            /\ answered' \in [Requests -> Nat] /\ answered'[q] = 0
            /\ \A x \in Requests \ {q} : /\ request'[x] = request[x]
                                         /\ requestStage'[x] = requestStage[x]
                                         /\ answered'[x] = answered[x]
        BY <1>0, <2>0, <3>2 DEF RequestsOK
      <3>4. /\ request'[q] \in Request /\ request'[q].began = request[q].began
            /\ request'[q].served = request[q].served
            /\ request'[q].publication = ActivePublication
        BY <2>0, <3>1, <3>3, SMTT(30) DEF Request
      <3>5. /\ request'[q].began <= Len(runs) /\ Serving \subseteq request'[q].served
            /\ request'[q].publication \in request'[q].served
            /\ request'[q].publication # 0
        BY <2>0, <3>1, <3>4
      <3> QED BY <2>0, <3>3, <3>4, <3>5, RequestStep
    <2>2. CASE ~ \E p \in 1 .. ActivePublication : CallablePublication(p)
      <3>1. RequestEnds(q)
        BY <1>5, <2>2 DEF LoadPublication
      <3> QED BY <2>0, <3>1, EndStep
    <2> QED BY <2>1, <2>2
  <1>6. ASSUME NEW q \in Requests, BindConversation(q)
        PROVE  PublicIInv'
    <2>0. /\ requestStage[q] = "bind" /\ answered[q] = 0
          /\ request[q] \in Request /\ request[q].began <= Len(runs)
          /\ Serving \subseteq request[q].served
          /\ request[q].publication \in request[q].served /\ request[q].publication # 0
          /\ UNCHANGED <<published, runs, answered>>
      BY <1>0, <1>6 DEF BindConversation, RequestsOK, RequestsAreBehind, ChosenWasServed, InFlight
    <2>1. CASE RequestGoes(q, "find") /\ UNCHANGED request
      <3>1. /\ DOMAIN request' = Requests
            /\ requestStage' \in [Requests -> { "new", "load", "bind", "find", "create", "ended" }]
            /\ requestStage'[q] = "find"
            /\ answered' \in [Requests -> Nat] /\ answered'[q] = 0
            /\ \A x \in Requests \ {q} : requestStage'[x] = requestStage[x]
        BY <1>0, <2>0, <2>1 DEF RequestsOK, RequestGoes
      <3> QED BY <2>0, <2>1, <3>1, RequestStep
    <2>2. CASE RequestEnds(q)
      BY <2>0, <2>2, EndStep
    <2> QED BY <1>6, <2>1, <2>2 DEF BindConversation
  <1>7. ASSUME NEW q \in Requests, FindRun(q)
        PROVE  PublicIInv'
    <2> DEFINE found == { i \in DOMAIN runs : SameRun(runs[i], request[q]) }
    <2>0. /\ requestStage[q] = "find" /\ answered[q] = 0
          /\ request[q] \in Request /\ request[q].began <= Len(runs)
          /\ request[q].began \in Nat
          /\ DOMAIN runs = 1 .. Len(runs) /\ Len(runs) \in Nat
          /\ Serving \subseteq request[q].served
          /\ request[q].publication \in request[q].served /\ request[q].publication # 0
          /\ UNCHANGED <<published, runs>>
      BY <1>0, <1>7
      DEF FindRun, RequestsOK, RequestsAreBehind, ChosenWasServed, InFlight, Request
    <2>1. CASE found = {}
      <3>1. RequestGoes(q, "create") /\ UNCHANGED <<request, answered>>
        BY <1>7, <2>1 DEF FindRun
      <3>2. /\ DOMAIN request' = Requests
            /\ requestStage' \in [Requests -> { "new", "load", "bind", "find", "create", "ended" }]
            /\ requestStage'[q] = "create"
            /\ answered' \in [Requests -> Nat] /\ answered'[q] = 0
            /\ \A x \in Requests \ {q} : requestStage'[x] = requestStage[x]
        BY <1>0, <2>0, <3>1 DEF RequestsOK, RequestGoes
      <3>3. \A i \in 1 .. request[q].began : ~ SameRun(runs[i], request[q])
        <4> SUFFICES ASSUME NEW i \in 1 .. request[q].began PROVE ~ SameRun(runs[i], request[q])
          OBVIOUS
        <4>1. i \in DOMAIN runs
          BY <2>0
        <4> QED BY <2>1, <4>1
      <3> QED BY <2>0, <3>1, <3>2, <3>3, RequestStep
    <2>2. CASE found # {}
      <3>1. PICK i \in found : answered' = [answered EXCEPT ![q] = i] /\ RequestEnds(q)
        BY <1>7, <2>2 DEF FindRun
      <3>2. /\ i \in 1 .. Len(runs) /\ i \in Nat
            /\ runs[i].apiKey = request[q].apiKey
            /\ runs[i].idempotency = request[q].idempotency
        BY <2>0 DEF SameRun
      <3> QED BY <1>0, <2>0, <3>1, <3>2, AnsweredStep
    <2> QED BY <2>1, <2>2
  <1>8. CASE UNCHANGED publicVars
    BY <1>0, <1>8
    DEF publicVars, PublicIInv, RequestsOK, RequestsAreBehind, ChosenWasServed, Serving,
        ActivePublication, InFlight, SameRun, RunsOnServedVersion, RetryCreatesNoRun,
        SameKeyed, AnswerIsOwnRun
  <1> QED BY <1>1, <1>2, <1>3, <1>4, <1>5, <1>6, <1>7, <1>8, CreateStep DEF PublicNext

\* The inductive invariant holds of every reachable state.
THEOREM PublicInvariant == PublicSpec => []PublicIInv
PROOF
  <1>1. PublicInit => PublicIInv
    BY PublicAssumption
    DEF PublicInit, PublicIInv, RequestsOK, RequestsAreBehind, ChosenWasServed, InFlight,
        RunsOnServedVersion, RetryCreatesNoRun, AnswerIsOwnRun
  <1> QED BY <1>1, PublicStep, PTL DEF PublicSpec

\* No run is created of a publication that was not served while its request
\* was under way.
THEOREM RunsOnServedVersionHolds == PublicSpec => []RunsOnServedVersion
PROOF
  <1>1. PublicIInv => RunsOnServedVersion
    BY DEF PublicIInv
  <1> QED BY <1>1, PublicInvariant, PTL

\* A retry that begins when its key's run is there creates no other, however
\* many requests, keys and publications there are.
THEOREM RetryCreatesNoRunHolds == PublicSpec => []RetryCreatesNoRun
PROOF
  <1>1. PublicIInv => RetryCreatesNoRun
    BY DEF PublicIInv
  <1> QED BY <1>1, PublicInvariant, PTL

\* No request is answered the run of another key.
THEOREM AnswerIsOwnRunHolds == PublicSpec => []AnswerIsOwnRun
PROOF
  <1>1. PublicIInv => AnswerIsOwnRun
    BY DEF PublicIInv
  <1> QED BY <1>1, PublicInvariant, PTL

\* The type invariant of the published runs; the console's part of it is the
\* keys and the switch.
LEMMA PublicTypes == PublicSpec => []PublicTypeOK
PROOF
  <1> DEFINE Console == /\ keyState \in [ApiKeys -> { "enabled", "expired", "revoked" }]
                        /\ appEnabled \in BOOLEAN
  <1>1. PublicInit => Console
    BY DEF PublicInit
  <1>2. Console /\ [PublicNext]_publicVars => Console'
    BY DEF PublicNext, publicVars, PublishVersion, SetApiEnabled, RevokeKey, ExpireKey,
           AuthenticateKey, LoadPublication, BindConversation, FindRun, CreateRun, consoleState
  <1>3. PublicIInv /\ Console => PublicTypeOK
    BY DEF PublicIInv, RequestsOK, PublicTypeOK
  <1> HIDE DEF Console
  <1> QED BY <1>1, <1>2, <1>3, PublicInvariant, PTL DEF PublicSpec

-----------------------------------------------------------------------------
(* FlowPublication                                                          *)

(* What the proof needs of the types, and that there is a latest version.   *)
HistoryOK ==
  /\ draft \in Documents
  /\ DOMAIN versions \subseteq VersionNumbers
  /\ \A n \in DOMAIN versions : versions[n] \in FlowVersion
  /\ publications \in Seq(Frozen)
  /\ publishStage \in [Publishers -> { "idle", "freeze", "protect", "insert" }]
  /\ frozen \in [Publishers -> Frozen]
  /\ \E n \in DOMAIN versions : \A m \in DOMAIN versions : m <= n

(* A version that is to be published was there, is protected when it is to  *)
(* be inserted, and holds what was frozen unless it was overtaken.          *)
FrozenStands(p) ==
  /\ publishStage[p] \in { "protect", "insert" } =>
       \E n \in DOMAIN versions : frozen[p].version <= n
  /\ publishStage[p] = "protect" /\ frozen[p].version \in DOMAIN versions =>
       frozen[p].overtaken = TRUE \/ draft = versions[frozen[p].version].document
  /\ publishStage[p] = "insert" /\ frozen[p].version \in DOMAIN versions =>
       /\ \/ versions[frozen[p].version].is_protected = TRUE
          \/ frozen[p].version \in lifted
       /\ \/ frozen[p].overtaken = TRUE
          \/ frozen[p].document = versions[frozen[p].version].document

FrozenIsVersion == \A p \in Publishers : FrozenStands(p)

(* What a publication names is in the history, as PublishedVersionIsKept    *)
(* and PublicationServesItsVersion say.                                     *)
PublicationsStand ==
  \A i \in 1 .. Len(publications) :
    /\ publications[i].version \in DOMAIN versions
    /\ \/ versions[publications[i].version].is_protected = TRUE
       \/ publications[i].version \in lifted
    /\ \/ publications[i].overtaken = TRUE
       \/ publications[i].document = versions[publications[i].version].document

FlowIInv == HistoryOK /\ FrozenIsVersion /\ PublicationsStand

\* The latest version is the greatest.
LEMMA LatestIsGreatest ==
  ASSUME HistoryOK
  PROVE  /\ LatestVersion(versions) \in DOMAIN versions
         /\ \A n \in DOMAIN versions : n <= LatestVersion(versions)
         /\ LatestVersion(versions) \in Nat
PROOF
  <1>1. \E n \in DOMAIN versions : \A m \in DOMAIN versions : m <= n
    BY DEF HistoryOK
  <1>2. /\ LatestVersion(versions) \in DOMAIN versions
        /\ \A n \in DOMAIN versions : n <= LatestVersion(versions)
    BY <1>1, Zenon DEF LatestVersion
  <1> QED BY <1>2, FlowAssumption DEF HistoryOK, VersionNumbers

\* A save adds one version behind all others, and takes none away that is
\* published.
LEMMA SaveAddsOne ==
  ASSUME HistoryOK, MayGrow, NEW document \in Documents, SaveDraft(document)
  PROVE  \E new \in VersionNumbers :
           /\ \A n \in DOMAIN versions : n < new
           /\ new \in DOMAIN versions'
           /\ DOMAIN versions' \subseteq DOMAIN versions \cup {new}
           /\ \A n \in DOMAIN versions' \ {new} : versions'[n] = versions[n]
           /\ versions'[new] = [document |-> document, is_protected |-> FALSE]
           /\ Referenced \cap DOMAIN versions \subseteq DOMAIN versions'
PROOF
  <1> DEFINE new == LatestVersion(versions) + 1
             longer == InsertVersion(versions, document)
             open == { n \in DOMAIN longer : ~ longer[n].is_protected }
  <1>1. /\ new \in VersionNumbers /\ \A n \in DOMAIN versions : n < new
        /\ DOMAIN versions \subseteq Nat /\ new \in Nat
    BY LatestIsGreatest, FlowAssumption DEF MayGrow, VersionNumbers, HistoryOK
  <1>2. /\ DOMAIN longer = DOMAIN versions \cup {new}
        /\ \A n \in DOMAIN versions : longer[n] = versions[n]
        /\ longer[new] = [document |-> document, is_protected |-> FALSE]
    BY <1>1 DEF InsertVersion
  <1>3. /\ versions' = [n \in DOMAIN longer \ Trimmed(longer) |-> longer[n]]
        /\ Trimmed(longer) \cap Referenced = {}
    BY DEF SaveDraft, SaveFits
  <1> HIDE DEF longer
  <1>4. { m \in open : m > new } = {}
    BY <1>1, <1>2
  <1>5. Cardinality({ m \in open : m > new }) = 0
    BY <1>4, FS_EmptySet, Zenon
  <1>6. new \notin Trimmed(longer)
    BY <1>5, FlowAssumption DEF Trimmed
  <1>7. Referenced \cap DOMAIN versions \subseteq DOMAIN versions'
    BY <1>2, <1>3
  <1> HIDE DEF new
  <1>8. /\ new \in DOMAIN versions'
        /\ DOMAIN versions' \subseteq DOMAIN versions \cup {new}
        /\ \A n \in DOMAIN versions' \ {new} : versions'[n] = versions[n]
        /\ versions'[new] = [document |-> document, is_protected |-> FALSE]
    BY <1>1, <1>2, <1>3, <1>6
  <1> QED BY <1>1, <1>7, <1>8

\* What a publisher is left with when somebody else writes the draft.
LEMMA OvertakenKeeps ==
  ASSUME HistoryOK, NEW p \in Publishers
  PROVE  /\ Overtaken(p) \in Frozen
         /\ Overtaken(p).version = frozen[p].version
         /\ Overtaken(p).document = frozen[p].document
         /\ publishStage[p] = "protect" => Overtaken(p).overtaken = TRUE
         /\ publishStage[p] # "protect" => Overtaken(p) = frozen[p]
PROOF
  <1>1. frozen[p] \in Frozen
    BY DEF HistoryOK
  <1> QED BY <1>1 DEF Overtaken, Frozen

\* A save keeps what is published, and what others have frozen.
LEMMA SaveKeeps ==
  ASSUME FlowIInv, MayGrow, NEW document \in Documents, SaveDraft(document)
  PROVE  /\ draft' \in Documents /\ DOMAIN versions' \subseteq VersionNumbers
         /\ \A n \in DOMAIN versions' : versions'[n] \in FlowVersion
         /\ \E n \in DOMAIN versions' : \A m \in DOMAIN versions' : m <= n
         /\ \A n \in DOMAIN versions : \E m \in DOMAIN versions' : n < m
         /\ \A n \in DOMAIN versions' :
              (n \in DOMAIN versions /\ versions'[n] = versions[n])
              \/ \A m \in DOMAIN versions : m < n
         /\ \A i \in 1 .. Len(publications) :
              /\ publications[i].version \in DOMAIN versions'
              /\ versions'[publications[i].version] = versions[publications[i].version]
PROOF
  <1>0. HistoryOK /\ PublicationsStand
    BY DEF FlowIInv
  <1>1. PICK new \in VersionNumbers :
          /\ \A n \in DOMAIN versions : n < new
          /\ new \in DOMAIN versions'
          /\ DOMAIN versions' \subseteq DOMAIN versions \cup {new}
          /\ \A n \in DOMAIN versions' \ {new} : versions'[n] = versions[n]
          /\ versions'[new] = [document |-> document, is_protected |-> FALSE]
          /\ Referenced \cap DOMAIN versions \subseteq DOMAIN versions'
    BY <1>0, SaveAddsOne
  <1>2. DOMAIN versions \subseteq Nat /\ new \in Nat
    BY <1>0 DEF HistoryOK, VersionNumbers
  <1>3. draft' \in Documents
    BY DEF SaveDraft
  <1>4. DOMAIN versions' \subseteq VersionNumbers
    BY <1>0, <1>1 DEF HistoryOK
  <1>5. \A n \in DOMAIN versions' : versions'[n] \in FlowVersion
    <2>1. versions'[new] \in FlowVersion
      BY <1>1 DEF FlowVersion
    <2>2. \A n \in DOMAIN versions : versions[n] \in FlowVersion
      BY <1>0 DEF HistoryOK
    <2> HIDE DEF FlowVersion
    <2> QED BY <1>1, <2>1, <2>2
  <1>6. /\ \E n \in DOMAIN versions' : \A m \in DOMAIN versions' : m <= n
        /\ \A n \in DOMAIN versions : \E m \in DOMAIN versions' : n < m
    BY <1>1, <1>2
  <1>7. \A n \in DOMAIN versions' :
          (n \in DOMAIN versions /\ versions'[n] = versions[n])
          \/ \A m \in DOMAIN versions : m < n
    BY <1>1
  <1>8. ASSUME NEW i \in 1 .. Len(publications)
        PROVE  /\ publications[i].version \in DOMAIN versions'
               /\ versions'[publications[i].version] = versions[publications[i].version]
    <2>1. publications[i].version \in Referenced \cap DOMAIN versions
      BY <1>0 DEF PublicationsStand, Referenced, HistoryOK
    <2>2. publications[i].version # new
      BY <1>1, <1>2, <2>1
    <2> QED BY <1>1, <2>1, <2>2
  <1> QED BY <1>3, <1>4, <1>5, <1>6, <1>7, <1>8

\* Types of what is frozen, in the next state.
LEMMA OvertakeTyped ==
  ASSUME HistoryOK, Overtake
  PROVE  /\ frozen' \in [Publishers -> Frozen]
         /\ \A p \in Publishers : frozen'[p] = Overtaken(p)
PROOF
  <1> HIDE DEF HistoryOK
  <1>1. \A p \in Publishers : Overtaken(p) \in Frozen
    BY OvertakenKeeps
  <1> QED BY <1>1 DEF Overtake

\* What a publisher froze stands when another's save comes in between.
LEMMA SaveStands ==
  ASSUME FlowIInv, MayGrow, NEW document \in Documents, SaveDraft(document), NEW p \in Publishers,
         frozen'[p] = Overtaken(p), publishStage'[p] = publishStage[p], lifted' = lifted
  PROVE  FrozenStands(p)'
PROOF
  <1>1. HistoryOK /\ FrozenStands(p)
    BY DEF FlowIInv, FrozenIsVersion
  <1>2. /\ Overtaken(p).version = frozen[p].version
        /\ Overtaken(p).document = frozen[p].document
        /\ publishStage[p] = "protect" => Overtaken(p).overtaken = TRUE
        /\ publishStage[p] # "protect" => Overtaken(p) = frozen[p]
    BY <1>1, OvertakenKeeps
  <1>3. /\ \A n \in DOMAIN versions : \E m \in DOMAIN versions' : n < m
        /\ \A n \in DOMAIN versions' :
             (n \in DOMAIN versions /\ versions'[n] = versions[n])
             \/ \A m \in DOMAIN versions : m < n
        /\ DOMAIN versions' \subseteq VersionNumbers
    BY SaveKeeps
  <1>4. /\ DOMAIN versions \subseteq Nat /\ DOMAIN versions' \subseteq Nat
        /\ frozen[p].version \in Nat
    BY <1>1, <1>3 DEF HistoryOK, VersionNumbers, Frozen
  <1>5. ASSUME publishStage[p] \in { "protect", "insert" }
        PROVE  /\ \E n \in DOMAIN versions' : frozen[p].version <= n
               /\ frozen[p].version \in DOMAIN versions' =>
                    /\ frozen[p].version \in DOMAIN versions
                    /\ versions'[frozen[p].version] = versions[frozen[p].version]
    <2>1. PICK n \in DOMAIN versions : frozen[p].version <= n
      BY <1>1, <1>5 DEF FrozenStands
    <2>2. PICK m \in DOMAIN versions' : n < m
      BY <1>3
    <2>3. frozen[p].version <= m
      BY <1>4, <2>1, <2>2
    <2>4. ~ (\A k \in DOMAIN versions : k < frozen[p].version)
      BY <1>4, <2>1
    <2> QED BY <1>3, <2>2, <2>3, <2>4
  <1>6. (publishStage[p] \in { "protect", "insert" } =>
           \E n \in DOMAIN versions : frozen[p].version <= n)'
    BY <1>2, <1>5
  <1>7. (publishStage[p] = "protect" /\ frozen[p].version \in DOMAIN versions =>
           frozen[p].overtaken = TRUE \/ draft = versions[frozen[p].version].document)'
    BY <1>2
  <1>8. (publishStage[p] = "insert" /\ frozen[p].version \in DOMAIN versions =>
           /\ \/ versions[frozen[p].version].is_protected = TRUE
              \/ frozen[p].version \in lifted
           /\ \/ frozen[p].overtaken = TRUE
              \/ frozen[p].document = versions[frozen[p].version].document)'
    <2> SUFFICES ASSUME publishStage[p] = "insert", frozen[p].version \in DOMAIN versions'
                 PROVE  /\ \/ versions'[frozen[p].version].is_protected = TRUE
                           \/ frozen[p].version \in lifted
                        /\ \/ frozen[p].overtaken = TRUE
                           \/ frozen[p].document = versions'[frozen[p].version].document
      BY <1>2, Zenon
    <2> QED BY <1>1, <1>5, Zenon DEF FrozenStands
  <1> QED BY <1>6, <1>7, <1>8 DEF FrozenStands

\* The history and the publications after a save.
LEMMA SaveHolds ==
  ASSUME FlowIInv, MayGrow, NEW document \in Documents, SaveDraft(document),
         publications' = publications, lifted' = lifted,
         publishStage' \in [Publishers -> { "idle", "freeze", "protect", "insert" }],
         frozen' \in [Publishers -> Frozen]
  PROVE  HistoryOK' /\ PublicationsStand'
PROOF
  <1>1. HistoryOK /\ PublicationsStand
    BY DEF FlowIInv
  <1>2. HistoryOK'
    <2>1. /\ draft' \in Documents /\ DOMAIN versions' \subseteq VersionNumbers
          /\ \A n \in DOMAIN versions' : versions'[n] \in FlowVersion
          /\ \E n \in DOMAIN versions' : \A m \in DOMAIN versions' : m <= n
      BY SaveKeeps
    <2>2. publications' \in Seq(Frozen)
      BY <1>1 DEF HistoryOK
    <2> QED BY <2>1, <2>2 DEF HistoryOK
  <1>3. \A i \in 1 .. Len(publications) :
          /\ publications[i].version \in DOMAIN versions'
          /\ versions'[publications[i].version] = versions[publications[i].version]
    BY SaveKeeps
  <1>4. PublicationsStand'
    BY <1>1, <1>3, Zenon DEF PublicationsStand
  <1> QED BY <1>2, <1>4

\* An editor's save keeps the invariant.
LEMMA EditorSaves ==
  ASSUME FlowIInv, MayGrow, NEW document \in Documents, SaveDraft(document), Overtake,
         UNCHANGED <<publications, lifted, publishStage>>
  PROVE  FlowIInv'
PROOF
  <1>1. HistoryOK
    BY DEF FlowIInv
  <1>2. /\ frozen' \in [Publishers -> Frozen]
        /\ \A p \in Publishers : frozen'[p] = Overtaken(p)
    BY <1>1, OvertakeTyped
  <1>3. HistoryOK' /\ PublicationsStand'
    BY <1>1, <1>2, SaveHolds DEF HistoryOK
  <1>4. ASSUME NEW p \in Publishers PROVE FrozenStands(p)'
    BY <1>2, SaveStands
  <1> QED BY <1>3, <1>4 DEF FlowIInv, FrozenIsVersion

\* A layout change writes the draft and overtakes who saved theirs.
LEMMA LayoutStep ==
  ASSUME FlowIInv, NEW document \in Documents, SaveLayout(document) PROVE FlowIInv'
PROOF
  <1>1. HistoryOK /\ PublicationsStand
    BY DEF FlowIInv
  <1>2. /\ frozen' \in [Publishers -> Frozen]
        /\ \A p \in Publishers : frozen'[p] = Overtaken(p)
    BY <1>1, OvertakeTyped DEF SaveLayout
  <1>3. HistoryOK' /\ PublicationsStand'
    BY <1>1, <1>2 DEF HistoryOK, PublicationsStand, SaveLayout
  <1>4. ASSUME NEW p \in Publishers PROVE FrozenStands(p)'
    <2>1. /\ Overtaken(p).version = frozen[p].version
          /\ publishStage[p] = "protect" => Overtaken(p).overtaken = TRUE
          /\ publishStage[p] # "protect" => Overtaken(p) = frozen[p]
      BY <1>1, OvertakenKeeps
    <2>2. FrozenStands(p)
      BY DEF FlowIInv, FrozenIsVersion
    <2>3. /\ versions' = versions /\ lifted' = lifted /\ publishStage' = publishStage
          /\ frozen'[p] = Overtaken(p)
      BY <1>2 DEF SaveLayout
    <2>4. CASE publishStage[p] = "protect"
      BY <2>1, <2>2, <2>3, <2>4 DEF FrozenStands
    <2>5. CASE publishStage[p] # "protect"
      BY <2>1, <2>2, <2>3, <2>5, Zenon DEF FrozenStands
    <2> QED BY <2>4, <2>5
  <1> QED BY <1>3, <1>4 DEF FlowIInv, FrozenIsVersion

\* Protection given or taken away leaves the documents, and who takes it away
\* is on record.
LEMMA ProtectionKept ==
  ASSUME FlowIInv, NEW n \in DOMAIN versions, NEW b \in BOOLEAN,
         versions' = [versions EXCEPT ![n].is_protected = b],
         lifted \subseteq lifted', b = TRUE \/ n \in lifted'
  PROVE  /\ DOMAIN versions' = DOMAIN versions
         /\ \A m \in DOMAIN versions :
              /\ versions'[m] \in FlowVersion
              /\ versions'[m].document = versions[m].document
              /\ versions[m].is_protected = TRUE \/ m \in lifted
                   => versions'[m].is_protected = TRUE \/ m \in lifted'
PROOF
  <1>1. DOMAIN versions' = DOMAIN versions
    OBVIOUS
  <1>2. ASSUME NEW m \in DOMAIN versions
        PROVE  /\ versions'[m] \in FlowVersion
               /\ versions'[m].document = versions[m].document
               /\ versions[m].is_protected = TRUE \/ m \in lifted
                    => versions'[m].is_protected = TRUE \/ m \in lifted'
    <2>1. versions[m] \in FlowVersion
      BY DEF FlowIInv, HistoryOK
    <2>2. CASE m = n
      <3>1. versions'[m] = [versions[m] EXCEPT !.is_protected = b]
        BY <2>2
      <3>2. /\ versions'[m] \in FlowVersion
            /\ versions'[m].document = versions[m].document
            /\ versions'[m].is_protected = b
        BY <2>1, <3>1 DEF FlowVersion
      <3> QED BY <2>2, <3>2
    <2>3. CASE m # n
      <3>1. versions'[m] = versions[m]
        BY <2>3
      <3> QED BY <2>1, <3>1
    <2> QED BY <2>2, <2>3
  <1> QED BY <1>1, <1>2

\* With that, what is frozen and what is published stand as before.
LEMMA ProtectionStep ==
  ASSUME FlowIInv, NEW n \in VersionNumbers, NEW b \in BOOLEAN, SetProtection(n, b)
  PROVE  FlowIInv'
PROOF
  <1>1. HistoryOK /\ PublicationsStand
    BY DEF FlowIInv
  <1>2. /\ n \in DOMAIN versions /\ versions' = [versions EXCEPT ![n].is_protected = b]
        /\ lifted \subseteq lifted' /\ (b = TRUE \/ n \in lifted')
        /\ UNCHANGED <<draft, publications, publishStage, frozen>>
    BY DEF SetProtection
  <1>3. /\ DOMAIN versions' = DOMAIN versions
        /\ \A m \in DOMAIN versions :
             /\ versions'[m] \in FlowVersion
             /\ versions'[m].document = versions[m].document
             /\ versions[m].is_protected = TRUE \/ m \in lifted
                  => versions'[m].is_protected = TRUE \/ m \in lifted'
    BY <1>2, ProtectionKept
  <1>4. HistoryOK'
    BY <1>1, <1>2, <1>3, Zenon DEF HistoryOK
  <1>5. PublicationsStand'
    BY <1>1, <1>2, <1>3, Zenon DEF PublicationsStand
  <1>6. ASSUME NEW p \in Publishers PROVE FrozenStands(p)'
    <2>1. FrozenStands(p)
      BY DEF FlowIInv, FrozenIsVersion
    <2> QED BY <1>2, <1>3, <2>1, Zenon DEF FrozenStands
  <1> QED BY <1>4, <1>5, <1>6 DEF FlowIInv, FrozenIsVersion

\* A publisher who is moved, the others staying as they are.
LEMMA OnePublisher ==
  ASSUME FlowIInv, NEW p \in Publishers,
         NEW stage \in { "idle", "freeze", "protect", "insert" }, NEW value \in Frozen,
         publishStage' = [publishStage EXCEPT ![p] = stage], frozen' = [frozen EXCEPT ![p] = value],
         UNCHANGED <<draft, versions, lifted>>, FrozenStands(p)'
  PROVE  FrozenIsVersion' /\ publishStage' \in [Publishers -> { "idle", "freeze", "protect", "insert" }]
         /\ frozen' \in [Publishers -> Frozen]
PROOF
  <1>1. HistoryOK /\ FrozenIsVersion
    BY DEF FlowIInv
  <1>2. publishStage' \in [Publishers -> { "idle", "freeze", "protect", "insert" }]
        /\ frozen' \in [Publishers -> Frozen]
    BY <1>1 DEF HistoryOK
  <1>3. ASSUME NEW q \in Publishers, q # p PROVE FrozenStands(q)'
    <2>1. publishStage \in [Publishers -> { "idle", "freeze", "protect", "insert" }]
          /\ frozen \in [Publishers -> Frozen]
      BY <1>1 DEF HistoryOK
    <2>2. frozen'[q] = frozen[q] /\ publishStage'[q] = publishStage[q]
      <3>1. frozen'[q] = frozen[q]
        BY <1>3, <2>1
      <3>2. publishStage'[q] = publishStage[q]
        BY <1>3, <2>1
      <3> QED BY <3>1, <3>2
    <2>3. versions' = versions /\ draft' = draft /\ lifted' = lifted
      OBVIOUS
    <2>4. FrozenStands(q)
      BY <1>1 DEF FrozenIsVersion
    <2> QED BY <2>2, <2>3, <2>4, Zenon DEF FrozenStands
  <1> QED BY <1>2, <1>3 DEF FrozenIsVersion

\* The draft is read.
LEMMA ReadDraftStep == ASSUME FlowIInv, NEW p \in Publishers, ReadDraft(p) PROVE FlowIInv'
PROOF
  <1>1. HistoryOK /\ PublicationsStand
    BY DEF FlowIInv
  <1> DEFINE value == [frozen[p] EXCEPT !.document = draft]
  <1>2. value \in Frozen /\ frozen' = [frozen EXCEPT ![p] = value]
    BY <1>1 DEF ReadDraft, HistoryOK, Frozen
  <1>3. FrozenStands(p)'
    BY <1>1 DEF FrozenStands, ReadDraft, HistoryOK
  <1> HIDE DEF value
  <1>4. FrozenIsVersion' /\ publishStage' \in [Publishers -> { "idle", "freeze", "protect", "insert" }]
        /\ frozen' \in [Publishers -> Frozen]
    BY <1>2, <1>3, OnePublisher DEF ReadDraft
  <1> QED BY <1>1, <1>4 DEF FlowIInv, HistoryOK, PublicationsStand, ReadDraft

\* The draft is saved as a version, the latest one.
LEMMA FreezeStep == ASSUME FlowIInv, NEW p \in Publishers, FreezeDraft(p) PROVE FlowIInv'
PROOF
  <1>1. HistoryOK /\ PublicationsStand /\ frozen[p] \in Frozen
    BY DEF FlowIInv, HistoryOK
  <1>2. CASE SaveFits(frozen[p].document)
    <2> DEFINE document == frozen[p].document
               value == [frozen[p] EXCEPT !.version = FrozenVersion(versions')]
    <2>1. /\ MayGrow /\ document \in Documents /\ SaveDraft(document)
          /\ publications' = publications /\ lifted' = lifted
          /\ publishStage' = [publishStage EXCEPT ![p] = "protect"]
          /\ frozen' = [q \in Publishers |-> IF q = p THEN value ELSE Overtaken(q)]
      BY <1>1, <1>2 DEF FreezeDraft, Frozen
    <2>2. PICK new \in VersionNumbers :
            /\ \A n \in DOMAIN versions : n < new
            /\ new \in DOMAIN versions'
            /\ DOMAIN versions' \subseteq DOMAIN versions \cup {new}
            /\ versions'[new] = [document |-> document, is_protected |-> FALSE]
      BY <1>1, <2>1, SaveAddsOne
    <2>3. FrozenVersion(versions') = new
      <3>1. DOMAIN versions \subseteq Nat /\ new \in Nat
        BY <1>1 DEF HistoryOK, VersionNumbers
      <3>2. new \in DOMAIN versions' /\ \A m \in DOMAIN versions' : m <= new
        BY <2>2, <3>1
      <3>3. \A k \in DOMAIN versions' : (\A m \in DOMAIN versions' : m <= k) => k = new
        BY <2>2, <3>1
      <3> QED BY <3>2, <3>3, Zenon DEF FrozenVersion, LatestVersion
    <2>4. value \in Frozen /\ value.version = new
      BY <1>1, <2>3 DEF Frozen
    <2>5. \A q \in Publishers : Overtaken(q) \in Frozen
      BY <1>1, OvertakenKeeps
    <2> HIDE DEF value
    <2>6. /\ publishStage' \in [Publishers -> { "idle", "freeze", "protect", "insert" }]
          /\ frozen' \in [Publishers -> Frozen]
          /\ publishStage'[p] = "protect" /\ frozen'[p] = value
      BY <1>1, <2>1, <2>4, <2>5 DEF HistoryOK
    <2>7. HistoryOK' /\ PublicationsStand'
      BY <2>1, <2>6, SaveHolds
    <2>8. FrozenStands(p)'
      <3>1. new \in DOMAIN versions' /\ new <= new
        BY <2>2 DEF VersionNumbers
      <3>2. draft' = versions'[new].document
        BY <2>1, <2>2 DEF SaveDraft
      <3> QED BY <2>4, <2>6, <3>1, <3>2 DEF FrozenStands
    <2>9. ASSUME NEW q \in Publishers, q # p PROVE FrozenStands(q)'
      <3>1. frozen'[q] = Overtaken(q) /\ publishStage'[q] = publishStage[q]
        BY <1>1, <2>1, <2>9 DEF HistoryOK
      <3> HIDE DEF document
      <3> QED BY <2>1, <3>1, SaveStands
    <2> QED BY <2>7, <2>8, <2>9 DEF FlowIInv, FrozenIsVersion
  <1>3. CASE ~ SaveFits(frozen[p].document)
    <2>1. /\ publishStage' = [publishStage EXCEPT ![p] = "idle"]
          /\ frozen' = [frozen EXCEPT ![p] = NothingFrozen]
          /\ UNCHANGED <<draft, versions, publications, lifted>>
      BY <1>3 DEF FreezeDraft
    <2>2. NothingFrozen \in Frozen
      BY FlowAssumption DEF NothingFrozen, Frozen
    <2>3. FrozenStands(p)'
      BY <1>1, <2>1 DEF FrozenStands, HistoryOK
    <2>4. FrozenIsVersion' /\ publishStage' \in [Publishers -> { "idle", "freeze", "protect", "insert" }]
          /\ frozen' \in [Publishers -> Frozen]
      BY <2>1, <2>2, <2>3, OnePublisher
    <2> QED BY <1>1, <2>1, <2>4 DEF FlowIInv, HistoryOK, PublicationsStand
  <1> QED BY <1>2, <1>3

\* The version is protected, and the draft that is returned is what will be
\* served: the version's document unless it was overtaken.
LEMMA ProtectStep == ASSUME FlowIInv, NEW p \in Publishers, ProtectVersion(p) PROVE FlowIInv'
PROOF
  <1>1. HistoryOK /\ PublicationsStand /\ FrozenIsVersion /\ frozen[p] \in Frozen
    BY DEF FlowIInv, HistoryOK
  <1> DEFINE version == frozen[p].version
             value == [frozen[p] EXCEPT !.document = draft]
  <1>2. CASE version \in DOMAIN versions
    <2>1. /\ versions' = [versions EXCEPT ![version].is_protected = TRUE]
          /\ lifted \subseteq lifted' /\ lifted' = lifted
          /\ UNCHANGED <<draft, publications>>
          /\ frozen' = [frozen EXCEPT ![p] = value]
          /\ publishStage' = [publishStage EXCEPT ![p] = "insert"]
          /\ publishStage[p] = "protect"
      BY <1>2 DEF ProtectVersion
    <2>2. /\ value \in Frozen /\ value.version = version /\ value.document = draft
          /\ value.overtaken = frozen[p].overtaken
      BY <1>1 DEF Frozen, HistoryOK
    <2>3. /\ frozen' \in [Publishers -> Frozen] /\ frozen'[p] = value
          /\ publishStage' \in [Publishers -> { "idle", "freeze", "protect", "insert" }]
          /\ publishStage'[p] = "insert"
          /\ \A q \in Publishers \ {p} :
               frozen'[q] = frozen[q] /\ publishStage'[q] = publishStage[q]
      BY <1>1, <2>1, <2>2 DEF HistoryOK
    <2>4. /\ DOMAIN versions' = DOMAIN versions
          /\ \A m \in DOMAIN versions :
               /\ versions'[m] \in FlowVersion
               /\ versions'[m].document = versions[m].document
               /\ versions[m].is_protected = TRUE \/ m \in lifted
                    => versions'[m].is_protected = TRUE \/ m \in lifted'
      BY <1>2, <2>1, ProtectionKept
    <2>5. versions'[version].is_protected = TRUE
      BY <1>1, <1>2, <2>1 DEF HistoryOK, FlowVersion
    <2> HIDE DEF value, version
    <2>6. HistoryOK'
      BY <1>1, <2>1, <2>3, <2>4, Zenon DEF HistoryOK
    <2>7. PublicationsStand'
      BY <1>1, <2>1, <2>4, Zenon DEF PublicationsStand
    <2>8. FrozenStands(p)'
      <3>1. \E n \in DOMAIN versions : version <= n
        BY <1>1, <2>1 DEF FrozenIsVersion, FrozenStands, version
      <3>2. value.overtaken = TRUE \/ draft = versions[version].document
        BY <1>1, <1>2, <2>1, <2>2, Zenon DEF FrozenIsVersion, FrozenStands, version
      <3>3. value.overtaken = TRUE \/ value.document = versions'[version].document
        BY <1>2, <2>2, <2>4, <3>2
      <3> QED BY <2>2, <2>3, <2>4, <2>5, <3>1, <3>3 DEF FrozenStands
    <2>9. ASSUME NEW q \in Publishers, q # p PROVE FrozenStands(q)'
      <3>1. /\ frozen'[q] = frozen[q] /\ publishStage'[q] = publishStage[q]
            /\ draft' = draft
        BY <2>1, <2>3, <2>9
      <3>2. FrozenStands(q)
        BY <1>1 DEF FrozenIsVersion
      <3> QED BY <2>4, <3>1, <3>2, Zenon DEF FrozenStands
    <2> QED BY <2>6, <2>7, <2>8, <2>9 DEF FlowIInv, FrozenIsVersion
  <1>3. CASE version \notin DOMAIN versions
    <2>1. /\ publishStage' = [publishStage EXCEPT ![p] = "idle"]
          /\ frozen' = [frozen EXCEPT ![p] = NothingFrozen]
          /\ UNCHANGED <<draft, versions, publications, lifted>>
      BY <1>3 DEF ProtectVersion
    <2>2. NothingFrozen \in Frozen
      BY FlowAssumption DEF NothingFrozen, Frozen
    <2>3. FrozenStands(p)'
      BY <1>1, <2>1 DEF FrozenStands, HistoryOK
    <2>4. FrozenIsVersion' /\ publishStage' \in [Publishers -> { "idle", "freeze", "protect", "insert" }]
          /\ frozen' \in [Publishers -> Frozen]
      BY <2>1, <2>2, <2>3, OnePublisher
    <2> QED BY <1>1, <2>1, <2>4 DEF FlowIInv, HistoryOK, PublicationsStand
  <1> QED BY <1>2, <1>3

\* A publication is made of what stands.
LEMMA InsertStep == ASSUME FlowIInv, NEW p \in Publishers, InsertPublication(p) PROVE FlowIInv'
PROOF
  <1>1. HistoryOK /\ PublicationsStand /\ FrozenStands(p) /\ frozen[p] \in Frozen
    BY DEF FlowIInv, FrozenIsVersion, HistoryOK
  <1>2. /\ publishStage[p] = "insert"
        /\ publishStage' = [publishStage EXCEPT ![p] = "idle"]
        /\ frozen' = [frozen EXCEPT ![p] = NothingFrozen]
        /\ UNCHANGED <<draft, versions, lifted>>
        /\ \/ frozen[p].version \in DOMAIN versions /\ publications' = Append(publications, frozen[p])
           \/ publications' = publications
    BY DEF InsertPublication
  <1>3. NothingFrozen \in Frozen
    BY FlowAssumption DEF NothingFrozen, Frozen
  <1>4. FrozenStands(p)'
    BY <1>1, <1>2 DEF FrozenStands, HistoryOK
  <1>5. FrozenIsVersion' /\ publishStage' \in [Publishers -> { "idle", "freeze", "protect", "insert" }]
        /\ frozen' \in [Publishers -> Frozen]
    BY <1>2, <1>3, <1>4, OnePublisher
  <1>6. publications' \in Seq(Frozen) /\ PublicationsStand'
    <2>1. CASE publications' = publications
      BY <1>1, <1>2, <2>1 DEF HistoryOK, PublicationsStand
    <2>2. CASE /\ frozen[p].version \in DOMAIN versions
               /\ publications' = Append(publications, frozen[p])
      <3>1. publications \in Seq(Frozen)
        BY <1>1 DEF HistoryOK
      <3>2. /\ publications' \in Seq(Frozen)
            /\ Len(publications') = Len(publications) + 1
            /\ \A i \in 1 .. Len(publications) : publications'[i] = publications[i]
            /\ publications'[Len(publications) + 1] = frozen[p]
        BY <1>1, <2>2, <3>1
      <3>3. /\ \/ versions[frozen[p].version].is_protected = TRUE
               \/ frozen[p].version \in lifted
            /\ \/ frozen[p].overtaken = TRUE
               \/ frozen[p].document = versions[frozen[p].version].document
        BY <1>1, <1>2, <2>2, Zenon DEF FrozenStands
      <3>4. ASSUME NEW i \in 1 .. Len(publications')
            PROVE  i \in 1 .. Len(publications) \/ publications'[i] = frozen[p]
        BY <3>1, <3>2, <3>4
      <3>5. ASSUME NEW i \in 1 .. Len(publications')
            PROVE  /\ publications'[i].version \in DOMAIN versions
                   /\ \/ versions[publications'[i].version].is_protected = TRUE
                      \/ publications'[i].version \in lifted
                   /\ \/ publications'[i].overtaken = TRUE
                      \/ publications'[i].document = versions[publications'[i].version].document
        <4>1. CASE i \in 1 .. Len(publications)
          BY <1>1, <3>2, <4>1, Zenon DEF PublicationsStand
        <4>2. CASE publications'[i] = frozen[p]
          BY <2>2, <3>3, <4>2, Zenon
        <4> QED BY <3>4, <4>1, <4>2
      <3> QED BY <1>2, <3>2, <3>5, Zenon DEF PublicationsStand
    <2> QED BY <1>2, <2>1, <2>2
  <1> QED BY <1>1, <1>2, <1>5, <1>6 DEF FlowIInv, HistoryOK

\* Every step keeps the invariant.
LEMMA FlowStep == ASSUME FlowIInv, [FlowNext]_flowVars PROVE FlowIInv'
PROOF
  <1>1. ASSUME NEW d \in Documents, SaveLayout(d) PROVE FlowIInv'
    BY <1>1, LayoutStep
  <1>2. ASSUME NEW d \in Documents, SaveLogical(d) PROVE FlowIInv'
    BY <1>2, EditorSaves DEF SaveLogical
  <1>3. ASSUME NEW n \in VersionNumbers, RestoreVersion(n) PROVE FlowIInv'
    <2>1. versions[n].document \in Documents
      BY <1>3 DEF RestoreVersion, FlowIInv, HistoryOK, FlowVersion
    <2> QED BY <1>3, <2>1, EditorSaves DEF RestoreVersion
  <1>4. ASSUME NEW n \in VersionNumbers, NEW b \in BOOLEAN, SetProtection(n, b) PROVE FlowIInv'
    BY <1>4, ProtectionStep
  <1>5. ASSUME NEW p \in Publishers, ReadDraft(p) PROVE FlowIInv'
    BY <1>5, ReadDraftStep
  <1>6. ASSUME NEW p \in Publishers, FreezeDraft(p) PROVE FlowIInv'
    BY <1>6, FreezeStep
  <1>7. ASSUME NEW p \in Publishers, ProtectVersion(p) PROVE FlowIInv'
    BY <1>7, ProtectStep
  <1>8. ASSUME NEW p \in Publishers, InsertPublication(p) PROVE FlowIInv'
    BY <1>8, InsertStep
  <1>9. CASE UNCHANGED flowVars
    <2>1. ASSUME NEW p \in Publishers, FrozenStands(p) PROVE FrozenStands(p)'
      BY <1>9, <2>1, Zenon DEF flowVars, FrozenStands
    <2>2. HistoryOK' /\ PublicationsStand'
      BY <1>9 DEF flowVars, FlowIInv, HistoryOK, PublicationsStand
    <2> QED BY <2>1, <2>2 DEF FlowIInv, FrozenIsVersion
  <1> QED
    BY <1>1, <1>2, <1>3, <1>4, <1>5, <1>6, <1>7, <1>8, <1>9, Zenon DEF FlowNext

\* The history keeps what publishers and publications name, with any number
\* of publishers, documents and versions.
THEOREM FlowInvariant == FlowSpec => []FlowIInv
PROOF
  <1>1. ASSUME FlowInit PROVE FlowIInv
    <2>1. FlowInit
      BY <1>1
    <2>2. HistoryOK
      <3>1. /\ DOMAIN versions = {1} /\ draft \in Documents
            /\ versions[1] = [document |-> DefaultDocument, is_protected |-> FALSE]
        BY <2>1, FlowAssumption DEF FlowInit
      <3>2. versions[1] \in FlowVersion
        BY <3>1, FlowAssumption DEF FlowVersion
      <3>3. NothingFrozen \in Frozen
        BY FlowAssumption DEF NothingFrozen, Frozen
      <3>4. publications \in Seq(Frozen)
        BY <2>1 DEF FlowInit
      <3>5. publishStage \in [Publishers -> { "idle", "freeze", "protect", "insert" }]
        BY <2>1 DEF FlowInit
      <3>6. frozen \in [Publishers -> Frozen]
        BY <2>1, <3>3, Zenon DEF FlowInit
      <3>7. \E n \in DOMAIN versions : \A m \in DOMAIN versions : m <= n
        BY <3>1
      <3>8. DOMAIN versions \subseteq VersionNumbers
        BY <3>1, FlowAssumption DEF VersionNumbers
      <3>9. \A n \in DOMAIN versions : versions[n] \in FlowVersion
        BY <3>1, <3>2
      <3> QED BY <3>1, <3>4, <3>5, <3>6, <3>7, <3>8, <3>9, Zenon DEF HistoryOK
    <2>3. FrozenIsVersion
      BY <2>1 DEF FlowInit, FrozenIsVersion, FrozenStands
    <2>4. PublicationsStand
      BY <2>1 DEF FlowInit, PublicationsStand
    <2> QED BY <2>2, <2>3, <2>4 DEF FlowIInv
  <1>2. FlowIInv /\ [FlowNext]_flowVars => FlowIInv'
    BY FlowStep
  <1> QED BY <1>1, <1>2, PTL DEF FlowSpec

\* A published version is never trimmed, and only an editor takes its
\* protection away.
THEOREM PublishedVersionIsKeptHolds == FlowSpec => []PublishedVersionIsKept
PROOF
  <1>1. ASSUME FlowIInv PROVE PublishedVersionIsKept
    <2>1. DOMAIN publications = 1 .. Len(publications) /\ PublicationsStand
      BY <1>1 DEF FlowIInv, HistoryOK
    <2>2. ASSUME NEW n \in Referenced
          PROVE  n \in DOMAIN versions /\ (versions[n].is_protected \/ n \in lifted)
      <3>1. PICK i \in 1 .. Len(publications) : n = publications[i].version
        BY <2>1, Zenon DEF Referenced
      <3> QED BY <2>1, <3>1, Zenon DEF PublicationsStand
    <2> QED BY <2>2, Zenon DEF PublishedVersionIsKept
  <1> QED BY <1>1, FlowInvariant, PTL

\* A publication serves the version it names unless it was overtaken.
THEOREM PublicationServesItsVersionHolds == FlowSpec => []PublicationServesItsVersion
PROOF
  <1>1. ASSUME FlowIInv PROVE PublicationServesItsVersion
    <2>1. DOMAIN publications = 1 .. Len(publications) /\ PublicationsStand
      BY <1>1 DEF FlowIInv, HistoryOK
    <2> QED BY <2>1, Zenon DEF PublicationsStand, PublicationServesItsVersion
  <1> QED BY <1>1, FlowInvariant, PTL

\* The type invariant of the flow.
LEMMA FlowTypes == FlowSpec => []FlowTypeOK
PROOF
  <1> DEFINE Lifted == lifted \subseteq VersionNumbers
  <1>1. FlowInit => Lifted
    BY DEF FlowInit
  <1>2. Lifted /\ [FlowNext]_flowVars => Lifted'
    BY DEF FlowNext, flowVars, SaveLayout, SaveLogical, RestoreVersion, SetProtection, ReadDraft,
           FreezeDraft, ProtectVersion, InsertPublication
  <1>3. FlowIInv /\ Lifted => FlowTypeOK
    BY DEF FlowIInv, HistoryOK, FlowTypeOK
  <1> HIDE DEF Lifted
  <1> QED BY <1>1, <1>2, <1>3, FlowInvariant, PTL DEF FlowSpec

-----------------------------------------------------------------------------
(* DataSources                                                              *)

(* What the rows are, and where the administrators' requests are.           *)
SourceRowsOK ==
  /\ DOMAIN sourceStatus = Sources /\ marker \in [Sources -> Nat]
  /\ secret \in [Sources -> [version : Nat, number : Nat]]
  /\ rotations \in [Sources -> Nat]

AdminsOK ==
  /\ DOMAIN adminStage = Admins /\ DOMAIN aim = Admins
  /\ \A a \in Admins : adminStage[a] # "idle" => aim[a] \in Sources

(* A source that is not made yet has no secret; one that was never rotated  *)
(* names the first version.                                                 *)
FirstSecretOK(s) ==
  /\ sourceStatus[s] = "new" => secret[s] = NoSecret /\ rotations[s] = 0
  /\ Exists(s) /\ rotations[s] = 0 => marker[s] = 1

LatestSecretOK(s) ==
  Exists(s) /\ s \notin overwritten =>
    /\ secret[s].number = rotations[s]
    /\ secret[s] # NoSecret => marker[s] = secret[s].version

SourcesIInv ==
  /\ SourceRowsOK /\ AdminsOK
  /\ \A s \in Sources : FirstSecretOK(s) /\ LatestSecretOK(s)

\* A request stays at the source it began with, or ends.
LEMMA AdminStep ==
  ASSUME AdminsOK, [DataSourceNext]_sourceVars
  PROVE  AdminsOK'
PROOF
  <1>1. ASSUME NEW a \in Admins, NEW s \in Sources, NEW stage, AdminBegins(a, s, stage)
        PROVE  AdminsOK'
    BY <1>1 DEF AdminsOK, AdminBegins
  <1>2. ASSUME NEW a \in Admins, AdminEnds(a) PROVE AdminsOK'
    BY <1>2 DEF AdminsOK, AdminEnds
  <1>3. ASSUME NEW a \in Admins, ReadSecret(a) \/ SetReady(a) PROVE AdminsOK'
    BY <1>3 DEF AdminsOK, ReadSecret, SetReady, AdminGoes
  <1>4. CASE UninstallPlugin
    BY <1>4 DEF AdminsOK, UninstallPlugin, administering
  <1>5. ASSUME UNCHANGED administering PROVE AdminsOK'
    BY <1>5 DEF AdminsOK, administering
  <1>6. ASSUME NEW a \in Admins, NEW s \in Sources,
               CreateSource(a, s) \/ BeginRotation(a, s) \/ BeginValidation(a, s) \/ BeginMapping(a, s)
        PROVE  AdminsOK'
    BY <1>1, <1>6, Zenon DEF CreateSource, BeginRotation, BeginValidation, BeginMapping
  <1>7. ASSUME NEW a \in Admins,
               \/ UpsertSecret(a) \/ RotateSecret(a) \/ UpsertCatalog(a)
               \/ CreateMappedModel(a) \/ AbandonSource(a)
        PROVE  AdminsOK'
    BY <1>2, <1>7, Zenon DEF UpsertSecret, RotateSecret, UpsertCatalog, CreateMappedModel, AbandonSource
  <1>8. CASE UNCHANGED sourceVars \/ \E s \in Sources : DropMappedModels(s)
    BY <1>5, <1>8 DEF sourceVars, DropMappedModels, administering
  <1> QED BY <1>3, <1>4, <1>6, <1>7, <1>8, Zenon DEF DataSourceNext

\* Statements that leave the secret, its versions and the set of sources alone.
LEMMA SecretStays ==
  ASSUME SourcesIInv, AdminsOK',
         UNCHANGED <<marker, secret, rotations, overwritten>>,
         DOMAIN sourceStatus' = Sources,
         \A s \in Sources : Exists(s)' => Exists(s),
         \A s \in Sources : sourceStatus'[s] = "new" => sourceStatus[s] = "new"
  PROVE  SourcesIInv'
PROOF
  <1>1. SourceRowsOK'
    BY DEF SourcesIInv, SourceRowsOK
  <1>2. ASSUME NEW s \in Sources PROVE FirstSecretOK(s)' /\ LatestSecretOK(s)'
    BY Zenon DEF SourcesIInv, FirstSecretOK, LatestSecretOK, NoSecret
  <1> QED BY <1>1, <1>2 DEF SourcesIInv

\* The invariant survives every step of an admin, and the end of a source.
LEMMA SourcesStep == ASSUME SourcesIInv, [DataSourceNext]_sourceVars PROVE SourcesIInv'
PROOF
  <1>1. AdminsOK'
    BY AdminStep, Zenon DEF SourcesIInv
  <1>2. ASSUME NEW a \in Admins, NEW s \in Sources, CreateSource(a, s) PROVE SourcesIInv'
    <2>1. SourceRowsOK'
      BY <1>2 DEF CreateSource, SourcesIInv, SourceRowsOK
    <2>2. ASSUME NEW x \in Sources PROVE FirstSecretOK(x)' /\ LatestSecretOK(x)'
      <3>1. CASE x = s
        BY <1>2, <3>1 DEF CreateSource, SourcesIInv, SourceRowsOK, FirstSecretOK, LatestSecretOK,
           Exists, NoSecret
      <3>2. CASE x # s
        BY <1>2, <3>2 DEF CreateSource, SourcesIInv, SourceRowsOK, FirstSecretOK, LatestSecretOK,
           Exists, NoSecret
      <3> QED BY <3>1, <3>2
    <2> QED BY <1>1, <2>1, <2>2 DEF SourcesIInv
  <1>3. ASSUME NEW a \in Admins, UpsertSecret(a) PROVE SourcesIInv'
    <2> DEFINE s == aim[a]
    <2>1. s \in Sources
      BY <1>3 DEF UpsertSecret, SourcesIInv, AdminsOK
    <2>2. SourceRowsOK'
      BY <1>3 DEF UpsertSecret, SourcesIInv, SourceRowsOK
    <2>3. ASSUME NEW x \in Sources PROVE FirstSecretOK(x)' /\ LatestSecretOK(x)'
      <3>1. CASE x = s
        BY <1>3, <2>1, <3>1 DEF UpsertSecret, SourcesIInv, SourceRowsOK, FirstSecretOK,
           LatestSecretOK, Exists, NoSecret
      <3>2. CASE x # s
        BY <1>3, <2>1, <3>2 DEF UpsertSecret, SourcesIInv, SourceRowsOK, FirstSecretOK,
           LatestSecretOK, Exists, NoSecret
      <3> QED BY <3>1, <3>2
    <2> QED BY <1>1, <2>2, <2>3 DEF SourcesIInv
  <1>4. ASSUME NEW a \in Admins, RotateSecret(a) PROVE SourcesIInv'
    <2> DEFINE s == aim[a]
    <2>1. s \in Sources
      BY <1>4 DEF RotateSecret, SourcesIInv, AdminsOK
    <2>2. SourceRowsOK'
      BY <1>4, <2>1 DEF RotateSecret, SourcesIInv, SourceRowsOK
    <2>3. ASSUME NEW x \in Sources PROVE FirstSecretOK(x)' /\ LatestSecretOK(x)'
      <3>1. CASE x = s
        BY <1>4, <2>1, <3>1 DEF RotateSecret, SourcesIInv, SourceRowsOK, FirstSecretOK,
           LatestSecretOK, Exists, NoSecret
      <3>2. CASE x # s
        BY <1>4, <2>1, <3>2 DEF RotateSecret, SourcesIInv, SourceRowsOK, FirstSecretOK,
           LatestSecretOK, Exists, NoSecret
      <3> QED BY <3>1, <3>2
    <2> QED BY <1>1, <2>2, <2>3 DEF SourcesIInv
  <1>5. CASE UninstallPlugin
    <2>1. SourceRowsOK'
      BY <1>5 DEF UninstallPlugin, SourcesIInv, SourceRowsOK, NoSecret
    <2>2. ASSUME NEW x \in Sources PROVE FirstSecretOK(x)' /\ LatestSecretOK(x)'
      BY <1>5 DEF UninstallPlugin, SourcesIInv, SourceRowsOK, FirstSecretOK, LatestSecretOK,
         Exists, NoSecret
    <2> QED BY <1>1, <2>1, <2>2 DEF SourcesIInv
  <1>6. ASSUME NEW a \in Admins, SetReady(a) PROVE SourcesIInv'
    <2>1. /\ UNCHANGED <<marker, secret, rotations, overwritten>>
          /\ DOMAIN sourceStatus' = Sources
          /\ \A s \in Sources : Exists(s)' => Exists(s)
          /\ \A s \in Sources : sourceStatus'[s] = "new" => sourceStatus[s] = "new"
      BY <1>6 DEF SetReady, SourcesIInv, SourceRowsOK, Exists
    <2> QED BY <1>1, <2>1, SecretStays
  <1>7. ASSUME UNCHANGED <<sourceStatus, marker, secret, rotations, overwritten>> PROVE SourcesIInv'
    <2>1. /\ DOMAIN sourceStatus' = Sources
          /\ \A s \in Sources : Exists(s)' => Exists(s)
      BY <1>7 DEF SourcesIInv, SourceRowsOK, Exists
    <2> QED BY <1>1, <1>7, <2>1, SecretStays
  <1>8. ASSUME NEW a \in Admins, NEW s \in Sources,
               BeginRotation(a, s) \/ BeginValidation(a, s) \/ BeginMapping(a, s)
        PROVE  SourcesIInv'
    BY <1>7, <1>8 DEF BeginRotation, BeginValidation, BeginMapping, sourceRows
  <1>9. ASSUME NEW a \in Admins,
               ReadSecret(a) \/ UpsertCatalog(a) \/ CreateMappedModel(a) \/ AbandonSource(a)
        PROVE  SourcesIInv'
    BY <1>7, <1>9 DEF ReadSecret, UpsertCatalog, CreateMappedModel, AbandonSource, sourceRows
  <1>10. CASE UNCHANGED sourceVars \/ \E s \in Sources : DropMappedModels(s)
    BY <1>7, <1>10 DEF sourceVars, sourceRows, DropMappedModels
  <1> QED BY <1>2, <1>3, <1>4, <1>5, <1>6, <1>8, <1>9, <1>10, Zenon DEF DataSourceNext

\* The inductive invariant holds of every reachable state.
LEMMA SourcesInvariant == DataSourceSpec => []SourcesIInv
PROOF
  <1>1. DataSourceInit => SourcesIInv
    BY DEF DataSourceInit, SourcesIInv, SourceRowsOK, AdminsOK, FirstSecretOK, LatestSecretOK,
       Exists, NoSecret
  <1> QED BY <1>1, SourcesStep, PTL DEF DataSourceSpec

\* The secret of a source is the last it was rotated to, for any number of
\* administrators, sources and rotations.
THEOREM SecretIsTheLatestHolds == DataSourceSpec => []SecretIsTheLatest
PROOF
  <1>1. SourcesIInv => SecretIsTheLatest
    BY Zenon DEF SourcesIInv, LatestSecretOK, SecretIsTheLatest
  <1> QED BY <1>1, SourcesInvariant, PTL

(* The versions of a secret are no more than its rotations and the first.   *)
VersionsBounded == \A s \in Sources : secret[s].version <= rotations[s] + 1

\* The types of the rows, and the bound of the versions they need.
LEMMA SourcesTypedStep ==
  ASSUME AdminsOK, DataSourceTypeOK, VersionsBounded, [DataSourceNext]_sourceVars
  PROVE  DataSourceTypeOK' /\ VersionsBounded'
PROOF
  <1> USE DataSourceAssumption DEF DataSourceTypeOK, VersionsBounded, sourceRows
  <1>0. NoSecret \in Secret /\ NoSecret.version = 0
        /\ NoCatalog \in 0 .. NoCatalog /\ 0 .. MaxRotations \subseteq 0 .. NoCatalog
    BY DEF NoSecret, Secret, NoCatalog
  <1>1. ASSUME NEW a \in Admins, NEW s \in Sources,
               NEW stage \in { "secret", "rotate", "validate", "map" }, AdminBegins(a, s, stage)
        PROVE  /\ adminStage' \in [Admins ->
                    { "idle", "secret", "rotate", "validate", "test", "catalog", "map" }]
               /\ aim' \in [Admins -> Sources \cup {NoSource}]
               /\ secretSeen' \in [Admins -> Secret]
    BY <1>1 DEF AdminBegins
  <1>2. ASSUME NEW a \in Admins, AdminEnds(a)
        PROVE  /\ adminStage' \in [Admins ->
                    { "idle", "secret", "rotate", "validate", "test", "catalog", "map" }]
               /\ aim' \in [Admins -> Sources \cup {NoSource}]
               /\ secretSeen' \in [Admins -> Secret]
    BY <1>0, <1>2 DEF AdminEnds
  <1>3. ASSUME NEW a \in Admins, NEW s \in Sources, CreateSource(a, s)
        PROVE  DataSourceTypeOK' /\ VersionsBounded'
    <2>1. marker' \in [Sources -> 0 .. MaxRotations + 1]
      BY <1>3 DEF CreateSource
    <2>2. AdminBegins(a, s, "secret")
      BY <1>3 DEF CreateSource
    <2> QED BY <1>1, <1>3, <2>1, <2>2 DEF CreateSource
  <1>4. ASSUME NEW a \in Admins, NEW s \in Sources,
               BeginRotation(a, s) \/ BeginValidation(a, s) \/ BeginMapping(a, s)
        PROVE  DataSourceTypeOK' /\ VersionsBounded'
    <2>1. \E stage \in { "rotate", "validate", "map" } : AdminBegins(a, s, stage)
      BY <1>4 DEF BeginRotation, BeginValidation, BeginMapping
    <2>2. UNCHANGED <<sourceStatus, marker, secret, catalog, mapped, rotations, overwritten>>
      BY <1>4 DEF BeginRotation, BeginValidation, BeginMapping
    <2> QED BY <1>1, <2>1, <2>2
  <1>5. ASSUME NEW a \in Admins, UpsertSecret(a)
        PROVE  DataSourceTypeOK' /\ VersionsBounded'
    <2>1. aim[a] \in Sources /\ AdminEnds(a)
      BY <1>5 DEF UpsertSecret, AdminsOK
    <2>2. secret' = [secret EXCEPT ![aim[a]] = [version |-> 1, number |-> 0]]
          /\ overwritten' \subseteq overwritten \cup {aim[a]}
          /\ UNCHANGED <<sourceStatus, marker, catalog, mapped, rotations>>
      BY <1>5 DEF UpsertSecret
    <2>3. secret' \in [Sources -> Secret]
      <3>1. [version |-> 1, number |-> 0] \in Secret
        BY DEF Secret
      <3> QED BY <2>2, <3>1
    <2>4. VersionsBounded'
      BY <2>1, <2>2
    <2> QED BY <1>2, <2>1, <2>2, <2>3, <2>4
  <1>6. ASSUME NEW a \in Admins, RotateSecret(a)
        PROVE  DataSourceTypeOK' /\ VersionsBounded'
    <2> DEFINE s == aim[a]
               version == secret[s].version + 1
    <2>1. s \in Sources /\ AdminEnds(a)
      BY <1>6 DEF RotateSecret, AdminsOK
    <2>2. /\ rotations[s] < MaxRotations
          /\ rotations' = [rotations EXCEPT ![s] = rotations[s] + 1]
          /\ secret' = [secret EXCEPT ![s] = [version |-> version, number |-> rotations[s] + 1]]
          /\ marker' = [marker EXCEPT ![s] = version]
          /\ overwritten' \subseteq overwritten
          /\ UNCHANGED <<sourceStatus, catalog, mapped>>
      BY <1>6 DEF RotateSecret
    <2>3. /\ rotations[s] \in Nat /\ rotations[s] + 1 \in 0 .. MaxRotations
          /\ version \in 0 .. MaxRotations + 1 /\ version <= rotations[s] + 2
      BY <2>1, <2>2 DEF Secret
    <2> HIDE DEF version
    <2>4. [version |-> version, number |-> rotations[s] + 1] \in Secret
      BY <2>3 DEF Secret
    <2>5. /\ secret' \in [Sources -> Secret] /\ marker' \in [Sources -> 0 .. MaxRotations + 1]
          /\ rotations' \in [Sources -> 0 .. MaxRotations]
      BY <2>2, <2>3, <2>4
    <2>6. ASSUME NEW x \in Sources PROVE secret'[x].version <= rotations'[x] + 1
      <3>1. CASE x = s
        BY <2>1, <2>2, <2>3, <3>1
      <3>2. CASE x # s
        BY <2>1, <2>2, <3>2
      <3> QED BY <3>1, <3>2
    <2> QED BY <1>2, <2>1, <2>2, <2>5, <2>6
  <1>7. ASSUME NEW a \in Admins, ReadSecret(a)
        PROVE  DataSourceTypeOK' /\ VersionsBounded'
    <2>1. aim[a] \in Sources
      BY <1>7 DEF ReadSecret, AdminsOK
    <2> QED BY <1>7, <2>1 DEF ReadSecret
  <1>8. ASSUME NEW a \in Admins, SetReady(a)
        PROVE  DataSourceTypeOK' /\ VersionsBounded'
    BY <1>8 DEF SetReady, AdminGoes
  <1>9. ASSUME NEW a \in Admins, UpsertCatalog(a)
        PROVE  DataSourceTypeOK' /\ VersionsBounded'
    <2>1. secretSeen[a].number \in 0 .. NoCatalog
      BY <1>0 DEF Secret
    <2> QED BY <1>2, <1>9, <2>1 DEF UpsertCatalog
  <1>10. ASSUME NEW a \in Admins, CreateMappedModel(a)
         PROVE  DataSourceTypeOK' /\ VersionsBounded'
    <2>1. aim[a] \in Sources
      BY <1>10 DEF CreateMappedModel, AdminsOK
    <2> QED BY <1>2, <1>10, <2>1 DEF CreateMappedModel
  <1>11. ASSUME NEW a \in Admins, AbandonSource(a)
         PROVE  DataSourceTypeOK' /\ VersionsBounded'
    BY <1>2, <1>11 DEF AbandonSource
  <1>12. ASSUME NEW s \in Sources, DropMappedModels(s)
         PROVE  DataSourceTypeOK' /\ VersionsBounded'
    BY <1>12 DEF DropMappedModels, administering
  <1>13. CASE UninstallPlugin
    <2>1. secret' \in [Sources -> Secret] /\ catalog' \in [Sources -> 0 .. NoCatalog]
      BY <1>0, <1>13 DEF UninstallPlugin
    <2>2. VersionsBounded'
      BY <1>0, <1>13 DEF UninstallPlugin
    <2> QED BY <1>13, <2>1, <2>2 DEF UninstallPlugin, administering
  <1>14. CASE UNCHANGED sourceVars
    BY <1>14 DEF sourceVars, administering
  <1> QED
    BY <1>3, <1>4, <1>5, <1>6, <1>7, <1>8, <1>9, <1>10, <1>11, <1>12, <1>13, <1>14
       DEF DataSourceNext

\* The type invariant of the data sources.
LEMMA SourcesTypes == DataSourceSpec => []DataSourceTypeOK
PROOF
  <1>1. DataSourceInit => DataSourceTypeOK /\ VersionsBounded
    BY DataSourceAssumption
       DEF DataSourceInit, DataSourceTypeOK, VersionsBounded, NoSecret, Secret, NoCatalog
  <1>2. SourcesIInv /\ DataSourceTypeOK /\ VersionsBounded /\ [DataSourceNext]_sourceVars
        => DataSourceTypeOK' /\ VersionsBounded'
    BY SourcesTypedStep DEF SourcesIInv
  <1> QED BY <1>1, <1>2, SourcesInvariant, PTL DEF DataSourceSpec

-----------------------------------------------------------------------------
(* Sessions                                                                 *)

(* A visit is of a session that has been issued, as is whatever has a       *)
(* record.                                                                  *)
VisitsAreOfSessions ==
  /\ \A l \in Logins : sessionStore[l] # 0 => loginStage[l] = "ended"
  /\ \A v \in Visits : visitStep[v] # "idle" =>
       visitOf[v] \in Logins /\ loginStage[visitOf[v]] = "ended"

(* No copy of the user's session version, in a login, a record or a visit,  *)
(* is ahead of the row; those of a revoked session are behind it.           *)
CopiesAreBehind ==
  /\ \A l \in Logins :
       loginVersion[l] <= user.version /\ sessionStore[l] <= user.version
  /\ \A v \in Visits : visitSaw[v] <= user.version
  /\ \A l \in revoked :
       /\ loginStage[l] # "new"
       /\ loginVersion[l] < user.version /\ sessionStore[l] < user.version
       /\ \A v \in Visits : visitOf[v] = l => visitSaw[v] < user.version

(* A session that is logged out has no record and no switch under way.      *)
OutForGood ==
  \A l \in loggedOut :
    /\ sessionStore[l] = 0 /\ loginStage[l] = "ended"
    /\ \A v \in Visits : visitStep[v] = "put" => visitOf[v] # l

SessionsIInv == SessionsTypeOK /\ VisitsAreOfSessions /\ CopiesAreBehind /\ OutForGood

-----------------------------------------------------------------------------
\* No step of a login, a visit, an administrator or the clock leaves the types.
LEMMA SessionsTypeStep ==
  ASSUME SessionsTypeOK, VisitsAreOfSessions, [SessionsNext]_sessionVars
  PROVE  SessionsTypeOK'
PROOF
  <1> USE SessionsAssumption
      DEF SessionsTypeOK, Versions, logins, visits, PutRecord, DiscardRecord,
          VisitAt, VisitGoes, VisitEnds, VisitsAreOfSessions
  <1>1. ASSUME NEW l \in Logins, TimeOut(l)
        PROVE  SessionsTypeOK'
    BY <1>1 DEF TimeOut
  <1>2. ASSUME NEW l \in Logins, AuthenticateUser(l)
        PROVE  SessionsTypeOK'
    BY <1>2 DEF AuthenticateUser
  <1>3. ASSUME NEW l \in Logins, IssueSession(l)
        PROVE  SessionsTypeOK'
    BY <1>3 DEF IssueSession, IssuedVersion
  <1>4. CASE DisableMember
    BY <1>4 DEF DisableMember, RaiseVersion
  <1>5. CASE ResetMemberPassword
    BY <1>5 DEF ResetMemberPassword, RaiseVersion
  <1>6. ASSUME NEW v \in Visits, NEW l \in Logins, GetSession(v, l)
        PROVE  SessionsTypeOK'
    BY <1>6 DEF GetSession
  <1>7. ASSUME NEW v \in Visits, FindUser(v)
        PROVE  SessionsTypeOK'
    BY <1>7 DEF FindUser
  <1>8. ASSUME NEW v \in Visits, DiscardSession(v)
        PROVE  SessionsTypeOK'
    BY <1>8 DEF DiscardSession
  <1>9. ASSUME NEW v \in Visits, OtherVisit(v)
        PROVE  SessionsTypeOK'
    BY <1>9 DEF OtherVisit
  <1>10. ASSUME NEW v \in Visits, Logout(v)
        PROVE  SessionsTypeOK'
    BY <1>10 DEF Logout, EndSession
  <1>11. ASSUME NEW v \in Visits, RevokeAll(v)
        PROVE  SessionsTypeOK'
    BY <1>11 DEF RevokeAll, RaiseVersion
  <1>12. ASSUME NEW v \in Visits, DeleteSession(v)
        PROVE  SessionsTypeOK'
    BY <1>12 DEF DeleteSession, EndSession
  <1>13. ASSUME NEW v \in Visits, VerifyOldPassword(v)
        PROVE  SessionsTypeOK'
    BY <1>13 DEF VerifyOldPassword
  <1>14. ASSUME NEW v \in Visits, ChangePassword(v)
        PROVE  SessionsTypeOK'
    BY <1>14 DEF ChangePassword, RaiseVersion
  <1>15. ASSUME NEW v \in Visits, ReadForSwitch(v)
        PROVE  SessionsTypeOK'
    BY <1>15 DEF ReadForSwitch, ReadSwitched
  <1>16. ASSUME NEW v \in Visits, PutSwitched(v)
        PROVE  SessionsTypeOK'
    BY <1>16 DEF PutSwitched
  <1>17. CASE UNCHANGED sessionVars
    BY <1>17 DEF sessionVars, logins, visits
  <1> QED BY <1>1, <1>2, <1>3, <1>4, <1>5, <1>6, <1>7, <1>8, <1>9, <1>10, <1>11,
             <1>12, <1>13, <1>14, <1>15, <1>16, <1>17 DEF SessionsNext

\* A record is put only for a session that has been issued.
LEMMA VisitsStep ==
  ASSUME SessionsTypeOK, VisitsAreOfSessions, [SessionsNext]_sessionVars
  PROVE  VisitsAreOfSessions'
PROOF
  <1> USE SessionsAssumption
      DEF SessionsTypeOK, Versions, logins, visits, PutRecord, DiscardRecord,
          VisitAt, VisitGoes, VisitEnds, VisitsAreOfSessions
  <1>1. ASSUME NEW l \in Logins, TimeOut(l)
        PROVE  VisitsAreOfSessions'
    BY <1>1 DEF TimeOut
  <1>2. ASSUME NEW l \in Logins, AuthenticateUser(l)
        PROVE  VisitsAreOfSessions'
    BY <1>2 DEF AuthenticateUser
  <1>3. ASSUME NEW l \in Logins, IssueSession(l)
        PROVE  VisitsAreOfSessions'
    BY <1>3 DEF IssueSession, IssuedVersion
  <1>4. CASE DisableMember
    BY <1>4 DEF DisableMember, RaiseVersion
  <1>5. CASE ResetMemberPassword
    BY <1>5 DEF ResetMemberPassword, RaiseVersion
  <1>6. ASSUME NEW v \in Visits, NEW l \in Logins, GetSession(v, l)
        PROVE  VisitsAreOfSessions'
    BY <1>6 DEF GetSession
  <1>7. ASSUME NEW v \in Visits, FindUser(v)
        PROVE  VisitsAreOfSessions'
    BY <1>7 DEF FindUser
  <1>8. ASSUME NEW v \in Visits, DiscardSession(v)
        PROVE  VisitsAreOfSessions'
    BY <1>8 DEF DiscardSession
  <1>9. ASSUME NEW v \in Visits, OtherVisit(v)
        PROVE  VisitsAreOfSessions'
    BY <1>9 DEF OtherVisit
  <1>10. ASSUME NEW v \in Visits, Logout(v)
        PROVE  VisitsAreOfSessions'
    BY <1>10 DEF Logout, EndSession
  <1>11. ASSUME NEW v \in Visits, RevokeAll(v)
        PROVE  VisitsAreOfSessions'
    BY <1>11 DEF RevokeAll, RaiseVersion
  <1>12. ASSUME NEW v \in Visits, DeleteSession(v)
        PROVE  VisitsAreOfSessions'
    BY <1>12 DEF DeleteSession, EndSession
  <1>13. ASSUME NEW v \in Visits, VerifyOldPassword(v)
        PROVE  VisitsAreOfSessions'
    BY <1>13 DEF VerifyOldPassword
  <1>14. ASSUME NEW v \in Visits, ChangePassword(v)
        PROVE  VisitsAreOfSessions'
    BY <1>14 DEF ChangePassword, RaiseVersion
  <1>15. ASSUME NEW v \in Visits, ReadForSwitch(v)
        PROVE  VisitsAreOfSessions'
    BY <1>15 DEF ReadForSwitch, ReadSwitched
  <1>16. ASSUME NEW v \in Visits, PutSwitched(v)
        PROVE  VisitsAreOfSessions'
    BY <1>16 DEF PutSwitched
  <1>17. CASE UNCHANGED sessionVars
    BY <1>17 DEF sessionVars, logins, visits
  <1> QED BY <1>1, <1>2, <1>3, <1>4, <1>5, <1>6, <1>7, <1>8, <1>9, <1>10, <1>11,
             <1>12, <1>13, <1>14, <1>15, <1>16, <1>17 DEF SessionsNext

\* A version is copied from the row or from another copy, and a revocation
\* raises the row above all of them.
LEMMA CopiesStep ==
  ASSUME SessionsTypeOK, VisitsAreOfSessions, CopiesAreBehind, [SessionsNext]_sessionVars
  PROVE  CopiesAreBehind'
PROOF
  <1> USE SessionsAssumption
      DEF SessionsTypeOK, Versions, logins, visits, PutRecord, DiscardRecord,
          VisitAt, VisitGoes, VisitEnds, VisitsAreOfSessions, CopiesAreBehind
  <1>1. ASSUME NEW l \in Logins, TimeOut(l)
        PROVE  CopiesAreBehind'
    BY <1>1 DEF TimeOut
  <1>2. ASSUME NEW l \in Logins, AuthenticateUser(l)
        PROVE  CopiesAreBehind'
    BY <1>2 DEF AuthenticateUser
  <1>3. ASSUME NEW l \in Logins, IssueSession(l)
        PROVE  CopiesAreBehind'
    BY <1>3 DEF IssueSession, IssuedVersion
  <1>4. CASE DisableMember
    BY <1>4 DEF DisableMember, RaiseVersion
  <1>5. CASE ResetMemberPassword
    BY <1>5 DEF ResetMemberPassword, RaiseVersion
  <1>6. ASSUME NEW v \in Visits, NEW l \in Logins, GetSession(v, l)
        PROVE  CopiesAreBehind'
    BY <1>6 DEF GetSession
  <1>7. ASSUME NEW v \in Visits, FindUser(v)
        PROVE  CopiesAreBehind'
    BY <1>7 DEF FindUser
  <1>8. ASSUME NEW v \in Visits, DiscardSession(v)
        PROVE  CopiesAreBehind'
    BY <1>8 DEF DiscardSession
  <1>9. ASSUME NEW v \in Visits, OtherVisit(v)
        PROVE  CopiesAreBehind'
    BY <1>9 DEF OtherVisit
  <1>10. ASSUME NEW v \in Visits, Logout(v)
        PROVE  CopiesAreBehind'
    BY <1>10 DEF Logout, EndSession
  <1>11. ASSUME NEW v \in Visits, RevokeAll(v)
        PROVE  CopiesAreBehind'
    BY <1>11 DEF RevokeAll, RaiseVersion
  <1>12. ASSUME NEW v \in Visits, DeleteSession(v)
        PROVE  CopiesAreBehind'
    BY <1>12 DEF DeleteSession, EndSession
  <1>13. ASSUME NEW v \in Visits, VerifyOldPassword(v)
        PROVE  CopiesAreBehind'
    BY <1>13 DEF VerifyOldPassword
  <1>14. ASSUME NEW v \in Visits, ChangePassword(v)
        PROVE  CopiesAreBehind'
    BY <1>14 DEF ChangePassword, RaiseVersion
  <1>15. ASSUME NEW v \in Visits, ReadForSwitch(v)
        PROVE  CopiesAreBehind'
    BY <1>15 DEF ReadForSwitch, ReadSwitched
  <1>16. ASSUME NEW v \in Visits, PutSwitched(v)
        PROVE  CopiesAreBehind'
    BY <1>16 DEF PutSwitched
  <1>17. CASE UNCHANGED sessionVars
    BY <1>17 DEF sessionVars, logins, visits
  <1> QED BY <1>1, <1>2, <1>3, <1>4, <1>5, <1>6, <1>7, <1>8, <1>9, <1>10, <1>11,
             <1>12, <1>13, <1>14, <1>15, <1>16, <1>17 DEF SessionsNext

\* What was logged out stays out unless a switch had read it before.
LEMMA OutStep ==
  ASSUME SessionsTypeOK, VisitsAreOfSessions, OutForGood, [SessionsNext]_sessionVars
  PROVE  OutForGood'
PROOF
  <1> USE SessionsAssumption
      DEF SessionsTypeOK, Versions, logins, visits, PutRecord, DiscardRecord,
          VisitAt, VisitGoes, VisitEnds, VisitsAreOfSessions, OutForGood
  <1>1. ASSUME NEW l \in Logins, TimeOut(l)
        PROVE  OutForGood'
    BY <1>1 DEF TimeOut
  <1>2. ASSUME NEW l \in Logins, AuthenticateUser(l)
        PROVE  OutForGood'
    BY <1>2 DEF AuthenticateUser
  <1>3. ASSUME NEW l \in Logins, IssueSession(l)
        PROVE  OutForGood'
    BY <1>3 DEF IssueSession, IssuedVersion
  <1>4. CASE DisableMember
    BY <1>4 DEF DisableMember, RaiseVersion
  <1>5. CASE ResetMemberPassword
    BY <1>5 DEF ResetMemberPassword, RaiseVersion
  <1>6. ASSUME NEW v \in Visits, NEW l \in Logins, GetSession(v, l)
        PROVE  OutForGood'
    BY <1>6 DEF GetSession
  <1>7. ASSUME NEW v \in Visits, FindUser(v)
        PROVE  OutForGood'
    BY <1>7 DEF FindUser
  <1>8. ASSUME NEW v \in Visits, DiscardSession(v)
        PROVE  OutForGood'
    BY <1>8 DEF DiscardSession
  <1>9. ASSUME NEW v \in Visits, OtherVisit(v)
        PROVE  OutForGood'
    BY <1>9 DEF OtherVisit
  <1>10. ASSUME NEW v \in Visits, Logout(v)
        PROVE  OutForGood'
    BY <1>10 DEF Logout, EndSession
  <1>11. ASSUME NEW v \in Visits, RevokeAll(v)
        PROVE  OutForGood'
    BY <1>11 DEF RevokeAll, RaiseVersion
  <1>12. ASSUME NEW v \in Visits, DeleteSession(v)
        PROVE  OutForGood'
    BY <1>12 DEF DeleteSession, EndSession
  <1>13. ASSUME NEW v \in Visits, VerifyOldPassword(v)
        PROVE  OutForGood'
    BY <1>13 DEF VerifyOldPassword
  <1>14. ASSUME NEW v \in Visits, ChangePassword(v)
        PROVE  OutForGood'
    BY <1>14 DEF ChangePassword, RaiseVersion
  <1>15. ASSUME NEW v \in Visits, ReadForSwitch(v)
        PROVE  OutForGood'
    BY <1>15 DEF ReadForSwitch, ReadSwitched
  <1>16. ASSUME NEW v \in Visits, PutSwitched(v)
        PROVE  OutForGood'
    BY <1>16 DEF PutSwitched
  <1>17. CASE UNCHANGED sessionVars
    BY <1>17 DEF sessionVars, logins, visits
  <1> QED BY <1>1, <1>2, <1>3, <1>4, <1>5, <1>6, <1>7, <1>8, <1>9, <1>10, <1>11,
             <1>12, <1>13, <1>14, <1>15, <1>16, <1>17 DEF SessionsNext

-----------------------------------------------------------------------------
\* The inductive invariant holds of every reachable state.
THEOREM SessionsInvariant == SessionsSpec => []SessionsIInv
PROOF
  <1>1. SessionsInit => SessionsIInv
    BY SessionsAssumption
    DEF SessionsInit, SessionsIInv, SessionsTypeOK, Versions, VisitsAreOfSessions,
        CopiesAreBehind, OutForGood
  <1>2. SessionsIInv /\ [SessionsNext]_sessionVars => SessionsIInv'
    BY SessionsTypeStep, VisitsStep, CopiesStep, OutStep DEF SessionsIInv
  <1> QED BY <1>1, <1>2, PTL DEF SessionsSpec

\* Type correctness, for every set of logins and visits.
THEOREM SessionsTyped == SessionsSpec => []SessionsTypeOK
PROOF
  <1>1. SessionsIInv => SessionsTypeOK
    BY DEF SessionsIInv
  <1> QED BY <1>1, SessionsInvariant, PTL

\* Only a visit whose version is the row's is accepted, and no copy of a
\* revoked session is.
LEMMA AcceptedIsNotRevoked ==
  ASSUME SessionsIInv, [SessionsNext]_sessionVars, NEW v \in Visits,
         visitStep[v] = "find_user", visitStep'[v] = "accepted"
  PROVE  visitOf[v] \notin revoked
PROOF
  <1> USE DEF SessionsIInv, SessionsTypeOK, VisitAt, VisitGoes, VisitEnds, logins, visits
  <1>1. CASE FindUser(v)
    <2>1. visitSaw[v] = user.version
      BY <1>1 DEF FindUser, Valid
    <2> QED BY <2>1 DEF CopiesAreBehind, Versions
  <1>2. CASE ~ FindUser(v)
    <2>1. visitStep'[v] = "find_user" \/ visitStep'[v] # "accepted"
      BY <1>2 DEF SessionsNext, sessionVars, TimeOut, AuthenticateUser, IssueSession,
        DisableMember, ResetMemberPassword, GetSession, FindUser, DiscardSession, OtherVisit,
        EndSession, Logout, RevokeAll, DeleteSession, VerifyOldPassword, ChangePassword,
        ReadForSwitch, PutSwitched
    <2> QED BY <2>1
  <1> QED BY <1>1, <1>2

\* No session revoked before is accepted, by any visit, at any time.
THEOREM RevokedIsRefusedHolds == SessionsSpec => RevokedIsRefused
PROOF
  <1>1. SessionsIInv /\ [SessionsNext]_sessionVars =>
          [\A v \in Visits : visitStep[v] = "find_user" /\ visitStep'[v] = "accepted"
             => visitOf[v] \notin revoked]_sessionVars
    BY AcceptedIsNotRevoked
  <1> QED BY <1>1, SessionsInvariant, PTL DEF SessionsSpec, RevokedIsRefused

\* A session logged out while no switch was under way never comes back.
THEOREM LoggedOutStaysOutHolds == SessionsSpec => []LoggedOutStaysOut
PROOF
  <1>1. SessionsIInv => LoggedOutStaysOut
    BY DEF SessionsIInv, OutForGood, LoggedOutStaysOut
  <1> QED BY <1>1, SessionsInvariant, PTL

-----------------------------------------------------------------------------
(* PluginLifecycle                                                          *)

(* The stages of an operation that is on one version. *)
OnRelease == { "copy", "upsert", "enable", "request", "load", "record", "assign",
               "move", "point", "create" }

(* An operation is on a version of the family; a row that stands, of those  *)
(* that were read as rows, is installed; an inspection has a fingerprint.   *)
TargetsOK ==
  \A m \in Managers :
    /\ managerStage[m] \in OnRelease => target[m] \in Releases
    /\ managerStage[m] \in { "enable", "request", "load", "record" } /\ Stands(m, target[m])
         => Installed(target[m])
    /\ managerStage[m] = "record" => saw[m].manifest \in { "installed", "changed" }

(* What a manager will compute a row from is the row, unless the row was    *)
(* written, or deleted, since it was read.                                  *)
CopyOK(m) ==
  LET row == installation[target[m]]
  IN  undisturbed[m] /\ Stands(m, target[m]) =>
        /\ managerStage[m] \in { "request", "load" } => saw[m] = row
        /\ managerStage[m] = "record" =>
             saw[m].availability = Derived(row.desired, saw[m].artifact, row.runtime)

CopiesOK == \A m \in Managers : CopyOK(m)

PluginIInv == PluginTypeOK /\ TargetsOK /\ CopiesOK /\ AvailabilityIsDerived

InstallationRow ==
  [desired : { "disabled", "active_requested" }, artifact : ArtifactStatus,
   manifest : { "installed", "changed" },
   runtime : { "inactive", "active", "load_failed" }, availability : AvailabilityStatus]

\* The availability derived from statuses is a status.
LEMMA DerivedTyped ==
  ASSUME NEW desired, NEW files \in ArtifactStatus,
         NEW runtime \in { "inactive", "active", "load_failed" }
  PROVE  Derived(desired, files, runtime) \in AvailabilityStatus
PROOF
  <1>1. CASE desired = "disabled" BY <1>1 DEF Derived, AvailabilityStatus
  <1>2. CASE desired # "disabled" /\ files = "missing" BY <1>2 DEF Derived, AvailabilityStatus
  <1>3. CASE desired # "disabled" /\ files \in { "install_incomplete", "corrupted" }
    BY <1>3 DEF Derived, AvailabilityStatus
  <1>4. CASE desired # "disabled" /\ files = "ready"
    BY <1>4 DEF Derived, AvailabilityStatus
  <1> QED BY <1>1, <1>2, <1>3, <1>4 DEF ArtifactStatus

\* What an inspection finds is a status of the files.
LEMMA InspectedTyped ==
  ASSUME NEW files \in Artifact, NEW expected
  PROVE  Inspected(files, expected) \in ArtifactStatus
PROOF
  <1>1. CASE files.manifest \in { "no_directory", "none" }
    BY <1>1 DEF Inspected, ArtifactStatus, HasManifest
  <1>2. CASE HasManifest(files) /\ files.manifest # expected
    BY <1>2 DEF Inspected, ArtifactStatus, HasManifest
  <1>3. CASE HasManifest(files) /\ files.manifest = expected
    BY <1>3 DEF Inspected, ArtifactStatus, HasManifest, Artifact
  <1> QED BY <1>1, <1>2, <1>3 DEF Artifact, HasManifest

\* Files of which one part is replaced are files.
LEMMA PartReplaced ==
  ASSUME NEW files \in Artifact
  PROVE  /\ \A p \in { "there", "gone", "changed" } : [files EXCEPT !.package = p] \in Artifact
         /\ \A d \in { "no_directory", "none", "installed", "changed" } :
              /\ [files EXCEPT !.manifest = d] \in Artifact
              /\ [manifest |-> d, package |-> "there"] \in Artifact
         /\ Intact \in Artifact /\ NoFiles \in Artifact
  BY DEF Artifact, Intact, NoFiles

\* The fields of a row, installed or not.
LEMMA RowTyped ==
  ASSUME NEW row \in Installation
  PROVE  /\ row = NotInstalled \/ row \in InstallationRow
         /\ row.artifact \in ArtifactStatus
         /\ row.runtime \in { "inactive", "active", "load_failed" }
         /\ row.availability \in AvailabilityStatus
  BY DEF Installation, InstallationRow, NotInstalled, ArtifactStatus, AvailabilityStatus

\* A family whose first version is in use, and whose others were uploaded.
LEMMA PluginInitially == ASSUME PluginAssumption, PluginInit PROVE PluginIInv
PROOF
  <1>1. NotInstalled \in Installation BY DEF Installation
  <1>2. /\ FreshRow \in Installation
        /\ [FreshRow EXCEPT !.desired = "active_requested", !.runtime = "active",
                            !.availability = "available"] \in Installation
    BY DEF Installation, FreshRow, ArtifactStatus, AvailabilityStatus
  <1>3. PluginTypeOK
    <2>1. installation \in [Releases -> Installation] /\ artifact \in [Releases -> Artifact]
      BY <1>2 DEF PluginInit, Artifact, Intact
    <2>2. known \in [Managers -> [Releases -> { "unread", "there", "deleted", "gone" }]]
      BY DEF PluginInit, NothingKnown
    <2>3. assigned \in Releases \cup {NoRelease} /\ target \in [Managers -> Releases \cup {NoRelease}]
          /\ instances \in [Instances -> Releases \cup {NoRelease}] /\ saw \in [Managers -> Installation]
      BY <1>1 DEF PluginInit, PluginAssumption
    <2>4. operations \in 0 .. MaxOperations
      BY DEF PluginInit, PluginAssumption
    <2>5. /\ switching \in [Managers -> BOOLEAN] /\ undisturbed \in [Managers -> BOOLEAN]
          /\ undivided \in [Managers -> BOOLEAN] /\ reliable \in [Releases -> BOOLEAN]
          /\ stranded \in BOOLEAN
      BY DEF PluginInit
    <2>6. managerStage \in [Managers ->
       { "idle", "copy", "upsert", "enable", "request", "load", "record", "assign",
         "move", "point", "create", "clear", "delete", "erase" }]
      BY DEF PluginInit
    <2> QED BY <2>1, <2>2, <2>3, <2>4, <2>5, <2>6 DEF PluginTypeOK
  <1>4. TargetsOK BY DEF PluginInit, TargetsOK, OnRelease
  <1>5. CopiesOK BY DEF PluginInit, CopiesOK, CopyOK
  <1>6. AvailabilityIsDerived
    <2>1. /\ Derived("active_requested", "ready", "active") = "available"
          /\ Derived("disabled", "ready", "inactive") = "disabled"
      BY DEF Derived
    <2> QED BY <2>1 DEF PluginInit, AvailabilityIsDerived, Installed, FreshRow
  <1> QED BY <1>3, <1>4, <1>5, <1>6 DEF PluginIInv


\* The row of a standing target is a written one, and what is written of it
\* is a row.
LEMMA WrittenTyped ==
  ASSUME NEW row \in InstallationRow, NEW saved \in Installation,
         NEW runtime \in { "active", "load_failed" }, NEW desired, NEW status \in ArtifactStatus,
         NEW manifest \in { "installed", "changed" }
  PROVE  /\ [row EXCEPT !.desired = "active_requested",
               !.availability = Derived("active_requested", saved.artifact, saved.runtime)]
              \in InstallationRow
         /\ [row EXCEPT !.runtime = runtime,
               !.availability = Derived(desired, saved.artifact, runtime)] \in InstallationRow
         /\ saved.manifest \in { "installed", "changed" } =>
              [row EXCEPT !.artifact = saved.artifact, !.availability = saved.availability,
                 !.manifest = saved.manifest] \in InstallationRow
         /\ [row EXCEPT !.artifact = status,
               !.availability = Derived(row.desired, status, row.runtime),
               !.manifest = manifest] \in InstallationRow
PROOF
  <1>1. /\ saved.artifact \in ArtifactStatus /\ saved.availability \in AvailabilityStatus
        /\ saved.runtime \in { "inactive", "active", "load_failed" }
    BY RowTyped
  <1>2. /\ Derived("active_requested", saved.artifact, saved.runtime) \in AvailabilityStatus
        /\ Derived(desired, saved.artifact, runtime) \in AvailabilityStatus
    BY <1>1, DerivedTyped
  <1>3. row.runtime \in { "inactive", "active", "load_failed" }
    BY DEF InstallationRow
  <1>4. Derived(row.desired, status, row.runtime) \in AvailabilityStatus
    BY <1>3, DerivedTyped
  <1> QED BY <1>1, <1>2, <1>4 DEF InstallationRow

\* An installed row differs from none.
LEMMA RowIsInstalled == \A row \in InstallationRow : row # NotInstalled
  BY DEF InstallationRow, NotInstalled

\* The row enable_plugin writes: availability by the copy that was read.
LEMMA RequestWrites ==
  ASSUME PluginTypeOK, TargetsOK, NEW m \in Managers, RequestActive(m)
  PROVE  /\ target[m] \in Releases /\ installation[target[m]] \in InstallationRow
         /\ \E row \in InstallationRow :
              /\ WritesRow(m, row) /\ saw' = [saw EXCEPT ![m] = row]
              /\ row.desired = "active_requested"
              /\ row.artifact = installation[target[m]].artifact
              /\ row.runtime = installation[target[m]].runtime
              /\ row.availability = Derived("active_requested", saw[m].artifact, saw[m].runtime)
PROOF
  <1> DEFINE row == [installation[target[m]] EXCEPT
                !.desired = "active_requested",
                !.availability = Derived("active_requested", saw[m].artifact, saw[m].runtime)]
  <1>1. target[m] \in Releases /\ Installed(target[m])
    BY DEF RequestActive, WritesRow, TargetsOK, OnRelease
  <1>2. installation[target[m]] \in InstallationRow /\ saw[m] \in Installation
    BY <1>1, RowTyped DEF Installed, PluginTypeOK
  <1>3. row \in InstallationRow
    <2>1. "ready" \in ArtifactStatus
      BY DEF ArtifactStatus
    <2> QED BY <1>2, <2>1, WrittenTyped
  <1>4. WritesRow(m, row) /\ saw' = [saw EXCEPT ![m] = row]
    BY DEF RequestActive
  <1>5. /\ row.desired = "active_requested"
        /\ row.artifact = installation[target[m]].artifact
        /\ row.runtime = installation[target[m]].runtime
        /\ row.availability = Derived("active_requested", saw[m].artifact, saw[m].runtime)
    BY <1>2 DEF InstallationRow
  <1> QED BY <1>1, <1>2, <1>3, <1>4, <1>5

\* The row that records what the runtime answered.
LEMMA RecordWrites ==
  ASSUME PluginTypeOK, TargetsOK, NEW m \in Managers,
         NEW runtime \in { "active", "load_failed" }, RecordRuntime(m, runtime)
  PROVE  /\ target[m] \in Releases /\ installation[target[m]] \in InstallationRow
         /\ \E row \in InstallationRow :
              /\ WritesRow(m, row)
              /\ row.desired = installation[target[m]].desired
              /\ row.artifact = installation[target[m]].artifact
              /\ row.runtime = runtime
              /\ row.availability = Derived(saw[m].desired, saw[m].artifact, runtime)
PROOF
  <1> DEFINE row == [installation[target[m]] EXCEPT
                     !.runtime = runtime,
                     !.availability = Derived(saw[m].desired, saw[m].artifact, runtime)]
  <1>1. target[m] \in Releases /\ Installed(target[m])
    BY DEF RecordRuntime, WritesRow, TargetsOK, OnRelease
  <1>2. installation[target[m]] \in InstallationRow /\ saw[m] \in Installation
    BY <1>1, RowTyped, SMTT(30) DEF Installed, PluginTypeOK
  <1>3. row \in InstallationRow
    <2>1. "ready" \in ArtifactStatus
      BY DEF ArtifactStatus
    <2> QED BY <1>2, <2>1, WrittenTyped
  <1>4. WritesRow(m, row)
    BY DEF RecordRuntime
  <1>5. /\ row.desired = installation[target[m]].desired
        /\ row.artifact = installation[target[m]].artifact
        /\ row.runtime = runtime
        /\ row.availability = Derived(saw[m].desired, saw[m].artifact, runtime)
    BY <1>2 DEF InstallationRow
  <1> QED BY <1>1, <1>2, <1>3, <1>4, <1>5

\* The row that records what an inspection of the files found.
LEMMA ArtifactWrites ==
  ASSUME PluginTypeOK, TargetsOK, NEW m \in Managers, RecordArtifact(m)
  PROVE  /\ target[m] \in Releases /\ installation[target[m]] \in InstallationRow
         /\ \E row \in InstallationRow :
              /\ WritesRow(m, row)
              /\ row.desired = installation[target[m]].desired
              /\ row.artifact = saw[m].artifact
              /\ row.runtime = installation[target[m]].runtime
              /\ row.availability = saw[m].availability
PROOF
  <1> DEFINE row == [installation[target[m]] EXCEPT
                     !.artifact = saw[m].artifact, !.availability = saw[m].availability,
                     !.manifest = saw[m].manifest]
  <1>1. target[m] \in Releases /\ Installed(target[m])
    BY DEF RecordArtifact, WritesRow, TargetsOK, OnRelease
  <1>2. installation[target[m]] \in InstallationRow /\ saw[m] \in Installation
    BY <1>1, RowTyped DEF Installed, PluginTypeOK
  <1>3. row \in InstallationRow
    <2>1. "ready" \in ArtifactStatus
      BY DEF ArtifactStatus
    <2>2. saw[m].manifest \in { "installed", "changed" }
      BY DEF RecordArtifact, TargetsOK
    <2> QED BY <1>2, <2>1, <2>2, WrittenTyped
  <1>4. WritesRow(m, row)
    BY DEF RecordArtifact
  <1>5. /\ row.desired = installation[target[m]].desired
        /\ row.artifact = saw[m].artifact
        /\ row.runtime = installation[target[m]].runtime
        /\ row.availability = saw[m].availability
    BY <1>2 DEF InstallationRow
  <1> QED BY <1>1, <1>2, <1>3, <1>4, <1>5

\* No step of a manager, of the files or of an instance leaves the types.
LEMMA PluginTypeStep ==
  ASSUME PluginAssumption, PluginTypeOK, TargetsOK, [PluginNext]_pluginVars
  PROVE  PluginTypeOK'
PROOF
  <1> USE DEF PluginTypeOK, pluginVars, pluginRows, family, managing, Begins, Reads, Ends,
              Advances, NothingKnown, WritesFamily
  <1>0. /\ NotInstalled \in Installation /\ InstallationRow \subseteq Installation
        /\ FreshRow \in Installation
    BY DEF Installation, InstallationRow, FreshRow, ArtifactStatus, AvailabilityStatus
  <1>1. ASSUME NEW m \in Managers, NEW v \in Releases,
               BeginInstall(m, v) \/ BeginEnable(m, v) \/ BeginAssign(m, v) \/ BeginInstance(m, v)
                 \/ BeginSwitch(m, v)
        PROVE  PluginTypeOK'
    <2>1. CASE BeginInstall(m, v)
      BY <2>1 DEF BeginInstall
    <2>2. CASE BeginEnable(m, v)
      BY <2>2 DEF BeginEnable
    <2>3. CASE BeginAssign(m, v)
      BY <2>3 DEF BeginAssign
    <2>4. CASE BeginInstance(m, v)
      BY <2>4 DEF BeginInstance
    <2>5. CASE BeginSwitch(m, v)
      BY <2>5 DEF BeginSwitch
    <2> QED BY <1>1, <2>1, <2>2, <2>3, <2>4, <2>5
  <1>2. ASSUME NEW m \in Managers, NEW v \in Releases, BeginReconcile(m, v)
        PROVE  PluginTypeOK'
    <2> DEFINE status == Inspected(artifact[v], installation[v].manifest)
               manifest == IF HasManifest(artifact[v]) THEN artifact[v].manifest
                           ELSE installation[v].manifest
               found == [installation[v] EXCEPT
                  !.artifact = status,
                  !.availability = Derived(installation[v].desired, status,
                                           installation[v].runtime),
                  !.manifest = manifest]
    <2>1. found \in Installation
      <3>1. installation[v] \in InstallationRow
        BY <1>2, RowTyped DEF BeginReconcile, Installed
      <3>2. status \in ArtifactStatus
        BY InspectedTyped
      <3>3. manifest \in { "installed", "changed" }
        BY <3>1 DEF InstallationRow, HasManifest
      <3> QED BY <1>0, <3>1, <3>2, <3>3, WrittenTyped
    <2>2. saw' \in [Managers -> Installation]
      BY <1>2, <2>1 DEF BeginReconcile
    <2> QED BY <1>2, <2>2, SMTT(30) DEF BeginReconcile
  <1>3. ASSUME NEW m \in Managers, NEW v \in Releases, DeleteInstallation(m, v)
        PROVE  PluginTypeOK'
    <2>1. known' \in [Managers -> [Releases -> { "unread", "there", "deleted", "gone" }]]
      BY <1>3 DEF DeleteInstallation
    <2> QED BY <1>0, <1>3, <2>1 DEF DeleteInstallation
  <1>4. ASSUME NEW m \in Managers,
               \/ CopyArtifact(m) \/ UpsertInstallation(m) \/ EnableTarget(m) \/ AssignPlugin(m)
               \/ MoveInstances(m) \/ PointAssignment(m) \/ AbandonOperation(m)
               \/ BeginDelete(m) \/ DeleteInstances(m) \/ EraseFiles(m)
        PROVE  PluginTypeOK'
    <2>1. CASE CopyArtifact(m)
      <3>1. PICK files \in Artifact : artifact' = [artifact EXCEPT ![target[m]] = files]
        <4>1. target[m] \in Releases
          BY <2>1 DEF CopyArtifact, TargetsOK, OnRelease
        <4> HIDE DEF Artifact, Intact
        <4> QED BY <2>1, <4>1, PartReplaced DEF CopyArtifact
      <3>2. CASE Advances(m, "copy", "upsert")
        BY <2>1, <3>1, <3>2 DEF CopyArtifact
      <3>3. CASE Ends(m)
        BY <1>0, <2>1, <3>1, <3>3 DEF CopyArtifact
      <3> QED BY <2>1, <3>2, <3>3 DEF CopyArtifact
    <2>2. CASE UpsertInstallation(m)
      BY <1>0, <2>2 DEF UpsertInstallation
    <2>3. CASE EnableTarget(m)
      BY <2>3 DEF EnableTarget, TargetsOK, OnRelease
    <2>4. CASE AssignPlugin(m)
      BY <1>0, <2>4 DEF AssignPlugin
    <2>5. CASE MoveInstances(m)
      BY <1>0, <2>5 DEF MoveInstances, TargetsOK, OnRelease
    <2>6. CASE PointAssignment(m)
      BY <1>0, <2>6 DEF PointAssignment, TargetsOK, OnRelease
    <2>7. CASE AbandonOperation(m)
      BY <1>0, <2>7 DEF AbandonOperation
    <2>8. CASE BeginDelete(m)
      BY <2>8 DEF BeginDelete
    <2>9. CASE DeleteInstances(m)
      BY <2>9 DEF DeleteInstances
    <2>10. CASE EraseFiles(m)
      BY <1>0, <2>10 DEF EraseFiles, Artifact, NoFiles
    <2> QED BY <1>4, <2>1, <2>2, <2>3, <2>4, <2>5, <2>6, <2>7, <2>8, <2>9, <2>10
  <1>5. ASSUME NEW m \in Managers, RequestActive(m)
        PROVE  PluginTypeOK'
    <2>1. PICK row \in InstallationRow : WritesRow(m, row) /\ saw' = [saw EXCEPT ![m] = row]
      BY <1>5, RequestWrites
    <2>2. /\ installation' \in [Releases -> Installation] /\ saw' \in [Managers -> Installation]
          /\ undisturbed' \in [Managers -> BOOLEAN] /\ reliable' \in [Releases -> BOOLEAN]
      BY <1>0, <2>1 DEF WritesRow
    <2> QED BY <1>5, <2>2 DEF RequestActive
  <1>6. ASSUME NEW m \in Managers, NEW runtime \in { "active", "load_failed" },
               RecordRuntime(m, runtime)
        PROVE  PluginTypeOK'
    <2>1. PICK row \in InstallationRow : WritesRow(m, row)
      BY <1>6, RecordWrites
    <2>2. /\ installation' \in [Releases -> Installation]
          /\ undisturbed' \in [Managers -> BOOLEAN] /\ reliable' \in [Releases -> BOOLEAN]
      BY <1>0, <2>1 DEF WritesRow
    <2>3. CASE Advances(m, "load", "move")
      BY <1>6, <2>2, <2>3 DEF RecordRuntime
    <2>4. CASE Ends(m)
      BY <1>0, <1>6, <2>2, <2>4 DEF RecordRuntime
    <2> QED BY <1>6, <2>3, <2>4 DEF RecordRuntime
  <1>7. ASSUME NEW m \in Managers, RecordArtifact(m)
        PROVE  PluginTypeOK'
    <2>1. PICK row \in InstallationRow : WritesRow(m, row)
      BY <1>7, ArtifactWrites
    <2>2. /\ installation' \in [Releases -> Installation]
          /\ undisturbed' \in [Managers -> BOOLEAN] /\ reliable' \in [Releases -> BOOLEAN]
      BY <1>0, <2>1 DEF WritesRow
    <2> QED BY <1>0, <1>7, <2>2 DEF RecordArtifact
  <1>8. ASSUME NEW m \in Managers, NEW i \in Instances, CreateInstance(m, i)
        PROVE  PluginTypeOK'
    BY <1>0, <1>8 DEF CreateInstance
  <1>9. ASSUME NEW v \in Releases, LoseFiles(v)
        PROVE  PluginTypeOK'
    <2>1. PICK files \in Artifact : artifact' = [artifact EXCEPT ![v] = files]
      BY <1>9, PartReplaced DEF LoseFiles
    <2> QED BY <1>9, <2>1 DEF LoseFiles
  <1>10. ASSUME NEW i \in Instances, DeleteInstance(i)
         PROVE  PluginTypeOK'
    BY <1>10 DEF DeleteInstance
  <1>11. CASE UNCHANGED pluginVars
    BY <1>11
  <1> QED
    BY <1>1, <1>2, <1>3, <1>4, <1>5, <1>6, <1>7, <1>8, <1>9, <1>10, <1>11 DEF PluginNext

\* An operation stays on its version, whose row is installed as long as it stands.
LEMMA TargetsStep ==
  ASSUME PluginAssumption, PluginTypeOK, TargetsOK, [PluginNext]_pluginVars
  PROVE  TargetsOK'
PROOF
  <1> USE DEF PluginTypeOK, TargetsOK, OnRelease, Installed, Stands, pluginVars, pluginRows, family, managing, Begins, Reads, Ends,
              Advances, NothingKnown, WritesFamily
  <1>1. ASSUME NEW m \in Managers, NEW v \in Releases, BeginInstall(m, v)
        PROVE  TargetsOK'
    BY <1>1 DEF BeginInstall
  <1>2. ASSUME NEW m \in Managers, NEW v \in Releases, BeginEnable(m, v)
        PROVE  TargetsOK'
    BY <1>2 DEF BeginEnable
  <1>3. ASSUME NEW m \in Managers, NEW v \in Releases, BeginReconcile(m, v)
        PROVE  TargetsOK'
    <2>1. installation[v].manifest \in { "installed", "changed" }
      BY <1>3, RowTyped DEF BeginReconcile, InstallationRow
    <2>2. saw'[m].manifest \in { "installed", "changed" }
      BY <1>3, <2>1 DEF BeginReconcile, HasManifest, Installation, NotInstalled
    <2> QED BY <1>3, <2>2 DEF BeginReconcile
  <1>4. ASSUME NEW m \in Managers, NEW v \in Releases, BeginAssign(m, v)
        PROVE  TargetsOK'
    BY <1>4 DEF BeginAssign
  <1>5. ASSUME NEW m \in Managers, NEW v \in Releases, BeginInstance(m, v)
        PROVE  TargetsOK'
    BY <1>5 DEF BeginInstance
  <1>6. ASSUME NEW m \in Managers, NEW v \in Releases, BeginSwitch(m, v)
        PROVE  TargetsOK'
    BY <1>6 DEF BeginSwitch
  <1>7. ASSUME NEW m \in Managers, NEW v \in Releases, DeleteInstallation(m, v)
        PROVE  TargetsOK'
    BY <1>7 DEF DeleteInstallation
  <1>8. ASSUME NEW m \in Managers, CopyArtifact(m)
        PROVE  TargetsOK'
    BY <1>8 DEF CopyArtifact
  <1>9. ASSUME NEW m \in Managers, EnableTarget(m)
        PROVE  TargetsOK'
    BY <1>9 DEF EnableTarget
  <1>10. ASSUME NEW m \in Managers, AssignPlugin(m)
        PROVE  TargetsOK'
    BY <1>10 DEF AssignPlugin
  <1>11. ASSUME NEW m \in Managers, MoveInstances(m)
        PROVE  TargetsOK'
    BY <1>11 DEF MoveInstances
  <1>12. ASSUME NEW m \in Managers, PointAssignment(m)
        PROVE  TargetsOK'
    BY <1>12 DEF PointAssignment
  <1>13. ASSUME NEW m \in Managers, AbandonOperation(m)
        PROVE  TargetsOK'
    BY <1>13 DEF AbandonOperation
  <1>14. ASSUME NEW m \in Managers, BeginDelete(m)
        PROVE  TargetsOK'
    BY <1>14 DEF BeginDelete
  <1>15. ASSUME NEW m \in Managers, DeleteInstances(m)
        PROVE  TargetsOK'
    BY <1>15 DEF DeleteInstances
  <1>16. ASSUME NEW m \in Managers, EraseFiles(m)
        PROVE  TargetsOK'
    BY <1>16 DEF EraseFiles
  <1>17. ASSUME NEW m \in Managers, NEW i \in Instances, CreateInstance(m, i)
        PROVE  TargetsOK'
    BY <1>17 DEF CreateInstance
  <1>18. ASSUME NEW v \in Releases, LoseFiles(v)
        PROVE  TargetsOK'
    BY <1>18 DEF LoseFiles
  <1>19. ASSUME NEW i \in Instances, DeleteInstance(i)
        PROVE  TargetsOK'
    BY <1>19 DEF DeleteInstance
  <1>20. ASSUME NEW m \in Managers, UpsertInstallation(m)
        PROVE  TargetsOK'
    <2>1. target[m] \in Releases
      BY <1>20 DEF UpsertInstallation, TargetsOK, OnRelease
    <2>2. FreshRow # NotInstalled
      BY DEF FreshRow, NotInstalled
    <2> HIDE DEF FreshRow
    <2> QED BY <1>20, <2>1, <2>2 DEF UpsertInstallation
  <1>21. ASSUME NEW m \in Managers, RequestActive(m)
        PROVE  TargetsOK'
    <2>1. target[m] \in Releases
      BY <1>21, RequestWrites
    <2>2. PICK row \in InstallationRow : WritesRow(m, row)
      BY <1>21, RequestWrites
    <2> QED BY <1>21, <2>1, <2>2, RowIsInstalled DEF RequestActive, WritesRow
  <1>22. ASSUME NEW m \in Managers, NEW runtime \in { "active", "load_failed" }, RecordRuntime(m, runtime)
        PROVE  TargetsOK'
    <2>1. target[m] \in Releases
      BY <1>22, RecordWrites
    <2>2. PICK row \in InstallationRow : WritesRow(m, row)
      BY <1>22, RecordWrites
    <2> QED BY <1>22, <2>1, <2>2, RowIsInstalled DEF RecordRuntime, WritesRow
  <1>23. ASSUME NEW m \in Managers, RecordArtifact(m)
        PROVE  TargetsOK'
    <2>1. target[m] \in Releases
      BY <1>23, ArtifactWrites
    <2>2. PICK row \in InstallationRow : WritesRow(m, row)
      BY <1>23, ArtifactWrites
    <2> QED BY <1>23, <2>1, <2>2, RowIsInstalled DEF RecordArtifact, WritesRow
  <1>24. CASE UNCHANGED pluginVars
    BY <1>24
  <1> QED
    BY <1>1, <1>2, <1>3, <1>4, <1>5, <1>6, <1>7, <1>8, <1>9, <1>10, <1>11, <1>12, <1>13, <1>14, <1>15, <1>16, <1>17, <1>18, <1>19, <1>20, <1>21, <1>22, <1>23, <1>24 DEF PluginNext

\* A write leaves what the others have read of other rows, and marks what
\* they have read of this one.
LEMMA OthersCopies ==
  ASSUME PluginTypeOK, TargetsOK, CopiesOK, NEW m \in Managers, NEW row, target[m] \in Releases,
         WritesRow(m, row), NEW x \in Managers, x # m,
         managerStage'[x] = managerStage[x], target'[x] = target[x], saw'[x] = saw[x],
         known'[x] = known[x]
  PROVE  CopyOK(x)'
PROOF
  <1> USE DEF PluginTypeOK, CopiesOK, CopyOK, Stands
  <1>1. CASE managerStage[x] \in { "request", "load", "record" } /\ undisturbed'[x]
    <2>1. target[x] \in Releases /\ target[x] # target[m] /\ undisturbed[x]
      BY <1>1 DEF TargetsOK, OnRelease, WritesRow
    <2>2. installation'[target[x]] = installation[target[x]]
      BY <2>1 DEF WritesRow
    <2> QED BY <2>1, <2>2
  <1>2. CASE ~ (managerStage[x] \in { "request", "load", "record" } /\ undisturbed'[x])
    BY <1>2
  <1> QED BY <1>1, <1>2

\* What a manager has read stands until somebody writes or deletes the row.
LEMMA ReadCopiesStep ==
  ASSUME PluginAssumption, PluginTypeOK, TargetsOK, CopiesOK, [PluginNext]_pluginVars
  PROVE  CopiesOK'
PROOF
  <1> USE DEF PluginTypeOK, TargetsOK, OnRelease, CopiesOK, CopyOK, Stands, pluginVars, pluginRows, family, managing, Begins, Reads, Ends,
              Advances, NothingKnown, WritesFamily
  <1>1. ASSUME NEW m \in Managers, NEW v \in Releases, BeginInstall(m, v)
        PROVE  CopiesOK'
    BY <1>1 DEF BeginInstall
  <1>2. ASSUME NEW m \in Managers, NEW v \in Releases, BeginEnable(m, v)
        PROVE  CopiesOK'
    BY <1>2 DEF BeginEnable
  <1>3. ASSUME NEW m \in Managers, NEW v \in Releases, BeginReconcile(m, v)
        PROVE  CopiesOK'
    BY <1>3 DEF BeginReconcile
  <1>4. ASSUME NEW m \in Managers, NEW v \in Releases, BeginAssign(m, v)
        PROVE  CopiesOK'
    BY <1>4 DEF BeginAssign
  <1>5. ASSUME NEW m \in Managers, NEW v \in Releases, BeginInstance(m, v)
        PROVE  CopiesOK'
    BY <1>5 DEF BeginInstance
  <1>6. ASSUME NEW m \in Managers, NEW v \in Releases, BeginSwitch(m, v)
        PROVE  CopiesOK'
    BY <1>6 DEF BeginSwitch
  <1>7. ASSUME NEW m \in Managers, NEW v \in Releases, DeleteInstallation(m, v)
        PROVE  CopiesOK'
    BY <1>7 DEF DeleteInstallation
  <1>8. ASSUME NEW m \in Managers, CopyArtifact(m)
        PROVE  CopiesOK'
    BY <1>8 DEF CopyArtifact
  <1>9. ASSUME NEW m \in Managers, EnableTarget(m)
        PROVE  CopiesOK'
    BY <1>9 DEF EnableTarget
  <1>10. ASSUME NEW m \in Managers, AssignPlugin(m)
        PROVE  CopiesOK'
    BY <1>10 DEF AssignPlugin
  <1>11. ASSUME NEW m \in Managers, MoveInstances(m)
        PROVE  CopiesOK'
    BY <1>11 DEF MoveInstances
  <1>12. ASSUME NEW m \in Managers, PointAssignment(m)
        PROVE  CopiesOK'
    BY <1>12 DEF PointAssignment
  <1>13. ASSUME NEW m \in Managers, AbandonOperation(m)
        PROVE  CopiesOK'
    BY <1>13 DEF AbandonOperation
  <1>14. ASSUME NEW m \in Managers, BeginDelete(m)
        PROVE  CopiesOK'
    BY <1>14 DEF BeginDelete
  <1>15. ASSUME NEW m \in Managers, DeleteInstances(m)
        PROVE  CopiesOK'
    BY <1>15 DEF DeleteInstances
  <1>16. ASSUME NEW m \in Managers, EraseFiles(m)
        PROVE  CopiesOK'
    BY <1>16 DEF EraseFiles
  <1>17. ASSUME NEW m \in Managers, NEW i \in Instances, CreateInstance(m, i)
        PROVE  CopiesOK'
    BY <1>17 DEF CreateInstance
  <1>18. ASSUME NEW v \in Releases, LoseFiles(v)
        PROVE  CopiesOK'
    BY <1>18 DEF LoseFiles
  <1>19. ASSUME NEW i \in Instances, DeleteInstance(i)
        PROVE  CopiesOK'
    BY <1>19 DEF DeleteInstance
  <1>20. ASSUME NEW m \in Managers, UpsertInstallation(m)
        PROVE  CopiesOK'
    <2>1. target[m] \in Releases
      BY <1>20 DEF UpsertInstallation, TargetsOK, OnRelease
    <2> HIDE DEF FreshRow
    <2> QED BY <1>20, <2>1, ZenonT(60) DEF UpsertInstallation
  <1>21. ASSUME NEW m \in Managers, RequestActive(m)
        PROVE  CopiesOK'
    <2>1. target[m] \in Releases
      BY <1>21, RequestWrites
    <2>2. PICK row \in InstallationRow : WritesRow(m, row) /\ saw' = [saw EXCEPT ![m] = row]
      BY <1>21, RequestWrites
    <2>3. CopyOK(m)'
      BY <1>21, <2>1, <2>2 DEF RequestActive, WritesRow, CopyOK
    <2>4. ASSUME NEW x \in Managers, x # m PROVE CopyOK(x)'
      <3>1. managerStage'[x] = managerStage[x] /\ target'[x] = target[x] /\ saw'[x] = saw[x]
            /\ known'[x] = known[x]
        BY <1>21, <2>2, <2>4 DEF RequestActive
      <3> QED BY <2>1, <2>2, <2>4, <3>1, OthersCopies
    <2> QED BY <2>3, <2>4 DEF CopiesOK
  <1>22. ASSUME NEW m \in Managers, NEW runtime \in { "active", "load_failed" }, RecordRuntime(m, runtime)
        PROVE  CopiesOK'
    <2>1. target[m] \in Releases
      BY <1>22, RecordWrites
    <2>2. PICK row \in InstallationRow : WritesRow(m, row)
      BY <1>22, RecordWrites
    <2>3. CopyOK(m)'
      BY <1>22, <2>1, <2>2 DEF RecordRuntime, CopyOK
    <2>4. ASSUME NEW x \in Managers, x # m PROVE CopyOK(x)'
      <3>1. managerStage'[x] = managerStage[x] /\ target'[x] = target[x] /\ saw'[x] = saw[x]
            /\ known'[x] = known[x]
        BY <1>22, <2>2, <2>4 DEF RecordRuntime
      <3> QED BY <2>1, <2>2, <2>4, <3>1, OthersCopies, SMTT(30)
    <2> QED BY <2>3, <2>4 DEF CopiesOK
  <1>23. ASSUME NEW m \in Managers, RecordArtifact(m)
        PROVE  CopiesOK'
    <2>1. target[m] \in Releases
      BY <1>23, ArtifactWrites
    <2>2. PICK row \in InstallationRow : WritesRow(m, row)
      BY <1>23, ArtifactWrites
    <2>3. CopyOK(m)'
      BY <1>23, <2>1, <2>2 DEF RecordArtifact, CopyOK
    <2>4. ASSUME NEW x \in Managers, x # m PROVE CopyOK(x)'
      <3>1. managerStage'[x] = managerStage[x] /\ target'[x] = target[x] /\ saw'[x] = saw[x]
            /\ known'[x] = known[x]
        BY <1>23, <2>2, <2>4 DEF RecordArtifact
      <3> QED BY <2>1, <2>2, <2>4, <3>1, OthersCopies
    <2> QED BY <2>3, <2>4 DEF CopiesOK
  <1>24. CASE UNCHANGED pluginVars
    BY <1>24, SMTT(30)
  <1> QED
    BY <1>1, <1>2, <1>3, <1>4, <1>5, <1>6, <1>7, <1>8, <1>9, <1>10, <1>11, <1>12, <1>13, <1>14, <1>15, <1>16, <1>17, <1>18, <1>19, <1>20, <1>21, <1>22, <1>23, <1>24 DEF PluginNext

\* A row written from what still stands shows the availability its statuses
\* give; other steps write no row.
LEMMA AvailabilityStep ==
  ASSUME PluginAssumption, PluginIInv, [PluginNext]_pluginVars
  PROVE  AvailabilityIsDerived'
PROOF
  <1> USE DEF PluginIInv, PluginTypeOK, AvailabilityIsDerived, Installed
  <1>1. CASE UNCHANGED <<installation, reliable>>
    BY <1>1
  <1>2. ASSUME NEW m \in Managers, UpsertInstallation(m)
        PROVE  AvailabilityIsDerived'
    <2>1. FreshRow.availability = Derived(FreshRow.desired, FreshRow.artifact, FreshRow.runtime)
      BY DEF FreshRow, Derived
    <2> HIDE DEF FreshRow
    <2> QED BY <1>2, <2>1 DEF UpsertInstallation
  <1>3. ASSUME NEW m \in Managers, RequestActive(m)
        PROVE  AvailabilityIsDerived'
    <2>1. undisturbed[m] /\ Stands(m, target[m]) => saw[m] = installation[target[m]]
      BY <1>3 DEF CopiesOK, CopyOK, RequestActive
    <2>2. PICK row \in InstallationRow :
            /\ WritesRow(m, row)
            /\ row.desired = "active_requested"
            /\ row.artifact = installation[target[m]].artifact
            /\ row.runtime = installation[target[m]].runtime
            /\ row.availability = Derived("active_requested", saw[m].artifact, saw[m].runtime)
      BY <1>3, RequestWrites
    <2>3. undisturbed[m] => row.availability = Derived(row.desired, row.artifact, row.runtime)
      BY <2>1, <2>2 DEF WritesRow
    <2> QED BY <2>2, <2>3 DEF WritesRow
  <1>4. ASSUME NEW m \in Managers, NEW runtime \in { "active", "load_failed" },
               RecordRuntime(m, runtime)
        PROVE  AvailabilityIsDerived'
    <2>1. undisturbed[m] /\ Stands(m, target[m]) => saw[m] = installation[target[m]]
      BY <1>4 DEF CopiesOK, CopyOK, RecordRuntime
    <2>2. PICK row \in InstallationRow :
            /\ WritesRow(m, row)
            /\ row.desired = installation[target[m]].desired
            /\ row.artifact = installation[target[m]].artifact
            /\ row.runtime = runtime
            /\ row.availability = Derived(saw[m].desired, saw[m].artifact, runtime)
      BY <1>4, RecordWrites
    <2>3. undisturbed[m] => row.availability = Derived(row.desired, row.artifact, row.runtime)
      BY <2>1, <2>2 DEF WritesRow
    <2> QED BY <2>2, <2>3 DEF WritesRow
  <1>5. ASSUME NEW m \in Managers, RecordArtifact(m)
        PROVE  AvailabilityIsDerived'
    <2>1. undisturbed[m] /\ Stands(m, target[m]) =>
            saw[m].availability = Derived(installation[target[m]].desired, saw[m].artifact,
                                          installation[target[m]].runtime)
      BY <1>5 DEF CopiesOK, CopyOK, RecordArtifact
    <2>2. PICK row \in InstallationRow :
            /\ WritesRow(m, row)
            /\ row.desired = installation[target[m]].desired
            /\ row.artifact = saw[m].artifact
            /\ row.runtime = installation[target[m]].runtime
            /\ row.availability = saw[m].availability
      BY <1>5, ArtifactWrites
    <2>3. undisturbed[m] => row.availability = Derived(row.desired, row.artifact, row.runtime)
      BY <2>1, <2>2 DEF WritesRow
    <2> QED BY <2>2, <2>3 DEF WritesRow
  <1>6. ASSUME NEW m \in Managers, NEW v \in Releases, DeleteInstallation(m, v)
        PROVE  AvailabilityIsDerived'
    BY <1>6 DEF DeleteInstallation
  <1> QED
    BY <1>1, <1>2, <1>3, <1>4, <1>5, <1>6, ZenonT(60)
       DEF PluginNext, pluginVars, pluginRows, BeginInstall, BeginEnable, BeginReconcile,
           BeginAssign, BeginInstance, BeginSwitch, CopyArtifact, EnableTarget, AssignPlugin,
           CreateInstance, MoveInstances, PointAssignment, AbandonOperation, BeginDelete,
           DeleteInstances, EraseFiles, LoseFiles, DeleteInstance

\* The inductive invariant holds of every reachable state.
THEOREM PluginInvariant == PluginSpec => []PluginIInv
PROOF
  <1>1. PluginInit => PluginIInv
    BY PluginAssumption, PluginInitially
  <1>2. PluginIInv /\ [PluginNext]_pluginVars => PluginIInv'
    BY PluginAssumption, PluginTypeStep, TargetsStep, ReadCopiesStep, AvailabilityStep DEF PluginIInv
  <1> QED BY <1>1, <1>2, PTL DEF PluginSpec

\* The availability a reliable row shows is the one its statuses give, whatever
\* managers, versions and instances there are.
THEOREM AvailabilityIsDerivedHolds == PluginSpec => []AvailabilityIsDerived
PROOF
  <1>1. PluginIInv => AvailabilityIsDerived
    BY DEF PluginIInv
  <1> QED BY <1>1, PluginInvariant, PTL

(* A manager nobody disturbed creates an instance of what is assigned, and  *)
(* points the assignment at what the instances were moved to.               *)
FamilyHeld ==
  \A m \in Managers : undivided[m] =>
    /\ managerStage[m] = "create" => assigned = target[m]
    /\ managerStage[m] = "point" => \A i \in Instances : instances[i] \in {NoRelease, target[m]}

FamilyIInv == PluginIInv /\ FamilyHeld /\ InstancesFollowAssignment

\* The instances stay on what is assigned through every step that leaves them
\* not stranded.
LEMMA FamilyStep == ASSUME FamilyIInv, [PluginNext]_pluginVars PROVE (FamilyHeld /\ InstancesFollowAssignment)'
PROOF
  <1> DEFINE Kept == FamilyHeld /\ InstancesFollowAssignment
  <1> USE DEF FamilyIInv, PluginIInv, PluginTypeOK, FamilyHeld, InstancesFollowAssignment,
              pluginVars, pluginRows, family, managing, Begins, Reads, Ends, Advances,
              NothingKnown, WritesFamily
  <1>1. ASSUME NEW m \in Managers, NEW v \in Releases, BeginInstall(m, v)
        PROVE  Kept'
    BY <1>1 DEF BeginInstall
  <1>2. ASSUME NEW m \in Managers, NEW v \in Releases, BeginEnable(m, v)
        PROVE  Kept'
    BY <1>2 DEF BeginEnable
  <1>3. ASSUME NEW m \in Managers, NEW v \in Releases, BeginReconcile(m, v)
        PROVE  Kept'
    BY <1>3 DEF BeginReconcile
  <1>4. ASSUME NEW m \in Managers, NEW v \in Releases, BeginAssign(m, v)
        PROVE  Kept'
    BY <1>4 DEF BeginAssign
  <1>5. ASSUME NEW m \in Managers, NEW v \in Releases, BeginInstance(m, v)
        PROVE  Kept'
    BY <1>5 DEF BeginInstance
  <1>6. ASSUME NEW m \in Managers, NEW v \in Releases, BeginSwitch(m, v)
        PROVE  Kept'
    BY <1>6 DEF BeginSwitch
  <1>7. ASSUME NEW m \in Managers, NEW v \in Releases, DeleteInstallation(m, v)
        PROVE  Kept'
    BY <1>7 DEF DeleteInstallation
  <1>8. ASSUME NEW m \in Managers, CopyArtifact(m)
        PROVE  Kept'
    BY <1>8 DEF CopyArtifact
  <1>9. ASSUME NEW m \in Managers, UpsertInstallation(m)
        PROVE  Kept'
    BY <1>9 DEF UpsertInstallation
  <1>10. ASSUME NEW m \in Managers, EnableTarget(m)
        PROVE  Kept'
    BY <1>10 DEF EnableTarget
  <1>11. ASSUME NEW m \in Managers, RequestActive(m)
        PROVE  Kept'
    BY <1>11 DEF RequestActive
  <1>12. ASSUME NEW m \in Managers, RecordArtifact(m)
        PROVE  Kept'
    BY <1>12 DEF RecordArtifact
  <1>13. ASSUME NEW m \in Managers, AssignPlugin(m)
        PROVE  Kept'
    BY <1>13 DEF AssignPlugin
  <1>14. ASSUME NEW m \in Managers, MoveInstances(m)
        PROVE  Kept'
    BY <1>14 DEF MoveInstances
  <1>15. ASSUME NEW m \in Managers, PointAssignment(m)
        PROVE  Kept'
    BY <1>15 DEF PointAssignment
  <1>16. ASSUME NEW m \in Managers, AbandonOperation(m)
        PROVE  Kept'
    BY <1>16 DEF AbandonOperation
  <1>17. ASSUME NEW m \in Managers, BeginDelete(m)
        PROVE  Kept'
    BY <1>17 DEF BeginDelete
  <1>18. ASSUME NEW m \in Managers, DeleteInstances(m)
        PROVE  Kept'
    BY <1>18 DEF DeleteInstances
  <1>19. ASSUME NEW m \in Managers, EraseFiles(m)
        PROVE  Kept'
    BY <1>19 DEF EraseFiles
  <1>20. ASSUME NEW m \in Managers, NEW runtime \in { "active", "load_failed" }, RecordRuntime(m, runtime)
        PROVE  Kept'
    BY <1>20 DEF RecordRuntime
  <1>21. ASSUME NEW m \in Managers, NEW i \in Instances, CreateInstance(m, i)
        PROVE  Kept'
    BY <1>21 DEF CreateInstance
  <1>22. ASSUME NEW v \in Releases, LoseFiles(v)
        PROVE  Kept'
    BY <1>22 DEF LoseFiles
  <1>23. ASSUME NEW i \in Instances, DeleteInstance(i)
        PROVE  Kept'
    BY <1>23 DEF DeleteInstance
  <1>24. CASE UNCHANGED pluginVars
    BY <1>24
  <1> QED
    BY <1>1, <1>2, <1>3, <1>4, <1>5, <1>6, <1>7, <1>8, <1>9, <1>10, <1>11, <1>12, <1>13, <1>14, <1>15, <1>16, <1>17, <1>18, <1>19, <1>20, <1>21, <1>22, <1>23, <1>24 DEF PluginNext

\* Whatever managers, versions and instances there are, every instance is of
\* the assigned version unless they were set apart.
THEOREM InstancesFollowAssignmentHolds == PluginSpec => []InstancesFollowAssignment
PROOF
  <1>1. PluginInit => FamilyIInv
    BY PluginAssumption, PluginInitially
       DEF PluginInit, FamilyIInv, FamilyHeld, InstancesFollowAssignment
  <1>2. FamilyIInv /\ [PluginNext]_pluginVars => FamilyIInv'
    BY PluginAssumption, PluginTypeStep, TargetsStep, ReadCopiesStep, AvailabilityStep, FamilyStep
       DEF FamilyIInv, PluginIInv
  <1>3. FamilyIInv => InstancesFollowAssignment
    BY DEF FamilyIInv
  <1> QED BY <1>1, <1>2, <1>3, PTL DEF PluginSpec

-----------------------------------------------------------------------------
(* MCControlPlane                                                           *)

(* Every step of the composition is a step of one component, while the      *)
(* others stay as they are: so each component behaves as it does by itself, *)
(* and keeps what it keeps by itself.                                       *)
Components ==
  /\ ReceiptSpec /\ FlowSpec /\ PublicSpec /\ PersisterSpec /\ ModelsSpec
  /\ SessionsSpec /\ StoresSpec /\ PluginSpec /\ CompilerSpec /\ QueueSpec
  /\ DataSourceSpec

\* A step of one is a step or a stutter of each.
LEMMA ControlStep ==
  ASSUME [ControlNext]_controlVars
  PROVE  /\ [ReceiptNext]_receiptVars
         /\ [FlowNext]_flowVars
         /\ [PublicNext]_publicVars
         /\ [PersisterNext]_persisterVars
         /\ [ModelsNext]_modelVars
         /\ [SessionsNext]_sessionVars
         /\ [StoresNext]_storesVars
         /\ [PluginNext]_pluginVars
         /\ [CompilerNext]_compilerVars
         /\ [QueueNext]_queueVars
         /\ [DataSourceNext]_sourceVars
PROOF
  <1>1. [ReceiptNext]_receiptVars
    BY Zenon DEF ControlNext, controlVars, Only, others
  <1>2. [FlowNext]_flowVars
    BY Zenon DEF ControlNext, controlVars, Only, others
  <1>3. [PublicNext]_publicVars
    BY Zenon DEF ControlNext, controlVars, Only, others
  <1>4. [PersisterNext]_persisterVars
    BY Zenon DEF ControlNext, controlVars, Only, others
  <1>5. [ModelsNext]_modelVars
    BY Zenon DEF ControlNext, controlVars, Only, others
  <1>6. [SessionsNext]_sessionVars
    BY Zenon DEF ControlNext, controlVars, Only, others
  <1>7. [StoresNext]_storesVars
    BY Zenon DEF ControlNext, controlVars, Only, others
  <1>8. [PluginNext]_pluginVars
    BY Zenon DEF ControlNext, controlVars, Only, others
  <1>9. [CompilerNext]_compilerVars
    BY Zenon DEF ControlNext, controlVars, Only, others
  <1>10. [QueueNext]_queueVars
    BY Zenon DEF ControlNext, controlVars, Only, others
  <1>11. [DataSourceNext]_sourceVars
    BY Zenon DEF ControlNext, controlVars, Only, others
  <1> QED BY <1>1, <1>2, <1>3, <1>4, <1>5, <1>6, <1>7, <1>8, <1>9, <1>10, <1>11, Zenon

\* The composition implements every component.
THEOREM ControlImplementsItsComponents == ControlSpec => Components
PROOF
  <1>1. ControlInit => /\ ReceiptInit
                       /\ FlowInit
                       /\ PublicInit
                       /\ PersisterInit
                       /\ ModelsInit
                       /\ SessionsInit
                       /\ StoresInit
                       /\ PluginInit
                       /\ CompilerInit
                       /\ QueueInit
                       /\ DataSourceInit
    BY Zenon DEF ControlInit
  <1>2. [ControlNext]_controlVars =>
          /\ [ReceiptNext]_receiptVars
          /\ [FlowNext]_flowVars
          /\ [PublicNext]_publicVars
          /\ [PersisterNext]_persisterVars
          /\ [ModelsNext]_modelVars
          /\ [SessionsNext]_sessionVars
          /\ [StoresNext]_storesVars
          /\ [PluginNext]_pluginVars
          /\ [CompilerNext]_compilerVars
          /\ [QueueNext]_queueVars
          /\ [DataSourceNext]_sourceVars
    BY ControlStep
  <1> QED
    BY <1>1, <1>2, PTL
       DEF ControlSpec, Components, ReceiptSpec, FlowSpec, PublicSpec, PersisterSpec, ModelsSpec, SessionsSpec, StoresSpec, PluginSpec, CompilerSpec, QueueSpec, DataSourceSpec

\* Every component's variables have their types, whichever is at work.
THEOREM TypesOKHolds == ControlSpec => []TypesOK
PROOF
  <1> DEFINE OnePart == part \in Parts
  <1>1. ControlInit => OnePart
    BY Zenon DEF ControlInit
  <1>2. OnePart /\ [ControlNext]_controlVars => OnePart'
    BY Zenon DEF ControlNext, controlVars, Only
  <1>3. /\ ReceiptTypeOK /\ FlowTypeOK /\ PublicTypeOK /\ PersisterTypeOK /\ ModelsTypeOK
        /\ SessionsTypeOK /\ StoresTypeOK /\ PluginTypeOK /\ CompilerTypeOK /\ QueueTypeOK
        /\ DataSourceTypeOK /\ OnePart
        => TypesOK
    BY DEF TypesOK, Parts
  <1>4. PersisterIInv => PersisterTypeOK
    BY DEF PersisterIInv
  <1>5. PluginIInv => PluginTypeOK
    BY DEF PluginIInv
  <1>6. QueueIInv => QueueTypeOK
    BY DEF QueueIInv
  <1> HIDE DEF OnePart
  <1> QED
    BY <1>1, <1>2, <1>3, <1>4, <1>5, <1>6, ControlImplementsItsComponents, ReceiptTyped, FlowTypes,
       PublicTypes, PersisterInvariant, ModelsTypes, SessionsTyped, StoresTypes, PluginInvariant,
       CompilerTypes, QueueInvariant, SourcesTypes, PTL
       DEF ControlSpec, Components

=============================================================================
