--------------------------- MODULE RuntimeModels ---------------------------
(***************************************************************************)
(* A data model: its row, its field rows and its table in the store, the   *)
(* runtime registry of the process, which every mutation rebuilds once it  *)
(* is committed, and the callers that write records by what the registry   *)
(* shows.  A rebuild reads the store in several statements and repairs the *)
(* availability the row carries.                                           *)
(*                                                                         *)
(*   Editors    requests that change the model, and then rebuild           *)
(*   Callers    requests that write a record                               *)
(*   Fields     the model's fields beyond the platform's                   *)
(*   MaxModels  bound: the models made, one after the other, of one code   *)
(*   MaxChanges bound: the mutations of the store                          *)
(***************************************************************************)
EXTENDS Naturals

CONSTANTS Editors, Callers, Fields, MaxModels, MaxChanges

ASSUME ModelsAssumption == MaxModels \in Nat \ {0} /\ MaxChanges \in Nat

VARIABLES
  modelRow,     \* the row of model_definitions with the code
  modelFields,  \* its rows of model_fields
  table,        \* the model's physical table: its columns
  made,         \* the models made so far, which are their ids
  grants,       \* the models with an enabled grant
  registered,   \* what the registry shows for the code
  editorStage, snapshot,
  callerStage, call,
  changes,      \* the mutations so far
  alone,        \* history: whether nothing has happened since an editor's listing
  settled,      \* history: nothing has happened since a rebuild that was alone
  written       \* history: the records written, as [model, grant]

store == <<modelRow, modelFields, table, made>>
editing == <<editorStage, snapshot, changes>>
calling == <<callerStage, call, written>>
modelVars == <<store, grants, registered, editing, calling, alone, settled>>

ModelIds == 1 .. MaxModels
Status == { "draft", "published" }
Absent == [id |-> 0, status |-> "draft", availability |-> "unavailable"]
NoTable == [id |-> 0, columns |-> {}]
Unregistered == [id |-> 0, status |-> "draft", fields |-> {}]
NoSnapshot == [row |-> Absent, fields |-> {}, healthy |-> FALSE]
NoCall == [granted |-> 0, metadata |-> Unregistered]

Row == [id : 0 .. MaxModels, status : Status,
        availability : { "available", "unavailable", "broken" }]
Metadata == [id : 0 .. MaxModels, status : Status, fields : SUBSET Fields]

ModelsTypeOK ==
  /\ modelRow \in Row /\ modelFields \subseteq Fields
  /\ made \in 0 .. MaxModels /\ changes \in 0 .. MaxChanges
  /\ table \in [id : 0 .. MaxModels, columns : SUBSET Fields]
  /\ grants \subseteq ModelIds
  /\ registered \in Metadata
  /\ editorStage \in [Editors ->
       { "idle", "audit", "grant", "fields", "rows", "inspect", "refresh", "install" }]
  /\ snapshot \in [Editors -> [row : Row, fields : SUBSET Fields, healthy : BOOLEAN]]
  /\ callerStage \in [Callers -> { "idle", "authorize", "load", "write" }]
  /\ call \in [Callers -> [granted : 0 .. MaxModels, metadata : Metadata]]
  /\ alone \in [Editors -> BOOLEAN] /\ settled \in BOOLEAN
  /\ written \subseteq [model : ModelIds, grant : 0 .. MaxModels]

ModelsInit ==
  /\ modelRow = Absent /\ modelFields = {} /\ table = NoTable
  /\ made = 0 /\ changes = 0
  /\ grants = {} /\ registered = Unregistered
  /\ editorStage = [e \in Editors |-> "idle"]
  /\ snapshot = [e \in Editors |-> NoSnapshot]
  /\ callerStage = [c \in Callers |-> "idle"]
  /\ call = [c \in Callers |-> NoCall]
  /\ alone = [e \in Editors |-> FALSE] /\ settled = TRUE
  /\ written = {}

-----------------------------------------------------------------------------
EditorAt(e, label) == editorStage[e] = label
EditorGoes(e, label) == editorStage' = [editorStage EXCEPT ![e] = label]

\* Something happens that a rebuild under way, but e's own, may miss.
Disturb(e) ==
  /\ alone' = [x \in Editors |-> x = e /\ alone[x]]
  /\ settled' = FALSE

\* A mutation of the store by an idle editor, which goes on to its audit log,
\* or which ends here with the error the caller gets: no rebuild follows.
Mutates(e, label) ==
  /\ EditorAt(e, "idle") /\ EditorGoes(e, label)
  /\ changes < MaxChanges /\ changes' = changes + 1
  /\ Disturb(e)
  /\ UNCHANGED <<registered, snapshot, calling>>

\* create_model_definition: row and table in one transaction.  When that
\* fails, the row alone is inserted.
CreateModel(e) ==
  /\ modelRow = Absent /\ made < MaxModels /\ made' = made + 1
  /\ \E status \in Status :
       \/ /\ modelRow' = [id |-> made', status |-> status, availability |-> "available"]
          /\ table' = [id |-> made', columns |-> {}]
          /\ Mutates(e, "audit")
       \/ /\ modelRow' = [id |-> made', status |-> status, availability |-> "broken"]
          /\ UNCHANGED table
          /\ Mutates(e, "idle")
  /\ UNCHANGED <<modelFields, grants>>

UpdateModelStatus(e) ==
  /\ modelRow # Absent
  /\ \E status \in Status : modelRow' = [modelRow EXCEPT !.status = status]
  /\ Mutates(e, "audit")
  /\ UNCHANGED <<modelFields, table, made, grants>>

\* add_model_field: row and column.  A column that is refused (one that is
\* required, on a table with records) leaves the row alone.
AddField(e, f) ==
  /\ modelRow # Absent /\ f \notin modelFields
  /\ modelFields' = modelFields \cup {f}
  /\ \/ /\ table.id # 0
        /\ table' = [table EXCEPT !.columns = @ \cup {f}]
        /\ Mutates(e, "audit")
     \/ Mutates(e, "idle") /\ UNCHANGED table
  /\ UNCHANGED <<modelRow, made, grants>>

\* delete_model_field: drop column if exists
DeleteField(e, f) ==
  /\ modelRow # Absent /\ f \in modelFields
  /\ modelFields' = modelFields \ {f}
  /\ table.id # 0
  /\ table' = [table EXCEPT !.columns = @ \ {f}]
  /\ Mutates(e, "audit")
  /\ UNCHANGED <<modelRow, made, grants>>

\* delete_model_definition: the field rows and the grants go with the row.
DeleteModel(e) ==
  /\ modelRow # Absent
  /\ modelRow' = Absent /\ modelFields' = {} /\ table' = NoTable
  /\ grants' = grants \ {modelRow.id}
  /\ Mutates(e, "audit")
  /\ UNCHANGED made

\* The audit log of a mutation; a creation then inserts the model's grant.
\* An error of either ends the request before the rebuild.
AppendAudit(e) ==
  /\ EditorAt(e, "audit")
  /\ \E label \in { "idle", "grant", "fields" } : EditorGoes(e, label)
  /\ UNCHANGED <<store, grants, registered, snapshot, changes, calling, alone, settled>>

CreateGrant(e) ==
  /\ EditorAt(e, "grant")
  /\ \/ /\ modelRow # Absent
        /\ grants' = grants \cup {modelRow.id}
        /\ EditorGoes(e, "fields")
     \/ EditorGoes(e, "idle") /\ UNCHANGED grants
  /\ UNCHANGED <<store, registered, snapshot, changes, calling, alone, settled>>

\* Grants are given and taken without a rebuild.
ChangeGrant ==
  /\ modelRow # Absent
  /\ grants' \in { grants \cup {modelRow.id}, grants \ {modelRow.id} }
  /\ UNCHANGED <<store, registered, editing, calling, alone, settled>>

-----------------------------------------------------------------------------
(* ApiRuntimeRegistrySync::rebuild                                         *)

\* A rebuild that fails on the way leaves the registry as it is.
RebuildFails(e) ==
  /\ editorStage[e] \in { "fields", "rows", "inspect", "refresh" }
  /\ EditorGoes(e, "idle")
  /\ snapshot' = [snapshot EXCEPT ![e] = NoSnapshot]
  /\ alone' = [alone EXCEPT ![e] = FALSE]
  /\ UNCHANGED <<store, grants, registered, changes, calling, settled>>

ListFields(e) ==
  /\ EditorAt(e, "fields") /\ EditorGoes(e, "rows")
  /\ snapshot' = [snapshot EXCEPT ![e].fields = modelFields]
  /\ alone' = [alone EXCEPT ![e] = TRUE]
  /\ UNCHANGED <<store, grants, registered, changes, calling, settled>>

\* The field rows are those of the listed model's id.
ListRows(e) ==
  /\ EditorAt(e, "rows")
  /\ EditorGoes(e, IF modelRow = Absent THEN "install" ELSE "inspect")
  /\ snapshot' = [snapshot EXCEPT ![e].row = modelRow]
  /\ UNCHANGED <<store, grants, registered, changes, calling, alone, settled>>

\* A model is healthy when it has its table, and a column for every field.
Healthy(row, fields) == table.id = row.id /\ fields \subseteq table.columns

InspectTable(e) ==
  /\ EditorAt(e, "inspect") /\ EditorGoes(e, "refresh")
  /\ snapshot' = [snapshot EXCEPT ![e].healthy = Healthy(snapshot[e].row, snapshot[e].fields)]
  /\ UNCHANGED <<store, grants, registered, changes, calling, alone, settled>>

Availability(healthy) == IF healthy THEN "available" ELSE "unavailable"

\* Mutant of RefreshHealth: what was found unavailable stays so.
RefreshHealthDownOnly(e) ==
  /\ EditorAt(e, "refresh") /\ EditorGoes(e, "install")
  /\ IF ~ snapshot[e].healthy /\ modelRow.id = snapshot[e].row.id
       THEN modelRow' = [modelRow EXCEPT !.availability = "unavailable"] /\ Disturb(e)
       ELSE UNCHANGED <<modelRow, alone, settled>>
  /\ UNCHANGED <<modelFields, table, made, grants, registered, snapshot, changes, calling>>

\* The row is written only when what was listed differs from what was found.
RefreshHealth(e) ==
  LET found == Availability(snapshot[e].healthy)
  IN  /\ EditorAt(e, "refresh") /\ EditorGoes(e, "install")
      /\ IF snapshot[e].row.availability # found /\ modelRow.id = snapshot[e].row.id
           THEN modelRow' = [modelRow EXCEPT !.availability = found] /\ Disturb(e)
           ELSE UNCHANGED <<modelRow, alone, settled>>
      /\ UNCHANGED <<modelFields, table, made, grants, registered, snapshot, changes, calling>>

\* What a model that is not healthy, or not there, is replaced by.
RegisteredAs(row, fields, healthy) ==
  IF healthy THEN [id |-> row.id, status |-> row.status, fields |-> fields]
  ELSE Unregistered

\* RuntimeModelRegistry::rebuild replaces the registry.
Install(e) ==
  /\ EditorAt(e, "install") /\ EditorGoes(e, "idle")
  /\ registered' = RegisteredAs(snapshot[e].row, snapshot[e].fields, snapshot[e].healthy)
  /\ alone' = [x \in Editors |-> FALSE]
  /\ settled' = alone[e]
  /\ snapshot' = [snapshot EXCEPT ![e] = NoSnapshot]
  /\ UNCHANGED <<store, grants, changes, calling>>

-----------------------------------------------------------------------------
(* A caller: the route authorizes it by the registry, the engine loads the *)
(* model from the registry again.                                          *)

CallerGoes(c, label) == callerStage' = [callerStage EXCEPT ![c] = label]

ResolveModel(c) ==
  /\ callerStage[c] = "idle" /\ registered # Unregistered
  /\ CallerGoes(c, "authorize")
  /\ call' = [call EXCEPT ![c].metadata = registered]
  /\ UNCHANGED <<store, grants, registered, editing, alone, settled, written>>

LoadScopeGrant(c) ==
  /\ callerStage[c] = "authorize" /\ CallerGoes(c, "load")
  /\ call' = [call EXCEPT ![c] = [granted |->
       IF call[c].metadata.id \in grants THEN call[c].metadata.id ELSE 0,
       metadata |-> Unregistered]]
  /\ UNCHANGED <<store, grants, registered, editing, alone, settled, written>>

\* Mutant of Accessible: any enabled grant will do.
AccessibleByAny(metadata, granted) == granted # 0

\* resolve_access_scope
Accessible(metadata, granted) == granted # 0 /\ granted = metadata.id

\* load_available_metadata, resolve_access_scope
LoadMetadata(c) ==
  /\ callerStage[c] = "load"
  /\ IF /\ registered # Unregistered /\ registered.status = "published"
        /\ Accessible(registered, call[c].granted)
       THEN CallerGoes(c, "write") /\ call' = [call EXCEPT ![c].metadata = registered]
       ELSE CallerGoes(c, "idle") /\ call' = [call EXCEPT ![c] = NoCall]
  /\ UNCHANGED <<store, grants, registered, editing, alone, settled, written>>

\* The insert names the columns of the metadata's fields.  A table or a
\* column that is missing marks the model, if it is still there.
WriteModelRecord(c) ==
  /\ callerStage[c] = "write" /\ CallerGoes(c, "idle")
  /\ call' = [call EXCEPT ![c] = NoCall]
  /\ IF Healthy(call[c].metadata, call[c].metadata.fields)
       THEN /\ written' = written \cup
                 {[model |-> call[c].metadata.id, grant |-> call[c].granted]}
            /\ UNCHANGED <<modelRow, alone, settled>>
       ELSE /\ IF modelRow.id = call[c].metadata.id
                 THEN /\ modelRow' = [modelRow EXCEPT !.availability = "unavailable"]
                      /\ alone' = [x \in Editors |-> FALSE] /\ settled' = FALSE
                 ELSE UNCHANGED <<modelRow, alone, settled>>
            /\ UNCHANGED written
  /\ UNCHANGED <<modelFields, table, made, grants, registered, editing>>

ModelsNext ==
  \/ \E e \in Editors :
       \/ CreateModel(e) \/ UpdateModelStatus(e) \/ DeleteModel(e)
       \/ \E f \in Fields : AddField(e, f) \/ DeleteField(e, f)
       \/ AppendAudit(e) \/ CreateGrant(e)
       \/ RebuildFails(e) \/ ListFields(e) \/ ListRows(e)
       \/ InspectTable(e) \/ RefreshHealth(e) \/ Install(e)
  \/ ChangeGrant
  \/ \E c \in Callers :
       ResolveModel(c) \/ LoadScopeGrant(c) \/ LoadMetadata(c) \/ WriteModelRecord(c)

ModelsSpec == ModelsInit /\ [][ModelsNext]_modelVars

-----------------------------------------------------------------------------
\* After a rebuild that met no other change on its way, and until the next
\* change, the registry shows the model of the store with all its fields, or
\* none if the model is not there or lacks a column, and the row carries that
\* availability, whatever earlier rebuilds, overlapped or failed, had left.
RegistryFollowsStore ==
  settled =>
    /\ registered = RegisteredAs(modelRow, modelFields,
                      modelRow # Absent /\ Healthy(modelRow, modelFields))
    /\ modelRow # Absent =>
         modelRow.availability = Availability(Healthy(modelRow, modelFields))

\* A record is written under an enabled grant of the model it goes into,
\* though the registry may have been rebuilt between the look for the grant
\* and the load of the model.
WrittenUnderOwnGrant == \A w \in written : w.grant = w.model

=============================================================================
