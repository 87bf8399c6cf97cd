-------------------------- MODULE PluginLifecycle --------------------------
(***************************************************************************)
(* The installed versions of one provider's plugin family in a workspace:  *)
(* their rows of plugin_installations, their files, the assignment that    *)
(* says which version the workspace uses, and the provider instances.      *)
(* Every operation is a sequence of statements, without a transaction and  *)
(* without a check that what it read still stands.                         *)
(*                                                                         *)
(*   Managers      requests that administer the family                     *)
(*   Releases      the family's versions                                   *)
(*   FirstRelease  the one install_official_plugin installed, enabled and  *)
(*                 assigned before; the others were uploaded               *)
(*   Instances     the provider instances users make                       *)
(*   MaxOperations bound: operations begun                                 *)
(***************************************************************************)
EXTENDS Naturals

CONSTANTS Managers, Releases, FirstRelease, Instances, NoRelease, MaxOperations

ASSUME PluginAssumption ==
  /\ FirstRelease \in Releases /\ NoRelease \notin Releases
  /\ MaxOperations \in Nat

VARIABLES
  installation,  \* the rows of plugin_installations
  artifact,      \* the version's files: its manifest and its package archive
  assigned,      \* plugin_assignments: the version the workspace uses
  instances,     \* model_provider_instances: the version each one uses
  managerStage, target, saw,
  switching,     \* whether the enable under way is the first part of a switch
  known,         \* what became of the rows a manager has read
  operations,
  undisturbed,   \* history: nobody wrote the row since the manager read it
  undivided,     \* history: nobody moved an instance or the assignment since
                 \*          the manager began
  reliable,      \* history: the row's last write was undisturbed
  stranded       \* history: instances and assignment have been set apart

pluginRows == <<installation, artifact, reliable>>
family == <<assigned, instances, stranded>>
managing == <<managerStage, target, saw, switching, known, operations, undisturbed, undivided>>
pluginVars == <<pluginRows, family, managing>>

\* The manifest in the version's directory, and the archive beside it that
\* official and uploaded versions keep: as installed, changed since, or lost.
Artifact == [manifest : { "no_directory", "none", "installed", "changed" },
             package : { "there", "gone", "changed" }]
NoFiles == [manifest |-> "no_directory", package |-> "gone"]
Intact == [manifest |-> "installed", package |-> "there"]
\* "staged" is never written.
ArtifactStatus == { "missing", "install_incomplete", "corrupted", "ready" }
AvailabilityStatus == { "disabled", "artifact_missing", "install_incomplete",
                  "load_failed", "available" }
NothingKnown == [v \in Releases |-> "unread"]
NotInstalled == [desired |-> "none", artifact |-> "missing", manifest |-> "none",
                 runtime |-> "inactive", availability |-> "disabled"]
\* "manifest" is the fingerprint the row expects of the manifest.
Installation ==
  {NotInstalled} \cup
  [desired : { "disabled", "active_requested" }, artifact : ArtifactStatus,
   manifest : { "installed", "changed" },
   runtime : { "inactive", "active", "load_failed" }, availability : AvailabilityStatus]

\* The row of a version that was just installed.
FreshRow == [desired |-> "disabled", artifact |-> "ready", manifest |-> "installed",
             runtime |-> "inactive", availability |-> "disabled"]

PluginTypeOK ==
  /\ installation \in [Releases -> Installation]
  /\ artifact \in [Releases -> Artifact]
  /\ assigned \in Releases \cup {NoRelease}
  /\ instances \in [Instances -> Releases \cup {NoRelease}]
  /\ managerStage \in [Managers ->
       { "idle", "copy", "upsert", "enable", "request", "load", "record", "assign",
         "move", "point", "create", "clear", "delete", "erase" }]
  /\ known \in [Managers -> [Releases -> { "unread", "there", "deleted", "gone" }]]
  /\ target \in [Managers -> Releases \cup {NoRelease}]
  /\ saw \in [Managers -> Installation]
  /\ switching \in [Managers -> BOOLEAN]
  /\ operations \in 0 .. MaxOperations
  /\ undisturbed \in [Managers -> BOOLEAN] /\ undivided \in [Managers -> BOOLEAN]
  /\ reliable \in [Releases -> BOOLEAN] /\ stranded \in BOOLEAN

PluginInit ==
  /\ installation = [v \in Releases |->
       IF v = FirstRelease
       THEN [FreshRow EXCEPT !.desired = "active_requested", !.runtime = "active",
                             !.availability = "available"]
       ELSE FreshRow]
  /\ artifact = [v \in Releases |-> Intact]
  /\ assigned = FirstRelease
  /\ instances = [i \in Instances |-> NoRelease]
  /\ managerStage = [m \in Managers |-> "idle"]
  /\ target = [m \in Managers |-> NoRelease]
  /\ saw = [m \in Managers |-> NotInstalled]
  /\ switching = [m \in Managers |-> FALSE]
  /\ known = [m \in Managers |-> NothingKnown]
  /\ operations = 0
  /\ undisturbed = [m \in Managers |-> TRUE] /\ undivided = [m \in Managers |-> TRUE]
  /\ reliable = [v \in Releases |-> TRUE] /\ stranded = FALSE

-----------------------------------------------------------------------------
\* derive_availability_status, for plugins that need no restart
Derived(desired, files, runtime) ==
  CASE desired = "disabled" -> "disabled"
    [] desired # "disabled" /\ files = "missing" -> "artifact_missing"
    [] desired # "disabled" /\ files \in { "install_incomplete", "corrupted" } ->
         "install_incomplete"
    [] desired # "disabled" /\ files = "ready" ->
         CASE runtime = "active" -> "available"
           [] runtime = "load_failed" -> "load_failed"
           [] runtime = "inactive" -> "install_incomplete"

\* reconcile_provider_artifact: the manifest is held against the row's
\* fingerprint before the archive is looked at
HasManifest(files) == files.manifest \in { "installed", "changed" }

Inspected(files, expected) ==
  CASE files.manifest = "no_directory" -> "missing"
    [] files.manifest = "none" -> "install_incomplete"
    [] HasManifest(files) /\ files.manifest # expected -> "corrupted"
    [] HasManifest(files) /\ files.manifest = expected ->
         CASE files.package = "gone" -> "install_incomplete"
           [] files.package = "changed" -> "corrupted"
           [] files.package = "there" -> "ready"

Installed(v) == installation[v] # NotInstalled

\* The row is still the one manager m knows: a version that was deleted and
\* installed again has another id, by which every statement but an install's
\* goes.
Stands(m, v) == known[m][v] = "there"

\* Manager m reads v's row, if there is one, and goes on to a stage.
Reads(m, v, stage) ==
  /\ managerStage' = [managerStage EXCEPT ![m] = stage]
  /\ target' = [target EXCEPT ![m] = v]
  /\ saw' = [saw EXCEPT ![m] = installation[v]]
  /\ known' = [known EXCEPT ![m] = [NothingKnown EXCEPT ![v] = "there"]]
  /\ undisturbed' = [undisturbed EXCEPT ![m] = TRUE]

\* An idle manager begins an operation on v with a read of its row.
Begins(m, v, stage) ==
  /\ managerStage[m] = "idle"
  /\ operations < MaxOperations /\ operations' = operations + 1
  /\ Reads(m, v, stage)
  /\ undivided' = [undivided EXCEPT ![m] = TRUE]

\* Mutant of WritesRow: the row keeps the availability it had.
WritesRowWithoutAvailability(m, row) ==
  /\ Stands(m, target[m])
  /\ installation' = [installation EXCEPT ![target[m]] =
       [row EXCEPT !.availability = installation[target[m]].availability]]
  /\ reliable' = [reliable EXCEPT ![target[m]] = undisturbed[m]]
  /\ undisturbed' = [x \in Managers |-> x = m \/ (undisturbed[x] /\ target[x] # target[m])]

\* Manager m writes the row of its target, which others may have read.
WritesRow(m, row) ==
  /\ Stands(m, target[m])
  /\ installation' = [installation EXCEPT ![target[m]] = row]
  /\ reliable' = [reliable EXCEPT ![target[m]] = undisturbed[m]]
  /\ undisturbed' = [x \in Managers |-> x = m \/ (undisturbed[x] /\ target[x] # target[m])]

\* Manager m writes instances or the assignment.
WritesFamily(m) == undivided' = [x \in Managers |-> x = m /\ undivided[x]]

Advances(m, from, to) ==
  /\ managerStage[m] = from
  /\ managerStage' = [managerStage EXCEPT ![m] = to]
  /\ UNCHANGED <<target, saw, switching, known, operations>>

Ends(m) ==
  /\ managerStage' = [managerStage EXCEPT ![m] = "idle"]
  /\ target' = [target EXCEPT ![m] = NoRelease]
  /\ saw' = [saw EXCEPT ![m] = NotInstalled]
  /\ switching' = [switching EXCEPT ![m] = FALSE]
  /\ known' = [known EXCEPT ![m] = NothingKnown]
  /\ UNCHANGED operations

\* install_plugin_with_metadata: the archive is written, the directory removed
\* and made again, file by file, then the row is inserted, or reset to a
\* disabled one
BeginInstall(m, v) ==
  /\ Begins(m, v, "copy")
  /\ UNCHANGED <<pluginRows, family, switching>>

CopyArtifact(m) ==
  /\ \/ Advances(m, "copy", "upsert") /\ artifact' = [artifact EXCEPT ![target[m]] = Intact]
     \/ /\ managerStage[m] = "copy" /\ Ends(m)
        /\ \/ artifact' = [artifact EXCEPT ![target[m]].package = "changed"]
           \/ \E copied \in { "no_directory", "none", "installed" } :
                artifact' = [artifact EXCEPT ![target[m]] =
                               [manifest |-> copied, package |-> "there"]]
  /\ UNCHANGED <<installation, reliable, family, undisturbed, undivided>>

UpsertInstallation(m) ==
  /\ managerStage[m] = "upsert" /\ Ends(m)
  /\ installation' = [installation EXCEPT ![target[m]] = FreshRow]
  /\ reliable' = [reliable EXCEPT ![target[m]] = TRUE]
  /\ undisturbed' = [x \in Managers |-> x = m \/ (undisturbed[x] /\ target[x] # target[m])]
  /\ UNCHANGED <<artifact, family, undivided>>

\* enable_plugin: the desired state is written with an availability computed
\* from the row read first; the runtime's answer, from the row just written
BeginEnable(m, v) ==
  /\ Installed(v)
  /\ Begins(m, v, "request") /\ switching' = [switching EXCEPT ![m] = FALSE]
  /\ UNCHANGED <<pluginRows, family>>

RequestActive(m) ==
  LET row == [installation[target[m]] EXCEPT
                !.desired = "active_requested",
                !.availability = Derived("active_requested", saw[m].artifact, saw[m].runtime)]
  IN /\ managerStage[m] = "request"
     /\ managerStage' = [managerStage EXCEPT ![m] = "load"]
     /\ WritesRow(m, row)
     /\ saw' = [saw EXCEPT ![m] = row]
     /\ UNCHANGED <<artifact, family, target, switching, known, operations, undivided>>

\* The switch is over when the version could not be loaded.
RecordRuntime(m, runtime) ==
  /\ managerStage[m] = "load"
  /\ WritesRow(m, [installation[target[m]] EXCEPT
                     !.runtime = runtime,
                     !.availability = Derived(saw[m].desired, saw[m].artifact, runtime)])
  /\ IF switching[m] /\ runtime = "active" THEN Advances(m, "load", "move") ELSE Ends(m)
  /\ UNCHANGED <<artifact, family, undivided>>

\* reconcile_installation_snapshot, by whoever reads the catalog or calls the
\* provider: the files are inspected, with no await after the row's read, and
\* the row is written when they differ. The fingerprint of the manifest that
\* was found becomes the one the row expects, also when it is not the one it
\* expected.
BeginReconcile(m, v) ==
  LET status == Inspected(artifact[v], installation[v].manifest)
      found == [installation[v] EXCEPT
                  !.artifact = status,
                  !.availability = Derived(installation[v].desired, status,
                                           installation[v].runtime),
                  !.manifest = IF HasManifest(artifact[v]) THEN artifact[v].manifest ELSE @]
  IN /\ Installed(v) /\ found # installation[v]
     /\ managerStage[m] = "idle"
     /\ operations < MaxOperations /\ operations' = operations + 1
     /\ managerStage' = [managerStage EXCEPT ![m] = "record"]
     /\ target' = [target EXCEPT ![m] = v] /\ saw' = [saw EXCEPT ![m] = found]
     /\ known' = [known EXCEPT ![m] = [NothingKnown EXCEPT ![v] = "there"]]
     /\ undisturbed' = [undisturbed EXCEPT ![m] = TRUE]
     /\ UNCHANGED <<pluginRows, family, switching, undivided>>

RecordArtifact(m) ==
  /\ managerStage[m] = "record"
  /\ WritesRow(m, [installation[target[m]] EXCEPT
                     !.artifact = saw[m].artifact, !.availability = saw[m].availability,
                     !.manifest = saw[m].manifest])
  /\ Ends(m)
  /\ UNCHANGED <<artifact, family, undivided>>

-----------------------------------------------------------------------------
\* create_assignment: upsert on (workspace, provider)
BeginAssign(m, v) ==
  /\ Installed(v) /\ installation[v].desired # "disabled"
  /\ Begins(m, v, "assign")
  /\ UNCHANGED <<pluginRows, family, switching>>

AssignPlugin(m) ==
  /\ managerStage[m] = "assign" /\ Stands(m, target[m]) /\ Ends(m)
  /\ assigned' = target[m]
  /\ stranded' = (\/ stranded \/ ~undivided[m]
                  \/ assigned # target[m] /\ \E i \in Instances : instances[i] # NoRelease)
  /\ WritesFamily(m)
  /\ UNCHANGED <<pluginRows, instances, undisturbed>>

\* Mutant of BeginInstance: on any installation that is enabled.
BeginInstanceAnywhere(m, v) ==
  /\ installation[v].desired \notin { "none", "disabled" } /\ HasManifest(artifact[v])
  /\ Begins(m, v, "create")
  /\ UNCHANGED <<pluginRows, family, switching>>

\* create_instance: on the installation the workspace is assigned, whose
\* package is loaded from its directory, whatever an inspection would say
BeginInstance(m, v) ==
  /\ assigned = v /\ installation[v].desired # "disabled" /\ HasManifest(artifact[v])
  /\ Begins(m, v, "create")
  /\ UNCHANGED <<pluginRows, family, switching>>

CreateInstance(m, i) ==
  /\ managerStage[m] = "create" /\ Stands(m, target[m]) /\ Ends(m)
  /\ instances[i] = NoRelease /\ instances' = [instances EXCEPT ![i] = target[m]]
  /\ stranded' = (stranded \/ ~undivided[m])
  /\ WritesFamily(m)
  /\ UNCHANGED <<pluginRows, assigned, undisturbed>>

\* switch_version, upgrade_latest: a disabled target is enabled first
BeginSwitch(m, v) ==
  /\ assigned \notin {v, NoRelease} /\ Installed(v)
  /\ Begins(m, v, IF installation[v].desired = "disabled" THEN "enable" ELSE "move")
  /\ switching' = [switching EXCEPT ![m] = TRUE]
  /\ UNCHANGED <<pluginRows, family>>

EnableTarget(m) ==
  /\ managerStage[m] = "enable" /\ Stands(m, target[m])
  /\ Reads(m, target[m], "request")
  /\ UNCHANGED <<pluginRows, family, switching, operations, undivided>>

\* reassign_instances_to_installation, once the target's package is read
MoveInstances(m) ==
  /\ Advances(m, "move", "point")
  /\ HasManifest(artifact[target[m]])
  /\ Stands(m, target[m]) \/ \A i \in Instances : instances[i] = NoRelease
  /\ instances' = [i \in Instances |->
                     IF instances[i] = NoRelease THEN NoRelease ELSE target[m]]
  /\ stranded' = (stranded \/ \E i \in Instances : instances[i] # NoRelease)
  /\ WritesFamily(m)
  /\ UNCHANGED <<pluginRows, assigned, undisturbed>>

PointAssignment(m) ==
  /\ managerStage[m] = "point" /\ Stands(m, target[m]) /\ Ends(m)
  /\ assigned' = target[m]
  /\ stranded' = ~undivided[m]
  /\ WritesFamily(m)
  /\ UNCHANGED <<pluginRows, instances, undisturbed>>

-----------------------------------------------------------------------------
\* delete_instance: not while a flow refers to it
DeleteInstance(i) ==
  /\ instances[i] # NoRelease
  /\ instances' = [instances EXCEPT ![i] = NoRelease]
  /\ UNCHANGED <<pluginRows, assigned, stranded, managing>>

\* delete_family: the family's rows are listed, its instances listed and
\* deleted, then each row that was listed, then the files of them all
BeginDelete(m) ==
  /\ managerStage[m] = "idle" /\ \E v \in Releases : Installed(v)
  /\ operations < MaxOperations /\ operations' = operations + 1
  /\ managerStage' = [managerStage EXCEPT ![m] = "clear"]
  /\ known' = [known EXCEPT ![m] =
       [v \in Releases |-> IF Installed(v) THEN "there" ELSE "unread"]]
  /\ undivided' = [undivided EXCEPT ![m] = TRUE]
  /\ UNCHANGED <<pluginRows, family, target, saw, switching, undisturbed>>

DeleteInstances(m) ==
  /\ Advances(m, "clear", "delete")
  /\ instances' = [i \in Instances |-> NoRelease]
  /\ WritesFamily(m)
  /\ UNCHANGED <<pluginRows, assigned, stranded, undisturbed>>

\* A row that an instance uses is held; an assignment goes with its row.
DeleteInstallation(m, v) ==
  /\ managerStage[m] = "delete" /\ Stands(m, v)
  /\ \A i \in Instances : instances[i] # v
  /\ installation' = [installation EXCEPT ![v] = NotInstalled]
  /\ assigned' = IF assigned = v THEN NoRelease ELSE assigned
  /\ known' = [x \in Managers |->
       CASE x = m -> [known[x] EXCEPT ![v] = "deleted"]
         [] x # m /\ Stands(x, v) -> [known[x] EXCEPT ![v] = "gone"]
         [] x # m /\ ~Stands(x, v) -> known[x]]
  /\ managerStage' = [managerStage EXCEPT ![m] =
       IF \E u \in Releases : known'[m][u] \in { "there", "gone" } THEN "delete" ELSE "erase"]
  /\ reliable' = [reliable EXCEPT ![v] = TRUE]
  /\ WritesFamily(m)
  /\ UNCHANGED <<artifact, instances, stranded, target, saw, switching, operations, undisturbed>>

EraseFiles(m) ==
  /\ managerStage[m] = "erase" /\ Ends(m)
  /\ artifact' = [v \in Releases |-> IF known[m][v] = "deleted" THEN NoFiles ELSE artifact[v]]
  /\ UNCHANGED <<installation, reliable, family, undisturbed, undivided>>

\* A statement fails, or the process dies: what was written stays.
AbandonOperation(m) ==
  /\ managerStage[m] # "idle" /\ Ends(m)
  /\ UNCHANGED <<pluginRows, family, undisturbed, undivided>>

\* The version's directory or its manifest is lost, or the manifest changed;
\* or its archive is lost or changed. Bound: one loss at a time.
LoseFiles(v) ==
  /\ \A u \in Releases : artifact[u] \in {Intact, NoFiles}
  /\ artifact[v] = Intact
  /\ \/ \E found \in { "no_directory", "none", "changed" } :
          artifact' = [artifact EXCEPT ![v].manifest = found]
     \/ \E found \in { "gone", "changed" } :
          artifact' = [artifact EXCEPT ![v].package = found]
  /\ UNCHANGED <<installation, reliable, family, managing>>

PluginNext ==
  \/ \E m \in Managers, v \in Releases :
       \/ BeginInstall(m, v) \/ BeginEnable(m, v) \/ BeginReconcile(m, v)
       \/ BeginAssign(m, v) \/ BeginInstance(m, v) \/ BeginSwitch(m, v)
       \/ DeleteInstallation(m, v)
  \/ \E m \in Managers :
       \/ CopyArtifact(m) \/ UpsertInstallation(m)
       \/ EnableTarget(m) \/ RequestActive(m)
       \/ \E runtime \in { "active", "load_failed" } : RecordRuntime(m, runtime)
       \/ RecordArtifact(m)
       \/ AssignPlugin(m) \/ \E i \in Instances : CreateInstance(m, i)
       \/ MoveInstances(m) \/ PointAssignment(m) \/ AbandonOperation(m)
       \/ BeginDelete(m) \/ DeleteInstances(m) \/ EraseFiles(m)
  \/ \E v \in Releases : LoseFiles(v)
  \/ \E i \in Instances : DeleteInstance(i)

PluginSpec == PluginInit /\ [][PluginNext]_pluginVars

-----------------------------------------------------------------------------
\* The availability a row shows, which is what every caller of a provider goes
\* by, is the one its three statuses give, whatever installs, enables,
\* inspections and failures came before, unless the last write of the row was
\* computed from a row that somebody had written over in the meantime: an enable
\* that read the row before a reinstall reset it shows an availability they do
\* not give, until the next inspection.
AvailabilityIsDerived ==
  \A v \in Releases : Installed(v) /\ reliable[v] =>
    installation[v].availability =
      Derived(installation[v].desired, installation[v].artifact, installation[v].runtime)

\* Every instance uses the version its workspace is assigned, without which no
\* call through it is let through, unless an assignment replaced another one,
\* a switch is or was left between its two writes, or operations overlapped.
\* A switch nobody disturbs brings instances and assignment together again.
InstancesFollowAssignment ==
  ~stranded => \A i \in Instances : instances[i] \in {NoRelease, assigned}

=============================================================================
