---------------------------- MODULE DataSources ----------------------------
(***************************************************************************)
(* The external data sources of a workspace, made from one plugin's        *)
(* installation: a row whose configuration names, by markers, the version  *)
(* of the secret its values are in, the secret in a row of its own, and    *)
(* the catalog the source was found to offer.  Making a source, validating *)
(* it and mapping a resource to a model are several statements each, with  *)
(* calls of the plugin in between; a rotation of the secret is one         *)
(* transaction.                                                            *)
(*                                                                         *)
(*   Admins        requests that administer data sources                   *)
(*   Sources       the sources they make                                   *)
(*   MaxRotations  bound: the rotations of a source's secret               *)
(***************************************************************************)
EXTENDS Naturals

CONSTANTS Admins, Sources, NoSource, MaxRotations

ASSUME DataSourceAssumption == NoSource \notin Sources /\ MaxRotations \in Nat

VARIABLES
  sourceStatus, \* the status of the row: "new", "draft", "ready" or "deleted"
  marker,       \* the secret version the markers of its configuration name
  secret,       \* its secret: the version and which one it is, 0 for the one
                \* the source was made with
  catalog,      \* which secret its cached catalog was discovered with
  mapped,       \* the sources with a data model mapped to them
  adminStage, aim, secretSeen,
  rotations,    \* history: the rotations of each source
  overwritten   \* history: the sources whose first secret came after a rotation

sourceRows == <<sourceStatus, marker, secret, catalog, mapped>>
administering == <<adminStage, aim, secretSeen>>
sourceVars == <<sourceRows, administering, rotations, overwritten>>

Secret == [version : 0 .. MaxRotations + 1, number : 0 .. MaxRotations]
NoSecret == [version |-> 0, number |-> 0]
NoCatalog == MaxRotations + 1

DataSourceTypeOK ==
  /\ sourceStatus \in [Sources -> { "new", "draft", "ready", "deleted" }]
  /\ marker \in [Sources -> 0 .. MaxRotations + 1]
  /\ secret \in [Sources -> Secret]
  /\ catalog \in [Sources -> 0 .. NoCatalog]
  /\ mapped \subseteq Sources
  /\ adminStage \in [Admins ->
       { "idle", "secret", "rotate", "validate", "test", "catalog", "map" }]
  /\ aim \in [Admins -> Sources \cup {NoSource}]
  /\ secretSeen \in [Admins -> Secret]
  /\ rotations \in [Sources -> 0 .. MaxRotations]
  /\ overwritten \subseteq Sources

DataSourceInit ==
  /\ sourceStatus = [s \in Sources |-> "new"]
  /\ marker = [s \in Sources |-> 0]
  /\ secret = [s \in Sources |-> NoSecret]
  /\ catalog = [s \in Sources |-> NoCatalog]
  /\ mapped = {}
  /\ adminStage = [a \in Admins |-> "idle"]
  /\ aim = [a \in Admins |-> NoSource]
  /\ secretSeen = [a \in Admins |-> NoSecret]
  /\ rotations = [s \in Sources |-> 0]
  /\ overwritten = {}

-----------------------------------------------------------------------------
Exists(s) == sourceStatus[s] \in { "draft", "ready" }

AdminGoes(a, from, to) ==
  /\ adminStage[a] = from
  /\ adminStage' = [adminStage EXCEPT ![a] = to]
  /\ UNCHANGED <<aim, secretSeen>>

AdminBegins(a, s, stage) ==
  /\ adminStage[a] = "idle"
  /\ adminStage' = [adminStage EXCEPT ![a] = stage]
  /\ aim' = [aim EXCEPT ![a] = s]
  /\ UNCHANGED secretSeen

AdminEnds(a) ==
  /\ adminStage' = [adminStage EXCEPT ![a] = "idle"]
  /\ aim' = [aim EXCEPT ![a] = NoSource]
  /\ secretSeen' = [secretSeen EXCEPT ![a] = NoSecret]

\* create_instance: the row, whose markers name version 1, ...
CreateSource(a, s) ==
  /\ sourceStatus[s] = "new"
  /\ AdminBegins(a, s, "secret")
  /\ sourceStatus' = [sourceStatus EXCEPT ![s] = "draft"]
  /\ marker' = [marker EXCEPT ![s] = 1]
  /\ UNCHANGED <<secret, catalog, mapped, rotations, overwritten>>

\* ... then the secret, as version 1 of whatever is there.
UpsertSecret(a) ==
  LET s == aim[a]
  IN /\ adminStage[a] = "secret" /\ Exists(s) /\ AdminEnds(a)
     /\ secret' = [secret EXCEPT ![s] = [version |-> 1, number |-> 0]]
     /\ overwritten' = IF rotations[s] = 0 THEN overwritten ELSE overwritten \cup {s}
     /\ UNCHANGED <<sourceStatus, marker, catalog, mapped, rotations>>

\* rotate_secret: the source is looked up, then one transaction locks its
\* row, raises the version in the store and refreshes the markers.
BeginRotation(a, s) ==
  /\ Exists(s)
  /\ AdminBegins(a, s, "rotate")
  /\ UNCHANGED <<sourceRows, rotations, overwritten>>

\* Mutant of RotateSecret: the markers keep the version they named.
RotateSecretOnly(a) ==
  LET s == aim[a]
      version == secret[s].version + 1
  IN /\ adminStage[a] = "rotate" /\ Exists(s) /\ AdminEnds(a)
     /\ rotations[s] < MaxRotations
     /\ rotations' = [rotations EXCEPT ![s] = @ + 1]
     /\ secret' = [secret EXCEPT ![s] = [version |-> version, number |-> rotations[s] + 1]]
     /\ overwritten' = overwritten \ {s}
     /\ UNCHANGED <<sourceStatus, marker, catalog, mapped>>

RotateSecret(a) ==
  LET s == aim[a]
      version == secret[s].version + 1
  IN /\ adminStage[a] = "rotate" /\ Exists(s) /\ AdminEnds(a)
     /\ rotations[s] < MaxRotations
     /\ rotations' = [rotations EXCEPT ![s] = @ + 1]
     /\ secret' = [secret EXCEPT ![s] = [version |-> version, number |-> rotations[s] + 1]]
     /\ marker' = [marker EXCEPT ![s] = version]
     /\ overwritten' = overwritten \ {s}
     /\ UNCHANGED <<sourceStatus, catalog, mapped>>

-----------------------------------------------------------------------------
\* validate_instance: the row is read, then the secret; the plugin is called
\* with both; the status is written, then the catalog.
BeginValidation(a, s) ==
  /\ Exists(s)
  /\ AdminBegins(a, s, "validate")
  /\ UNCHANGED <<sourceRows, rotations, overwritten>>

ReadSecret(a) ==
  /\ adminStage[a] = "validate"
  /\ adminStage' = [adminStage EXCEPT ![a] = "test"]
  /\ secretSeen' = [secretSeen EXCEPT ![a] = secret[aim[a]]]
  /\ UNCHANGED <<sourceRows, aim, rotations, overwritten>>

\* The plugin took the configuration, connected and told its catalog.
SetReady(a) ==
  /\ AdminGoes(a, "test", "catalog")
  /\ Exists(aim[a])
  /\ sourceStatus' = [sourceStatus EXCEPT ![aim[a]] = "ready"]
  /\ UNCHANGED <<marker, secret, catalog, mapped, rotations, overwritten>>

UpsertCatalog(a) ==
  /\ adminStage[a] = "catalog" /\ Exists(aim[a]) /\ AdminEnds(a)
  /\ catalog' = [catalog EXCEPT ![aim[a]] = secretSeen[a].number]
  /\ UNCHANGED <<sourceStatus, marker, secret, mapped, rotations, overwritten>>

\* map_resource_to_model: the plugin describes a resource, a model is made
\* for it, whose row refers to the source's.  The grant and the fields that
\* follow are rows of the model.
BeginMapping(a, s) ==
  /\ Exists(s)
  /\ AdminBegins(a, s, "map")
  /\ UNCHANGED <<sourceRows, rotations, overwritten>>

CreateMappedModel(a) ==
  /\ adminStage[a] = "map" /\ Exists(aim[a]) /\ AdminEnds(a)
  /\ mapped' = mapped \cup {aim[a]}
  /\ UNCHANGED <<sourceStatus, marker, secret, catalog, rotations, overwritten>>

\* The models mapped to a source are deleted.
DropMappedModels(s) ==
  /\ s \in mapped
  /\ mapped' = mapped \ {s}
  /\ UNCHANGED <<sourceStatus, marker, secret, catalog, administering, rotations, overwritten>>

\* A statement or a call of the plugin fails, or the process dies; what was
\* written stays.
AbandonSource(a) ==
  /\ adminStage[a] # "idle" /\ AdminEnds(a)
  /\ UNCHANGED <<sourceRows, rotations, overwritten>>

\* The installation's row is deleted, and with it its sources, their secrets
\* and catalogs, unless a model refers to one.
UninstallPlugin ==
  /\ mapped = {} /\ \E s \in Sources : Exists(s)
  /\ sourceStatus' = [s \in Sources |-> IF Exists(s) THEN "deleted" ELSE sourceStatus[s]]
  /\ secret' = [s \in Sources |-> NoSecret]
  /\ catalog' = [s \in Sources |-> NoCatalog]
  /\ UNCHANGED <<marker, mapped, administering, rotations, overwritten>>

DataSourceNext ==
  \/ \E a \in Admins, s \in Sources :
       CreateSource(a, s) \/ BeginRotation(a, s) \/ BeginValidation(a, s) \/ BeginMapping(a, s)
  \/ \E a \in Admins :
       \/ UpsertSecret(a) \/ RotateSecret(a)
       \/ ReadSecret(a) \/ SetReady(a) \/ UpsertCatalog(a)
       \/ CreateMappedModel(a) \/ AbandonSource(a)
  \/ \E s \in Sources : DropMappedModels(s)
  \/ UninstallPlugin

DataSourceSpec == DataSourceInit /\ [][DataSourceNext]_sourceVars

-----------------------------------------------------------------------------
\* The secret a source has is the last one it was rotated to, under the
\* version its configuration names, whatever rotations, validations and
\* half-made sources met; except from a first secret that came after a
\* rotation until the next rotation.
SecretIsTheLatest ==
  \A s \in Sources : Exists(s) /\ s \notin overwritten =>
    /\ secret[s].number = rotations[s]
    /\ secret[s] # NoSecret => marker[s] = secret[s].version

=============================================================================
