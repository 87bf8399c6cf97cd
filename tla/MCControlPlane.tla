--------------------------- MODULE MCControlPlane ---------------------------
(***************************************************************************)
(* The components of the control plane that share no state, each with its  *)
(* own processes, side by side: a behaviour is a behaviour of one of them, *)
(* chosen in the initial state, while the others stay as they begin.       *)
(***************************************************************************)
EXTENDS SideEffectReceipt, FlowPublication, PublicRunRequests, EventPersister,
        RuntimeModels, Sessions, EphemeralStores, PluginLifecycle,
        FlowCompiler, FailoverQueue, DataSources

LOCAL INSTANCE TLC

VARIABLE part

\* The requests that administer plugins are alike.
PluginSymmetry == Permutations(Managers)

Parts == { "receipt", "flow", "public", "persister", "models", "sessions",
           "stores", "plugins", "compiler", "queue", "sources" }

others(p) ==
  /\ IF p = "receipt" THEN TRUE ELSE UNCHANGED receiptVars
  /\ IF p = "flow" THEN TRUE ELSE UNCHANGED flowVars
  /\ IF p = "public" THEN TRUE ELSE UNCHANGED publicVars
  /\ IF p = "persister" THEN TRUE ELSE UNCHANGED persisterVars
  /\ IF p = "models" THEN TRUE ELSE UNCHANGED modelVars
  /\ IF p = "sessions" THEN TRUE ELSE UNCHANGED sessionVars
  /\ IF p = "stores" THEN TRUE ELSE UNCHANGED storesVars
  /\ IF p = "plugins" THEN TRUE ELSE UNCHANGED pluginVars
  /\ IF p = "compiler" THEN TRUE ELSE UNCHANGED compilerVars
  /\ IF p = "queue" THEN TRUE ELSE UNCHANGED queueVars
  /\ IF p = "sources" THEN TRUE ELSE UNCHANGED sourceVars

Only(p) == UNCHANGED part /\ others(p)

ControlInit ==
  /\ part \in Parts
  /\ ReceiptInit /\ FlowInit /\ PublicInit /\ PersisterInit /\ ModelsInit
  /\ SessionsInit /\ StoresInit /\ PluginInit /\ CompilerInit /\ QueueInit
  /\ DataSourceInit

ControlNext ==
  \/ part = "receipt" /\ ReceiptNext /\ Only("receipt")
  \/ part = "flow" /\ FlowNext /\ Only("flow")
  \/ part = "public" /\ PublicNext /\ Only("public")
  \/ part = "persister" /\ PersisterNext /\ Only("persister")
  \/ part = "models" /\ ModelsNext /\ Only("models")
  \/ part = "sessions" /\ SessionsNext /\ Only("sessions")
  \/ part = "stores" /\ StoresNext /\ Only("stores")
  \/ part = "plugins" /\ PluginNext /\ Only("plugins")
  \/ part = "compiler" /\ CompilerNext /\ Only("compiler")
  \/ part = "queue" /\ QueueNext /\ Only("queue")
  \/ part = "sources" /\ DataSourceNext /\ Only("sources")

controlVars == <<receiptVars, flowVars, publicVars, persisterVars, modelVars,
                 sessionVars, storesVars, pluginVars, compilerVars, queueVars,
                 sourceVars, part>>

ControlSpec == ControlInit /\ [][ControlNext]_controlVars

\* Every variable of the component at work has its type.
TypesOK ==
  CASE part = "receipt" -> ReceiptTypeOK
    [] part = "flow" -> FlowTypeOK
    [] part = "public" -> PublicTypeOK
    [] part = "persister" -> PersisterTypeOK
    [] part = "models" -> ModelsTypeOK
    [] part = "sessions" -> SessionsTypeOK
    [] part = "stores" -> StoresTypeOK
    [] part = "plugins" -> PluginTypeOK
    [] part = "compiler" -> CompilerTypeOK
    [] part = "queue" -> QueueTypeOK
    [] part = "sources" -> DataSourceTypeOK

=============================================================================
