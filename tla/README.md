# TLA+ models of 7flows

7flows (1flowbase) is a server for agent flows. A user draws a flow of nodes, the
server compiles it to a plan and runs it, in a debug session or as a published
API; a run suspends at nodes that wait for a human or a callback, and streams its
events to its clients. The modules here model the part of the API server
(`src/api`) where tasks race, fail and wait for each other. TLC checks them on
small instances; TLAPS proves every invariant and action property of the
passing runs for every instance (section 5; liveness stays with TLC).

## 1. The system

| component | state | operations | where |
|---|---|---|---|
| flow run lifecycle | rows `flow_runs`, `node_runs`, `flow_run_checkpoints`, `flow_run_callback_tasks`, `flow_run_events` | open shell, prepare, start, continue, fail, cancel | `crates/control-plane/src/orchestration_runtime/live_debug_run/`, `orchestration_runtime.rs`, `crates/storage-durable/postgres/.../flow_run_methods.rs` |
| resume and callbacks | the same rows | `resume_flow_run`, `complete_callback_task`, `persist_flow_debug_outcome` | `orchestration_runtime.rs`, `persistence.rs`, `crates/orchestration-runtime/src/execution_engine.rs` |
| runtime event stream | per run: ring, next sequence, closed flag, broadcast channel | open, append, subscribe, replay, close, trim | `apps/api-server/src/host_infrastructure/local_runtime_event_stream.rs` |
| stream consumers | position, batch of events | SSE sender, persister with delta coalescing, fallback for a failed task | `apps/api-server/src/routes/applications/`, `orchestration_runtime/runtime_event_persister.rs` |
| data model side effects | `data_model_side_effect_receipts`, the confirmation's callback task | claim, write, store outcome, replay, expire | `orchestration_runtime/data_model_runtime.rs`, `.../side_effect_receipt_methods.rs` |
| flows and publications | draft, version history, publications | save, restore, protect, trim, publish | `crates/storage-durable/postgres/src/flow_repository.rs`, `application_public_api/publications.rs` |
| published run API | API keys, publications, run rows, audit | authenticate, load the publication, create (idempotency key), start, cancel, resume | `application_public_api/`, `routes/application_public_api/` |
| models and runtime registry | model and field rows, physical tables, grants, the registry of the process | mutate a model, rebuild the registry, write a record | `model_definition/service.rs`, `runtime_registry_sync.rs`, `crates/runtime-core/` |
| sessions | session records, the user's session version | login, check of a request, logout, revocation, change of password, switch of workspace | `auth.rs`, `session_security/`, `workspace_session/`, `middleware/require_session.rs` |
| ephemeral stores | task queue, leases, rate limits, sessions, all in memory | enqueue, claim, ack, fail; acquire, renew, release | `crates/storage-ephemeral/` |
| plugin lifecycle and runner | installation rows, package directories, assignment, provider instances; child processes | install, enable, reconcile, assign, switch, delete; stdio calls | `plugin_lifecycle.rs`, `plugin_management/`, `apps/plugin-runner/` |
| model provider failover | queue snapshot in a plan | attempt loop | `model_provider/`, `execution_engine.rs` |
| data sources | source row, secret row, cached catalog, models mapped to it | make, rotate the secret, validate, map a resource, uninstall | `data_source.rs`, `.../data_source_repository.rs` |
| compiler, bindings | none (pure) | draft to plan, payload to payload | `crates/orchestration-runtime/` |
| billing session, resource kernel, boot, files, members | see `PROJECT.json` | | |

How they interact. A debug request opens a *shell* (a queued run without a plan)
and spawns a task that prepares it (compile, attach the plan, mark it running)
and continues it (the loop over the plan's nodes). A published run is created
queued with its plan, and each start request continues it in its own task.
Cancel, resume and callback requests are tasks of their own. All of them meet in
the run's rows, through an async store without transactions across calls, and in
the run's event stream. Nothing else synchronises them: what protects a run is
the compare-and-set of some updates, the transition tables of
`state_transition.rs` and the order of the writes.

Around the runs: an editor saves drafts, and publishing freezes one into a version
and a publication; a request of the published API looks up the publication, then
creates a run from its plan. The executor of a run calls model providers through the
failover queue of its plan (the installation a call goes to is the one the plugin
lifecycle says is available), and writes records under a receipt, through the runtime
registry that every change of a data model rebuilds. A debug run's event stream is
copied to the durable log by the persister. Every request of the console passes the
session check. These components hand each other rows and read-only snapshots and
share no other state, so each is a module of its own.

What is hard: every status is read, then something slow happens, then the status
is written; some writes are conditional and others are not; the announcement of
an end is a sequence of three effects (stream event, stream close, durable
event) after the status; a wait is three rows; an answer is marked before it is
applied. Outside the runs it is the same pattern with other rows: a publication is
four transactions, a switch of version three, a rebuild reads in five statements
what others change, a session is read, checked and written back, and an effect
outside the database can happen though its call returned an error. `PROJECT.json`
lists each such hazard at its line with the property that covers it, or the reason
none does yet.

## 2. The modules

| module | what it models |
|---|---|
| `RunStatus` | statuses of runs and node runs and the transition tables of `state_transition.rs` |
| `FlowRun` | one run: its rows, its stream's terminal marker, and all tasks that work on it |
| `MCFlowRun` | plans for TLC |
| `FlowRunProofs` | types, the labels tasks reach, plans before execution |
| `FlowRunTaskProofs` | what tasks read, hold and announce; cancels and answers |
| `FlowRunNodeProofs` | node rows, waits, progress through the plan |
| `EventFeed` | what an event stream promises a reader (abstract) |
| `EventStream` | the in-memory stream of one run: ring, broadcast, subscriptions |
| `EventFeedProofs`, `EventStreamProofs` | a reader is never skipped; the stream implements the feed |
| `SideEffectReceipt` | the write of a data model node, its receipt and its confirmation |
| `FlowPublication` | the draft of a flow, its version history and its publications |
| `PublicRunRequests` | creation of runs through the published API |
| `EventPersister` | the task that copies a run's stream into the durable log, a reader of `EventFeed` |
| `RuntimeModels` | a data model's rows and table, the runtime registry, calls that write records |
| `Sessions` | the console sessions of one user |
| `EphemeralStores` | the task queue and the lock of the in-memory store |
| `PluginLifecycle` | the installed versions of one provider's plugin, their files, assignment and instances |
| `FlowCompiler` | the compiler's topological sort |
| `FailoverQueue` | the attempts of one llm node |
| `DataSources` | external data sources, their secrets and catalogs |
| `MCControlPlane` | the eleven modules above side by side, for TLC |
| `Subsequence`, `SubsequenceProofs` | what is left of a sequence when entries are removed (`Vec::retain`, `filter`), and what the models need to know of it |
| `ExecutionProofs` | proofs about what an execution goes through: `FlowCompiler`, `FailoverQueue`, `SideEffectReceipt`, `EventPersister`, `EphemeralStores` |
| `ControlPlaneProofs` | proofs about what a run is made from: `RuntimeModels`, `PublicRunRequests`, `FlowPublication`, `DataSources`, `Sessions`, `PluginLifecycle`; and about `MCControlPlane` |

### FlowRun and the code

The granularity is one action per access to the store or the stream between two
`await`s, so every interleaving of tasks is a behaviour. `pc` names the next
access of a task; the guards are the code's conditions and early returns.

| variable | code |
|---|---|
| `status`, `plan` | `flow_runs.status`, `compiled_plan_id` (the topological order of node kinds) |
| `nodeRuns` | `node_runs` in creation order; `node` is the position in the plan |
| `checkpoints` | node run and `next_node_index` of `flow_run_checkpoints` |
| `tasks`, `completed` | callback tasks, each named by the node run that waits |
| `runEvents` | `flow_run_*` and `public_run_cancelled` events of the durable log |
| `terminals`, `closed` | terminal events the event stream accepted, and whether it is closed |
| `seen`, `from`, `waiter`, `idx`, `cur`, `out`, `stop`, `phase` | locals of a task: the status and rows it read, its position, the outcome it will persist, the error handling it is in |
| `reached`, `late` | history variables, read by properties only |

Actions by group: `Prepare`, `Attach`, `FailShell`, `Started` (preparation.rs);
`StartRead`, `StartCas`, `PublicStarted` (`start_published_flow_run`); `Begin`,
`LoopHead`, `CreateNodeRun`, `ExecuteNode`, `CheckCancelled`, `CreateCheckpoint`,
`CreateCallbackTask`, `WriteOutcome`, `Finish` (continuation.rs); `Emit`, `Close`,
`Record`, `LoadRunDetail` (the announcement every path shares); `FailFlowRun`,
`ReportError`, `CallFails` (errors); `CancelRead`, `CancelCas`, `AuditCancel`
(`cancel_flow_run`, and `cancel_published_run` for `ApiCancellers`);
`ResumeRead`, `ResumeLoad`, `CompleteCallbackTask`, `CompleteLoad`,
`CompleteDetail`, `Confirm`, `FailWaitingNode`, `Engine` (resume and callback
requests); `Trigger` to `ResumeWrite` (`persist_flow_debug_outcome`).

Node types that behave alike share a kind: `start` stands for template and answer
nodes too, `llm` for plugin nodes, `tool` for `http_request`. What a node does is a
choice among the outcomes its code can store. The engine of a resume is pure and
is one step, which leads to every outcome the rest of the plan allows, or to
`Err`. Payloads, variables, spans, usage ledgers, billing audits and log lines
are left out: nothing in the control of a run reads them.

A crash, a deploy or a dropped request is a task that takes no further step:
`Spec` has no fairness, so every safety property holds of the rows such a task
leaves behind. `Faults` lets any fallible call of an executor return `Err`.

### EventStream and the code

One run's `LocalRunEventStream`. An append is two actions, because it takes its
sequence number and stores the event under the ring's lock (`AppendEvent`, with the
overflow it causes) and broadcasts after the lock is released (`Broadcast`). A
subscription is three (`Subscribe` joins the broadcast, `Replay` copies the ring or
refuses the cursor, `CheckClosed`), and its forwarding task two per event
(`Receive` or `Lagged`, then `Refill` from the ring): nothing holds the lock across
them. `CloseRun` follows a task's terminal event, as in `FlowRun`; `Trim` is the
operation of the trait, with the values of `keep_required` its callers pass.

| variable | code |
|---|---|
| `log` | history: the kind of each event ever appended; `next_sequence` is its length plus one |
| `ring`, `closed` | `ring` as a set of sequences (it is ordered by them), `closed` |
| `sent`, `pos` | the broadcast channel and a receiver's position in it; a receiver that is more than `Capacity` behind gets `Lagged` (tokio, external) |
| `pc`, `holding` | an appender between its lock and its broadcast |
| `st`, `last`, `pending` | a subscription, `last_sent_sequence`, the event `recv` returned |
| `start`, `got` | history: the cursor it subscribed with, the sequences its consumer was handed |

An event is ephemeral (`flow_accepted`, heartbeats), required, or required and terminal.
`Overflowed` is the loop of `trim_overflow` in closed form: an optional event stays
when enough older optional ones go. The consumer is the SSE sender or the persister;
both stop at a terminal event, and a client may go at any time: `Leave`, after which
`Subscribe` is its return from a sequence it knows.

`EventFeed` is the abstract view: a log that grows until it is closed, and readers
that receive it in order, each event once, with no required event left out. `Feed` in
`EventStream` is its instance, with the variables of the same name.

### The components around the runs

In all of them an action is one statement of the store, or one call that returns, and
a process carries what it has read from one action to the next. A crash, an error or a
client that goes away is an action that ends a process, or a process that takes no
further step. Variables marked *history* are read by properties only.

**SideEffectReceipt.** `receipt`, `storedBy` are the status and output of the row with
the idempotency key (`side_effect_idempotency_key`: run, node, action, payload hash);
`consent`, `offered` the callback task that confirms a write and its expiry;
`effects` (history) who really wrote. `ClaimReceipt` is the insert `on conflict do nothing`,
`ReadReceipt` its second statement, `WriteRecord` the write in the main or an external
source, whose error does not say that nothing was written; `StoreSuccess` and
`StoreFailure` update the row only while it is pending. `DeleteApplication` cascades
to the receipts, and a claim after it meets the foreign key.

**FlowPublication.** `draft`, `versions`, `publications`; `SaveLogical` and `RestoreVersion` are
each one transaction, that appends a version and trims the history (`Trimmed`) and is
undone when the trim meets a version a publication refers to (`on delete restrict`,
`SaveFits`). Publishing is `ReadDraft`, `FreezeDraft`, `ProtectVersion`,
`InsertPublication`. History: `lifted` (an editor took the protection away) and
`overtaken` (the draft was written between freeze and protection).

**PublicRunRequests.** `keyState`, `appEnabled`, `published` are what the console
changes; a request walks through `AuthenticateKey`, `LoadPublication`,
`BindConversation`, `FindRun`, `CreateRun`. History, in the request and then the run:
`began` (runs there when it began), `served` and `offered` (what could be called meanwhile).

**EventPersister.** `streamEvents`, `feedClosed` are the stream; `Feed` instantiates
`EventFeed` for the persister alone, and every event it takes is a `Deliver` step of it. That
is what `EventStream` is shown to implement, so the persister is checked against the
stream's promise and not against one implementation. `pendingBatch` is the batch,
`durable` the stored records, each the set of the sequences joined in it; `Flush`
empties the batch before the store answers; `lost` (history) is what a failed store took.
`PersistedOnce` counts a batch that was lost with its store as dropped, as the code does;
the design wants it stored again (section 4).

**RuntimeModels.** `modelRow`, `modelFields`, `table` are the store, `registered` what the
registry shows. A mutation is one commit (`CreateModel` ... `DeleteModel`), after which
`AppendAudit` may fail and no rebuild begins; a rebuild is `ListFields`, `ListRows`,
`InspectTable`, `RefreshHealth` (which repairs the row's availability), `Install`, and
may fail before any of them. `AddField` can store the row and then be refused the column. A call
is `ResolveModel`, `LoadScopeGrant`, `LoadMetadata`, `WriteModelRecord`, with a
second look into the registry in the third. History: `alone`, `settled`, `written`.

**Sessions.** `user` is the row with its `session_version`, `sessionStore` the record of each
session. `AuthenticateUser` and `IssueSession` are the two halves of a login;
`GetSession`, `FindUser`, `DiscardSession` the check of every request
(`require_session`); what an accepted visit does is an action of its own per statement
(`Logout`, `RevokeAll`, `VerifyOldPassword`, `ChangePassword`, `DeleteSession`, `ReadForSwitch`,
`PutSwitched`). Records expire (`TimeOut`). History: `revoked`, `loggedOut`.

**EphemeralStores.** `taskQueue`, `tasks`, `taskIndex` are the maps of `MemoryTaskQueue`,
`lease` the entry of `MemoryLeaseStore`. Each call holds the store's mutex, so it is one
action; `ClaimExpires` and `LeaseExpires` let time pass between any two.
`DropExpiredLease` is a renewal that comes too late; one in time changes only the clock.
History: `working`, `locking`, what a worker may take for its own.

**PluginLifecycle.** `installation` is the row with its four statuses and the fingerprint it
expects of the manifest, `artifact` what is on disk: the manifest (as installed, changed, or
gone with or without its directory) and the archive beside it. `Inspected` is what
`reconcile_provider_artifact` says of the two, and an inspection stores the
fingerprint it found with its verdict. A package is loaded whenever its manifest can be read
(`HasManifest`), whatever an inspection would say. `assigned` the workspace's version, `instances` the provider instances. Operations
are sequences that begin with a read (`BeginInstall`, `BeginEnable`, `BeginReconcile`,
`BeginAssign`, `BeginInstance`, `BeginSwitch`, `BeginDelete`), write by id
what they computed from it, and may be abandoned anywhere. `known` is what became of the
rows a manager has read: a version that was deleted and installed again has another id
(`Stands`). A row that an instance uses cannot be deleted; an assignment goes with its
row. `Derived` is `derive_availability_status` for plugins that need no restart. History:
`undisturbed`, `reliable`, `undivided`, `stranded`.

**FlowCompiler.** `TakeEdge` takes in the edges one by one (`adjacency`, `indegree`,
`dependencies`), `SeedQueue`, `OrderNode` and `EndOrder` are Kahn's queue.
`OrderIsTopological` compares the outcome with a definition over the
dependencies alone. Binding dependencies, branches and node contents are left out.

**FailoverQueue.** `route`, `failover` are the plan's frozen targets; `ProviderDelta` and
`ProviderError` happen while a provider's process runs; `CallFails` and `CallReturns` are the
two ways `invoke_llm` comes back. `spoke` (history) is whose deltas reached the stream.

**DataSources.** `sourceStatus`, `marker`, `secret`, `catalog`, `mapped` are the rows: the
source with the secret version its configuration names, its secret, its cached
catalog, the models mapped to it. `secret` tells which secret a version holds by a number, 0 for the
one it was made with. `CreateSource` and `UpsertSecret` are the two writes of
`create_instance`, `RotateSecret` the one transaction of a rotation; a validation is
`ReadSecret`, `SetReady`, `UpsertCatalog` with the plugin's calls in between, and a mapping
ends in `CreateMappedModel`. `UninstallPlugin` cascades from the installation's row and meets
the restricting reference of a mapped model. History: `rotations`, and `overwritten` (the first
secret came after a rotation).

## 3. The runs

| run | instance | checks |
|---|---|---|
| `executor` | 1 executor with faults, a console cancel and one of the published API; a plan that runs to its end over three kinds of node, and plans that end in either wait | `ExecutionHasPlan`, `LogIsTruthful`, `ClosedStreamHasTerminal`, `AtMostOneNodeAfterCancel`, `CancelSparesFinished`, `CancelledShellIsFinal` |
| `resume` | 1 executor, a cancel, a resume request and two callback answers; plans that wait twice, that resume through an llm, and that resume into a node the engine refuses | `TypeOK`, `WaitingRunIsResumable`, `NothingSkipped`, `OneAnswerPerTask`, `FinishedNodeStaysFinished` |
| `liveness` | 2 executors of one run and a console cancel, fair | `StartsFromQueued`, `RunSettles`, `SettledRunClosesStream` |
| `event_stream` | 2 appenders, 1 consumer, a ring of 2, a channel of 1, 3 events of any kinds; fair | `TypeOK`, `RingHoldsRequired`, `RingBounded`, `NoLostWakeup`, `FeedSpec`, `RequiredDelivered` |
| `stream_ended` | 1 appender, 1 consumer, 1 event | `EndedSawEverything` violated, see section 4 |
| `control_plane` | the eleven modules around the runs, two or three processes each | `TypesOK` and the nineteen properties below |
| `failover_answer` | one llm node with a route of three targets | `AnswerIsOfOneTarget` violated, see section 4 |
| `terminal`, `answer`, `stream`, `api_cancel`, `audit` | 1 executor and one other task | one violated expectation each, see section 4 |

Bounds. The number of tasks and the length of the plans bound everything else: no
counter in the code needs a cap. Plans of two to four nodes contain every kind in
front of and behind a wait, which is all that the code distinguishes; two answers
and one resume are enough for every pairwise race on one wait, and the second
wait of `<<"human_input", "tool">>` makes an answer meet the rows of an earlier
resume. The two answers are symmetric in `resume` (a safety run). What the bounds
leave open is covered by the proofs, which have none.

`event_stream`: a ring of two overflows at the third event, with the dropped event old
or just appended; two appenders broadcast out of order; a channel of one makes the
receiver lag as soon as it is two behind; the one consumer subscribes at every
point, leaves and returns without limit. Subscriptions share nothing, so one is
enough. `MaxAppends` is the only cap, and the proofs hold for every value of it.

`control_plane` chooses one component in the initial state (`part`) and lets it alone
move: they share no variable, so no interleaving of two of them is lost, and the
states of the run (1.1 million) are the sum of those of the components. What each checks, and
why its bounds are enough:

| component | properties | bounds |
|---|---|---|
| receipts | `WrittenAtMostOnce`, `AnswerIsTheEffect` | `Writers` 3: a holder, one that crashes or replays, one that comes after the row is gone; one key that is confirmed and one that is not |
| publications | `PublishedVersionIsKept`, `PublicationServesItsVersion` | 2 `Documents` to tell apart, 2 `Publishers`, `HistoryLimit` 1 (30 in the code) so that the first save trims, `MaxVersions` 3: one more than the limit, and one that is published |
| published requests | `RunsOnServedVersion`, `RetryCreatesNoRun` | 2 `Requests`, 2 `ApiKeys`, one idempotency key: every property speaks of two runs; `MaxPublications` 2: one may be replaced |
| persister | `PersistedOnce`, `RecordsFollowTheStream` | 2 `DeltaNodes`, `MaxStreamEvents` 4: two deltas joined, one between, one after |
| models | `RegistryFollowsStore`, `WrittenUnderOwnGrant` | 2 `Editors` (overlapping rebuilds), 1 caller, 1 field, `MaxModels` 2 (a model and its successor of the same code), `MaxChanges` 3 |
| sessions | `RevokedIsRefused`, `LoggedOutStaysOut` | 2 `Logins`, 2 `Visits`, `MaxVersion` 3: two revocations |
| stores | `HeldByOne`, `TaskOfKeyIsOne` | 3 `Workers`: a late one, the holder, a rival; `MaxTasks` 3 with one key and without |
| plugins | `AvailabilityIsDerived`, `InstancesFollowAssignment` | 2 `Managers` (symmetric), 2 `Releases` (a switch needs two), one in use and one uploaded beforehand, 1 instance, `MaxOperations` 3: an operation, and two that race or follow it; one loss or change of files at a time, and the next only after a reinstall or a deletion made good the first |
| compiler | `OrderIsTopological` | every document of `NodeCount` 4 nodes with up to `MaxEdges` 4 edges, taken in any order, parallel edges and self-loops included |
| failover | `FailoverStopsWhereItMust` | `QueueLength` 3: a first, a middle and a last target |
| data sources | `SecretIsTheLatest` | 3 `Admins`: a maker and two rotations, or a validation among them; 1 source; `MaxRotations` 2 |

The `Max` constants that are caps of the model and not of the code are the versions,
publications, stream events, models, changes, session versions, tasks, operations,
rotations and edges. Some divergences the code does allow are left out of these properties
by history variables, and are reachable in the run: a draft written between freeze and
protection (`overtaken`), instances apart from the assignment after an assign of another
version or half a switch (`stranded`), a row written from a stale read (`reliable`), a logout
undone by a switch of workspace under way (`loggedOut`), two overlapping creations with one
idempotency key (`began`), a rotation lost to a source's first
secret (`overwritten`), a registry that is stale while a rebuild is due (`settled`). The
properties say what holds outside them; the hazards in `PROJECT.json` name the lines.

Deadlock checking is off in the runs of `FlowRun` and of the components around it: a
run ends when every task has returned, and a component when its requests have.

Fairness (`FairSpec`) is weak fairness of each executor and of a canceller that
won its compare-and-set. The code justifies it: tokio runs a spawned task to its
end, and every call of a node has a time limit or returns. Requests need not
come. It is *not* assumed that a crashed executor is replaced: the repository has
no sweep for runs left running, and `RunSettles` speaks of live executors whose
calls return (`Faults = FALSE`). In `EventStream` it is weak fairness of `Broadcast`,
straight-line code after the lock, and of `Forward`, a task tokio wakes when its
receiver has an event; nobody has to append, close, subscribe or leave.

## 4. Where the code and its documents disagree

Each run with a counterexample checks one expectation that a test, a design
document or a decision note of the repository states.

* `TerminalIsFinal` (run `terminal`): waiting and failed are written by primary
  key after a cancellation check that another task can invalidate; a cancelled run
  becomes failed or waiting. `CancelSparesFinished` shows the opposite direction
  is safe, because cancel uses the compare-and-set.
* `AnsweredTaskIsApplied` (run `answer`): a callback task is completed first and
  applied afterwards; any error in between loses the answer and the node waits for
  ever.
* `StreamConverges` (run `stream`): prepare refuses a shell whose draft has changed and
  leaves it queued, while its caller announces `flow_failed` and closes the stream. A
  cancel that commits after that ends the run, and the closed stream refuses its event: the
  stream says failed, the run is cancelled.
* `EndIsAnnounced` (run `api_cancel`): a cancel through the published API and the
  executor that finds it both leave the stream open and silent.
* `CancelAuditIsTruthful` (run `audit`): a published cancel that lost its
  compare-and-set is logged as if it had cancelled the run. In the trace it read a queued run
  and loses to the run's start; the run goes on to execute.
* `EndedSawEverything` (run `stream_ended`): `subscribe` tests `closed` after an empty
  replay; a terminal event and a close in between end the subscription without it.
* `AnswerIsOfOneTarget` (run `failover_answer`): deltas go to the run's event stream while the
  provider's process runs; when the process then fails as a call its events are lost to
  the node, which asks the next target. The decision note of the failover queue says that an output is
  never spliced on after the first token.

Three more disagreements are behaviours of the models that the passing properties allow,
because they are what the code does; no run is spent on a counterexample of its own.

* A batch whose store failed is dropped. The persister takes it out of its buffer before it
  stores it and, on an error, warns in the server's log and goes on
  (`flush_debug_event_batch`, application_runtime.rs:197-226). The design of the stream
  (`docs/superpowers/specs/2026-05-02-runtime-event-stream-fast-debug-design.md:456`, :274) wants
  a `persist_warning` event and a retry, and :653 a test of it; the code has none of
  the three. In `EventPersister` such a batch goes to `lost`, and `PersistedOnce` says that this
  is the only way an event is dropped.
* A plugin version that was found corrupted becomes ready without an install. An inspection that
  meets a changed manifest writes `corrupted` and, as the fingerprint the row expects, the
  one it found (plugin_lifecycle.rs:74-93), so the next inspection finds nothing wrong. The
  design (`docs/superpowers/specs/1flowbase/2026-04-19-plugin-trust-source-install-design.md:484`)
  says that changed files are `corrupted`, and names no way back but a new
  install. `LoseFiles`, `BeginReconcile`, `RecordArtifact`, `BeginReconcile`,
  `RecordArtifact` is that behaviour in `PluginLifecycle`.
* A row may show an availability its statuses do not give: an enable that read it before a
  reinstall reset it writes `active_requested` next to an availability computed from the
  runtime status of before (family.rs:97). The design
  (`docs/superpowers/specs/1flowbase/2026-04-20-plugin-architecture-and-node-contribution-design.md:422`)
  wants it derived from the three at all times. The next reconcile repairs it;
  `AvailabilityIsDerived` speaks of the rows whose last write was not overtaken.

## 5. The proofs

For every set of tasks, every set of plans over the node kinds and both values of
`Faults`, from the assumptions `ProcAssumption` (the kinds of task are disjoint),
`PlansAssumption` and `FaultsAssumption`, TLAPS checks every safety property of
`FlowRun`'s passing runs. No instance bound appears: any number of executors, cancels and
answers, plans of any length.

The argument is layered, each layer an inductive invariant that uses the one
below; in each, one lemma per conjunct has one step per action.

1. `TypeInv` (`FlowRunProofs`). `TypeOK` alone is not inductive: a task that stores
   `out` or updates row `cur` must be known to hold a suitable outcome and an
   existing row at that label. `OutcomeAt`, `RowAt`, `CheckpointRows` say so.
   `PlanAt` adds that only tasks of a run with a plan reach the labels that can set
   it running or waiting, from which `PlanBeforeExecution` follows.
2. `TaskInv` (`FlowRunTaskProofs`). `SeenAt`: what a task has read is a status the
   next compare-and-set can only turn into a legal step. `AnnounceAt`: a task that
   is about to announce or record an end has committed it (`out[p] \in reached`, the
   route's fallback aside), and when one is about to close, the stream has a terminal
   event. `LateAt`: a task has created at most one node since the last cancel, and
   none while it is still in front of the creation. `AnswerAt`: the task a completer holds is completed.
3. `RowInv` (`FlowRunNodeProofs`). Each running node run has one writer, and every
   task finds the row it will write in a state it can leave: `EndedNodeStays`.
4. `WaitInv`. A task at the status write of a wait has stored the checkpoint and the
   task of its own wait; rows are never removed. `OpenInv`: until a request takes it
   up (`Taken`), the node run of a checkpoint waits and its task is pending: a row that waits
   is written only through a request's `waiter`, since `RowInv` lets a task write its own rows
   only while they run, and completing a task is what takes it up. Together:
   `WaitIsResumable`. What a request does with a wait it has taken up is not part of
   it: one that stops between closing the node run and storing the next wait leaves a run
   that waits for nothing, which no document excludes and `AnsweredTaskIsApplied` shows for a
   request that returns an error.
5. `ProgressInv`. Every position before the one a task works at, or a checkpoint
   resumes from, has an ended node run, the waiting one aside: `NoNodeSkipped`.

For the event stream, from `BoundsAssumption` and `KeepAssumption` (nobody trims
required events), for any appenders, subscribers, limits and log:

6. `StreamInv` (`EventStreamProofs`) joins `TypeOK` with `RingHoldsRequired`, `Held` (an
   appender between lock and broadcast holds an event of the log) and `NoLostWakeup`.
   The last is inductive only with the other two: a copy of the ring is complete up
   to the newest event it returns, and whatever is appended later is held by an
   appender or lies ahead of the receiver. `StreamImplementsFeed` maps each step to a
   step of `EventFeed` or a stutter; a delivery is complete because its batch
   contains everything required that the ring retains. `RingBounded` is a counting
   argument: an overflow drops the optional events whose rank is at most the excess,
   and there are as many of those as the excess, or all (`FirstRanks` of
   `SubsequenceProofs`).
7. `FeedSkipsNothing` (`EventFeedProofs`): the abstract promise, from which what a
   consumer has seen follows.

For the components around the runs, each from the assumption of its module alone (a name
that is none of the set, limits that are natural numbers):

8. `ReceiptIInv` (`ExecutionProofs`): types, `HolderIsOne` (one writer at most has
   claimed a key and not stored its outcome, and the receipt is pending for it) and
   `EffectIsTold` (a key that was written to has a receipt, a succeeded receipt names the one
   writer whose write took effect, and a writer about to write finds nothing written).
   Deleting the application removes the receipts; the invariant says of that
   state that there are none, and the claim's foreign key keeps it so.
9. `CompilerIInv` = types, `EdgesOK` (the indegree of a node is the number of edges into it
   whose source is not in the order yet, parallel edges counted each), `QueueOK` (once all
   edges are in, the nodes that are queued or ordered are exactly those of indegree zero,
   each once) and `OrderOK`. An order of all nodes is topological by `OrderOK`. For a
   refusal, take any order of all nodes that puts dependencies first, and of the nodes
   the queue never reached the one that comes first in it: all that it depends on is
   ordered, so its indegree is zero and it was queued.
10. `PersisterIInv` = types, `BatchAhead` (the batch rises, and all that was received before it
    lies below) and `StoredInOrder` (what was received and is neither in the batch nor
    lost is in the records, in order, and nothing lost lies in the range of one). A flush is a
    fold over the batch; the proof follows it one event at a time, as a function on the
    batch's positions, and takes the first position at which the claim fails.
    `PersisterReadsTheFeed` shows the persister to be a reader of `EventFeed`, whose
    promise gives `DurableLogIsComplete` (no run checks it): up to the last event that was
    received, whatever is to be persisted is in a record, in the batch or lost.
11. `QueueIInv` (failover), `StoresIInv` (`EntriesOK`, `OwnIsClaimed`: what a worker may take for
    its own is claimed by it and valid) and `TasksIInv`, which adds `QueueOfTasks` (the queue
    holds the ids of the entries, each once; that removing one keeps the others
    is `RetainedEntries` of `SubsequenceProofs`) and `IndexOfTasks` (every entry with an idempotency
    key is the one its key points to), from which `TaskOfKeyIsOne` follows.

`ControlPlaneProofs`:

12. `CallsAreGranted`, and `RegistryIInv` = `RowsOK`, `SettledOK`, and for each editor `SnapshotOK` and `AloneOK`: the
    snapshot of a rebuild that has been alone since its first statement is the store's.
13. `PublicIInv` = `RequestsOK`, `RequestsAreBehind` (a request began when there were no more runs than
    now, and one about to create found none of its key among those it began with) and
    `ChosenWasServed`.
14. `FlowIInv` = `HistoryOK`, `FrozenIsVersion` (between its save and its protection
    a publisher's version is gone, or holds the draft, unless the publisher was
    overtaken; once protected it holds what is to be published) and `PublicationsStand`. The trim
    counts the versions newer than each: that the newest is never trimmed needs
    `HistoryLimit > 0`, which is in `FlowAssumption`.
15. `SourcesIInv` = `SourceRowsOK`, `AdminsOK`, `FirstSecretOK` and `LatestSecretOK`: a source
    never rotated names version 1, which is what makes its first secret agree with its
    markers whenever it comes; a rotation raises both from what it has locked.
16. `SessionsIInv`: types, `VisitsAreOfSessions`, `CopiesAreBehind` (every copy
    of a session version, in a login, a visit or the store, is at most the user's, and less
    for a revoked session) and `OutForGood`. A check compares for equality with the user's
    version of that moment, so a revoked session is refused.
17. `PluginIInv` = types, `TargetsOK` (an operation is on a version of the family) and
    `CopiesOK`, for every way files are lost or changed and every verdict of an inspection,
    the ones from corrupted to ready included: unless somebody wrote the row since, what an operation will compute the row
    from is still the row. With it `AvailabilityIsDerived` is inductive. `FamilyIInv`
    adds `FamilyHeld`: a manager nobody disturbed creates instances of what is assigned,
    and has moved all of them when it points the assignment; hence
    `InstancesFollowAssignment`.
18. `ControlImplementsItsComponents`: a step of `MCControlPlane` is a step of one component
    and a stutter of the ten others, so it implements each component's own specification and
    has the properties proved of it. `TypesOKHolds` collects the type
    invariants this way.

`PublicRunRequests` also has the theorem `AnswerIsOwnRunHolds`: a request is answered a run
of its own API key and idempotency key; no run checks it.

Temporal theorems end in a PTL step from `Init => Inv`, the step lemma and
stuttering. The theorems are listed in `PROJECT.json`.

Only model-checked: `RunSettles`, `SettledRunClosesStream` and `RequiredDelivered`,
because liveness under fairness is out of the proof system's reach. The violated
expectations of section 4 have counterexamples and no proof. The induction theorems of
the proof library take an operator as a parameter, which the provers cannot instantiate; where a
proof counts, or follows a loop or a fold, it takes the least number at which its claim
fails instead (`LeastOfNaturals`).

## 6. What is not modelled, and why

* Store failures that leave half of one SQL statement: a statement is atomic.
* Several runs: runs share no row. Several API servers: the event stream is local
  to a process; a second server's executor is one more task on the rows.
* The SSE sender: a consumer of the feed that formats events. Its position is in `EventStream`.
* Rate limits and the event bus of the ephemeral store: one counter per window in a cache that
  loses it by itself, and a channel nobody in the repository waits on.
* The plugin runner: one child process per call, whose outcomes are those of `FailoverQueue`.
* Billing sessions: a pure transition function; the server reserves a session and nothing
  settles it. Runtime observability: append-only records nobody reads back.
* Boot of host extensions, migrations, the resource kernel: they run once, before
  the server takes requests. Plugins that need a restart, their state files, the official
  catalog and its signatures.
* Files, workspaces, members, roles, profiles: services that
  check a permission and write a row or an object.
* Of the modelled components: permissions, csrf tokens, task rows that report progress,
  provider caches, usage counts, conversation contents, the mapping of native requests,
  preview reads and defaults of data sources.
* Pure data: templates, bindings, JSON payloads, formatting.
* The web console, scripts and documents.

Most of the source is in these classes (typed JSON mapping, SQL column lists, routes,
test code), so the lines the models stand for are a small part of all.

## 7. Plan

Done, in this order: `RunStatus`, `FlowRun` and its proofs; `EventFeed`, `EventStream` and their
proofs; `SideEffectReceipt`, `FlowPublication`, `PublicRunRequests`, `EventPersister`,
`RuntimeModels`, `Sessions`, `EphemeralStores`, `PluginLifecycle`, `FlowCompiler`,
`FailoverQueue`, `DataSources`, the proofs of these eleven and of their composition.

Left, in order of importance:

1. The composition of `DataSources` with `SideEffectReceipt`: an external source that is
   deleted while a side effect is under way.
2. Host extensions: the states that wait for a restart, as a second branch of `Derived`.
