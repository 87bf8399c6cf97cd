------------------------------ MODULE FlowRun ------------------------------
(***************************************************************************)
(* The life of ONE flow run: the rows the durable store keeps for it, the  *)
(* in-memory event stream's terminal marker, and every task of the server  *)
(* that works on the run at the same time:                                 *)
(*                                                                         *)
(*   Executors   the task spawned for the run (prepare, then continue), or *)
(*               each start_published_flow_run for the run                 *)
(*   Cancellers  cancel requests, those of ApiCancellers through the       *)
(*               published API, for a published run only                   *)
(*   Resumers    resume_flow_run requests                                  *)
(*   Completers  complete_callback_task requests                           *)
(*                                                                         *)
(* Each access to the store or the stream between two awaits is one        *)
(* action, so every interleaving of those tasks is a behaviour.  A server  *)
(* crash, a deploy or a dropped request is a task that takes no further    *)
(* step: the safety properties hold of the rows such a task leaves behind. *)
(* With Faults, any fallible call of an executor may return Err before it  *)
(* has an effect.                                                          *)
(***************************************************************************)
EXTENDS Naturals, Sequences, RunStatus

CONSTANTS
  Executors, Cancellers, Resumers, Completers,
  ApiCancellers, \* the cancellers that call cancel_published_run
  Plans,        \* the compiled plans the draft may compile to
  NoPlan,       \* compiled_plan_id is null
  Faults        \* whether a fallible call of an executor may return Err

\* A kind stands for the node types that behave alike (see ExecuteNode).
NodeKind == { "start", "llm", "data_model", "human_input", "tool" }

Proc == Executors \cup Cancellers \cup Resumers \cup Completers

ASSUME ProcAssumption ==
  /\ Executors \cap (Cancellers \cup Resumers \cup Completers) = {}
  /\ Cancellers \cap (Resumers \cup Completers) = {}
  /\ Resumers \cap Completers = {}
  /\ ApiCancellers \subseteq Cancellers
ASSUME PlansAssumption ==
  /\ Plans \subseteq Seq(NodeKind)
  /\ NoPlan \notin Plans
ASSUME FaultsAssumption == Faults \in BOOLEAN

VARIABLES
  status,       \* flow_runs.status
  plan,         \* flow_runs.compiled_plan_id: topological_order's node kinds
  nodeRuns,     \* node_runs, in creation order; a node run's id is its index
  checkpoints,  \* flow_run_checkpoints: node run and next_node_index
  tasks,        \* flow_run_callback_tasks, each named by its node run
  completed,    \* the callback tasks whose status is 'completed'
  runEvents,    \* flow_run_* and public_run_cancelled, in the durable event log
  terminals,    \* terminal events appended to the runtime event stream
  closed,       \* the runtime event stream is closed
  pc,           \* where each task is
  phase,        \* which error handling surrounds it
  seen,         \* the flow status it read and will act on
  from,         \* the status of the waiting node run it read
  waiter,       \* the waiting node run it resumes
  idx,          \* its position in the plan's topological order
  cur,          \* the node run it is executing or tracing
  out,          \* the outcome it is about to persist
  stop,         \* position of the last node a resumed execution traced
  reached,      \* history: the statuses the run has ever had
  late          \* history: node runs an executor created since the last cancel

stored    == <<plan, nodeRuns, checkpoints, tasks, completed>>
answers   == <<seen, from, waiter, stop>>
vars      == <<status, reached, stored, runEvents, terminals, closed,
               pc, phase, answers, idx, cur, out, late>>

NodeRun    == [node : Nat \ {0}, status : NodeRunStatus]
Checkpoint == [run : Nat, next : Nat \ {0}]
Outcome    == WaitingStatus \cup TerminalStatus \cup {"ok"}

\* normal; inside continue's fail_flow_run; inside the failure handling of
\* prepare; inside the route's fallback for a task that returned Err.
Phase == { "normal", "failing", "failing_prepare", "reporting" }

Label ==
  { "prepare", "attach", "fail_shell", "started", "start", "start_cas",
    "public_started", "begin", "loop", "create", "execute", "check",
    "checkpoint", "callback", "finish", "write", "emit", "close", "record",
    "detail", "error", "fallback", "cancel", "cancel_cas", "audit",
    "resume", "resume_load", "complete", "complete_load", "complete_detail",
    "confirm", "fail_node", "engine", "trigger", "resume_node", "trace",
    "trace_update", "resume_checkpoint", "resume_callback", "resume_write",
    "done" }

StoreTypeOK ==
  /\ status \in FlowRunStatus
  /\ plan \in Plans \cup {NoPlan}
  /\ nodeRuns \in Seq(NodeRun)
  /\ checkpoints \subseteq Checkpoint
  /\ tasks \subseteq Nat
  /\ completed \subseteq tasks
  /\ runEvents \subseteq TerminalStatus \cup {"started", "resumed", "public_cancelled"}
  /\ terminals \subseteq WaitingStatus \cup TerminalStatus
  /\ closed \in BOOLEAN
  /\ reached \subseteq FlowRunStatus

TaskTypeOK ==
  /\ pc \in [Proc -> Label]
  /\ phase \in [Proc -> Phase]
  /\ seen \in [Proc -> FlowRunStatus]
  /\ from \in [Proc -> NodeRunStatus]
  /\ waiter \in [Proc -> Nat]
  /\ idx \in [Proc -> Nat \ {0}]
  /\ cur \in [Proc -> Nat]
  /\ out \in [Proc -> Outcome]
  /\ stop \in [Proc -> Nat]
  /\ late \in [Proc -> Nat]

TypeOK == StoreTypeOK /\ TaskTypeOK

-----------------------------------------------------------------------------
(* Initial states and the steps every task is built from                   *)

FirstLabel(p) ==
  CASE p \in Cancellers -> "cancel"
    [] p \in Resumers   -> "resume"
    [] p \in Completers -> "complete"

\* open_flow_debug_run_shell, or the run a published API call has created.
Init ==
  /\ status = "queued" /\ reached = {"queued"}
  /\ plan \in Plans \cup {NoPlan}
  /\ nodeRuns = << >> /\ checkpoints = {} /\ tasks = {} /\ completed = {}
  /\ runEvents = {} /\ terminals = {} /\ closed = FALSE
  /\ pc = [p \in Proc |->
            CASE p \in ApiCancellers /\ plan = NoPlan -> "done"
              [] p \in Executors -> IF plan = NoPlan THEN "prepare" ELSE "start"
              [] OTHER -> FirstLabel(p)]
  /\ phase  = [p \in Proc |-> "normal"]
  /\ seen   = [p \in Proc |-> "queued"]
  /\ from   = [p \in Proc |-> "running"]
  /\ waiter = [p \in Proc |-> 0]
  /\ idx    = [p \in Proc |-> 1]
  /\ cur    = [p \in Proc |-> 0]
  /\ out    = [p \in Proc |-> "ok"]
  /\ stop   = [p \in Proc |-> 0]
  /\ late   = [p \in Proc |-> 0]

At(p, label)   == pc[p] = label
Goto(p, label) == pc' = [pc EXCEPT ![p] = label]

\* update_flow_run, and the committed half of update_flow_run_if_status.
SetStatus(s) == status' = s /\ reached' = reached \cup {s}

SetNodeRun(n, s) == nodeRuns' = [nodeRuns EXCEPT ![n].status = s]

-----------------------------------------------------------------------------
(* prepare_flow_debug_run_from_shell                                       *)

\* Mutant of Prepare: the run is marked Running before its plan is attached.
PrepareMarksRunning(p) ==
  /\ At(p, "prepare")
  /\ status = "queued" /\ plan = NoPlan
  /\ SetStatus("running")
  /\ Goto(p, "attach")
  /\ UNCHANGED <<stored, runEvents, terminals, closed, phase, answers,
                 idx, cur, out, late>>

\* Reads and validates the shell, then compiles.  Validation also compares
\* the draft, which may have been edited since the shell was opened, and
\* refuses without touching the run.
Prepare(p) ==
  /\ At(p, "prepare")
  /\ \/ /\ status = "queued" /\ plan = NoPlan
        /\ \/ Goto(p, "attach") /\ UNCHANGED phase
           \/ Goto(p, "fail_shell") /\ phase' = [phase EXCEPT ![p] = "failing_prepare"]
     \/ Goto(p, "fallback") /\ UNCHANGED phase
  /\ UNCHANGED <<status, reached, stored, runEvents, terminals, closed,
                 answers, idx, cur, out, late>>

\* Mutant of AttachMatches: the update does not test the status.
AttachMatchesByKey == plan = NoPlan

\* where status = 'queued' and compiled_plan_id is null
AttachMatches == status = "queued" /\ plan = NoPlan

Attach(p) ==
  /\ At(p, "attach")
  /\ \/ /\ AttachMatches
        /\ plan' \in Plans
        /\ SetStatus("running")
        /\ Goto(p, "started")
        /\ UNCHANGED <<nodeRuns, checkpoints, tasks, completed, phase>>
     \/ /\ ~ AttachMatches \/ Faults
        /\ Goto(p, "fail_shell")
        /\ phase' = [phase EXCEPT ![p] = "failing_prepare"]
        /\ UNCHANGED <<status, reached, stored>>
  /\ UNCHANGED <<runEvents, terminals, closed, answers, idx, cur, out, late>>

FailShell(p) ==
  /\ At(p, "fail_shell")
  /\ IF status = "queued" /\ plan = NoPlan
       THEN /\ SetStatus("failed")
            /\ out' = [out EXCEPT ![p] = "failed"]
            /\ Goto(p, "emit")
       ELSE Goto(p, "fallback") /\ UNCHANGED <<status, reached, out>>
  /\ UNCHANGED <<stored, runEvents, terminals, closed, phase, answers, idx, cur, late>>

\* flow_run_started, flow_started and the billing audit; then the spawned task
\* goes on to continue_flow_debug_run.
Started(p) ==
  /\ At(p, "started")
  /\ runEvents' = runEvents \cup {"started"}
  /\ Goto(p, "begin")
  /\ UNCHANGED <<status, reached, stored, terminals, closed, phase,
                 answers, idx, cur, out, late>>

-----------------------------------------------------------------------------
(* start_published_flow_run: Queued is claimed by compare-and-set; a run   *)
(* already Running is continued by this task too; any other is left alone. *)

StartRead(p) ==
  /\ At(p, "start")
  /\ seen' = [seen EXCEPT ![p] = status]
  /\ Goto(p, CASE status = "queued"  -> "start_cas"
               [] status = "running" -> "public_started"
               [] OTHER              -> "done")
  /\ UNCHANGED <<status, reached, stored, runEvents, terminals, closed, phase,
                 from, waiter, stop, idx, cur, out, late>>

\* Mutant of IfStatus: update_flow_run, by primary key alone.
IfStatusIgnored(expected) == TRUE

\* update_flow_run_if_status: the row is written only if it still has the status
\* the caller names.
IfStatus(expected) == status = expected

StartCas(p) ==
  /\ At(p, "start_cas")
  /\ IF IfStatus(seen[p])
       THEN SetStatus("running") /\ Goto(p, "public_started")
       ELSE Goto(p, "done") /\ UNCHANGED <<status, reached>>
  /\ UNCHANGED <<stored, runEvents, terminals, closed, phase, answers,
                 idx, cur, out, late>>

\* public_run_execution_started and flow_started; an error here returns before
\* continue_flow_debug_run and its fail_flow_run are reached.
PublicStarted(p) ==
  /\ At(p, "public_started")
  /\ Goto(p, "begin")
  /\ UNCHANGED <<status, reached, stored, runEvents, terminals, closed, phase,
                 answers, idx, cur, out, late>>

-----------------------------------------------------------------------------
(* continue_flow_debug_run_inner                                           *)

Begin(p) ==
  /\ At(p, "begin")
  /\ Goto(p, IF status = "running" THEN "loop" ELSE "detail")
  /\ UNCHANGED <<status, reached, stored, runEvents, terminals, closed, phase,
                 answers, idx, cur, out, late>>

\* Mutant of LoopHead: an iteration does not look at the run.
LoopHeadUnchecked(p) ==
  /\ At(p, "loop")
  /\ Goto(p, IF idx[p] <= Len(plan) THEN "create" ELSE "finish")
  /\ UNCHANGED <<status, reached, stored, runEvents, terminals, closed, phase,
                 answers, idx, cur, out, late>>

\* is_run_cancelled at the head of every iteration and before the final write.
LoopHead(p) ==
  /\ At(p, "loop")
  /\ Goto(p, IF status = "cancelled"    THEN "detail"
             ELSE IF idx[p] <= Len(plan) THEN "create" ELSE "finish")
  /\ UNCHANGED <<status, reached, stored, runEvents, terminals, closed, phase,
                 answers, idx, cur, out, late>>

\* create_node_run, once the node's inputs have been resolved.
CreateNodeRun(p) ==
  /\ At(p, "create")
  /\ nodeRuns' = Append(nodeRuns, [node |-> idx[p], status |-> "running"])
  /\ cur' = [cur EXCEPT ![p] = Len(nodeRuns) + 1]
  /\ late' = IF status = "cancelled" THEN [late EXCEPT ![p] = @ + 1] ELSE late
  /\ Goto(p, "execute")
  /\ UNCHANGED <<status, reached, plan, checkpoints, tasks, completed, runEvents,
                 terminals, closed, phase, answers, idx, out>>

\* A node that finished: its inputs were resolved, it ran, its row was updated.
NextNode(p) == Goto(p, "loop") /\ idx' = [idx EXCEPT ![p] = @ + 1]

\* update_node_run stores how the node ended; the task goes on with an outcome.
StoreNode(p, s, o, label) ==
  /\ SetNodeRun(cur[p], s)
  /\ out' = [out EXCEPT ![p] = o]
  /\ Goto(p, label)
  /\ UNCHANGED idx

\* template_transform and answer behave as start.
ExecuteStart(p) == SetNodeRun(cur[p], "succeeded") /\ NextNode(p) /\ UNCHANGED out

\* plugin_node behaves as llm: the run is looked at again before the outcome counts.
ExecuteLlm(p) ==
  StoreNode(p, "succeeded", "ok", "check") \/ StoreNode(p, "failed", "failed", "check")

\* A write waits for its confirmation when the policy asks for one; a node that
\* fails goes to the final write with no further look at the run.
ExecuteDataModel(p) ==
  \/ StoreNode(p, "waiting_callback", "waiting_callback", "check")
  \/ StoreNode(p, "failed", "failed", "write")
  \/ ExecuteStart(p)

ExecuteHumanInput(p) == StoreNode(p, "waiting_human", "waiting_human", "check")

\* http_request behaves as tool.
ExecuteTool(p) == StoreNode(p, "waiting_callback", "waiting_callback", "check")

\* The rest of the iteration, by node type.
ExecuteNode(p) ==
  /\ At(p, "execute")
  /\ LET kind == plan[idx[p]]
     IN  \/ kind = "start"       /\ ExecuteStart(p)
         \/ kind = "llm"         /\ ExecuteLlm(p)
         \/ kind = "data_model"  /\ ExecuteDataModel(p)
         \/ kind = "human_input" /\ ExecuteHumanInput(p)
         \/ kind = "tool"        /\ ExecuteTool(p)
  /\ UNCHANGED <<status, reached, plan, checkpoints, tasks, completed, runEvents,
                 terminals, closed, phase, answers, cur, late>>

\* Mutant of CheckCancelled: the status is written before the rows a resume needs.
CheckCancelledWritesFirst(p) ==
  /\ At(p, "check")
  /\ IF status = "cancelled"
       THEN Goto(p, "detail") /\ UNCHANGED idx
       ELSE \/ out[p] = "ok" /\ NextNode(p)
            \/ out[p] # "ok" /\ Goto(p, "write") /\ UNCHANGED idx
  /\ UNCHANGED <<status, reached, stored, runEvents, terminals, closed, phase,
                 answers, cur, out, late>>

\* Mutant of CheckCancelled: a failed node returns without failing the run.
CheckCancelledDropsFailure(p) ==
  /\ At(p, "check")
  /\ IF status = "cancelled" \/ out[p] = "failed"
       THEN Goto(p, "detail") /\ UNCHANGED idx
       ELSE \/ out[p] = "ok" /\ NextNode(p)
            \/ out[p] \in WaitingStatus /\ Goto(p, "checkpoint") /\ UNCHANGED idx
  /\ UNCHANGED <<status, reached, stored, runEvents, terminals, closed, phase,
                 answers, cur, out, late>>

\* is_run_cancelled after the node: the last look before the write.
CheckCancelled(p) ==
  /\ At(p, "check")
  /\ IF status = "cancelled"
       THEN Goto(p, "detail") /\ UNCHANGED idx
       ELSE \/ out[p] = "ok"     /\ NextNode(p)
            \/ out[p] = "failed" /\ Goto(p, "write") /\ UNCHANGED idx
            \/ out[p] \in WaitingStatus /\ Goto(p, "checkpoint") /\ UNCHANGED idx
  /\ UNCHANGED <<status, reached, stored, runEvents, terminals, closed, phase,
                 answers, cur, out, late>>

\* Mutants of NextNodeIndex: off by one, either way.
NextNodeIndexBack(position)  == position - 1
NextNodeIndexSkips(position) == position + 2

\* next_node_index (plan.rs); execute_from's index + 1.
NextNodeIndex(position) == position + 1

CreateCheckpoint(p) ==
  /\ At(p, "checkpoint")
  /\ checkpoints' = checkpoints \cup {[run |-> cur[p], next |-> NextNodeIndex(idx[p])]}
  /\ Goto(p, IF out[p] = "waiting_callback" THEN "callback" ELSE "write")
  /\ UNCHANGED <<status, reached, plan, nodeRuns, tasks, completed, runEvents,
                 terminals, closed, phase, answers, idx, cur, out, late>>

CreateCallbackTask(p) ==
  /\ At(p, "callback")
  /\ tasks' = tasks \cup {cur[p]}
  /\ Goto(p, "write")
  /\ UNCHANGED <<status, reached, plan, nodeRuns, checkpoints, completed, runEvents,
                 terminals, closed, phase, answers, idx, cur, out, late>>

\* Mutant of WriteOutcome: the stream is closed and the terminal event forgotten.
WriteOutcomeSkipsEmit(p) ==
  /\ At(p, "write")
  /\ SetStatus(out[p])
  /\ Goto(p, "close")
  /\ UNCHANGED <<stored, runEvents, terminals, closed, phase, answers,
                 idx, cur, out, late>>

\* update_flow_run: by primary key, whatever the row holds by now.
WriteOutcome(p) ==
  /\ At(p, "write")
  /\ SetStatus(out[p])
  /\ Goto(p, "emit")
  /\ UNCHANGED <<stored, runEvents, terminals, closed, phase, answers,
                 idx, cur, out, late>>

\* Mutant of Finish: a lost compare-and-set is announced all the same.
FinishIgnoresLostUpdate(p) ==
  /\ At(p, "finish")
  /\ out' = [out EXCEPT ![p] = "succeeded"]
  /\ Goto(p, "emit")
  /\ IF IfStatus("running") THEN SetStatus("succeeded") ELSE UNCHANGED <<status, reached>>
  /\ UNCHANGED <<stored, runEvents, terminals, closed, phase, answers, idx, cur, late>>

\* Success alone is a compare-and-set from Running.
Finish(p) ==
  /\ At(p, "finish")
  /\ IF IfStatus("running")
       THEN /\ SetStatus("succeeded")
            /\ out' = [out EXCEPT ![p] = "succeeded"]
            /\ Goto(p, "emit")
       ELSE Goto(p, "detail") /\ UNCHANGED <<status, reached, out>>
  /\ UNCHANGED <<stored, runEvents, terminals, closed, phase, answers, idx, cur, late>>

\* Mutant of Emit: the task announces its outcome and never closes the stream.
EmitWithoutClose(p) ==
  /\ At(p, "emit")
  /\ terminals' = IF closed THEN terminals ELSE terminals \cup {out[p]}
  /\ Goto(p, "record")
  /\ UNCHANGED <<status, reached, stored, runEvents, closed, phase, answers,
                 idx, cur, out, late>>

\* append_runtime_event: refused once the stream is closed, and the refusal is
\* swallowed.
Emit(p) ==
  /\ At(p, "emit")
  /\ terminals' = IF closed THEN terminals ELSE terminals \cup {out[p]}
  /\ Goto(p, "close")
  /\ UNCHANGED <<status, reached, stored, runEvents, closed, phase, answers,
                 idx, cur, out, late>>

\* close_runtime_event_stream; only a terminal outcome has a run event to append.
Close(p) ==
  /\ At(p, "close")
  /\ closed' = TRUE
  /\ Goto(p, IF phase[p] = "reporting"       THEN "done"
             ELSE IF out[p] \in WaitingStatus THEN "detail" ELSE "record")
  /\ UNCHANGED <<status, reached, stored, runEvents, terminals, phase, answers,
                 idx, cur, out, late>>

\* append_run_event flow_run_completed, flow_run_failed or flow_run_cancelled.
Record(p) ==
  /\ At(p, "record")
  /\ runEvents' = runEvents \cup {out[p]}
  /\ Goto(p, "detail")
  /\ UNCHANGED <<status, reached, stored, terminals, closed, phase, answers,
                 idx, cur, out, late>>

\* The load_run_detail every path returns through.  prepare returns the error it
\* was handling, and its caller reports it; continue returns Ok.
LoadRunDetail(p) ==
  /\ At(p, "detail")
  /\ Goto(p, IF phase[p] = "failing_prepare" THEN "fallback" ELSE "done")
  /\ UNCHANGED <<status, reached, stored, runEvents, terminals, closed, phase,
                 answers, idx, cur, out, late>>

-----------------------------------------------------------------------------
(* Errors of an executor                                                   *)

\* fail_flow_run reads the run and leaves a finished one alone.
FailFlowRun(p) ==
  /\ At(p, "error")
  /\ IF status \in TerminalStatus
       THEN Goto(p, "detail") /\ UNCHANGED out
       ELSE /\ EnsureFlowRunTransition(status, "failed")
            /\ out' = [out EXCEPT ![p] = "failed"]
            /\ Goto(p, "write")
  /\ UNCHANGED <<status, reached, stored, runEvents, terminals, closed, phase,
                 answers, idx, cur, late>>

\* The route's last resort for a task that returned Err: unless the stream
\* already shows a terminal event (or its replay has expired), announce
\* flow_failed and close.  A streaming published run announces unconditionally.
ReportError(p) ==
  /\ At(p, "fallback")
  /\ \/ terminals # {} /\ Goto(p, "done") /\ UNCHANGED <<phase, out>>
     \/ /\ Goto(p, "emit")
        /\ phase' = [phase EXCEPT ![p] = "reporting"]
        /\ out' = [out EXCEPT ![p] = "failed"]
  /\ UNCHANGED <<status, reached, stored, runEvents, terminals, closed, answers,
                 idx, cur, late>>

\* A `?` that meets an error: in the body of continue it leads to fail_flow_run,
\* after attach to prepare's own fail_flow_run; before that, and inside the
\* failure handling itself, the task returns Err.  Attach has its own error path.
CallFails(p) ==
  /\ Faults
  /\ \/ /\ phase[p] = "normal"
        /\ pc[p] \in { "begin", "loop", "create", "execute", "check", "checkpoint",
                       "callback", "write", "finish", "record", "detail", "started" }
        /\ phase' = [phase EXCEPT ![p] =
                       IF At(p, "started") THEN "failing_prepare" ELSE "failing"]
        /\ Goto(p, "error")
     \/ /\ \/ pc[p] \in { "fail_shell", "start", "start_cas", "public_started" }
           \/ phase[p] \in {"failing", "failing_prepare"}
              /\ pc[p] \in {"error", "write", "record", "detail"}
        /\ Goto(p, "fallback")
        /\ UNCHANGED phase
  /\ UNCHANGED <<status, reached, stored, runEvents, terminals, closed, answers,
                 idx, cur, out, late>>

-----------------------------------------------------------------------------
(* cancel_flow_run, and cancel_published_run of the published API          *)

CancelRead(p) ==
  /\ At(p, "cancel")
  /\ seen' = [seen EXCEPT ![p] = status]
  /\ Goto(p, IF EnsureFlowRunTransition(status, "cancelled") THEN "cancel_cas" ELSE "done")
  /\ UNCHANGED <<status, reached, stored, runEvents, terminals, closed, phase,
                 from, waiter, stop, idx, cur, out, late>>

\* cancel_flow_run announces the cancel it won and leaves when it lost.
\* cancel_published_run audits either way and never touches the event stream.
CancelCas(p) ==
  /\ At(p, "cancel_cas")
  /\ IF IfStatus(seen[p])
       THEN /\ SetStatus("cancelled")
            /\ out' = [out EXCEPT ![p] = "cancelled"]
            /\ late' = [q \in Proc |-> 0]
            /\ Goto(p, IF p \in ApiCancellers THEN "audit" ELSE "emit")
       ELSE /\ Goto(p, IF p \in ApiCancellers THEN "audit" ELSE "done")
            /\ UNCHANGED <<status, reached, out, late>>
  /\ UNCHANGED <<stored, runEvents, terminals, closed, phase, answers, idx, cur>>

\* append_cancelled_audit: public_run_cancelled.
AuditCancel(p) ==
  /\ At(p, "audit")
  /\ runEvents' = runEvents \cup {"public_cancelled"}
  /\ Goto(p, "done")
  /\ UNCHANGED <<status, reached, stored, terminals, closed, phase, answers,
                 idx, cur, out, late>>

-----------------------------------------------------------------------------
(* resume_flow_run: the run, then the checkpoint and the waiting node run  *)

\* Without a compiled plan in the row it read, the request is refused.
ResumeRead(p) ==
  /\ At(p, "resume")
  /\ seen' = [seen EXCEPT ![p] = status]
  /\ Goto(p, IF plan = NoPlan THEN "done" ELSE "resume_load")
  /\ UNCHANGED <<status, reached, stored, runEvents, terminals, closed, phase,
                 from, waiter, stop, idx, cur, out, late>>

\* The waiting node run and the position a checkpoint resumes from.
LoadCheckpoint(p, c) ==
  /\ waiter' = [waiter EXCEPT ![p] = c.run]
  /\ idx' = [idx EXCEPT ![p] = c.next]
  /\ from' = [from EXCEPT ![p] = nodeRuns[c.run].status]

ResumeLoad(p) ==
  /\ At(p, "resume_load")
  /\ \E c \in checkpoints : LoadCheckpoint(p, c)
  /\ Goto(p, "engine")
  /\ UNCHANGED <<status, reached, stored, runEvents, terminals, closed, phase,
                 seen, stop, cur, out, late>>

-----------------------------------------------------------------------------
(* complete_callback_task                                                  *)

\* Mutant of IsPending: the update does not test the status.
IsPendingOrAnswered(t) == t \in tasks

\* where id = $1 and status = 'pending'
IsPending(t) == t \in tasks \ completed

CompleteCallbackTask(p) ==
  /\ At(p, "complete")
  /\ \E t \in tasks :
       /\ IsPending(t)
       /\ completed' = completed \cup {t}
       /\ waiter' = [waiter EXCEPT ![p] = t]
  /\ Goto(p, "complete_load")
  /\ UNCHANGED <<status, reached, plan, nodeRuns, checkpoints, tasks, runEvents,
                 terminals, closed, phase, seen, from, stop, idx, cur, out, late>>

\* get_application_run_detail reads the run first and its node runs after it.
CompleteLoad(p) ==
  /\ At(p, "complete_load")
  /\ seen' = [seen EXCEPT ![p] = status]
  /\ Goto(p, "complete_detail")
  /\ UNCHANGED <<status, reached, stored, runEvents, terminals, closed, phase,
                 from, waiter, stop, idx, cur, out, late>>

CompleteDetail(p) ==
  /\ At(p, "complete_detail")
  /\ \E c \in checkpoints : c.run = waiter[p] /\ LoadCheckpoint(p, c)
  /\ Goto(p, IF plan[nodeRuns[waiter[p]].node] = "data_model" THEN "confirm" ELSE "engine")
  /\ UNCHANGED <<status, reached, stored, runEvents, terminals, closed, phase,
                 seen, stop, cur, out, late>>

\* execute_confirmed_data_model_side_effect: the write happens or is refused.
Confirm(p) ==
  /\ At(p, "confirm")
  /\ \E next \in {"engine", "fail_node"} : Goto(p, next)
  /\ UNCHANGED <<status, reached, stored, runEvents, terminals, closed, phase,
                 answers, idx, cur, out, late>>

FailWaitingNode(p) ==
  /\ At(p, "fail_node")
  /\ IF EnsureNodeRunTransition(from[p], "failed")
       THEN /\ SetNodeRun(waiter[p], "failed")
            /\ out' = [out EXCEPT ![p] = "failed"]
            /\ Goto(p, "resume_write")
       ELSE Goto(p, "done") /\ UNCHANGED <<nodeRuns, out>>
  /\ UNCHANGED <<status, reached, plan, checkpoints, tasks, completed, runEvents,
                 terminals, closed, phase, answers, idx, cur, late>>

-----------------------------------------------------------------------------
(* resume_flow_debug_run: the engine runs the rest of the plan in memory   *)

Suspends(kind) == kind \in {"human_input", "tool", "data_model"}

\* execute_from starts at the checkpoint's next_node_index.  A binding, an llm or
\* a plugin node may fail; the first human_input or tool node suspends the run.
\* Err, after which nothing is persisted, when the payload has a key that is no
\* output of the waiting node, or when the engine meets a data_model node.
Engine(p) ==
  /\ At(p, "engine")
  /\ LET RunsUpTo(j) == \A k \in idx[p]..j - 1 : ~ Suspends(plan[k])
         Leads(o, position) ==
           /\ out'  = [out EXCEPT ![p] = o]
           /\ stop' = [stop EXCEPT ![p] = position]
           /\ Goto(p, "trigger")
     IN  \/ \E j \in idx[p]..Len(plan) :
              /\ RunsUpTo(j)
              /\ \/ Leads("failed", j)
                 \/ plan[j] = "human_input" /\ Leads("waiting_human", j)
                 \/ plan[j] = "tool" /\ Leads("waiting_callback", j)
         \/ RunsUpTo(Len(plan) + 1) /\ Leads("succeeded", Len(plan))
         \/ Goto(p, "done") /\ UNCHANGED <<out, stop>>
  /\ UNCHANGED <<status, reached, stored, runEvents, terminals, closed, phase,
                 seen, from, waiter, idx, cur, late>>

-----------------------------------------------------------------------------
(* persist_flow_debug_outcome                                              *)

Trigger(p) ==
  /\ At(p, "trigger")
  /\ runEvents' = runEvents \cup {"resumed"}
  /\ Goto(p, "resume_node")
  /\ UNCHANGED <<status, reached, stored, terminals, closed, phase, answers,
                 idx, cur, out, late>>

ResumeWaitingNode(p) ==
  /\ At(p, "resume_node")
  /\ IF EnsureNodeRunTransition(from[p], "succeeded")
       THEN SetNodeRun(waiter[p], "succeeded") /\ Goto(p, "trace")
       ELSE Goto(p, "done") /\ UNCHANGED nodeRuns
  /\ UNCHANGED <<status, reached, plan, checkpoints, tasks, completed, runEvents,
                 terminals, closed, phase, answers, idx, cur, out, late>>

\* persist_flow_debug_node_traces: create, then update, one node after another.
Trace(p) ==
  /\ At(p, "trace")
  /\ IF idx[p] <= stop[p]
       THEN /\ nodeRuns' = Append(nodeRuns, [node |-> idx[p], status |-> "running"])
            /\ cur' = [cur EXCEPT ![p] = Len(nodeRuns) + 1]
            /\ Goto(p, "trace_update")
       ELSE /\ Goto(p, IF out[p] \in WaitingStatus THEN "resume_checkpoint"
                       ELSE "resume_write")
            /\ UNCHANGED <<nodeRuns, cur>>
  /\ UNCHANGED <<status, reached, plan, checkpoints, tasks, completed, runEvents,
                 terminals, closed, phase, answers, idx, out, late>>

\* Mutant of TraceUpdate: the trace is stored in the row of the waiting node run.
TraceUpdateOnWaiter(p) ==
  /\ At(p, "trace_update")
  /\ SetNodeRun(waiter[p], IF idx[p] = stop[p] /\ out[p] # "succeeded" THEN out[p]
                           ELSE "succeeded")
  /\ idx' = [idx EXCEPT ![p] = @ + 1]
  /\ Goto(p, "trace")
  /\ UNCHANGED <<status, reached, plan, checkpoints, tasks, completed, runEvents,
                 terminals, closed, phase, answers, cur, out, late>>

TraceUpdate(p) ==
  /\ At(p, "trace_update")
  /\ SetNodeRun(cur[p], IF idx[p] = stop[p] /\ out[p] # "succeeded" THEN out[p]
                        ELSE "succeeded")
  /\ idx' = [idx EXCEPT ![p] = @ + 1]
  /\ Goto(p, "trace")
  /\ UNCHANGED <<status, reached, plan, checkpoints, tasks, completed, runEvents,
                 terminals, closed, phase, answers, cur, out, late>>

ResumeCheckpoint(p) ==
  /\ At(p, "resume_checkpoint")
  /\ checkpoints' = checkpoints \cup {[run |-> cur[p], next |-> NextNodeIndex(stop[p])]}
  /\ Goto(p, IF out[p] = "waiting_callback" THEN "resume_callback" ELSE "resume_write")
  /\ UNCHANGED <<status, reached, plan, nodeRuns, tasks, completed, runEvents,
                 terminals, closed, phase, answers, idx, cur, out, late>>

ResumeCallback(p) ==
  /\ At(p, "resume_callback")
  /\ tasks' = tasks \cup {cur[p]}
  /\ Goto(p, "resume_write")
  /\ UNCHANGED <<status, reached, plan, nodeRuns, checkpoints, completed, runEvents,
                 terminals, closed, phase, answers, idx, cur, out, late>>

\* The guard sees the status read before the engine ran; the update is by
\* primary key.
ResumeWrite(p) ==
  /\ At(p, "resume_write")
  /\ IF EnsureFlowRunTransition(seen[p], out[p])
       THEN /\ SetStatus(out[p])
            /\ Goto(p, IF out[p] \in WaitingStatus THEN "done" ELSE "record")
       ELSE Goto(p, "done") /\ UNCHANGED <<status, reached>>
  /\ UNCHANGED <<stored, runEvents, terminals, closed, phase, answers,
                 idx, cur, out, late>>

-----------------------------------------------------------------------------
Execute(p) ==
  \/ Prepare(p) \/ Attach(p) \/ FailShell(p) \/ Started(p)
  \/ StartRead(p) \/ StartCas(p) \/ PublicStarted(p)
  \/ Begin(p) \/ LoopHead(p) \/ CreateNodeRun(p) \/ ExecuteNode(p)
  \/ CheckCancelled(p) \/ CreateCheckpoint(p) \/ CreateCallbackTask(p)
  \/ WriteOutcome(p) \/ Finish(p) \/ FailFlowRun(p) \/ ReportError(p)

Announce(p) == Emit(p) \/ Close(p) \/ Record(p) \/ LoadRunDetail(p)

Cancel(p) == CancelRead(p) \/ CancelCas(p) \/ AuditCancel(p)

Persist(p) ==
  \/ Engine(p) \/ Trigger(p) \/ ResumeWaitingNode(p) \/ Trace(p) \/ TraceUpdate(p)
  \/ ResumeCheckpoint(p) \/ ResumeCallback(p) \/ ResumeWrite(p) \/ Record(p)
  \/ LoadRunDetail(p)

Resume(p) == ResumeRead(p) \/ ResumeLoad(p)

Complete(p) ==
  \/ CompleteCallbackTask(p) \/ CompleteLoad(p) \/ CompleteDetail(p)
  \/ Confirm(p) \/ FailWaitingNode(p)

Next ==
  \/ \E p \in Executors : Execute(p) \/ Announce(p) \/ CallFails(p)
  \/ \E p \in Cancellers : Cancel(p) \/ Announce(p)
  \/ \E p \in Resumers : Resume(p) \/ Persist(p)
  \/ \E p \in Completers : Complete(p) \/ Persist(p)

Spec == Init /\ [][Next]_vars

\* Tokio runs a spawned task until it ends, and a provider call of a node
\* returns or times out; a cancel request that won its compare-and-set goes on
\* to announce it.  Nothing obliges anybody to send a request.
Fairness ==
  /\ \A p \in Executors : WF_vars(Execute(p) \/ Announce(p))
  /\ \A p \in Cancellers : WF_vars(Announce(p))

FairSpec == Spec /\ Fairness

-----------------------------------------------------------------------------
(* Safety                                                                  *)

\* A run that executes, waits or succeeded has a compiled plan: a cancel or a
\* failure that races prepare never lets an unprepared shell run.
ExecutionHasPlan ==
  status \in {"running", "succeeded"} \cup WaitingStatus => plan # NoPlan

\* The kinds of node that wait for an answer of one sort.
WaitsIn(o) == IF o = "waiting_human" THEN {"human_input"} ELSE {"tool", "data_model"}

\* What an answer to the wait o of node run n needs is stored: a checkpoint, and
\* for a callback the task as well.
Answerable(n, o) ==
  /\ plan[nodeRuns[n].node] \in WaitsIn(o)
  /\ \E c \in checkpoints : c.run = n
  /\ o = "waiting_callback" => n \in tasks

\* A resume or an answer has taken up the wait of node run n.
Taken(n) == \E p \in Proc : waiter[p] = n

\* A wait stays open until a request takes it up: its node run waits and its
\* task, if it has one, is pending.
Open(n) == nodeRuns[n].status \in WaitingStatus /\ n \notin completed

\* Suspending a run is several writes, and the task may stop between any two.
\* Whoever is about to write a waiting status, the executor or a resume, has
\* stored all that an answer to its own wait needs; no wait is closed before a
\* request takes it up.  So what a suspended run waits for can still be answered
\* until a request takes that up, wherever the task that suspended it stopped.
\* Nothing is said of a request that takes a wait up and then stops or fails: it
\* can leave the run waiting with nothing pending (see AnsweredTaskIsApplied).
WaitingRunIsResumable ==
  /\ \A p \in Proc :
       pc[p] \in {"write", "resume_write"} /\ out[p] \in WaitingStatus
         => Answerable(cur[p], out[p])
  /\ status \in WaitingStatus => \E c \in checkpoints : Answerable(c.run, status)
  /\ \A c \in checkpoints : Open(c.run) \/ Taken(c.run)

Finished(n) == nodeRuns[n].status \in {"succeeded", "failed"}

\* Position i of the plan has a node run that ended.
Ran(i) == \E n \in DOMAIN nodeRuns : nodeRuns[n].node = i /\ Finished(n)

\* A succeeded run executed every node of its plan, whichever tasks executed
\* them and however often it was suspended and resumed on the way.
NothingSkipped ==
  status = "succeeded" => \A i \in 1..Len(plan) : Ran(i)

\* The durable log never announces an end the run did not have, although its
\* event is appended long after the status was written and others write
\* statuses in between.
LogIsTruthful == runEvents \cap TerminalStatus \subseteq reached

\* Whoever finds the stream closed finds a terminal event in it: every task
\* announces before it closes, and what a late one announces is refused.
ClosedStreamHasTerminal == closed => terminals # {}

\* After a cancel has committed, an executor starts at most the one node whose
\* cancellation check it had already passed.
AtMostOneNodeAfterCancel == \A p \in Executors : late[p] <= 1

\* Of the requests that answer one callback task at the same time, one wins.
OneAnswerPerTask ==
  \A p, q \in Completers :
    p # q /\ waiter[p] # 0 => waiter[p] # waiter[q]

-----------------------------------------------------------------------------
(* What a step may never do                                                *)

\* A run enters Running from Queued only: neither prepare nor a second start of
\* a published run revives a run that was cancelled, waits or ended.
StartsFromQueued ==
  [][status # "running" /\ status' = "running" => status = "queued"]_vars

\* A cancel that read an old status never overwrites a run that has ended.
CancelSparesFinished ==
  [][status # "cancelled" /\ status' = "cancelled"
       => status \notin TerminalStatus]_vars

\* Cancelling a debug run that is still being prepared is final: no plan is
\* attached to it and no failure of its preparation overwrites it.
CancelledShellIsFinal ==
  [][status = "cancelled" /\ plan = NoPlan => UNCHANGED <<status, plan>>]_vars

\* A node run that ended is never running or waiting again.
FinishedNodeStaysFinished ==
  [][\A n \in DOMAIN nodeRuns : Finished(n) => Finished(n)']_vars

-----------------------------------------------------------------------------
(* Liveness                                                                *)

\* A run does not stay Running: as long as its task is alive and its calls
\* return, it ends, waits or is cancelled.
RunSettles == status = "running" ~> status # "running"

\* A run that left Running closes its stream, so a subscriber is not left
\* waiting for a terminal event, whichever task has to close it.  It holds of
\* runs nobody cancels through the published API (see EndIsAnnounced).
SettledRunClosesStream == status \notin {"queued", "running"} ~> closed

-----------------------------------------------------------------------------
(* What the documents and tests say and the code does not guarantee        *)

\* A run that has ended keeps its status.
TerminalIsFinal == [][status \notin TerminalStatus \/ UNCHANGED status]_vars

\* When complete_callback_task has returned, the node run whose task it completed
\* is no longer waiting for that answer.
AnsweredTaskIsApplied ==
  \A p \in Completers :
    At(p, "done") /\ waiter[p] # 0 => nodeRuns[waiter[p]].status \notin WaitingStatus

\* Everybody who works on an ended run has returned.
Settled ==
  /\ status \in TerminalStatus
  /\ \A p \in Executors \cup Cancellers : At(p, "done")

\* Then the live stream has announced the end the durable run had.  The code
\* refuses it: prepare returns Err and leaves the shell queued, its caller
\* announces flow_failed and closes the stream, and a cancel that commits after
\* that ends the run with a status the closed stream no longer takes.
StreamConverges == Settled => status \in terminals

\* Then a streaming run has put out a terminal event, so its client is not left
\* waiting: who cancels a run through the published API does not announce it, and
\* the executor that finds it cancelled leaves without a word.
EndIsAnnounced == Settled => terminals # {}

\* The run's log says it was cancelled only if it was: a cancel of the published
\* API that lost its compare-and-set, to the run's own start as to its end, did
\* not cancel.
CancelAuditIsTruthful == "public_cancelled" \in runEvents => "cancelled" \in reached
=============================================================================
