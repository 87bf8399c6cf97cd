----------------------------- MODULE RunStatus -----------------------------
(***************************************************************************)
(* The states of a flow run and of a node run, and the two transition      *)
(* guards every writer of a status is meant to pass                        *)
(* (crates/control-plane/src/state_transition.rs).                         *)
(***************************************************************************)

FlowRunStatus ==
  { "queued", "running", "waiting_human", "waiting_callback", "paused",
    "succeeded", "failed", "cancelled" }

WaitingStatus == { "waiting_human", "waiting_callback" }

\* The statuses fail_flow_run leaves alone and no guarded transition leaves.
TerminalStatus == { "succeeded", "failed", "cancelled" }

\* pending, ready, streaming, waiting_tool, retrying and skipped exist in the
\* enumeration but no code of the orchestration runtime ever writes them.
NodeRunStatus ==
  { "running", "waiting_human", "waiting_callback", "succeeded", "failed" }

EnsureFlowRunTransition(from, to) ==
  <<from, to>> \in
    ( {"queued"} \X {"running", "cancelled", "failed"} )
      \cup ( {"running"} \X (WaitingStatus \cup TerminalStatus \cup {"paused"}) )
      \cup ( WaitingStatus \X (WaitingStatus \cup TerminalStatus) )
      \cup ( {"paused"} \X {"running", "cancelled"} )

EnsureNodeRunTransition(from, to) ==
  /\ from \in {"running"} \cup WaitingStatus
  /\ to \in WaitingStatus \cup {"succeeded", "failed"}
=============================================================================
