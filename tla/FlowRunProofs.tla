--------------------------- MODULE FlowRunProofs ---------------------------
(* Proofs about FlowRun for every set of tasks and every set of plans.     *)
EXTENDS FlowRun, TLAPS

(* What a node's execution is made of is expanded wherever ExecuteNode is.   *)
USE DEF ExecuteStart, ExecuteLlm, ExecuteDataModel, ExecuteHumanInput, ExecuteTool, StoreNode

(* Every step of the system is a step of one task.                         *)
Step(p) ==
  \/ Execute(p) \/ Announce(p) \/ Cancel(p) \/ Resume(p) \/ Complete(p) \/ Persist(p)
  \/ p \in Executors /\ CallFails(p)

\* Every step of the system is a step of one task.
LEMMA NextIsStep == Next => \E p \in Proc : Step(p)
  BY DEF Next, Step, Proc

-----------------------------------------------------------------------------
(* Rows of node_runs                                                       *)

(* update_node_run keeps every row, and every row's node.                  *)
LEMMA SetNodeRunRows ==
  ASSUME nodeRuns \in Seq(NodeRun), NEW n, NEW s \in NodeRunStatus, SetNodeRun(n, s)
  PROVE  /\ nodeRuns' \in Seq(NodeRun)
         /\ Len(nodeRuns') = Len(nodeRuns)
         /\ \A m \in 1..Len(nodeRuns) :
              /\ nodeRuns'[m].node = nodeRuns[m].node
              /\ nodeRuns'[m].status = IF m = n THEN s ELSE nodeRuns[m].status
PROOF
  <1> DEFINE row(m) == IF m = n THEN [nodeRuns[m] EXCEPT !.status = s] ELSE nodeRuns[m]
  <1>0. DOMAIN nodeRuns = 1..Len(nodeRuns)
    OBVIOUS
  <1>1. nodeRuns' = [m \in 1..Len(nodeRuns) |-> row(m)]
    BY <1>0, Zenon DEF SetNodeRun
  <1>2. ASSUME NEW m \in 1..Len(nodeRuns)
        PROVE  /\ row(m) \in NodeRun
               /\ row(m).node = nodeRuns[m].node
               /\ row(m).status = IF m = n THEN s ELSE nodeRuns[m].status
    <2>1. nodeRuns[m] \in NodeRun
      OBVIOUS
    <2> QED BY <2>1 DEF NodeRun
  <1> HIDE DEF row
  <1>3. nodeRuns' \in Seq(NodeRun) /\ Len(nodeRuns') = Len(nodeRuns)
    BY <1>1, <1>2
  <1> QED BY <1>1, <1>2, <1>3

(* create_node_run adds a row behind the ones there are.                   *)
LEMMA AppendRows ==
  ASSUME nodeRuns \in Seq(NodeRun), NEW r \in NodeRun, nodeRuns' = Append(nodeRuns, r)
  PROVE  /\ nodeRuns' \in Seq(NodeRun)
         /\ Len(nodeRuns') = Len(nodeRuns) + 1
         /\ \A m \in 1..Len(nodeRuns) : nodeRuns'[m] = nodeRuns[m]
         /\ nodeRuns'[Len(nodeRuns) + 1] = r
  OBVIOUS

-----------------------------------------------------------------------------
(* What a step of one task leaves alone                                    *)

\* The state of task q other than the history the last cancel resets.
LocalsUnchanged(q) ==
  /\ pc'[q] = pc[q] /\ phase'[q] = phase[q]
  /\ seen'[q] = seen[q] /\ from'[q] = from[q]
  /\ waiter'[q] = waiter[q] /\ stop'[q] = stop[q]
  /\ idx'[q] = idx[q] /\ cur'[q] = cur[q] /\ out'[q] = out[q]

\* A step of one task leaves the locals of the others alone.
LEMMA OthersUnchanged ==
  ASSUME TypeOK, NEW p \in Proc, Step(p), NEW q \in Proc \ {p}
  PROVE  LocalsUnchanged(q)
PROOF
  <1> USE DEF LocalsUnchanged, Goto, stored, answers
  <1>0. /\ pc \in [Proc -> Label] /\ phase \in [Proc -> Phase]
        /\ seen \in [Proc -> FlowRunStatus] /\ from \in [Proc -> NodeRunStatus]
        /\ waiter \in [Proc -> Nat] /\ stop \in [Proc -> Nat]
        /\ idx \in [Proc -> Nat \ {0}] /\ cur \in [Proc -> Nat] /\ out \in [Proc -> Outcome]
    BY DEF TypeOK, StoreTypeOK, TaskTypeOK
  <1>1. CASE Prepare(p)
    BY <1>0, <1>1 DEF Prepare
  <1>2. CASE Attach(p)
    BY <1>0, <1>2 DEF Attach, AttachMatches
  <1>3. CASE FailShell(p)
    BY <1>0, <1>3 DEF FailShell
  <1>4. CASE Started(p)
    BY <1>0, <1>4 DEF Started
  <1>5. CASE StartRead(p)
    BY <1>0, <1>5 DEF StartRead
  <1>6. CASE StartCas(p)
    BY <1>0, <1>6 DEF StartCas, IfStatus
  <1>7. CASE PublicStarted(p)
    BY <1>0, <1>7 DEF PublicStarted
  <1>8. CASE Begin(p)
    BY <1>0, <1>8 DEF Begin
  <1>9. CASE LoopHead(p)
    BY <1>0, <1>9 DEF LoopHead
  <1>10. CASE CreateNodeRun(p)
    BY <1>0, <1>10 DEF CreateNodeRun
  <1>11. CASE ExecuteNode(p)
    BY <1>0, <1>11 DEF ExecuteNode, NextNode
  <1>12. CASE CheckCancelled(p)
    BY <1>0, <1>12 DEF CheckCancelled, NextNode
  <1>13. CASE CreateCheckpoint(p)
    BY <1>0, <1>13 DEF CreateCheckpoint, NextNodeIndex
  <1>14. CASE CreateCallbackTask(p)
    BY <1>0, <1>14 DEF CreateCallbackTask
  <1>15. CASE WriteOutcome(p)
    BY <1>0, <1>15 DEF WriteOutcome
  <1>16. CASE Finish(p)
    BY <1>0, <1>16 DEF Finish, IfStatus
  <1>17. CASE FailFlowRun(p)
    BY <1>0, <1>17 DEF FailFlowRun
  <1>18. CASE ReportError(p)
    BY <1>0, <1>18 DEF ReportError
  <1>19. CASE Emit(p)
    BY <1>0, <1>19 DEF Emit
  <1>20. CASE Close(p)
    BY <1>0, <1>20 DEF Close
  <1>21. CASE Record(p)
    BY <1>0, <1>21 DEF Record
  <1>22. CASE LoadRunDetail(p)
    BY <1>0, <1>22 DEF LoadRunDetail
  <1>23. CASE CancelRead(p)
    BY <1>0, <1>23 DEF CancelRead
  <1>24. CASE CancelCas(p)
    BY <1>0, <1>24 DEF CancelCas, IfStatus
  <1>24a. CASE AuditCancel(p)
    BY <1>0, <1>24a DEF AuditCancel
  <1>25. CASE ResumeRead(p)
    BY <1>0, <1>25 DEF ResumeRead
  <1>26. CASE ResumeLoad(p)
    BY <1>0, <1>26 DEF ResumeLoad, LoadCheckpoint
  <1>27. CASE CompleteCallbackTask(p)
    BY <1>0, <1>27 DEF CompleteCallbackTask, IsPending
  <1>28. CASE CompleteLoad(p)
    BY <1>0, <1>28 DEF CompleteLoad
  <1>29. CASE CompleteDetail(p)
    BY <1>0, <1>29 DEF CompleteDetail, LoadCheckpoint
  <1>30. CASE Confirm(p)
    BY <1>0, <1>30 DEF Confirm
  <1>31. CASE FailWaitingNode(p)
    BY <1>0, <1>31 DEF FailWaitingNode
  <1>32. CASE Engine(p)
    BY <1>0, <1>32 DEF Engine
  <1>33. CASE Trigger(p)
    BY <1>0, <1>33 DEF Trigger
  <1>34. CASE ResumeWaitingNode(p)
    BY <1>0, <1>34 DEF ResumeWaitingNode
  <1>35. CASE Trace(p)
    BY <1>0, <1>35 DEF Trace
  <1>36. CASE TraceUpdate(p)
    BY <1>0, <1>36 DEF TraceUpdate
  <1>37. CASE ResumeCheckpoint(p)
    BY <1>0, <1>37 DEF ResumeCheckpoint, NextNodeIndex
  <1>38. CASE ResumeCallback(p)
    BY <1>0, <1>38 DEF ResumeCallback
  <1>39. CASE ResumeWrite(p)
    BY <1>0, <1>39 DEF ResumeWrite
  <1>40. CASE CallFails(p)
    BY <1>0, <1>40 DEF CallFails
  <1> QED BY <1>1, <1>2, <1>3, <1>4, <1>5, <1>6, <1>7, <1>8, <1>9, <1>10, <1>11,
     <1>12, <1>13, <1>14, <1>15, <1>16, <1>17, <1>18, <1>19, <1>20, <1>21, <1>22,
     <1>23, <1>24, <1>24a, <1>25, <1>26, <1>27, <1>28, <1>29, <1>30, <1>31, <1>32, <1>33,
     <1>34, <1>35, <1>36, <1>37, <1>38, <1>39, <1>40
       DEF Step, Execute, Announce, Cancel, Resume, Complete, Persist

-----------------------------------------------------------------------------
(* Type correctness                                                        *)

\* What a task is about to store or announce, by where it is.
OutcomeAt(p) ==
  /\ pc[p] \in {"emit", "close"} => out[p] \in WaitingStatus \cup TerminalStatus
  /\ pc[p] = "record" => out[p] \in TerminalStatus
  /\ pc[p] = "write" => out[p] \in WaitingStatus \cup {"failed"}
  /\ pc[p] \in {"checkpoint", "callback", "resume_checkpoint", "resume_callback"}
       => out[p] \in WaitingStatus
  /\ pc[p] \in { "trigger", "resume_node", "trace", "trace_update",
                 "resume_checkpoint", "resume_callback", "resume_write" }
       => out[p] \in WaitingStatus \cup {"succeeded", "failed"}

\* The rows a task refers to exist.  A resume that ends in a wait has traced at
\* least the node it waits in.
RowAt(p) ==
  /\ pc[p] \in { "execute", "check", "checkpoint", "callback", "trace_update",
                 "resume_checkpoint", "resume_callback" }
       => cur[p] \in 1..Len(nodeRuns)
  /\ pc[p] \in {"trigger", "resume_node"} /\ out[p] \in WaitingStatus
       => idx[p] <= stop[p]
  /\ pc[p] = "trace" /\ out[p] \in WaitingStatus /\ idx[p] > stop[p]
       => cur[p] \in 1..Len(nodeRuns)

CheckpointRows == \A c \in checkpoints : c.run \in 1..Len(nodeRuns)

\* Only a task that works on a run with a plan gets where it may write a status
\* other than the failure of a shell.
PlanAt(p) ==
  /\ pc[p] \in { "started", "start", "start_cas", "public_started", "begin", "loop",
                 "create", "execute", "check", "checkpoint", "callback", "finish",
                 "write", "error", "engine", "confirm", "fail_node", "trigger",
                 "resume_node", "trace", "trace_update", "resume_checkpoint",
                 "resume_callback", "resume_write" }
       => plan # NoPlan
  /\ pc[p] \in {"cancel", "cancel_cas"} => p \notin Executors
  /\ pc[p] = "fail_shell" => phase[p] = "failing_prepare"
  /\ p \in Executors /\ phase[p] \in {"normal", "failing"}
     /\ pc[p] \in {"emit", "close", "record", "detail"}
       => plan # NoPlan

PlanInv ==
  /\ ExecutionHasPlan
  /\ checkpoints # {} => plan # NoPlan
  /\ \A p \in Proc : PlanAt(p)

TypeInv ==
  /\ TypeOK
  /\ \A p \in Proc : OutcomeAt(p) /\ RowAt(p)
  /\ CheckpointRows
  /\ PlanInv

\* Rows are added and updated, never removed, moved to another node or set back
\* to running.
RowsKept ==
  /\ nodeRuns' \in Seq(NodeRun)
  /\ Len(nodeRuns') >= Len(nodeRuns)
  /\ \A m \in 1..Len(nodeRuns) :
       /\ nodeRuns'[m].node = nodeRuns[m].node
       /\ nodeRuns[m].status # "running" => nodeRuns'[m].status # "running"

\* The steps that touch node_runs.
RowStep(p) ==
  \/ CreateNodeRun(p) \/ ExecuteNode(p) \/ FailWaitingNode(p)
  \/ ResumeWaitingNode(p) \/ Trace(p) \/ TraceUpdate(p)

\* The steps that do not write node_runs keep every row.
LEMMA OtherStepsKeepRows ==
  ASSUME NEW p \in Proc, Step(p), ~ RowStep(p)
  PROVE  UNCHANGED nodeRuns
  BY DEF Step, RowStep, stored, Execute, Announce, Cancel, Resume, Complete, Persist,
     Prepare,
         Attach, FailShell, Started, StartRead, StartCas,
         PublicStarted, Begin, LoopHead, CheckCancelled,
         CreateCheckpoint, CreateCallbackTask, WriteOutcome, Finish,
         FailFlowRun, ReportError, Emit, Close, Record, LoadRunDetail,
         CancelRead, CancelCas, AuditCancel, ResumeRead, ResumeLoad,
         CompleteCallbackTask, CompleteLoad, CompleteDetail, Confirm,
         Engine, Trigger, ResumeCheckpoint, ResumeCallback,
         ResumeWrite, CallFails

\* A step keeps the rows there are and creates at most one.
LEMMA RowsStep ==
  ASSUME TypeInv, NEW p \in Proc, Step(p)
  PROVE  RowsKept
PROOF
  <1>0. /\ nodeRuns \in Seq(NodeRun) /\ idx[p] \in Nat \ {0}
        /\ OutcomeAt(p)
    BY DEF TypeInv, TypeOK, StoreTypeOK, TaskTypeOK
  <1>1. CASE UNCHANGED nodeRuns
    BY <1>0, <1>1 DEF RowsKept
  <1>2. ASSUME NEW s \in NodeRunStatus \ {"running"}, NEW n, SetNodeRun(n, s)
        PROVE  RowsKept
    BY <1>0, <1>2, SetNodeRunRows DEF RowsKept
  <1>3. ASSUME nodeRuns' = Append(nodeRuns, [node |-> idx[p], status |-> "running"])
        PROVE  RowsKept
    <2>1. [node |-> idx[p], status |-> "running"] \in NodeRun
      BY <1>0 DEF NodeRun, NodeRunStatus
    <2> QED BY <1>0, <1>3, <2>1, AppendRows DEF RowsKept
  <1>4. CASE CreateNodeRun(p)
    BY <1>3, <1>4 DEF CreateNodeRun
  <1>5. CASE ExecuteNode(p)
    BY <1>2, <1>5 DEF ExecuteNode, NodeRunStatus
  <1>6. CASE FailWaitingNode(p)
    BY <1>1, <1>2, <1>6 DEF FailWaitingNode, NodeRunStatus
  <1>7. CASE ResumeWaitingNode(p)
    BY <1>1, <1>2, <1>7 DEF ResumeWaitingNode, NodeRunStatus
  <1>8. CASE Trace(p)
    BY <1>1, <1>3, <1>8 DEF Trace
  <1>9. CASE TraceUpdate(p)
    BY <1>0, <1>2, <1>9 DEF TraceUpdate, NodeRunStatus, OutcomeAt, At, WaitingStatus
  <1> QED BY <1>1, <1>4, <1>5, <1>6, <1>7, <1>8, <1>9, OtherStepsKeepRows DEF RowStep

\* A step leads its task to a label, from a label of its own kind.
LEMMA LabelStep ==
  ASSUME pc \in [Proc -> Label], NEW p \in Proc, Step(p)
  PROVE  pc' \in [Proc -> Label]
PROOF
  <1>0. ASSUME NEW label \in Label, Goto(p, label)
        PROVE  pc' \in [Proc -> Label]
    BY <1>0 DEF Goto
  <1> USE DEF Label
  <1>1. CASE Prepare(p)
    BY <1>0, <1>1 DEF Prepare
  <1>2. CASE Attach(p)
    BY <1>0, <1>2 DEF Attach, AttachMatches
  <1>3. CASE FailShell(p)
    BY <1>0, <1>3 DEF FailShell
  <1>4. CASE Started(p)
    BY <1>0, <1>4 DEF Started
  <1>5. CASE StartRead(p)
    BY <1>0, <1>5 DEF StartRead
  <1>6. CASE StartCas(p)
    BY <1>0, <1>6 DEF StartCas, IfStatus
  <1>7. CASE PublicStarted(p)
    BY <1>0, <1>7 DEF PublicStarted
  <1>8. CASE Begin(p)
    BY <1>0, <1>8 DEF Begin
  <1>9. CASE LoopHead(p)
    BY <1>0, <1>9 DEF LoopHead
  <1>10. CASE CreateNodeRun(p)
    BY <1>0, <1>10 DEF CreateNodeRun
  <1>11. CASE ExecuteNode(p)
    BY <1>0, <1>11 DEF ExecuteNode, NextNode
  <1>12. CASE CheckCancelled(p)
    BY <1>0, <1>12 DEF CheckCancelled, NextNode
  <1>13. CASE CreateCheckpoint(p)
    BY <1>0, <1>13 DEF CreateCheckpoint, NextNodeIndex
  <1>14. CASE CreateCallbackTask(p)
    BY <1>0, <1>14 DEF CreateCallbackTask
  <1>15. CASE WriteOutcome(p)
    BY <1>0, <1>15 DEF WriteOutcome
  <1>16. CASE Finish(p)
    BY <1>0, <1>16 DEF Finish, IfStatus
  <1>17. CASE FailFlowRun(p)
    BY <1>0, <1>17 DEF FailFlowRun
  <1>18. CASE ReportError(p)
    BY <1>0, <1>18 DEF ReportError
  <1>19. CASE Emit(p)
    BY <1>0, <1>19 DEF Emit
  <1>20. CASE Close(p)
    BY <1>0, <1>20 DEF Close
  <1>21. CASE Record(p)
    BY <1>0, <1>21 DEF Record
  <1>22. CASE LoadRunDetail(p)
    BY <1>0, <1>22 DEF LoadRunDetail
  <1>23. CASE CancelRead(p)
    BY <1>0, <1>23 DEF CancelRead
  <1>24. CASE CancelCas(p)
    BY <1>0, <1>24 DEF CancelCas, IfStatus
  <1>24a. CASE AuditCancel(p)
    BY <1>0, <1>24a DEF AuditCancel
  <1>25. CASE ResumeRead(p)
    BY <1>0, <1>25 DEF ResumeRead
  <1>26. CASE ResumeLoad(p)
    BY <1>0, <1>26 DEF ResumeLoad, LoadCheckpoint
  <1>27. CASE CompleteCallbackTask(p)
    BY <1>0, <1>27 DEF CompleteCallbackTask, IsPending
  <1>28. CASE CompleteLoad(p)
    BY <1>0, <1>28 DEF CompleteLoad
  <1>29. CASE CompleteDetail(p)
    BY <1>0, <1>29 DEF CompleteDetail, LoadCheckpoint
  <1>30. CASE Confirm(p)
    BY <1>0, <1>30 DEF Confirm
  <1>31. CASE FailWaitingNode(p)
    BY <1>0, <1>31 DEF FailWaitingNode
  <1>32. CASE Engine(p)
    BY <1>0, <1>32 DEF Engine
  <1>33. CASE Trigger(p)
    BY <1>0, <1>33 DEF Trigger
  <1>34. CASE ResumeWaitingNode(p)
    BY <1>0, <1>34 DEF ResumeWaitingNode
  <1>35. CASE Trace(p)
    BY <1>0, <1>35 DEF Trace
  <1>36. CASE TraceUpdate(p)
    BY <1>0, <1>36 DEF TraceUpdate
  <1>37. CASE ResumeCheckpoint(p)
    BY <1>0, <1>37 DEF ResumeCheckpoint, NextNodeIndex
  <1>38. CASE ResumeCallback(p)
    BY <1>0, <1>38 DEF ResumeCallback
  <1>39. CASE ResumeWrite(p)
    BY <1>0, <1>39 DEF ResumeWrite
  <1>40. CASE CallFails(p)
    BY <1>0, <1>40 DEF CallFails
  <1> QED
    BY <1>1, <1>2, <1>3, <1>4, <1>5, <1>6, <1>7, <1>8, <1>9, <1>10, <1>11,
       <1>12, <1>13, <1>14, <1>15, <1>16, <1>17, <1>18, <1>19, <1>20,
       <1>21, <1>22, <1>23, <1>24, <1>24a, <1>25, <1>26, <1>27, <1>28, <1>29,
       <1>30, <1>31, <1>32, <1>33, <1>34, <1>35, <1>36, <1>37, <1>38,
       <1>39, <1>40 DEF Step, Execute, Announce, Cancel, Resume, Complete,
       Persist

\* What a task is about to write is an outcome that fits where it is.
LEMMA OutTypeStep ==
  ASSUME out \in [Proc -> Outcome], NEW p \in Proc, Step(p)
  PROVE  out' \in [Proc -> Outcome]
PROOF
  <1>0. ASSUME NEW o \in Outcome, out' = [out EXCEPT ![p] = o]
        PROVE  out' \in [Proc -> Outcome]
    BY <1>0
  <1> USE DEF Outcome, WaitingStatus, TerminalStatus, answers
  <1>1. CASE Prepare(p)
    BY <1>0, <1>1 DEF Prepare
  <1>2. CASE Attach(p)
    BY <1>0, <1>2 DEF Attach, AttachMatches
  <1>3. CASE FailShell(p)
    BY <1>0, <1>3 DEF FailShell
  <1>4. CASE Started(p)
    BY <1>0, <1>4 DEF Started
  <1>5. CASE StartRead(p)
    BY <1>0, <1>5 DEF StartRead
  <1>6. CASE StartCas(p)
    BY <1>0, <1>6 DEF StartCas, IfStatus
  <1>7. CASE PublicStarted(p)
    BY <1>0, <1>7 DEF PublicStarted
  <1>8. CASE Begin(p)
    BY <1>0, <1>8 DEF Begin
  <1>9. CASE LoopHead(p)
    BY <1>0, <1>9 DEF LoopHead
  <1>10. CASE CreateNodeRun(p)
    BY <1>0, <1>10 DEF CreateNodeRun
  <1>11. CASE ExecuteNode(p)
    BY <1>0, <1>11 DEF ExecuteNode, NextNode
  <1>12. CASE CheckCancelled(p)
    BY <1>0, <1>12 DEF CheckCancelled, NextNode
  <1>13. CASE CreateCheckpoint(p)
    BY <1>0, <1>13 DEF CreateCheckpoint, NextNodeIndex
  <1>14. CASE CreateCallbackTask(p)
    BY <1>0, <1>14 DEF CreateCallbackTask
  <1>15. CASE WriteOutcome(p)
    BY <1>0, <1>15 DEF WriteOutcome
  <1>16. CASE Finish(p)
    BY <1>0, <1>16 DEF Finish, IfStatus
  <1>17. CASE FailFlowRun(p)
    BY <1>0, <1>17 DEF FailFlowRun
  <1>18. CASE ReportError(p)
    BY <1>0, <1>18 DEF ReportError
  <1>19. CASE Emit(p)
    BY <1>0, <1>19 DEF Emit
  <1>20. CASE Close(p)
    BY <1>0, <1>20 DEF Close
  <1>21. CASE Record(p)
    BY <1>0, <1>21 DEF Record
  <1>22. CASE LoadRunDetail(p)
    BY <1>0, <1>22 DEF LoadRunDetail
  <1>23. CASE CancelRead(p)
    BY <1>0, <1>23 DEF CancelRead
  <1>24. CASE CancelCas(p)
    BY <1>0, <1>24 DEF CancelCas, IfStatus
  <1>24a. CASE AuditCancel(p)
    BY <1>0, <1>24a DEF AuditCancel
  <1>25. CASE ResumeRead(p)
    BY <1>0, <1>25 DEF ResumeRead
  <1>26. CASE ResumeLoad(p)
    BY <1>0, <1>26 DEF ResumeLoad, LoadCheckpoint
  <1>27. CASE CompleteCallbackTask(p)
    BY <1>0, <1>27 DEF CompleteCallbackTask, IsPending
  <1>28. CASE CompleteLoad(p)
    BY <1>0, <1>28 DEF CompleteLoad
  <1>29. CASE CompleteDetail(p)
    BY <1>0, <1>29 DEF CompleteDetail, LoadCheckpoint
  <1>30. CASE Confirm(p)
    BY <1>0, <1>30 DEF Confirm
  <1>31. CASE FailWaitingNode(p)
    BY <1>0, <1>31 DEF FailWaitingNode
  <1>32. CASE Engine(p)
    BY <1>0, <1>32 DEF Engine
  <1>33. CASE Trigger(p)
    BY <1>0, <1>33 DEF Trigger
  <1>34. CASE ResumeWaitingNode(p)
    BY <1>0, <1>34 DEF ResumeWaitingNode
  <1>35. CASE Trace(p)
    BY <1>0, <1>35 DEF Trace
  <1>36. CASE TraceUpdate(p)
    BY <1>0, <1>36 DEF TraceUpdate
  <1>37. CASE ResumeCheckpoint(p)
    BY <1>0, <1>37 DEF ResumeCheckpoint, NextNodeIndex
  <1>38. CASE ResumeCallback(p)
    BY <1>0, <1>38 DEF ResumeCallback
  <1>39. CASE ResumeWrite(p)
    BY <1>0, <1>39 DEF ResumeWrite
  <1>40. CASE CallFails(p)
    BY <1>0, <1>40 DEF CallFails
  <1> QED
    BY <1>1, <1>2, <1>3, <1>4, <1>5, <1>6, <1>7, <1>8, <1>9, <1>10, <1>11,
       <1>12, <1>13, <1>14, <1>15, <1>16, <1>17, <1>18, <1>19, <1>20,
       <1>21, <1>22, <1>23, <1>24, <1>24a, <1>25, <1>26, <1>27, <1>28, <1>29,
       <1>30, <1>31, <1>32, <1>33, <1>34, <1>35, <1>36, <1>37, <1>38,
       <1>39, <1>40 DEF Step, Execute, Announce, Cancel, Resume, Complete,
       Persist

\* Every step keeps rows, checkpoints and locals well typed.
LEMMA TypeStep ==
  ASSUME TypeInv, NEW p \in Proc, Step(p)
  PROVE  TypeOK'
PROOF
  <1>0. TypeOK /\ OutcomeAt(p)
    BY DEF TypeInv
  <1>s. /\ pc' \in [Proc -> Label] /\ out' \in [Proc -> Outcome]
        /\ nodeRuns' \in Seq(NodeRun)
    BY <1>0, LabelStep, OutTypeStep, RowsStep DEF TypeOK, TaskTypeOK, RowsKept
  <1>p. pc[p] = "engine" => Len(plan) \in Nat
    BY PlansAssumption DEF TypeInv, TypeOK, StoreTypeOK, PlanInv, PlanAt
  <1>c. \A c \in checkpoints : /\ c.run \in Nat /\ c.next \in Nat \ {0}
                              /\ nodeRuns[c.run].status \in NodeRunStatus
    <2>1. ASSUME NEW c \in checkpoints PROVE nodeRuns[c.run] \in NodeRun
      BY <1>0, c.run \in 1..Len(nodeRuns) DEF TypeInv, CheckpointRows, TypeOK,
         StoreTypeOK
    <2> QED BY <1>0, <2>1 DEF Checkpoint, NodeRun, TypeOK, StoreTypeOK
  <1>i. ASSUME idx' = idx \/ NextNode(p)
        PROVE  idx' \in [Proc -> Nat \ {0}]
    <2>1. idx[p] + 1 \in Nat \ {0}
      BY <1>0 DEF TypeOK, TaskTypeOK
    <2> QED BY <1>0, <1>i, <2>1 DEF TypeOK, TaskTypeOK, NextNode
  <1> USE DEF TypeOK, StoreTypeOK, TaskTypeOK, At, stored, answers, SetStatus
  <1>1. CASE Prepare(p)
    BY <1>0, <1>s, <1>1 DEF Prepare, Phase
  <1>2. CASE Attach(p)
    BY <1>0, <1>s, <1>2 DEF Attach, AttachMatches, FlowRunStatus, Phase
  <1>3. CASE FailShell(p)
    BY <1>0, <1>s, <1>3 DEF FailShell, FlowRunStatus
  <1>4. CASE Started(p)
    BY <1>0, <1>s, <1>4 DEF Started
  <1>5. CASE StartRead(p)
    BY <1>0, <1>s, <1>5 DEF StartRead
  <1>6. CASE StartCas(p)
    BY <1>0, <1>s, <1>6 DEF StartCas, IfStatus, FlowRunStatus
  <1>7. CASE PublicStarted(p)
    BY <1>0, <1>s, <1>7 DEF PublicStarted
  <1>8. CASE Begin(p)
    BY <1>0, <1>s, <1>8 DEF Begin
  <1>9. CASE LoopHead(p)
    BY <1>0, <1>s, <1>9 DEF LoopHead
  <1>10. CASE CreateNodeRun(p)
    <2>1. cur' \in [Proc -> Nat]
      <3>1. Len(nodeRuns) + 1 \in Nat
        BY <1>0
      <3> QED BY <1>0, <3>1, <1>10 DEF CreateNodeRun
    <2>2. late' \in [Proc -> Nat]
      <3>1. late[p] + 1 \in Nat
        BY <1>0
      <3> QED BY <1>0, <3>1, <1>10 DEF CreateNodeRun
    <2> QED BY <1>0, <1>s, <2>1, <2>2, <1>10 DEF CreateNodeRun
  <1>11. CASE ExecuteNode(p)
    <2>1. idx' = idx \/ NextNode(p)
      BY <1>11 DEF ExecuteNode
    <2> QED BY <1>0, <1>s, <1>i, <2>1, <1>11 DEF ExecuteNode
  <1>12. CASE CheckCancelled(p)
    <2>1. idx' = idx \/ NextNode(p)
      BY <1>12 DEF CheckCancelled
    <2> QED BY <1>0, <1>s, <1>i, <2>1, <1>12 DEF CheckCancelled
  <1>13. CASE CreateCheckpoint(p)
    <2>1. [run |-> cur[p], next |-> idx[p] + 1] \in Checkpoint
      BY <1>0 DEF Checkpoint
    <2> QED BY <1>0, <1>s, <2>1, <1>13 DEF CreateCheckpoint, NextNodeIndex
  <1>14. CASE CreateCallbackTask(p)
    BY <1>0, <1>s, <1>14 DEF CreateCallbackTask
  <1>15. CASE WriteOutcome(p)
    BY <1>0, <1>s, <1>15 DEF WriteOutcome, OutcomeAt, FlowRunStatus, WaitingStatus
  <1>16. CASE Finish(p)
    BY <1>0, <1>s, <1>16 DEF Finish, IfStatus, FlowRunStatus
  <1>17. CASE FailFlowRun(p)
    BY <1>0, <1>s, <1>17 DEF FailFlowRun
  <1>18. CASE ReportError(p)
    BY <1>0, <1>s, <1>18 DEF ReportError, Phase
  <1>19. CASE Emit(p)
    BY <1>0, <1>s, <1>19 DEF Emit, OutcomeAt
  <1>20. CASE Close(p)
    BY <1>0, <1>s, <1>20 DEF Close
  <1>21. CASE Record(p)
    BY <1>0, <1>s, <1>21 DEF Record, OutcomeAt
  <1>22. CASE LoadRunDetail(p)
    BY <1>0, <1>s, <1>22 DEF LoadRunDetail
  <1>23. CASE CancelRead(p)
    BY <1>0, <1>s, <1>23 DEF CancelRead
  <1>24. CASE CancelCas(p)
    <2>1. late' = late \/ late' = [q \in Proc |-> 0]
      BY <1>24 DEF CancelCas
    <2>2. late' \in [Proc -> Nat]
      <3>1. late \in [Proc -> Nat] /\ [q \in Proc |-> 0] \in [Proc -> Nat]
        BY <1>0
      <3> HIDE DEF TypeOK, StoreTypeOK, TaskTypeOK
      <3> QED BY <2>1, <3>1, Zenon
    <2> QED BY <1>0, <1>s, <2>2, <1>24 DEF CancelCas, FlowRunStatus
  <1>24a. CASE AuditCancel(p)
    BY <1>0, <1>s, <1>24a DEF AuditCancel
  <1>25. CASE ResumeRead(p)
    BY <1>0, <1>s, <1>25 DEF ResumeRead
  <1>26. CASE ResumeLoad(p)
    BY <1>0, <1>s, <1>c, <1>26 DEF ResumeLoad, LoadCheckpoint
  <1>27. CASE CompleteCallbackTask(p)
    BY <1>0, <1>s, <1>27 DEF CompleteCallbackTask, IsPending
  <1>28. CASE CompleteLoad(p)
    BY <1>0, <1>s, <1>28 DEF CompleteLoad
  <1>29. CASE CompleteDetail(p)
    BY <1>0, <1>s, <1>c, <1>29 DEF CompleteDetail, LoadCheckpoint
  <1>30. CASE Confirm(p)
    BY <1>0, <1>s, <1>30 DEF Confirm
  <1>31. CASE FailWaitingNode(p)
    BY <1>0, <1>s, <1>31 DEF FailWaitingNode
  <1>32. CASE Engine(p)
    <2>1. \/ stop' = stop
          \/ \E j \in Nat : stop' = [stop EXCEPT ![p] = j]
      <3>1. idx[p] \in Nat /\ Len(plan) \in Nat
        BY <1>0, <1>p, <1>32 DEF Engine
      <3>2. \A j \in idx[p]..Len(plan) : j \in Nat
        BY <3>1
      <3> HIDE DEF TypeOK, StoreTypeOK, TaskTypeOK
      <3> QED BY <3>1, <3>2, <1>32 DEF Engine
    <2>2. stop' \in [Proc -> Nat]
      BY <1>0, <2>1
    <2>3. UNCHANGED <<status, reached, stored, runEvents, terminals, closed, phase,
                      seen, from, waiter, idx, cur, late>>
      BY <1>32 DEF Engine
    <2> QED BY <1>0, <1>s, <2>2, <2>3
  <1>33. CASE Trigger(p)
    BY <1>0, <1>s, <1>33 DEF Trigger
  <1>34. CASE ResumeWaitingNode(p)
    BY <1>0, <1>s, <1>34 DEF ResumeWaitingNode
  <1>35. CASE Trace(p)
    <2>1. cur' \in [Proc -> Nat]
      <3>1. Len(nodeRuns) + 1 \in Nat
        BY <1>0
      <3> QED BY <1>0, <3>1, <1>35 DEF Trace
    <2> QED BY <1>0, <1>s, <2>1, <1>35 DEF Trace
  <1>36. CASE TraceUpdate(p)
    BY <1>0, <1>s, <1>36 DEF TraceUpdate
  <1>37. CASE ResumeCheckpoint(p)
    <2>1. [run |-> cur[p], next |-> stop[p] + 1] \in Checkpoint
      BY <1>0 DEF Checkpoint
    <2> QED BY <1>0, <1>s, <2>1, <1>37 DEF ResumeCheckpoint, NextNodeIndex
  <1>38. CASE ResumeCallback(p)
    BY <1>0, <1>s, <1>38 DEF ResumeCallback
  <1>39. CASE ResumeWrite(p)
    BY <1>0, <1>s, <1>39 DEF ResumeWrite, OutcomeAt, FlowRunStatus, WaitingStatus
  <1>40. CASE CallFails(p)
    BY <1>0, <1>s, <1>40 DEF CallFails, Phase
  <1> QED
    BY <1>1, <1>2, <1>3, <1>4, <1>5, <1>6, <1>7, <1>8, <1>9, <1>10, <1>11,
       <1>12, <1>13, <1>14, <1>15, <1>16, <1>17, <1>18, <1>19, <1>20,
       <1>21, <1>22, <1>23, <1>24, <1>24a, <1>25, <1>26, <1>27, <1>28, <1>29,
       <1>30, <1>31, <1>32, <1>33, <1>34, <1>35, <1>36, <1>37, <1>38,
       <1>39, <1>40 DEF Step, Execute, Announce, Cancel, Resume, Complete,
       Persist

\* Each label a task reaches holds an outcome of its kind.
LEMMA OutcomeStep ==
  ASSUME TypeInv, NEW p \in Proc, Step(p), NEW q \in Proc
  PROVE  OutcomeAt(q)'
PROOF
  <1> USE DEF At, Goto, answers, OutcomeAt, WaitingStatus, TerminalStatus
  <1>0. /\ pc \in [Proc -> Label] /\ out \in [Proc -> Outcome] /\ OutcomeAt(q)
    BY DEF TypeInv, TypeOK, StoreTypeOK, TaskTypeOK
  <1>a. CASE q # p
    BY <1>0, <1>a, OthersUnchanged DEF LocalsUnchanged, TypeInv
  <1> SUFFICES ASSUME q = p PROVE OutcomeAt(q)'
    BY <1>a
  <1>1. CASE Prepare(p)
    BY <1>0, <1>1 DEF Prepare
  <1>2. CASE Attach(p)
    BY <1>0, <1>2 DEF Attach, AttachMatches
  <1>3. CASE FailShell(p)
    BY <1>0, <1>3 DEF FailShell
  <1>4. CASE Started(p)
    BY <1>0, <1>4 DEF Started
  <1>5. CASE StartRead(p)
    BY <1>0, <1>5 DEF StartRead
  <1>6. CASE StartCas(p)
    BY <1>0, <1>6 DEF StartCas, IfStatus
  <1>7. CASE PublicStarted(p)
    BY <1>0, <1>7 DEF PublicStarted
  <1>8. CASE Begin(p)
    BY <1>0, <1>8 DEF Begin
  <1>9. CASE LoopHead(p)
    BY <1>0, <1>9 DEF LoopHead
  <1>10. CASE CreateNodeRun(p)
    BY <1>0, <1>10 DEF CreateNodeRun
  <1>11. CASE ExecuteNode(p)
    BY <1>0, <1>11 DEF ExecuteNode, NextNode
  <1>12. CASE CheckCancelled(p)
    BY <1>0, <1>12 DEF CheckCancelled, NextNode
  <1>13. CASE CreateCheckpoint(p)
    BY <1>0, <1>13 DEF CreateCheckpoint, NextNodeIndex
  <1>14. CASE CreateCallbackTask(p)
    BY <1>0, <1>14 DEF CreateCallbackTask
  <1>15. CASE WriteOutcome(p)
    BY <1>0, <1>15 DEF WriteOutcome
  <1>16. CASE Finish(p)
    BY <1>0, <1>16 DEF Finish, IfStatus
  <1>17. CASE FailFlowRun(p)
    BY <1>0, <1>17 DEF FailFlowRun
  <1>18. CASE ReportError(p)
    BY <1>0, <1>18 DEF ReportError
  <1>19. CASE Emit(p)
    BY <1>0, <1>19 DEF Emit
  <1>20. CASE Close(p)
    BY <1>0, <1>20 DEF Close
  <1>21. CASE Record(p)
    BY <1>0, <1>21 DEF Record
  <1>22. CASE LoadRunDetail(p)
    BY <1>0, <1>22 DEF LoadRunDetail
  <1>23. CASE CancelRead(p)
    BY <1>0, <1>23 DEF CancelRead
  <1>24. CASE CancelCas(p)
    BY <1>0, <1>24 DEF CancelCas, IfStatus
  <1>24a. CASE AuditCancel(p)
    BY <1>0, <1>24a DEF AuditCancel
  <1>25. CASE ResumeRead(p)
    BY <1>0, <1>25 DEF ResumeRead
  <1>26. CASE ResumeLoad(p)
    BY <1>0, <1>26 DEF ResumeLoad, LoadCheckpoint
  <1>27. CASE CompleteCallbackTask(p)
    BY <1>0, <1>27 DEF CompleteCallbackTask, IsPending
  <1>28. CASE CompleteLoad(p)
    BY <1>0, <1>28 DEF CompleteLoad
  <1>29. CASE CompleteDetail(p)
    BY <1>0, <1>29 DEF CompleteDetail, LoadCheckpoint
  <1>30. CASE Confirm(p)
    BY <1>0, <1>30 DEF Confirm
  <1>31. CASE FailWaitingNode(p)
    BY <1>0, <1>31 DEF FailWaitingNode
  <1>32. CASE Engine(p)
    BY <1>0, <1>32 DEF Engine
  <1>33. CASE Trigger(p)
    BY <1>0, <1>33 DEF Trigger
  <1>34. CASE ResumeWaitingNode(p)
    BY <1>0, <1>34 DEF ResumeWaitingNode
  <1>35. CASE Trace(p)
    BY <1>0, <1>35 DEF Trace
  <1>36. CASE TraceUpdate(p)
    BY <1>0, <1>36 DEF TraceUpdate
  <1>37. CASE ResumeCheckpoint(p)
    BY <1>0, <1>37 DEF ResumeCheckpoint, NextNodeIndex
  <1>38. CASE ResumeCallback(p)
    BY <1>0, <1>38 DEF ResumeCallback
  <1>39. CASE ResumeWrite(p)
    BY <1>0, <1>39 DEF ResumeWrite
  <1>40. CASE CallFails(p)
    BY <1>0, <1>40 DEF CallFails
  <1> QED BY <1>1, <1>2, <1>3, <1>4, <1>5, <1>6, <1>7, <1>8, <1>9, <1>10, <1>11,
     <1>12, <1>13, <1>14, <1>15, <1>16, <1>17, <1>18, <1>19, <1>20, <1>21, <1>22,
     <1>23, <1>24, <1>24a, <1>25, <1>26, <1>27, <1>28, <1>29, <1>30, <1>31, <1>32, <1>33,
     <1>34, <1>35, <1>36, <1>37, <1>38, <1>39, <1>40
       DEF Step, Execute, Announce, Cancel, Resume, Complete, Persist

(* update_flow_run and the steps after Attach leave the plan alone: a run gets *)
(* at most one plan.                                                        *)
LEMMA PlanKept ==
  ASSUME NEW p \in Proc, Step(p), plan # NoPlan
  PROVE  plan' = plan
  BY DEF Step, stored, AttachMatches, Execute, Announce, Cancel, Resume, Complete,
     Persist, Prepare, Attach, FailShell, Started, StartRead, StartCas, PublicStarted,
     Begin, LoopHead, CreateNodeRun, ExecuteNode, CheckCancelled, CreateCheckpoint,
     CreateCallbackTask, WriteOutcome, Finish, FailFlowRun, ReportError, Emit, Close,
     Record, LoadRunDetail, CancelRead, CancelCas, AuditCancel, ResumeRead, ResumeLoad,
     CompleteCallbackTask, CompleteLoad, CompleteDetail, Confirm, FailWaitingNode,
     Engine, Trigger, ResumeWaitingNode, Trace, TraceUpdate, ResumeCheckpoint,
     ResumeCallback, ResumeWrite, CallFails

(* The steps that write flow_runs.status.                                  *)
LEMMA StatusWriters ==
  ASSUME NEW p \in Proc, Step(p)
  PROVE  \/ UNCHANGED <<status, reached>>
         \/ Attach(p) \/ FailShell(p) \/ StartCas(p) \/ WriteOutcome(p) \/ Finish(p)
         \/ CancelCas(p) \/ ResumeWrite(p)
  BY DEF Step, Execute, Announce, Cancel, Resume, Complete, Persist, Prepare, Started,
     StartRead, PublicStarted, Begin, LoopHead, CreateNodeRun, ExecuteNode,
     CheckCancelled, CreateCheckpoint, CreateCallbackTask, FailFlowRun, ReportError,
     Emit, Close, Record, LoadRunDetail, CancelRead, AuditCancel, ResumeRead, ResumeLoad,
     CompleteCallbackTask, CompleteLoad, CompleteDetail, Confirm, FailWaitingNode,
     Engine, Trigger, ResumeWaitingNode, Trace, TraceUpdate, ResumeCheckpoint,
     ResumeCallback, CallFails

(* Every label at which a status may be written is reached on a planned run. *)
LEMMA PlanAtStep ==
  ASSUME TypeInv, NEW p \in Proc, Step(p), NEW q \in Proc
  PROVE  PlanAt(q)'
PROOF
  <1> USE DEF At, Goto, PlanAt
  <1>0. /\ pc \in [Proc -> Label] /\ phase \in [Proc -> Phase]
        /\ PlanAt(q)
        /\ plan # NoPlan => plan' = plan
    BY PlanKept DEF TypeInv, TypeOK, TaskTypeOK, PlanInv
  <1>a. CASE q # p
    BY <1>0, <1>a, OthersUnchanged DEF LocalsUnchanged, TypeInv
  <1>b. ExecutionHasPlan /\ (checkpoints # {} => plan # NoPlan) /\ NoPlan \notin Plans
    BY PlansAssumption DEF TypeInv, PlanInv
  <1> SUFFICES ASSUME q = p PROVE PlanAt(q)'
    BY <1>a
  <1>1. CASE Prepare(p)
    BY <1>0, <1>b, <1>1 DEF Prepare
  <1>2. CASE Attach(p)
    BY <1>0, <1>b, <1>2 DEF Attach, AttachMatches
  <1>3. CASE FailShell(p)
    BY <1>0, <1>b, <1>3 DEF FailShell
  <1>4. CASE Started(p)
    BY <1>0, <1>b, <1>4 DEF Started
  <1>5. CASE StartRead(p)
    BY <1>0, <1>b, <1>5 DEF StartRead, ExecutionHasPlan
  <1>6. CASE StartCas(p)
    BY <1>0, <1>b, <1>6 DEF StartCas, IfStatus
  <1>7. CASE PublicStarted(p)
    BY <1>0, <1>b, <1>7 DEF PublicStarted
  <1>8. CASE Begin(p)
    BY <1>0, <1>b, <1>8 DEF Begin, ExecutionHasPlan
  <1>9. CASE LoopHead(p)
    BY <1>0, <1>b, <1>9 DEF LoopHead
  <1>10. CASE CreateNodeRun(p)
    BY <1>0, <1>b, <1>10 DEF CreateNodeRun
  <1>11. CASE ExecuteNode(p)
    BY <1>0, <1>b, <1>11 DEF ExecuteNode, NextNode
  <1>12. CASE CheckCancelled(p)
    BY <1>0, <1>b, <1>12 DEF CheckCancelled, NextNode
  <1>13. CASE CreateCheckpoint(p)
    BY <1>0, <1>b, <1>13 DEF CreateCheckpoint, NextNodeIndex
  <1>14. CASE CreateCallbackTask(p)
    BY <1>0, <1>b, <1>14 DEF CreateCallbackTask
  <1>15. CASE WriteOutcome(p)
    BY <1>0, <1>b, <1>15 DEF WriteOutcome
  <1>16. CASE Finish(p)
    BY <1>0, <1>b, <1>16 DEF Finish, IfStatus
  <1>17. CASE FailFlowRun(p)
    BY <1>0, <1>b, <1>17 DEF FailFlowRun
  <1>18. CASE ReportError(p)
    BY <1>0, <1>b, <1>18 DEF ReportError
  <1>19. CASE Emit(p)
    BY <1>0, <1>b, <1>19 DEF Emit
  <1>20. CASE Close(p)
    BY <1>0, <1>b, <1>20 DEF Close
  <1>21. CASE Record(p)
    BY <1>0, <1>b, <1>21 DEF Record
  <1>22. CASE LoadRunDetail(p)
    BY <1>0, <1>b, <1>22 DEF LoadRunDetail
  <1>23. CASE CancelRead(p)
    BY <1>0, <1>b, <1>23 DEF CancelRead, AuditCancel, ExecutionHasPlan
  <1>24. CASE CancelCas(p)
    BY <1>0, <1>b, <1>24 DEF CancelCas, IfStatus
  <1>24a. CASE AuditCancel(p)
    BY <1>0, <1>b, <1>24a DEF AuditCancel
  <1>25. CASE ResumeRead(p)
    BY <1>0, <1>b, <1>25 DEF ResumeRead
  <1>26. CASE ResumeLoad(p)
    BY <1>0, <1>b, <1>26 DEF ResumeLoad, LoadCheckpoint
  <1>27. CASE CompleteCallbackTask(p)
    BY <1>0, <1>b, <1>27 DEF CompleteCallbackTask, IsPending
  <1>28. CASE CompleteLoad(p)
    BY <1>0, <1>b, <1>28 DEF CompleteLoad
  <1>29. CASE CompleteDetail(p)
    BY <1>0, <1>b, <1>29 DEF CompleteDetail, LoadCheckpoint
  <1>30. CASE Confirm(p)
    BY <1>0, <1>b, <1>30 DEF Confirm
  <1>31. CASE FailWaitingNode(p)
    BY <1>0, <1>b, <1>31 DEF FailWaitingNode
  <1>32. CASE Engine(p)
    BY <1>0, <1>b, <1>32 DEF Engine
  <1>33. CASE Trigger(p)
    BY <1>0, <1>b, <1>33 DEF Trigger
  <1>34. CASE ResumeWaitingNode(p)
    BY <1>0, <1>b, <1>34 DEF ResumeWaitingNode
  <1>35. CASE Trace(p)
    BY <1>0, <1>b, <1>35 DEF Trace
  <1>36. CASE TraceUpdate(p)
    BY <1>0, <1>b, <1>36 DEF TraceUpdate
  <1>37. CASE ResumeCheckpoint(p)
    BY <1>0, <1>b, <1>37 DEF ResumeCheckpoint, NextNodeIndex
  <1>38. CASE ResumeCallback(p)
    BY <1>0, <1>b, <1>38 DEF ResumeCallback
  <1>39. CASE ResumeWrite(p)
    BY <1>0, <1>b, <1>39 DEF ResumeWrite
  <1>40. CASE p \in Executors /\ CallFails(p)
    BY <1>0, <1>b, <1>40 DEF CallFails, Label, Phase
  <1> QED BY <1>1, <1>2, <1>3, <1>4, <1>5, <1>6, <1>7, <1>8, <1>9, <1>10,
     <1>11, <1>12, <1>13, <1>14, <1>15, <1>16, <1>17, <1>18, <1>19, <1>20,
     <1>21, <1>22, <1>23, <1>24, <1>24a, <1>25, <1>26, <1>27, <1>28, <1>29, <1>30,
     <1>31, <1>32, <1>33, <1>34, <1>35, <1>36, <1>37, <1>38, <1>39, <1>40 DEF
     Step, Execute, Announce, Cancel, Resume, Complete, Persist

(* No step gives an unplanned run a status that needs a plan.               *)
LEMMA PlanStep ==
  ASSUME TypeInv, NEW p \in Proc, Step(p)
  PROVE  PlanInv'
PROOF
  <1>0. /\ plan # NoPlan => plan' = plan
        /\ PlanAt(p) /\ OutcomeAt(p) /\ ExecutionHasPlan /\ (checkpoints # {} => plan
           # NoPlan)
        /\ NoPlan \notin Plans
    BY PlanKept, PlansAssumption DEF TypeInv, PlanInv
  <1>1. checkpoints' # {} => plan' # NoPlan
    <2>1. CASE CreateCheckpoint(p)
      BY <1>0, <2>1 DEF CreateCheckpoint, PlanAt, At
    <2>2. CASE ResumeCheckpoint(p)
      BY <1>0, <2>2 DEF ResumeCheckpoint, PlanAt, At
    <2>3. CASE Attach(p)
      BY <1>0, <2>3 DEF Attach, stored
    <2>4. CASE ~ (CreateCheckpoint(p) \/ ResumeCheckpoint(p) \/ Attach(p))
      <3>1. UNCHANGED <<plan, checkpoints>>
        BY <2>4 DEF Step, stored, Execute, Announce, Cancel, Resume, Complete,
           Persist, Prepare, FailShell, Started, StartRead, StartCas, PublicStarted,
           Begin, LoopHead, CreateNodeRun, ExecuteNode, CheckCancelled,
           CreateCallbackTask, WriteOutcome, Finish, FailFlowRun, ReportError, Emit,
           Close, Record, LoadRunDetail, CancelRead, CancelCas, AuditCancel, ResumeRead,
           ResumeLoad, CompleteCallbackTask, CompleteLoad, CompleteDetail, Confirm,
           FailWaitingNode, Engine, Trigger, ResumeWaitingNode, Trace, TraceUpdate,
           ResumeCallback, ResumeWrite, CallFails
      <3> QED BY <1>0, <3>1
    <2> QED BY <2>1, <2>2, <2>3, <2>4
  <1>2. ExecutionHasPlan'
    <2> USE DEF ExecutionHasPlan, PlanAt, At, SetStatus, stored
    <2>1. CASE Attach(p)
      BY <1>0, <2>1 DEF Attach
    <2>2. CASE FailShell(p)
      BY <1>0, <2>2 DEF FailShell, WaitingStatus
    <2>3. CASE StartCas(p)
      BY <1>0, <2>3 DEF StartCas
    <2>4. CASE WriteOutcome(p)
      BY <1>0, <2>4 DEF WriteOutcome
    <2>5. CASE Finish(p)
      BY <1>0, <2>5 DEF Finish
    <2>6. CASE CancelCas(p)
      BY <1>0, <2>6 DEF CancelCas, WaitingStatus
    <2>7. CASE ResumeWrite(p)
      BY <1>0, <2>7 DEF ResumeWrite
    <2>8. CASE UNCHANGED status
      BY <1>0, <2>8
    <2> QED BY <2>1, <2>2, <2>3, <2>4, <2>5, <2>6, <2>7, <2>8, StatusWriters
  <1>3. \A q \in Proc : PlanAt(q)'
    BY PlanAtStep
  <1> QED BY <1>1, <1>2, <1>3 DEF PlanInv

(* The node run a task works on is a row, and stays one.                   *)
LEMMA RowAtStep ==
  ASSUME TypeInv, NEW p \in Proc, Step(p), NEW q \in Proc
  PROVE  RowAt(q)'
PROOF
  <1> USE DEF At, Goto, RowAt, answers
  <1>0. /\ pc \in [Proc -> Label] /\ out \in [Proc -> Outcome]
        /\ idx \in [Proc -> Nat \ {0}] /\ stop \in [Proc -> Nat] /\ cur \in [Proc ->
           Nat]
        /\ RowAt(q)
    BY DEF TypeInv, TypeOK, TaskTypeOK
  <1>r. /\ Len(nodeRuns) \in Nat /\ Len(nodeRuns') \in Nat
        /\ Len(nodeRuns') >= Len(nodeRuns)
    BY RowsStep DEF TypeInv, TypeOK, StoreTypeOK, RowsKept
  <1>a. CASE q # p
    <2>1. cur[q] \in 1..Len(nodeRuns) => cur[q] \in 1..Len(nodeRuns')
      BY <1>r
    <2> QED BY <1>0, <1>a, <2>1, OthersUnchanged DEF LocalsUnchanged, TypeInv
  <1> SUFFICES ASSUME q = p PROVE RowAt(q)'
    BY <1>a
  <1>g. cur[p] \in 1..Len(nodeRuns) => cur[p] \in 1..Len(nodeRuns')
    BY <1>r
  <1>1. CASE Prepare(p)
    BY <1>0, <1>g, <1>1 DEF Prepare
  <1>2. CASE Attach(p)
    BY <1>0, <1>g, <1>2 DEF Attach, AttachMatches
  <1>3. CASE FailShell(p)
    BY <1>0, <1>g, <1>3 DEF FailShell
  <1>4. CASE Started(p)
    BY <1>0, <1>g, <1>4 DEF Started
  <1>5. CASE StartRead(p)
    BY <1>0, <1>g, <1>5 DEF StartRead
  <1>6. CASE StartCas(p)
    BY <1>0, <1>g, <1>6 DEF StartCas, IfStatus
  <1>7. CASE PublicStarted(p)
    BY <1>0, <1>g, <1>7 DEF PublicStarted
  <1>8. CASE Begin(p)
    BY <1>0, <1>g, <1>8 DEF Begin
  <1>9. CASE LoopHead(p)
    BY <1>0, <1>g, <1>9 DEF LoopHead
  <1>10. CASE CreateNodeRun(p)
    <2>1. [node |-> idx[p], status |-> "running"] \in NodeRun
      BY <1>0 DEF NodeRun, NodeRunStatus
    <2>2. nodeRuns' = Append(nodeRuns, [node |-> idx[p], status |-> "running"])
          => Len(nodeRuns) + 1 \in 1..Len(nodeRuns')
      BY <2>1, <1>r, AppendRows DEF TypeInv, TypeOK, StoreTypeOK
    <2> QED BY <1>0, <1>g, <2>2, <1>10 DEF CreateNodeRun
  <1>11. CASE ExecuteNode(p)
    BY <1>0, <1>g, <1>11 DEF ExecuteNode, NextNode
  <1>12. CASE CheckCancelled(p)
    BY <1>0, <1>g, <1>12 DEF CheckCancelled, NextNode
  <1>13. CASE CreateCheckpoint(p)
    BY <1>0, <1>g, <1>13 DEF CreateCheckpoint, NextNodeIndex
  <1>14. CASE CreateCallbackTask(p)
    BY <1>0, <1>g, <1>14 DEF CreateCallbackTask
  <1>15. CASE WriteOutcome(p)
    BY <1>0, <1>g, <1>15 DEF WriteOutcome
  <1>16. CASE Finish(p)
    BY <1>0, <1>g, <1>16 DEF Finish, IfStatus
  <1>17. CASE FailFlowRun(p)
    BY <1>0, <1>g, <1>17 DEF FailFlowRun
  <1>18. CASE ReportError(p)
    BY <1>0, <1>g, <1>18 DEF ReportError
  <1>19. CASE Emit(p)
    BY <1>0, <1>g, <1>19 DEF Emit
  <1>20. CASE Close(p)
    BY <1>0, <1>g, <1>20 DEF Close
  <1>21. CASE Record(p)
    BY <1>0, <1>g, <1>21 DEF Record
  <1>22. CASE LoadRunDetail(p)
    BY <1>0, <1>g, <1>22 DEF LoadRunDetail
  <1>23. CASE CancelRead(p)
    BY <1>0, <1>g, <1>23 DEF CancelRead
  <1>24. CASE CancelCas(p)
    BY <1>0, <1>g, <1>24 DEF CancelCas, IfStatus
  <1>24a. CASE AuditCancel(p)
    BY <1>0, <1>g, <1>24a DEF AuditCancel
  <1>25. CASE ResumeRead(p)
    BY <1>0, <1>g, <1>25 DEF ResumeRead
  <1>26. CASE ResumeLoad(p)
    BY <1>0, <1>g, <1>26 DEF ResumeLoad, LoadCheckpoint
  <1>27. CASE CompleteCallbackTask(p)
    BY <1>0, <1>g, <1>27 DEF CompleteCallbackTask, IsPending
  <1>28. CASE CompleteLoad(p)
    BY <1>0, <1>g, <1>28 DEF CompleteLoad
  <1>29. CASE CompleteDetail(p)
    BY <1>0, <1>g, <1>29 DEF CompleteDetail, LoadCheckpoint
  <1>30. CASE Confirm(p)
    BY <1>0, <1>g, <1>30 DEF Confirm
  <1>31. CASE FailWaitingNode(p)
    BY <1>0, <1>g, <1>31 DEF FailWaitingNode
  <1>32. CASE Engine(p)
    <2>1. \A j \in idx[p]..Len(plan) : idx[p] <= j
      BY <1>0
    <2> QED BY <1>0, <2>1, <1>32 DEF Engine, WaitingStatus
  <1>33. CASE Trigger(p)
    BY <1>0, <1>g, <1>33 DEF Trigger
  <1>34. CASE ResumeWaitingNode(p)
    BY <1>0, <1>g, <1>34 DEF ResumeWaitingNode
  <1>35. CASE Trace(p)
    <2>1. [node |-> idx[p], status |-> "running"] \in NodeRun
      BY <1>0 DEF NodeRun, NodeRunStatus
    <2>2. nodeRuns' = Append(nodeRuns, [node |-> idx[p], status |-> "running"])
          => Len(nodeRuns) + 1 \in 1..Len(nodeRuns')
      BY <2>1, <1>r, AppendRows DEF TypeInv, TypeOK, StoreTypeOK
    <2> QED BY <1>0, <1>g, <2>2, <1>35 DEF Trace
  <1>36. CASE TraceUpdate(p)
    BY <1>0, <1>g, <1>36 DEF TraceUpdate
  <1>37. CASE ResumeCheckpoint(p)
    BY <1>0, <1>g, <1>37 DEF ResumeCheckpoint, NextNodeIndex
  <1>38. CASE ResumeCallback(p)
    BY <1>0, <1>g, <1>38 DEF ResumeCallback
  <1>39. CASE ResumeWrite(p)
    BY <1>0, <1>g, <1>39 DEF ResumeWrite
  <1>40. CASE CallFails(p)
    BY <1>0, <1>g, <1>40 DEF CallFails
  <1> QED BY <1>1, <1>2, <1>3, <1>4, <1>5, <1>6, <1>7, <1>8, <1>9, <1>10,
     <1>11, <1>12, <1>13, <1>14, <1>15, <1>16, <1>17, <1>18, <1>19, <1>20,
     <1>21, <1>22, <1>23, <1>24, <1>24a, <1>25, <1>26, <1>27, <1>28, <1>29, <1>30,
     <1>31, <1>32, <1>33, <1>34, <1>35, <1>36, <1>37, <1>38, <1>39, <1>40 DEF
     Step, Execute, Announce, Cancel, Resume, Complete, Persist

(* A checkpoint refers to the node run its writer works on.                *)
LEMMA CheckpointRowsStep ==
  ASSUME TypeInv, NEW p \in Proc, Step(p)
  PROVE  CheckpointRows'
PROOF
  <1>0. /\ Len(nodeRuns) \in Nat /\ Len(nodeRuns') \in Nat
        /\ Len(nodeRuns') >= Len(nodeRuns)
    BY RowsStep DEF TypeInv, TypeOK, StoreTypeOK, RowsKept
  <1>1. CheckpointRows /\ RowAt(p)
    BY DEF TypeInv
  <1>2. \A n \in 1..Len(nodeRuns) : n \in 1..Len(nodeRuns')
    BY <1>0
  <1>3. \/ checkpoints' = checkpoints
        \/ /\ cur[p] \in 1..Len(nodeRuns)
           /\ \E i \in {idx[p], stop[p]} :
                checkpoints' = checkpoints \cup {[run |-> cur[p], next |->
                   NextNodeIndex(i)]}
    <2>1. CASE CreateCheckpoint(p)
      BY <1>1, <2>1 DEF CreateCheckpoint, RowAt, At
    <2>2. CASE ResumeCheckpoint(p)
      BY <1>1, <2>2 DEF ResumeCheckpoint, RowAt, At
    <2>3. CASE ~ (CreateCheckpoint(p) \/ ResumeCheckpoint(p))
      BY <2>3 DEF Step, stored, Execute, Announce, Cancel, Resume, Complete, Persist,
         Prepare, Attach, FailShell, Started, StartRead, StartCas, PublicStarted,
         Begin, LoopHead, CreateNodeRun, ExecuteNode, CheckCancelled,
         CreateCallbackTask, WriteOutcome, Finish, FailFlowRun, ReportError, Emit,
         Close, Record, LoadRunDetail, CancelRead, CancelCas, AuditCancel, ResumeRead, ResumeLoad,
         CompleteCallbackTask, CompleteLoad, CompleteDetail, Confirm, FailWaitingNode,
         Engine, Trigger, ResumeWaitingNode, Trace, TraceUpdate, ResumeCallback,
         ResumeWrite, CallFails
    <2> QED BY <2>1, <2>2, <2>3
  <1> QED BY <1>1, <1>2, <1>3 DEF CheckpointRows

\* Where a task may start.
FirstLabels == {"prepare", "start", "cancel", "resume", "complete", "done"}

\* Each kind of task starts at its first step; a cancel of the published API does
\* nothing to a run that was not published.
LEMMA FirstStep ==
  ASSUME Init
  PROVE  \A p \in Proc :
           /\ pc[p] \in FirstLabels
           /\ p \in Executors => pc[p] = IF plan = NoPlan THEN "prepare" ELSE "start"
           /\ p \notin Executors => pc[p] \in {"cancel", "resume", "complete", "done"}
           /\ p \in Completers => pc[p] = "complete"
  BY ProcAssumption DEF Init, FirstLabel, FirstLabels, Proc

\* The initial states satisfy the strengthened type invariant.
LEMMA InitTypeInv == Init => TypeInv
PROOF
  <1> SUFFICES ASSUME Init PROVE TypeInv
    OBVIOUS
  <1> USE DEF Init
  <1>1. \A p \in Proc : pc[p] \in FirstLabels
    BY FirstStep
  <1>2. TypeOK
    <2>1. pc \in [Proc -> Label]
      BY <1>1 DEF FirstLabels, Label
    <2>2. nodeRuns \in Seq(NodeRun)
      OBVIOUS
    <2>3. StoreTypeOK
      BY <2>2 DEF StoreTypeOK, FlowRunStatus
    <2>4. TaskTypeOK
      BY <2>1 DEF TaskTypeOK, FlowRunStatus, Phase, NodeRunStatus, Outcome
    <2> QED BY <2>3, <2>4 DEF TypeOK
  <1>3. \A p \in Proc : OutcomeAt(p) /\ RowAt(p)
    BY <1>1 DEF FirstLabels, OutcomeAt, RowAt
  <1>4. CheckpointRows
    BY DEF CheckpointRows
  <1>5. PlanInv
    <2>1. ASSUME NEW p \in Proc PROVE PlanAt(p)
      BY <1>1, FirstStep, ProcAssumption, ZenonT(60) DEF FirstLabels, PlanAt
    <2> QED BY <2>1 DEF PlanInv, ExecutionHasPlan, WaitingStatus
  <1> QED BY <1>2, <1>3, <1>4, <1>5 DEF TypeInv

\* Stuttering keeps the strengthened type invariant.
LEMMA StutterTypeInv == TypeInv /\ UNCHANGED vars => TypeInv'
  BY DEF vars, stored, answers, TypeInv, TypeOK, StoreTypeOK, TaskTypeOK, OutcomeAt,
     RowAt,
         CheckpointRows, PlanInv, PlanAt, ExecutionHasPlan

(* The strengthened type invariant is inductive.                           *)
THEOREM TypeInvariant == Spec => []TypeInv
PROOF
  <1>1. Init => TypeInv
    BY InitTypeInv
  <1>2. TypeInv /\ [Next]_vars => TypeInv'
    <2>1. ASSUME TypeInv, NEW p \in Proc, Step(p) PROVE TypeInv'
      BY <2>1, TypeStep, OutcomeStep, RowAtStep, CheckpointRowsStep, PlanStep DEF
         TypeInv
    <2> QED BY <2>1, NextIsStep, StutterTypeInv
  <1> QED BY <1>1, <1>2, PTL DEF Spec

(* Every reachable state is well typed, whatever the tasks and the plans: no *)
(* interleaving leads a handler to a row, a label or a status it cannot have. *)
THEOREM TypeCorrect == Spec => []TypeOK
  BY TypeInvariant, PTL DEF TypeInv

(* A run that executes, waits or succeeded has a plan: a cancel or a failure *)
(* that races prepare never lets an unprepared shell run.                  *)
THEOREM PlanBeforeExecution == Spec => []ExecutionHasPlan
PROOF
  <1>1. TypeInv => ExecutionHasPlan
    BY DEF TypeInv, PlanInv
  <1> QED BY <1>1, TypeInvariant, PTL
=============================================================================
