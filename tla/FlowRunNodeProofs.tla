-------------------------- MODULE FlowRunNodeProofs --------------------------
(* What the node runs of a run add up to, whichever tasks execute, wait,   *)
(* answer and resume it: every wait can be answered, nothing that ended    *)
(* starts again, and a run that succeeded has executed its whole plan.     *)
EXTENDS FlowRunProofs

(* What a node's execution is made of is expanded wherever ExecuteNode is.   *)
USE DEF ExecuteStart, ExecuteLlm, ExecuteDataModel, ExecuteHumanInput, ExecuteTool, StoreNode

-----------------------------------------------------------------------------
(* The inductive invariant                                                 *)

KindOfRow(n) == plan[nodeRuns[n].node]

\* The waits that can be answered.
Waits == { o \in WaitingStatus : \E c \in checkpoints : Answerable(c.run, o) }

\* A task that is about to store a wait is at a node of the right kind.
WaitAt(p) ==
  out[p] \in WaitingStatus =>
    /\ pc[p] \in {"check", "checkpoint", "callback", "resume_checkpoint", "resume_callback"}
         => KindOfRow(cur[p]) \in WaitsIn(out[p])
    /\ pc[p] \in {"callback", "resume_callback"}
         => out[p] = "waiting_callback" /\ \E c \in checkpoints : c.run = cur[p]
    /\ pc[p] \in {"trigger", "resume_node", "trace", "trace_update"}
         => plan[stop[p]] \in WaitsIn(out[p])
    /\ pc[p] \in {"write", "resume_write"} => Answerable(cur[p], out[p])

Running(n) == nodeRuns[n].status = "running"

\* The labels at which a task holds a running node run of its own.
Holds(p) == pc[p] \in {"execute", "trace_update"}

\* A task holds the row of the position it is at; the row it is done with, or
\* resumes, is not running.
RowStateAt(p) ==
  /\ Holds(p) => Running(cur[p]) /\ nodeRuns[cur[p]].node = idx[p]
  /\ pc[p] = "trace_update" => idx[p] <= stop[p]
  /\ pc[p] \in {"check", "checkpoint"} =>
       /\ ~ Running(cur[p])
       /\ nodeRuns[cur[p]].node = idx[p]
       /\ out[p] = "ok" => Finished(cur[p])
  /\ pc[p] = "trace" /\ out[p] \in WaitingStatus /\ idx[p] > stop[p] =>
       ~ Running(cur[p]) /\ nodeRuns[cur[p]].node = stop[p]
  /\ pc[p] = "resume_checkpoint" => ~ Running(cur[p]) /\ nodeRuns[cur[p]].node = stop[p]
  /\ pc[p] \in {"engine", "confirm", "fail_node", "trigger", "resume_node"} =>
       /\ waiter[p] \in 1..Len(nodeRuns)
       /\ ~ Running(waiter[p])
       /\ nodeRuns[waiter[p]].node = idx[p] - 1

\* A running node run is written by the task that created it alone.
OneWriterPerRow ==
  \A p, q \in Proc : p # q /\ Holds(p) /\ Holds(q) => cur[p] # cur[q]

\* The positions of the plan that have a node run that ended.
Ended == { nodeRuns[n].node : n \in { m \in DOMAIN nodeRuns : Finished(m) } }

RanBefore(i) == \A k \in 1..i - 1 : k \in Ended

ProgressAt(p) ==
  /\ pc[p] \in { "prepare", "attach", "started", "start", "start_cas", "public_started",
                 "begin", "loop", "create", "execute", "check", "checkpoint",
                 "trace_update" }
       => RanBefore(idx[p])
  /\ pc[p] = "finish" => RanBefore(Len(plan) + 1)
  /\ pc[p] \in {"engine", "confirm", "trigger", "resume_node"} => RanBefore(idx[p] - 1)
  /\ pc[p] = "trace" =>
       \A k \in 1..idx[p] - 1 : k \in Ended \/ (k = stop[p] /\ out[p] \in WaitingStatus)
  /\ pc[p] = "resume_checkpoint" => RanBefore(stop[p])
  /\ out[p] = "succeeded" =>
       /\ pc[p] \in {"trigger", "resume_node", "trace", "trace_update"} => stop[p] = Len(plan)
       /\ pc[p] = "resume_write" => RanBefore(Len(plan) + 1)

\* The row a checkpoint refers to is not running, and it resumes behind that row.
RowInv ==
  /\ \A p \in Proc : RowStateAt(p)
  /\ OneWriterPerRow
  /\ \A c \in checkpoints : ~ Running(c.run) /\ c.next = nodeRuns[c.run].node + 1

WaitInv ==
  /\ \A p \in Proc : WaitAt(p)
  /\ status \in WaitingStatus => status \in Waits

\* The wait of node run n is open, or a request has taken it up.
Kept(n) == Open(n) \/ Taken(n)

\* A task at whose row a checkpoint will be put, or may have been put.
OpenAt(p) ==
  /\ pc[p] \in {"resume", "resume_load", "complete"} => waiter[p] = 0
  /\ out[p] \in WaitingStatus =>
       /\ pc[p] \in {"check", "checkpoint", "resume_checkpoint"} => Kept(cur[p])
       /\ pc[p] = "trace" /\ idx[p] > stop[p] => Kept(cur[p])

OpenInv ==
  /\ \A p \in Proc : OpenAt(p)
  /\ 0 \notin tasks
  /\ \A n \in completed : Taken(n)
  /\ \A c \in checkpoints : Kept(c.run)

ProgressInv ==
  /\ \A p \in Proc : ProgressAt(p)
  /\ \A c \in checkpoints : RanBefore(c.next - 1)
  /\ status = "succeeded" => RanBefore(Len(plan) + 1)

-----------------------------------------------------------------------------
(* Rows                                                                    *)

(* A step of one task ends the row the task holds or finishes one that     *)
(* waits; a row that ended stays ended, and the running rows of others run. *)
LEMMA RowsMove ==
  ASSUME TypeInv, RowInv, NEW p \in Proc, Step(p), NEW n \in 1..Len(nodeRuns)
  PROVE  /\ nodeRuns[n].status \in {"succeeded", "failed"}
              => nodeRuns'[n].status \in {"succeeded", "failed"}
         /\ Running(n) /\ ~ (Holds(p) /\ n = cur[p]) => nodeRuns'[n].status = "running"
PROOF
  <1>0. /\ nodeRuns \in Seq(NodeRun) /\ idx[p] \in Nat \ {0}
        /\ OutcomeAt(p) /\ RowStateAt(p)
    BY DEF TypeInv, TypeOK, StoreTypeOK, TaskTypeOK, RowInv
  <1> USE DEF RowStateAt, Running, Holds, At, WaitingStatus
  <1>1. CASE UNCHANGED nodeRuns
    BY <1>1
  <1>2. ASSUME NEW s \in NodeRunStatus, SetNodeRun(cur[p], s), Holds(p)
        PROVE  nodeRuns'[n].status = IF n = cur[p] THEN s ELSE nodeRuns[n].status
    BY <1>0, <1>2, SetNodeRunRows
  <1>3. ASSUME NEW s \in {"succeeded", "failed"}, SetNodeRun(waiter[p], s),
               pc[p] \in {"fail_node", "resume_node"}
        PROVE  nodeRuns'[n].status = IF n = waiter[p] THEN s ELSE nodeRuns[n].status
    BY <1>0, <1>3, SetNodeRunRows DEF NodeRunStatus
  <1>4. ASSUME nodeRuns' = Append(nodeRuns, [node |-> idx[p], status |-> "running"])
        PROVE  nodeRuns'[n] = nodeRuns[n]
    <2>1. [node |-> idx[p], status |-> "running"] \in NodeRun
      BY <1>0 DEF NodeRun, NodeRunStatus
    <2> QED BY <1>0, <1>4, <2>1, AppendRows
  <1>5. CASE CreateNodeRun(p)
    BY <1>4, <1>5 DEF CreateNodeRun
  <1>6. CASE ExecuteNode(p)
    BY <1>0, <1>2, <1>6 DEF ExecuteNode, NodeRunStatus
  <1>7. CASE FailWaitingNode(p)
    BY <1>0, <1>1, <1>3, <1>7 DEF FailWaitingNode
  <1>8. CASE ResumeWaitingNode(p)
    BY <1>0, <1>1, <1>3, <1>8 DEF ResumeWaitingNode
  <1>9. CASE Trace(p)
    BY <1>1, <1>4, <1>9 DEF Trace
  <1>10. CASE TraceUpdate(p)
    <2>1. PICK s \in NodeRunStatus : SetNodeRun(cur[p], s)
      BY <1>0, <1>10 DEF TraceUpdate, OutcomeAt, NodeRunStatus
    <2> QED BY <1>0, <1>2, <1>10, <2>1 DEF TraceUpdate
  <1> QED BY <1>1, <1>5, <1>6, <1>7, <1>8, <1>9, <1>10, OtherStepsKeepRows DEF RowStep

(* What every later lemma uses of a step: rows and their nodes are kept, what *)
(* no longer runs never runs again, what ended stays ended.                *)
LEMMA RowFacts ==
  ASSUME TypeInv, RowInv, NEW p \in Proc, Step(p)
  PROVE  /\ Len(nodeRuns) \in Nat /\ Len(nodeRuns') \in Nat
         /\ nodeRuns' \in Seq(NodeRun)
         /\ \A n \in 1..Len(nodeRuns) :
              /\ n \in 1..Len(nodeRuns')
              /\ nodeRuns[n].node \in Nat \ {0}
              /\ nodeRuns'[n].node = nodeRuns[n].node
              /\ nodeRuns[n].status # "running" => nodeRuns'[n].status # "running"
              /\ nodeRuns[n].status \in {"succeeded", "failed"}
                   => nodeRuns'[n].status \in {"succeeded", "failed"}
PROOF
  <1>1. nodeRuns \in Seq(NodeRun)
    BY DEF TypeInv, TypeOK, StoreTypeOK
  <1>2. \A n \in 1..Len(nodeRuns) : nodeRuns[n].node \in Nat \ {0}
    <2>1. \A n \in 1..Len(nodeRuns) : nodeRuns[n] \in NodeRun
      BY <1>1
    <2> QED BY <2>1 DEF NodeRun
  <1> QED BY <1>1, <1>2, RowsStep, RowsMove DEF RowsKept

(* What a step that stores a status in one row leaves in that row.         *)
LEMMA RowWritten ==
  ASSUME TypeInv, NEW n \in 1..Len(nodeRuns), NEW s \in NodeRunStatus, SetNodeRun(n, s)
  PROVE  /\ nodeRuns'[n].status = s
         /\ nodeRuns'[n].node = nodeRuns[n].node
  BY SetNodeRunRows DEF TypeInv, TypeOK, StoreTypeOK

(* What a step that creates a row leaves in it.                            *)
LEMMA RowCreated ==
  ASSUME TypeInv, NEW p \in Proc,
         nodeRuns' = Append(nodeRuns, [node |-> idx[p], status |-> "running"])
  PROVE  /\ Len(nodeRuns') = Len(nodeRuns) + 1
         /\ nodeRuns'[Len(nodeRuns) + 1].node = idx[p]
         /\ nodeRuns'[Len(nodeRuns) + 1].status = "running"
PROOF
  <1>1. nodeRuns \in Seq(NodeRun) /\ [node |-> idx[p], status |-> "running"] \in NodeRun
    BY DEF TypeInv, TypeOK, StoreTypeOK, TaskTypeOK, NodeRun, NodeRunStatus
  <1> QED BY <1>1, AppendRows

-----------------------------------------------------------------------------
(* The rows tasks hold                                                     *)

(* A task comes to hold a row by creating it.                              *)
LEMMA HoldsStep ==
  ASSUME pc \in [Proc -> Label], cur \in [Proc -> Nat], NEW p \in Proc, Step(p), Holds(p)'
  PROVE  /\ nodeRuns' = Append(nodeRuns, [node |-> idx[p], status |-> "running"])
         /\ cur'[p] = Len(nodeRuns) + 1
         /\ UNCHANGED <<idx, out, stop>>
         /\ Trace(p) => idx[p] <= stop[p]
PROOF
  <1> USE DEF Holds, Goto
  <1>1. CASE CreateNodeRun(p)
    BY <1>1 DEF CreateNodeRun, answers, Trace, At
  <1>2. CASE Trace(p)
    BY <1>2 DEF Trace, answers
  <1>3. CASE Prepare(p)
    BY <1>3 DEF Prepare
  <1>4. CASE Attach(p)
    BY <1>4 DEF Attach, AttachMatches
  <1>5. CASE FailShell(p)
    BY <1>5 DEF FailShell
  <1>6. CASE Started(p)
    BY <1>6 DEF Started
  <1>7. CASE StartRead(p)
    BY <1>7 DEF StartRead
  <1>8. CASE StartCas(p)
    BY <1>8 DEF StartCas, IfStatus
  <1>9. CASE PublicStarted(p)
    BY <1>9 DEF PublicStarted
  <1>10. CASE Begin(p)
    BY <1>10 DEF Begin
  <1>11. CASE LoopHead(p)
    BY <1>11 DEF LoopHead
  <1>12. CASE ExecuteNode(p)
    BY <1>12 DEF ExecuteNode, NextNode
  <1>13. CASE CheckCancelled(p)
    BY <1>13 DEF CheckCancelled, NextNode
  <1>14. CASE CreateCheckpoint(p)
    BY <1>14 DEF CreateCheckpoint, NextNodeIndex
  <1>15. CASE CreateCallbackTask(p)
    BY <1>15 DEF CreateCallbackTask
  <1>16. CASE WriteOutcome(p)
    BY <1>16 DEF WriteOutcome
  <1>17. CASE Finish(p)
    BY <1>17 DEF Finish, IfStatus
  <1>18. CASE FailFlowRun(p)
    BY <1>18 DEF FailFlowRun
  <1>19. CASE ReportError(p)
    BY <1>19 DEF ReportError
  <1>20. CASE Emit(p)
    BY <1>20 DEF Emit
  <1>21. CASE Close(p)
    BY <1>21 DEF Close
  <1>22. CASE Record(p)
    BY <1>22 DEF Record
  <1>23. CASE LoadRunDetail(p)
    BY <1>23 DEF LoadRunDetail
  <1>24. CASE CancelRead(p)
    BY <1>24 DEF CancelRead
  <1>25. CASE CancelCas(p)
    BY <1>25 DEF CancelCas, IfStatus
  <1>25a. CASE AuditCancel(p)
    BY <1>25a DEF AuditCancel
  <1>26. CASE ResumeRead(p)
    BY <1>26 DEF ResumeRead
  <1>27. CASE ResumeLoad(p)
    BY <1>27 DEF ResumeLoad, LoadCheckpoint
  <1>28. CASE CompleteCallbackTask(p)
    BY <1>28 DEF CompleteCallbackTask, IsPending
  <1>29. CASE CompleteLoad(p)
    BY <1>29 DEF CompleteLoad
  <1>30. CASE CompleteDetail(p)
    BY <1>30 DEF CompleteDetail, LoadCheckpoint
  <1>31. CASE Confirm(p)
    BY <1>31 DEF Confirm
  <1>32. CASE FailWaitingNode(p)
    BY <1>32 DEF FailWaitingNode
  <1>33. CASE Engine(p)
    BY <1>33 DEF Engine
  <1>34. CASE Trigger(p)
    BY <1>34 DEF Trigger
  <1>35. CASE ResumeWaitingNode(p)
    BY <1>35 DEF ResumeWaitingNode
  <1>36. CASE TraceUpdate(p)
    BY <1>36 DEF TraceUpdate
  <1>37. CASE ResumeCheckpoint(p)
    BY <1>37 DEF ResumeCheckpoint, NextNodeIndex
  <1>38. CASE ResumeCallback(p)
    BY <1>38 DEF ResumeCallback
  <1>39. CASE ResumeWrite(p)
    BY <1>39 DEF ResumeWrite
  <1>40. CASE CallFails(p)
    BY <1>40 DEF CallFails
  <1> QED BY <1>1, <1>2, <1>3, <1>4, <1>5, <1>6, <1>7, <1>8, <1>9, <1>10,
     <1>11, <1>12, <1>13, <1>14, <1>15, <1>16, <1>17, <1>18, <1>19, <1>20,
     <1>21, <1>22, <1>23, <1>24, <1>25, <1>25a, <1>26, <1>27, <1>28, <1>29, <1>30,
     <1>31, <1>32, <1>33, <1>34, <1>35, <1>36, <1>37, <1>38, <1>39, <1>40 DEF
     Step, Execute, Announce, Cancel, Resume, Complete, Persist

\* No step gives a running row a second writer.
LEMMA OneWriterStep ==
  ASSUME TypeInv, RowInv, NEW p \in Proc, Step(p)
  PROVE  OneWriterPerRow'
PROOF
  <1>0. /\ pc \in [Proc -> Label] /\ cur \in [Proc -> Nat] /\ OneWriterPerRow
        /\ \A q \in Proc : Holds(q) => cur[q] \in 1..Len(nodeRuns)
        /\ Len(nodeRuns) \in Nat
    BY DEF TypeInv, TypeOK, StoreTypeOK, TaskTypeOK, RowInv, RowAt, Holds
  <1>1. \A q \in Proc \ {p} : pc'[q] = pc[q] /\ cur'[q] = cur[q]
    BY OthersUnchanged DEF LocalsUnchanged, TypeInv
  <1>2. Holds(p)' => cur'[p] = Len(nodeRuns) + 1
    BY <1>0, HoldsStep
  <1>3. ASSUME NEW q \in Proc \ {p}, Holds(q)', Holds(p)'
        PROVE  cur'[q] # cur'[p]
    BY <1>0, <1>1, <1>2, <1>3 DEF Holds
  <1>4. ASSUME NEW q \in Proc \ {p}, NEW r \in Proc \ {p}, q # r, Holds(q)', Holds(r)'
        PROVE  cur'[q] # cur'[r]
    BY <1>0, <1>1, <1>4 DEF Holds, OneWriterPerRow
  <1> SUFFICES ASSUME NEW q \in Proc, NEW r \in Proc, q # r, Holds(q)', Holds(r)'
               PROVE  cur'[q] # cur'[r]
    BY DEF OneWriterPerRow
  <1> QED BY <1>3, <1>4

\* A task updates a trace only after it has created the row of it.
LEMMA TraceUpdateFromTrace ==
  ASSUME pc \in [Proc -> Label], NEW p \in Proc, Step(p), pc'[p] = "trace_update"
  PROVE  Trace(p)
PROOF
  <1> USE DEF Goto
  <1>1. CASE Prepare(p)
    BY <1>1 DEF Prepare
  <1>2. CASE Attach(p)
    BY <1>2 DEF Attach, AttachMatches
  <1>3. CASE FailShell(p)
    BY <1>3 DEF FailShell
  <1>4. CASE Started(p)
    BY <1>4 DEF Started
  <1>5. CASE StartRead(p)
    BY <1>5 DEF StartRead
  <1>6. CASE StartCas(p)
    BY <1>6 DEF StartCas, IfStatus
  <1>7. CASE PublicStarted(p)
    BY <1>7 DEF PublicStarted
  <1>8. CASE Begin(p)
    BY <1>8 DEF Begin
  <1>9. CASE LoopHead(p)
    BY <1>9 DEF LoopHead
  <1>10. CASE CreateNodeRun(p)
    BY <1>10 DEF CreateNodeRun
  <1>11. CASE ExecuteNode(p)
    BY <1>11 DEF ExecuteNode, NextNode
  <1>12. CASE CheckCancelled(p)
    BY <1>12 DEF CheckCancelled, NextNode
  <1>13. CASE CreateCheckpoint(p)
    BY <1>13 DEF CreateCheckpoint, NextNodeIndex
  <1>14. CASE CreateCallbackTask(p)
    BY <1>14 DEF CreateCallbackTask
  <1>15. CASE WriteOutcome(p)
    BY <1>15 DEF WriteOutcome
  <1>16. CASE Finish(p)
    BY <1>16 DEF Finish, IfStatus
  <1>17. CASE FailFlowRun(p)
    BY <1>17 DEF FailFlowRun
  <1>18. CASE ReportError(p)
    BY <1>18 DEF ReportError
  <1>19. CASE Emit(p)
    BY <1>19 DEF Emit
  <1>20. CASE Close(p)
    BY <1>20 DEF Close
  <1>21. CASE Record(p)
    BY <1>21 DEF Record
  <1>22. CASE LoadRunDetail(p)
    BY <1>22 DEF LoadRunDetail
  <1>23. CASE CancelRead(p)
    BY <1>23 DEF CancelRead
  <1>24. CASE CancelCas(p)
    BY <1>24 DEF CancelCas, IfStatus
  <1>24a. CASE AuditCancel(p)
    BY <1>24a DEF AuditCancel
  <1>25. CASE ResumeRead(p)
    BY <1>25 DEF ResumeRead
  <1>26. CASE ResumeLoad(p)
    BY <1>26 DEF ResumeLoad, LoadCheckpoint
  <1>27. CASE CompleteCallbackTask(p)
    BY <1>27 DEF CompleteCallbackTask, IsPending
  <1>28. CASE CompleteLoad(p)
    BY <1>28 DEF CompleteLoad
  <1>29. CASE CompleteDetail(p)
    BY <1>29 DEF CompleteDetail, LoadCheckpoint
  <1>30. CASE Confirm(p)
    BY <1>30 DEF Confirm
  <1>31. CASE FailWaitingNode(p)
    BY <1>31 DEF FailWaitingNode
  <1>32. CASE Engine(p)
    BY <1>32 DEF Engine
  <1>33. CASE Trigger(p)
    BY <1>33 DEF Trigger
  <1>34. CASE ResumeWaitingNode(p)
    BY <1>34 DEF ResumeWaitingNode
  <1>35. CASE TraceUpdate(p)
    BY <1>35 DEF TraceUpdate
  <1>36. CASE ResumeCheckpoint(p)
    BY <1>36 DEF ResumeCheckpoint, NextNodeIndex
  <1>37. CASE ResumeCallback(p)
    BY <1>37 DEF ResumeCallback
  <1>38. CASE ResumeWrite(p)
    BY <1>38 DEF ResumeWrite
  <1>39. CASE CallFails(p)
    BY <1>39, SMTT(30) DEF CallFails
  <1> QED BY <1>1, <1>2, <1>3, <1>4, <1>5, <1>6, <1>7, <1>8, <1>9, <1>10,
     <1>11, <1>12, <1>13, <1>14, <1>15, <1>16, <1>17, <1>18, <1>19, <1>20,
     <1>21, <1>22, <1>23, <1>24, <1>24a, <1>25, <1>26, <1>27, <1>28, <1>29, <1>30,
     <1>31, <1>32, <1>33, <1>34, <1>35, <1>36, <1>37, <1>38, <1>39 DEF Step,
     Execute, Announce, Cancel, Resume, Complete, Persist

(* The row a task works on, checkpoints or resumes is the one of its position. *)
LEMMA RowStateStep ==
  ASSUME TypeInv, RowInv, NEW p \in Proc, Step(p), NEW q \in Proc
  PROVE  RowStateAt(q)'
PROOF
  <1>0. /\ pc \in [Proc -> Label] /\ out \in [Proc -> Outcome]
        /\ idx \in [Proc -> Nat \ {0}] /\ stop \in [Proc -> Nat] /\ cur \in [Proc -> Nat]
        /\ waiter \in [Proc -> Nat]
        /\ RowStateAt(q) /\ RowAt(q) /\ OutcomeAt(q)
    BY DEF TypeInv, TypeOK, TaskTypeOK, RowInv
  <1>r. /\ Len(nodeRuns) \in Nat /\ Len(nodeRuns') \in Nat
        /\ \A n \in 1..Len(nodeRuns) :
             /\ n \in 1..Len(nodeRuns')
             /\ nodeRuns[n].node \in Nat \ {0}
             /\ nodeRuns'[n].node = nodeRuns[n].node
             /\ nodeRuns[n].status # "running" => nodeRuns'[n].status # "running"
             /\ nodeRuns[n].status \in {"succeeded", "failed"}
                  => nodeRuns'[n].status \in {"succeeded", "failed"}
    BY RowFacts
  <1> USE DEF RowStateAt, Running, Finished, Holds
  <1>a. CASE q # p
    <2>1. LocalsUnchanged(q)
      BY <1>a, OthersUnchanged DEF TypeInv
    <2>2. Holds(q) => nodeRuns'[cur[q]].status = "running"
      BY <1>0, <1>a, RowsMove DEF RowAt, RowInv, OneWriterPerRow
    <2> QED BY <1>0, <1>r, <2>1, <2>2 DEF LocalsUnchanged, RowAt
  <1> SUFFICES ASSUME q = p PROVE RowStateAt(q)'
    BY <1>a
  <1>h. CASE Holds(p)'
    <2>1. /\ nodeRuns' = Append(nodeRuns, [node |-> idx[p], status |-> "running"])
          /\ cur'[p] = Len(nodeRuns) + 1 /\ idx' = idx /\ stop' = stop
          /\ Trace(p) => idx[p] <= stop[p]
      BY <1>0, <1>h, HoldsStep
    <2>2. pc'[p] = "trace_update" => Trace(p)
      BY <1>0, TraceUpdateFromTrace
    <2> QED BY <1>h, <2>1, <2>2, RowCreated
  <1> SUFFICES ASSUME ~ Holds(p)' PROVE RowStateAt(q)'
    BY <1>h
  <1>c. \A c \in checkpoints : /\ c.run \in 1..Len(nodeRuns) /\ c.next \in Nat
                              /\ nodeRuns[c.run].status # "running"
                              /\ c.next = nodeRuns[c.run].node + 1
    BY DEF RowInv, TypeInv, TypeOK, StoreTypeOK, CheckpointRows, Checkpoint
  <1> USE DEF At, Goto, RowAt
  <1>1. CASE Prepare(p)
    BY <1>0, <1>r, <1>1 DEF answers, Prepare
  <1>2. CASE Attach(p)
    BY <1>0, <1>r, <1>2 DEF answers, Attach, AttachMatches
  <1>3. CASE FailShell(p)
    BY <1>0, <1>r, <1>3 DEF answers, FailShell
  <1>4. CASE Started(p)
    BY <1>0, <1>r, <1>4 DEF answers, Started
  <1>5. CASE StartRead(p)
    BY <1>0, <1>r, <1>5 DEF answers, StartRead
  <1>6. CASE StartCas(p)
    BY <1>0, <1>r, <1>6 DEF answers, StartCas, IfStatus
  <1>7. CASE PublicStarted(p)
    BY <1>0, <1>r, <1>7 DEF answers, PublicStarted
  <1>8. CASE Begin(p)
    BY <1>0, <1>r, <1>8 DEF answers, Begin
  <1>9. CASE LoopHead(p)
    BY <1>0, <1>r, <1>9 DEF answers, LoopHead
  <1>10. CASE CreateNodeRun(p)
    BY <1>0, <1>r, <1>10 DEF answers, CreateNodeRun
  <1>11. CASE ExecuteNode(p)
    <2>1. \A s \in NodeRunStatus : SetNodeRun(cur[p], s) => nodeRuns'[cur[p]].status = s
      BY <1>0, <1>11, RowWritten DEF ExecuteNode
    <2> QED BY <1>0, <1>r, <2>1, <1>11 DEF ExecuteNode, NextNode, NodeRunStatus
  <1>12. CASE CheckCancelled(p)
    BY <1>0, <1>r, <1>12 DEF answers, CheckCancelled, NextNode
  <1>13. CASE CreateCheckpoint(p)
    BY <1>0, <1>r, <1>13 DEF answers, CreateCheckpoint, NextNodeIndex
  <1>14. CASE CreateCallbackTask(p)
    BY <1>0, <1>r, <1>14 DEF answers, CreateCallbackTask
  <1>15. CASE WriteOutcome(p)
    BY <1>0, <1>r, <1>15 DEF answers, WriteOutcome
  <1>16. CASE Finish(p)
    BY <1>0, <1>r, <1>16 DEF answers, Finish, IfStatus
  <1>17. CASE FailFlowRun(p)
    BY <1>0, <1>r, <1>17 DEF answers, FailFlowRun
  <1>18. CASE ReportError(p)
    BY <1>0, <1>r, <1>18 DEF answers, ReportError
  <1>19. CASE Emit(p)
    BY <1>0, <1>r, <1>19 DEF answers, Emit
  <1>20. CASE Close(p)
    BY <1>0, <1>r, <1>20 DEF answers, Close
  <1>21. CASE Record(p)
    BY <1>0, <1>r, <1>21 DEF answers, Record
  <1>22. CASE LoadRunDetail(p)
    BY <1>0, <1>r, <1>22 DEF answers, LoadRunDetail
  <1>23. CASE CancelRead(p)
    BY <1>0, <1>r, <1>23 DEF answers, CancelRead
  <1>24. CASE CancelCas(p)
    BY <1>0, <1>r, <1>24 DEF answers, CancelCas, IfStatus
  <1>24a. CASE AuditCancel(p)
    BY <1>0, <1>r, <1>24a DEF answers, AuditCancel
  <1>25. CASE ResumeRead(p)
    BY <1>0, <1>r, <1>25 DEF answers, ResumeRead
  <1>26. CASE ResumeLoad(p)
    <2>1. PICK c \in checkpoints : LoadCheckpoint(p, c)
      BY <1>26 DEF ResumeLoad
    <2>2. /\ waiter'[p] = c.run /\ idx'[p] = c.next /\ nodeRuns' = nodeRuns
          /\ pc'[p] \in {"engine", "confirm"}
      BY <1>0, <1>26, <2>1 DEF ResumeLoad, LoadCheckpoint, stored
    <2>3. c.next - 1 = nodeRuns[c.run].node
      BY <1>c, <1>r
    <2> QED BY <1>c, <2>2, <2>3
  <1>27. CASE CompleteCallbackTask(p)
    BY <1>0, <1>r, <1>27 DEF answers, CompleteCallbackTask, IsPending
  <1>28. CASE CompleteLoad(p)
    BY <1>0, <1>r, <1>28 DEF answers, CompleteLoad
  <1>29. CASE CompleteDetail(p)
    <2>1. PICK c \in checkpoints : LoadCheckpoint(p, c)
      BY <1>29 DEF CompleteDetail
    <2>2. /\ waiter'[p] = c.run /\ idx'[p] = c.next /\ nodeRuns' = nodeRuns
          /\ pc'[p] \in {"engine", "confirm"}
      BY <1>0, <1>29, <2>1 DEF CompleteDetail, LoadCheckpoint, stored
    <2>3. c.next - 1 = nodeRuns[c.run].node
      BY <1>c, <1>r
    <2> QED BY <1>c, <2>2, <2>3
  <1>30. CASE Confirm(p)
    BY <1>0, <1>r, <1>30 DEF answers, Confirm
  <1>31. CASE FailWaitingNode(p)
    BY <1>0, <1>r, <1>31 DEF answers, FailWaitingNode
  <1>32. CASE Engine(p)
    BY <1>0, <1>r, <1>32 DEF answers, Engine
  <1>33. CASE Trigger(p)
    BY <1>0, <1>r, <1>33 DEF answers, Trigger
  <1>34. CASE ResumeWaitingNode(p)
    BY <1>0, <1>r, <1>34 DEF answers, ResumeWaitingNode
  <1>35. CASE Trace(p)
    BY <1>0, <1>r, <1>35 DEF answers, Trace
  <1>36. CASE TraceUpdate(p)
    <2>1. \A s \in NodeRunStatus : SetNodeRun(cur[p], s) => nodeRuns'[cur[p]].status = s
      BY <1>0, <1>36, RowWritten DEF TraceUpdate
    <2>2. out[p] \in WaitingStatus /\ idx[p] + 1 > stop[p] => idx[p] = stop[p]
      BY <1>0, <1>36 DEF TraceUpdate
    <2>3. /\ pc'[p] = "trace" /\ out' = out /\ stop' = stop /\ cur' = cur
          /\ idx'[p] = idx[p] + 1
      BY <1>0, <1>36 DEF TraceUpdate, answers
    <2>4. out[p] \in WaitingStatus /\ idx[p] = stop[p] => nodeRuns'[cur[p]].status = out[p]
      BY <2>1, <1>36 DEF TraceUpdate, NodeRunStatus, WaitingStatus
    <2>5. cur[p] \in 1..Len(nodeRuns) /\ nodeRuns'[cur[p]].node = idx[p]
      BY <1>0, <1>r, <1>36 DEF TraceUpdate
    <2> QED BY <1>0, <2>2, <2>3, <2>4, <2>5 DEF WaitingStatus
  <1>37. CASE ResumeCheckpoint(p)
    BY <1>0, <1>r, <1>37 DEF answers, ResumeCheckpoint, NextNodeIndex
  <1>38. CASE ResumeCallback(p)
    BY <1>0, <1>r, <1>38 DEF answers, ResumeCallback
  <1>39. CASE ResumeWrite(p)
    BY <1>0, <1>r, <1>39 DEF answers, ResumeWrite
  <1>40. CASE CallFails(p)
    BY <1>0, <1>r, <1>40 DEF answers, CallFails
  <1> QED BY <1>1, <1>2, <1>3, <1>4, <1>5, <1>6, <1>7, <1>8, <1>9, <1>10,
     <1>11, <1>12, <1>13, <1>14, <1>15, <1>16, <1>17, <1>18, <1>19, <1>20,
     <1>21, <1>22, <1>23, <1>24, <1>24a, <1>25, <1>26, <1>27, <1>28, <1>29, <1>30,
     <1>31, <1>32, <1>33, <1>34, <1>35, <1>36, <1>37, <1>38, <1>39, <1>40 DEF
     Step, Execute, Announce, Cancel, Resume, Complete, Persist

(* The steps that store a checkpoint name the row and the position of the wait. *)
LEMMA CheckpointStep ==
  ASSUME NEW p \in Proc, Step(p)
  PROVE  \/ checkpoints' = checkpoints
         \/ /\ pc[p] = "checkpoint" /\ UNCHANGED nodeRuns
            /\ checkpoints' = checkpoints \cup {[run |-> cur[p], next |-> idx[p] + 1]}
         \/ /\ pc[p] = "resume_checkpoint" /\ UNCHANGED nodeRuns
            /\ checkpoints' = checkpoints \cup {[run |-> cur[p], next |-> stop[p] + 1]}
PROOF
  <1>1. CASE CreateCheckpoint(p)
    BY <1>1 DEF CreateCheckpoint, At, NextNodeIndex
  <1>2. CASE ResumeCheckpoint(p)
    BY <1>2 DEF ResumeCheckpoint, At, NextNodeIndex
  <1>3. CASE ~ (CreateCheckpoint(p) \/ ResumeCheckpoint(p))
    BY <1>3 DEF Step, stored, Execute, Announce, Cancel, Resume, Complete, Persist,
       Prepare, Attach, FailShell, Started, StartRead, StartCas, PublicStarted, Begin,
       LoopHead, CreateNodeRun, ExecuteNode, CheckCancelled, CreateCallbackTask,
       WriteOutcome, Finish, FailFlowRun, ReportError, Emit, Close, Record,
       LoadRunDetail, CancelRead, CancelCas, AuditCancel, ResumeRead, ResumeLoad,
       CompleteCallbackTask, CompleteLoad, CompleteDetail, Confirm, FailWaitingNode,
       Engine, Trigger, ResumeWaitingNode, Trace, TraceUpdate, ResumeCallback,
       ResumeWrite, CallFails
  <1> QED BY <1>1, <1>2, <1>3

\* Every step keeps the row invariant.
LEMMA RowInvStep ==
  ASSUME TypeInv, RowInv, NEW p \in Proc, Step(p)
  PROVE  RowInv'
PROOF
  <1>1. ASSUME NEW c \in checkpoints'
        PROVE  ~ Running(c.run)' /\ c.next = nodeRuns'[c.run].node + 1
    <2>1. CASE c \in checkpoints
      BY <2>1, RowFacts DEF RowInv, TypeInv, CheckpointRows, Running
    <2>2. CASE c \notin checkpoints
      BY <1>1, <2>2, CheckpointStep DEF RowInv, RowStateAt, Running
    <2> QED BY <2>1, <2>2
  <1> QED BY <1>1, OneWriterStep, RowStateStep DEF RowInv

\* No task holds a row initially.
LEMMA InitRowInv == Init => RowInv
PROOF
  <1> SUFFICES ASSUME Init PROVE RowInv
    OBVIOUS
  <1>1. \A p \in Proc : pc[p] \in FirstLabels
    BY FirstStep
  <1> QED BY <1>1 DEF FirstLabels, Init, RowInv, RowStateAt, OneWriterPerRow, Holds

\* Stuttering keeps the row invariant.
LEMMA StutterRowInv == RowInv /\ UNCHANGED vars => RowInv'
  BY DEF vars, stored, answers, RowInv, RowStateAt, OneWriterPerRow, Holds, Running,
     Finished

(* Each running node run has one writer, and every task is at the row of its *)
(* position.                                                               *)
THEOREM RowInvariant == Spec => []RowInv
PROOF
  <1>1. Init => RowInv
    BY InitRowInv
  <1>2. TypeInv /\ RowInv /\ [Next]_vars => RowInv'
    BY NextIsStep, RowInvStep, StutterRowInv
  <1> QED BY <1>1, <1>2, TypeInvariant, PTL DEF Spec

(* A node run that ended is never running or waiting again, however many   *)
(* resumes and answers reach it late.                                      *)
THEOREM EndedNodeStays == Spec => FinishedNodeStaysFinished
PROOF
  <1>1. TypeInv /\ RowInv /\ [Next]_vars
        => [\A n \in DOMAIN nodeRuns : Finished(n) => Finished(n)']_vars
    <2>1. ASSUME TypeInv, RowInv, NEW p \in Proc, Step(p), NEW n \in DOMAIN nodeRuns, Finished(n)
          PROVE  Finished(n)'
      <3>1. n \in 1..Len(nodeRuns)
        BY <2>1 DEF TypeInv, TypeOK, StoreTypeOK
      <3> QED BY <2>1, <3>1, RowsMove DEF Finished
    <2> QED BY <2>1, NextIsStep
  <1> QED BY <1>1, TypeInvariant, RowInvariant, PTL DEF Spec,
     FinishedNodeStaysFinished

-----------------------------------------------------------------------------
(* Waits                                                                   *)

(* A wait that can be answered stays one: checkpoints, tasks and rows are  *)
(* never taken away.                                                       *)
LEMMA AnswerableKept ==
  ASSUME TypeInv, RowInv, NEW p \in Proc, Step(p), plan # NoPlan
  PROVE  \A n, o : Answerable(n, o) => Answerable(n, o)'
PROOF
  <1>1. tasks \subseteq tasks'
    BY DEF Step, stored, Execute, Announce, Cancel, Resume, Complete, Persist,
       Prepare, Attach, FailShell, Started, StartRead, StartCas, PublicStarted, Begin,
       LoopHead, CreateNodeRun, ExecuteNode, CheckCancelled, CreateCheckpoint,
       CreateCallbackTask, WriteOutcome, Finish, FailFlowRun, ReportError, Emit,
       Close, Record, LoadRunDetail, CancelRead, CancelCas, AuditCancel, ResumeRead, ResumeLoad,
       CompleteCallbackTask, CompleteLoad, CompleteDetail, Confirm, FailWaitingNode,
       Engine, Trigger, ResumeWaitingNode, Trace, TraceUpdate, ResumeCheckpoint,
       ResumeCallback, ResumeWrite, CallFails
  <1>2. checkpoints \subseteq checkpoints'
    BY CheckpointStep
  <1>3. plan' = plan
    BY PlanKept
  <1>4. \A c \in checkpoints : nodeRuns'[c.run].node = nodeRuns[c.run].node
    BY RowFacts DEF TypeInv, CheckpointRows
  <1>5. ASSUME NEW n, NEW o, Answerable(n, o)
        PROVE  Answerable(n, o)'
    BY <1>1, <1>2, <1>3, <1>4, <1>5 DEF Answerable
  <1> QED BY <1>5

\* A task that is about to store a wait has stored what its answer needs.
LEMMA WaitAtStep ==
  ASSUME TypeInv, RowInv, WaitInv, NEW p \in Proc, Step(p), NEW q \in Proc
  PROVE  WaitAt(q)'
PROOF
  <1>0. /\ pc \in [Proc -> Label] /\ out \in [Proc -> Outcome]
        /\ idx \in [Proc -> Nat \ {0}] /\ stop \in [Proc -> Nat] /\ cur \in [Proc -> Nat]
        /\ WaitAt(q) /\ RowAt(q) /\ OutcomeAt(q) /\ RowStateAt(q)
        /\ checkpoints \subseteq checkpoints'
    BY CheckpointStep DEF TypeInv, TypeOK, TaskTypeOK, RowInv, WaitInv
  <1>p. pc[q] \in { "execute", "check", "checkpoint", "callback", "write", "engine",
                    "trigger", "resume_node", "trace", "trace_update",
                    "resume_checkpoint", "resume_callback", "resume_write" }
          => plan' = plan /\ \A n, o : Answerable(n, o) => Answerable(n, o)'
    BY PlanKept, AnswerableKept DEF TypeInv, PlanInv, PlanAt
  <1>r. \A n \in 1..Len(nodeRuns) : nodeRuns'[n].node = nodeRuns[n].node
    BY RowFacts
  <1> USE DEF WaitAt, KindOfRow, At
  <1>a. CASE q # p
    BY <1>0, <1>a, <1>p, <1>r, OthersUnchanged DEF LocalsUnchanged, TypeInv, RowAt
  <1> SUFFICES ASSUME q = p PROVE WaitAt(q)'
    BY <1>a
  <1> USE DEF Goto, RowAt, RowStateAt, Holds, WaitsIn
  <1>1. CASE Prepare(p)
    BY <1>0, <1>p, <1>r, <1>1 DEF answers, stored, Prepare
  <1>2. CASE Attach(p)
    BY <1>0, <1>p, <1>r, <1>2 DEF answers, stored, Attach, AttachMatches
  <1>3. CASE FailShell(p)
    BY <1>0, <1>p, <1>r, <1>3 DEF answers, stored, FailShell
  <1>4. CASE Started(p)
    BY <1>0, <1>p, <1>r, <1>4 DEF answers, stored, Started
  <1>5. CASE StartRead(p)
    BY <1>0, <1>p, <1>r, <1>5 DEF answers, stored, StartRead
  <1>6. CASE StartCas(p)
    BY <1>0, <1>p, <1>r, <1>6 DEF answers, stored, StartCas, IfStatus
  <1>7. CASE PublicStarted(p)
    BY <1>0, <1>p, <1>r, <1>7 DEF answers, stored, PublicStarted
  <1>8. CASE Begin(p)
    BY <1>0, <1>p, <1>r, <1>8 DEF answers, stored, Begin
  <1>9. CASE LoopHead(p)
    BY <1>0, <1>p, <1>r, <1>9 DEF answers, stored, LoopHead
  <1>10. CASE CreateNodeRun(p)
    BY <1>0, <1>p, <1>r, <1>10 DEF answers, stored, CreateNodeRun
  <1>11. CASE ExecuteNode(p)
    <2>1. /\ nodeRuns'[cur[p]].node = idx[p] /\ plan' = plan /\ cur' = cur
          /\ pc'[p] \in {"loop", "write", "check"}
          /\ pc'[p] = "write" => out'[p] = "failed"
      BY <1>0, <1>p, <1>r, <1>11 DEF ExecuteNode, NextNode
    <2>2. out'[p] \in WaitingStatus /\ pc'[p] = "check" => plan[idx[p]] \in WaitsIn(out'[p])
      BY <1>0, <1>11 DEF ExecuteNode, NextNode, WaitingStatus
    <2> QED BY <2>1, <2>2 DEF WaitingStatus
  <1>12. CASE CheckCancelled(p)
    BY <1>0, <1>p, <1>r, <1>12 DEF answers, stored, CheckCancelled, NextNode,
       OutcomeAt, WaitingStatus
  <1>13. CASE CreateCheckpoint(p)
    <2>1. /\ [run |-> cur[p], next |-> idx[p] + 1] \in checkpoints'
          /\ out' = out /\ cur' = cur /\ nodeRuns' = nodeRuns /\ tasks' = tasks
          /\ pc'[p] = IF out[p] = "waiting_callback" THEN "callback" ELSE "write"
          /\ out[p] \in WaitingStatus
      BY <1>0, <1>13 DEF CreateCheckpoint, answers, NextNodeIndex, OutcomeAt
    <2>c. PICK c \in checkpoints' : c.run = cur[p]
      BY <2>1
    <2>2. KindOfRow(c.run)' \in WaitsIn(out[p])
      BY <1>0, <1>p, <1>13, <2>1, <2>c DEF CreateCheckpoint
    <2>3. pc'[p] = "write" => Answerable(cur[p], out[p])'
      BY <2>1, <2>2, <2>c DEF Answerable
    <2> QED BY <2>1, <2>2, <2>3, <2>c
  <1>14. CASE CreateCallbackTask(p)
    <2>1. /\ out' = out /\ cur' = cur /\ nodeRuns' = nodeRuns /\ tasks' = tasks \cup {cur[p]}
          /\ checkpoints' = checkpoints /\ plan' = plan /\ pc'[p] = "write"
          /\ out[p] = "waiting_callback"
          /\ KindOfRow(cur[p]) \in WaitsIn(out[p])
      BY <1>0, <1>14 DEF CreateCallbackTask, answers, OutcomeAt
    <2>2. PICK c \in checkpoints : c.run = cur[p]
      BY <1>0, <1>14 DEF CreateCallbackTask, OutcomeAt
    <2>3. Answerable(cur[p], out[p])'
      BY <2>1, <2>2 DEF Answerable
    <2> QED BY <2>1, <2>3
  <1>15. CASE WriteOutcome(p)
    BY <1>0, <1>p, <1>r, <1>15 DEF answers, stored, WriteOutcome
  <1>16. CASE Finish(p)
    BY <1>0, <1>p, <1>r, <1>16 DEF answers, stored, Finish, IfStatus, OutcomeAt,
       WaitingStatus
  <1>17. CASE FailFlowRun(p)
    BY <1>0, <1>p, <1>r, <1>17 DEF answers, stored, FailFlowRun, OutcomeAt,
       WaitingStatus
  <1>18. CASE ReportError(p)
    BY <1>0, <1>p, <1>r, <1>18 DEF answers, stored, ReportError
  <1>19. CASE Emit(p)
    BY <1>0, <1>p, <1>r, <1>19 DEF answers, stored, Emit
  <1>20. CASE Close(p)
    BY <1>0, <1>p, <1>r, <1>20 DEF answers, stored, Close
  <1>21. CASE Record(p)
    BY <1>0, <1>p, <1>r, <1>21 DEF answers, stored, Record
  <1>22. CASE LoadRunDetail(p)
    BY <1>0, <1>p, <1>r, <1>22 DEF answers, stored, LoadRunDetail, OutcomeAt,
       WaitingStatus
  <1>23. CASE CancelRead(p)
    BY <1>0, <1>p, <1>r, <1>23 DEF answers, stored, CancelRead
  <1>24. CASE CancelCas(p)
    BY <1>0, <1>p, <1>r, <1>24 DEF answers, stored, CancelCas, IfStatus
  <1>24a. CASE AuditCancel(p)
    BY <1>0, <1>p, <1>r, <1>24a DEF answers, stored, AuditCancel
  <1>25. CASE ResumeRead(p)
    BY <1>0, <1>p, <1>r, <1>25 DEF answers, stored, ResumeRead
  <1>26. CASE ResumeLoad(p)
    BY <1>0, <1>p, <1>r, <1>26 DEF answers, stored, ResumeLoad, LoadCheckpoint
  <1>27. CASE CompleteCallbackTask(p)
    BY <1>0, <1>p, <1>r, <1>27 DEF answers, stored, CompleteCallbackTask, IsPending
  <1>28. CASE CompleteLoad(p)
    BY <1>0, <1>p, <1>r, <1>28 DEF answers, stored, CompleteLoad
  <1>29. CASE CompleteDetail(p)
    BY <1>0, <1>p, <1>r, <1>29 DEF answers, stored, CompleteDetail, LoadCheckpoint
  <1>30. CASE Confirm(p)
    BY <1>0, <1>p, <1>r, <1>30 DEF answers, stored, Confirm
  <1>31. CASE FailWaitingNode(p)
    BY <1>0, <1>p, <1>r, <1>31 DEF answers, stored, FailWaitingNode, OutcomeAt,
       WaitingStatus
  <1>32. CASE Engine(p)
    <2>1. /\ plan' = plan /\ pc'[p] \in {"trigger", "done"}
          /\ out'[p] \in WaitingStatus /\ pc'[p] = "trigger" => plan[stop'[p]] \in WaitsIn(out'[p])
      BY <1>0, <1>32 DEF Engine, stored, WaitingStatus
    <2> QED BY <2>1
  <1>33. CASE Trigger(p)
    BY <1>0, <1>p, <1>r, <1>33 DEF answers, stored, Trigger
  <1>34. CASE ResumeWaitingNode(p)
    BY <1>0, <1>p, <1>r, <1>34 DEF answers, stored, ResumeWaitingNode
  <1>35. CASE Trace(p)
    BY <1>0, <1>p, <1>r, <1>35 DEF answers, stored, Trace, OutcomeAt, WaitingStatus
  <1>36. CASE TraceUpdate(p)
    BY <1>0, <1>p, <1>r, <1>36 DEF answers, stored, TraceUpdate, OutcomeAt,
       WaitingStatus
  <1>37. CASE ResumeCheckpoint(p)
    <2>1. /\ [run |-> cur[p], next |-> stop[p] + 1] \in checkpoints'
          /\ out' = out /\ cur' = cur /\ nodeRuns' = nodeRuns /\ tasks' = tasks
          /\ pc'[p] = IF out[p] = "waiting_callback" THEN "resume_callback" ELSE "resume_write"
          /\ out[p] \in WaitingStatus
      BY <1>0, <1>37 DEF ResumeCheckpoint, answers, NextNodeIndex, OutcomeAt
    <2>c. PICK c \in checkpoints' : c.run = cur[p]
      BY <2>1
    <2>2. KindOfRow(c.run)' \in WaitsIn(out[p])
      BY <1>0, <1>p, <1>37, <2>1, <2>c DEF ResumeCheckpoint
    <2>3. pc'[p] = "resume_write" => Answerable(cur[p], out[p])'
      BY <2>1, <2>2, <2>c DEF Answerable
    <2> QED BY <2>1, <2>2, <2>3, <2>c
  <1>38. CASE ResumeCallback(p)
    <2>1. /\ out' = out /\ cur' = cur /\ nodeRuns' = nodeRuns /\ tasks' = tasks \cup {cur[p]}
          /\ checkpoints' = checkpoints /\ plan' = plan /\ pc'[p] = "resume_write"
          /\ out[p] = "waiting_callback"
          /\ KindOfRow(cur[p]) \in WaitsIn(out[p])
      BY <1>0, <1>38 DEF ResumeCallback, answers, OutcomeAt
    <2>2. PICK c \in checkpoints : c.run = cur[p]
      BY <1>0, <1>38 DEF ResumeCallback, OutcomeAt
    <2>3. Answerable(cur[p], out[p])'
      BY <2>1, <2>2 DEF Answerable
    <2> QED BY <2>1, <2>3
  <1>39. CASE ResumeWrite(p)
    BY <1>0, <1>p, <1>r, <1>39 DEF answers, stored, ResumeWrite
  <1>40. CASE CallFails(p)
    BY <1>0, <1>p, <1>r, <1>40 DEF answers, stored, CallFails
  <1> QED BY <1>1, <1>2, <1>3, <1>4, <1>5, <1>6, <1>7, <1>8, <1>9, <1>10,
     <1>11, <1>12, <1>13, <1>14, <1>15, <1>16, <1>17, <1>18, <1>19, <1>20,
     <1>21, <1>22, <1>23, <1>24, <1>24a, <1>25, <1>26, <1>27, <1>28, <1>29, <1>30,
     <1>31, <1>32, <1>33, <1>34, <1>35, <1>36, <1>37, <1>38, <1>39, <1>40 DEF
     Step, Execute, Announce, Cancel, Resume, Complete, Persist

\* The run waits only for what can be answered.
LEMMA WaitStatusStep ==
  ASSUME TypeInv, RowInv, WaitInv, NEW p \in Proc, Step(p)
  PROVE  status' \in WaitingStatus => status' \in Waits'
PROOF
  <1>0. /\ WaitAt(p) /\ OutcomeAt(p) /\ PlanAt(p) /\ ExecutionHasPlan
        /\ status \in WaitingStatus => status \in Waits
    BY DEF WaitInv, TypeInv, PlanInv
  <1>k. ASSUME plan # NoPlan, NEW n, NEW o \in WaitingStatus, Answerable(n, o)
        PROVE  o \in Waits'
    <2>1. Answerable(n, o)'
      BY <1>k, AnswerableKept
    <2>2. PICK c \in checkpoints' : c.run = n
      BY <2>1 DEF Answerable
    <2>3. Answerable(c.run, o)'
      BY <2>1, <2>2 DEF Answerable
    <2> QED BY <2>2, <2>3 DEF Waits
  <1> USE DEF SetStatus, WaitingStatus, At, PlanAt
  <1>1. CASE UNCHANGED status
    BY <1>0, <1>1, <1>k DEF ExecutionHasPlan, Waits
  <1>2. CASE WriteOutcome(p)
    BY <1>0, <1>2, <1>k DEF WriteOutcome, WaitAt
  <1>3. CASE ResumeWrite(p)
    BY <1>0, <1>1, <1>3, <1>k DEF ResumeWrite, WaitAt
  <1>4. CASE Attach(p) \/ FailShell(p) \/ StartCas(p) \/ Finish(p) \/ CancelCas(p)
    BY <1>1, <1>4 DEF Attach, FailShell, StartCas, Finish, CancelCas
  <1> QED BY <1>1, <1>2, <1>3, <1>4, StatusWriters

\* Nothing waits initially.
LEMMA InitWaitInv == Init => WaitInv
PROOF
  <1> SUFFICES ASSUME Init PROVE WaitInv
    OBVIOUS
  <1> QED BY DEF Init, WaitInv, WaitAt, WaitingStatus

\* Stuttering keeps the wait invariant.
LEMMA StutterWaitInv == WaitInv /\ UNCHANGED vars => WaitInv'
  BY DEF vars, stored, answers, WaitInv, WaitAt, Waits, Answerable, KindOfRow

(* A wait is stored after what its answer needs.                           *)
THEOREM WaitInvariant == Spec => []WaitInv
PROOF
  <1>1. Init => WaitInv
    BY InitWaitInv
  <1>2. TypeInv /\ RowInv /\ WaitInv /\ [Next]_vars => WaitInv'
    <2>1. ASSUME TypeInv, RowInv, WaitInv, NEW p \in Proc, Step(p) PROVE WaitInv'
      BY <2>1, WaitAtStep, WaitStatusStep DEF WaitInv
    <2> QED BY <2>1, NextIsStep, StutterWaitInv
  <1> QED BY <1>1, <1>2, TypeInvariant, RowInvariant, PTL DEF Spec

-----------------------------------------------------------------------------
(* Open waits                                                              *)

\* A request that has taken up a wait keeps it; only one that has none takes one.
LEMMA WaiterStep ==
  ASSUME TypeInv, NEW p \in Proc, Step(p)
  PROVE  \/ UNCHANGED waiter
         \/ waiter'[p] = waiter[p] /\ \A q \in Proc \ {p} : waiter'[q] = waiter[q]
         \/ /\ pc[p] \in {"resume_load", "complete"}
            /\ \A q \in Proc \ {p} : waiter'[q] = waiter[q]
PROOF
  <1>0. waiter \in [Proc -> Nat]
    BY DEF TypeInv, TypeOK, TaskTypeOK
  <1>1. CASE ResumeLoad(p) \/ CompleteCallbackTask(p)
    BY <1>0, <1>1 DEF ResumeLoad, CompleteCallbackTask, LoadCheckpoint, At
  <1>2. CASE CompleteDetail(p)
    BY <1>0, <1>2 DEF CompleteDetail, LoadCheckpoint
  <1>3. CASE ~ (ResumeLoad(p) \/ CompleteCallbackTask(p) \/ CompleteDetail(p))
    BY <1>3 DEF Step, stored, answers, Execute, Announce, Cancel, Resume,
       Complete, Persist, Prepare, Attach, FailShell, Started, StartRead,
       StartCas, PublicStarted, Begin, LoopHead, CreateNodeRun, ExecuteNode,
       CheckCancelled, CreateCheckpoint, CreateCallbackTask, WriteOutcome,
       Finish, FailFlowRun, ReportError, Emit, Close, Record, LoadRunDetail,
       CancelRead, CancelCas, AuditCancel, ResumeRead, CompleteLoad, Confirm,
       FailWaitingNode, Engine, Trigger, ResumeWaitingNode, Trace, TraceUpdate,
       ResumeCheckpoint, ResumeCallback, ResumeWrite, CallFails
  <1> QED BY <1>1, <1>2, <1>3

\* What a request has taken up stays taken up.
LEMMA TakenKept ==
  ASSUME TypeInv, OpenInv, NEW p \in Proc, Step(p), NEW n \in Nat \ {0}, Taken(n)
  PROVE  Taken(n)'
PROOF
  <1>1. PICK q \in Proc : waiter[q] = n
    BY DEF Taken
  <1>2. waiter'[q] = n
    BY <1>1, WaiterStep DEF OpenInv, OpenAt
  <1> QED BY <1>2 DEF Taken

\* The task a step completes is taken up by that step.
LEMMA CompletedStep ==
  ASSUME TypeInv, NEW p \in Proc, Step(p), NEW n \in completed' \ completed
  PROVE  waiter'[p] = n
PROOF
  <1>1. CASE CompleteCallbackTask(p)
    BY <1>1 DEF CompleteCallbackTask, TypeInv, TypeOK, TaskTypeOK
  <1>2. CASE ~ CompleteCallbackTask(p)
    BY <1>2 DEF Step, stored, Execute, Announce, Cancel, Resume, Complete,
       Persist, Prepare, Attach, FailShell, Started, StartRead, StartCas,
       PublicStarted, Begin, LoopHead, CreateNodeRun, ExecuteNode,
       CheckCancelled, CreateCheckpoint, CreateCallbackTask, WriteOutcome,
       Finish, FailFlowRun, ReportError, Emit, Close, Record, LoadRunDetail,
       CancelRead, CancelCas, AuditCancel, ResumeRead, ResumeLoad,
       CompleteLoad, CompleteDetail, Confirm, FailWaitingNode, Engine, Trigger,
       ResumeWaitingNode, Trace, TraceUpdate, ResumeCheckpoint, ResumeCallback,
       ResumeWrite, CallFails
  <1> QED BY <1>1, <1>2

\* A step that stores a status in a row stores it in the running row its task
\* holds, or in the row it has taken up.
LEMMA StoredStatus ==
  ASSUME TypeInv, RowInv, NEW p \in Proc, Step(p), NEW n \in 1..Len(nodeRuns),
         nodeRuns[n].status # "running", ~ Taken(n)
  PROVE  nodeRuns'[n].status = nodeRuns[n].status
PROOF
  <1>0. /\ nodeRuns \in Seq(NodeRun) /\ idx[p] \in Nat \ {0}
        /\ OutcomeAt(p) /\ RowStateAt(p)
    BY DEF TypeInv, TypeOK, StoreTypeOK, TaskTypeOK, RowInv
  <1> USE DEF RowStateAt, Running, Holds, At, WaitingStatus
  <1>1. CASE UNCHANGED nodeRuns
    BY <1>1
  <1>2. ASSUME NEW s \in NodeRunStatus, SetNodeRun(cur[p], s), Holds(p)
        PROVE  nodeRuns'[n].status = nodeRuns[n].status
    BY <1>0, <1>2, SetNodeRunRows
  <1>3. ASSUME NEW s \in NodeRunStatus, SetNodeRun(waiter[p], s)
        PROVE  nodeRuns'[n].status = nodeRuns[n].status
    BY <1>0, <1>3, SetNodeRunRows DEF Taken
  <1>4. ASSUME nodeRuns' = Append(nodeRuns, [node |-> idx[p], status |-> "running"])
        PROVE  nodeRuns'[n] = nodeRuns[n]
    <2>1. [node |-> idx[p], status |-> "running"] \in NodeRun
      BY <1>0 DEF NodeRun, NodeRunStatus
    <2> QED BY <1>0, <1>4, <2>1, AppendRows
  <1>5. CASE CreateNodeRun(p)
    BY <1>4, <1>5 DEF CreateNodeRun
  <1>6. CASE ExecuteNode(p)
    BY <1>0, <1>2, <1>6 DEF ExecuteNode, NodeRunStatus
  <1>7. CASE FailWaitingNode(p)
    BY <1>1, <1>3, <1>7 DEF FailWaitingNode, NodeRunStatus
  <1>8. CASE ResumeWaitingNode(p)
    BY <1>1, <1>3, <1>8 DEF ResumeWaitingNode, NodeRunStatus
  <1>9. CASE Trace(p)
    BY <1>1, <1>4, <1>9 DEF Trace
  <1>10. CASE TraceUpdate(p)
    <2>1. PICK s \in NodeRunStatus : SetNodeRun(cur[p], s)
      BY <1>0, <1>10 DEF TraceUpdate, OutcomeAt, NodeRunStatus
    <2> QED BY <1>0, <1>2, <1>10, <2>1 DEF TraceUpdate
  <1> QED BY <1>1, <1>5, <1>6, <1>7, <1>8, <1>9, <1>10, OtherStepsKeepRows DEF RowStep

(* A wait stays open until a request takes it up.                          *)
LEMMA OpenKept ==
  ASSUME TypeInv, RowInv, OpenInv, NEW p \in Proc, Step(p), NEW n \in 1..Len(nodeRuns),
         Kept(n)
  PROVE  Kept(n)'
PROOF
  <1>0. n \in Nat \ {0} /\ Len(nodeRuns) \in Nat
    BY RowFacts
  <1>1. CASE Taken(n)
    BY <1>0, <1>1, TakenKept DEF Kept
  <1>2. CASE ~ Taken(n) /\ n \in completed'
    <2>1. n \notin completed
      BY <1>2 DEF OpenInv
    <2>2. waiter'[p] = n
      BY <1>2, <2>1, CompletedStep
    <2> QED BY <2>2 DEF Kept, Taken
  <1>3. CASE ~ Taken(n) /\ n \notin completed'
    <2>1. nodeRuns[n].status \in WaitingStatus /\ nodeRuns[n].status # "running"
      BY <1>3 DEF Kept, Open, WaitingStatus
    <2>2. nodeRuns'[n].status = nodeRuns[n].status
      BY <1>3, <2>1, StoredStatus
    <2> QED BY <1>3, <2>1, <2>2 DEF Kept, Open
  <1> QED BY <1>1, <1>2, <1>3

\* A row that is waiting after a step, and was running before it, is open.
LEMMA Opened ==
  ASSUME TypeInv, OpenInv, NEW p \in Proc, Step(p), NEW n \in 1..Len(nodeRuns),
         nodeRuns'[n].status \in WaitingStatus
  PROVE  Kept(n)'
PROOF
  <1>0. n \in Nat \ {0}
    BY DEF TypeInv, TypeOK, StoreTypeOK
  <1>1. CASE n \notin completed'
    BY <1>1 DEF Kept, Open
  <1>2. CASE n \in completed
    <2>1. Taken(n)
      BY <1>2 DEF OpenInv
    <2> QED BY <1>0, <2>1, TakenKept DEF Kept
  <1>3. CASE n \in completed' \ completed
    BY <1>3, CompletedStep DEF Kept, Taken
  <1> QED BY <1>1, <1>2, <1>3

\* The steps that lead to a label at which OpenAt says something.
OpensStep(p) ==
  ExecuteNode(p) \/ CheckCancelled(p) \/ ResumeRead(p) \/ ResumeWaitingNode(p)
  \/ Trace(p) \/ TraceUpdate(p)

\* Every other step leads its task elsewhere.
LEMMA OtherStepsOpenNothing ==
  ASSUME pc \in [Proc -> Label], NEW p \in Proc, Step(p), ~ OpensStep(p)
  PROVE  pc'[p] \notin { "resume", "resume_load", "complete", "check", "checkpoint",
                         "resume_checkpoint", "trace" }
PROOF
  <1>0. pc \in [Proc -> Label]
    OBVIOUS
  <1> USE DEF Goto
  <1>1. CASE Prepare(p)
    BY <1>0, <1>1 DEF Prepare
  <1>2. CASE Attach(p)
    BY <1>0, <1>2 DEF Attach, AttachMatches
  <1>3. CASE FailShell(p)
    BY <1>0, <1>3 DEF FailShell
  <1>4. CASE Started(p)
    BY <1>0, <1>4 DEF Started
  <1>5. CASE StartRead(p)
    BY <1>0, <1>5 DEF StartRead
  <1>6. CASE StartCas(p)
    BY <1>0, <1>6 DEF StartCas, IfStatus
  <1>7. CASE PublicStarted(p)
    BY <1>0, <1>7 DEF PublicStarted
  <1>8. CASE Begin(p)
    BY <1>0, <1>8 DEF Begin
  <1>9. CASE LoopHead(p)
    BY <1>0, <1>9 DEF LoopHead
  <1>10. CASE CreateNodeRun(p)
    BY <1>0, <1>10 DEF CreateNodeRun
  <1>11. CASE CreateCheckpoint(p)
    BY <1>0, <1>11 DEF CreateCheckpoint, NextNodeIndex
  <1>12. CASE CreateCallbackTask(p)
    BY <1>0, <1>12 DEF CreateCallbackTask
  <1>13. CASE WriteOutcome(p)
    BY <1>0, <1>13 DEF WriteOutcome
  <1>14. CASE Finish(p)
    BY <1>0, <1>14 DEF Finish, IfStatus
  <1>15. CASE FailFlowRun(p)
    BY <1>0, <1>15 DEF FailFlowRun
  <1>16. CASE ReportError(p)
    BY <1>0, <1>16 DEF ReportError
  <1>17. CASE Emit(p)
    BY <1>0, <1>17 DEF Emit
  <1>18. CASE Close(p)
    BY <1>0, <1>18 DEF Close
  <1>19. CASE Record(p)
    BY <1>0, <1>19 DEF Record
  <1>20. CASE LoadRunDetail(p)
    BY <1>0, <1>20 DEF LoadRunDetail
  <1>21. CASE CancelRead(p)
    BY <1>0, <1>21 DEF CancelRead
  <1>22. CASE CancelCas(p)
    BY <1>0, <1>22 DEF CancelCas, IfStatus
  <1>23. CASE AuditCancel(p)
    BY <1>0, <1>23 DEF AuditCancel
  <1>24. CASE ResumeLoad(p)
    BY <1>0, <1>24 DEF ResumeLoad
  <1>25. CASE CompleteCallbackTask(p)
    BY <1>0, <1>25 DEF CompleteCallbackTask, IsPending
  <1>26. CASE CompleteLoad(p)
    BY <1>0, <1>26 DEF CompleteLoad
  <1>27. CASE CompleteDetail(p)
    BY <1>0, <1>27 DEF CompleteDetail
  <1>28. CASE Confirm(p)
    BY <1>0, <1>28 DEF Confirm
  <1>29. CASE FailWaitingNode(p)
    BY <1>0, <1>29 DEF FailWaitingNode
  <1>30. CASE Engine(p)
    BY <1>0, <1>30 DEF Engine
  <1>31. CASE Trigger(p)
    BY <1>0, <1>31 DEF Trigger
  <1>32. CASE ResumeCheckpoint(p)
    BY <1>0, <1>32 DEF ResumeCheckpoint, NextNodeIndex
  <1>33. CASE ResumeCallback(p)
    BY <1>0, <1>33 DEF ResumeCallback
  <1>34. CASE ResumeWrite(p)
    BY <1>0, <1>34 DEF ResumeWrite
  <1>35. CASE CallFails(p)
    BY <1>0, <1>35 DEF CallFails
  <1> QED BY <1>1, <1>2, <1>3, <1>4, <1>5, <1>6, <1>7, <1>8, <1>9, <1>10,
     <1>11, <1>12, <1>13, <1>14, <1>15, <1>16, <1>17, <1>18, <1>19, <1>20,
     <1>21, <1>22, <1>23, <1>24, <1>25, <1>26, <1>27, <1>28, <1>29, <1>30,
     <1>31, <1>32, <1>33, <1>34, <1>35
     DEF OpensStep, Step, Execute, Announce, Cancel, Resume, Complete, Persist

\* The row at which a task will put a checkpoint is open or taken up.
LEMMA OpenAtStep ==
  ASSUME TypeInv, RowInv, OpenInv, NEW p \in Proc, Step(p), NEW q \in Proc
  PROVE  OpenAt(q)'
PROOF
  <1>0. /\ pc \in [Proc -> Label] /\ out \in [Proc -> Outcome]
        /\ idx \in [Proc -> Nat \ {0}] /\ stop \in [Proc -> Nat] /\ cur \in [Proc -> Nat]
        /\ waiter \in [Proc -> Nat]
        /\ OpenAt(q) /\ RowAt(q) /\ OutcomeAt(q)
    BY DEF TypeInv, TypeOK, TaskTypeOK, OpenInv
  <1>k. \A n \in 1..Len(nodeRuns) : Kept(n) => Kept(n)'
    BY OpenKept
  <1>n. \A n \in 1..Len(nodeRuns) : nodeRuns'[n].status \in WaitingStatus => Kept(n)'
    BY Opened
  <1> HIDE DEF Kept
  <1> USE DEF OpenAt, At
  <1>a. CASE q # p
    <2>1. LocalsUnchanged(q)
      BY <1>a, OthersUnchanged DEF TypeInv
    <2>2. /\ pc'[q] = pc[q] /\ out'[q] = out[q] /\ idx'[q] = idx[q] /\ stop'[q] = stop[q]
          /\ cur'[q] = cur[q] /\ waiter'[q] = waiter[q]
      BY <2>1 DEF LocalsUnchanged
    <2> QED BY <1>0, <1>k, <2>2 DEF RowAt
  <1> SUFFICES ASSUME q = p PROVE OpenAt(q)'
    BY <1>a
  <1> USE DEF Goto, RowAt
  <1>1. CASE ~ OpensStep(p)
    BY <1>0, <1>1, OtherStepsOpenNothing
  <1>2. CASE ExecuteNode(p)
    <2>1. /\ cur[p] \in 1..Len(nodeRuns) /\ cur' = cur
          /\ pc'[p] \in {"loop", "write", "check"}
      BY <1>0, <1>2 DEF ExecuteNode, NextNode
    <2>2. ASSUME pc'[p] = "check", out'[p] \in WaitingStatus
          PROVE  SetNodeRun(cur[p], out'[p]) /\ out'[p] \in NodeRunStatus
      BY <1>0, <1>2, <2>2 DEF ExecuteNode, NextNode, WaitingStatus, NodeRunStatus
    <2>3. ASSUME pc'[p] = "check", out'[p] \in WaitingStatus
          PROVE  Kept(cur[p])'
      BY <1>n, <2>1, <2>2, <2>3, RowWritten
    <2> QED BY <2>1, <2>3
  <1>3. CASE CheckCancelled(p)
    BY <1>0, <1>k, <1>3 DEF CheckCancelled, NextNode, answers
  <1>4. CASE ResumeRead(p)
    BY <1>0, <1>4 DEF ResumeRead
  <1>5. CASE ResumeWaitingNode(p)
    BY <1>0, <1>5 DEF ResumeWaitingNode, answers
  <1>6. CASE Trace(p)
    BY <1>0, <1>k, <1>6 DEF Trace, answers
  <1>7. CASE TraceUpdate(p)
    <2>1. /\ cur[p] \in 1..Len(nodeRuns) /\ cur' = cur /\ out' = out /\ stop' = stop
          /\ pc'[p] = "trace" /\ idx'[p] = idx[p] + 1 /\ idx[p] <= stop[p]
          /\ out[p] \in WaitingStatus \cup {"succeeded", "failed"}
      BY <1>0, <1>7 DEF TraceUpdate, answers, OutcomeAt, RowInv, RowStateAt
    <2>2. ASSUME out[p] \in WaitingStatus, idx[p] + 1 > stop[p]
          PROVE  Kept(cur[p])'
      <3>1. SetNodeRun(cur[p], out[p]) /\ out[p] \in NodeRunStatus
        BY <1>0, <1>7, <2>1, <2>2 DEF TraceUpdate, WaitingStatus, NodeRunStatus
      <3> QED BY <1>n, <2>1, <2>2, <3>1, RowWritten
    <2> QED BY <2>1, <2>2
  <1> QED BY <1>1, <1>2, <1>3, <1>4, <1>5, <1>6, <1>7 DEF OpensStep

\* Only a task that holds a row at which it waits creates a callback task.
LEMMA TasksStep ==
  ASSUME TypeInv, NEW p \in Proc, Step(p)
  PROVE  tasks' \subseteq tasks \cup 1..Len(nodeRuns)
PROOF
  <1>1. CASE CreateCallbackTask(p) \/ ResumeCallback(p)
    BY <1>1 DEF CreateCallbackTask, ResumeCallback, At, TypeInv, RowAt
  <1>2. CASE ~ (CreateCallbackTask(p) \/ ResumeCallback(p))
    BY <1>2 DEF Step, stored, Execute, Announce, Cancel, Resume, Complete,
       Persist, Prepare, Attach, FailShell, Started, StartRead, StartCas,
       PublicStarted, Begin, LoopHead, CreateNodeRun, ExecuteNode,
       CheckCancelled, CreateCheckpoint, WriteOutcome, Finish, FailFlowRun,
       ReportError, Emit, Close, Record, LoadRunDetail, CancelRead, CancelCas,
       AuditCancel, ResumeRead, ResumeLoad, CompleteCallbackTask, CompleteLoad,
       CompleteDetail, Confirm, FailWaitingNode, Engine, Trigger,
       ResumeWaitingNode, Trace, TraceUpdate, ResumeCheckpoint, ResumeWrite,
       CallFails
  <1> QED BY <1>1, <1>2

\* Every step keeps the waits open that no request has taken up.
LEMMA OpenInvStep ==
  ASSUME TypeInv, RowInv, OpenInv, NEW p \in Proc, Step(p)
  PROVE  OpenInv'
PROOF
  <1>0. Len(nodeRuns) \in Nat /\ completed \subseteq tasks /\ tasks \subseteq Nat
    BY RowFacts DEF TypeInv, TypeOK, StoreTypeOK
  <1>1. 0 \notin tasks'
    BY <1>0, TasksStep DEF OpenInv
  <1>2. ASSUME NEW n \in completed'
        PROVE  Taken(n)'
    <2>1. CASE n \in completed
      BY <1>0, <2>1, TakenKept DEF OpenInv
    <2>2. CASE n \notin completed
      BY <2>2, CompletedStep DEF Taken
    <2> QED BY <2>1, <2>2
  <1>3. ASSUME NEW c \in checkpoints'
        PROVE  Kept(c.run)'
    <2>1. CASE c \in checkpoints
      BY <2>1, OpenKept DEF OpenInv, TypeInv, CheckpointRows
    <2>2. CASE c \notin checkpoints
      <3>1. /\ pc[p] \in {"checkpoint", "resume_checkpoint"} /\ c.run = cur[p]
        BY <2>2, CheckpointStep
      <3>2. Kept(cur[p]) /\ cur[p] \in 1..Len(nodeRuns)
        BY <3>1 DEF OpenInv, OpenAt, TypeInv, RowAt, OutcomeAt
      <3> QED BY <3>1, <3>2, OpenKept
    <2> QED BY <2>1, <2>2
  <1> QED BY <1>1, <1>2, <1>3, OpenAtStep DEF OpenInv

\* Nothing is open initially.
LEMMA InitOpenInv == Init => OpenInv
PROOF
  <1> SUFFICES ASSUME Init PROVE OpenInv
    OBVIOUS
  <1> QED BY DEF Init, OpenInv, OpenAt, WaitingStatus

\* Stuttering keeps the open waits.
LEMMA StutterOpenInv == OpenInv /\ UNCHANGED vars => OpenInv'
  BY DEF vars, stored, answers, OpenInv, OpenAt, Kept, Open, Taken

(* A wait that no request has taken up is open: its node run waits and its *)
(* callback task, if it has one, is pending.                               *)
THEOREM OpenInvariant == Spec => []OpenInv
PROOF
  <1>1. Init => OpenInv
    BY InitOpenInv
  <1>2. TypeInv /\ RowInv /\ OpenInv /\ [Next]_vars => OpenInv'
    BY NextIsStep, OpenInvStep, StutterOpenInv
  <1> QED BY <1>1, <1>2, TypeInvariant, RowInvariant, PTL DEF Spec

(* A waiting run can be answered: its checkpoint, and for a callback its   *)
(* task, are stored before the status, by every task that suspends it, and *)
(* its node run waits and its task is pending until a request takes it up, *)
(* so a crash of the task that suspends it leaves a wait that can be ended. *)
THEOREM WaitIsResumable == Spec => []WaitingRunIsResumable
PROOF
  <1>1. WaitInv /\ OpenInv => WaitingRunIsResumable
    BY DEF WaitInv, WaitAt, Waits, OpenInv, Kept, WaitingRunIsResumable
  <1> QED BY <1>1, WaitInvariant, OpenInvariant, PTL

-----------------------------------------------------------------------------
(* Progress through the plan                                               *)

(* Positions that have a node run that ended keep it.                      *)
LEMMA EndedKept ==
  ASSUME TypeInv, RowInv, NEW p \in Proc, Step(p)
  PROVE  Ended \subseteq Ended'
PROOF
  <1>1. nodeRuns \in Seq(NodeRun) /\ nodeRuns' \in Seq(NodeRun)
    BY RowFacts DEF TypeInv, TypeOK, StoreTypeOK
  <1>2. DOMAIN nodeRuns = 1..Len(nodeRuns) /\ DOMAIN nodeRuns' = 1..Len(nodeRuns')
    BY <1>1
  <1> QED BY <1>2, RowFacts DEF Ended, Finished

(* The position of a row that ended has ended.                             *)
LEMMA EndedRow ==
  ASSUME TypeInv, NEW n \in 1..Len(nodeRuns), Finished(n)
  PROVE  nodeRuns[n].node \in Ended
  BY DEF TypeInv, TypeOK, StoreTypeOK, Ended

\* A position whose row has ended after a step is an ended position.
LEMMA EndedRowNext ==
  ASSUME TypeInv, RowInv, NEW p \in Proc, Step(p), NEW n \in 1..Len(nodeRuns),
         nodeRuns'[n].status \in {"succeeded", "failed"}
  PROVE  nodeRuns[n].node \in Ended'
PROOF
  <1>1. n \in DOMAIN nodeRuns' /\ nodeRuns'[n].node = nodeRuns[n].node
    BY RowFacts
  <1> QED BY <1>1 DEF Ended, Finished

(* A task moves on from a position only when that position has ended.      *)
LEMMA ProgressAtStep ==
  ASSUME TypeInv, RowInv, ProgressInv, NEW p \in Proc, Step(p), NEW q \in Proc
  PROVE  ProgressAt(q)'
PROOF
  <1>0. /\ pc \in [Proc -> Label] /\ out \in [Proc -> Outcome]
        /\ idx \in [Proc -> Nat \ {0}] /\ stop \in [Proc -> Nat] /\ cur \in [Proc -> Nat]
        /\ ProgressAt(q) /\ RowAt(q) /\ RowStateAt(q) /\ OutcomeAt(q)
    BY DEF TypeInv, TypeOK, TaskTypeOK, RowInv, ProgressInv
  <1>e. Ended \subseteq Ended'
    BY EndedKept
  <1>p. pc[q] \in { "loop", "finish", "engine", "trigger", "resume_node", "trace",
                    "trace_update", "resume_write" }
          => plan' = plan /\ Len(plan) \in Nat
    BY PlanKept, PlansAssumption DEF TypeInv, TypeOK, StoreTypeOK, PlanInv, PlanAt
  <1> USE DEF ProgressAt, RanBefore, At
  <1>a. CASE q # p
    BY <1>0, <1>a, <1>e, <1>p, OthersUnchanged DEF LocalsUnchanged, TypeInv
  <1> SUFFICES ASSUME q = p PROVE ProgressAt(q)'
    BY <1>a
  <1> USE DEF Goto
  <1>1. CASE Prepare(p)
    BY <1>0, <1>e, <1>1 DEF Prepare, answers
  <1>2. CASE Attach(p)
    BY <1>0, <1>e, <1>2 DEF Attach, AttachMatches, answers
  <1>3. CASE FailShell(p)
    BY <1>0, <1>e, <1>3 DEF FailShell, answers
  <1>4. CASE Started(p)
    BY <1>0, <1>e, <1>4 DEF Started, answers
  <1>5. CASE StartRead(p)
    BY <1>0, <1>e, <1>5 DEF StartRead, answers
  <1>6. CASE StartCas(p)
    BY <1>0, <1>e, <1>6 DEF StartCas, IfStatus, answers
  <1>7. CASE PublicStarted(p)
    BY <1>0, <1>e, <1>7 DEF PublicStarted, answers
  <1>8. CASE Begin(p)
    BY <1>0, <1>e, <1>8 DEF Begin
  <1>9. CASE LoopHead(p)
    <2>1. /\ pc'[p] \in {"detail", "create", "finish"} /\ idx' = idx /\ out' = out
          /\ pc'[p] = "finish" => ~ idx[p] <= Len(plan)
      BY <1>0, <1>9 DEF LoopHead
    <2>2. \A i \in 1..idx[p] - 1 : i \in Ended'
      BY <1>0, <1>e, <1>9 DEF LoopHead
    <2> QED BY <1>0, <1>p, <1>9, <2>1, <2>2 DEF LoopHead
  <1>10. CASE CreateNodeRun(p)
    BY <1>0, <1>e, <1>10 DEF CreateNodeRun, answers
  <1>11. CASE ExecuteNode(p)
    <2>1. /\ pc'[p] \in {"loop", "write", "check"}
          /\ pc'[p] = "check" => idx' = idx
      BY <1>0, <1>11 DEF ExecuteNode, NextNode
    <2>2. CASE pc'[p] = "loop"
      <3>1. SetNodeRun(cur[p], "succeeded") /\ idx'[p] = idx[p] + 1
        BY <1>0, <1>11, <2>2 DEF ExecuteNode, NextNode
      <3>2. nodeRuns[cur[p]].node = idx[p] /\ cur[p] \in 1..Len(nodeRuns)
        BY <1>0, <1>11 DEF ExecuteNode, RowAt, RowStateAt, Holds
      <3>3. idx[p] \in Ended'
        BY <3>1, <3>2, RowWritten, EndedRowNext DEF NodeRunStatus
      <3>4. \A i \in 1..idx[p] - 1 : i \in Ended'
        BY <1>0, <1>e, <1>11 DEF ExecuteNode
      <3> QED BY <1>0, <2>1, <2>2, <3>1, <3>3, <3>4
    <2>3. CASE pc'[p] # "loop"
      BY <1>0, <1>e, <1>11, <2>1, <2>3 DEF ExecuteNode
    <2> QED BY <2>2, <2>3
  <1>12. CASE CheckCancelled(p)
    <2>1. out[p] = "ok" => idx[p] \in Ended
      BY <1>0, <1>12, EndedRow DEF CheckCancelled, RowAt, RowStateAt
    <2>2. \A i \in 1..idx[p] - 1 : i \in Ended'
      BY <1>0, <1>e, <1>12 DEF CheckCancelled
    <2>3. /\ pc'[p] \in {"loop", "write", "detail", "checkpoint"} /\ out' = out
          /\ pc'[p] = "loop" => out[p] = "ok" /\ idx'[p] = idx[p] + 1
          /\ pc'[p] # "loop" => idx' = idx
      BY <1>0, <1>12 DEF CheckCancelled, NextNode
    <2> QED BY <1>0, <1>e, <2>1, <2>2, <2>3
  <1>13. CASE CreateCheckpoint(p)
    BY <1>0, <1>e, <1>13 DEF CreateCheckpoint, NextNodeIndex, answers
  <1>14. CASE CreateCallbackTask(p)
    BY <1>0, <1>e, <1>14 DEF CreateCallbackTask, answers
  <1>15. CASE WriteOutcome(p)
    BY <1>0, <1>e, <1>15 DEF WriteOutcome, answers
  <1>16. CASE Finish(p)
    BY <1>0, <1>e, <1>16 DEF Finish, IfStatus, answers
  <1>17. CASE FailFlowRun(p)
    BY <1>0, <1>e, <1>17 DEF FailFlowRun, answers
  <1>18. CASE ReportError(p)
    BY <1>0, <1>e, <1>18 DEF ReportError, answers
  <1>19. CASE Emit(p)
    BY <1>0, <1>e, <1>19 DEF Emit, answers
  <1>20. CASE Close(p)
    BY <1>0, <1>e, <1>20 DEF Close, answers
  <1>21. CASE Record(p)
    BY <1>0, <1>e, <1>21 DEF Record, answers
  <1>22. CASE LoadRunDetail(p)
    BY <1>0, <1>e, <1>22 DEF LoadRunDetail, answers
  <1>23. CASE CancelRead(p)
    BY <1>0, <1>e, <1>23 DEF CancelRead, AuditCancel, answers
  <1>24. CASE CancelCas(p)
    BY <1>0, <1>e, <1>24 DEF CancelCas, IfStatus, answers
  <1>24a. CASE AuditCancel(p)
    BY <1>0, <1>e, <1>24a DEF AuditCancel, answers
  <1>25. CASE ResumeRead(p)
    BY <1>0, <1>e, <1>25 DEF ResumeRead
  <1>26. CASE ResumeLoad(p)
    <2>1. PICK c \in checkpoints : LoadCheckpoint(p, c)
      BY <1>26 DEF ResumeLoad
    <2>2. /\ idx'[p] = c.next /\ pc'[p] \in {"engine", "confirm"}
      BY <1>0, <1>26, <2>1 DEF ResumeLoad, LoadCheckpoint
    <2>3. \A i \in 1..c.next - 1 - 1 : i \in Ended
      BY DEF ProgressInv
    <2> QED BY <1>e, <2>2, <2>3
  <1>27. CASE CompleteCallbackTask(p)
    BY <1>0, <1>e, <1>27 DEF CompleteCallbackTask, IsPending
  <1>28. CASE CompleteLoad(p)
    BY <1>0, <1>e, <1>28 DEF CompleteLoad
  <1>29. CASE CompleteDetail(p)
    <2>1. PICK c \in checkpoints : LoadCheckpoint(p, c)
      BY <1>29 DEF CompleteDetail
    <2>2. /\ idx'[p] = c.next /\ pc'[p] \in {"engine", "confirm"}
      BY <1>0, <1>29, <2>1 DEF CompleteDetail, LoadCheckpoint
    <2>3. \A i \in 1..c.next - 1 - 1 : i \in Ended
      BY DEF ProgressInv
    <2> QED BY <1>e, <2>2, <2>3
  <1>30. CASE Confirm(p)
    BY <1>0, <1>e, <1>30 DEF Confirm, answers
  <1>31. CASE FailWaitingNode(p)
    BY <1>0, <1>e, <1>31 DEF FailWaitingNode, answers
  <1>32. CASE Engine(p)
    <2>1. /\ idx' = idx /\ plan' = plan /\ pc'[p] \in {"trigger", "done"}
          /\ out'[p] = "succeeded" /\ pc'[p] = "trigger" => stop'[p] = Len(plan)
      BY <1>0, <1>32 DEF Engine, stored
    <2> QED BY <1>0, <1>e, <1>32, <2>1 DEF Engine
  <1>33. CASE Trigger(p)
    BY <1>0, <1>e, <1>p, <1>33 DEF Trigger, answers
  <1>34. CASE ResumeWaitingNode(p)
    <2>1. /\ pc'[p] \in {"trace", "done"} /\ idx' = idx /\ out' = out /\ stop' = stop
          /\ pc'[p] = "trace" => SetNodeRun(waiter[p], "succeeded")
      BY <1>0, <1>34 DEF ResumeWaitingNode, answers
    <2>2. /\ waiter[p] \in 1..Len(nodeRuns) /\ nodeRuns[waiter[p]].node = idx[p] - 1
      BY <1>0, <1>34 DEF ResumeWaitingNode, RowStateAt
    <2>3. pc'[p] = "trace" => idx[p] - 1 \in Ended'
      BY <2>1, <2>2, RowWritten, EndedRowNext DEF NodeRunStatus
    <2>4. \A i \in 1..idx[p] - 1 - 1 : i \in Ended'
      BY <1>0, <1>e, <1>34 DEF ResumeWaitingNode
    <2>5. \A i \in 1..idx[p] - 1 : i \in 1..idx[p] - 1 - 1 \/ i = idx[p] - 1
      BY <1>0
    <2> QED BY <1>0, <1>p, <1>34, <2>1, <2>3, <2>4, <2>5 DEF ResumeWaitingNode
  <1>35. CASE Trace(p)
    <2>1. /\ idx' = idx /\ out' = out /\ stop' = stop
          /\ IF idx[p] <= stop[p] THEN pc'[p] = "trace_update"
             ELSE pc'[p] = IF out[p] \in WaitingStatus THEN "resume_checkpoint" ELSE "resume_write"
      BY <1>0, <1>35 DEF Trace, answers
    <2>2. \A i \in 1..idx[p] - 1 : i \in Ended' \/ (i = stop[p] /\ out[p] \in WaitingStatus)
      BY <1>0, <1>e, <1>35 DEF Trace
    <2>3. out[p] = "succeeded" => stop[p] = Len(plan) /\ out[p] \notin WaitingStatus
      BY <1>0, <1>35 DEF Trace, WaitingStatus
    <2>4. pc'[p] = "resume_checkpoint" => \A i \in 1..stop[p] - 1 : i \in Ended'
      BY <1>0, <2>1, <2>2, SMTT(30)
    <2>5. pc'[p] = "trace_update" => \A i \in 1..idx[p] - 1 : i \in Ended'
      BY <1>0, <2>1, <2>2
    <2>6. pc'[p] = "resume_write" /\ out[p] = "succeeded"
            => \A i \in 1..Len(plan) + 1 - 1 : i \in Ended'
      BY <1>0, <1>p, <1>35, <2>1, <2>2, <2>3 DEF Trace
    <2> QED BY <1>p, <1>35, <2>1, <2>3, <2>4, <2>5, <2>6 DEF Trace
  <1>36. CASE TraceUpdate(p)
    <2>1. /\ out' = out /\ stop' = stop /\ idx'[p] = idx[p] + 1 /\ pc'[p] = "trace"
          /\ plan' = plan
      BY <1>0, <1>36 DEF TraceUpdate, answers
    <2>2. /\ cur[p] \in 1..Len(nodeRuns) /\ nodeRuns[cur[p]].node = idx[p]
      BY <1>0, <1>36 DEF TraceUpdate, RowAt, RowStateAt, Holds
    <2>3. PICK s \in {"succeeded", "failed"} \cup WaitingStatus :
            /\ SetNodeRun(cur[p], s)
            /\ s \in WaitingStatus => idx[p] = stop[p] /\ out[p] \in WaitingStatus
      BY <1>0, <1>36 DEF TraceUpdate, OutcomeAt, WaitingStatus
    <2>4. idx[p] \in Ended' \/ (idx[p] = stop[p] /\ out[p] \in WaitingStatus)
      BY <2>2, <2>3, RowWritten, EndedRowNext DEF NodeRunStatus, WaitingStatus
    <2>5. \A i \in 1..idx[p] - 1 : i \in Ended'
      BY <1>0, <1>e, <1>36 DEF TraceUpdate
    <2>6. \A i \in 1..idx[p] + 1 - 1 : i \in 1..idx[p] - 1 \/ i = idx[p]
      BY <1>0
    <2> QED BY <1>0, <1>36, <2>1, <2>4, <2>5, <2>6 DEF TraceUpdate
  <1>37. CASE ResumeCheckpoint(p)
    BY <1>0, <1>e, <1>37 DEF ResumeCheckpoint, NextNodeIndex, answers, OutcomeAt,
       WaitingStatus
  <1>38. CASE ResumeCallback(p)
    BY <1>0, <1>e, <1>38 DEF ResumeCallback, answers, WaitingStatus, OutcomeAt
  <1>39. CASE ResumeWrite(p)
    BY <1>0, <1>e, <1>39 DEF ResumeWrite, answers
  <1>40. CASE CallFails(p)
    BY <1>0, <1>e, <1>40 DEF CallFails, answers
  <1> QED BY <1>1, <1>2, <1>3, <1>4, <1>5, <1>6, <1>7, <1>8, <1>9, <1>10,
     <1>11, <1>12, <1>13, <1>14, <1>15, <1>16, <1>17, <1>18, <1>19, <1>20,
     <1>21, <1>22, <1>23, <1>24, <1>24a, <1>25, <1>26, <1>27, <1>28, <1>29, <1>30,
     <1>31, <1>32, <1>33, <1>34, <1>35, <1>36, <1>37, <1>38, <1>39, <1>40 DEF
     Step, Execute, Announce, Cancel, Resume, Complete, Persist

\* A checkpoint resumes only past ended positions.
LEMMA ProgressCheckpointStep ==
  ASSUME TypeInv, RowInv, ProgressInv, NEW p \in Proc, Step(p), NEW c \in checkpoints'
  PROVE  RanBefore(c.next - 1)'
PROOF
  <1>0. /\ ProgressAt(p) /\ Ended \subseteq Ended' /\ idx[p] \in Nat /\ stop[p] \in Nat
    BY EndedKept DEF ProgressInv, TypeInv, TypeOK, TaskTypeOK
  <1>1. CASE c \in checkpoints
    BY <1>0, <1>1 DEF ProgressInv, RanBefore
  <1>2. CASE c.next = idx[p] + 1 /\ pc[p] = "checkpoint"
    BY <1>0, <1>2 DEF ProgressAt, RanBefore
  <1>3. CASE c.next = stop[p] + 1 /\ pc[p] = "resume_checkpoint"
    BY <1>0, <1>3 DEF ProgressAt, RanBefore
  <1> QED BY <1>1, <1>2, <1>3, CheckpointStep

\* The run succeeds only when every position has ended.
LEMMA SucceededStep ==
  ASSUME TypeInv, RowInv, ProgressInv, NEW p \in Proc, Step(p), status' = "succeeded"
  PROVE  RanBefore(Len(plan) + 1)'
PROOF
  <1>0. /\ ProgressAt(p) /\ OutcomeAt(p) /\ PlanAt(p) /\ ExecutionHasPlan
        /\ status = "succeeded" => RanBefore(Len(plan) + 1)
        /\ plan # NoPlan => plan' = plan
        /\ Ended \subseteq Ended'
    BY EndedKept, PlanKept DEF ProgressInv, TypeInv, PlanInv
  <1> USE DEF SetStatus, At, PlanAt, RanBefore, ProgressAt
  <1>1. CASE status = "succeeded"
    BY <1>0, <1>1 DEF ExecutionHasPlan
  <1>2. CASE Finish(p)
    BY <1>0, <1>1, <1>2 DEF Finish
  <1>3. CASE ResumeWrite(p)
    BY <1>0, <1>1, <1>3 DEF ResumeWrite
  <1>4. CASE WriteOutcome(p)
    BY <1>0, <1>4 DEF WriteOutcome, OutcomeAt, WaitingStatus
  <1>5. CASE Attach(p) \/ FailShell(p) \/ StartCas(p) \/ CancelCas(p)
    BY <1>1, <1>5 DEF Attach, FailShell, StartCas, CancelCas
  <1> QED BY <1>1, <1>2, <1>3, <1>4, <1>5, StatusWriters

\* Every task starts at the first position.
LEMMA InitProgressInv == Init => ProgressInv
PROOF
  <1> SUFFICES ASSUME Init PROVE ProgressInv
    OBVIOUS
  <1>1. \A p \in Proc : pc[p] \in FirstLabels
    BY FirstStep
  <1>2. \A p \in Proc : ProgressAt(p)
    BY <1>1 DEF FirstLabels, Init, ProgressAt, RanBefore
  <1> QED BY <1>2 DEF Init, ProgressInv

\* Stuttering keeps the progress invariant.
LEMMA StutterProgressInv == ProgressInv /\ UNCHANGED vars => ProgressInv'
  BY DEF vars, stored, answers, ProgressInv, ProgressAt, RanBefore, Ended, Finished

(* Tasks, checkpoints and resumes move on over ended positions only.       *)
THEOREM ProgressInvariant == Spec => []ProgressInv
PROOF
  <1>1. Init => ProgressInv
    BY InitProgressInv
  <1>2. TypeInv /\ RowInv /\ ProgressInv /\ [Next]_vars => ProgressInv'
    <2>1. ASSUME TypeInv, RowInv, ProgressInv, NEW p \in Proc, Step(p) PROVE ProgressInv'
      BY <2>1, ProgressAtStep, ProgressCheckpointStep, SucceededStep DEF ProgressInv
    <2> QED BY <2>1, NextIsStep, StutterProgressInv
  <1> QED BY <1>1, <1>2, TypeInvariant, RowInvariant, PTL DEF Spec

(* A succeeded run executed every node of its plan, whichever tasks executed *)
(* them and however often it was suspended and resumed on the way.         *)
THEOREM NoNodeSkipped == Spec => []NothingSkipped
PROOF
  <1>1. TypeInv /\ ProgressInv => NothingSkipped
    <2>1. ASSUME TypeInv, ProgressInv, status = "succeeded", NEW i \in 1..Len(plan)
          PROVE  Ran(i)
      <3>1. Len(plan) \in Nat
        BY <2>1, PlansAssumption DEF TypeInv, TypeOK, StoreTypeOK, PlanInv,
           ExecutionHasPlan
      <3>2. i \in Ended
        BY <2>1, <3>1 DEF ProgressInv, RanBefore
      <3> QED BY <3>2 DEF Ended, Ran
    <2> QED BY <2>1 DEF NothingSkipped
  <1> QED BY <1>1, TypeInvariant, ProgressInvariant, PTL
=============================================================================
