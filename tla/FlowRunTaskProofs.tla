-------------------------- MODULE FlowRunTaskProofs --------------------------
(* What tasks that race for one run may rely on: the status a request has  *)
(* read, the end a task announces, the answer a request gave.              *)
EXTENDS FlowRunProofs

(* What a node's execution is made of is expanded wherever ExecuteNode is.   *)
USE DEF ExecuteStart, ExecuteLlm, ExecuteDataModel, ExecuteHumanInput, ExecuteTool, StoreNode

\* What a request that has read the run's status may still do with it.
SeenAt(p) ==
  /\ pc[p] = "start_cas" => seen[p] = "queued"
  /\ pc[p] = "cancel_cas" => seen[p] \notin TerminalStatus

\* What a task announces is a status it has committed, unless the route reports
\* the error of a task for it; and it announces before it closes.
AnnounceAt(p) ==
  /\ pc[p] \in {"emit", "close"} /\ phase[p] # "reporting" => out[p] \in reached
  /\ pc[p] = "record" => out[p] \in reached
  /\ pc[p] = "close" => terminals # {}

\* A task that is past the look at the run has created no node run since a
\* cancel; the next look stops it.
LateAt(p) ==
  /\ late[p] <= 1
  /\ pc[p] = "create" /\ status = "cancelled" => late[p] = 0

\* A request answers at most one task, and what it has answered stays answered.
AnswerAt(p) ==
  p \in Completers =>
    /\ pc[p] \notin {"resume", "resume_load"}
    /\ pc[p] = "complete" => waiter[p] = 0
    /\ waiter[p] # 0 => waiter[p] \in completed

TaskInv ==
  /\ \A p \in Proc : SeenAt(p) /\ AnnounceAt(p) /\ LateAt(p) /\ AnswerAt(p)
  /\ ClosedStreamHasTerminal
  /\ LogIsTruthful
  /\ OneAnswerPerTask

-----------------------------------------------------------------------------
(* The stored values that only grow                                        *)

(* No step forgets a status the run had, a terminal event of the stream or *)
(* the answer of a callback task.                                          *)
LEMMA HistoryKept ==
  ASSUME NEW p \in Proc, Step(p)
  PROVE  /\ reached \subseteq reached'
         /\ terminals \subseteq terminals'
         /\ completed \subseteq completed'
PROOF
  <1>1. reached \subseteq reached'
    BY StatusWriters DEF Attach, FailShell, StartCas, WriteOutcome, Finish, CancelCas,
         ResumeWrite, SetStatus
  <1>2. terminals \subseteq terminals'
    BY DEF Step, Execute, Announce, Cancel, Resume, Complete, Persist, Prepare,
       Attach, FailShell, Started, StartRead, StartCas, PublicStarted, Begin,
       LoopHead, CreateNodeRun, ExecuteNode, CheckCancelled, CreateCheckpoint,
       CreateCallbackTask, WriteOutcome, Finish, FailFlowRun, ReportError, Emit,
       Close, Record, LoadRunDetail, CancelRead, CancelCas, AuditCancel, ResumeRead, ResumeLoad,
       CompleteCallbackTask, CompleteLoad, CompleteDetail, Confirm, FailWaitingNode,
       Engine, Trigger, ResumeWaitingNode, Trace, TraceUpdate, ResumeCheckpoint,
       ResumeCallback, ResumeWrite, CallFails
  <1>3. completed \subseteq completed'
    BY DEF Step, stored, Execute, Announce, Cancel, Resume, Complete, Persist,
       Prepare, Attach, FailShell, Started, StartRead, StartCas, PublicStarted, Begin,
       LoopHead, CreateNodeRun, ExecuteNode, CheckCancelled, CreateCheckpoint,
       CreateCallbackTask, WriteOutcome, Finish, FailFlowRun, ReportError, Emit,
       Close, Record, LoadRunDetail, CancelRead, CancelCas, AuditCancel, ResumeRead, ResumeLoad,
       CompleteCallbackTask, CompleteLoad, CompleteDetail, Confirm, FailWaitingNode,
       Engine, Trigger, ResumeWaitingNode, Trace, TraceUpdate, ResumeCheckpoint,
       ResumeCallback, ResumeWrite, CallFails
  <1> QED BY <1>1, <1>2, <1>3

(* A request acts on the status it has read only where that status allows it. *)
LEMMA SeenAtStep ==
  ASSUME TypeInv, TaskInv, NEW p \in Proc, Step(p), NEW q \in Proc
  PROVE  SeenAt(q)'
PROOF
  <1> USE DEF At, Goto, answers, SeenAt
  <1>0. pc \in [Proc -> Label] /\ seen \in [Proc -> FlowRunStatus] /\ SeenAt(q)
    BY DEF TypeInv, TypeOK, TaskTypeOK, TaskInv
  <1>a. CASE q # p
    BY <1>0, <1>a, OthersUnchanged DEF LocalsUnchanged, TypeInv
  <1> SUFFICES ASSUME q = p PROVE SeenAt(q)'
    BY <1>a
  <1>1. CASE Prepare(p)
    BY <1>0, <1>1 DEF Prepare
  <1>2. CASE Attach(p)
    BY <1>0, <1>2 DEF Attach, AttachMatches
  <1>3. CASE FailShell(p)
    BY <1>0, <1>3 DEF FailShell
  <1>4. CASE Started(p)
    BY <1>0, <1>4 DEF Started
  <1>5. CASE StartRead(p)
    BY <1>0, <1>5 DEF StartRead
  <1>6. CASE StartCas(p)
    BY <1>0, <1>6 DEF StartCas, IfStatus
  <1>7. CASE PublicStarted(p)
    BY <1>0, <1>7 DEF PublicStarted
  <1>8. CASE Begin(p)
    BY <1>0, <1>8 DEF Begin
  <1>9. CASE LoopHead(p)
    BY <1>0, <1>9 DEF LoopHead
  <1>10. CASE CreateNodeRun(p)
    BY <1>0, <1>10 DEF CreateNodeRun
  <1>11. CASE ExecuteNode(p)
    BY <1>0, <1>11 DEF ExecuteNode, NextNode
  <1>12. CASE CheckCancelled(p)
    BY <1>0, <1>12 DEF CheckCancelled, NextNode
  <1>13. CASE CreateCheckpoint(p)
    BY <1>0, <1>13 DEF CreateCheckpoint, NextNodeIndex
  <1>14. CASE CreateCallbackTask(p)
    BY <1>0, <1>14 DEF CreateCallbackTask
  <1>15. CASE WriteOutcome(p)
    BY <1>0, <1>15 DEF WriteOutcome
  <1>16. CASE Finish(p)
    BY <1>0, <1>16 DEF Finish, IfStatus
  <1>17. CASE FailFlowRun(p)
    BY <1>0, <1>17 DEF FailFlowRun
  <1>18. CASE ReportError(p)
    BY <1>0, <1>18 DEF ReportError
  <1>19. CASE Emit(p)
    BY <1>0, <1>19 DEF Emit
  <1>20. CASE Close(p)
    BY <1>0, <1>20 DEF Close
  <1>21. CASE Record(p)
    BY <1>0, <1>21 DEF Record
  <1>22. CASE LoadRunDetail(p)
    BY <1>0, <1>22 DEF LoadRunDetail
  <1>23. CASE CancelRead(p)
    <2>1. EnsureFlowRunTransition(status, "cancelled") => status \notin TerminalStatus
      BY DEF EnsureFlowRunTransition, TerminalStatus, WaitingStatus
    <2>2. /\ seen' = [seen EXCEPT ![p] = status]
          /\ \/ pc' = [pc EXCEPT ![p] = "done"]
             \/ status \notin TerminalStatus /\ pc' = [pc EXCEPT ![p] = "cancel_cas"]
      BY <1>23, <2>1 DEF CancelRead
    <2> QED BY <1>0, <2>2
  <1>24. CASE CancelCas(p)
    BY <1>0, <1>24 DEF CancelCas, IfStatus
  <1>24a. CASE AuditCancel(p)
    BY <1>0, <1>24a DEF AuditCancel
  <1>25. CASE ResumeRead(p)
    BY <1>0, <1>25 DEF ResumeRead
  <1>26. CASE ResumeLoad(p)
    BY <1>0, <1>26 DEF ResumeLoad, LoadCheckpoint
  <1>27. CASE CompleteCallbackTask(p)
    BY <1>0, <1>27 DEF CompleteCallbackTask, IsPending
  <1>28. CASE CompleteLoad(p)
    BY <1>0, <1>28 DEF CompleteLoad
  <1>29. CASE CompleteDetail(p)
    BY <1>0, <1>29 DEF CompleteDetail, LoadCheckpoint
  <1>30. CASE Confirm(p)
    BY <1>0, <1>30 DEF Confirm
  <1>31. CASE FailWaitingNode(p)
    BY <1>0, <1>31 DEF FailWaitingNode
  <1>32. CASE Engine(p)
    BY <1>0, <1>32 DEF Engine
  <1>33. CASE Trigger(p)
    BY <1>0, <1>33 DEF Trigger
  <1>34. CASE ResumeWaitingNode(p)
    BY <1>0, <1>34 DEF ResumeWaitingNode
  <1>35. CASE Trace(p)
    BY <1>0, <1>35 DEF Trace
  <1>36. CASE TraceUpdate(p)
    BY <1>0, <1>36 DEF TraceUpdate
  <1>37. CASE ResumeCheckpoint(p)
    BY <1>0, <1>37 DEF ResumeCheckpoint, NextNodeIndex
  <1>38. CASE ResumeCallback(p)
    BY <1>0, <1>38 DEF ResumeCallback
  <1>39. CASE ResumeWrite(p)
    BY <1>0, <1>39 DEF ResumeWrite
  <1>40. CASE CallFails(p)
    BY <1>0, <1>40 DEF CallFails
  <1> QED BY <1>1, <1>2, <1>3, <1>4, <1>5, <1>6, <1>7, <1>8, <1>9, <1>10,
     <1>11, <1>12, <1>13, <1>14, <1>15, <1>16, <1>17, <1>18, <1>19, <1>20,
     <1>21, <1>22, <1>23, <1>24, <1>24a, <1>25, <1>26, <1>27, <1>28, <1>29, <1>30,
     <1>31, <1>32, <1>33, <1>34, <1>35, <1>36, <1>37, <1>38, <1>39, <1>40 DEF
     Step, Execute, Announce, Cancel, Resume, Complete, Persist

(* What a task announces is a status it has committed. *)
LEMMA AnnounceAtStep ==
  ASSUME TypeInv, TaskInv, NEW p \in Proc, Step(p), NEW q \in Proc
  PROVE  AnnounceAt(q)'
PROOF
  <1> USE DEF At, Goto, AnnounceAt
  <1>0. /\ pc \in [Proc -> Label] /\ out \in [Proc -> Outcome] /\ phase \in [Proc -> Phase]
        /\ AnnounceAt(q) /\ ClosedStreamHasTerminal
    BY DEF TypeInv, TypeOK, TaskTypeOK, TaskInv
  <1>h. reached \subseteq reached' /\ terminals \subseteq terminals'
    BY HistoryKept
  <1>a. CASE q # p
    BY <1>0, <1>h, <1>a, OthersUnchanged DEF LocalsUnchanged, TypeInv
  <1> SUFFICES ASSUME q = p PROVE AnnounceAt(q)'
    BY <1>a
  <1>1. CASE Prepare(p)
    BY <1>0, <1>h, <1>1 DEF Prepare
  <1>2. CASE Attach(p)
    BY <1>0, <1>h, <1>2 DEF Attach, AttachMatches
  <1>3. CASE FailShell(p)
    BY <1>0, <1>h, <1>3 DEF FailShell, SetStatus
  <1>4. CASE Started(p)
    BY <1>0, <1>h, <1>4 DEF Started
  <1>5. CASE StartRead(p)
    BY <1>0, <1>h, <1>5 DEF StartRead
  <1>6. CASE StartCas(p)
    BY <1>0, <1>h, <1>6 DEF StartCas, IfStatus
  <1>7. CASE PublicStarted(p)
    BY <1>0, <1>h, <1>7 DEF PublicStarted
  <1>8. CASE Begin(p)
    BY <1>0, <1>h, <1>8 DEF Begin
  <1>9. CASE LoopHead(p)
    BY <1>0, <1>h, <1>9 DEF LoopHead
  <1>10. CASE CreateNodeRun(p)
    BY <1>0, <1>h, <1>10 DEF CreateNodeRun
  <1>11. CASE ExecuteNode(p)
    BY <1>0, <1>h, <1>11 DEF ExecuteNode, NextNode
  <1>12. CASE CheckCancelled(p)
    BY <1>0, <1>h, <1>12 DEF CheckCancelled, NextNode
  <1>13. CASE CreateCheckpoint(p)
    BY <1>0, <1>h, <1>13 DEF CreateCheckpoint, NextNodeIndex
  <1>14. CASE CreateCallbackTask(p)
    BY <1>0, <1>h, <1>14 DEF CreateCallbackTask
  <1>15. CASE WriteOutcome(p)
    BY <1>0, <1>h, <1>15 DEF WriteOutcome, SetStatus
  <1>16. CASE Finish(p)
    BY <1>0, <1>h, <1>16 DEF Finish, IfStatus, SetStatus
  <1>17. CASE FailFlowRun(p)
    BY <1>0, <1>h, <1>17 DEF FailFlowRun
  <1>18. CASE ReportError(p)
    BY <1>0, <1>h, <1>18 DEF ReportError
  <1>19. CASE Emit(p)
    BY <1>0, <1>h, <1>19 DEF Emit, ClosedStreamHasTerminal
  <1>20. CASE Close(p)
    BY <1>0, <1>h, <1>20 DEF Close, Phase
  <1>21. CASE Record(p)
    BY <1>0, <1>h, <1>21 DEF Record
  <1>22. CASE LoadRunDetail(p)
    BY <1>0, <1>h, <1>22 DEF LoadRunDetail
  <1>23. CASE CancelRead(p)
    BY <1>0, <1>h, <1>23 DEF CancelRead
  <1>24. CASE CancelCas(p)
    BY <1>0, <1>h, <1>24 DEF CancelCas, IfStatus, SetStatus
  <1>24a. CASE AuditCancel(p)
    BY <1>0, <1>h, <1>24a DEF AuditCancel, SetStatus
  <1>25. CASE ResumeRead(p)
    BY <1>0, <1>h, <1>25 DEF ResumeRead
  <1>26. CASE ResumeLoad(p)
    BY <1>0, <1>h, <1>26 DEF ResumeLoad, LoadCheckpoint
  <1>27. CASE CompleteCallbackTask(p)
    BY <1>0, <1>h, <1>27 DEF CompleteCallbackTask, IsPending
  <1>28. CASE CompleteLoad(p)
    BY <1>0, <1>h, <1>28 DEF CompleteLoad
  <1>29. CASE CompleteDetail(p)
    BY <1>0, <1>h, <1>29 DEF CompleteDetail, LoadCheckpoint
  <1>30. CASE Confirm(p)
    BY <1>0, <1>h, <1>30 DEF Confirm
  <1>31. CASE FailWaitingNode(p)
    BY <1>0, <1>h, <1>31 DEF FailWaitingNode
  <1>32. CASE Engine(p)
    BY <1>0, <1>h, <1>32 DEF Engine
  <1>33. CASE Trigger(p)
    BY <1>0, <1>h, <1>33 DEF Trigger
  <1>34. CASE ResumeWaitingNode(p)
    BY <1>0, <1>h, <1>34 DEF ResumeWaitingNode
  <1>35. CASE Trace(p)
    BY <1>0, <1>h, <1>35 DEF Trace
  <1>36. CASE TraceUpdate(p)
    BY <1>0, <1>h, <1>36 DEF TraceUpdate
  <1>37. CASE ResumeCheckpoint(p)
    BY <1>0, <1>h, <1>37 DEF ResumeCheckpoint, NextNodeIndex
  <1>38. CASE ResumeCallback(p)
    BY <1>0, <1>h, <1>38 DEF ResumeCallback
  <1>39. CASE ResumeWrite(p)
    BY <1>0, <1>h, <1>39 DEF ResumeWrite, SetStatus
  <1>40. CASE CallFails(p)
    BY <1>0, <1>h, <1>40 DEF CallFails
  <1> QED BY <1>1, <1>2, <1>3, <1>4, <1>5, <1>6, <1>7, <1>8, <1>9, <1>10,
     <1>11, <1>12, <1>13, <1>14, <1>15, <1>16, <1>17, <1>18, <1>19, <1>20,
     <1>21, <1>22, <1>23, <1>24, <1>24a, <1>25, <1>26, <1>27, <1>28, <1>29, <1>30,
     <1>31, <1>32, <1>33, <1>34, <1>35, <1>36, <1>37, <1>38, <1>39, <1>40 DEF
     Step, Execute, Announce, Cancel, Resume, Complete, Persist

(* A task that has created a node run since a cancel looks at the run before it
   creates another. *)
LEMMA LateAtStep ==
  ASSUME TypeInv, TaskInv, NEW p \in Proc, Step(p), NEW q \in Proc
  PROVE  LateAt(q)'
PROOF
  <1> USE DEF At, Goto, answers, LateAt
  <1>0. /\ pc \in [Proc -> Label] /\ late \in [Proc -> Nat] /\ LateAt(q)
        /\ OutcomeAt(p)
    BY DEF TypeInv, TypeOK, TaskTypeOK, TaskInv
  <1>c. status' = "cancelled" => status = "cancelled" \/ CancelCas(p)
    BY <1>0, StatusWriters DEF Attach, FailShell, StartCas, WriteOutcome, Finish,
       ResumeWrite,
         SetStatus, OutcomeAt, WaitingStatus
  <1>l. \/ late' = late
        \/ CancelCas(p) /\ late' = [r \in Proc |-> 0]
        \/ CreateNodeRun(p)
    BY DEF Step, Execute, Announce, Cancel, Resume, Complete, Persist, Prepare,
       Attach, FailShell, Started, StartRead, StartCas, PublicStarted, Begin,
       LoopHead, ExecuteNode, CheckCancelled, CreateCheckpoint, CreateCallbackTask,
       WriteOutcome, Finish, FailFlowRun, ReportError, Emit, Close, Record,
       LoadRunDetail, CancelRead, CancelCas, AuditCancel, ResumeRead, ResumeLoad,
       CompleteCallbackTask, CompleteLoad, CompleteDetail, Confirm, FailWaitingNode,
       Engine, Trigger, ResumeWaitingNode, Trace, TraceUpdate, ResumeCheckpoint,
       ResumeCallback, ResumeWrite, CallFails
  <1>z. CASE late' = [r \in Proc |-> 0]
    BY <1>z
  <1>n. CASE CreateNodeRun(p)
    BY <1>0, <1>n DEF CreateNodeRun, SetStatus
  <1>a. CASE q # p /\ late' = late
    <2>1. pc'[q] = pc[q]
      BY <1>a, OthersUnchanged DEF LocalsUnchanged, TypeInv
    <2> QED BY <1>0, <1>a, <1>c, <2>1 DEF CancelCas
  <1> SUFFICES ASSUME q = p, late' = late, ~ CreateNodeRun(p) PROVE LateAt(q)'
    BY <1>a, <1>l, <1>n, <1>z
  <1>1. CASE Prepare(p)
    BY <1>0, <1>c, <1>1 DEF Prepare
  <1>2. CASE Attach(p)
    BY <1>0, <1>c, <1>2 DEF Attach, AttachMatches
  <1>3. CASE FailShell(p)
    BY <1>0, <1>c, <1>3 DEF FailShell
  <1>4. CASE Started(p)
    BY <1>0, <1>c, <1>4 DEF Started
  <1>5. CASE StartRead(p)
    BY <1>0, <1>c, <1>5 DEF StartRead
  <1>6. CASE StartCas(p)
    BY <1>0, <1>c, <1>6 DEF StartCas, IfStatus
  <1>7. CASE PublicStarted(p)
    BY <1>0, <1>c, <1>7 DEF PublicStarted
  <1>8. CASE Begin(p)
    BY <1>0, <1>c, <1>8 DEF Begin
  <1>9. CASE LoopHead(p)
    BY <1>0, <1>c, <1>9 DEF LoopHead
  <1>10. CASE CreateNodeRun(p)
    BY <1>0, <1>c, <1>10 DEF CreateNodeRun
  <1>11. CASE ExecuteNode(p)
    BY <1>0, <1>c, <1>11 DEF ExecuteNode, NextNode
  <1>12. CASE CheckCancelled(p)
    BY <1>0, <1>c, <1>12 DEF CheckCancelled, NextNode
  <1>13. CASE CreateCheckpoint(p)
    BY <1>0, <1>c, <1>13 DEF CreateCheckpoint, NextNodeIndex
  <1>14. CASE CreateCallbackTask(p)
    BY <1>0, <1>c, <1>14 DEF CreateCallbackTask
  <1>15. CASE WriteOutcome(p)
    BY <1>0, <1>c, <1>15 DEF WriteOutcome
  <1>16. CASE Finish(p)
    BY <1>0, <1>c, <1>16 DEF Finish, IfStatus
  <1>17. CASE FailFlowRun(p)
    BY <1>0, <1>c, <1>17 DEF FailFlowRun
  <1>18. CASE ReportError(p)
    BY <1>0, <1>c, <1>18 DEF ReportError
  <1>19. CASE Emit(p)
    BY <1>0, <1>c, <1>19 DEF Emit
  <1>20. CASE Close(p)
    BY <1>0, <1>c, <1>20 DEF Close
  <1>21. CASE Record(p)
    BY <1>0, <1>c, <1>21 DEF Record
  <1>22. CASE LoadRunDetail(p)
    BY <1>0, <1>c, <1>22 DEF LoadRunDetail
  <1>23. CASE CancelRead(p)
    BY <1>0, <1>c, <1>23 DEF CancelRead
  <1>24. CASE CancelCas(p)
    BY <1>0, <1>c, <1>24 DEF CancelCas, IfStatus
  <1>24a. CASE AuditCancel(p)
    BY <1>0, <1>c, <1>24a DEF AuditCancel
  <1>25. CASE ResumeRead(p)
    BY <1>0, <1>c, <1>25 DEF ResumeRead
  <1>26. CASE ResumeLoad(p)
    BY <1>0, <1>c, <1>26 DEF ResumeLoad, LoadCheckpoint
  <1>27. CASE CompleteCallbackTask(p)
    BY <1>0, <1>c, <1>27 DEF CompleteCallbackTask, IsPending
  <1>28. CASE CompleteLoad(p)
    BY <1>0, <1>c, <1>28 DEF CompleteLoad
  <1>29. CASE CompleteDetail(p)
    BY <1>0, <1>c, <1>29 DEF CompleteDetail, LoadCheckpoint
  <1>30. CASE Confirm(p)
    BY <1>0, <1>c, <1>30 DEF Confirm
  <1>31. CASE FailWaitingNode(p)
    BY <1>0, <1>c, <1>31 DEF FailWaitingNode
  <1>32. CASE Engine(p)
    BY <1>0, <1>c, <1>32 DEF Engine
  <1>33. CASE Trigger(p)
    BY <1>0, <1>c, <1>33 DEF Trigger
  <1>34. CASE ResumeWaitingNode(p)
    BY <1>0, <1>c, <1>34 DEF ResumeWaitingNode
  <1>35. CASE Trace(p)
    BY <1>0, <1>c, <1>35 DEF Trace
  <1>36. CASE TraceUpdate(p)
    BY <1>0, <1>c, <1>36 DEF TraceUpdate
  <1>37. CASE ResumeCheckpoint(p)
    BY <1>0, <1>c, <1>37 DEF ResumeCheckpoint, NextNodeIndex
  <1>38. CASE ResumeCallback(p)
    BY <1>0, <1>c, <1>38 DEF ResumeCallback
  <1>39. CASE ResumeWrite(p)
    BY <1>0, <1>c, <1>39 DEF ResumeWrite
  <1>40. CASE CallFails(p)
    BY <1>0, <1>c, <1>40 DEF CallFails
  <1> QED BY <1>1, <1>2, <1>3, <1>4, <1>5, <1>6, <1>7, <1>8, <1>9, <1>10,
     <1>11, <1>12, <1>13, <1>14, <1>15, <1>16, <1>17, <1>18, <1>19, <1>20,
     <1>21, <1>22, <1>23, <1>24, <1>24a, <1>25, <1>26, <1>27, <1>28, <1>29, <1>30,
     <1>31, <1>32, <1>33, <1>34, <1>35, <1>36, <1>37, <1>38, <1>39, <1>40 DEF
     Step, Execute, Announce, Cancel, Resume, Complete, Persist

(* What a request has answered stays answered. *)
LEMMA AnswerAtStep ==
  ASSUME TypeInv, TaskInv, NEW p \in Proc, Step(p), NEW q \in Proc
  PROVE  AnswerAt(q)'
PROOF
  <1> USE DEF At, Goto, answers, AnswerAt
  <1>0. pc \in [Proc -> Label] /\ waiter \in [Proc -> Nat] /\ AnswerAt(q)
    BY DEF TypeInv, TypeOK, TaskTypeOK, TaskInv
  <1>h. completed \subseteq completed'
    BY HistoryKept
  <1>a. CASE q # p
    BY <1>0, <1>h, <1>a, OthersUnchanged DEF LocalsUnchanged, TypeInv
  <1> SUFFICES ASSUME q = p PROVE AnswerAt(q)'
    BY <1>a
  <1>1. CASE Prepare(p)
    BY <1>0, <1>h, <1>1 DEF Prepare
  <1>2. CASE Attach(p)
    BY <1>0, <1>h, <1>2 DEF Attach, AttachMatches
  <1>3. CASE FailShell(p)
    BY <1>0, <1>h, <1>3 DEF FailShell
  <1>4. CASE Started(p)
    BY <1>0, <1>h, <1>4 DEF Started
  <1>5. CASE StartRead(p)
    BY <1>0, <1>h, <1>5 DEF StartRead
  <1>6. CASE StartCas(p)
    BY <1>0, <1>h, <1>6 DEF StartCas, IfStatus
  <1>7. CASE PublicStarted(p)
    BY <1>0, <1>h, <1>7 DEF PublicStarted
  <1>8. CASE Begin(p)
    BY <1>0, <1>h, <1>8 DEF Begin
  <1>9. CASE LoopHead(p)
    BY <1>0, <1>h, <1>9 DEF LoopHead
  <1>10. CASE CreateNodeRun(p)
    BY <1>0, <1>h, <1>10 DEF CreateNodeRun
  <1>11. CASE ExecuteNode(p)
    BY <1>0, <1>h, <1>11 DEF ExecuteNode, NextNode
  <1>12. CASE CheckCancelled(p)
    BY <1>0, <1>h, <1>12 DEF CheckCancelled, NextNode
  <1>13. CASE CreateCheckpoint(p)
    BY <1>0, <1>h, <1>13 DEF CreateCheckpoint, NextNodeIndex
  <1>14. CASE CreateCallbackTask(p)
    BY <1>0, <1>h, <1>14 DEF CreateCallbackTask
  <1>15. CASE WriteOutcome(p)
    BY <1>0, <1>h, <1>15 DEF WriteOutcome
  <1>16. CASE Finish(p)
    BY <1>0, <1>h, <1>16 DEF Finish, IfStatus
  <1>17. CASE FailFlowRun(p)
    BY <1>0, <1>h, <1>17 DEF FailFlowRun
  <1>18. CASE ReportError(p)
    BY <1>0, <1>h, <1>18 DEF ReportError
  <1>19. CASE Emit(p)
    BY <1>0, <1>h, <1>19 DEF Emit
  <1>20. CASE Close(p)
    BY <1>0, <1>h, <1>20 DEF Close
  <1>21. CASE Record(p)
    BY <1>0, <1>h, <1>21 DEF Record
  <1>22. CASE LoadRunDetail(p)
    BY <1>0, <1>h, <1>22 DEF LoadRunDetail
  <1>23. CASE CancelRead(p)
    BY <1>0, <1>h, <1>23 DEF CancelRead
  <1>24. CASE CancelCas(p)
    BY <1>0, <1>h, <1>24 DEF CancelCas, IfStatus
  <1>24a. CASE AuditCancel(p)
    BY <1>0, <1>h, <1>24a DEF AuditCancel
  <1>25. CASE ResumeRead(p)
    BY <1>0, <1>h, <1>25 DEF ResumeRead
  <1>26. CASE ResumeLoad(p)
    BY <1>0, <1>h, <1>26 DEF ResumeLoad, LoadCheckpoint
  <1>27. CASE CompleteCallbackTask(p)
    BY <1>0, <1>h, <1>27 DEF CompleteCallbackTask, IsPending
  <1>28. CASE CompleteLoad(p)
    BY <1>0, <1>h, <1>28 DEF CompleteLoad
  <1>29. CASE CompleteDetail(p)
    BY <1>0, <1>h, <1>29 DEF CompleteDetail, LoadCheckpoint
  <1>30. CASE Confirm(p)
    BY <1>0, <1>h, <1>30 DEF Confirm
  <1>31. CASE FailWaitingNode(p)
    BY <1>0, <1>h, <1>31 DEF FailWaitingNode
  <1>32. CASE Engine(p)
    BY <1>0, <1>h, <1>32 DEF Engine
  <1>33. CASE Trigger(p)
    BY <1>0, <1>h, <1>33 DEF Trigger
  <1>34. CASE ResumeWaitingNode(p)
    BY <1>0, <1>h, <1>34 DEF ResumeWaitingNode
  <1>35. CASE Trace(p)
    BY <1>0, <1>h, <1>35 DEF Trace
  <1>36. CASE TraceUpdate(p)
    BY <1>0, <1>h, <1>36 DEF TraceUpdate
  <1>37. CASE ResumeCheckpoint(p)
    BY <1>0, <1>h, <1>37 DEF ResumeCheckpoint, NextNodeIndex
  <1>38. CASE ResumeCallback(p)
    BY <1>0, <1>h, <1>38 DEF ResumeCallback
  <1>39. CASE ResumeWrite(p)
    BY <1>0, <1>h, <1>39 DEF ResumeWrite
  <1>40. CASE CallFails(p)
    BY <1>0, <1>h, <1>40 DEF CallFails
  <1> QED BY <1>1, <1>2, <1>3, <1>4, <1>5, <1>6, <1>7, <1>8, <1>9, <1>10,
     <1>11, <1>12, <1>13, <1>14, <1>15, <1>16, <1>17, <1>18, <1>19, <1>20,
     <1>21, <1>22, <1>23, <1>24, <1>24a, <1>25, <1>26, <1>27, <1>28, <1>29, <1>30,
     <1>31, <1>32, <1>33, <1>34, <1>35, <1>36, <1>37, <1>38, <1>39, <1>40 DEF
     Step, Execute, Announce, Cancel, Resume, Complete, Persist

(* Two requests never hold the same answered task: the second to come does *)
(* not find it pending.                                                    *)
LEMMA OneAnswerStep ==
  ASSUME TypeInv, TaskInv, NEW p \in Proc, Step(p)
  PROVE  OneAnswerPerTask'
PROOF
  <1>0. /\ waiter \in [Proc -> Nat] /\ OneAnswerPerTask
        /\ \A q \in Proc : AnswerAt(q) /\ AnswerAt(q)'
    BY AnswerAtStep DEF TypeInv, TypeOK, TaskTypeOK, TaskInv
  <1>1. \A q \in Proc \ {p} : waiter'[q] = waiter[q]
    BY OthersUnchanged DEF LocalsUnchanged, TypeInv
  <1>2. CASE CompleteCallbackTask(p)
    <2>1. PICK t \in tasks \ completed : waiter' = [waiter EXCEPT ![p] = t]
      BY <1>2 DEF CompleteCallbackTask, IsPending
    <2>2. waiter'[p] = t
      BY <1>0, <2>1
    <2>3. \A q \in Completers \ {p} : waiter'[q] # t \/ t = 0
      BY <1>0, <1>1, <2>1 DEF AnswerAt, Proc
    <2> QED BY <1>0, <1>1, <2>2, <2>3 DEF OneAnswerPerTask, Proc
  <1>3. CASE ~ CompleteCallbackTask(p) /\ p \in Completers
    <2>1. waiter'[p] = waiter[p]
      <3>1. CASE CompleteDetail(p)
        BY <1>0, <3>1 DEF CompleteDetail, LoadCheckpoint
      <3>2. CASE ResumeLoad(p)
        BY <1>0, <1>3, <3>2 DEF ResumeLoad, At, AnswerAt
      <3>3. CASE ~ (CompleteDetail(p) \/ ResumeLoad(p))
        BY <1>3, <3>3 DEF Step, answers, Execute, Announce, Cancel, Resume, Complete,
           Persist, Prepare, Attach, FailShell, Started, StartRead, StartCas,
           PublicStarted, Begin, LoopHead, CreateNodeRun, ExecuteNode, CheckCancelled,
           CreateCheckpoint, CreateCallbackTask, WriteOutcome, Finish, FailFlowRun,
           ReportError, Emit, Close, Record, LoadRunDetail, CancelRead, CancelCas, AuditCancel,
           ResumeRead, CompleteLoad, Confirm, FailWaitingNode, Engine, Trigger,
           ResumeWaitingNode, Trace, TraceUpdate, ResumeCheckpoint, ResumeCallback,
           ResumeWrite, CallFails
      <3> QED BY <3>1, <3>2, <3>3
    <2> QED BY <1>0, <1>1, <2>1 DEF OneAnswerPerTask, Proc
  <1>4. CASE p \notin Completers
    BY <1>0, <1>1, <1>4 DEF OneAnswerPerTask, Proc
  <1> QED BY <1>2, <1>3, <1>4

(* The log and the stream show what tasks announce, and nothing else.      *)
LEMMA AnnouncedStep ==
  ASSUME TypeInv, TaskInv, NEW p \in Proc, Step(p)
  PROVE  LogIsTruthful' /\ ClosedStreamHasTerminal'
PROOF
  <1>0. AnnounceAt(p) /\ LogIsTruthful /\ ClosedStreamHasTerminal
    BY DEF TaskInv
  <1>1. reached \subseteq reached' /\ terminals \subseteq terminals'
    BY HistoryKept
  <1>2. LogIsTruthful'
    <2>1. CASE Record(p)
      BY <1>0, <1>1, <2>1 DEF Record, AnnounceAt, LogIsTruthful, At
    <2>2. CASE ~ Record(p)
      <3>1. runEvents' \subseteq runEvents \cup {"started", "resumed", "public_cancelled"}
        BY <2>2 DEF Step, Execute, Announce, Cancel, Resume, Complete, Persist,
           Prepare, Attach, FailShell, Started, StartRead, StartCas, PublicStarted,
           Begin, LoopHead, CreateNodeRun, ExecuteNode, CheckCancelled,
           CreateCheckpoint, CreateCallbackTask, WriteOutcome, Finish, FailFlowRun,
           ReportError, Emit, Close, LoadRunDetail, CancelRead, CancelCas, AuditCancel, ResumeRead,
           ResumeLoad, CompleteCallbackTask, CompleteLoad, CompleteDetail, Confirm,
           FailWaitingNode, Engine, Trigger, ResumeWaitingNode, Trace, TraceUpdate,
           ResumeCheckpoint, ResumeCallback, ResumeWrite, CallFails
      <3> QED BY <1>0, <1>1, <3>1 DEF LogIsTruthful, TerminalStatus
    <2> QED BY <2>1, <2>2
  <1>3. ClosedStreamHasTerminal'
    <2>1. CASE Close(p)
      BY <1>0, <1>1, <2>1 DEF Close, AnnounceAt, ClosedStreamHasTerminal, At
    <2>2. CASE ~ Close(p)
      <3>1. closed' = closed
        BY <2>2 DEF Step, Execute, Announce, Cancel, Resume, Complete, Persist,
           Prepare, Attach, FailShell, Started, StartRead, StartCas, PublicStarted,
           Begin, LoopHead, CreateNodeRun, ExecuteNode, CheckCancelled,
           CreateCheckpoint, CreateCallbackTask, WriteOutcome, Finish, FailFlowRun,
           ReportError, Emit, Record, LoadRunDetail, CancelRead, CancelCas, AuditCancel,
           ResumeRead, ResumeLoad, CompleteCallbackTask, CompleteLoad, CompleteDetail,
           Confirm, FailWaitingNode, Engine, Trigger, ResumeWaitingNode, Trace,
           TraceUpdate, ResumeCheckpoint, ResumeCallback, ResumeWrite, CallFails
      <3> QED BY <1>0, <1>1, <3>1 DEF ClosedStreamHasTerminal
    <2> QED BY <2>1, <2>2
  <1> QED BY <1>2, <1>3

\* The initial states satisfy the task invariant.
LEMMA InitTaskInv == Init => TaskInv
PROOF
  <1> SUFFICES ASSUME Init PROVE TaskInv
    OBVIOUS
  <1> USE DEF Init
  <1>1. \A p \in Proc : /\ pc[p] \in FirstLabels
                        /\ p \in Completers => pc[p] = "complete"
    BY FirstStep
  <1>2. \A p \in Proc : SeenAt(p) /\ AnnounceAt(p) /\ LateAt(p) /\ AnswerAt(p)
    BY <1>1 DEF FirstLabels, SeenAt, AnnounceAt, LateAt, AnswerAt
  <1>3. ClosedStreamHasTerminal /\ LogIsTruthful /\ OneAnswerPerTask
    BY DEF ClosedStreamHasTerminal, LogIsTruthful, OneAnswerPerTask, Proc
  <1> QED BY <1>2, <1>3 DEF TaskInv

\* Stuttering keeps the task invariant.
LEMMA StutterTaskInv == TaskInv /\ UNCHANGED vars => TaskInv'
  BY DEF vars, stored, answers, TaskInv, SeenAt, AnnounceAt, LateAt, AnswerAt,
         ClosedStreamHasTerminal, LogIsTruthful, OneAnswerPerTask

(* What the tasks rely on holds in every reachable state.                  *)
THEOREM TaskInvariant == Spec => []TaskInv
PROOF
  <1>1. Init => TaskInv
    BY InitTaskInv
  <1>2. TypeInv /\ TaskInv /\ [Next]_vars => TaskInv'
    <2>1. ASSUME TypeInv, TaskInv, NEW p \in Proc, Step(p) PROVE TaskInv'
      BY <2>1, SeenAtStep, AnnounceAtStep, LateAtStep, AnswerAtStep, OneAnswerStep,
         AnnouncedStep DEF TaskInv
    <2> QED BY <2>1, NextIsStep, StutterTaskInv
  <1> QED BY <1>1, <1>2, TypeInvariant, PTL DEF Spec

-----------------------------------------------------------------------------
(* The properties                                                          *)

(* The durable log never announces an end the run did not have.            *)
THEOREM TruthfulLog == Spec => []LogIsTruthful
PROOF
  <1>1. TaskInv => LogIsTruthful
    BY DEF TaskInv
  <1> QED BY <1>1, TaskInvariant, PTL

(* Every task announces before it closes: a closed stream holds a terminal *)
(* event.                                                                  *)
THEOREM ClosedAfterTerminal == Spec => []ClosedStreamHasTerminal
PROOF
  <1>1. TaskInv => ClosedStreamHasTerminal
    BY DEF TaskInv
  <1> QED BY <1>1, TaskInvariant, PTL

(* After a cancel has committed, each executor starts at most the one node *)
(* whose cancellation check it had already passed.                         *)
THEOREM CancelStopsExecution == Spec => []AtMostOneNodeAfterCancel
PROOF
  <1>1. TaskInv => AtMostOneNodeAfterCancel
    BY DEF TaskInv, LateAt, AtMostOneNodeAfterCancel, Proc
  <1> QED BY <1>1, TaskInvariant, PTL

(* Of any number of requests that answer one callback task, one wins.      *)
THEOREM SingleAnswer == Spec => []OneAnswerPerTask
PROOF
  <1>1. TaskInv => OneAnswerPerTask
    BY DEF TaskInv
  <1> QED BY <1>1, TaskInvariant, PTL

(* The statuses a step can write.                                          *)
LEMMA StatusSteps ==
  ASSUME TypeInv, TaskInv, NEW p \in Proc, Step(p), status' # status
  PROVE  /\ status' = "running" => status = "queued"
         /\ status' = "cancelled" => status \notin TerminalStatus
         /\ plan = NoPlan => status # "cancelled"
PROOF
  <1>0. OutcomeAt(p) /\ PlanAt(p) /\ SeenAt(p)
    BY DEF TypeInv, PlanInv, TaskInv
  <1> USE DEF SetStatus, At, OutcomeAt, WaitingStatus, PlanAt, SeenAt
  <1>1. CASE Attach(p)
    BY <1>1 DEF Attach, AttachMatches
  <1>2. CASE FailShell(p)
    BY <1>2 DEF FailShell
  <1>3. CASE StartCas(p)
    BY <1>0, <1>3 DEF StartCas, IfStatus
  <1>4. CASE WriteOutcome(p)
    BY <1>0, <1>4 DEF WriteOutcome
  <1>5. CASE Finish(p)
    BY <1>5 DEF Finish, IfStatus
  <1>6. CASE CancelCas(p)
    BY <1>0, <1>6 DEF CancelCas, IfStatus
  <1>7. CASE ResumeWrite(p)
    BY <1>0, <1>7 DEF ResumeWrite
  <1> QED BY <1>1, <1>2, <1>3, <1>4, <1>5, <1>6, <1>7, StatusWriters

(* A run enters Running from Queued only, by whichever task and whatever it *)
(* read before.                                                            *)
THEOREM RunningFromQueued == Spec => StartsFromQueued
PROOF
  <1>1. TypeInv /\ TaskInv /\ [Next]_vars
        => [status # "running" /\ status' = "running" => status = "queued"]_vars
    <2>1. ASSUME TypeInv, TaskInv, NEW p \in Proc, Step(p)
          PROVE  status # "running" /\ status' = "running" => status = "queued"
      BY <2>1, StatusSteps
    <2> QED BY <2>1, NextIsStep
  <1> QED BY <1>1, TypeInvariant, TaskInvariant, PTL DEF Spec, StartsFromQueued

(* A cancel that acts on an old status never overwrites a run that has ended. *)
THEOREM CancelRespectsEnd == Spec => CancelSparesFinished
PROOF
  <1>1. TypeInv /\ TaskInv /\ [Next]_vars
        => [status # "cancelled" /\ status' = "cancelled"
              => status \notin TerminalStatus]_vars
    <2>1. ASSUME TypeInv, TaskInv, NEW p \in Proc, Step(p)
          PROVE  status # "cancelled" /\ status' = "cancelled"
                   => status \notin TerminalStatus
      BY <2>1, StatusSteps
    <2> QED BY <2>1, NextIsStep
  <1> QED BY <1>1, TypeInvariant, TaskInvariant, PTL DEF Spec, CancelSparesFinished

(* Cancelling a run that is still being prepared is final.                 *)
THEOREM CancelledShellStays == Spec => CancelledShellIsFinal
PROOF
  <1>1. TypeInv /\ TaskInv /\ [Next]_vars
        => [status = "cancelled" /\ plan = NoPlan => UNCHANGED <<status, plan>>]_vars
    <2>1. ASSUME TypeInv, TaskInv, NEW p \in Proc, Step(p), status = "cancelled", plan = NoPlan
          PROVE  UNCHANGED <<status, plan>>
      <3>1. status' = status
        BY <2>1, StatusSteps
      <3>2. plan' = plan
        <4>1. ~ Attach(p) \/ plan' = plan
          BY <2>1 DEF Attach, AttachMatches, stored
        <4>2. Attach(p) \/ plan' = plan
          BY <2>1 DEF Step, stored, Execute, Announce, Cancel, Resume, Complete,
             Persist, Prepare, FailShell, Started, StartRead, StartCas, PublicStarted,
             Begin, LoopHead, CreateNodeRun, ExecuteNode, CheckCancelled,
             CreateCheckpoint, CreateCallbackTask, WriteOutcome, Finish, FailFlowRun,
             ReportError, Emit, Close, Record, LoadRunDetail, CancelRead, CancelCas, AuditCancel,
             ResumeRead, ResumeLoad, CompleteCallbackTask, CompleteLoad,
             CompleteDetail, Confirm, FailWaitingNode, Engine, Trigger,
             ResumeWaitingNode, Trace, TraceUpdate, ResumeCheckpoint, ResumeCallback,
             ResumeWrite, CallFails
        <4> QED BY <4>1, <4>2
      <3> QED BY <3>1, <3>2
    <2> QED BY <2>1, NextIsStep
  <1> QED BY <1>1, TypeInvariant, TaskInvariant, PTL DEF Spec, CancelledShellIsFinal
=============================================================================
