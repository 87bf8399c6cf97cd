-------------------------- MODULE EphemeralStores --------------------------
(***************************************************************************)
(* Two stores of the process that hand something to one worker for a time: *)
(* a task queue (a claim, with a visibility timeout) and a lock (a lease,  *)
(* with a time to live).  Each call is one step under the store's mutex;   *)
(* time may pass between any two.                                          *)
(*                                                                         *)
(*   Workers    who claims tasks and takes the lock                        *)
(*   TaskKeys   idempotency keys of tasks; NoTaskKey is none               *)
(*   MaxTasks   bound: the tasks enqueued                                  *)
(***************************************************************************)
EXTENDS Naturals, Sequences, Subsequence

CONSTANTS Workers, NoWorker, TaskKeys, NoTaskKey, MaxTasks

ASSUME StoresAssumption ==
  NoWorker \notin Workers /\ NoTaskKey \notin TaskKeys /\ MaxTasks \in Nat

VARIABLES
  taskQueue,  \* the ids of the queue, oldest first
  tasks,      \* id -> the task's entry, for the tasks that are there
  taskIndex,  \* idempotency key -> id, 0 for none
  enqueued,   \* the ids given so far
  lease,      \* the lock's entry
  working,    \* history: the tasks each worker may take for its own
  locking     \* history: the workers that may take the lock for theirs

taskVars == <<taskQueue, tasks, taskIndex, enqueued, working>>
lockVars == <<lease, locking>>
storesVars == <<taskVars, lockVars>>

TaskIds == 1 .. MaxTasks
TaskEntry == [key : TaskKeys \cup {NoTaskKey},
              claimed_by : Workers \cup {NoWorker}, valid : BOOLEAN]
NoLease == [owner |-> NoWorker, valid |-> FALSE]

StoresTypeOK ==
  /\ taskQueue \in Seq(TaskIds)
  /\ DOMAIN tasks \subseteq TaskIds /\ \A t \in DOMAIN tasks : tasks[t] \in TaskEntry
  /\ taskIndex \in [TaskKeys -> 0 .. MaxTasks]
  /\ enqueued \in 0 .. MaxTasks
  /\ lease \in [owner : Workers \cup {NoWorker}, valid : BOOLEAN]
  /\ working \in [Workers -> SUBSET TaskIds] /\ locking \subseteq Workers

StoresInit ==
  /\ taskQueue = <<>> /\ tasks = [t \in {} |-> NoLease] /\ enqueued = 0
  /\ taskIndex = [k \in TaskKeys |-> 0]
  /\ lease = NoLease
  /\ working = [w \in Workers |-> {}] /\ locking = {}

-----------------------------------------------------------------------------
(* MemoryTaskQueue                                                         *)

\* Mutant of KnownKey: the index is not asked.
KnownKeyNever(key) == FALSE

\* The key has a task in the index, and the task is still there.
KnownKey(key) == key \in TaskKeys /\ taskIndex[key] \in DOMAIN tasks

\* A known key is answered its task; nothing changes.
EnqueueTask(key) ==
  /\ ~ KnownKey(key) /\ enqueued < MaxTasks
  /\ enqueued' = enqueued + 1
  /\ taskQueue' = Append(taskQueue, enqueued')
  /\ tasks' = [t \in DOMAIN tasks \cup {enqueued'} |->
       IF t = enqueued' THEN [key |-> key, claimed_by |-> NoWorker, valid |-> FALSE]
       ELSE tasks[t]]
  /\ taskIndex' = [k \in TaskKeys |-> IF k = key THEN enqueued' ELSE taskIndex[k]]
  /\ UNCHANGED <<working, lockVars>>

Claimable(t) ==
  t \in DOMAIN tasks /\ ~ (tasks[t].claimed_by # NoWorker /\ tasks[t].valid)

\* The first task of the queue that nobody holds.
ClaimTask(w) ==
  \E i \in DOMAIN taskQueue :
    LET t == taskQueue[i]
    IN  /\ Claimable(t) /\ \A j \in 1 .. i - 1 : ~ Claimable(taskQueue[j])
        /\ tasks' = [tasks EXCEPT ![t].claimed_by = w, ![t].valid = TRUE]
        /\ working' = [working EXCEPT ![w] = @ \cup {t}]
        /\ UNCHANGED <<taskQueue, taskIndex, enqueued, lockVars>>

\* A worker knows when its claim ends, and goes on with the task or not: it
\* may still call ack and fail.
ClaimExpires(t) ==
  /\ t \in DOMAIN tasks /\ tasks[t].valid
  /\ tasks' = [tasks EXCEPT ![t].valid = FALSE]
  /\ working' = [w \in Workers |-> working[w] \ {t}]
  /\ UNCHANGED <<taskQueue, taskIndex, enqueued, lockVars>>

AckTask(w, t) ==
  /\ t \in DOMAIN tasks /\ tasks[t].claimed_by = w /\ tasks[t].valid
  /\ tasks' = [x \in DOMAIN tasks \ {t} |-> tasks[x]]
  /\ taskQueue' = Retained(taskQueue, { i \in DOMAIN taskQueue : taskQueue[i] # t })
  /\ taskIndex' = [k \in TaskKeys |-> IF k = tasks[t].key THEN 0 ELSE taskIndex[k]]
  /\ working' = [working EXCEPT ![w] = @ \ {t}]
  /\ UNCHANGED <<enqueued, lockVars>>

\* Mutant of MayFail: a worker whose claim has passed to another fails it.
MayFailAny(w, t) == t \in DOMAIN tasks /\ tasks[t].claimed_by # NoWorker

\* Whose claim it is, valid or not.
MayFail(w, t) == t \in DOMAIN tasks /\ tasks[t].claimed_by = w

FailTask(w, t) ==
  /\ MayFail(w, t)
  /\ tasks' = [tasks EXCEPT ![t].claimed_by = NoWorker, ![t].valid = FALSE]
  /\ working' = [working EXCEPT ![w] = @ \ {t}]
  /\ UNCHANGED <<taskQueue, taskIndex, enqueued, lockVars>>

-----------------------------------------------------------------------------
(* MemoryLeaseStore, behind MemoryDistributedLock                          *)

AcquireLock(w) ==
  /\ ~ (lease.valid /\ lease.owner # w)
  /\ lease' = [owner |-> w, valid |-> TRUE]
  /\ locking' = locking \cup {w}
  /\ UNCHANGED taskVars

LeaseExpires ==
  /\ lease.valid
  /\ lease' = [lease EXCEPT !.valid = FALSE]
  /\ locking' = {}
  /\ UNCHANGED taskVars

Held(w) == lease.valid /\ lease.owner = w

\* renew of a lease that is held extends it, and nothing here changes; renew
\* and release both remove one that has expired.
DropExpiredLease ==
  /\ lease.owner # NoWorker /\ ~ lease.valid
  /\ lease' = NoLease
  /\ UNCHANGED <<locking, taskVars>>

ReleaseLock(w) ==
  /\ Held(w)
  /\ lease' = NoLease
  /\ locking' = locking \ {w}
  /\ UNCHANGED taskVars

StoresNext ==
  \/ \E k \in TaskKeys \cup {NoTaskKey} : EnqueueTask(k)
  \/ \E t \in TaskIds : ClaimExpires(t)
  \/ \E w \in Workers :
       \/ ClaimTask(w)
       \/ \E t \in TaskIds : AckTask(w, t) \/ FailTask(w, t)
       \/ AcquireLock(w) \/ ReleaseLock(w)
  \/ LeaseExpires \/ DropExpiredLease

StoresSpec == StoresInit /\ [][StoresNext]_storesVars

-----------------------------------------------------------------------------
\* No two workers take one task, or the lock, for theirs at one time, whatever
\* late calls of workers whose claim or lease has ended come in between.
HeldByOne ==
  /\ \A w, x \in Workers : w # x => working[w] \cap working[x] = {}
  /\ \A w, x \in locking : w = x

\* An idempotency key has at most one task that is there, the one the index
\* names, and every task that is there can be claimed from the queue.
TaskOfKeyIsOne ==
  /\ \A t, u \in DOMAIN tasks : tasks[t].key \in TaskKeys /\ tasks[t].key = tasks[u].key
       => t = u /\ taskIndex[tasks[t].key] = t
  /\ DOMAIN tasks = { taskQueue[i] : i \in DOMAIN taskQueue }

=============================================================================
