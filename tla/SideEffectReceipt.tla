------------------------- MODULE SideEffectReceipt -------------------------
(***************************************************************************)
(* The write of a data model node (create, update, delete) and the receipt *)
(* that keeps it from being done twice.                                    *)
(*                                                                         *)
(*   SideEffects  the idempotency keys: run, node, action and payload hash *)
(*   Confirmed    those whose node asks for a confirmation                 *)
(*                (confirm_each_run); the others do not                    *)
(*                (allow_with_idempotency), disabled ones do not get here  *)
(*   Writers      the tasks that execute such a node: an executor, a       *)
(*                second executor of the same run, the answers to the      *)
(*                node's confirmation; any of them may crash or meet an    *)
(*                error of the store                                       *)
(***************************************************************************)
EXTENDS Naturals, FiniteSets

CONSTANTS Writers, SideEffects, Confirmed, Nobody, NoSideEffect

ASSUME ReceiptAssumption ==
  /\ Nobody \notin Writers /\ NoSideEffect \notin SideEffects
  /\ Confirmed \subseteq SideEffects

VARIABLES
  receipt,     \* the status of the key's receipt, "absent" when there is none
  storedBy,    \* the writer whose output the receipt holds
  effects,     \* history: the writers whose record write took effect
  consent,     \* the confirmation task of the key's node
  offered,     \* whether that task has not expired
  application, \* whether the application still exists
  writerStage, \* where a writer is
  sideEffect,  \* the key it works on
  answer       \* the writer whose output its node was given

receiptVars == <<receipt, storedBy, effects, consent, offered, application,
                 writerStage, sideEffect, answer>>

receiptRows == <<receipt, storedBy, consent, application>>

ReceiptTypeOK ==
  /\ receipt \in [SideEffects -> { "absent", "pending", "succeeded", "failed" }]
  /\ storedBy \in [SideEffects -> Writers \cup {Nobody}]
  /\ effects \in [SideEffects -> SUBSET Writers]
  /\ consent \in [SideEffects -> { "not_needed", "pending", "completed" }]
  /\ offered \in [SideEffects -> BOOLEAN]
  /\ application \in BOOLEAN
  /\ writerStage \in [Writers ->
       { "idle", "confirm", "claim", "read", "write", "succeed", "fail", "ended" }]
  /\ sideEffect \in [Writers -> SideEffects \cup {NoSideEffect}]
  /\ answer \in [Writers -> Writers \cup {Nobody}]

ReceiptInit ==
  /\ receipt  = [k \in SideEffects |-> "absent"]
  /\ storedBy = [k \in SideEffects |-> Nobody]
  /\ effects  = [k \in SideEffects |-> {}]
  /\ consent  = [k \in SideEffects |-> IF k \in Confirmed THEN "pending" ELSE "not_needed"]
  /\ offered  = [k \in SideEffects |-> TRUE]
  /\ application = TRUE
  /\ writerStage = [w \in Writers |-> "idle"]
  /\ sideEffect = [w \in Writers |-> NoSideEffect]
  /\ answer = [w \in Writers |-> Nobody]

WriterAt(w, label) == writerStage[w] = label
WriterGoes(w, label) == writerStage' = [writerStage EXCEPT ![w] = label]
KeyOf(w) == sideEffect[w]

-----------------------------------------------------------------------------
\* execute_write_with_receipt; for a confirmation, the checks of
\* complete_callback_task: approved, by the run's actor, not expired.
BeginWrite(w, k) ==
  /\ WriterAt(w, "idle")
  /\ sideEffect' = [sideEffect EXCEPT ![w] = k]
  /\ \/ k \notin Confirmed /\ WriterGoes(w, "claim")
     \/ k \in Confirmed /\ offered[k] /\ WriterGoes(w, "confirm")
  /\ UNCHANGED <<receiptRows, effects, offered, answer>>

ExpireConfirmation(k) ==
  /\ consent[k] = "pending" /\ offered[k]
  /\ offered' = [offered EXCEPT ![k] = FALSE]
  /\ UNCHANGED <<receiptRows, effects, writerStage, sideEffect, answer>>

\* complete_callback_task in the store: only a pending task is completed.
CompleteConfirmation(w) ==
  /\ WriterAt(w, "confirm")
  /\ IF consent[KeyOf(w)] = "pending" /\ application
       THEN /\ consent' = [consent EXCEPT ![KeyOf(w)] = "completed"]
            /\ WriterGoes(w, "claim")
       ELSE WriterGoes(w, "ended") /\ UNCHANGED consent
  /\ UNCHANGED <<receipt, storedBy, application, effects, offered, sideEffect, answer>>

\* Mutant of ClaimReceipt: a failed receipt is claimed again.
ClaimReceiptAgain(w) ==
  /\ WriterAt(w, "claim")
  /\ \/ /\ ~ application /\ WriterGoes(w, "ended") /\ UNCHANGED receipt
     \/ /\ application /\ receipt[KeyOf(w)] \in { "absent", "failed" }
        /\ receipt' = [receipt EXCEPT ![KeyOf(w)] = "pending"]
        /\ WriterGoes(w, "write")
     \/ /\ application /\ receipt[KeyOf(w)] \in { "pending", "succeeded" }
        /\ WriterGoes(w, "read") /\ UNCHANGED receipt
  /\ UNCHANGED <<storedBy, effects, consent, offered, application, sideEffect, answer>>

\* claim_data_model_side_effect_receipt: insert ... on conflict do nothing.
\* The row refers to the application's run: without it the insert fails.
ClaimReceipt(w) ==
  /\ WriterAt(w, "claim")
  /\ \/ /\ ~ application /\ WriterGoes(w, "ended") /\ UNCHANGED receipt
     \/ /\ application /\ receipt[KeyOf(w)] = "absent"
        /\ receipt' = [receipt EXCEPT ![KeyOf(w)] = "pending"]
        /\ WriterGoes(w, "write")
     \/ /\ application /\ receipt[KeyOf(w)] # "absent"
        /\ WriterGoes(w, "read") /\ UNCHANGED receipt
  /\ UNCHANGED <<storedBy, effects, consent, offered, application, sideEffect, answer>>

\* Mutant of ReadReceipt: any receipt that is not pending is replayed.
ReadReceiptAny(w) ==
  /\ WriterAt(w, "read")
  /\ IF receipt[KeyOf(w)] \in { "succeeded", "failed" }
       THEN answer' = [answer EXCEPT ![w] = storedBy[KeyOf(w)]]
       ELSE UNCHANGED answer
  /\ WriterGoes(w, "ended")
  /\ UNCHANGED <<receiptRows, effects, offered, sideEffect>>

\* The claim's second statement: a succeeded receipt is replayed; any other,
\* and one that has disappeared, is an error.
ReadReceipt(w) ==
  /\ WriterAt(w, "read")
  /\ IF receipt[KeyOf(w)] = "succeeded"
       THEN answer' = [answer EXCEPT ![w] = storedBy[KeyOf(w)]]
       ELSE UNCHANGED answer
  /\ WriterGoes(w, "ended")
  /\ UNCHANGED <<receiptRows, effects, offered, sideEffect>>

\* The record write, in the main source or an external one.  An error does
\* not say that nothing was written: the answer of an external source or of
\* a commit may be what was lost.
WriteRecord(w) ==
  /\ WriterAt(w, "write")
  /\ \/ /\ effects' = [effects EXCEPT ![KeyOf(w)] = @ \cup {w}]
        /\ \E label \in { "succeed", "fail" } : WriterGoes(w, label)
     \/ WriterGoes(w, "fail") /\ UNCHANGED effects
  /\ UNCHANGED <<receiptRows, offered, sideEffect, answer>>

\* upsert_data_model_side_effect_receipt: the columns change only while the
\* stored status is pending.  (It finds a row as long as there is an
\* application: the writer claimed it.)
UpsertReceipt(w, status) ==
  IF receipt[KeyOf(w)] = "pending"
    THEN /\ receipt'  = [receipt EXCEPT ![KeyOf(w)] = status]
         /\ storedBy' = [storedBy EXCEPT ![KeyOf(w)] = w]
    ELSE UNCHANGED <<receipt, storedBy>>

\* The node fails, whatever becomes of the upsert.
StoreFailure(w) ==
  /\ WriterAt(w, "fail")
  /\ \/ application /\ UpsertReceipt(w, "failed")
     \/ UNCHANGED <<receipt, storedBy>>
  /\ WriterGoes(w, "ended")
  /\ UNCHANGED <<consent, application, effects, offered, sideEffect, answer>>

\* An upsert that fails leaves a pending receipt and a failing node.
StoreSuccess(w) ==
  /\ WriterAt(w, "succeed")
  /\ \/ /\ application /\ UpsertReceipt(w, "succeeded")
        /\ answer' = [answer EXCEPT ![w] = w]
     \/ UNCHANGED <<receipt, storedBy, answer>>
  /\ WriterGoes(w, "ended")
  /\ UNCHANGED <<consent, application, effects, offered, sideEffect>>

\* The process is gone; what its last statement did stays.
CrashWriter(w) ==
  /\ writerStage[w] \notin { "idle", "ended" }
  /\ WriterGoes(w, "ended")
  /\ UNCHANGED <<receiptRows, effects, offered, sideEffect, answer>>

\* Deleting the application takes its runs, their tasks and receipts along;
\* the records of the data model stay.
DeleteApplication ==
  /\ application
  /\ application' = FALSE
  /\ receipt'  = [k \in SideEffects |-> "absent"]
  /\ storedBy' = [k \in SideEffects |-> Nobody]
  /\ UNCHANGED <<consent, effects, offered, writerStage, sideEffect, answer>>

ReceiptNext ==
  \/ \E w \in Writers :
       \/ \E k \in SideEffects : BeginWrite(w, k)
       \/ CompleteConfirmation(w)
       \/ ClaimReceipt(w) \/ ReadReceipt(w)
       \/ WriteRecord(w) \/ StoreFailure(w) \/ StoreSuccess(w)
       \/ CrashWriter(w)
  \/ \E k \in SideEffects : ExpireConfirmation(k)
  \/ DeleteApplication

ReceiptSpec == ReceiptInit /\ [][ReceiptNext]_receiptVars

-----------------------------------------------------------------------------
\* A node's write takes effect at most once, whoever executes the node again:
\* a second executor, a repeated confirmation, a retry after a crash or
\* after an error that may have hidden a write.
WrittenAtMostOnce == \A k \in SideEffects : Cardinality(effects[k]) <= 1

\* A node that got an output, its own or a replayed one, got the output of
\* the one writer whose write took effect.
AnswerIsTheEffect ==
  \A w \in Writers : answer[w] # Nobody => effects[KeyOf(w)] = {answer[w]}

=============================================================================
