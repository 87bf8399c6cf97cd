--------------------------- MODULE FailoverQueue ---------------------------
(***************************************************************************)
(* The execution of an LLM node: the targets of its route, frozen when the *)
(* plan was compiled, are called one after the other.  While a provider's  *)
(* process runs its events are forwarded to the run's event stream; what   *)
(* the node decides by is what the call returns once the process is over,  *)
(* which is an error without any event when the process did not end well.  *)
(*                                                                         *)
(*   QueueLength  the enabled targets of the failover queue, in order      *)
(***************************************************************************)
EXTENDS Naturals

CONSTANT QueueLength

ASSUME QueueAssumption == QueueLength \in Nat \ {0}

VARIABLES
  route,       \* how many targets the node's route has: 1 with a fixed model
  failover,    \* whether the routing mode is failover_queue
  attempt,     \* the target being called
  nodeOutcome,
  sawDelta,    \* a content delta is among the events of the attempt
  errorAfter,  \* whether its first error event came after one: "no_error",
               \* "before_delta" or "after_delta"
  failedLate,  \* the attempts recorded with failed_after_first_token
  spoke        \* the attempts whose deltas reached the run's event stream

queueVars == <<route, failover, attempt, nodeOutcome, sawDelta, errorAfter, failedLate, spoke>>

Attempts == 1 .. QueueLength

QueueTypeOK ==
  /\ route \in 0 .. QueueLength /\ failover \in BOOLEAN
  /\ attempt \in 0 .. QueueLength
  /\ nodeOutcome \in { "none", "refused", "calling", "succeeded", "failed" }
  /\ sawDelta \in BOOLEAN
  /\ errorAfter \in { "no_error", "before_delta", "after_delta" }
  /\ failedLate \subseteq Attempts /\ spoke \subseteq Attempts

QueueInit ==
  /\ route = 0 /\ failover = FALSE /\ attempt = 0 /\ nodeOutcome = "none"
  /\ sawDelta = FALSE /\ errorAfter = "no_error"
  /\ failedLate = {} /\ spoke = {}

-----------------------------------------------------------------------------
\* llm_attempt_runtimes; a node whose prompt is empty is not called at all
StartNode ==
  /\ nodeOutcome = "none" /\ attempt' = 1
  /\ \/ failover' = TRUE /\ route' \in Attempts
     \/ failover' = FALSE /\ route' = 1
  /\ nodeOutcome' \in { "calling", "refused" }
  /\ UNCHANGED <<sawDelta, errorAfter, failedLate, spoke>>

\* The provider writes a line: a delta, or an error event.
ProviderDelta ==
  /\ nodeOutcome = "calling"
  /\ sawDelta' = TRUE /\ spoke' = spoke \cup {attempt}
  /\ UNCHANGED <<route, failover, attempt, nodeOutcome, errorAfter, failedLate>>

ProviderError ==
  /\ nodeOutcome = "calling" /\ errorAfter = "no_error"
  /\ errorAfter' = IF sawDelta THEN "after_delta" ELSE "before_delta"
  /\ UNCHANGED <<route, failover, attempt, nodeOutcome, sawDelta, failedLate, spoke>>

\* Mutant of MoreTargets: one past the end of the route.
MoreTargetsPastEnd == failover /\ attempt <= route

MoreTargets == failover /\ attempt < route

CallNext ==
  /\ attempt' = attempt + 1
  /\ sawDelta' = FALSE /\ errorAfter' = "no_error"
  /\ UNCHANGED <<route, failover, nodeOutcome, spoke>>

EndNode(outcome) ==
  /\ nodeOutcome' = outcome
  /\ UNCHANGED <<route, failover, attempt, sawDelta, errorAfter, spoke>>

\* The call returns an error: the target was refused before it began, or its
\* process timed out, wrote a line that is none, exited badly or wrote no
\* result.  The events it wrote are lost to the node.
CallFails ==
  /\ nodeOutcome = "calling"
  /\ IF MoreTargets THEN CallNext ELSE EndNode("failed")
  /\ UNCHANGED failedLate

\* content_delta_seen_before_terminal_failure
FailedAfterFirstToken(finishedWithError) ==
  \/ errorAfter = "after_delta"
  \/ errorAfter = "no_error" /\ finishedWithError /\ sawDelta

\* Mutant of CallReturns: the next target is called whatever was heard.
CallReturnsToNext(finishedWithError) ==
  LET erred == errorAfter # "no_error" \/ finishedWithError
  IN /\ nodeOutcome = "calling"
     /\ failedLate' = IF erred /\ FailedAfterFirstToken(finishedWithError)
                      THEN failedLate \cup {attempt} ELSE failedLate
     /\ IF ~erred THEN EndNode("succeeded")
        ELSE IF MoreTargets THEN CallNext ELSE EndNode("failed")

\* The call returns the events and a result.
CallReturns(finishedWithError) ==
  LET erred == errorAfter # "no_error" \/ finishedWithError
      late == erred /\ FailedAfterFirstToken(finishedWithError)
  IN /\ nodeOutcome = "calling"
     /\ failedLate' = IF late THEN failedLate \cup {attempt} ELSE failedLate
     /\ IF ~erred THEN EndNode("succeeded")
        ELSE IF MoreTargets /\ ~late THEN CallNext ELSE EndNode("failed")

QueueNext ==
  \/ StartNode \/ ProviderDelta \/ ProviderError \/ CallFails
  \/ \E finishedWithError \in BOOLEAN : CallReturns(finishedWithError)

QueueSpec == QueueInit /\ [][QueueNext]_queueVars

-----------------------------------------------------------------------------
\* A failure recorded as one after the first token ends the node, which does
\* not succeed any more; and once a target was called, the node fails for no
\* other reason before the last target of its queue was called.
FailoverStopsWhereItMust ==
  /\ \A a \in failedLate : a = attempt /\ nodeOutcome = "failed"
  /\ nodeOutcome = "failed" /\ attempt \notin failedLate => ~MoreTargets

\* What the run's event stream carries of the node's answer was said by one
\* target: outputs are not spliced together across a failover.
AnswerIsOfOneTarget == \A a, b \in spoke : a = b

=============================================================================
