----------------------------- MODULE MCFlowRun -----------------------------
(* Small plans for TLC to check FlowRun with.                              *)
EXTENDS FlowRun, TLC

\* Every kind of node an executor meets; a plan that runs to its end, and two
\* that end in a wait.
ExecutorPlans ==
  { <<"start", "llm", "data_model">>, <<"llm", "human_input">>, <<"llm", "tool">> }

\* A data model node that asks for confirmation before a node the engine can
\* resume through; a wait that follows a wait; a resume that meets a data model
\* node, which the engine does not support.
ResumePlans ==
  { <<"data_model", "llm">>, <<"human_input", "tool">>, <<"tool", "data_model">> }

ShortPlans == { <<"llm", "tool">> }

CompleterSymmetry == Permutations(Completers)
=============================================================================
