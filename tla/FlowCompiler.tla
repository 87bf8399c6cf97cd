---------------------------- MODULE FlowCompiler ----------------------------
(***************************************************************************)
(* The compiler's build_nodes_and_topology: the document's edges are taken *)
(* in one by one, each with its dependency and its indegree, then Kahn's   *)
(* queue orders the nodes, or finds that there is a cycle.  Two edges may  *)
(* join the same nodes, and a node may be joined to itself.                *)
(*                                                                         *)
(*   NodeCount  the document's nodes, numbered in its order                *)
(*   MaxEdges   bound: the document's edges                                *)
(***************************************************************************)
EXTENDS Naturals, FiniteSets, Sequences, Subsequence

CONSTANTS NodeCount, MaxEdges

ASSUME CompilerAssumption == NodeCount \in Nat /\ MaxEdges \in Nat

VARIABLES
  adjacency,     \* the targets of each node's edges, one entry for each edge
  indegree,
  dependencies,  \* dependency_node_ids of each compiled node
  ready,         \* the queue
  order,         \* topological_order
  compileStage   \* "edges", "order", "compiled" or "cycle"

compilerVars == <<adjacency, indegree, dependencies, ready, order, compileStage>>

DocumentNodes == 1 .. NodeCount

CompilerTypeOK ==
  /\ \A n \in DocumentNodes : \A i \in 1 .. Len(adjacency[n]) : adjacency[n][i] \in DocumentNodes
  /\ indegree \in [DocumentNodes -> 0 .. MaxEdges]
  /\ dependencies \in [DocumentNodes -> SUBSET DocumentNodes]
  /\ Len(ready) <= NodeCount /\ Len(order) <= NodeCount
  /\ compileStage \in { "edges", "order", "compiled", "cycle" }

CompilerInit ==
  /\ adjacency = [n \in DocumentNodes |-> <<>>]
  /\ indegree = [n \in DocumentNodes |-> 0]
  /\ dependencies = [n \in DocumentNodes |-> {}]
  /\ ready = <<>> /\ order = <<>> /\ compileStage = "edges"

-----------------------------------------------------------------------------
EdgeCount == Cardinality({ e \in DocumentNodes \X (1 .. MaxEdges) : e[2] <= Len(adjacency[e[1]]) })

TakeEdge(source, goal) ==
  /\ compileStage = "edges" /\ EdgeCount < MaxEdges
  /\ dependencies' = [dependencies EXCEPT ![goal] = @ \cup {source}]
  /\ adjacency' = [adjacency EXCEPT ![source] = Append(@, goal)]
  /\ indegree' = [indegree EXCEPT ![goal] = @ + 1]
  /\ UNCHANGED <<ready, order, compileStage>>

\* The nodes without an incoming edge, in the document's order
SeedQueue ==
  /\ compileStage = "edges" /\ compileStage' = "order"
  /\ ready' = Retained([n \in DocumentNodes |-> n], { n \in DocumentNodes : indegree[n] = 0 })
  /\ UNCHANGED <<adjacency, indegree, dependencies, order>>

EdgesTo(n, goals) == Cardinality({ i \in 1 .. Len(goals) : goals[i] = n })

\* The node at the head of the queue is ordered; the neighbours that wait for
\* no edge any more join the queue in the order their last edge comes in.
Neighbours(node) ==
  LET goals == adjacency[node]
      last(i) == \A j \in i + 1 .. Len(goals) : goals[j] # goals[i]
  IN Retained(goals, { i \in 1 .. Len(goals) :
                         last(i) /\ indegree[goals[i]] = EdgesTo(goals[i], goals) })

OrderNode ==
  /\ compileStage = "order" /\ ready # <<>>
  /\ LET node == Head(ready) IN
       /\ order' = Append(order, node)
       /\ indegree' = [n \in DocumentNodes |-> indegree[n] - EdgesTo(n, adjacency[node])]
       /\ ready' = Tail(ready) \o Neighbours(node)
  /\ UNCHANGED <<adjacency, dependencies, compileStage>>

\* Mutant of EndOrder: the nodes ordered are not counted.
EndOrderUnchecked ==
  /\ compileStage = "order" /\ ready = <<>> /\ compileStage' = "compiled"
  /\ UNCHANGED <<adjacency, indegree, dependencies, ready, order>>

\* Nodes that never came into the queue wait for each other.
EndOrder ==
  /\ compileStage = "order" /\ ready = <<>>
  /\ compileStage' = IF Len(order) = NodeCount THEN "compiled" ELSE "cycle"
  /\ UNCHANGED <<adjacency, indegree, dependencies, ready, order>>

CompilerNext ==
  \/ \E source, goal \in DocumentNodes : TakeEdge(source, goal)
  \/ SeedQueue \/ OrderNode \/ EndOrder

CompilerSpec == CompilerInit /\ [][CompilerNext]_compilerVars

-----------------------------------------------------------------------------
\* A cycle: nodes each of which depends on one of them
HasCycle ==
  \E nodes \in SUBSET DocumentNodes \ {{}} : \A n \in nodes : dependencies[n] \cap nodes # {}

\* A flow is refused for a cycle exactly when its dependencies have one, and
\* the order it is compiled to, in which the executor runs the nodes, holds
\* every node once, after all it depends on.
OrderIsTopological ==
  /\ compileStage = "cycle" => HasCycle
  /\ compileStage = "compiled" =>
       /\ \A n \in DocumentNodes : Cardinality({ i \in 1 .. Len(order) : order[i] = n }) = 1
       /\ \A i \in 1 .. NodeCount : dependencies[order[i]] \subseteq { order[j] : j \in 1 .. i - 1 }

=============================================================================
