--------------------------- MODULE ExecutionProofs ---------------------------
(* Proofs about the components that a run's execution goes through, a      *)
(* section for each, for every value of their constants.                   *)
EXTENDS FlowCompiler, FailoverQueue, SideEffectReceipt, EventPersister,
        EphemeralStores, SubsequenceProofs

-----------------------------------------------------------------------------
(* FlowCompiler                                                             *)

Edges == { e \in DocumentNodes \X (1 .. MaxEdges) : e[2] <= Len(adjacency[e[1]]) }
Ordered == { order[i] : i \in 1 .. Len(order) }
Queued == { ready[i] : i \in 1 .. Len(ready) }
SourcesOf(n) == { s \in DocumentNodes : \E i \in 1 .. Len(adjacency[s]) : adjacency[s][i] = n }

\* The edges into a node that are not yet counted off
Awaited(n) == { e \in Edges : e[1] \notin Ordered /\ adjacency[e[1]][e[2]] = n }

CompilerTyped ==
  /\ adjacency \in [DocumentNodes -> Seq(DocumentNodes)]
  /\ indegree \in [DocumentNodes -> Nat]
  /\ dependencies \in [DocumentNodes -> SUBSET DocumentNodes]
  /\ ready \in Seq(DocumentNodes) /\ order \in Seq(DocumentNodes)
  /\ compileStage \in { "edges", "order", "compiled", "cycle" }

EdgesOK ==
  /\ \A n \in DocumentNodes : Len(adjacency[n]) <= MaxEdges
  /\ EdgeCount <= MaxEdges
  /\ \A n \in DocumentNodes : dependencies[n] = SourcesOf(n)
  /\ \A n \in DocumentNodes : indegree[n] = Cardinality(Awaited(n))

QueueOK ==
  /\ compileStage = "edges" => ready = <<>> /\ order = <<>>
  /\ \A i, j \in 1 .. Len(ready) : ready[i] = ready[j] => i = j
  /\ \A i, j \in 1 .. Len(order) : order[i] = order[j] => i = j
  /\ Queued \cap Ordered = {}
  /\ compileStage # "edges" =>
       \A n \in DocumentNodes : n \in Queued \cup Ordered <=> indegree[n] = 0

OrderOK ==
  /\ \A i \in 1 .. Len(order) : \A d \in dependencies[order[i]] : \E j \in 1 .. i - 1 : order[j] = d
  /\ compileStage = "compiled" => Len(order) = NodeCount
  /\ compileStage = "cycle" => ready = <<>> /\ Len(order) # NodeCount

CompilerIInv == CompilerTyped /\ EdgesOK /\ QueueOK /\ OrderOK

\* The edges are finitely many.
LEMMA EdgesFinite ==
  ASSUME CompilerTyped
  PROVE  /\ IsFiniteSet(DocumentNodes) /\ IsFiniteSet(Edges)
         /\ \A n : IsFiniteSet(Awaited(n)) /\ Cardinality(Awaited(n)) <= Cardinality(Edges)
         /\ \A n : Cardinality(Awaited(n)) \in Nat
         /\ Cardinality(Edges) \in Nat /\ EdgeCount = Cardinality(Edges)
PROOF
  <1>1. IsFiniteSet(DocumentNodes) /\ IsFiniteSet(1 .. MaxEdges)
    BY CompilerAssumption, FS_Interval DEF DocumentNodes
  <1>2. IsFiniteSet(DocumentNodes \X (1 .. MaxEdges))
    BY <1>1, FS_Product
  <1>3. Edges \in SUBSET (DocumentNodes \X (1 .. MaxEdges))
    BY DEF Edges
  <1>4. IsFiniteSet(Edges)
    BY <1>2, <1>3, FS_Subset
  <1>5. ASSUME NEW n
        PROVE  IsFiniteSet(Awaited(n)) /\ Cardinality(Awaited(n)) <= Cardinality(Edges)
    <2>1. Awaited(n) \in SUBSET Edges
      BY DEF Awaited
    <2> QED BY <1>4, <2>1, FS_Subset
  <1>6. Cardinality(Edges) \in Nat /\ \A n : Cardinality(Awaited(n)) \in Nat
    BY <1>4, <1>5, FS_CardinalityType
  <1> QED BY <1>1, <1>4, <1>5, <1>6 DEF EdgeCount, Edges

\* An edge is a node and a place among its targets.
LEMMA EdgeIsPair ==
  ASSUME CompilerTyped, EdgesOK
  PROVE  /\ \A s \in DocumentNodes, i \in Nat : <<s, i>> \in Edges <=> i \in 1 .. Len(adjacency[s])
         /\ \A e \in Edges : e[1] \in DocumentNodes /\ e[2] \in 1 .. Len(adjacency[e[1]])
                             /\ e = <<e[1], e[2]>>
         /\ \A n : \A s \in DocumentNodes, i \in Nat :
              <<s, i>> \in Awaited(n) <=> s \notin Ordered /\ i \in 1 .. Len(adjacency[s]) /\ adjacency[s][i] = n
         /\ \A s \in DocumentNodes : Len(adjacency[s]) \in Nat
PROOF
  <1>1. \A s \in DocumentNodes : Len(adjacency[s]) \in Nat /\ Len(adjacency[s]) <= MaxEdges
    BY DEF CompilerTyped, EdgesOK
  <1>2. \A s \in DocumentNodes, i \in Nat : <<s, i>> \in Edges <=> i \in 1 .. Len(adjacency[s])
    BY <1>1, CompilerAssumption DEF Edges
  <1>3. \A e \in Edges : e[1] \in DocumentNodes /\ e[2] \in 1 .. Len(adjacency[e[1]])
                         /\ e = <<e[1], e[2]>>
    BY <1>1, CompilerAssumption DEF Edges
  <1>4. ASSUME NEW n, NEW s \in DocumentNodes, NEW i \in Nat
        PROVE  <<s, i>> \in Awaited(n)
                 <=> s \notin Ordered /\ i \in 1 .. Len(adjacency[s]) /\ adjacency[s][i] = n
    BY <1>2 DEF Awaited
  <1> QED BY <1>1, <1>2, <1>3, <1>4

\* A row of edges is as long as its places.
LEMMA RowCounted ==
  ASSUME NEW s, NEW places, IsFiniteSet(places)
  PROVE  /\ IsFiniteSet({s} \X places)
         /\ Cardinality({s} \X places) = Cardinality(places)
PROOF
  <1>1. IsFiniteSet({s}) /\ Cardinality({s}) = 1 /\ Cardinality(places) \in Nat
    BY FS_Singleton, FS_CardinalityType
  <1>2. Cardinality({s} \X places) = Cardinality({s}) * Cardinality(places)
    BY <1>1, FS_Product
  <1> QED BY <1>1, <1>2, FS_Product

\* A node waits for no edge exactly when all its sources are ordered.
LEMMA AwaitedSources ==
  ASSUME CompilerTyped, EdgesOK, NEW n \in DocumentNodes
  PROVE  indegree[n] = 0 <=> dependencies[n] \subseteq Ordered
PROOF
  <1>1. indegree[n] = 0 <=> Awaited(n) = {}
    BY EdgesFinite, FS_EmptySet DEF EdgesOK
  <1>2. \A s \in DocumentNodes : Len(adjacency[s]) \in Nat
    BY EdgeIsPair
  <1>3. ASSUME NEW e \in Awaited(n) PROVE e[1] \in dependencies[n] /\ e[1] \notin Ordered
    <2>1. e \in Edges /\ e[1] \notin Ordered /\ adjacency[e[1]][e[2]] = n
      BY DEF Awaited
    <2>2. e[1] \in DocumentNodes /\ e[2] \in 1 .. Len(adjacency[e[1]])
      BY <2>1, EdgeIsPair
    <2> QED BY <2>1, <2>2 DEF EdgesOK, SourcesOf
  <1>4. ASSUME NEW s \in dependencies[n], s \notin Ordered PROVE Awaited(n) # {}
    <2>1. s \in DocumentNodes /\ \E i \in 1 .. Len(adjacency[s]) : adjacency[s][i] = n
      BY DEF EdgesOK, SourcesOf
    <2>2. PICK i \in 1 .. Len(adjacency[s]) : adjacency[s][i] = n
      BY <2>1
    <2>3. <<s, i>> \in Awaited(n)
      BY <1>2, <1>4, <2>1, <2>2, EdgeIsPair
    <2> QED BY <2>3
  <1> QED BY <1>1, <1>3, <1>4

\* An edge is taken in.
LEMMA TakeEdgeKeeps ==
  ASSUME CompilerIInv, NEW source \in DocumentNodes, NEW goal \in DocumentNodes, TakeEdge(source, goal)
  PROVE  CompilerIInv'
PROOF
  <1> DEFINE next == Len(adjacency[source]) + 1
             new == <<source, next>>
  <1> USE DEF CompilerIInv
  <1>1. /\ adjacency \in [DocumentNodes -> Seq(DocumentNodes)] /\ Len(adjacency[source]) \in Nat
        /\ ready = <<>> /\ order = <<>> /\ compileStage = "edges" /\ EdgeCount < MaxEdges
        /\ dependencies' = [dependencies EXCEPT ![goal] = @ \cup {source}]
        /\ adjacency' = [adjacency EXCEPT ![source] = Append(@, goal)]
        /\ indegree' = [indegree EXCEPT ![goal] = @ + 1]
        /\ UNCHANGED <<ready, order, compileStage>>
    BY DEF TakeEdge, QueueOK, CompilerTyped
  <1>2. CompilerTyped'
    BY <1>1 DEF CompilerTyped
  <1>3. /\ Len(adjacency'[source]) = next /\ adjacency'[source][next] = goal
        /\ \A i \in 1 .. Len(adjacency[source]) : adjacency'[source][i] = adjacency[source][i]
        /\ \A s \in DocumentNodes : s # source => adjacency'[s] = adjacency[s]
    BY <1>1
  <1>4. Len(adjacency[source]) < MaxEdges
    <2> DEFINE l == Len(adjacency[source])
    <2>1. IsFiniteSet(1 .. l) /\ Cardinality(1 .. l) = l
      <3>1. l \in Nat
        BY <1>1
      <3> HIDE DEF l
      <3>2. /\ IsFiniteSet(1 .. l)
            /\ Cardinality(1 .. l) = IF 1 > l THEN 0 ELSE l - 1 + 1
        BY <3>1, FS_Interval
      <3> QED BY <3>1, <3>2
    <2>2. ({source} \X (1 .. Len(adjacency[source]))) \in SUBSET Edges
      BY EdgeIsPair, <1>1
    <2>3. Cardinality({source} \X (1 .. Len(adjacency[source]))) <= Cardinality(Edges)
      BY <2>2, EdgesFinite, FS_Subset
    <2>4. Cardinality({source} \X (1 .. l)) = l
      <3> HIDE DEF l
      <3> QED BY <2>1, RowCounted
    <2>5. l \in Nat /\ l <= Cardinality(Edges) /\ Cardinality(Edges) < MaxEdges
      BY <1>1, <2>3, <2>4, EdgesFinite
    <2> QED BY <2>5, EdgesFinite, CompilerAssumption
  <1>5. \A n \in DocumentNodes : Len(adjacency'[n]) <= MaxEdges
    BY <1>1, <1>3, <1>4, CompilerAssumption DEF EdgesOK
  <1>6. Edges' = Edges \cup {new} /\ new \notin Edges
    <2>1. next \in 1 .. MaxEdges /\ next > Len(adjacency[source])
      BY <1>1, <1>4, CompilerAssumption
    <2>2. Edges' = { e \in DocumentNodes \X (1 .. MaxEdges) : e[2] <= Len(adjacency'[e[1]]) }
      BY DEF Edges
    <2>3. ASSUME NEW e PROVE e \in Edges' <=> e \in Edges \cup {new}
      <3>1. CASE e \notin DocumentNodes \X (1 .. MaxEdges)
        BY <2>1, <2>2, <3>1 DEF Edges
      <3>2. CASE e \in DocumentNodes \X (1 .. MaxEdges)
        <4>1. PICK s \in DocumentNodes, i \in 1 .. MaxEdges : e = <<s, i>>
          BY <3>2
        <4>2. e \in Edges' <=> i <= Len(adjacency'[s])
          BY <2>2, <4>1
        <4>3. e \in Edges <=> i <= Len(adjacency[s])
          BY <4>1 DEF Edges
        <4>4. e = new <=> s = source /\ i = next
          BY <4>1
        <4>5. CASE s = source
          <5>1. i \in Nat
            BY CompilerAssumption
          <5> QED BY <1>1, <1>3, <4>2, <4>3, <4>4, <4>5, <5>1
        <4>6. CASE s # source
          BY <1>3, <4>2, <4>3, <4>4, <4>6
        <4> QED BY <4>5, <4>6
      <3> QED BY <3>1, <3>2
    <2>4. new \notin Edges
      BY <1>1, <2>1 DEF Edges
    <2> HIDE DEF new
    <2> QED BY <2>3, <2>4
  <1>7. EdgeCount' <= MaxEdges
    <2>1. EdgeCount' = Cardinality(Edges')
      BY DEF EdgeCount, Edges
    <2>2. Cardinality(Edges') = Cardinality(Edges) + 1
      BY <1>6, EdgesFinite, FS_AddElement
    <2> QED BY <1>1, <2>1, <2>2, EdgesFinite, CompilerAssumption
  <1>8. Ordered = {} /\ Ordered' = {}
    BY <1>1 DEF Ordered
  <1>9. \A n : Awaited(n)' = IF n = goal THEN Awaited(n) \cup {new} ELSE Awaited(n)
    <2>1. ASSUME NEW n PROVE Awaited(n)' = { e \in Edges' : adjacency'[e[1]][e[2]] = n }
      BY <1>8 DEF Awaited
    <2>2. ASSUME NEW n PROVE Awaited(n) = { e \in Edges : adjacency[e[1]][e[2]] = n }
      BY <1>8 DEF Awaited
    <2>3. \A e \in Edges : adjacency'[e[1]][e[2]] = adjacency[e[1]][e[2]]
      BY <1>3, EdgeIsPair
    <2>4. adjacency'[new[1]][new[2]] = goal
      BY <1>3
    <2> HIDE DEF new
    <2> QED BY <1>6, <2>1, <2>2, <2>3, <2>4
  <1>10. \A n \in DocumentNodes : indegree'[n] = Cardinality(Awaited(n))'
    <2> SUFFICES ASSUME NEW n \in DocumentNodes PROVE indegree'[n] = Cardinality(Awaited(n)')
      OBVIOUS
    <2>1. CASE n = goal
      <3>1. Cardinality(Awaited(n)') = Cardinality(Awaited(n)) + 1
        <4>1. new \notin Awaited(n)
          BY <1>6 DEF Awaited
        <4> HIDE DEF new
        <4> QED BY <1>9, <2>1, <4>1, EdgesFinite, FS_AddElement
      <3> QED BY <1>1, <2>1, <3>1 DEF EdgesOK, CompilerTyped
    <2>2. CASE n # goal
      BY <1>1, <1>9, <2>2 DEF EdgesOK, CompilerTyped
    <2> QED BY <2>1, <2>2
  <1>11. \A n \in DocumentNodes : dependencies'[n] = SourcesOf(n)'
    <2> SUFFICES ASSUME NEW n \in DocumentNodes, NEW s
                 PROVE  s \in dependencies'[n] <=> s \in SourcesOf(n)'
      OBVIOUS
    <2>1. s \in SourcesOf(n)' <=> s \in DocumentNodes
             /\ \E i \in 1 .. Len(adjacency'[s]) : adjacency'[s][i] = n
      BY DEF SourcesOf
    <2>2. s \in SourcesOf(n) <=> s \in DocumentNodes
             /\ \E i \in 1 .. Len(adjacency[s]) : adjacency[s][i] = n
      BY DEF SourcesOf
    <2>3. s \in dependencies'[n] <=> s \in dependencies[n] \/ (n = goal /\ s = source)
      BY <1>1 DEF CompilerTyped
    <2>4. CASE s = source
      <3>1. 1 .. Len(adjacency'[source]) = (1 .. Len(adjacency[source])) \cup {next}
        BY <1>1, <1>3
      <3>2. (\E i \in 1 .. Len(adjacency'[source]) : adjacency'[source][i] = n)
              <=> (\E i \in 1 .. Len(adjacency[source]) : adjacency[source][i] = n) \/ n = goal
        <4> HIDE DEF next
        <4> QED BY <1>3, <3>1
      <3> QED BY <2>1, <2>2, <2>3, <2>4, <3>2 DEF EdgesOK
    <2>5. CASE s # source
      BY <1>3, <2>1, <2>2, <2>3, <2>5 DEF EdgesOK
    <2> QED BY <2>4, <2>5
  <1>12. EdgesOK'
    BY <1>5, <1>7, <1>10, <1>11 DEF EdgesOK
  <1>13. QueueOK'
    BY <1>1 DEF QueueOK, Queued, Ordered
  <1>14. OrderOK'
    BY <1>1 DEF OrderOK
  <1> QED BY <1>2, <1>12, <1>13, <1>14

\* The queue is seeded with the nodes that wait for no edge.
LEMMA SeedQueueKeeps == ASSUME CompilerIInv, SeedQueue PROVE CompilerIInv'
PROOF
  <1> DEFINE free == { n \in DocumentNodes : indegree[n] = 0 }
             nodes == [n \in DocumentNodes |-> n]
  <1> USE DEF CompilerIInv
  <1>1. /\ order = <<>> /\ compileStage' = "order" /\ ready' = Retained(nodes, free)
        /\ UNCHANGED <<adjacency, indegree, dependencies, order>>
    BY DEF SeedQueue, QueueOK
  <1>2. free \subseteq Nat /\ IsFiniteSet(free) /\ \A n \in free : nodes[n] = n /\ nodes[n] \in DocumentNodes
    <2>1. free \in SUBSET DocumentNodes /\ DocumentNodes \subseteq Nat
      BY DEF DocumentNodes
    <2> QED BY <2>1, EdgesFinite, FS_Subset
  <1>3. free \subseteq DocumentNodes /\ \A n \in DocumentNodes : n \in free <=> indegree[n] = 0
    OBVIOUS
  <1> HIDE DEF free, nodes
  <1>4. ready' \in Seq(DocumentNodes) /\ Len(ready') = Cardinality(free)
    BY <1>1, <1>2, RetainedTyped
  <1>5. \A k \in 1 .. Len(ready') : Position(free, k) \in free /\ ready'[k] = Position(free, k)
    <2>1. \A k \in 1 .. Cardinality(free) : Position(free, k) \in free
      BY <1>2, PositionOfRank
    <2>2. \A k \in 1 .. Cardinality(free) : Retained(nodes, free)[k] = nodes[Position(free, k)]
      BY DEF Retained
    <2> QED BY <1>1, <1>2, <1>4, <2>1, <2>2
  <1>6. \A k, l \in 1 .. Len(ready') : ready'[k] = ready'[l] => k = l
    <2>1. \A k, l \in 1 .. Cardinality(free) : Position(free, k) = Position(free, l) => k = l
      BY <1>2, PositionOfRank
    <2> QED BY <1>4, <1>5, <2>1
  <1>7. Queued' = free
    <2>1. \A i \in free : \E k \in 1 .. Cardinality(free) : Position(free, k) = i
      <3>1. \A i \in free : Rank(free, i) \in 1 .. Cardinality(free)
        BY <1>2, RankGrows
      <3>2. \A i \in free : Position(free, Rank(free, i)) = i
        BY <1>2, PositionOfRank
      <3> QED BY <3>1, <3>2
    <2> QED BY <1>4, <1>5, <2>1 DEF Queued
  <1>8. Ordered' = {} /\ Ordered = {}
    BY <1>1 DEF Ordered
  <1>9. CompilerTyped'
    BY <1>1, <1>4 DEF CompilerTyped
  <1>10. EdgesOK'
    BY <1>1, <1>8 DEF EdgesOK, EdgeCount, SourcesOf, Awaited, Edges
  <1>11. QueueOK'
    BY <1>1, <1>3, <1>6, <1>7, <1>8 DEF QueueOK
  <1>12. OrderOK'
    BY <1>1 DEF OrderOK
  <1> QED BY <1>9, <1>10, <1>11, <1>12

\* The neighbours of the node at the head of the queue that wait for no other
\* node, each once.
LEMMA NeighboursAreFreed ==
  ASSUME CompilerIInv, NEW node \in DocumentNodes
  PROVE  /\ Neighbours(node) \in Seq(DocumentNodes)
         /\ \A i, j \in 1 .. Len(Neighbours(node)) : Neighbours(node)[i] = Neighbours(node)[j] => i = j
         /\ \A n : (\E i \in 1 .. Len(Neighbours(node)) : Neighbours(node)[i] = n)
                  <=> /\ \E i \in 1 .. Len(adjacency[node]) : adjacency[node][i] = n
                      /\ indegree[n] = EdgesTo(n, adjacency[node])
PROOF
  <1> DEFINE goals == adjacency[node]
             last(i) == \A j \in i + 1 .. Len(goals) : goals[j] # goals[i]
             freed == { i \in 1 .. Len(goals) :
                          last(i) /\ indegree[goals[i]] = EdgesTo(goals[i], goals) }
  <1>1. goals \in Seq(DocumentNodes) /\ Len(goals) \in Nat
        /\ \A i \in 1 .. Len(goals) : goals[i] \in DocumentNodes
    BY DEF CompilerIInv, CompilerTyped
  <1>2. Neighbours(node) = Retained(goals, freed)
    BY DEF Neighbours
  <1> HIDE DEF goals
  <1>3. freed \subseteq Nat /\ IsFiniteSet(freed) /\ \A i \in freed : goals[i] \in DocumentNodes
    <2>1. freed \in SUBSET (1 .. Len(goals)) /\ IsFiniteSet(1 .. Len(goals))
      BY <1>1, FS_Interval
    <2> QED BY <1>1, <2>1, FS_Subset
  <1>4. \A i, j \in freed : goals[i] = goals[j] => i = j
    <2>1. ASSUME NEW i \in freed, NEW j \in freed, i < j PROVE goals[i] # goals[j]
      <3>1. j \in i + 1 .. Len(goals)
        BY <1>1, <2>1
      <3> QED BY <2>1, <3>1
    <2>2. \A i, j \in freed : i < j \/ j < i \/ i = j
      BY <1>3
    <2> HIDE DEF freed
    <2> QED BY <2>1, <2>2
  <1>5. ASSUME NEW n
        PROVE  (\E i \in freed : goals[i] = n)
                 <=> (\E i \in 1 .. Len(goals) : goals[i] = n) /\ indegree[n] = EdgesTo(n, goals)
    <2>1. ASSUME NEW k \in 1 .. Len(goals), goals[k] = n, indegree[n] = EdgesTo(n, goals)
          PROVE  \E i \in freed : goals[i] = n
      <3> DEFINE A == { i \in 1 .. Len(goals) : goals[i] = n }
      <3>1. A \in SUBSET (0 .. Len(goals)) /\ A # {}
        BY <1>1, <2>1
      <3>2. \E m \in A : \A i \in A : i <= m
        <4> HIDE DEF A
        <4> QED BY <1>1, <3>1, GreatestOfNaturals
      <3>3. PICK m \in A : \A i \in A : i <= m
        BY <3>2
      <3>4. last(m)
        <4>1. ASSUME NEW j \in m + 1 .. Len(goals), goals[j] = goals[m] PROVE FALSE
          <5>1. j \in A /\ j > m
            BY <1>1, <3>3, <4>1
          <5> QED BY <1>1, <3>3, <5>1
        <4> QED BY <4>1
      <3>5. m \in freed /\ goals[m] = n
        BY <2>1, <3>3, <3>4
      <3> QED BY <3>5
    <2>2. \A i \in freed : i \in 1 .. Len(goals) /\ indegree[goals[i]] = EdgesTo(goals[i], goals)
      OBVIOUS
    <2> HIDE DEF freed
    <2> QED BY <2>1, <2>2
  <1> HIDE DEF freed
  <1> DEFINE r == Retained(goals, freed)
  <1>6. r \in Seq(DocumentNodes) /\ Len(r) = Cardinality(freed)
    BY <1>3, RetainedTyped
  <1>7. \A k \in 1 .. Cardinality(freed) : Position(freed, k) \in freed
    BY <1>3, PositionOfRank
  <1>8. \A k \in 1 .. Cardinality(freed) : r[k] = goals[Position(freed, k)]
    BY DEF Retained
  <1>9. \A i \in freed : \E k \in 1 .. Cardinality(freed) : r[k] = goals[i]
    <2>1. \A i \in freed : Rank(freed, i) \in 1 .. Cardinality(freed)
      BY <1>3, RankGrows
    <2>2. \A i \in freed : Position(freed, Rank(freed, i)) = i
      BY <1>3, PositionOfRank
    <2> HIDE DEF r
    <2> QED BY <1>8, <2>1, <2>2
  <1>10. \A k, l \in 1 .. Cardinality(freed) : Position(freed, k) = Position(freed, l) => k = l
    BY <1>3, PositionOfRank
  <1> HIDE DEF r
  <1>11. \A i, j \in 1 .. Len(r) : r[i] = r[j] => i = j
    BY <1>4, <1>6, <1>7, <1>8, <1>10
  <1>12. ASSUME NEW n PROVE (\E i \in 1 .. Len(r) : r[i] = n) <=> (\E i \in freed : goals[i] = n)
    BY <1>6, <1>7, <1>8, <1>9
  <1>13. Neighbours(node) = r
    BY <1>2 DEF r
  <1> QED BY <1>5, <1>6, <1>11, <1>12, <1>13, ZenonT(60) DEF goals

Entries(q) == { q[i] : i \in 1 .. Len(q) }
OnceIn(q) == \A i, j \in 1 .. Len(q) : q[i] = q[j] => i = j

\* The head leaves a queue and others join it at the end.
LEMMA QueueMoves ==
  ASSUME NEW q \in Seq(DocumentNodes), NEW added \in Seq(DocumentNodes), q # <<>>,
         OnceIn(q), OnceIn(added), Entries(q) \cap Entries(added) = {}, NEW t, t = Tail(q) \o added
  PROVE  /\ t \in Seq(DocumentNodes) /\ OnceIn(t)
         /\ Entries(t) = (Entries(q) \ {Head(q)}) \cup Entries(added)
PROOF
  <1> DEFINE k == Len(q)
             l == Len(added)
  <1>1. k \in Nat /\ k >= 1 /\ l \in Nat /\ Head(q) = q[1] /\ q[1] \in DocumentNodes
    OBVIOUS
  <1>2. t \in Seq(DocumentNodes) /\ Len(t) = k - 1 + l
    BY <1>1
  <1>3. \A i \in 1 .. k - 1 : t[i] = q[i + 1]
    BY <1>1
  <1>4. \A i \in 1 .. l : t[k - 1 + i] = added[i]
    BY <1>1
  <1> HIDE DEF k, l
  <1>10. /\ \A i, j \in 1 .. Len(q) : q[i] = q[j] => i = j
         /\ \A i, j \in 1 .. Len(added) : added[i] = added[j] => i = j
    BY DEF OnceIn
  <1>11. \A i \in 1 .. Len(q), j \in 1 .. Len(added) : q[i] # added[j]
    BY DEF Entries
  <1>5. \A i \in 1 .. Len(t) :
          \/ i \in 1 .. k - 1
          \/ i - (k - 1) \in 1 .. l /\ i = k - 1 + (i - (k - 1))
    BY <1>1, <1>2
  <1>6. ASSUME NEW i \in 1 .. Len(t), NEW j \in 1 .. Len(t), t[i] = t[j]
        PROVE  i = j
    <2>1. CASE i \in 1 .. k - 1 /\ j \in 1 .. k - 1
      <3>1. i + 1 \in 1 .. Len(q) /\ j + 1 \in 1 .. Len(q)
        BY <1>1, <2>1 DEF k
      <3> QED BY <1>1, <1>3, <1>6, <1>10, <2>1, <3>1
    <2>2. CASE i \in 1 .. k - 1 /\ j \notin 1 .. k - 1
      <3>1. i + 1 \in 1 .. Len(q) /\ t[i] = q[i + 1]
        BY <1>1, <1>3, <2>2 DEF k
      <3>2. j - (k - 1) \in 1 .. Len(added) /\ t[j] = added[j - (k - 1)]
        BY <1>4, <1>5, <2>2 DEF l
      <3> QED BY <1>6, <1>11, <3>1, <3>2
    <2>3. CASE i \notin 1 .. k - 1 /\ j \in 1 .. k - 1
      <3>1. j + 1 \in 1 .. Len(q) /\ t[j] = q[j + 1]
        BY <1>1, <1>3, <2>3 DEF k
      <3>2. i - (k - 1) \in 1 .. Len(added) /\ t[i] = added[i - (k - 1)]
        BY <1>4, <1>5, <2>3 DEF l
      <3> QED BY <1>6, <1>11, <3>1, <3>2
    <2>4. CASE i \notin 1 .. k - 1 /\ j \notin 1 .. k - 1
      <3>1. j - (k - 1) \in 1 .. Len(added) /\ t[j] = added[j - (k - 1)]
        BY <1>4, <1>5, <2>4 DEF l
      <3>2. i - (k - 1) \in 1 .. Len(added) /\ t[i] = added[i - (k - 1)]
        BY <1>4, <1>5, <2>4 DEF l
      <3>3. i - (k - 1) = j - (k - 1)
        BY <1>6, <1>10, <3>1, <3>2
      <3> QED BY <1>1, <1>2, <3>3
    <2> QED BY <2>1, <2>2, <2>3, <2>4
  <1>7. ASSUME NEW n, NEW i \in 1 .. Len(t), t[i] = n
        PROVE  \/ n # Head(q) /\ \E j \in 1 .. Len(q) : q[j] = n
               \/ \E j \in 1 .. Len(added) : added[j] = n
    <2>1. CASE i \in 1 .. k - 1
      <3>1. i + 1 \in 1 .. Len(q) /\ 1 \in 1 .. Len(q) /\ i + 1 # 1 /\ t[i] = q[i + 1]
        BY <1>1, <1>3, <2>1 DEF k
      <3> QED BY <1>1, <1>7, <1>10, <3>1
    <2>2. CASE i \notin 1 .. k - 1
      BY <1>4, <1>5, <1>7, <2>2 DEF l
    <2> QED BY <2>1, <2>2
  <1>8. ASSUME NEW n, NEW i \in 1 .. Len(q), q[i] = n, n # Head(q)
        PROVE  \E j \in 1 .. Len(t) : t[j] = n
    <2>1. i - 1 \in 1 .. k - 1 /\ i - 1 \in 1 .. Len(t) /\ i - 1 + 1 = i
      BY <1>1, <1>2, <1>8 DEF k
    <2> QED BY <1>3, <1>8, <2>1
  <1>9. ASSUME NEW n, NEW i \in 1 .. Len(added), added[i] = n
        PROVE  \E j \in 1 .. Len(t) : t[j] = n
    <2>1. i \in 1 .. l /\ k - 1 + i \in 1 .. Len(t)
      BY <1>1, <1>2 DEF l
    <2> QED BY <1>4, <1>9, <2>1
  <1>12. OnceIn(t)
    BY <1>6 DEF OnceIn
  <1>13. \A n : n \in Entries(t) <=> n \in (Entries(q) \ {Head(q)}) \cup Entries(added)
    <2>1. /\ \A n : n \in Entries(t) <=> \E i \in 1 .. Len(t) : t[i] = n
          /\ \A n : n \in Entries(q) <=> \E i \in 1 .. Len(q) : q[i] = n
          /\ \A n : n \in Entries(added) <=> \E i \in 1 .. Len(added) : added[i] = n
      BY DEF Entries
    <2>2. \A n : n \in Entries(t) => n \in (Entries(q) \ {Head(q)}) \cup Entries(added)
      BY <1>7, <2>1, Zenon
    <2>3. \A n : n \in Entries(q) /\ n # Head(q) => n \in Entries(t)
      BY <1>8, <2>1, Zenon
    <2>4. \A n : n \in Entries(added) => n \in Entries(t)
      BY <1>9, <2>1, Zenon
    <2> QED BY <2>2, <2>3, <2>4
  <1> QED BY <1>2, <1>12, <1>13

\* A node is ordered: its edges are counted off and its neighbours freed.
LEMMA OrderNodeKeeps == ASSUME CompilerIInv, OrderNode PROVE CompilerIInv'
PROOF
  <1> DEFINE node == Head(ready)
             goals == adjacency[node]
             added == Neighbours(node)
             Places(n) == { i \in 1 .. Len(goals) : goals[i] = n }
             Row(n) == {node} \X Places(n)
  <1>1. /\ compileStage = "order" /\ ready # <<>> /\ order' = Append(order, node)
        /\ indegree' = [n \in DocumentNodes |-> indegree[n] - EdgesTo(n, goals)]
        /\ ready' = Tail(ready) \o added
        /\ UNCHANGED <<adjacency, dependencies, compileStage>>
    BY DEF OrderNode
  <1>2. /\ ready \in Seq(DocumentNodes) /\ order \in Seq(DocumentNodes)
        /\ indegree \in [DocumentNodes -> Nat] /\ Len(ready) \in Nat
        /\ adjacency \in [DocumentNodes -> Seq(DocumentNodes)]
    BY DEF CompilerIInv, CompilerTyped
  <1>3. node \in Queued /\ node \in DocumentNodes
    <2>1. node = ready[1] /\ 1 \in 1 .. Len(ready) /\ ready[1] \in DocumentNodes
      BY <1>1, <1>2
    <2> QED BY <2>1 DEF Queued
  <1> HIDE DEF node
  <1>4. indegree[node] = 0 /\ node \notin Ordered
    BY <1>1, <1>3 DEF CompilerIInv, QueueOK
  <1>5. dependencies[node] \subseteq Ordered
    BY <1>3, <1>4, AwaitedSources DEF CompilerIInv
  <1>6. goals \in Seq(DocumentNodes) /\ Len(goals) \in Nat
    BY <1>2, <1>3
  <1>7. \A n : /\ IsFiniteSet(Places(n)) /\ Cardinality(Places(n)) = EdgesTo(n, goals)
               /\ EdgesTo(n, goals) \in Nat
               /\ EdgesTo(n, goals) = 0 <=> Places(n) = {}
    <2> SUFFICES ASSUME NEW n
                 PROVE  /\ IsFiniteSet(Places(n)) /\ Cardinality(Places(n)) = EdgesTo(n, goals)
                        /\ EdgesTo(n, goals) \in Nat
                        /\ EdgesTo(n, goals) = 0 <=> Places(n) = {}
      OBVIOUS
    <2>1. Places(n) \in SUBSET (1 .. Len(goals)) /\ IsFiniteSet(1 .. Len(goals))
      BY <1>6, FS_Interval
    <2>2. IsFiniteSet(Places(n)) /\ EdgesTo(n, goals) = Cardinality(Places(n))
      BY <2>1, FS_Subset DEF EdgesTo
    <2> HIDE DEF Places
    <2> QED BY <2>2, FS_CardinalityType, FS_EmptySet
  <1>8. \A n : IsFiniteSet(Row(n)) /\ Cardinality(Row(n)) = EdgesTo(n, goals)
    <2> HIDE DEF Places
    <2> QED BY <1>7, RowCounted
  <1>9. Ordered' = Ordered \cup {node}
    <2>1. /\ Len(order') = Len(order) + 1 /\ Len(order) \in Nat /\ order'[Len(order) + 1] = node
          /\ \A i \in 1 .. Len(order) : order'[i] = order[i]
      BY <1>1, <1>2
    <2>2. 1 .. Len(order') = (1 .. Len(order)) \cup {Len(order) + 1}
      BY <2>1
    <2> QED BY <2>1, <2>2 DEF Ordered
  <1>10. \A n : Row(n) \subseteq Awaited(n) /\ Awaited(n)' = Awaited(n) \ Row(n)
    <2> SUFFICES ASSUME NEW n
                 PROVE  Row(n) \subseteq Awaited(n) /\ Awaited(n)' = Awaited(n) \ Row(n)
      OBVIOUS
    <2>1. \A i \in Places(n) : <<node, i>> \in Awaited(n)
      BY <1>3, <1>4, <1>6, EdgeIsPair DEF CompilerIInv
    <2>2. Edges' = Edges
      BY <1>1 DEF Edges
    <2>3. ASSUME NEW e PROVE e \in Awaited(n)' <=> e \in Awaited(n) /\ e[1] # node
      BY <1>1, <1>9, <2>2 DEF Awaited
    <2>4. ASSUME NEW e \in Awaited(n) PROVE e[1] = node <=> e \in Row(n)
      <3>1. e \in Edges /\ adjacency[e[1]][e[2]] = n
        BY DEF Awaited
      <3>2. e = <<e[1], e[2]>> /\ e[2] \in 1 .. Len(adjacency[e[1]])
        BY <3>1, EdgeIsPair DEF CompilerIInv
      <3>3. e[1] = node => e[2] \in Places(n)
        BY <3>1, <3>2
      <3> HIDE DEF Places
      <3> QED BY <3>2, <3>3
    <2>5. Row(n) \subseteq Awaited(n)
      BY <2>1
    <2> HIDE DEF Places
    <2> QED BY <2>3, <2>4, <2>5
  <1>11. \A n \in DocumentNodes :
           /\ EdgesTo(n, goals) <= indegree[n]
           /\ indegree'[n] = indegree[n] - EdgesTo(n, goals)
           /\ indegree'[n] = Cardinality(Awaited(n))'
    <2> SUFFICES ASSUME NEW n \in DocumentNodes
                 PROVE  /\ EdgesTo(n, goals) <= indegree[n]
                        /\ indegree'[n] = indegree[n] - EdgesTo(n, goals)
                        /\ indegree'[n] = Cardinality(Awaited(n)')
      OBVIOUS
    <2>1. indegree'[n] = indegree[n] - EdgesTo(n, goals) /\ indegree[n] = Cardinality(Awaited(n))
      BY <1>1 DEF CompilerIInv, EdgesOK
    <2>2. IsFiniteSet(Awaited(n)) /\ Awaited(n) \cap Row(n) = Row(n)
      BY <1>10, EdgesFinite DEF CompilerIInv
    <2> HIDE DEF Row
    <2>3. Cardinality(Awaited(n)') = Cardinality(Awaited(n)) - EdgesTo(n, goals)
      <3>1. Awaited(n)' = Awaited(n) \ Row(n) /\ Cardinality(Row(n)) = EdgesTo(n, goals)
        BY <1>8, <1>10
      <3>2. Cardinality(Awaited(n) \ Row(n)) = Cardinality(Awaited(n)) - Cardinality(Awaited(n) \cap Row(n))
        BY <2>2, FS_Difference
      <3> QED BY <2>2, <3>1, <3>2
    <2>4. EdgesTo(n, goals) <= Cardinality(Awaited(n))
      <3>1. Row(n) \in SUBSET Awaited(n)
        BY <1>10
      <3> QED BY <1>8, <2>2, <3>1, FS_Subset
    <2> QED BY <2>1, <2>3, <2>4
  <1> HIDE DEF Row
  <1>12. \A n \in DocumentNodes : EdgesTo(n, goals) > 0 <=> \E i \in 1 .. Len(goals) : goals[i] = n
    <2> SUFFICES ASSUME NEW n \in DocumentNodes
                 PROVE  EdgesTo(n, goals) > 0 <=> \E i \in 1 .. Len(goals) : goals[i] = n
      OBVIOUS
    <2>1. EdgesTo(n, goals) > 0 <=> Places(n) # {}
      <3> HIDE DEF Places, goals
      <3> QED BY <1>7
    <2>2. Places(n) # {} <=> \E i \in 1 .. Len(goals) : goals[i] = n
      <3> HIDE DEF goals
      <3> QED OBVIOUS
    <2> QED BY <2>1, <2>2
  <1> HIDE DEF Places
  <1>13. /\ added \in Seq(DocumentNodes)
         /\ \A i, j \in 1 .. Len(added) : added[i] = added[j] => i = j
         /\ \A n : (\E i \in 1 .. Len(added) : added[i] = n)
              <=> /\ \E i \in 1 .. Len(goals) : goals[i] = n
                  /\ indegree[n] = EdgesTo(n, goals)
    BY <1>3, NeighboursAreFreed
  <1>14. \A i \in 1 .. Len(added) :
           /\ added[i] \in DocumentNodes /\ indegree[added[i]] > 0
           /\ added[i] \notin Queued \cup Ordered
    <2> SUFFICES ASSUME NEW i \in 1 .. Len(added)
                 PROVE  /\ added[i] \in DocumentNodes /\ indegree[added[i]] > 0
                        /\ added[i] \notin Queued \cup Ordered
      OBVIOUS
    <2>1. added[i] \in DocumentNodes
      <3> HIDE DEF added
      <3> QED BY <1>13
    <2>2. indegree[added[i]] = EdgesTo(added[i], goals) /\ EdgesTo(added[i], goals) > 0
      BY <1>12, <1>13, <2>1
    <2> QED BY <1>1, <2>1, <2>2 DEF CompilerIInv, QueueOK
  <1>15. /\ ready' \in Seq(DocumentNodes)
         /\ \A i, j \in 1 .. Len(ready') : ready'[i] = ready'[j] => i = j
         /\ \A n : n \in Queued'
              <=> \/ n # node /\ n \in Queued
                  \/ \E i \in 1 .. Len(added) : added[i] = n
    <2>1. Entries(ready) \cap Entries(added) = {}
      BY <1>14 DEF Queued, Entries
    <2>2. OnceIn(ready)
      BY DEF CompilerIInv, QueueOK, OnceIn
    <2>3. ready \in Seq(DocumentNodes) /\ ready # <<>> /\ added \in Seq(DocumentNodes)
      BY <1>1, <1>2, <1>13
    <2>4. OnceIn(added)
      BY <1>13 DEF OnceIn
    <2>5. ready' = Tail(ready) \o added
      BY <1>1
    <2> HIDE DEF added
    <2>6. /\ ready' \in Seq(DocumentNodes) /\ OnceIn(ready')
          /\ Entries(ready') = (Entries(ready) \ {Head(ready)}) \cup Entries(added)
      BY <2>1, <2>2, <2>3, <2>4, <2>5, QueueMoves
    <2>7. Queued = Entries(ready) /\ Queued' = Entries(ready')
      BY DEF Queued, Entries
    <2>8. \A n : n \in Queued' <=> (n # node /\ n \in Queued) \/ n \in Entries(added)
      BY <2>6, <2>7 DEF node
    <2> QED BY <2>6, <2>8 DEF OnceIn, Entries
  <1>16. CompilerTyped'
    <2>1. order' \in Seq(DocumentNodes)
      BY <1>1, <1>2, <1>3
    <2>2. indegree' \in [DocumentNodes -> Nat]
      <3>1. \A n \in DocumentNodes : indegree'[n] \in Nat
        BY <1>2, <1>7, <1>11
      <3>2. indegree' = [n \in DocumentNodes |-> indegree'[n]]
        BY <1>1
      <3> QED BY <3>1, <3>2
    <2> HIDE DEF goals, added
    <2> QED BY <1>1, <1>15, <2>1, <2>2 DEF CompilerIInv, CompilerTyped
  <1>17. EdgesOK'
    BY <1>1, <1>11 DEF CompilerIInv, EdgesOK, EdgeCount, SourcesOf
  <1>18. QueueOK'
    <2>1. \A i, j \in 1 .. Len(order') : order'[i] = order'[j] => i = j
      <3>1. /\ Len(order') = Len(order) + 1 /\ Len(order) \in Nat /\ order'[Len(order) + 1] = node
            /\ \A i \in 1 .. Len(order) : order'[i] = order[i] /\ order[i] # node
        BY <1>1, <1>2, <1>4, SMTT(30) DEF Ordered
      <3>2. 1 .. Len(order') = (1 .. Len(order)) \cup {Len(order) + 1}
        BY <3>1
      <3> QED BY <3>1, <3>2 DEF CompilerIInv, QueueOK
    <2>2. Queued' \cap Ordered' = {}
      <3>1. Queued \cap Ordered = {}
        BY DEF CompilerIInv, QueueOK
      <3>2. \A i \in 1 .. Len(added) : added[i] # node /\ added[i] \notin Ordered
        BY <1>3, <1>14
      <3> HIDE DEF added
      <3> QED BY <1>9, <1>15, <3>1, <3>2
    <2>3. ASSUME NEW n \in DocumentNodes
          PROVE  n \in Queued' \cup Ordered' <=> indegree'[n] = 0
      <3>1. n \in Queued \cup Ordered <=> indegree[n] = 0
        BY <1>1 DEF CompilerIInv, QueueOK
      <3>2. n \in Queued' \cup Ordered'
              <=> n \in Queued \cup Ordered \/ \E i \in 1 .. Len(added) : added[i] = n
        <4> HIDE DEF added
        <4> QED BY <1>3, <1>9, <1>15
      <3>3. (\E i \in 1 .. Len(added) : added[i] = n)
              <=> EdgesTo(n, goals) > 0 /\ indegree[n] = EdgesTo(n, goals)
        BY <1>12, <1>13
      <3>4. /\ EdgesTo(n, goals) <= indegree[n] /\ EdgesTo(n, goals) \in Nat /\ indegree[n] \in Nat
            /\ indegree'[n] = indegree[n] - EdgesTo(n, goals)
        BY <1>2, <1>7, <1>11
      <3> HIDE DEF added, goals
      <3> QED BY <3>1, <3>2, <3>3, <3>4
    <2>4. compileStage' = "order"
      BY <1>1
    <2> HIDE DEF added
    <2> QED BY <1>15, <2>1, <2>2, <2>3, <2>4 DEF QueueOK
  <1>19. OrderOK'
    <2> SUFFICES ASSUME NEW i \in 1 .. Len(order'), NEW d \in dependencies'[order'[i]]
                 PROVE  \E j \in 1 .. i - 1 : order'[j] = d
      BY <1>1 DEF OrderOK
    <2>1. /\ Len(order') = Len(order) + 1 /\ Len(order) \in Nat /\ order'[Len(order) + 1] = node
          /\ \A j \in 1 .. Len(order) : order'[j] = order[j]
      BY <1>1, <1>2
    <2>2. CASE i = Len(order) + 1
      <3>1. d \in Ordered
        BY <1>1, <1>5, <2>1, <2>2
      <3>2. PICK j \in 1 .. Len(order) : order[j] = d
        BY <3>1 DEF Ordered
      <3>3. j \in 1 .. i - 1
        BY <2>1, <2>2
      <3> QED BY <2>1, <3>2, <3>3
    <2>3. CASE i # Len(order) + 1
      <3>1. i \in 1 .. Len(order) /\ order'[i] = order[i] /\ \A j \in 1 .. i - 1 : j \in 1 .. Len(order)
        BY <2>1, <2>3
      <3>2. d \in dependencies[order[i]]
        BY <1>1, <3>1
      <3>3. PICK j \in 1 .. i - 1 : order[j] = d
        BY <3>1, <3>2 DEF CompilerIInv, OrderOK
      <3> QED BY <2>1, <3>1, <3>3
    <2> QED BY <2>2, <2>3
  <1> QED BY <1>16, <1>17, <1>18, <1>19 DEF CompilerIInv

\* The counts stay true while no edge and no node comes or goes.
LEMMA SameEdges ==
  ASSUME EdgesOK, UNCHANGED <<adjacency, indegree, dependencies, order>>
  PROVE  EdgesOK'
PROOF
  <1>1. Edges' = Edges /\ Ordered' = Ordered /\ EdgeCount' = EdgeCount
    BY DEF Edges, Ordered, EdgeCount
  <1>2. \A n : Awaited(n)' = Awaited(n) /\ SourcesOf(n)' = SourcesOf(n)
    BY <1>1 DEF Awaited, SourcesOf
  <1> QED BY <1>1, <1>2 DEF EdgesOK

\* Each step of the compiler keeps its invariant.
LEMMA CompilerStep == ASSUME CompilerIInv, [CompilerNext]_compilerVars PROVE CompilerIInv'
PROOF
  <1>1. CASE EndOrder
    <2>1. /\ compileStage' \in { "compiled", "cycle" } /\ ready = <<>> /\ compileStage = "order"
          /\ compileStage' = "compiled" <=> Len(order) = NodeCount
          /\ UNCHANGED <<adjacency, indegree, dependencies, ready, order>>
      BY <1>1 DEF EndOrder
    <2>2. CompilerTyped' /\ EdgesOK'
      BY <2>1, SameEdges DEF CompilerIInv, CompilerTyped
    <2>3. QueueOK'
      BY <2>1 DEF CompilerIInv, QueueOK, Queued, Ordered
    <2>4. OrderOK'
      BY <2>1 DEF CompilerIInv, OrderOK
    <2> QED BY <2>2, <2>3, <2>4 DEF CompilerIInv
  <1>2. CASE UNCHANGED compilerVars
    <2>1. CompilerTyped' /\ EdgesOK'
      BY <1>2, SameEdges DEF compilerVars, CompilerIInv, CompilerTyped
    <2>2. QueueOK' /\ OrderOK'
      BY <1>2, SMTT(30) DEF compilerVars, CompilerIInv, QueueOK, OrderOK, Queued, Ordered
    <2> QED BY <2>1, <2>2 DEF CompilerIInv
  <1> QED BY <1>1, <1>2, TakeEdgeKeeps, SeedQueueKeeps, OrderNodeKeeps DEF CompilerNext

\* The counts of the edges not yet taken off and the queue of the free nodes
\* hold in every state of the compiler.
THEOREM CompilerInvariant == CompilerSpec => []CompilerIInv
PROOF
  <1>1. CompilerInit => CompilerIInv
    <2> SUFFICES ASSUME CompilerInit PROVE CompilerIInv
      OBVIOUS
    <2>1. CompilerTyped
      BY DEF CompilerInit, CompilerTyped
    <2>2. Edges = {}
      <3>1. \A n \in DocumentNodes : Len(adjacency[n]) = 0
        BY DEF CompilerInit
      <3> QED BY <3>1, CompilerAssumption DEF Edges
    <2>3. EdgesOK
      <3>1. \A n : Awaited(n) = {}
        BY <2>2 DEF Awaited
      <3>2. EdgeCount = 0
        BY <2>1, <2>2, EdgesFinite, FS_EmptySet
      <3>3. \A n \in DocumentNodes : SourcesOf(n) = {} /\ Len(adjacency[n]) = 0
        BY DEF CompilerInit, SourcesOf
      <3>4. \A n \in DocumentNodes : dependencies[n] = SourcesOf(n) /\ indegree[n] = 0
        BY <3>3 DEF CompilerInit
      <3>5. \A n \in DocumentNodes : Cardinality(Awaited(n)) = 0
        BY <3>1, FS_EmptySet
      <3>6. 0 <= MaxEdges
        BY CompilerAssumption
      <3> QED BY <3>2, <3>3, <3>4, <3>5, <3>6 DEF EdgesOK
    <2>4. QueueOK
      BY DEF CompilerInit, QueueOK, Queued, Ordered
    <2>5. OrderOK
      BY DEF CompilerInit, OrderOK
    <2> QED BY <2>1, <2>3, <2>4, <2>5 DEF CompilerIInv
  <1> QED BY <1>1, CompilerStep, PTL DEF CompilerSpec

\* A sequence of nodes each of which stands in it once is no longer than the
\* document, and as long only if it holds every node.
LEMMA OnceEach ==
  ASSUME NEW q \in Seq(DocumentNodes), \A i, j \in 1 .. Len(q) : q[i] = q[j] => i = j
  PROVE  /\ Len(q) <= NodeCount
         /\ Len(q) = NodeCount <=> \A n \in DocumentNodes : \E i \in 1 .. Len(q) : q[i] = n
PROOF
  <1>1. Len(q) \in Nat /\ q \in [1 .. Len(q) -> DocumentNodes]
    OBVIOUS
  <1>2. q \in Injection(1 .. Len(q), DocumentNodes)
    BY <1>1, Zenon DEF Injection, IsInjective
  <1>3. IsFiniteSet(DocumentNodes) /\ Cardinality(DocumentNodes) = NodeCount
    BY CompilerAssumption, FS_Interval DEF DocumentNodes
  <1>4. Cardinality(1 .. Len(q)) = Len(q)
    BY <1>1, FS_Interval
  <1>5. /\ Cardinality(1 .. Len(q)) <= Cardinality(DocumentNodes)
        /\ Cardinality(1 .. Len(q)) = Cardinality(DocumentNodes)
             <=> q \in Surjection(1 .. Len(q), DocumentNodes)
    BY <1>2, <1>3, FS_Injection
  <1>6. q \in Surjection(1 .. Len(q), DocumentNodes)
          <=> \A n \in DocumentNodes : \E i \in 1 .. Len(q) : q[i] = n
    BY <1>1, Zenon DEF Surjection
  <1> QED BY <1>3, <1>4, <1>5, <1>6

\* Whatever the document and however it is read, the compiler refuses it for a
\* cycle only if it has one, and orders every node after what it depends on.
THEOREM OrderIsTopologicalHolds == CompilerSpec => []OrderIsTopological
PROOF
  <1>1. CompilerIInv => OrderIsTopological
    <2> SUFFICES ASSUME CompilerIInv PROVE OrderIsTopological
      OBVIOUS
    <2>1. /\ order \in Seq(DocumentNodes) /\ \A i, j \in 1 .. Len(order) : order[i] = order[j] => i = j
          /\ Len(order) \in Nat
      BY DEF CompilerIInv, CompilerTyped, QueueOK
    <2>2. ASSUME compileStage = "cycle" PROVE HasCycle
      <3> DEFINE nodes == DocumentNodes \ Ordered
      <3>1. Len(order) # NodeCount /\ ready = <<>>
        BY <2>2 DEF CompilerIInv, OrderOK
      <3>2. nodes # {}
        <4>1. ~ \A n \in DocumentNodes : \E i \in 1 .. Len(order) : order[i] = n
          BY <2>1, <3>1, OnceEach
        <4> QED BY <4>1 DEF Ordered
      <3>3. ASSUME NEW n \in nodes PROVE dependencies[n] \cap nodes # {}
        <4>1. n \in DocumentNodes /\ indegree[n] # 0
          BY <2>2, <3>1 DEF CompilerIInv, QueueOK, Queued
        <4>2. ~ (dependencies[n] \subseteq Ordered)
          BY <4>1, AwaitedSources DEF CompilerIInv
        <4>3. dependencies[n] \subseteq DocumentNodes
          BY <4>1 DEF CompilerIInv, CompilerTyped
        <4> QED BY <4>2, <4>3
      <3> QED BY <3>2, <3>3 DEF HasCycle
    <2>3. ASSUME compileStage = "compiled"
          PROVE  /\ \A n \in DocumentNodes : Cardinality({ i \in 1 .. Len(order) : order[i] = n }) = 1
                 /\ \A i \in 1 .. NodeCount : dependencies[order[i]] \subseteq { order[j] : j \in 1 .. i - 1 }
      <3>1. Len(order) = NodeCount
        BY <2>3 DEF CompilerIInv, OrderOK
      <3>2. ASSUME NEW n \in DocumentNodes PROVE Cardinality({ i \in 1 .. Len(order) : order[i] = n }) = 1
        <4>1. \A x \in DocumentNodes : \E i \in 1 .. Len(order) : order[i] = x
          BY <2>1, <3>1, OnceEach
        <4>2. PICK i \in 1 .. Len(order) : order[i] = n
          BY <4>1
        <4>3. { j \in 1 .. Len(order) : order[j] = n } = {i}
          BY <2>1, <4>2
        <4> QED BY <4>3, FS_Singleton
      <3>3. \A i \in 1 .. NodeCount : dependencies[order[i]] \subseteq { order[j] : j \in 1 .. i - 1 }
        BY <3>1 DEF CompilerIInv, OrderOK
      <3> QED BY <3>2, <3>3
    <2> QED BY <2>2, <2>3 DEF OrderIsTopological
  <1> QED BY <1>1, CompilerInvariant, PTL

\* Every variable of the compiler has its type.
THEOREM CompilerTypes == CompilerSpec => []CompilerTypeOK
PROOF
  <1>1. CompilerIInv => CompilerTypeOK
    <2> SUFFICES ASSUME CompilerIInv PROVE CompilerTypeOK
      OBVIOUS
    <2>1. Len(ready) <= NodeCount /\ Len(order) <= NodeCount
      BY OnceEach DEF CompilerIInv, CompilerTyped, QueueOK
    <2>2. \A n \in DocumentNodes : \A i \in 1 .. Len(adjacency[n]) : adjacency[n][i] \in DocumentNodes
      BY DEF CompilerIInv, CompilerTyped
    <2>3. indegree \in [DocumentNodes -> 0 .. MaxEdges]
      <3>1. \A n \in DocumentNodes : indegree[n] \in 0 .. MaxEdges
        BY EdgesFinite, CompilerAssumption DEF CompilerIInv, EdgesOK
      <3> QED BY <3>1 DEF CompilerIInv, CompilerTyped
    <2> QED BY <2>1, <2>2, <2>3 DEF CompilerTypeOK, CompilerIInv, CompilerTyped
  <1> QED BY <1>1, CompilerInvariant, PTL

-----------------------------------------------------------------------------
(* FailoverQueue                                                            *)

(* The attempt is on the route, which is on the queue; a node that has been *)
(* called is told by its late failure, or has no target left if it failed.  *)
QueueProgress ==
  /\ nodeOutcome = "none" => attempt = 0 /\ failedLate = {} /\ spoke = {}
  /\ nodeOutcome # "none" => attempt \in 1 .. route

QueueIInv == QueueTypeOK /\ QueueProgress /\ FailoverStopsWhereItMust

(* The variables that are no truth values have their types.                *)
QueueDataOK ==
  /\ route \in 0 .. QueueLength /\ attempt \in 0 .. QueueLength
  /\ nodeOutcome \in { "none", "refused", "calling", "succeeded", "failed" }
  /\ errorAfter \in { "no_error", "before_delta", "after_delta" }
  /\ failedLate \subseteq Attempts /\ spoke \subseteq Attempts

\* The truth values stay truth values.
LEMMA QueueBooleans ==
  ASSUME failover \in BOOLEAN, sawDelta \in BOOLEAN, [QueueNext]_queueVars
  PROVE  failover' \in BOOLEAN /\ sawDelta' \in BOOLEAN
  BY Zenon DEF QueueNext, StartNode, ProviderDelta, ProviderError, CallFails, CallReturns,
     CallNext, EndNode, queueVars

\* Every step keeps the rest: a target is called next only when there is one
\* more.
LEMMA QueueStep == ASSUME QueueIInv, [QueueNext]_queueVars PROVE QueueIInv'
PROOF
  <1> DEFINE Kept == QueueDataOK /\ QueueProgress /\ FailoverStopsWhereItMust
  <1> USE QueueAssumption
      DEF QueueDataOK, QueueProgress, FailoverStopsWhereItMust, MoreTargets, Attempts,
          CallNext, EndNode
  <1>0. Kept
    BY DEF QueueIInv, QueueTypeOK
  <1>1. ASSUME StartNode PROVE Kept'
    BY <1>0, <1>1 DEF StartNode
  <1>2. ASSUME ProviderDelta PROVE Kept'
    BY <1>0, <1>2 DEF ProviderDelta
  <1>3. ASSUME ProviderError PROVE Kept'
    BY <1>0, <1>3 DEF ProviderError
  <1>4. ASSUME CallFails PROVE Kept'
    <2>1. CASE MoreTargets
      <3>1. attempt < route
        BY <2>1
      <3> HIDE DEF MoreTargets
      <3>2. CallNext /\ UNCHANGED failedLate /\ nodeOutcome = "calling"
        BY <1>4, <2>1 DEF CallFails
      <3> QED BY <1>0, <3>1, <3>2
    <2>2. CASE ~ MoreTargets
      <3>1. ~ MoreTargets'
        BY <1>4, <2>2, Zenon DEF CallFails
      <3> HIDE DEF MoreTargets
      <3> QED BY <1>0, <1>4, <2>2, <3>1 DEF CallFails
    <2> QED BY <2>1, <2>2
  <1>5. ASSUME NEW finishedWithError \in BOOLEAN, CallReturns(finishedWithError)
        PROVE  Kept'
    <2> DEFINE erred == errorAfter # "no_error" \/ finishedWithError
               late == erred /\ FailedAfterFirstToken(finishedWithError)
    <2>0. nodeOutcome = "calling" /\ failedLate = {}
      BY <1>0, <1>5 DEF CallReturns
    <2> HIDE DEF MoreTargets
    <2>1. CASE ~ erred
      <3>1. EndNode("succeeded") /\ failedLate' = {}
        BY <1>5, <2>0, <2>1 DEF CallReturns
      <3> QED BY <1>0, <2>0, <3>1
    <2>2. CASE erred /\ late
      <3>1. EndNode("failed") /\ failedLate' = {attempt}
        BY <1>5, <2>0, <2>2 DEF CallReturns
      <3> QED BY <1>0, <2>0, <3>1
    <2>3. CASE erred /\ ~ late /\ MoreTargets
      <3>1. CallNext /\ failedLate' = {}
        BY <1>5, <2>0, <2>3 DEF CallReturns
      <3>2. attempt < route
        BY <2>3 DEF MoreTargets
      <3> QED BY <1>0, <2>0, <3>1, <3>2
    <2>4. CASE erred /\ ~ late /\ ~ MoreTargets
      <3>1. EndNode("failed") /\ failedLate' = {}
        BY <1>5, <2>0, <2>4 DEF CallReturns
      <3>2. ~ MoreTargets'
        BY <2>4, <3>1, Zenon DEF MoreTargets
      <3> QED BY <1>0, <2>0, <3>1, <3>2
    <2> QED BY <2>1, <2>2, <2>3, <2>4
  <1>6. ASSUME UNCHANGED queueVars PROVE Kept'
    BY <1>0, <1>6 DEF queueVars
  <1>7. Kept'
    BY <1>1, <1>2, <1>3, <1>4, <1>5, <1>6 DEF QueueNext
  <1> QED BY <1>7, QueueBooleans DEF QueueIInv, QueueTypeOK

\* The inductive invariant holds of every reachable state.
THEOREM QueueInvariant == QueueSpec => []QueueIInv
PROOF
  <1>1. QueueInit => QueueIInv
    <2> SUFFICES ASSUME QueueInit PROVE QueueIInv
      OBVIOUS
    <2>1. failover \in BOOLEAN /\ sawDelta \in BOOLEAN
      BY Zenon DEF QueueInit
    <2>2. QueueDataOK
      BY QueueAssumption DEF QueueInit, QueueDataOK
    <2>3. QueueProgress /\ FailoverStopsWhereItMust
      BY DEF QueueInit, QueueProgress, FailoverStopsWhereItMust
    <2> QED BY <2>1, <2>2, <2>3 DEF QueueIInv, QueueTypeOK, QueueDataOK
  <1> QED BY <1>1, QueueStep, PTL DEF QueueSpec

\* Whatever the length of the queue, a failure after the first token ends the
\* node, and no other failure does before the last target was called.
THEOREM FailoverStopsWhereItMustHolds == QueueSpec => []FailoverStopsWhereItMust
PROOF
  <1>1. QueueIInv => FailoverStopsWhereItMust
    BY DEF QueueIInv
  <1> QED BY <1>1, QueueInvariant, PTL

-----------------------------------------------------------------------------
(* SideEffectReceipt                                                        *)

(* A writer that has claimed its key and not yet stored what came of it.   *)
Holds(w, k) == writerStage[w] \in { "write", "succeed", "fail" } /\ sideEffect[w] = k

(* A key's receipt is held by one writer at a time, and stays pending for  *)
(* it as long as there is an application.                                  *)
HolderIsOne ==
  /\ \A w \in Writers : writerStage[w] # "idle" => sideEffect[w] \in SideEffects
  /\ ~ application => \A k \in SideEffects : receipt[k] = "absent"
  /\ \A k \in SideEffects : \A w, x \in Writers : Holds(w, k) /\ Holds(x, k) => w = x
  /\ \A k \in SideEffects : \A w \in Writers :
       Holds(w, k) /\ application => receipt[k] = "pending"

(* What has been written is told by the receipt and by its holder.         *)
EffectIsTold ==
  /\ \A k \in SideEffects : effects[k] # {} /\ application => receipt[k] # "absent"
  /\ \A k \in SideEffects : \A w, x \in effects[k] : w = x
  /\ \A k \in SideEffects : receipt[k] = "succeeded" => effects[k] = {storedBy[k]}
  /\ \A w \in Writers :
       /\ writerStage[w] = "write" => effects[sideEffect[w]] = {}
       /\ writerStage[w] = "succeed" => effects[sideEffect[w]] = {w}
       /\ answer[w] # Nobody =>
            writerStage[w] = "ended" /\ effects[sideEffect[w]] = {answer[w]}

ReceiptIInv == ReceiptTypeOK /\ HolderIsOne /\ EffectIsTold

-----------------------------------------------------------------------------
\* No step of a writer, of the clock or of the application's owner leaves
\* the types.
LEMMA ReceiptTypeStep ==
  ASSUME ReceiptTypeOK, HolderIsOne, [ReceiptNext]_receiptVars
  PROVE  ReceiptTypeOK'
PROOF
  <1> USE DEF ReceiptTypeOK, WriterAt, WriterGoes, KeyOf, receiptRows
  <1>1. ASSUME NEW w \in Writers, NEW k \in SideEffects, BeginWrite(w, k)
        PROVE  ReceiptTypeOK'
    BY <1>1 DEF BeginWrite
  <1>2. ASSUME NEW w \in Writers, CompleteConfirmation(w)
        PROVE  ReceiptTypeOK'
    BY <1>2 DEF CompleteConfirmation
  <1>3. ASSUME NEW w \in Writers, ClaimReceipt(w)
        PROVE  ReceiptTypeOK'
    BY <1>3 DEF ClaimReceipt
  <1>4. ASSUME NEW w \in Writers, ReadReceipt(w)
        PROVE  ReceiptTypeOK'
    BY <1>4 DEF ReadReceipt, HolderIsOne
  <1>5. ASSUME NEW w \in Writers, WriteRecord(w)
        PROVE  ReceiptTypeOK'
    BY <1>5 DEF WriteRecord
  <1>6. ASSUME NEW w \in Writers, StoreFailure(w)
        PROVE  ReceiptTypeOK'
    BY <1>6 DEF StoreFailure, UpsertReceipt
  <1>7. ASSUME NEW w \in Writers, StoreSuccess(w)
        PROVE  ReceiptTypeOK'
    BY <1>7 DEF StoreSuccess, UpsertReceipt
  <1>8. ASSUME NEW w \in Writers, CrashWriter(w)
        PROVE  ReceiptTypeOK'
    BY <1>8 DEF CrashWriter
  <1>9. ASSUME NEW k \in SideEffects, ExpireConfirmation(k)
        PROVE  ReceiptTypeOK'
    BY <1>9 DEF ExpireConfirmation
  <1>10. CASE DeleteApplication
    BY <1>10 DEF DeleteApplication
  <1>11. CASE UNCHANGED receiptVars
    BY <1>11 DEF receiptVars
  <1> QED BY <1>1, <1>2, <1>3, <1>4, <1>5, <1>6, <1>7, <1>8, <1>9, <1>10, <1>11 DEF ReceiptNext

\* Who holds a key's receipt keeps it from everybody else.
LEMMA HolderStep ==
  ASSUME ReceiptTypeOK, HolderIsOne, [ReceiptNext]_receiptVars
  PROVE  HolderIsOne'
PROOF
  <1> USE DEF ReceiptTypeOK, HolderIsOne, Holds, WriterAt, WriterGoes, KeyOf, receiptRows
  <1>0. NoSideEffect \notin SideEffects
    BY ReceiptAssumption
  <1>1. ASSUME NEW w \in Writers, NEW k \in SideEffects, BeginWrite(w, k)
        PROVE  HolderIsOne'
    BY <1>1 DEF BeginWrite
  <1>2. ASSUME NEW w \in Writers, CompleteConfirmation(w)
        PROVE  HolderIsOne'
    BY <1>2 DEF CompleteConfirmation
  <1>3. ASSUME NEW w \in Writers, ClaimReceipt(w)
        PROVE  HolderIsOne'
    BY <1>3 DEF ClaimReceipt
  <1>4. ASSUME NEW w \in Writers, ReadReceipt(w)
        PROVE  HolderIsOne'
    BY <1>4 DEF ReadReceipt
  <1>5. ASSUME NEW w \in Writers, WriteRecord(w)
        PROVE  HolderIsOne'
    BY <1>5 DEF WriteRecord
  <1>6. ASSUME NEW w \in Writers, StoreFailure(w)
        PROVE  HolderIsOne'
    BY <1>6 DEF StoreFailure, UpsertReceipt
  <1>7. ASSUME NEW w \in Writers, StoreSuccess(w)
        PROVE  HolderIsOne'
    BY <1>7 DEF StoreSuccess, UpsertReceipt
  <1>8. ASSUME NEW w \in Writers, CrashWriter(w)
        PROVE  HolderIsOne'
    BY <1>8 DEF CrashWriter
  <1>9. ASSUME NEW k \in SideEffects, ExpireConfirmation(k)
        PROVE  HolderIsOne'
    BY <1>9 DEF ExpireConfirmation
  <1>10. CASE DeleteApplication
    BY <1>10 DEF DeleteApplication
  <1>11. CASE UNCHANGED receiptVars
    BY <1>11 DEF receiptVars
  <1> QED BY <1>1, <1>2, <1>3, <1>4, <1>5, <1>6, <1>7, <1>8, <1>9, <1>10, <1>11 DEF ReceiptNext

\* A write is told by its receipt, or by the writer that still holds it.
LEMMA EffectStep ==
  ASSUME ReceiptTypeOK, HolderIsOne, EffectIsTold, [ReceiptNext]_receiptVars
  PROVE  EffectIsTold'
PROOF
  <1> USE DEF ReceiptTypeOK, HolderIsOne, EffectIsTold, Holds, WriterAt, WriterGoes, KeyOf,
              receiptRows
  <1>0. Nobody \notin Writers
    BY ReceiptAssumption
  <1>1. ASSUME NEW w \in Writers, NEW k \in SideEffects, BeginWrite(w, k)
        PROVE  EffectIsTold'
    BY <1>1 DEF BeginWrite
  <1>2. ASSUME NEW w \in Writers, CompleteConfirmation(w)
        PROVE  EffectIsTold'
    BY <1>2 DEF CompleteConfirmation
  <1>3. ASSUME NEW w \in Writers, ClaimReceipt(w)
        PROVE  EffectIsTold'
    BY <1>3, SMTT(30) DEF ClaimReceipt
  <1>4. ASSUME NEW w \in Writers, ReadReceipt(w)
        PROVE  EffectIsTold'
    BY <1>4 DEF ReadReceipt
  <1>5. ASSUME NEW w \in Writers, WriteRecord(w)
        PROVE  EffectIsTold'
    <2>1. /\ sideEffect[w] \in SideEffects /\ receipt[sideEffect[w]] # "succeeded"
          /\ application => receipt[sideEffect[w]] = "pending"
          /\ effects[sideEffect[w]] = {}
      BY <1>5 DEF WriteRecord
    <2>2. \A x \in Writers : x # w /\ sideEffect[x] = sideEffect[w]
            => writerStage[x] \notin { "write", "succeed" } /\ answer[x] = Nobody
      <3> SUFFICES ASSUME NEW x \in Writers, x # w, sideEffect[x] = sideEffect[w]
                   PROVE  writerStage[x] \notin { "write", "succeed" } /\ answer[x] = Nobody
        OBVIOUS
      <3>1. Holds(w, sideEffect[w])
        BY <1>5 DEF WriteRecord
      <3>2. writerStage[x] \notin { "write", "succeed" }
        BY <2>1, <3>1
      <3>3. answer[x] = Nobody
        BY <2>1, ZenonT(60)
      <3> QED BY <3>2, <3>3
    <2>3. UNCHANGED <<receipt, storedBy, application, sideEffect, answer>>
      BY <1>5 DEF WriteRecord
    <2>4. CASE effects' = [effects EXCEPT ![sideEffect[w]] = @ \cup {w}]
      <3>1. /\ effects'[sideEffect[w]] = {w}
            /\ \A k \in SideEffects \ {sideEffect[w]} : effects'[k] = effects[k]
        BY <2>1, <2>4
      <3>2. /\ writerStage'[w] \in { "succeed", "fail" } /\ answer[w] = Nobody
            /\ \A x \in Writers \ {w} : writerStage'[x] = writerStage[x]
        BY <1>5 DEF WriteRecord
      <3> QED BY <2>1, <2>2, <2>3, <3>1, <3>2
    <2>5. CASE UNCHANGED effects /\ WriterGoes(w, "fail")
      BY <1>5, <2>3, <2>5 DEF WriteRecord
    <2> QED BY <1>5, <2>4, <2>5 DEF WriteRecord
  <1>6. ASSUME NEW w \in Writers, StoreFailure(w)
        PROVE  EffectIsTold'
    BY <1>6 DEF StoreFailure, UpsertReceipt
  <1>7. ASSUME NEW w \in Writers, StoreSuccess(w)
        PROVE  EffectIsTold'
    <2>1. /\ sideEffect[w] \in SideEffects /\ effects[sideEffect[w]] = {w}
          /\ UNCHANGED <<effects, application, sideEffect>>
          /\ writerStage' = [writerStage EXCEPT ![w] = "ended"]
          /\ application => receipt[sideEffect[w]] = "pending"
      BY <1>7 DEF StoreSuccess
    <2>2. CASE /\ application /\ answer' = [answer EXCEPT ![w] = w]
               /\ receipt' = [receipt EXCEPT ![sideEffect[w]] = "succeeded"]
               /\ storedBy' = [storedBy EXCEPT ![sideEffect[w]] = w]
      <3>1. \A k \in SideEffects : receipt'[k] = "succeeded" => effects[k] = {storedBy'[k]}
        BY <2>1, <2>2
      <3>2. \A x \in Writers : answer'[x] # Nobody =>
              writerStage'[x] = "ended" /\ effects[sideEffect[x]] = {answer'[x]}
        BY <2>1, <2>2
      <3> QED BY <2>1, <2>2, <3>1, <3>2
    <2>3. CASE UNCHANGED <<receipt, storedBy, answer>>
      BY <2>1, <2>3
    <2> QED BY <1>7, <2>1, <2>2, <2>3 DEF StoreSuccess, UpsertReceipt
  <1>8. ASSUME NEW w \in Writers, CrashWriter(w)
        PROVE  EffectIsTold'
    BY <1>8 DEF CrashWriter
  <1>9. ASSUME NEW k \in SideEffects, ExpireConfirmation(k)
        PROVE  EffectIsTold'
    BY <1>9 DEF ExpireConfirmation
  <1>10. CASE DeleteApplication
    BY <1>10 DEF DeleteApplication
  <1>11. CASE UNCHANGED receiptVars
    BY <1>11 DEF receiptVars
  <1> QED BY <1>1, <1>2, <1>3, <1>4, <1>5, <1>6, <1>7, <1>8, <1>9, <1>10, <1>11 DEF ReceiptNext

-----------------------------------------------------------------------------
\* The inductive invariant holds of every reachable state.
THEOREM ReceiptInvariant == ReceiptSpec => []ReceiptIInv
PROOF
  <1>1. ReceiptInit => ReceiptIInv
    BY ReceiptAssumption
    DEF ReceiptInit, ReceiptIInv, ReceiptTypeOK, HolderIsOne, EffectIsTold, Holds
  <1>2. ReceiptIInv /\ [ReceiptNext]_receiptVars => ReceiptIInv'
    BY ReceiptTypeStep, HolderStep, EffectStep DEF ReceiptIInv
  <1> QED BY <1>1, <1>2, PTL DEF ReceiptSpec

\* Type correctness, for every set of writers and keys.
THEOREM ReceiptTyped == ReceiptSpec => []ReceiptTypeOK
PROOF
  <1>1. ReceiptIInv => ReceiptTypeOK
    BY DEF ReceiptIInv
  <1> QED BY <1>1, ReceiptInvariant, PTL

\* No key's write takes effect twice, whoever executes the node again.
THEOREM WrittenAtMostOnceHolds == ReceiptSpec => []WrittenAtMostOnce
PROOF
  <1>1. ReceiptIInv => WrittenAtMostOnce
    <2> SUFFICES ASSUME ReceiptIInv, NEW k \in SideEffects
                 PROVE  Cardinality(effects[k]) <= 1
      BY DEF WrittenAtMostOnce
    <2>1. CASE effects[k] = {}
      <3>1. Cardinality(effects[k]) = 0
        BY <2>1, FS_EmptySet, Zenon
      <3> QED BY <3>1
    <2>2. CASE effects[k] # {}
      <3>1. PICK w \in effects[k] : effects[k] = {w}
        BY <2>2 DEF ReceiptIInv, EffectIsTold
      <3>2. Cardinality(effects[k]) = 1
        BY <3>1, FS_Singleton, Zenon
      <3> QED BY <3>2
    <2> QED BY <2>1, <2>2
  <1> QED BY <1>1, ReceiptInvariant, PTL

\* A node is given the output of the one writer whose write took effect.
THEOREM AnswerIsTheEffectHolds == ReceiptSpec => []AnswerIsTheEffect
PROOF
  <1>1. ReceiptIInv => AnswerIsTheEffect
    BY DEF ReceiptIInv, EffectIsTold, AnswerIsTheEffect, KeyOf
  <1> QED BY <1>1, ReceiptInvariant, PTL

-----------------------------------------------------------------------------
(* EventPersister                                                           *)

\* Max of an interval's subset that holds its end.
LEMMA MaxOfEnd ==
  ASSUME NEW k \in Nat, NEW S \in SUBSET (1 .. k), k \in S
  PROVE  Max(S) = k
PROOF
  <1>1. \A y \in S : y \in Nat /\ k >= y
    OBVIOUS
  <1>2. \A x \in S : (\A y \in S : x >= y) => x = k
    <2> TAKE x \in S
    <2>1. x \in Nat /\ k >= x
      BY <1>1
    <2>2. (\A y \in S : x >= y) => x >= k
      OBVIOUS
    <2> QED BY <2>1, <2>2
  <1> QED BY <1>1, <1>2 DEF Max

\* What is coalesced of a batch is made event by event.
LEMMA CoalescedIsMade ==
  ASSUME NEW s, NEW n \in Nat, DOMAIN s = 1 .. n
  PROVE  \E made : /\ made[0] = <<>> /\ Coalesced(s) = made[n]
                   /\ \A k \in 1 .. n : made[k] = AddToRecords(made[k - 1], s[k])
PROOF
  <1> DEFINE Step(f, S) == IF S = {} THEN <<>> ELSE AddToRecords(f[S \ {Max(S)}], s[Max(S)])
             Fold(f, k) == f = [S \in SUBSET (1 .. k) |-> Step(f, S)]
             without == { k \in Nat : ~ \E f : Fold(f, k) }
  <1>1. without = {}
    <2> SUFFICES ASSUME without # {} PROVE FALSE
      OBVIOUS
    <2>1. PICK k \in without : \A l \in without : k <= l
      BY LeastOfNaturals
    <2>2. k # 0
      <3>1. SUBSET (1 .. 0) = {{}}
        OBVIOUS
      <3> DEFINE f == [S \in SUBSET (1 .. 0) |-> <<>>]
      <3>2. Fold(f, 0)
        BY <3>1
      <3> QED BY <3>2
    <2>3. k - 1 \in Nat /\ k \in Nat /\ k - 1 \notin without
      <3>1. k \in Nat
        BY <2>1
      <3> HIDE DEF without
      <3> QED BY <2>1, <2>2, <3>1
    <2>4. PICK f : Fold(f, k - 1)
      BY <2>3
    <2> DEFINE g == [S \in SUBSET (1 .. k) |-> IF k \in S THEN AddToRecords(f[S \ {k}], s[k]) ELSE f[S]]
    <2>5. ASSUME NEW S \in SUBSET (1 .. k) PROVE g[S] = Step(g, S)
      <3>1. CASE k \in S
        <4>1. Max(S) = k /\ S # {}
          BY <2>3, <3>1, MaxOfEnd
        <4>2. S \ {k} \in SUBSET (1 .. k) /\ k \notin S \ {k}
          OBVIOUS
        <4>3. g[S \ {k}] = f[S \ {k}]
          BY <4>2
        <4> QED BY <3>1, <4>1, <4>3
      <3>2. CASE k \notin S
        <4>1. S \in SUBSET (1 .. k - 1)
          BY <2>3, <3>2
        <4>2. g[S] = f[S] /\ f[S] = Step(f, S)
          BY <2>4, <3>2, <4>1
        <4>3. g[S \ {Max(S)}] = f[S \ {Max(S)}]
          BY <3>2
        <4> QED BY <4>2, <4>3
      <3> QED BY <3>1, <3>2
    <2>6. Fold(g, k)
      <3>1. DOMAIN g = SUBSET (1 .. k)
        OBVIOUS
      <3>2. g = [S \in SUBSET (1 .. k) |-> g[S]]
        OBVIOUS
      <3> HIDE DEF g, Step
      <3> QED BY <3>2, <2>5
    <2> QED BY <2>1, <2>6
  <1> DEFINE iter == CHOOSE f : Fold(f, n)
  <1>2. Fold(iter, n)
    <2>1. \E f : Fold(f, n)
      BY <1>1
    <2> HIDE DEF Fold
    <2> QED BY <2>1
  <1>3. Coalesced(s) = iter[1 .. n]
    BY DEF Coalesced, FoldLeft, MapThenFoldSet
  <1> HIDE DEF iter
  <1> DEFINE made == [k \in 0 .. n |-> iter[1 .. k]]
  <1>4. ASSUME NEW k \in 0 .. n PROVE made[k] = Step(iter, 1 .. k)
    <2>1. 1 .. k \in SUBSET (1 .. n)
      OBVIOUS
    <2>2. iter[1 .. k] = Step(iter, 1 .. k)
      BY <1>2, <2>1
    <2> QED BY <2>2
  <1>5. made[0] = <<>>
    <2>1. 1 .. 0 = {} /\ 0 \in 0 .. n
      OBVIOUS
    <2>2. made[0] = Step(iter, 1 .. 0)
      BY <1>4, <2>1
    <2> HIDE DEF made
    <2> QED BY <2>1, <2>2
  <1>6. ASSUME NEW k \in 1 .. n PROVE made[k] = AddToRecords(made[k - 1], s[k])
    <2>1. k \in Nat /\ k \in 1 .. k /\ 1 .. k \in SUBSET (1 .. k) /\ 1 .. k # {}
      OBVIOUS
    <2>2. Max(1 .. k) = k
      BY <2>1, MaxOfEnd
    <2>3. (1 .. k) \ {k} = 1 .. k - 1 /\ k - 1 \in 0 .. n /\ k \in 0 .. n
      OBVIOUS
    <2>4. made[k] = Step(iter, 1 .. k)
      BY <1>4, <2>3
    <2> QED BY <2>1, <2>2, <2>3, <2>4
  <1>7. Coalesced(s) = made[n]
    BY <1>3
  <1> HIDE DEF made
  <1> QED BY <1>5, <1>6, <1>7

-----------------------------------------------------------------------------
(* The records c hold what is to be persisted of the sequences in T, each   *)
(* record of one node and one type, in the order of the stream.             *)
Records(c, T) ==
  /\ c \in Seq(SUBSET T)
  /\ \A m \in T : PersistRequired(m) => \E r \in DOMAIN c : m \in c[r]
  /\ \A r \in DOMAIN c : \A m \in c[r] : PersistRequired(m)
  /\ \A r \in DOMAIN c : \A a, b \in c[r] : streamEvents[a] = streamEvents[b]
  /\ \A q, r \in DOMAIN c : q < r => \A a \in c[q], b \in c[r] : a < b

\* Adding a later event to records keeps them in order.
LEMMA RecordAdded ==
  ASSUME NEW c, NEW T, Records(c, T), NEW n, \A m \in T : m < n
  PROVE  Records(AddToRecords(c, n), T \cup {n})
PROOF
  <1> DEFINE U == T \cup {n}
             k == Len(c)
  <1>0. c \in Seq(SUBSET T) /\ k \in Nat /\ DOMAIN c = 1 .. k /\ c \in Seq(SUBSET U)
    <2>1. c \in Seq(SUBSET T) /\ SUBSET T \subseteq SUBSET U
      BY DEF Records
    <2> QED BY <2>1
  <1>1. CASE ~ PersistRequired(n)
    BY <1>0, <1>1 DEF Records, AddToRecords
  <1>2. CASE PersistRequired(n) /\ c # <<>> /\ Joins(Last(c), n)
    <2> DEFINE d == [c EXCEPT ![k] = @ \cup {n}]
    <2>1. AddToRecords(c, n) = d /\ k \in DOMAIN c
      BY <1>0, <1>2 DEF AddToRecords
    <2>2. DOMAIN d = DOMAIN c /\ d[k] = c[k] \cup {n} /\ \A r \in DOMAIN c : r # k => d[r] = c[r]
      BY <2>1
    <2>3. \A r \in DOMAIN c : c[r] \subseteq T
      BY <1>0
    <2>4. d \in Seq(SUBSET U)
      BY <1>0, <2>1, <2>2, <2>3
    <2>5. \A m \in U : PersistRequired(m) => \E r \in DOMAIN d : m \in d[r]
      BY <2>1, <2>2 DEF Records
    <2>6. \A r \in DOMAIN d : \A m \in d[r] : PersistRequired(m)
      BY <1>2, <2>1, <2>2 DEF Records
    <2>7. \A r \in DOMAIN d : \A a, b \in d[r] : streamEvents[a] = streamEvents[b]
      <3>1. \A m \in c[k] : streamEvents[m] = streamEvents[n]
        BY <1>2 DEF Joins, Last
      <3> QED BY <2>1, <2>2, <3>1 DEF Records
    <2>8. \A q, r \in DOMAIN d : q < r => \A a \in d[q], b \in d[r] : a < b
      <3> SUFFICES ASSUME NEW q \in DOMAIN c, NEW r \in DOMAIN c, q < r, NEW a \in d[q], NEW b \in d[r]
                   PROVE  a < b
        BY <2>2
      <3>1. q # k /\ a \in c[q] /\ a \in T
        BY <1>0, <2>2, <2>3
      <3>2. b = n \/ b \in c[r]
        BY <2>2
      <3> QED BY <3>1, <3>2 DEF Records
    <2> HIDE DEF d
    <2> QED BY <2>1, <2>4, <2>5, <2>6, <2>7, <2>8 DEF Records
  <1>3. CASE PersistRequired(n) /\ ~ (c # <<>> /\ Joins(Last(c), n))
    <2> DEFINE d == Append(c, {n})
    <2>1. AddToRecords(c, n) = d
      BY <1>3 DEF AddToRecords
    <2>2. /\ d \in Seq(SUBSET U) /\ DOMAIN d = 1 .. k + 1
          /\ d[k + 1] = {n} /\ \A r \in DOMAIN c : d[r] = c[r]
      BY <1>0
    <2>3. \A r \in DOMAIN c : c[r] \subseteq T
      BY <1>0
    <2>4. DOMAIN d = DOMAIN c \cup {k + 1}
      BY <1>0, <2>2
    <2> HIDE DEF d
    <2>5. \A m \in U : PersistRequired(m) => \E r \in DOMAIN d : m \in d[r]
      BY <2>2, <2>4 DEF Records
    <2>6. \A r \in DOMAIN d : \A m \in d[r] : PersistRequired(m)
      BY <1>3, <2>2, <2>4 DEF Records
    <2>7. \A r \in DOMAIN d : \A a, b \in d[r] : streamEvents[a] = streamEvents[b]
      BY <2>2, <2>4 DEF Records
    <2>8. \A q, r \in DOMAIN d : q < r => \A a \in d[q], b \in d[r] : a < b
      <3> SUFFICES ASSUME NEW q \in DOMAIN d, NEW r \in DOMAIN d, q < r, NEW a \in d[q], NEW b \in d[r]
                   PROVE  a < b
        OBVIOUS
      <3>1. q \in DOMAIN c /\ a \in c[q] /\ a \in T
        BY <1>0, <2>2, <2>3
      <3>2. (r = k + 1 /\ b = n) \/ (r \in DOMAIN c /\ b \in c[r])
        BY <2>2, <2>4
      <3> QED BY <3>1, <3>2 DEF Records
    <2> QED BY <2>1, <2>2, <2>5, <2>6, <2>7, <2>8 DEF Records
  <1> QED BY <1>1, <1>2, <1>3

\* Whatever rising batch is coalesced, its records hold it in order.
LEMMA CoalescedRecords ==
  ASSUME NEW s, NEW n \in Nat, DOMAIN s = 1 .. n,
         \A i, j \in 1 .. n : i < j => s[i] < s[j]
  PROVE  Records(Coalesced(s), { s[i] : i \in 1 .. n })
PROOF
  <1>1. PICK made : /\ made[0] = <<>> /\ Coalesced(s) = made[n]
                    /\ \A k \in 1 .. n : made[k] = AddToRecords(made[k - 1], s[k])
    BY CoalescedIsMade
  <1> DEFINE first(k) == { s[i] : i \in 1 .. k }
             wrong == { k \in 0 .. n : ~ Records(made[k], first(k)) }
  <1>2. wrong = {}
    <2> SUFFICES ASSUME wrong # {} PROVE FALSE
      OBVIOUS
    <2>1. PICK k \in wrong : \A l \in wrong : k <= l
      <3>1. wrong \subseteq Nat
        OBVIOUS
      <3> HIDE DEF wrong
      <3> QED BY <3>1, LeastOfNaturals
    <2>2. k \in 0 .. n /\ ~ Records(made[k], first(k))
      OBVIOUS
    <2>3. k # 0
      <3>1. first(0) = {}
        OBVIOUS
      <3>2. Records(<<>>, {})
        BY DEF Records
      <3> QED BY <1>1, <2>2, <3>1, <3>2
    <2>4. k - 1 \in 0 .. n /\ k \in 1 .. n /\ ~ (k <= k - 1)
      BY <2>2, <2>3
    <2>5. Records(made[k - 1], first(k - 1))
      BY <2>1, <2>4
    <2>6. \A m \in first(k - 1) : m < s[k]
      BY <2>4
    <2>7. first(k) = first(k - 1) \cup {s[k]}
      <3>1. 1 .. k = (1 .. k - 1) \cup {k}
        BY <2>4
      <3> QED BY <3>1
    <2>8. made[k] = AddToRecords(made[k - 1], s[k])
      BY <1>1, <2>4
    <2> HIDE DEF first, wrong
    <2> QED BY <2>2, <2>5, <2>6, <2>7, <2>8, RecordAdded
  <1>3. Records(made[n], first(n))
    <2>1. n \in 0 .. n
      OBVIOUS
    <2>2. n \notin wrong
      <3> HIDE DEF wrong
      <3> QED BY <1>2
    <2> HIDE DEF first
    <2> QED BY <2>1, <2>2
  <1> QED BY <1>1, <1>3

\* Records of later sequences go after those of earlier ones.
LEMMA RecordsJoined ==
  ASSUME NEW c, NEW T, NEW d, NEW U, Records(c, T), Records(d, U), \A m \in T, n \in U : m < n
  PROVE  Records(c \o d, T \cup U)
PROOF
  <1> DEFINE k == Len(c)
             e == c \o d
  <1>1. /\ c \in Seq(SUBSET (T \cup U)) /\ d \in Seq(SUBSET (T \cup U))
        /\ \A r \in DOMAIN c : c[r] \subseteq T
        /\ \A r \in DOMAIN d : d[r] \subseteq U
        /\ k \in Nat /\ Len(d) \in Nat /\ DOMAIN c = 1 .. k /\ DOMAIN d = 1 .. Len(d)
    <2>1. c \in Seq(SUBSET T) /\ d \in Seq(SUBSET U)
      BY DEF Records
    <2>2. SUBSET T \subseteq SUBSET (T \cup U) /\ SUBSET U \subseteq SUBSET (T \cup U)
      OBVIOUS
    <2> QED BY <2>1, <2>2
  <1>2. /\ e \in Seq(SUBSET (T \cup U)) /\ DOMAIN e = 1 .. k + Len(d)
        /\ \A r \in DOMAIN c : r \in DOMAIN e /\ e[r] = c[r]
        /\ \A r \in DOMAIN d : k + r \in DOMAIN e /\ e[k + r] = d[r]
    BY <1>1
  <1>3. \A r \in DOMAIN e : r \in DOMAIN c \/ (r - k \in DOMAIN d /\ r = k + (r - k) /\ r > k)
    BY <1>1, <1>2
  <1> HIDE DEF e
  <1>4. \A r \in DOMAIN e : \/ r \in DOMAIN c /\ e[r] = c[r]
                            \/ r - k \in DOMAIN d /\ e[r] = d[r - k]
    BY <1>2, <1>3
  <1>5. \A m \in T \cup U : PersistRequired(m) => \E r \in DOMAIN e : m \in e[r]
    BY <1>2 DEF Records
  <1>6. \A r \in DOMAIN e : \A m \in e[r] : PersistRequired(m)
    BY <1>4 DEF Records
  <1>7. \A r \in DOMAIN e : \A a, b \in e[r] : streamEvents[a] = streamEvents[b]
    BY <1>4 DEF Records
  <1>8. ASSUME NEW q \in DOMAIN e, NEW r \in DOMAIN e, q < r, NEW a \in e[q], NEW b \in e[r]
        PROVE  a < b
    <2>1. CASE q \in DOMAIN c /\ r \in DOMAIN c
      BY <1>2, <1>8, <2>1 DEF Records
    <2>2. CASE q \in DOMAIN c /\ r \notin DOMAIN c
      BY <1>1, <1>2, <1>4, <1>8, <2>2
    <2>3. CASE q \notin DOMAIN c
      <3>1. r \notin DOMAIN c
        BY <1>1, <1>2, <1>8, <2>3
      <3>2. q - k \in DOMAIN d /\ a \in d[q - k] /\ r - k \in DOMAIN d /\ b \in d[r - k]
        BY <1>4, <1>8, <2>3, <3>1
      <3>3. q - k < r - k
        BY <1>1, <1>2, <1>8
      <3> QED BY <3>2, <3>3 DEF Records
    <2> QED BY <2>1, <2>2, <2>3
  <1> QED BY <1>2, <1>5, <1>6, <1>7, <1>8 DEF Records, e

\* Records of what T holds, and of nothing else that is to be persisted.
LEMMA RecordsOfMore ==
  ASSUME NEW c, NEW T, NEW U, Records(c, T), T \subseteq U,
         \A m \in U : PersistRequired(m) => m \in T
  PROVE  Records(c, U)
PROOF
  <1>1. c \in Seq(SUBSET U)
    <2>1. c \in Seq(SUBSET T) /\ SUBSET T \subseteq SUBSET U
      BY DEF Records
    <2> QED BY <2>1
  <1> QED BY <1>1 DEF Records

(* The batch rises and is ahead of everything else that was received.       *)
BatchAhead ==
  /\ \A i, j \in DOMAIN pendingBatch : i < j => pendingBatch[i] < pendingBatch[j]
  /\ \A m \in received \ ToSet(pendingBatch), n \in ToSet(pendingBatch) : m < n
  /\ persister # "reading" => pendingBatch = <<>>

(* What is neither in the batch nor lost is in the records, and what is lost *)
(* lies in the range of none of them.                                        *)
Stored == received \ (lost \cup ToSet(pendingBatch))
StoredInOrder ==
  /\ lost \cap ToSet(pendingBatch) = {}
  /\ Records(durable, Stored)
  /\ \A k \in lost : \A r \in DOMAIN durable :
       \/ \A m \in durable[r] : m < k
       \/ \A m \in durable[r] : k < m

PersisterIInv == PersisterTypeOK /\ BatchAhead /\ StoredInOrder

\* The sequences of a flush are stored, or lost, after all that was before.
LEMMA FlushStores ==
  ASSUME PersisterIInv, streamEvents' = streamEvents, received \subseteq received',
         NEW sequences \in Seq(received'), NEW rest, Flush(sequences, rest),
         \A i, j \in DOMAIN sequences : i < j => sequences[i] < sequences[j],
         received' \ ToSet(rest) = (received \ ToSet(pendingBatch)) \cup ToSet(sequences),
         \A m \in received \ ToSet(pendingBatch), n \in ToSet(sequences) : m < n,
         ToSet(rest) \cap ToSet(sequences) = {},
         ToSet(rest) \cap (received \ ToSet(pendingBatch)) = {},
         received' \subseteq Nat
  PROVE  /\ StoredInOrder' /\ pendingBatch' = rest
         /\ durable' \in Seq(SUBSET received') /\ lost' \subseteq received'
PROOF
  <1> DEFINE fresh == ToSet(sequences)
             coalesced == Coalesced(sequences)
             n == Len(sequences)
  <1>0. \A T : PersistRequired(T)' <=> PersistRequired(T)
    BY DEF PersistRequired
  <1>1. n \in Nat /\ DOMAIN sequences = 1 .. n /\ fresh = { sequences[i] : i \in 1 .. n }
        /\ fresh \subseteq received'
    BY DEF ToSet
  <1>2. Records(coalesced, fresh)
    BY <1>1, CoalescedRecords
  <1>3. Records(durable, Stored) /\ lost \cap ToSet(pendingBatch) = {} /\ lost \subseteq received
        /\ Stored \subseteq received \ ToSet(pendingBatch)
        /\ \A k \in lost : \A r \in DOMAIN durable :
             (\A m \in durable[r] : m < k) \/ (\A m \in durable[r] : k < m)
    BY DEF PersisterIInv, StoredInOrder, PersisterTypeOK, Stored
  <1>4. pendingBatch' = rest
    BY DEF Flush
  <1>5. lost \subseteq received \ ToSet(pendingBatch)
    BY <1>3
  <1> DEFINE before == received \ ToSet(pendingBatch)
             stored == received' \ (lost' \cup ToSet(rest))
             Placed == /\ Records(durable', stored)
                       /\ \A k \in lost' : \A r \in DOMAIN durable' :
                            (\A m \in durable'[r] : m < k) \/ (\A m \in durable'[r] : k < m)
                       /\ lost' \cap ToSet(rest) = {} /\ lost' \subseteq received'
  <1>6. \A m \in before, k \in fresh : m < k
    OBVIOUS
  <1>7. lost \subseteq before /\ Stored = before \ lost /\ fresh \cap before = {}
    <2>1. \A k \in fresh : k \in Nat /\ ~ (k < k)
      <3> HIDE DEF fresh
      <3> QED BY <1>1
    <2> HIDE DEF fresh
    <2>2. lost \subseteq before /\ Stored = before \ lost
      BY <1>3 DEF Stored
    <2> QED BY <1>6, <2>1, <2>2
  <1>8. \A r \in DOMAIN durable : durable[r] \subseteq Stored
    BY <1>3 DEF Records
  <1> HIDE DEF coalesced
  <1>9. ASSUME durable' = durable \o coalesced, UNCHANGED lost PROVE Placed
    <2>1. stored = Stored \cup fresh
      <3>1. received' \ ToSet(rest) = before \cup fresh
        OBVIOUS
      <3> HIDE DEF before, fresh
      <3> QED BY <1>7, <1>9, <3>1
    <2>2. Records(durable', stored)
      <3>1. \A m \in Stored, k \in fresh : m < k
        BY <1>6, <1>7
      <3> HIDE DEF fresh, stored
      <3> QED BY <1>2, <1>3, <1>9, <2>1, <3>1, RecordsJoined
    <2>3. \A k \in lost' : \A r \in DOMAIN durable' :
            (\A m \in durable'[r] : m < k) \/ (\A m \in durable'[r] : k < m)
      <3> SUFFICES ASSUME NEW k \in lost, NEW r \in DOMAIN durable'
                   PROVE  (\A m \in durable'[r] : m < k) \/ (\A m \in durable'[r] : k < m)
        BY <1>9
      <3>1. \/ r \in DOMAIN durable /\ durable'[r] = durable[r]
            \/ durable'[r] \subseteq fresh
        <4>1. /\ durable \in Seq(SUBSET Stored) /\ coalesced \in Seq(SUBSET fresh)
              /\ Len(durable) \in Nat /\ Len(coalesced) \in Nat
              /\ DOMAIN durable = 1 .. Len(durable) /\ DOMAIN coalesced = 1 .. Len(coalesced)
          BY <1>2, <1>3 DEF Records
        <4>2. /\ r \in 1 .. Len(durable) + Len(coalesced)
              /\ durable'[r] = IF r <= Len(durable) THEN durable[r] ELSE coalesced[r - Len(durable)]
          <5> HIDE DEF fresh
          <5> QED BY <1>9, <4>1
        <4>3. CASE r <= Len(durable)
          BY <4>1, <4>2, <4>3
        <4>4. CASE r > Len(durable)
          <5>1. r - Len(durable) \in DOMAIN coalesced
            BY <4>1, <4>2, <4>4
          <5>2. coalesced[r - Len(durable)] \in SUBSET fresh
            BY <4>1, <5>1
          <5> QED BY <4>1, <4>2, <4>4, <5>2
        <4> QED BY <4>1, <4>2, <4>3, <4>4
      <3>2. \A m \in fresh : k < m
        BY <1>6, <1>7
      <3> QED BY <1>3, <3>1, <3>2
    <2>4. lost' \cap ToSet(rest) = {} /\ lost' \subseteq received'
      BY <1>3, <1>7, <1>9
    <2> HIDE DEF stored
    <2> QED BY <2>2, <2>3, <2>4
  <1>10. ASSUME lost' = lost \cup { m \in fresh : PersistRequired(m) }, UNCHANGED durable
         PROVE  Placed
    <2>1. Stored \subseteq stored /\ \A m \in stored : PersistRequired(m) => m \in Stored
      <3>1. received' \ ToSet(rest) = before \cup fresh
        OBVIOUS
      <3> HIDE DEF before, fresh
      <3> QED BY <1>7, <1>10, <3>1
    <2>2. Records(durable', stored)
      <3> HIDE DEF stored
      <3> QED BY <1>3, <1>10, <2>1, RecordsOfMore
    <2>3. \A k \in lost' : \A r \in DOMAIN durable' :
            (\A m \in durable'[r] : m < k) \/ (\A m \in durable'[r] : k < m)
      <3>1. \A k \in fresh : \A r \in DOMAIN durable : \A m \in durable[r] : m < k
        BY <1>6, <1>7, <1>8
      <3> QED BY <1>3, <1>10, <3>1
    <2>4. lost' \cap ToSet(rest) = {} /\ lost' \subseteq received'
      <3>1. fresh \cap ToSet(rest) = {} /\ before \cap ToSet(rest) = {}
        OBVIOUS
      <3> HIDE DEF before, fresh
      <3> QED BY <1>1, <1>3, <1>7, <1>10, <3>1
    <2> HIDE DEF stored
    <2> QED BY <2>2, <2>3, <2>4
  <1>11. Placed
    BY <1>9, <1>10 DEF Flush, coalesced
  <1>12. stored = Stored'
    BY <1>4 DEF Stored
  <1>13. Records(durable, Stored)'
    <2>1. Records(durable', Stored')
      BY <1>11, <1>12
    <2> QED BY <2>1 DEF Records, PersistRequired
  <1>14. durable' \in Seq(SUBSET received')
    <2>1. durable' \in Seq(SUBSET Stored') /\ SUBSET Stored' \subseteq SUBSET received'
      BY <1>13 DEF Records, Stored
    <2> QED BY <2>1
  <1> HIDE DEF stored
  <1> QED BY <1>4, <1>11, <1>13, <1>14 DEF StoredInOrder

\* MaxOf is the greatest of a non-empty set of received sequences.
LEMMA MaximumReceived ==
  ASSUME PersisterTypeOK, received # {}
  PROVE  /\ MaxOf(received, 0) \in received
         /\ \A m \in received : m <= MaxOf(received, 0)
PROOF
  <1>1. Len(streamEvents) \in Nat /\ received \in SUBSET (0 .. Len(streamEvents))
    BY DEF PersisterTypeOK
  <1>2. \E m \in received : \A k \in received : k <= m
    BY <1>1, GreatestOfNaturals
  <1> QED BY <1>2 DEF MaxOf

\* The event the persister is handed is newer than all it has received.
LEMMA ReceivedAreOlder ==
  ASSUME PersisterTypeOK, NEW n \in DOMAIN streamEvents, ReceiveEvent(n)
  PROVE  \A m \in received : m < n
PROOF
  <1>1. MaxOf(received, 0) < n
    BY DEF ReceiveEvent, Feed!Deliver, Reader
  <1>2. Len(streamEvents) \in Nat /\ DOMAIN streamEvents = 1 .. Len(streamEvents)
        /\ received \in SUBSET (0 .. Len(streamEvents))
    BY DEF PersisterTypeOK
  <1>3. CASE received # {}
    <2>2. MaxOf(received, 0) \in received /\ \A k \in received : k <= MaxOf(received, 0)
      BY <1>3, MaximumReceived
    <2>3. received \subseteq Nat
      BY <1>2
    <2>4. MaxOf(received, 0) \in Nat
      BY <2>2, <2>3
    <2>5. n \in Nat /\ \A m \in received : m \in Nat
      BY <1>2, <2>3
    <2> QED BY <1>1, <2>2, <2>4, <2>5
  <1> QED BY <1>3

\* What the batch holds, and the same with one more.
LEMMA BatchExtended ==
  ASSUME PersisterIInv, NEW n \in Nat, \A m \in received : m < n
  PROVE  LET b == Append(pendingBatch, n)
         IN /\ b \in Seq(received \cup {n}) /\ ToSet(b) = ToSet(pendingBatch) \cup {n}
            /\ \A i, j \in DOMAIN b : i < j => b[i] < b[j]
            /\ pendingBatch \in Seq(received \cup {n}) /\ ToSet(pendingBatch) \subseteq received
            /\ n \notin received
PROOF
  <1> DEFINE b == Append(pendingBatch, n)
             k == Len(pendingBatch)
  <1>1. /\ pendingBatch \in Seq(received) /\ k \in Nat /\ DOMAIN pendingBatch = 1 .. k
        /\ \A i \in 1 .. k : pendingBatch[i] \in received
    BY DEF PersisterIInv, PersisterTypeOK
  <1>2. pendingBatch \in Seq(received \cup {n})
    BY <1>1
  <1>3. /\ b \in Seq(received \cup {n}) /\ DOMAIN b = 1 .. k + 1
        /\ b[k + 1] = n /\ \A i \in 1 .. k : b[i] = pendingBatch[i]
    BY <1>1, <1>2
  <1>4. DOMAIN b = (1 .. k) \cup {k + 1}
    BY <1>1, <1>3
  <1> HIDE DEF b
  <1>5. ToSet(b) = ToSet(pendingBatch) \cup {n}
    BY <1>1, <1>3, <1>4 DEF ToSet
  <1>6. ASSUME NEW i \in DOMAIN b, NEW j \in DOMAIN b, i < j PROVE b[i] < b[j]
    <2>1. i \in 1 .. k
      BY <1>1, <1>3, <1>6
    <2>2. CASE j = k + 1
      BY <1>1, <1>3, <2>1, <2>2
    <2>3. CASE j # k + 1
      BY <1>1, <1>3, <1>4, <1>6, <2>1, <2>3 DEF PersisterIInv, BatchAhead
    <2> QED BY <2>2, <2>3
  <1>7. ToSet(pendingBatch) \subseteq received /\ n \notin received
    BY <1>1 DEF ToSet
  <1> QED BY <1>2, <1>3, <1>5, <1>6, <1>7 DEF b

\* The event is put into the batch, flushed with it, or waits for the batch to
\* be flushed.
LEMMA ReceiveKeeps ==
  ASSUME PersisterIInv, NEW n \in DOMAIN streamEvents, ReceiveEvent(n)
  PROVE  PersisterIInv'
PROOF
  <1> DEFINE b == Append(pendingBatch, n)
             before == received \ ToSet(pendingBatch)
  <1>1. /\ streamEvents' = streamEvents /\ feedClosed' = feedClosed
        /\ received' = received \cup {n} /\ persister = "reading"
        /\ persister' = IF streamEvents[n].type = "flow_finished" THEN "ended" ELSE persister
    BY DEF ReceiveEvent
  <1>2. n \in Nat /\ received' \subseteq Nat /\ received' \subseteq DOMAIN streamEvents
        /\ \A m \in received' : m \in Nat
    <2>1. DOMAIN streamEvents = 1 .. Len(streamEvents) /\ received \subseteq DOMAIN streamEvents
      BY DEF PersisterIInv, PersisterTypeOK
    <2> QED BY <1>1, <2>1
  <1>3. \A m \in received : m < n
    BY ReceivedAreOlder DEF PersisterIInv
  <1>4. /\ b \in Seq(received') /\ ToSet(b) = ToSet(pendingBatch) \cup {n}
        /\ \A i, j \in DOMAIN b : i < j => b[i] < b[j]
        /\ pendingBatch \in Seq(received') /\ ToSet(pendingBatch) \subseteq received
        /\ n \notin received
    BY <1>1, <1>2, <1>3, BatchExtended
  <1>5. /\ \A i, j \in DOMAIN pendingBatch : i < j => pendingBatch[i] < pendingBatch[j]
        /\ \A m \in before, k \in ToSet(pendingBatch) : m < k
    BY DEF PersisterIInv, BatchAhead
  <1>6. ToSet(<<>>) = {} /\ ToSet(<<n>>) = {n}
    BY DEF ToSet
  <1>7. <<n>> \in Seq(received') /\ <<>> \in Seq(received')
    BY <1>1
  <1>8. /\ feedClosed' \in BOOLEAN /\ persister' \in { "new", "reading", "ended" }
        /\ streamEvents' \in Seq(StreamEvent)
    BY <1>1 DEF PersisterIInv, PersisterTypeOK
  <1> HIDE DEF b
  <1>9. CASE IsDelta(n) /\ pendingBatch # <<>>
               /\ streamEvents[Last(pendingBatch)].type # streamEvents[n].type
    <2>1. Flush(pendingBatch, <<n>>)
      BY <1>9 DEF ReceiveEvent
    <2>2. /\ received' \ ToSet(<<n>>) = before \cup ToSet(pendingBatch)
          /\ ToSet(<<n>>) \cap ToSet(pendingBatch) = {}
          /\ ToSet(<<n>>) \cap before = {}
      BY <1>1, <1>4, <1>6
    <2>3. /\ StoredInOrder' /\ pendingBatch' = <<n>>
          /\ durable' \in Seq(SUBSET received') /\ lost' \subseteq received'
      BY <1>1, <1>2, <1>4, <1>5, <2>1, <2>2, FlushStores
    <2>4. persister' = "reading"
      BY <1>1, <1>9 DEF IsDelta, DeltaType
    <2>5. BatchAhead'
      BY <1>1, <1>3, <1>6, <2>3, <2>4 DEF BatchAhead
    <2> QED BY <1>1, <1>2, <1>7, <1>8, <2>3, <2>5 DEF PersisterIInv, PersisterTypeOK
  <1>10. CASE IsDelta(n) /\ ~ (pendingBatch # <<>>
               /\ streamEvents[Last(pendingBatch)].type # streamEvents[n].type)
    <2>1. pendingBatch' = b /\ UNCHANGED <<durable, lost>>
      BY <1>10 DEF ReceiveEvent, b
    <2>2. persister' = "reading"
      BY <1>1, <1>10 DEF IsDelta, DeltaType
    <2>3. received' \ ToSet(b) = before
      BY <1>1, <1>4
    <2>4. BatchAhead'
      BY <1>3, <1>4, <1>5, <2>1, <2>2, <2>3 DEF BatchAhead
    <2>5. Stored' = Stored /\ lost \subseteq received
      BY <1>1, <1>4, <2>1 DEF Stored, PersisterIInv, PersisterTypeOK
    <2>6. StoredInOrder'
      BY <1>1, <1>4, <2>1, <2>5 DEF PersisterIInv, StoredInOrder, Records, PersistRequired
    <2>7. durable' \in Seq(SUBSET received')
      <3>1. durable \in Seq(SUBSET received) /\ SUBSET received \subseteq SUBSET received'
        BY <1>1 DEF PersisterIInv, PersisterTypeOK
      <3> QED BY <2>1, <3>1
    <2> QED
      BY <1>1, <1>2, <1>4, <1>8, <2>1, <2>4, <2>5, <2>6, <2>7 DEF PersisterIInv, PersisterTypeOK
  <1>11. CASE ~ IsDelta(n)
    <2>1. Flush(b, <<>>)
      BY <1>11 DEF ReceiveEvent, b
    <2>2. /\ received' \ ToSet(<<>>) = before \cup ToSet(b)
          /\ ToSet(<<>>) \cap ToSet(b) = {}
          /\ ToSet(<<>>) \cap before = {}
      BY <1>1, <1>4, <1>6
    <2>3. \A m \in before, k \in ToSet(b) : m < k
      BY <1>3, <1>4, <1>5
    <2>4. /\ StoredInOrder' /\ pendingBatch' = <<>>
          /\ durable' \in Seq(SUBSET received') /\ lost' \subseteq received'
      BY <1>1, <1>2, <1>4, <2>1, <2>2, <2>3, FlushStores
    <2>5. BatchAhead'
      BY <1>6, <2>4 DEF BatchAhead
    <2> QED BY <1>1, <1>2, <1>7, <1>8, <2>4, <2>5 DEF PersisterIInv, PersisterTypeOK
  <1> QED BY <1>9, <1>10, <1>11

\* Every other step leaves what is stored, or flushes the batch at the end.
LEMMA PersisterStep == ASSUME PersisterIInv, [PersisterNext]_persisterVars PROVE PersisterIInv'
PROOF
  <1>1. ASSUME NEW event \in StreamEvent, EmitEvent(event)
        PROVE  PersisterIInv'
    <2>1. /\ streamEvents' = Append(streamEvents, event)
          /\ UNCHANGED <<feedClosed, received, pendingBatch, durable, lost, persister>>
      BY <1>1 DEF EmitEvent
    <2>2. /\ streamEvents' \in Seq(StreamEvent) /\ DOMAIN streamEvents \subseteq DOMAIN streamEvents'
          /\ \A m \in DOMAIN streamEvents : streamEvents'[m] = streamEvents[m]
      BY <2>1 DEF PersisterIInv, PersisterTypeOK
    <2>3. PersisterTypeOK' /\ BatchAhead'
      BY <2>1, <2>2 DEF PersisterIInv, PersisterTypeOK, BatchAhead
    <2>4. Stored' = Stored /\ Stored \subseteq DOMAIN streamEvents
      BY <2>1 DEF Stored, PersisterIInv, PersisterTypeOK
    <2>5. Records(durable, Stored)'
      <3>1. Records(durable, Stored) /\ \A r \in DOMAIN durable : durable[r] \subseteq Stored
        BY DEF PersisterIInv, StoredInOrder, Records
      <3> QED BY <2>1, <2>2, <2>4, <3>1 DEF Records, PersistRequired
    <2> QED BY <2>1, <2>3, <2>5 DEF PersisterIInv, StoredInOrder
  <1>2. ASSUME UNCHANGED <<streamEvents, received, pendingBatch, durable, lost>>,
               feedClosed' \in BOOLEAN, persister' \in { "new", "reading", "ended" },
               persister' # "reading" => pendingBatch = <<>>
        PROVE  PersisterIInv'
    BY <1>2 DEF PersisterIInv, PersisterTypeOK, BatchAhead, StoredInOrder, Stored, Records,
       PersistRequired
  <1>3. CASE CloseStream
    BY <1>2, <1>3 DEF CloseStream, PersisterIInv, PersisterTypeOK, BatchAhead
  <1>4. CASE SubscribePersister
    BY <1>2, <1>4 DEF SubscribePersister, PersisterIInv, PersisterTypeOK, BatchAhead
  <1>5. ASSUME NEW n \in DOMAIN streamEvents, ReceiveEvent(n)
        PROVE  PersisterIInv'
    BY <1>5, ReceiveKeeps
  <1>6. CASE FeedEnds
    <2>1. CASE pendingBatch = <<>>
      BY <1>2, <1>6, <2>1 DEF FeedEnds, PersisterIInv, PersisterTypeOK
    <2>2. CASE pendingBatch # <<>>
      <3>1. Flush(pendingBatch, <<>>) /\ UNCHANGED <<streamEvents, feedClosed, received>>
            /\ persister' = "ended"
        BY <1>6, <2>2 DEF FeedEnds
      <3>2. ToSet(<<>>) = {}
        BY DEF ToSet
      <3>3. pendingBatch \in Seq(received') /\ received' \subseteq Nat
            /\ received' \ ToSet(<<>>) = (received \ ToSet(pendingBatch)) \cup ToSet(pendingBatch)
        <4>1. pendingBatch \in Seq(received) /\ DOMAIN streamEvents = 1 .. Len(streamEvents)
              /\ received \subseteq DOMAIN streamEvents
          BY DEF PersisterIInv, PersisterTypeOK
        <4>2. ToSet(pendingBatch) \subseteq received
          BY <4>1 DEF ToSet
        <4> QED BY <3>1, <3>2, <4>1, <4>2
      <3>4. /\ \A i, j \in DOMAIN pendingBatch : i < j => pendingBatch[i] < pendingBatch[j]
            /\ \A m \in received \ ToSet(pendingBatch), n \in ToSet(pendingBatch) : m < n
        BY DEF PersisterIInv, BatchAhead
      <3>5. /\ StoredInOrder' /\ pendingBatch' = <<>>
            /\ durable' \in Seq(SUBSET received') /\ lost' \subseteq received'
        BY <3>1, <3>2, <3>3, <3>4, FlushStores
      <3>6. BatchAhead'
        BY <3>2, <3>5 DEF BatchAhead
      <3> QED BY <3>1, <3>5, <3>6 DEF PersisterIInv, PersisterTypeOK
    <2> QED BY <2>1, <2>2
  <1>7. CASE UNCHANGED persisterVars
    BY <1>2, <1>7 DEF persisterVars, PersisterIInv, PersisterTypeOK, BatchAhead
  <1> QED BY <1>1, <1>3, <1>4, <1>5, <1>6, <1>7 DEF PersisterNext

\* The inductive invariant holds of every reachable state.
THEOREM PersisterInvariant == PersisterSpec => []PersisterIInv
PROOF
  <1>1. PersisterInit => PersisterIInv
    <2> SUFFICES ASSUME PersisterInit PROVE PersisterIInv
      OBVIOUS
    <2>1. ToSet(<<>>) = {}
      BY DEF ToSet
    <2>2. PersisterTypeOK /\ BatchAhead
      <3>1. PersisterTypeOK
        <4>1. streamEvents \in Seq(StreamEvent)
          BY DEF PersisterInit
        <4>4. feedClosed \in BOOLEAN /\ received \subseteq DOMAIN streamEvents /\ lost \subseteq received
          BY Zenon DEF PersisterInit
        <4>2. pendingBatch \in Seq(received) /\ durable \in Seq(SUBSET received)
          BY DEF PersisterInit
        <4>3. persister \in { "new", "reading", "ended" }
          BY DEF PersisterInit
        <4> QED BY <4>1, <4>2, <4>3, <4>4 DEF PersisterTypeOK
      <3>2. BatchAhead
        BY <2>1 DEF PersisterInit, BatchAhead
      <3> QED BY <3>1, <3>2
    <2>3. StoredInOrder
      BY DEF PersisterInit, StoredInOrder, Records, Stored
    <2> QED BY <2>2, <2>3 DEF PersisterIInv
  <1> QED BY <1>1, PersisterStep, PTL DEF PersisterSpec

\* Whatever is to be persisted is stored once, in the batch once, or lost.
THEOREM PersistedOnceHolds == PersisterSpec => []PersistedOnce
PROOF
  <1>1. PersisterIInv => PersistedOnce
    <2> SUFFICES ASSUME PersisterIInv PROVE PersistedOnce
      OBVIOUS
    <2>1. persister = "ended" => pendingBatch = <<>>
      BY DEF PersisterIInv, BatchAhead
    <2>2. ASSUME NEW n \in received, PersistRequired(n)
          PROVE  Cardinality({ i \in DOMAIN durable : n \in durable[i] })
                   + Cardinality({ i \in DOMAIN pendingBatch : pendingBatch[i] = n })
                   + (IF n \in lost THEN 1 ELSE 0) = 1
      <3> DEFINE records == { i \in DOMAIN durable : n \in durable[i] }
                 places == { i \in DOMAIN pendingBatch : pendingBatch[i] = n }
      <3>1. /\ Records(durable, Stored) /\ lost \cap ToSet(pendingBatch) = {}
            /\ \A r \in DOMAIN durable : durable[r] \subseteq Stored
        BY DEF PersisterIInv, StoredInOrder, Records
      <3>2. n \in Nat /\ DOMAIN durable \subseteq Nat /\ DOMAIN pendingBatch \subseteq Nat
        <4>1. received \subseteq 1 .. Len(streamEvents) /\ DOMAIN durable = 1 .. Len(durable)
              /\ DOMAIN pendingBatch = 1 .. Len(pendingBatch)
          BY DEF PersisterIInv, PersisterTypeOK
        <4> QED BY <4>1
      <3>3. n \in Stored => \E r : records = {r}
        <4>1. n \in Stored => \E r \in DOMAIN durable : n \in durable[r]
          BY <2>2, <3>1 DEF Records
        <4>2. \A q, r \in DOMAIN durable : n \in durable[q] /\ n \in durable[r] => ~ (q < r)
          BY <3>1, <3>2 DEF Records
        <4>3. \A q, r \in DOMAIN durable : q < r \/ r < q \/ q = r
          BY <3>2
        <4> QED BY <4>1, <4>2, <4>3
      <3>4. n \notin Stored => records = {}
        BY <3>1
      <3>5. n \in ToSet(pendingBatch) => \E i : places = {i}
        <4>1. \A i, j \in DOMAIN pendingBatch : i < j => pendingBatch[i] < pendingBatch[j]
          BY DEF PersisterIInv, BatchAhead
        <4>2. \A i, j \in DOMAIN pendingBatch : i < j \/ j < i \/ i = j
          BY <3>2
        <4>3. \A i, j \in places : i = j
          BY <3>2, <4>1, <4>2
        <4> QED BY <4>3 DEF ToSet
      <3>6. n \notin ToSet(pendingBatch) => places = {}
        BY DEF ToSet
      <3>7. n \in Stored <=> n \notin lost /\ n \notin ToSet(pendingBatch)
        BY DEF Stored
      <3> HIDE DEF records, places
      <3>8. /\ \A i : Cardinality({i}) = 1
            /\ Cardinality({}) = 0
        BY FS_Singleton, FS_EmptySet
      <3>9. CASE n \in lost
        BY <3>1, <3>4, <3>6, <3>7, <3>8, <3>9 DEF records, places
      <3>10. CASE n \in ToSet(pendingBatch)
        <4>1. n \notin lost /\ records = {}
          BY <3>1, <3>4, <3>7, <3>10
        <4>2. PICK i : places = {i}
          BY <3>5, <3>10
        <4>3. Cardinality(records) = 0 /\ Cardinality(places) = 1
          BY <3>8, <4>1, <4>2
        <4> QED BY <4>1, <4>3 DEF records, places
      <3>11. CASE n \in Stored
        BY <3>3, <3>6, <3>7, <3>8, <3>11 DEF records, places
      <3> QED BY <3>7, <3>9, <3>10, <3>11
    <2> QED BY <2>1, <2>2 DEF PersistedOnce
  <1> QED BY <1>1, PersisterInvariant, PTL

\* The records follow the stream, whatever it carries and however often a
\* store fails.
THEOREM RecordsFollowTheStreamHolds == PersisterSpec => []RecordsFollowTheStream
PROOF
  <1>1. PersisterIInv => RecordsFollowTheStream
    <2> SUFFICES ASSUME PersisterIInv, NEW i \in DOMAIN durable, NEW m \in durable[i], NEW n \in durable[i]
                 PROVE  /\ streamEvents[m] = streamEvents[n]
                        /\ \A k \in m .. n : k \in received /\ PersistRequired(k) => k \in durable[i]
                        /\ i > 1 => \A k \in durable[i - 1] : k < m
      BY DEF RecordsFollowTheStream
    <2>1. /\ Records(durable, Stored) /\ durable[i] \subseteq Stored /\ Stored \subseteq received
      BY DEF PersisterIInv, StoredInOrder, Records, Stored
    <2>2. /\ received \subseteq Nat /\ DOMAIN durable = 1 .. Len(durable) /\ Len(durable) \in Nat
      <3>1. received \subseteq 1 .. Len(streamEvents) /\ durable \in Seq(SUBSET received)
        BY DEF PersisterIInv, PersisterTypeOK
      <3> QED BY <3>1
    <2>3. m \in Nat /\ n \in Nat /\ i \in Nat
      <3>1. m \in received /\ n \in received
        BY <2>1
      <3>2. i \in 1 .. Len(durable)
        BY <2>2
      <3>3. i \in Nat
        BY <2>2, <3>2
      <3> QED BY <2>2, <3>1, <3>3, Zenon
    <2>4. ASSUME NEW k \in m .. n, k \in received, PersistRequired(k)
          PROVE  k \in durable[i]
      <3>1. k \in Nat /\ m <= k /\ k <= n
        BY <2>2, <2>3, <2>4
      <3>2. k \notin lost
        BY <2>3, <3>1 DEF PersisterIInv, StoredInOrder
      <3>3. k \notin ToSet(pendingBatch)
        <4>1. n \in received \ ToSet(pendingBatch)
          BY <2>1 DEF Stored
        <4>2. k \in ToSet(pendingBatch) => n < k
          BY <4>1 DEF PersisterIInv, BatchAhead
        <4> QED BY <2>3, <3>1, <4>2
      <3>4. PICK r \in DOMAIN durable : k \in durable[r]
        BY <2>1, <2>4, <3>2, <3>3 DEF Records, Stored
      <3>5. CASE r < i
        <4>1. k < m
          BY <2>1, <3>4, <3>5 DEF Records
        <4> QED BY <2>3, <3>1, <4>1
      <3>6. CASE i < r
        <4>1. n < k
          BY <2>1, <3>4, <3>6 DEF Records
        <4> QED BY <2>3, <3>1, <4>1
      <3> QED BY <2>2, <3>4, <3>5, <3>6
    <2>5. i > 1 => \A k \in durable[i - 1] : k < m
      <3>1. i > 1 => i - 1 \in DOMAIN durable /\ i - 1 < i
        BY <2>2
      <3> QED BY <2>1, <3>1 DEF Records
    <2> QED BY <2>1, <2>4, <2>5 DEF Records
  <1> QED BY <1>1, PersisterInvariant, PTL

\* The persister is a reader of the feed, so every stream that implements the
\* feed may be the one it reads.
LEMMA PersisterFeedStep ==
  ASSUME PersisterIInv, [PersisterNext]_persisterVars
  PROVE  [Feed!Next]_(Feed!feedVars)
PROOF
  <1>1. ASSUME NEW event \in StreamEvent, EmitEvent(event) PROVE Feed!Next
    <2>1. FeedKind(event) \in Feed!Kind
      BY DEF FeedKind, Feed!Kind
    <2> QED BY <1>1, <2>1 DEF EmitEvent, Feed!Next
  <1>2. CASE CloseStream
    <2>1. Feed!Close
      BY <1>2 DEF CloseStream, Feed!Close
    <2> QED BY <2>1 DEF Feed!Next
  <1>3. ASSUME NEW n \in DOMAIN streamEvents, ReceiveEvent(n) PROVE Feed!Next
    <2> DEFINE kinds == [i \in DOMAIN streamEvents |-> FeedKind(streamEvents[i])]
    <2>1. n \in 1 .. Len(kinds) /\ {n} \in SUBSET (1 .. Len(kinds))
      <3>1. DOMAIN streamEvents = 1 .. Len(streamEvents) /\ Len(streamEvents) \in Nat
        BY DEF PersisterIInv, PersisterTypeOK
      <3>2. Len(kinds) = Len(streamEvents)
        BY <3>1
      <3> QED BY <3>1, <3>2
    <2>2. Feed!Deliver("persister", {n}, n) /\ "persister" \in Reader
      BY <1>3 DEF ReceiveEvent, Reader
    <2> QED BY <2>1, <2>2 DEF Feed!Next
  <1>4. CASE UNCHANGED <<streamEvents, feedClosed, received>>
    BY <1>4 DEF Feed!feedVars
  <1> QED
    BY <1>1, <1>2, <1>3, <1>4 DEF PersisterNext, persisterVars, SubscribePersister, FeedEnds

\* The persister and its run behave as a reader of the feed and its log.
THEOREM PersisterReadsTheFeed == PersisterSpec => Feed!Spec
PROOF
  <1>1. PersisterInit => Feed!Init
    <2> SUFFICES ASSUME PersisterInit PROVE Feed!Init
      OBVIOUS
    <2>1. [n \in DOMAIN streamEvents |-> FeedKind(streamEvents[n])] = <<>>
      BY DEF PersisterInit
    <2>2. MaxOf(received, 0) = 0
      BY DEF PersisterInit, MaxOf
    <2> QED BY <2>1, <2>2 DEF PersisterInit, Feed!Init
  <1> QED BY <1>1, PersisterInvariant, PersisterFeedStep, PTL DEF PersisterSpec, Feed!Spec

(* What the durable log owes its readers: of all events up to the last one  *)
(* that has reached it, none that is to be persisted is missing, unless it  *)
(* waits in the batch or a store that failed lost it.                       *)
DurableLogIsComplete ==
  \A n \in received : \A m \in 1 .. n : PersistRequired(m) =>
    \/ \E r \in DOMAIN durable : m \in durable[r]
    \/ m \in ToSet(pendingBatch)
    \/ m \in lost

(* No event before one received was passed over, an ephemeral one aside.    *)
ReceivedInTurn ==
  \A n \in received : \A m \in 1 .. n : PersistRequired(m) => m \in received

\* The feed delivers to the persister every event that is to be persisted.
LEMMA ReceivedInTurnStep ==
  ASSUME PersisterIInv, ReceivedInTurn, [PersisterNext]_persisterVars
  PROVE  ReceivedInTurn'
PROOF
  <1>1. /\ received \subseteq 1 .. Len(streamEvents) /\ Len(streamEvents) \in Nat
        /\ streamEvents \in Seq(StreamEvent) /\ DOMAIN streamEvents = 1 .. Len(streamEvents)
    BY DEF PersisterIInv, PersisterTypeOK
  <1>2. ASSUME NEW event \in StreamEvent, EmitEvent(event) PROVE ReceivedInTurn'
    <2>1. received' = received /\ streamEvents' = Append(streamEvents, event)
      BY <1>2 DEF EmitEvent
    <2>2. \A n \in 1 .. Len(streamEvents) : streamEvents'[n] = streamEvents[n]
      BY <1>1, <2>1
    <2>3. ASSUME NEW n \in received, NEW m \in 1 .. n
          PROVE  streamEvents'[m] = streamEvents[m]
      BY <1>1, <2>2
    <2> QED BY <2>1, <2>3 DEF ReceivedInTurn, PersistRequired
  <1>3. ASSUME NEW n \in DOMAIN streamEvents, ReceiveEvent(n) PROVE ReceivedInTurn'
    <2> DEFINE newest == MaxOf(received, 0)
    <2>1. received' = received \cup {n} /\ streamEvents' = streamEvents
      BY <1>3 DEF ReceiveEvent
    <2>2. \A m \in newest + 1 .. n : Feed!Required(m) => m = n
      BY <1>3 DEF ReceiveEvent, Feed!Deliver, Reader
    <2>3. \A m \in DOMAIN streamEvents : PersistRequired(m) => Feed!Required(m)
      BY DEF PersistRequired, Feed!Required, FeedKind
    <2>4. newest = 0 \/ newest \in received
      <3>1. CASE received = {}
        BY <3>1 DEF MaxOf
      <3>2. CASE received # {}
        BY <3>2, MaximumReceived DEF PersisterIInv
      <3> QED BY <3>1, <3>2
    <2>5. n \in Nat /\ n <= Len(streamEvents) /\ newest \in Nat
      <3>1. received \subseteq Nat
        BY <1>1
      <3>2. newest \in Nat
        <4>1. \A k \in received \cup {0} : k \in Nat
          BY <3>1
        <4>2. newest \in received \cup {0}
          BY <2>4
        <4> HIDE DEF newest
        <4> QED BY <4>1, <4>2, Zenon
      <3>3. n \in 1 .. Len(streamEvents)
        BY <1>1, <1>3
      <3> QED BY <1>1, <3>2, <3>3
    <2> HIDE DEF newest
    <2>6. ASSUME NEW m \in 1 .. n, PersistRequired(m) PROVE m \in received'
      <3>1. CASE m <= newest
        <4>1. newest \in received /\ m \in 1 .. newest
          BY <2>4, <2>5, <3>1
        <4> QED BY <2>1, <2>6, <4>1 DEF ReceivedInTurn
      <3>2. CASE newest < m
        <4>1. m \in newest + 1 .. n /\ m \in DOMAIN streamEvents
          BY <1>1, <2>5, <3>2
        <4> QED BY <2>1, <2>2, <2>3, <2>6, <4>1
      <3> QED BY <2>5, <3>1, <3>2
    <2>7. \A m : PersistRequired(m)' = PersistRequired(m)
      BY <2>1 DEF PersistRequired
    <2> QED BY <2>1, <2>6, <2>7 DEF ReceivedInTurn
  <1>4. CASE UNCHANGED <<streamEvents, received>>
    BY <1>4 DEF ReceivedInTurn, PersistRequired
  <1> QED
    BY <1>2, <1>3, <1>4
       DEF PersisterNext, persisterVars, CloseStream, SubscribePersister, FeedEnds

\* The durable log has no gap but for what failed stores lost, however the
\* deliveries, the flushes and their failures interleave.
THEOREM DurableLogIsCompleteHolds == PersisterSpec => []DurableLogIsComplete
PROOF
  <1>1. PersisterInit => ReceivedInTurn
    BY DEF PersisterInit, ReceivedInTurn
  <1>2. PersisterIInv /\ ReceivedInTurn => DurableLogIsComplete
    BY DEF PersisterIInv, StoredInOrder, Records, Stored, ReceivedInTurn, DurableLogIsComplete
  <1>3. PersisterIInv /\ ReceivedInTurn /\ [PersisterNext]_persisterVars => ReceivedInTurn'
    BY ReceivedInTurnStep
  <1> QED BY <1>1, <1>2, <1>3, PersisterInvariant, PTL DEF PersisterSpec

-----------------------------------------------------------------------------
(* EphemeralStores                                                          *)

(* What the entries of the two stores look like.                            *)
EntriesOK ==
  /\ \A t \in DOMAIN tasks : tasks[t] \in TaskEntry
  /\ lease \in [owner : Workers \cup {NoWorker}, valid : BOOLEAN]
  /\ working \in [Workers -> SUBSET TaskIds] /\ locking \subseteq Workers
  /\ DOMAIN tasks \subseteq 1 .. enqueued /\ enqueued \in 0 .. MaxTasks

(* A worker may take for its own only what the store says is its own, by a  *)
(* claim or a lease that is still valid.                                    *)
OwnIsClaimed ==
  /\ \A w \in Workers : \A t \in working[w] :
       t \in DOMAIN tasks /\ tasks[t].claimed_by = w /\ tasks[t].valid = TRUE
  /\ \A w \in locking : lease.owner = w /\ lease.valid = TRUE

StoresIInv == EntriesOK /\ OwnIsClaimed

\* A claim passes on only once it has ended or was given back.
LEMMA ClaimStep ==
  ASSUME StoresIInv, NEW t \in DOMAIN tasks, NEW w \in Workers \cup {NoWorker}, NEW b \in BOOLEAN,
         tasks' = [tasks EXCEPT ![t].claimed_by = w, ![t].valid = b],
         \A v \in Workers : t \in working'[v] => w = v /\ b = TRUE,
         \A v \in Workers : working'[v] \ {t} \subseteq working[v],
         working' \in [Workers -> SUBSET TaskIds],
         UNCHANGED <<lease, locking, enqueued>>
  PROVE  StoresIInv'
PROOF
  <1>0. EntriesOK
    BY DEF StoresIInv
  (* The entry's claim is set, and no other entry is touched.              *)
  <1>1. /\ DOMAIN tasks' = DOMAIN tasks
        /\ \A x \in DOMAIN tasks : tasks'[x] =
             IF x = t THEN [key |-> tasks[t].key, claimed_by |-> w, valid |-> b] ELSE tasks[x]
    <2>1. DOMAIN tasks' = DOMAIN tasks
      OBVIOUS
    <2>2. tasks[t] = [key |-> tasks[t].key, claimed_by |-> tasks[t].claimed_by,
                      valid |-> tasks[t].valid]
      BY <1>0 DEF EntriesOK, TaskEntry
    <2>3. tasks'[t] = [tasks[t] EXCEPT !.claimed_by = w, !.valid = b]
      OBVIOUS
    <2>4. tasks'[t] = [key |-> tasks[t].key, claimed_by |-> w, valid |-> b]
      BY <2>2, <2>3
    <2>5. \A x \in DOMAIN tasks \ {t} : tasks'[x] = tasks[x]
      OBVIOUS
    <2> QED BY <2>1, <2>4, <2>5
  <1>2. EntriesOK'
    BY <1>1 DEF StoresIInv, EntriesOK, TaskEntry, TaskIds
  <1>3. OwnIsClaimed'
    BY <1>1 DEF StoresIInv, EntriesOK, OwnIsClaimed
  <1> QED BY <1>2, <1>3 DEF StoresIInv

\* Every call on one of the stores, and time, keeps what is one's own so.
LEMMA StoresStep == ASSUME StoresIInv, [StoresNext]_storesVars PROVE StoresIInv'
PROOF
  <1> USE StoresAssumption DEF StoresIInv, taskVars, lockVars
  <1>1. ASSUME NEW k \in TaskKeys \cup {NoTaskKey}, EnqueueTask(k)
        PROVE  StoresIInv'
    <2>1. /\ DOMAIN tasks' = DOMAIN tasks \cup {enqueued'}
          /\ \A t \in DOMAIN tasks : tasks'[t] = tasks[t]
          /\ tasks'[enqueued'] = [key |-> k, claimed_by |-> NoWorker, valid |-> FALSE]
          /\ enqueued' = enqueued + 1 /\ UNCHANGED <<working, lease, locking>>
      BY <1>1 DEF EnqueueTask, EntriesOK
    <2>0. enqueued < MaxTasks
      BY <1>1 DEF EnqueueTask
    <2>2. \A t \in DOMAIN tasks' : tasks'[t] \in TaskEntry
      <3>1. tasks'[enqueued'] \in TaskEntry
        BY <2>1 DEF TaskEntry
      <3> QED BY <2>1, <3>1 DEF EntriesOK
    <2>3. DOMAIN tasks' \subseteq 1 .. enqueued' /\ enqueued' \in 0 .. MaxTasks
      BY <2>0, <2>1 DEF EntriesOK
    <2>4. EntriesOK'
      BY <2>1, <2>2, <2>3 DEF EntriesOK
    <2>5. OwnIsClaimed'
      BY <2>1, <2>3 DEF EntriesOK, OwnIsClaimed
    <2> QED BY <2>4, <2>5
  <1>2. ASSUME NEW t \in TaskIds, ClaimExpires(t)
        PROVE  StoresIInv'
    <2>1. /\ t \in DOMAIN tasks /\ tasks[t].claimed_by \in Workers \cup {NoWorker}
          /\ working' = [w \in Workers |-> working[w] \ {t}]
          /\ UNCHANGED <<lease, locking, enqueued>>
      BY <1>2 DEF ClaimExpires, EntriesOK, TaskEntry
    <2>2. tasks' = [tasks EXCEPT ![t].claimed_by = tasks[t].claimed_by, ![t].valid = FALSE]
      BY <1>2, <2>1 DEF ClaimExpires, EntriesOK, TaskEntry
    <2> QED BY <2>1, <2>2, ClaimStep DEF EntriesOK
  <1>3. ASSUME NEW w \in Workers, ClaimTask(w)
        PROVE  StoresIInv'
    <2>1. PICK i \in DOMAIN taskQueue :
            /\ Claimable(taskQueue[i])
            /\ tasks' = [tasks EXCEPT ![taskQueue[i]].claimed_by = w, ![taskQueue[i]].valid = TRUE]
            /\ working' = [working EXCEPT ![w] = @ \cup {taskQueue[i]}]
            /\ UNCHANGED <<lease, locking, enqueued>>
      BY <1>3 DEF ClaimTask
    <2> DEFINE t == taskQueue[i]
    <2>2. t \in DOMAIN tasks /\ t \in TaskIds
      BY <2>1 DEF Claimable, EntriesOK, TaskIds
    <2>3. \A v \in Workers : t \notin working[v]
      BY <2>1 DEF Claimable, OwnIsClaimed
    <2>4. /\ \A v \in Workers : t \in working'[v] => v = w
          /\ \A v \in Workers : working'[v] \ {t} \subseteq working[v]
          /\ working' \in [Workers -> SUBSET TaskIds]
      BY <2>1, <2>2, <2>3 DEF EntriesOK
    <2> QED BY <2>1, <2>2, <2>4, ClaimStep
  <1>4. ASSUME NEW w \in Workers, NEW t \in TaskIds, AckTask(w, t)
        PROVE  StoresIInv'
    <2>1. /\ t \in DOMAIN tasks /\ tasks[t].claimed_by = w
          /\ tasks' = [x \in DOMAIN tasks \ {t} |-> tasks[x]]
          /\ working' = [working EXCEPT ![w] = @ \ {t}]
          /\ UNCHANGED <<lease, locking, enqueued>>
      BY <1>4 DEF AckTask
    <2>2. EntriesOK'
      BY <2>1 DEF EntriesOK
    <2>3. OwnIsClaimed'
      BY <2>1 DEF EntriesOK, OwnIsClaimed
    <2> QED BY <2>2, <2>3
  <1>5. ASSUME NEW w \in Workers, NEW t \in TaskIds, FailTask(w, t)
        PROVE  StoresIInv'
    <2>1. /\ t \in DOMAIN tasks /\ tasks[t].claimed_by = w
          /\ tasks' = [tasks EXCEPT ![t].claimed_by = NoWorker, ![t].valid = FALSE]
          /\ working' = [working EXCEPT ![w] = @ \ {t}]
          /\ UNCHANGED <<lease, locking, enqueued>>
      BY <1>5 DEF FailTask, MayFail
    <2>2. \A v \in Workers : t \notin working'[v] /\ working'[v] \subseteq working[v]
      BY <2>1 DEF EntriesOK, OwnIsClaimed
    <2> QED BY <2>1, <2>2, ClaimStep DEF EntriesOK
  <1>6. ASSUME NEW w \in Workers, AcquireLock(w)
        PROVE  StoresIInv'
    <2>1. /\ lease' = [owner |-> w, valid |-> TRUE] /\ locking' = locking \cup {w}
          /\ \A x \in locking : x = w
          /\ UNCHANGED <<tasks, working, enqueued>>
      BY <1>6 DEF AcquireLock, OwnIsClaimed
    <2> QED BY <2>1 DEF EntriesOK, OwnIsClaimed
  <1>7. ASSUME NEW w \in Workers, ReleaseLock(w)
        PROVE  StoresIInv'
    <2>1. /\ lease' = [owner |-> NoWorker, valid |-> FALSE] /\ locking' = {}
          /\ UNCHANGED <<tasks, working, enqueued>>
      BY <1>7 DEF ReleaseLock, Held, OwnIsClaimed, NoLease
    <2> QED BY <2>1 DEF EntriesOK, OwnIsClaimed
  <1>8. CASE LeaseExpires
    <2>1. /\ lease' \in [owner : Workers \cup {NoWorker}, valid : BOOLEAN] /\ locking' = {}
          /\ UNCHANGED <<tasks, working, enqueued>>
      BY <1>8 DEF LeaseExpires, EntriesOK
    <2> QED BY <2>1 DEF EntriesOK, OwnIsClaimed
  <1>9. CASE DropExpiredLease
    <2>1. /\ lease' = [owner |-> NoWorker, valid |-> FALSE] /\ locking' = {}
          /\ UNCHANGED <<tasks, working, enqueued>>
      BY <1>9 DEF DropExpiredLease, OwnIsClaimed, NoLease, EntriesOK
    <2> QED BY <2>1 DEF EntriesOK, OwnIsClaimed
  <1>10. CASE UNCHANGED storesVars
    BY <1>10 DEF storesVars, EntriesOK, OwnIsClaimed
  <1> QED BY <1>1, <1>2, <1>3, <1>4, <1>5, <1>6, <1>7, <1>8, <1>9, <1>10 DEF StoresNext

\* The inductive invariant holds of every reachable state.
THEOREM StoresInvariant == StoresSpec => []StoresIInv
PROOF
  <1>1. StoresInit => StoresIInv
    BY StoresAssumption DEF StoresInit, StoresIInv, EntriesOK, OwnIsClaimed, NoLease
  <1> QED BY <1>1, StoresStep, PTL DEF StoresSpec

\* However many workers there are, no two take a task or the lock for theirs.
THEOREM HeldByOneHolds == StoresSpec => []HeldByOne
PROOF
  <1>1. StoresIInv => HeldByOne
    BY DEF StoresIInv, OwnIsClaimed, HeldByOne
  <1> QED BY <1>1, StoresInvariant, PTL

(* Every task there is stands in the queue once, under an id that was given, *)
(* and the index leads from its key to it.                                   *)
QueueOfTasks ==
  /\ taskQueue \in Seq(1 .. enqueued)
  /\ \A i, j \in DOMAIN taskQueue : taskQueue[i] = taskQueue[j] => i = j
  /\ DOMAIN tasks = { taskQueue[i] : i \in DOMAIN taskQueue }
IndexOfTasks ==
  /\ taskIndex \in [TaskKeys -> 0 .. enqueued]
  /\ \A t \in DOMAIN tasks : tasks[t].key \in TaskKeys => taskIndex[tasks[t].key] = t

\* An enqueue puts the task at the end under a new id.
LEMMA EnqueueKeepsQueue ==
  ASSUME EntriesOK, QueueOfTasks, IndexOfTasks, NEW key \in TaskKeys \cup {NoTaskKey}, EnqueueTask(key)
  PROVE  QueueOfTasks' /\ IndexOfTasks'
PROOF
  <1> USE StoresAssumption DEF EntriesOK, EnqueueTask
  <1>1. enqueued \in Nat /\ enqueued' = enqueued + 1 /\ enqueued' \in 1 .. enqueued'
        /\ taskQueue' = Append(taskQueue, enqueued') /\ 1 .. enqueued \subseteq 1 .. enqueued'
    BY DEF EnqueueTask
  <1>2. taskQueue \in Seq(1 .. enqueued') /\ taskQueue' \in Seq(1 .. enqueued')
        /\ Len(taskQueue') = Len(taskQueue) + 1 /\ DOMAIN taskQueue' = 1 .. Len(taskQueue')
        /\ DOMAIN taskQueue = 1 .. Len(taskQueue)
        /\ taskQueue'[Len(taskQueue')] = enqueued'
        /\ \A i \in DOMAIN taskQueue :
             taskQueue'[i] = taskQueue[i] /\ taskQueue[i] \in 1 .. enqueued
    BY <1>1 DEF QueueOfTasks
  <1>3. \A i, j \in DOMAIN taskQueue' : taskQueue'[i] = taskQueue'[j] => i = j
    BY <1>1, <1>2 DEF QueueOfTasks
  <1>4. DOMAIN tasks' = { taskQueue'[i] : i \in DOMAIN taskQueue' }
    <2>1. DOMAIN tasks' = DOMAIN tasks \cup {enqueued'}
      OBVIOUS
    <2>2. DOMAIN taskQueue' = DOMAIN taskQueue \cup {Len(taskQueue')}
      BY <1>2
    <2> QED BY <1>2, <2>1, <2>2 DEF QueueOfTasks
  <1>5. IndexOfTasks'
    <2>1. ASSUME NEW t \in DOMAIN tasks, tasks[t].key \in TaskKeys
          PROVE  tasks[t].key # key /\ t # enqueued'
      BY <1>1, <2>1 DEF IndexOfTasks, KnownKey
    <2>2. taskIndex' \in [TaskKeys -> 0 .. enqueued']
      BY <1>1 DEF IndexOfTasks
    <2>3. ASSUME NEW t \in DOMAIN tasks', tasks'[t].key \in TaskKeys
          PROVE  taskIndex'[tasks'[t].key] = t
      <3>1. CASE t = enqueued'
        BY <2>3, <3>1
      <3>2. CASE t # enqueued'
        BY <2>1, <2>3, <3>2 DEF IndexOfTasks
      <3> QED BY <3>1, <3>2
    <2> QED BY <2>2, <2>3 DEF IndexOfTasks
  <1> QED BY <1>2, <1>3, <1>4, <1>5 DEF QueueOfTasks

\* An ack takes the task out of the queue, the entries and the index.
LEMMA AckKeepsQueue ==
  ASSUME EntriesOK, QueueOfTasks, IndexOfTasks, NEW w \in Workers, NEW t \in TaskIds, AckTask(w, t)
  PROVE  QueueOfTasks' /\ IndexOfTasks'
PROOF
  <1> USE StoresAssumption DEF EntriesOK
  <1> DEFINE kept == { i \in DOMAIN taskQueue : taskQueue[i] # t }
  <1>1. kept \subseteq Nat /\ IsFiniteSet(kept)
    <2>1. DOMAIN taskQueue = 1 .. Len(taskQueue) /\ Len(taskQueue) \in Nat
      BY DEF QueueOfTasks
    <2>2. IsFiniteSet(1 .. Len(taskQueue)) /\ kept \in SUBSET (1 .. Len(taskQueue))
      BY <2>1, FS_Interval
    <2> QED BY <2>1, <2>2, FS_Subset
  <1>2. taskQueue' = Retained(taskQueue, kept) /\ enqueued' = enqueued
        /\ tasks' = [x \in DOMAIN tasks \ {t} |-> tasks[x]]
    BY DEF AckTask
  <1>3. \A i \in kept : taskQueue[i] \in 1 .. enqueued /\ taskQueue[i] # t /\ i \in DOMAIN taskQueue
    BY DEF QueueOfTasks
  <1>4. \A i \in DOMAIN taskQueue : taskQueue[i] # t => i \in kept
    OBVIOUS
  <1> HIDE DEF kept
  <1> DEFINE at(k) == Position(kept, k)
  <1>9. /\ \A k \in DOMAIN taskQueue' : at(k) \in kept /\ taskQueue'[k] = taskQueue[at(k)]
        /\ \A i \in kept : \E k \in DOMAIN taskQueue' : taskQueue'[k] = taskQueue[i]
        /\ \A k, l \in DOMAIN taskQueue' : at(k) = at(l) => k = l
    <2> DEFINE r == Retained(taskQueue, kept)
    <2>1. DOMAIN r = 1 .. Cardinality(kept)
      BY <1>1, RetainedEntries
    <2>5. \A k \in 1 .. Cardinality(kept) : Position(kept, k) \in kept
      BY <1>1, PositionOfRank
    <2>6. \A k \in 1 .. Cardinality(kept) : Retained(taskQueue, kept)[k] = taskQueue[Position(kept, k)]
      BY DEF Retained
    <2>2. \A k \in DOMAIN r : at(k) \in kept /\ r[k] = taskQueue[at(k)]
      BY <2>1, <2>5, <2>6
    <2>3. \A i \in kept : \E k \in DOMAIN r : r[k] = taskQueue[i]
      BY <1>1, <2>1, RetainedEntries
    <2>4. \A k, l \in DOMAIN r : at(k) = at(l) => k = l
      BY <1>1, <2>1, RetainedEntries
    <2> HIDE DEF r, at
    <2> QED BY <1>2, <2>2, <2>3, <2>4 DEF r
  <1> HIDE DEF at
  <1>5. taskQueue' \in Seq(1 .. enqueued')
    BY <1>1, <1>2, <1>3, RetainedTyped
  <1>6. ASSUME NEW k \in DOMAIN taskQueue', NEW l \in DOMAIN taskQueue', taskQueue'[k] = taskQueue'[l]
        PROVE  k = l
    <2>1. at(k) = at(l)
      BY <1>3, <1>6, <1>9 DEF QueueOfTasks
    <2> QED BY <2>1, <1>9
  <1>7. DOMAIN tasks' = { taskQueue'[i] : i \in DOMAIN taskQueue' }
    <2>1. DOMAIN tasks' = DOMAIN tasks \ {t}
      BY <1>2
    <2>2. ASSUME NEW x \in DOMAIN tasks' PROVE \E k \in DOMAIN taskQueue' : taskQueue'[k] = x
      <3>1. PICK i \in DOMAIN taskQueue : taskQueue[i] = x
        BY <2>1 DEF QueueOfTasks
      <3>2. i \in kept
        BY <1>4, <2>1, <3>1
      <3> QED BY <1>9, <3>1, <3>2
    <2>3. ASSUME NEW k \in DOMAIN taskQueue' PROVE taskQueue'[k] \in DOMAIN tasks'
      <3>1. at(k) \in DOMAIN taskQueue /\ taskQueue'[k] = taskQueue[at(k)] /\ taskQueue[at(k)] # t
        BY <1>3, <1>9
      <3> QED BY <2>1, <3>1 DEF QueueOfTasks
    <2>4. \A x : x \in DOMAIN tasks' <=> x \in { taskQueue'[i] : i \in DOMAIN taskQueue' }
      BY <2>2, <2>3
    <2> QED BY <2>4, Zenon
  <1>8. IndexOfTasks'
    <2>1. taskIndex' \in [TaskKeys -> 0 .. enqueued']
      BY DEF AckTask, IndexOfTasks
    <2>2. ASSUME NEW x \in DOMAIN tasks', tasks'[x].key \in TaskKeys
          PROVE  taskIndex'[tasks'[x].key] = x
      <3>1. t \in DOMAIN tasks /\ x \in DOMAIN tasks /\ x # t /\ tasks'[x] = tasks[x]
        BY <1>2, <2>2 DEF AckTask
      <3>2. taskIndex[tasks[x].key] = x /\ tasks[x].key # tasks[t].key
        BY <2>2, <3>1 DEF IndexOfTasks
      <3> QED BY <2>2, <3>1, <3>2 DEF AckTask
    <2> QED BY <2>1, <2>2 DEF IndexOfTasks
  <1> QED BY <1>5, <1>6, <1>7, <1>8 DEF QueueOfTasks

\* Every other call leaves the ids and the keys of the tasks.
LEMMA TaskQueueStep ==
  ASSUME EntriesOK, QueueOfTasks, IndexOfTasks, [StoresNext]_storesVars
  PROVE  QueueOfTasks' /\ IndexOfTasks'
PROOF
  <1>1. ASSUME UNCHANGED <<taskQueue, taskIndex, enqueued>>, DOMAIN tasks' = DOMAIN tasks,
               \A t \in DOMAIN tasks : tasks'[t].key = tasks[t].key
        PROVE  QueueOfTasks' /\ IndexOfTasks'
    BY <1>1 DEF QueueOfTasks, IndexOfTasks
  <1>2. ASSUME NEW w \in Workers, ClaimTask(w) PROVE QueueOfTasks' /\ IndexOfTasks'
    BY <1>1, <1>2 DEF ClaimTask, EntriesOK, TaskEntry
  <1>3. ASSUME NEW t \in TaskIds, ClaimExpires(t) PROVE QueueOfTasks' /\ IndexOfTasks'
    BY <1>1, <1>3 DEF ClaimExpires, EntriesOK, TaskEntry
  <1>4. ASSUME NEW w \in Workers, NEW t \in TaskIds, FailTask(w, t)
        PROVE  QueueOfTasks' /\ IndexOfTasks'
    BY <1>1, <1>4 DEF FailTask, MayFail, EntriesOK, TaskEntry
  <1>5. ASSUME UNCHANGED taskVars PROVE QueueOfTasks' /\ IndexOfTasks'
    BY <1>1, <1>5 DEF taskVars
  <1> QED
    BY <1>2, <1>3, <1>4, <1>5, EnqueueKeepsQueue, AckKeepsQueue
       DEF StoresNext, storesVars, AcquireLock, ReleaseLock, LeaseExpires, DropExpiredLease

TasksIInv == StoresIInv /\ QueueOfTasks /\ IndexOfTasks

\* The queue, the index and the entries agree in every reachable state.
THEOREM TasksInvariant == StoresSpec => []TasksIInv
PROOF
  <1>1. StoresInit => QueueOfTasks /\ IndexOfTasks
    BY DEF StoresInit, QueueOfTasks, IndexOfTasks
  <1>2. StoresIInv /\ QueueOfTasks /\ IndexOfTasks /\ [StoresNext]_storesVars
        => QueueOfTasks' /\ IndexOfTasks'
    BY TaskQueueStep DEF StoresIInv
  <1> QED BY <1>1, <1>2, StoresInvariant, PTL DEF StoresSpec, TasksIInv

\* However many tasks are enqueued, claimed, failed and acked, in any order, a
\* key has one task and the queue is short of none.
THEOREM TaskOfKeyIsOneHolds == StoresSpec => []TaskOfKeyIsOne
PROOF
  <1>1. TasksIInv => TaskOfKeyIsOne
    BY DEF TasksIInv, QueueOfTasks, IndexOfTasks, TaskOfKeyIsOne
  <1> QED BY <1>1, TasksInvariant, PTL

\* The type invariant of the stores.
LEMMA StoresTypes == StoresSpec => []StoresTypeOK
PROOF
  <1>1. TasksIInv => StoresTypeOK
    <2> SUFFICES ASSUME TasksIInv PROVE StoresTypeOK
      OBVIOUS
    <2> USE StoresAssumption DEF TasksIInv, StoresIInv, EntriesOK
    <2>1. 1 .. enqueued \subseteq TaskIds /\ 0 .. enqueued \subseteq 0 .. MaxTasks
      BY DEF TaskIds
    <2>2. taskQueue \in Seq(TaskIds)
      BY <2>1 DEF QueueOfTasks
    <2>3. taskIndex \in [TaskKeys -> 0 .. MaxTasks]
      BY <2>1 DEF IndexOfTasks
    <2> QED BY <2>1, <2>2, <2>3 DEF StoresTypeOK
  <1> QED BY <1>1, TasksInvariant, PTL

=============================================================================
