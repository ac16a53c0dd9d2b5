------------------------------ MODULE WikiGraph ------------------------------
(***************************************************************************)
(* The wiki graph as it learns (math-atoms-graph): nodes and weighted      *)
(* edges of the mission, one recipe, its atom and the gate, to which       *)
(* lessons and proofs are added, and retrieval over it.                    *)
(*                                                                         *)
(* A lesson is known by its memory key - intent and outcome - and by its   *)
(* attempt; its node id is its own.  Words are left out: a query is the    *)
(* direct score it gives each node.                                        *)
(***************************************************************************)
EXTENDS Integers, Sequences, FiniteSets, SequencesExt, FiniteSetsExt

CONSTANTS
  GraphLimit,  (* DEFAULT_GRAPH_MEMORY_LIMIT                               *)
  Attempts     (* bound: attempts of an intent                             *)

LessonNodes == [kind : {"lesson"}, intent : {1, 2}, attempt : 1..Attempts,
                outcome : {"failed", "succeeded"}]
ProofNodes  == [kind : {"proof"}, proof : {1, 2}]
Node(kind)  == [kind |-> kind]
Mission == Node("mission")   Recipe == Node("recipe")
Atom    == Node("atom")      Runtime == Node("runtime")
SeededNodes == {Mission, Recipe, Atom, Runtime}

Edge(from, to, weight) == [from |-> from, to |-> to, weight |-> weight]

\* seeded: the mission leads to the recipe that leads its runtime, and every
\* recipe is reached from its atoms.
SeededEdges == {Edge(Mission, Runtime, 8), Edge(Runtime, Recipe, 9), Edge(Atom, Recipe, 4)}

VARIABLE graph
  (* nodes, edges; lessons - learning_nodes, the oldest first              *)

GraphSeeded == [nodes |-> SeededNodes, edges |-> SeededEdges, lessons |-> <<>>]

KeyOf(lesson) == <<lesson.intent, lesson.outcome>>

\* Variant: the edges of the removed node stay.
RemoveNodesOnly(g, gone) == [g EXCEPT !.nodes = @ \ gone]

\* remove_node, of several nodes
RemoveNodes(g, gone) ==
  [g EXCEPT !.nodes = @ \ gone,
            !.edges = {e \in @ : e.from \notin gone /\ e.to \notin gone}]

\* add_learning_record: the node of the same key is superseded, the oldest
\* evicted; only a promotable success leads back to its recipe.
WithLesson(g, lesson, promotable) ==
  IF lesson \in g.nodes THEN g
  ELSE
    LET superseded == {l \in ToSet(g.lessons) : KeyOf(l) = KeyOf(lesson)}
        kept    == Append(SelectSeq(g.lessons, LAMBDA l : l \notin superseded), lesson)
        excess  == IF Len(kept) > GraphLimit THEN Len(kept) - GraphLimit ELSE 0
        evicted == {kept[k] : k \in 1..excess}
        base    == RemoveNodes(g, superseded)
        grown   == [base EXCEPT
          !.nodes = @ \cup {lesson},
          !.edges = @ \cup {Edge(Recipe, lesson, 5)}
                      \cup (IF promotable THEN {Edge(lesson, Recipe, 6)} ELSE {})]
        bounded == RemoveNodes(grown, evicted)
    IN  [bounded EXCEPT !.edges   = @ \cup {Edge(Atom, lesson, 4)},
                        !.lessons = SubSeq(kept, excess + 1, Len(kept))]

\* add_proof_record: only a proof that is positive evidence becomes a node.
WithProof(g, proof, positive) ==
  IF ~positive \/ proof \in g.nodes THEN g
  ELSE [g EXCEPT !.nodes = @ \cup {proof},
                 !.edges = @ \cup {Edge(proof, Recipe, 8), Edge(Recipe, proof, 5),
                                   Edge(Atom, proof, 4)}]

Learn ==
  \E lesson \in LessonNodes, artifact \in BOOLEAN :
    graph' = WithLesson(graph, lesson, lesson.outcome = "succeeded" /\ artifact)

Prove == \E proof \in ProofNodes, positive \in BOOLEAN :
           graph' = WithProof(graph, proof, positive)

GraphNext == Learn \/ Prove

(***************************************************************************)
(* Retrieval.                                                              *)
(***************************************************************************)
\* Scores of the nodes: what the words give, and one round along the edges from
\* what the words gave.
Scores(g, direct) ==
  LET before == [n \in g.nodes |-> direct[n] + (IF n = Mission THEN 50 ELSE 0)]
      spread(e) == (IF before[e.from] < 10 THEN before[e.from] ELSE 10) + e.weight
  IN  [n \in g.nodes |->
         before[n] + MapThenSumSet(spread, {e \in g.edges : e.to = n /\ before[e.from] > 0})]

\* The order of the node ids.
Rank(n) ==
  IF n.kind = "lesson"
  THEN 10 + 4 * n.intent + 2 * n.attempt + (IF n.outcome = "failed" THEN 0 ELSE 1)
  ELSE IF n.kind = "proof" THEN 6 + n.proof
  ELSE CHOOSE k \in 1..4 : <<Atom, Mission, Recipe, Runtime>>[k] = n

\* retrieve, as a set of nodes: the best `limit` of those with a score, where
\* the mission takes the place of the last if it is not among them.
Retrieved(g, direct, limit) ==
  LET score == Scores(g, direct)
      hits  == {n \in g.nodes : score[n] > 0}
      beats(m, n) == score[m] > score[n] \/ (score[m] = score[n] /\ Rank(m) < Rank(n))
      within(k) == {n \in hits : Cardinality({m \in hits : beats(m, n)}) < k}
  IN  IF limit = 0 \/ Mission \in within(limit) THEN within(limit)
      ELSE within(limit - 1) \cup {Mission}

Neighbours(g, node) ==
  {e.to : e \in {d \in g.edges : d.from = node}}
    \cup {e.from : e \in {d \in g.edges : d.to = node}}

\* Variant: nodes at the limit are expanded, too.
PathWithinOneMore(g, from, to, depth) ==
  LET search[queue \in SUBSET (g.nodes \X Nat), seen \in SUBSET g.nodes] ==
        IF queue = {} THEN FALSE
        ELSE LET front == CHOOSE q \in queue : \A p \in queue : q[2] <= p[2]
                 next  == Neighbours(g, front[1])
                 left  == queue \ {front}
             IN IF front[1] \in seen \/ front[2] > depth THEN search[left, seen \cup {front[1]}]
                ELSE to \in next \/ search[left \cup {<<n, front[2] + 1>> : n \in next},
                                           seen \cup {front[1]}]
  IN  from = to \/ search[{<<from, 0>>}, {}]

\* has_relationship_path: the queue hands out the nodes of the least depth
\* first; a node seen before or at the limit is not expanded.
PathWithin(g, from, to, depth) ==
  LET search[queue \in SUBSET (g.nodes \X Nat), seen \in SUBSET g.nodes] ==
        IF queue = {} THEN FALSE
        ELSE LET front == CHOOSE q \in queue : \A p \in queue : q[2] <= p[2]
                 next  == Neighbours(g, front[1])
                 left  == queue \ {front}
             IN IF front[1] \in seen \/ front[2] >= depth THEN search[left, seen \cup {front[1]}]
                ELSE to \in next \/ search[left \cup {<<n, front[2] + 1>> : n \in next},
                                           seen \cup {front[1]}]
  IN  from = to \/ search[{<<from, 0>>}, {}]

(***************************************************************************)
(* Properties.                                                             *)
(***************************************************************************)
\* A superseded or evicted lesson leaves nothing behind: no edge leads to or
\* from a node that is gone, and there is one lesson of a key at most.
NothingDangles ==
  /\ \A e \in graph.edges : e.from \in graph.nodes /\ e.to \in graph.nodes
  /\ {n \in graph.nodes : n.kind = "lesson"} = ToSet(graph.lessons)
  /\ Len(graph.lessons) <= GraphLimit
  /\ \A i, j \in DOMAIN graph.lessons :
       i # j => KeyOf(graph.lessons[i]) # KeyOf(graph.lessons[j])

Queries == {[n \in graph.nodes |-> IF n \in matched THEN score ELSE 0] :
              matched \in {m \in SUBSET graph.nodes : Cardinality(m) <= 2},
              score \in {5, 60}}

\* A query about failures does not recommend the recipe that failed: the lessons
\* of failures in the graph never change its score.
FailuresDoNotPromote ==
  LET failures == {n \in graph.nodes : n.kind = "lesson" /\ n.outcome = "failed"}
      without  == RemoveNodes(graph, failures)
  IN  \A q \in Queries :
        Scores(graph, q)[Recipe] = Scores(without, [n \in without.nodes |-> q[n]])[Recipe]

\* pin_mission_evidence: whatever is asked, the mission is among the evidence,
\* within the limit.
MissionIsPinned ==
  \A q \in Queries, limit \in {0, 1, 3} :
    LET found == Retrieved(graph, q, limit) IN
      /\ Cardinality(found) <= limit
      /\ limit > 0 => Mission \in found

\* has_relationship_path finds exactly the nodes at that distance or less.
PathsAreDistances ==
  \A from \in graph.nodes, depth \in 0..2 :
    LET ball[d \in 0..2] == IF d = 0 THEN {from}
                            ELSE ball[d - 1] \cup UNION {Neighbours(graph, n) : n \in ball[d - 1]}
    IN  \A to \in graph.nodes : PathWithin(graph, from, to, depth) <=> to \in ball[depth]

KnowledgeIsSound ==
  NothingDangles /\ FailuresDoNotPromote /\ MissionIsPinned /\ PathsAreDistances
==============================================================================
