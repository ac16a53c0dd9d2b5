----------------------------- MODULE BuildPrompt -----------------------------
(***************************************************************************)
(* What a prompt carries besides the task: the sections of a fast build    *)
(* (build_fast_plan, compact_sections, avc-core) and *)
(* the evidence of a build step (atom-vibe-context).  A section is its     *)
(* label, its priority and its length in characters, a piece of evidence   *)
(* its node, the topic its node id starts with and its score.              *)
(***************************************************************************)
EXTENDS Integers, Sequences, FiniteSets

EvidenceTaken == 6     (* take(6) in build_fast_plan                       *)
MinTruncated  == 200   (* MIN_TRUNCATED                                    *)

Section(label, priority, length) ==
  [label |-> label, priority |-> priority, length |-> length]

SumOf(f, n) ==
  LET sum[k \in 0..n] == IF k = 0 THEN 0 ELSE sum[k - 1] + f[k] IN sum[n]

Least(a, b) == IF a < b THEN a ELSE b

\* build_fast_plan: sections in the order they are emitted; those without a body
\* are not pushed.  lengths gives the length of each body, of each piece of
\* evidence for "wiki".
Pushed(section) == IF section.length > 0 THEN <<section>> ELSE <<>>
Sections(lengths) ==
  Pushed(Section("blueprint", 8, lengths.blueprint))
    \o Pushed(Section("scratchpad", 7, lengths.scratchpad))
    \o Pushed(Section("recipe", 4, lengths.recipe))
    \o Pushed(Section("wiki", 2, SumOf(lengths.wiki, Least(EvidenceTaken, Len(lengths.wiki)))))
    \o Pushed(Section("pattern-reference", 5, lengths.patterns))

\* Higher priority first, then the earlier section.
Before(sections, a, b) ==
  \/ sections[a].priority > sections[b].priority
  \/ sections[a].priority = sections[b].priority /\ a < b

\* Variant: the sections kept so far are not counted against the budget.
TakenAlone(sections, budget, i) ==
  IF sections[i].length <= budget THEN sections[i].length
  ELSE IF budget >= MinTruncated THEN budget ELSE 0

\* compact_sections: the characters emitted of section i.  The first that
\* overflows is cut, if enough of it is left, and ends the loop.
Taken(sections, budget, i) ==
  LET ahead    == {j \in 1..Len(sections) : Before(sections, j, i)}
      used     == SumOf([j \in 1..Len(sections) |->
                           IF j \in ahead THEN sections[j].length ELSE 0], Len(sections))
      left     == budget - used
  IN  IF budget = 0 \/ sections[i].length <= left THEN sections[i].length
      ELSE IF left >= MinTruncated THEN left ELSE 0

(***************************************************************************)
(* The evidence of a step.                                                 *)
(***************************************************************************)
Topics == {"build-spine", "model-scratchpad", "thinking-model"}   (* REQUIRED_GRAPH_EVIDENCE *)

Ahead(d, e) == d.score > e.score \/ (d.score = e.score /\ d.node < e.node)

\* Variant: the mission is removed like any other piece.
PinnedTopicsOnly(evidence, graph, limit) ==
  LET missing == {t \in Topics : \A e \in evidence : e.topic # t}
      all     == evidence \cup {graph[t] : t \in missing}
      fixed   == {e \in all : e.topic \in Topics}
      ahead(e) == {d \in all \ fixed : Ahead(d, e)}
      kept    == {e \in all \ fixed : Cardinality(ahead(e)) < limit - Cardinality(fixed)}
  IN  IF ~(missing \subseteq DOMAIN graph) THEN {}
      ELSE IF Cardinality(all) <= limit THEN all
      ELSE IF Cardinality(fixed) > limit THEN {} ELSE fixed \cup kept

\* pin_required_graph_evidence: what retrieval left out of the required topics is
\* fetched from the graph, then the last pieces go that are neither required
\* nor the mission.  The empty set is an error.
Pinned(evidence, graph, limit) ==
  LET missing == {t \in Topics : \A e \in evidence : e.topic # t}
      all     == evidence \cup {graph[t] : t \in missing}
      fixed   == {e \in all : e.topic \in Topics \cup {"mission"}}
      ahead(e) == {d \in all \ fixed : Ahead(d, e)}
      kept    == {e \in all \ fixed : Cardinality(ahead(e)) < limit - Cardinality(fixed)}
  IN  IF ~(missing \subseteq DOMAIN graph) THEN {}
      ELSE IF Cardinality(all) <= limit THEN all
      ELSE IF Cardinality(fixed) > limit THEN {} ELSE fixed \cup kept

\* prepare: a request within its limits and a retrieval that found something
Prepared(evidence, graph, limit) ==
  IF limit \notin 4..64 \/ evidence = {} THEN {} ELSE Pinned(evidence, graph, limit)

(***************************************************************************)
(* Properties of an input.                                                 *)
(***************************************************************************)
\* "Sections are kept whole in priority order (highest first)" within the budget
\* (compact_sections): a prompt fits a small model's window, a section is cut
\* or left out only when every section it outranks is left out, and "it is
\* kept ahead of everything else" holds of the memory but for the blueprint.
PromptsFit(lengths, budget) ==
  LET s == Sections(lengths)
      taken == [i \in 1..Len(s) |-> Taken(s, budget, i)]
  IN  /\ budget > 0 => SumOf(taken, Len(s)) <= budget
      /\ \A i, j \in 1..Len(s) :
           taken[i] < s[i].length /\ Before(s, i, j) => taken[j] = 0
      /\ \A i, j \in 1..Len(s) :
           /\ s[i].label = "scratchpad" /\ s[j].label # "blueprint"
           /\ taken[i] < s[i].length /\ i # j
           => taken[j] = 0

\* "Scope mismatch or missing graph evidence fails closed before model execution"
\* (model-scratchpad.md): a step that is prepared has every required topic and
\* the mission among its evidence, within its limit; a step whose graph has
\* one node of each is prepared whatever was retrieved, and only gives up
\* pieces that score less than the ones it keeps.
ContextsAreGrounded(evidence, graph, limit) ==
  LET p == Prepared(evidence, graph, limit)
      topics == {e.topic : e \in p}
  IN  /\ p # {} =>
           /\ Topics \subseteq topics /\ Cardinality(p) <= limit
           /\ \A e \in evidence : e.topic = "mission" => e \in p
           /\ \A e \in evidence \ p, d \in p : d.topic = "other" => Ahead(d, e)
      /\ (\E e \in evidence : e.topic = "mission") /\ DOMAIN graph = Topics
         /\ limit \in 4..64
         /\ (\A t \in Topics : Cardinality({e \in evidence : e.topic = t}) <= 1)
         => p # {}
==============================================================================
