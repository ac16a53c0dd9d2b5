---------------------------- MODULE MCSpiderwebBus ----------------------------
(***************************************************************************)
(* Small instances of SpiderwebBus, of the graph it routes for and of the  *)
(* rules what it carries is judged by.  A behaviour is of the one `part`   *)
(* chosen at the start: the bus, the wiki graph, or one input of the       *)
(* functions of RecipeChoice, WikiPages, LearningRules and ProofRules.     *)
(***************************************************************************)
EXTENDS SpiderwebBus, TLC

CONSTANTS GraphLimit, Attempts

VARIABLES part, input, graph

knowledgeVars == <<part, input, graph, vars>>

Graph  == INSTANCE WikiGraph
Choice == INSTANCE RecipeChoice
Pages  == INSTANCE WikiPages
Rules  == INSTANCE LearningRules
Proofs == INSTANCE ProofRules

Symmetry == Permutations(Nodes)

(***************************************************************************)
(* Inputs.                                                                 *)
(***************************************************************************)
Vocabulary == {"only", "render", "surface", "build", "app", "provider", "wiki", "bus",
               "proof", "nested", "stable", "list", "gate", "route", "rotation"}
Intents    == {words \in SUBSET Vocabulary : Cardinality(words) <= 3}
RecipeIds  == {Choice!Recipes[k].id : k \in DOMAIN Choice!Recipes}
Evidences  == {[r \in RecipeIds |-> IF r = best THEN 60 ELSE 0] : best \in RecipeIds \cup {"none"}}
Setups     == {"ready", "missing", "broken"}

Text(tokens)  == Pages!Line("text", tokens)
Heading(word) == Pages!Line("heading", <<word>>)
PageTexts ==
  {<<>>,
   <<Pages!Line("title", <<"parse">>), Pages!Line("tags", <<"errors">>),
     Text(<<"[[", "calc", "]]">>), Heading("shape"), Text(<<"errors">>),
     Heading("reference"), Text(<<"source">>)>>,
   <<Pages!Line("tags", <<"calc">>), Pages!Line("status", <<"status">>),
     Pages!Line("status", <<"status", "stable">>), Text(<<"errors", "[[", "x">>), Heading("b"),
     Heading("shape"), Text(<<"[[", "parse", "]]", "calc">>)>>,
   <<Text(<<"calc">>), Heading("b"), Text(<<"a">>), Heading("related"),
     Text(<<"[[", "b", "]]">>)>>}
PageNames == {Pages!Name(0, "index", "_"), Pages!Name(0, "a", "_"),
              Pages!Name(0, "a", "-"), Pages!Name(1, "b", "_")}
PageDirs  == {<<>>, <<Pages!Patterns>>, <<Pages!Patterns, <<0, "a">>>>,
              <<Pages!Patterns, <<0, "indexer">>>>}
PageFiles == [dir : PageDirs, name : PageNames, lines : PageTexts]
Wikis     == {w \in PageFiles \X PageFiles : w[1].dir # w[2].dir \/ w[1].name # w[2].name}
Queries   == {<<{"errors"}, 1>>, <<{"calc", "stable"}, 2>>, <<{"b", "shape"}, 3>>}

\* Learning records in which a provider took part, or on the way to one.
Lessons == {r \in Rules!Records :
              /\ r.source = "native-app" \/ r.route = 3
              /\ r.failure => r.outcome = "failed"}

\* Proof records that differ from a sound one in two fields.
SoundProof ==
  [recipe |-> "provider", status |-> "proven", atoms |-> {"a", "other"}, evidence |-> 1,
   blocked |-> FALSE, route |-> 4, state |-> "provider:ran", model |-> "m", endpoint |-> "e",
   artifact |-> "file", hash |-> "h", length |-> 1, plan |-> "work-1", packets |-> 19,
   candidate |-> Proofs!Candidate("h", 1)]
ProofValues(f) ==
  CASE f = "recipe"    -> {"local", "provider", "unknown"}
    [] f = "status"    -> {"proven", "blocked"}
    [] f = "atoms"     -> SUBSET {"a", "other"}
    [] f \in {"evidence", "length"} -> {0, 1}
    [] f = "blocked"   -> BOOLEAN
    [] f = "route"     -> {3, 4}
    [] f = "state"     -> {"provider:ran", "provider:ready"}
    [] f = "model"     -> {"", "m"}
    [] f = "endpoint"  -> {"", "e", Proofs!Secret}
    [] f = "artifact"  -> {"", "file", Proofs!Secret}
    [] f = "hash"      -> {"", "h", "text"}
    [] f = "plan"      -> {"", "work-1"}
    [] f = "packets"   -> {0, 19}
    [] f = "candidate" -> {Proofs!NoCandidate, Proofs!Candidate("h", 1),
                           Proofs!Candidate("other", 1), Proofs!Candidate("h", 2)}
ProofInputs ==
  UNION {{[SoundProof EXCEPT ![f] = v, ![g] = w] : v \in ProofValues(f), w \in ProofValues(g)} :
           f \in DOMAIN SoundProof, g \in DOMAIN SoundProof}
ProofDisks == [hash : {"", "h"}, length : {0, 1}, model : {"", "m"},
               candidate : {Proofs!NoCandidate, Proofs!Candidate("h", 1), Proofs!Candidate("other", 1)}]
\* Fields an older version did not write.
LeftOut == {{f} : f \in Proofs!Required \cup Proofs!Optional}
             \cup {{}, Proofs!Optional, {"plan", "packets", "candidate"}}

(***************************************************************************)
(* The sum.                                                                *)
(***************************************************************************)
NoInput == [kind |-> "none"]
Chosen(kind) == part = kind /\ input # NoInput

KnowledgeInit ==
  /\ part \in {"bus", "graph", "intent", "wiki", "lesson", "proof"}
  /\ input = NoInput
  /\ graph = Graph!GraphSeeded
  /\ Init

Choose(kind, inputs) ==
  /\ part = kind /\ input = NoInput
  /\ \E i \in inputs : input' = [kind |-> kind, of |-> i]
  /\ UNCHANGED <<part, graph, vars>>

KnowledgeNext ==
  \/ part = "bus" /\ Next /\ UNCHANGED <<part, input, graph>>
  \/ part = "graph" /\ Graph!GraphNext /\ UNCHANGED <<part, input, vars>>
  \/ Choose("intent", Intents)
  \/ Choose("wiki", Wikis)
  \/ Choose("lesson", Lessons)
  \/ Choose("proof", ProofInputs)

KnowledgeSpec == KnowledgeInit /\ [][KnowledgeNext]_knowledgeVars

(***************************************************************************)
(* Properties, with those of SpiderwebBus.                                 *)
(***************************************************************************)
\* What a run is chosen by and shown from.  The graph forgets a lesson and its
\* edges together, is not swayed by failures, always shows the mission and
\* finds the shortest paths (WikiGraph, math-atoms-graph); every page of the
\* wiki is a node, its sections hold what is below its first heading in order,
\* and a pattern that fits is found (WikiPages); the recipe chosen for an intent
\* never turns a missing provider into a proof, and its atoms stay in order
\* (RecipeChoice).
KnowledgeIsSound ==
  /\ [](part = "graph" =>
         Graph!NothingDangles /\ Graph!FailuresDoNotPromote
           /\ Graph!MissionIsPinned /\ Graph!PathsAreDistances)
  /\ [][\A i \in {input'} :
          /\ i.kind = "wiki" =>
               /\ Pages!PagesAreFound(i.of) /\ Pages!SectionsCoverTheirPage(i.of)
               /\ \A q \in Queries : Pages!PatternsAreFound(i.of, q[1], q[2])
          /\ i.kind = "intent" =>
               /\ Choice!ForcedAtomsSurvive(i.of)
               /\ \A setup \in Setups :
                    /\ Choice!RendererStaysLocal(i.of, setup)
                    /\ \A coder \in BOOLEAN, e \in Evidences :
                         Choice!ProvidersFailClosed(i.of, coder, e, setup, RecipeIds)
               /\ i.of = {} =>
                    \A k \in DOMAIN Choice!Recipes : Choice!OrderCounts(Choice!Recipes[k])]_input

\* A lesson promotes a recipe, and a proof enters the graph, only on evidence
\* that verifies now, and both are read back from the lines they were written
\* as (EvidenceBacksSuccess and HistoryStaysReadable of LearningRules,
\* ProofsAreEarned of ProofRules; math-atoms-learning, math-atoms-proof).
EvidenceBacksSuccess ==
  /\ Chosen("lesson") =>
       \A disk \in Rules!Disks :
         Rules!EvidenceBacksSuccess(input.of, disk) /\ Rules!HistoryStaysReadable(input.of, disk)
  /\ Chosen("proof") =>
       \A disk \in ProofDisks, fields \in LeftOut : Proofs!ProofsAreEarned(input.of, fields, disk)
==============================================================================
