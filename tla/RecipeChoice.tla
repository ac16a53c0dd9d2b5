------------------------------ MODULE RecipeChoice ------------------------------
(***************************************************************************)
(* How an intent becomes a run (math-atoms-core/src/runtime.rs over the    *)
(* tables of math-atoms-doctrine): its words are classified into atoms, a  *)
(* recipe is chosen by score, and the run ends blocked, waiting for a      *)
(* provider, or proven.                                                    *)
(*                                                                         *)
(* An intent is the set of its words: no keyword has more than one, so     *)
(* their order is never looked at.  What the wiki graph retrieved is the   *)
(* score it gives to each recipe's node.                                   *)
(***************************************************************************)
EXTENDS Integers, Sequences, FiniteSets, SequencesExt, FiniteSetsExt

(* ATOMS: keys in the order of their ids, and the words each answers to. *)
Atoms == <<"scan", "hash", "fold", "project", "scale", "compare", "combine", "order", "transform",
           "flow", "preserve", "compose", "dual", "measure", "symmetrize", "superpose">>
Keywords(atom) ==
  CASE atom = "scan" -> {"read", "inspect", "visit", "list", "inventory", "scan", "parse"}
    [] atom = "hash" -> {"hash", "identity", "checksum", "fingerprint", "integrity", "proof"}
    [] atom = "fold" -> {"reduce", "summarize", "total", "aggregate", "fold"}
    [] atom = "project" -> {"view", "slice", "select", "pane", "surface", "preview", "project"}
    [] atom = "scale" -> {"resize", "normalize", "quantize", "scale", "fit", "responsive"}
    [] atom = "compare" -> {"compare", "diff", "decide", "rank", "gate", "verdict"}
    [] atom = "combine" -> {"join", "merge", "bind", "combine", "connect", "bond"}
    [] atom = "order" -> {"order", "sequence", "sort", "route", "loop", "timeline"}
    [] atom = "transform" -> {"transform", "basis", "representation", "serialize", "rotation"}
    [] atom = "flow" -> {"flow", "path", "lane", "transport", "propagate", "bus", "fabric"}
    [] atom = "preserve" -> {"preserve", "invariant", "conserve", "budget", "stable", "required"}
    [] atom = "compose" -> {"compose", "nested", "molecule", "tree", "orchestrator", "recipe"}
    [] atom = "dual" -> {"dual", "paired", "forward", "backward", "encode", "decode"}
    [] atom = "measure" -> {"measure", "telemetry", "observe", "profile", "log", "capture", "proof"}
    [] atom = "symmetrize" -> {"symmetry", "symmetrize", "mirror", "rotation", "parallel"}
    [] atom = "superpose" -> {"superpose", "interference", "attention", "weighted", "coherent"}

(* RECIPES, in the order of their ids. *)
Recipe(id, kind, atoms, bonds, provider) ==
  [id |-> id, kind |-> kind, atoms |-> atoms, bonds |-> bonds, provider |-> provider]
Recipes ==
  << Recipe("native-atom-renderer", "renderer", <<"project", "combine", "measure", "compose">>, 2, FALSE),
     Recipe("production-app-runtime", "product",
            <<"scan", "compare", "compose", "measure", "preserve", "order">>, 5, TRUE),
     Recipe("provider-model-loop", "provider", <<"measure", "compose", "flow", "preserve">>, 3, TRUE),
     Recipe("spiderweb-proof-loop", "fabric",
            <<"scan", "flow", "preserve", "order", "compare", "measure">>, 4, FALSE),
     Recipe("wiki-graph-rag", "retrieval", <<"scan", "hash", "project", "compare", "order">>, 3, FALSE) >>

(* The words that ask for a provider, for software, or for a renderer only. *)
ProviderWords == {"provider", "api", "model", "openai", "llm", "rag",
                  "chatgpt", "deepseek", "mistral", "ollama"}
ActionWords == {"build", "create", "develop", "generate", "implement", "make", "code", "write", "scaffold",
                "fix", "repair", "update", "modify", "improve", "refactor"}
ArtifactWords == {"app", "application", "software", "program", "tool", "dashboard", "driver", "engine", "adapter",
                  "service", "website", "browser", "game", "module", "crate", "library", "cli", "interface"}
RendererWords == {"renderer", "render", "artifact", "native", "pmre", "surface"}
Says(words, some) == words \cap some # {}
RendererOnly(words) == "only" \in words /\ Says(words, RendererWords)
SoftwareRequested(words) == ~RendererOnly(words) /\ Says(words, ActionWords) /\ Says(words, ArtifactWords)
Signature == <<"measure", "compose", "flow", "preserve">>

(* classify_intent_without_provider_forcing: the atoms named, by how many  *)
(* of their words are there, then by id.                                   *)
Named(words) ==
  LET Hits(a) == Cardinality(Keywords(a) \cap words)
      Level(n) == SelectSeq(Atoms, LAMBDA a : Hits(a) = n)
      most == Max({Hits(a) : a \in Range(Atoms)}) IN
  FlattenSeq([i \in 1..most |-> Level(most + 1 - i)])

(* provider_route_required_from_tokens, and with the atoms named. *)
AskedFor(words) == Says(words, ProviderWords) \/ SoftwareRequested(words)
ProviderRoute(words) ==
  AskedFor(words) \/ Cardinality(Range(Signature) \cap Range(Named(words))) >= 3

(* classify_intent: a provider's atoms first, fallbacks, at most six. *)
AppendUnique(seq, more) == seq \o SelectSeq(more, LAMBDA a : a \notin Range(seq))

(* Variant: a provider's atoms are appended behind the ones named. *)
ClassifiedBehind(words) ==
  LET forced == AskedFor(words)
      atoms == IF Named(words) = <<>> THEN <<"scan", "project", "compare", "compose", "measure">>
               ELSE Named(words)
      full == IF forced THEN AppendUnique(AppendUnique(atoms, Signature), <<"scan", "project">>) ELSE atoms IN
  SubSeq(full, 1, IF Len(full) < 6 THEN Len(full) ELSE 6)

Classified(words) ==
  LET forced == AskedFor(words)
      named == AppendUnique(IF forced THEN Signature ELSE <<>>, Named(words))
      atoms == IF named = <<>> THEN <<"scan", "project", "compare", "compose", "measure">> ELSE named
      full == IF forced THEN AppendUnique(atoms, <<"scan", "project">>) ELSE atoms IN
  SubSeq(full, 1, IF Len(full) < 6 THEN Len(full) ELSE 6)

(* stack_quality: the canonical atoms met in the observed ones, one after  *)
(* the other.                                                              *)
Position(seq, a) == CHOOSE i \in DOMAIN seq : seq[i] = a /\ \A j \in 1..(i - 1) : seq[j] # a

(* Variant: an atom ahead of the one before it costs nothing. *)
StackQualityUnordered(observed, canonical) ==
  LET met == SelectSeq(canonical, LAMBDA a : a \in Range(observed))
      Gain(i) == IF i = 1 THEN 3 ELSE 10 IN
  IF canonical = <<>> THEN -100 ELSE Len(canonical) + MapThenSumSet(Gain, DOMAIN met)

StackQuality(observed, canonical) ==
  LET met == SelectSeq(canonical, LAMBDA a : a \in Range(observed))
      at == [i \in DOMAIN met |-> Position(observed, met[i])]
      Gain(i) == CASE i = 1 -> 3
                   [] i > 1 /\ at[i] = at[i - 1] + 1 -> 10
                   [] i > 1 /\ at[i] > at[i - 1] + 1 -> 6
                   [] OTHER -> -8 IN
  IF canonical = <<>> THEN -100
  ELSE Len(canonical) + MapThenSumSet(Gain, DOMAIN met)

(* intent_fit_bonus: the first case of the recipe's kind that applies. *)
FitBonus(words, kind, route) ==
  CASE kind = "renderer" ->
         IF ~Says(words, RendererWords) THEN 0 ELSE IF "only" \in words THEN 95 ELSE 42
    [] kind = "provider" -> IF Says(words, ProviderWords) THEN 35 ELSE IF route THEN 12 ELSE 0
    [] kind = "retrieval" -> IF Says(words, {"wiki", "graph", "rag"}) THEN 14 ELSE 0
    [] kind = "fabric" -> IF Says(words, {"spiderweb", "bus", "route", "fabric"}) THEN 14 ELSE 0
    [] kind = "product" ->
         IF RendererOnly(words) THEN -40
         ELSE IF SoftwareRequested(words) THEN 72
         ELSE IF Says(words, {"app", "build", "production", "dashboard", "usable"}) THEN 16 ELSE 0
Complexity(r) == Len(r.atoms) + r.bonds

(* select_recipe: the highest score, then the simplest, then by id. *)
Score(words, atoms, evidence, ready, route, r) ==
  8 * Cardinality(Range(r.atoms) \cap Range(atoms)) + StackQuality(atoms, r.atoms) + evidence[r.id]
    + FitBonus(words, r.kind, route) + (IF r.provider /\ ~ready /\ ~route THEN -30 ELSE 0) - Complexity(r)
Selected(words, evidence, ready, route) ==
  LET atoms == Classified(words)
      score == [i \in DOMAIN Recipes |-> Score(words, atoms, evidence, ready, route, Recipes[i])]
      Beats(i, j) ==
        \/ score[i] > score[j]
        \/ score[i] = score[j] /\ Complexity(Recipes[i]) < Complexity(Recipes[j])
        \/ score[i] = score[j] /\ Complexity(Recipes[i]) = Complexity(Recipes[j]) /\ i < j IN
  Recipes[CHOOSE i \in DOMAIN Recipes : \A j \in DOMAIN Recipes \ {i} : Beats(i, j)]

(* run_intent_in_mode: the provider call the route asks for, the blockers, *)
(* the layers of the bus route from the proof back to the intent, and the  *)
(* status.  setup is what preparing a call would answer: "ready",          *)
(* "missing" (no credential) or "broken".                                  *)
Ran(words, coder, evidence, setup, linked) ==
  LET route == coder \/ ProviderRoute(words)
      recipe == Selected(words, evidence, setup = "ready", route)
      asks == recipe.provider \/ route
      blocked == (asks /\ setup # "ready") \/ recipe.id \notin linked
                 \/ StackQuality(recipe.atoms, recipe.atoms) < 0
      prepared == CASE asks /\ setup = "ready" -> <<"L2", "L2">>
                    [] asks /\ setup = "missing" -> <<"L2">>
                    [] OTHER -> <<>> IN
  [recipe |-> recipe,
   route |-> <<"L0", "L1", "L2">> \o prepared \o <<"L3", "L3">>,
   call |-> asks /\ setup = "ready",
   status |-> IF blocked THEN "blocked" ELSE IF asks THEN "pending" ELSE "proven"]

(***************************************************************************)
(* Properties.                                                             *)
(***************************************************************************)
(* Whatever the words and what the graph remembers, a run that needs a     *)
(* provider is never proven without one, and one that cannot be prepared   *)
(* is blocked (gate "Fail closed": "Unsupported or unconfigured provider   *)
(* paths become blockers.").                                               *)
ProvidersFailClosed(words, coder, evidence, setup, linked) ==
  LET ran == Ran(words, coder, evidence, setup, linked) IN
  /\ coder \/ AskedFor(words) \/ ran.recipe.provider => ran.status # "proven"
  /\ ran.call <=> setup = "ready" /\ (ran.recipe.provider \/ coder \/ ProviderRoute(words))
  /\ ran.status = "pending" => ran.call
  /\ Range(ran.route) = {"L0", "L1", "L2", "L3"}

(* The four atoms a provider route is recognised by survive the cut at six *)
(* (test provider_forced_atoms_survive_truncation), and the classification *)
(* never repeats an atom.                                                  *)
ForcedAtomsSurvive(words) ==
  /\ AskedFor(words) => Range(Signature) \subseteq Range(Classified(words))
  /\ Len(Classified(words)) \in 1..6
  /\ Cardinality(Range(Classified(words))) = Len(Classified(words))

(* Asking for a renderer only is answered without a provider, when the     *)
(* graph prefers no recipe (test                                           *)
(* renderer_only_build_language_stays_on_native_route).                    *)
RendererStaysLocal(words, setup) ==
  LET calm == [i \in {Recipes[j].id : j \in DOMAIN Recipes} |-> 0]
      ran == Ran(words, FALSE, calm, setup, DOMAIN calm) IN
  RendererOnly(words) /\ ~ProviderRoute(words) => ~ran.recipe.provider /\ ran.status = "proven"

(* Of all orders of a recipe's atoms its own is worth most (gate "Stack    *)
(* order": "The atom stack order is a hard performance contract, not an    *)
(* unordered tag list.").                                                  *)
OrderCounts(r) ==
  \A p \in SetToSeqs(Range(r.atoms)) :
    p # r.atoms => StackQuality(p, r.atoms) < StackQuality(r.atoms, r.atoms)
=============================================================================
