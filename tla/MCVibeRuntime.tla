----------------------------- MODULE MCVibeRuntime -----------------------------
(***************************************************************************)
(* Small instances of VibeRuntime, and of what its steps are made of.  A   *)
(* behaviour is of the one `part` chosen at the start: the runtimes at     *)
(* work on their stores, or one input of the functions of VibeRecords (the *)
(* records of the stores), of GateRules (the gates evaluate runs) and of   *)
(* BuildPrompt (the context prepare_turn assembles).                       *)
(***************************************************************************)
EXTENDS VibeRuntime, FiniteSets, TLC

CONSTANTS MaxArtifacts, Blank

\* The identifier of a result is a name, and the blank one is none.
ASSUME BlankAssumption == Blank # "build"

VARIABLES part, input

Files  == INSTANCE VibeRecords
Gates  == INSTANCE GateRules
Prompt == INSTANCE BuildPrompt

Symmetry == Permutations(Runtimes) \cup Permutations(Providers)
              \cup Permutations(Outputs)

(***************************************************************************)
(* Inputs of VibeRecords.                                                  *)
(***************************************************************************)
Texts == UNION {[1..n -> {<<"x">>, <<"quote", "x">>, <<"x", "escape">>, <<"newline">>}] : n \in 0..3}
RecordInputs == [store : Files!Stores, texts : Texts]

EntryLists == UNION {[1..n -> [step : {0, 1, 2}, bytes : {1, 300, 5000}]] : n \in 0..3}
ProjectionInputs == [entries : EntryLists, header : {170, 300}, budget : {512, 1024, 6000}]

(***************************************************************************)
(* Inputs of BuildPrompt.                                                  *)
(***************************************************************************)
PromptInputs ==
  [lengths : [blueprint : {0, 300}, scratchpad : {0, 300, 900}, recipe : {0, 300},
              wiki : {<<>>, <<300>>, [k \in 1..7 |-> 50]}, patterns : {0, 300, 900}],
   budget  : {0, 150, 350, 500, 650, 1000, 2000}]

Piece(node, topic, score) == [node |-> node, topic |-> topic, score |-> score]
Pieces ==
  {Piece(1, "mission", 50), Piece(2, "build-spine", 8), Piece(3, "model-scratchpad", 6),
   Piece(4, "thinking-model", 1), Piece(5, "other", 9), Piece(6, "other", 5),
   Piece(7, "other", 5), Piece(8, "build-spine", 3)}
TopicNode(topic) ==
  CHOOSE p \in Pieces : p.topic = topic /\ \A q \in Pieces : q.topic = topic => p.node <= q.node
ContextInputs ==
  [evidence : SUBSET Pieces,
   graph    : {[t \in topics |-> TopicNode(t)] : topics \in SUBSET Prompt!Topics},
   limit    : {3, 4, 5, 6, 65}]

(***************************************************************************)
(* Inputs of GateRules: around an input each gate passes, those it has to  *)
(* tell apart.                                                             *)
(***************************************************************************)
CrateNames == {"a", "b", "c"}
Reviewed  == [author |-> "x", reviewer |-> "y", passed |-> TRUE, evidence |-> TRUE]
ContractM == [id |-> "m", producer |-> "a", consumers |-> {"b"}]
ContractN == [id |-> "n", producer |-> "b", consumers |-> {"a", "c"}]
Plan == [given |-> TRUE, version |-> 1, crates |-> <<"a", "b", "c">>, order |-> <<"a", "b", "c">>,
         edges |-> {<<"a", "b">>}, contracts |-> <<ContractM, ContractN>>,
         coupling |-> <<"m", "n">>, review |-> Reviewed]
Source(stub, broad, markers) == [stub |-> stub, broad |-> broad, markers |-> markers]
Clean  == Source(FALSE, FALSE, {})
Marked(m) == Source(FALSE, FALSE, {m})
Crates(source) ==
  <<Gates!CrateRecord("a", <<source>>, "clean", "clean"),
    Gates!CrateRecord("b", <<Clean>>, "clean", "clean"),
    Gates!CrateRecord("c", <<Clean>>, "clean", "clean")>>
Case(d) == [requirement |-> d, passed |-> TRUE, smoke |-> FALSE, evidence |-> TRUE]
Artifact(path, recomputes) == [path |-> path, hex |-> TRUE, recomputes |-> recomputes, role |-> "log"]
ArtifactSets ==
  {{}, {Artifact("src/lib.rs", TRUE)}, {Artifact("../up", TRUE)}, {Artifact("src/lib.rs", FALSE)},
   {Artifact("evidence/a.txt", TRUE), Artifact("src/lib.rs", TRUE)}}

Wiring(contract, producer, consumer, status) ==
  [contract |-> contract, producer |-> producer, consumer |-> consumer, status |-> status,
   observed |-> status = "pass", reason |-> status = "deferred", direct |-> FALSE]
WiringsTold ==
  {w \in Gates!WiringRecords({"m", "n"}, CrateNames) :
     /\ w.producer # "c" /\ w.consumer # "a"
     /\ w.direct => w.status = "pass" /\ w.observed /\ ~w.reason}
LaunchesTold ==
  {l \in Gates!LaunchRecords(Gates!TripRecords({Gates!Layers, {"L0"}}, {"h1", "h2", Blank})) :
     /\ l.trip.ids /\ l.trip.evidence => l.trip.after = "h2"
     /\ l.trip.ids \/ l.trip.evidence
     /\ ~l.trip.ids \/ ~l.trip.evidence => l.alive /\ l.calm /\ l.done}
Launched == [alive |-> TRUE, calm |-> TRUE, screenshot |-> "screenshot", done |-> TRUE,
             trip |-> [ids |-> TRUE, evidence |-> TRUE, layers |-> Gates!Layers,
                       before |-> "h1", after |-> "h2"]]

Full(step) ==
  [Gates!NewInput(step) EXCEPT
     !.requirements = [given |-> TRUE, fields |-> TRUE, done |-> <<"d", "e">>],
     !.blueprint = Plan, !.crates = Crates(Clean), !.commands = [k \in 1..3 |-> "clean"],
     !.cases = <<Case("d"), Case("e")>>, !.review = Reviewed, !.launch = Launched]

Intake(g, f, d, b, k, a) ==
  [Gates!NewInput("intake") EXCEPT
     !.requirements = [given |-> g, fields |-> f, done |-> d], !.blueprint.given = b,
     !.crates = k, !.artifacts = a]
Ordered(c, o, e) ==
  [Full("blueprint") EXCEPT !.blueprint.crates = c, !.blueprint.order = o, !.blueprint.edges = e]
Contracted(v, c, o, r) ==
  [Full("blueprint") EXCEPT !.blueprint.version = v, !.blueprint.contracts = c,
                            !.blueprint.coupling = o, !.blueprint.review = r]
CrateBuild(n, t, m, s, c, w) ==
  [Full("crates") EXCEPT
     !.crates = <<Gates!CrateRecord(n, s, c, "clean"),
                  Gates!CrateRecord("b", <<Clean>>, "clean", "clean"),
                  Gates!CrateRecord("c", <<t>>, "clean", "clean")>>,
     !.markers = m, !.wirings = w]
Couple(v, w, d, s) ==
  [Full("couple") EXCEPT !.wirings = <<v, w>>, !.debt = d, !.crates = Crates(s)]
BuildTest(c, d, k, s) ==
  [Full("test") EXCEPT !.cases = c, !.debt = d, !.commands[1] = k, !.crates = Crates(s)]
Launch(l, m, a) == [Full("launch") EXCEPT !.launch = l, !.markers = m, !.artifacts = a]

Intakes ==
  {Intake(g, f, d, b, k, a) :
     g \in BOOLEAN, f \in BOOLEAN, d \in {<<>>, <<"d">>, <<"d", Blank>>}, b \in BOOLEAN,
     k \in {<<>>, Crates(Clean)}, a \in ArtifactSets}
Blueprints ==
  {Ordered(c, o, e) :
     c \in {<<"a", "b", "c">>, <<"a", "b", "b">>}, o \in [1..3 -> CrateNames] \cup {<<"a", "b">>},
     e \in {s \in SUBSET (CrateNames \X CrateNames) : Cardinality(s) <= 2}}
  \cup
  {Contracted(v, c, o, r) :
     v \in {0, 1}, o \in {<<"m">>, <<"n", "m">>, <<"m", "n">>, <<"m", "m">>},
     c \in {<<>>, <<ContractM>>, <<ContractM, ContractN>>, <<ContractM, ContractM>>,
            <<[ContractM EXCEPT !.consumers = {"z"}]>>},
     r \in {q \in Gates!ReviewRecords({"x", "y", Blank}) : q.author = "x"}}
CrateBuilds ==
  {CrateBuild(n, t, m, s, c, w) :
     n \in {"a", "b"}, t \in {Clean, Marked("q")}, m \in SUBSET {"p", "q"},
     s \in {<<>>, <<Clean>>, <<Source(TRUE, FALSE, {})>>, <<Marked("p")>>,
            <<Clean, Source(FALSE, TRUE, {})>>},
     c \in Gates!CommandRecords, w \in {<<>>, <<Wiring("m", "a", "b", "pass")>>}}
Couples ==
  {Couple(v, w, d, s) :
     v \in WiringsTold, d \in SUBSET {"m", "n"}, s \in {Clean, Marked("p")},
     w \in {Wiring("n", "b", "c", "pass"), Wiring("n", "b", "c", "deferred"),
            Wiring("n", "b", "b", "pass"), Wiring("m", "a", "b", "pass")}}
BuildTests ==
  {BuildTest(c, d, k, s) :
     c \in {<<>>, <<Case("d")>>, <<Case("d"), Case("e")>>, <<Case("d"), Case("d")>>}
             \cup {<<Case("e"), x>> : x \in Gates!CaseRecords({"d"})},
     d \in SUBSET {"m"}, k \in {"clean", "absent", "warned"}, s \in {Clean, Marked("p")}}
Launches == {Launch(l, m, a) : l \in LaunchesTold, m \in SUBSET {"p"}, a \in ArtifactSets}
GateInputs == Intakes \cup Blueprints \cup CrateBuilds \cup Couples \cup BuildTests \cup Launches

(***************************************************************************)
(* The sum.                                                                *)
(***************************************************************************)
NoInput == [kind |-> "none"]
Chosen(kind) == part = kind /\ input # NoInput

RuntimeInit ==
  /\ part \in {"runtime", "records", "projection", "prompt", "context", "gate"}
  /\ input = NoInput
  /\ Init

Choose(kind, inputs) ==
  /\ part = kind /\ input = NoInput
  /\ \E i \in inputs : input' = [kind |-> kind, of |-> i]
  /\ UNCHANGED <<part, vars>>

RuntimeNext ==
  \/ part = "runtime" /\ Next /\ UNCHANGED <<part, input>>
  \/ Choose("records", RecordInputs)
  \/ Choose("projection", ProjectionInputs)
  \/ Choose("prompt", PromptInputs)
  \/ Choose("context", ContextInputs)
  \/ Choose("gate", GateInputs)

RuntimeSpec == RuntimeInit /\ [][RuntimeNext]_<<part, input, vars>>

(***************************************************************************)
(* Properties of an input.                                                 *)
(***************************************************************************)
\* What a step resumes from.  Every store's records are read back as they were
\* written and no change or loss in their chain goes unnoticed (VibeRecords);
\* the projection of a scratchpad, the sections of a prompt and the evidence
\* of a context fit their limits and keep what they must (BuildPrompt); the
\* runtimes hold what the stores can hold, and no build moves that has no
\* session (VibeRuntime).
RecordsReadBack ==
  /\ TypeOK /\ SessionsPrecedeProgress
  /\ Chosen("records") =>
       /\ Files!RecordsReadBack(input.of.store, input.of.texts)
       /\ Files!ChainDamageIsRefused(input.of.store, input.of.texts)
  /\ Chosen("projection") =>
       Files!ProjectionsFit(input.of.entries, 1, input.of.header, input.of.budget)
  /\ Chosen("prompt") => Prompt!PromptsFit(input.of.lengths, input.of.budget)
  /\ Chosen("context") =>
       Prompt!ContextsAreGrounded(input.of.evidence, input.of.graph, input.of.limit)

\* A gate that passes has shown what the next ones rely on: a topological order,
\* contracts resolved or on record, markers tracked, evidence the planner
\* takes (GateRules; the gates of BuildPlanner in detail).
GatesHold == Chosen("gate") => Gates!GatesHold(input.of)

\* "so a small thinking model can resume without reconstructing active work"
\* (model-scratchpad.md): an append, whatever it returns, leaves a scratchpad,
\* a session and turns that load.
AppendsLeaveLoadable ==
  Chosen("records") => Files!AppendsLeaveLoadable(input.of.store, input.of.texts)
==============================================================================
