-------------------------------- MODULE GateRules --------------------------------
(***************************************************************************)
(* The rules inside the six build gates (atom-vibe-build-gates) and what   *)
(* the build protocol takes as a gate's result.  BuildPlanner sees a gate  *)
(* as the classes it may report; here each gate is the ordered list of its *)
(* checks over the records of its input.                                   *)
(*                                                                         *)
(* Names are model values of small sets; a text field is TRUE when it is   *)
(* not blank; an artifact is a record of its path, whether its hash        *)
(* recomputes, and its role; a source is a Rust file: whether it has a     *)
(* stub, a broad allow, and its scoped markers.  A wiring's message type   *)
(* goes with its contract, and evidence of a record is in its flag.        *)
(***************************************************************************)
EXTENDS Naturals, Sequences, SequencesExt, FiniteSets

CONSTANTS
  MaxArtifacts,   \* artifacts an evidence record may name (256)
  Blank           \* a name or a hash that is blank

(* Checks are made in order and the first that fails is the answer: a      *)
(* check is the class it fails with, or a pass.                            *)
Check(holds, class) == IF holds THEN "pass" ELSE class
Outcome(checks) ==
  LET failed == {i \in DOMAIN checks : checks[i] # "pass"} IN
  IF failed = {} THEN "pass"
  ELSE checks[CHOOSE i \in failed : \A j \in failed : i <= j]
Distinct(seq) == Cardinality(Range(seq)) = Len(seq)

(* BuildArtifactRef::validate: is_safe_evidence_path, 64 hex digits, role. *)
SafePaths == {"evidence/a.txt", "evidence/b.txt", "src/lib.rs"}
Paths == SafePaths \cup {"", "/root", "c:/x", "a//b", "../up"}
ValidArtifact(a) == a.path \in SafePaths /\ a.hex /\ a.role # Blank
(* verify_artifacts: a file inside the root whose hash recomputes. *)
Present(a) == ValidArtifact(a) /\ a.recomputes

(* BuildGateEvidence::validate, GateOutcome::validate, BuildGateResult.    *)
(* The summary and the details a gate writes are never blank, and a gate   *)
(* never defers.                                                           *)
ValidEvidence(artifacts) ==
  /\ Cardinality(artifacts) <= MaxArtifacts
  /\ \A a \in artifacts : ValidArtifact(a)
ValidIdentifier(id) == id \notin {Blank, "control"}
ValidResult(build, step, deferred, artifacts) ==
  /\ ValidIdentifier(build)
  /\ ValidEvidence(artifacts)
  /\ deferred => step = "couple"

(* The records of an input, and the input GateInput::new makes: nothing is *)
(* given, and a command that was not captured is absent.                   *)
ReviewRecords(people) == [author : people, reviewer : people, passed : BOOLEAN, evidence : BOOLEAN]
CommandRecords == {"clean", "failed", "warned", "narrative"}
CrateRecord(name, sources, check, test) ==
  [name |-> name, sources |-> sources, check |-> check, test |-> test]
WiringRecords(contracts, crates) ==
  [contract : contracts, producer : crates, consumer : crates, status : {"pass", "fail", "deferred"},
   observed : BOOLEAN, reason : BOOLEAN, direct : BOOLEAN]
CaseRecords(done) == [requirement : done, passed : BOOLEAN, smoke : BOOLEAN, evidence : BOOLEAN]
TripRecords(layers, hashes) ==
  [ids : BOOLEAN, evidence : BOOLEAN, layers : layers, before : hashes, after : hashes]
LaunchRecords(trips) ==
  [alive : BOOLEAN, calm : BOOLEAN, screenshot : {"screenshot", "other"}, done : BOOLEAN, trip : trips]
NewInput(step) ==
  [step |-> step, artifacts |-> {}, crates |-> <<>>, wirings |-> <<>>, cases |-> <<>>,
   markers |-> {}, debt |-> {},
   requirements |-> [given |-> FALSE, fields |-> FALSE, done |-> <<>>],
   blueprint |-> [given |-> FALSE, version |-> 0, crates |-> <<>>, order |-> <<>>, edges |-> {},
                  contracts |-> <<>>, coupling |-> <<>>,
                  review |-> [author |-> Blank, reviewer |-> Blank, passed |-> FALSE, evidence |-> FALSE]],
   commands |-> [i \in 1..3 |-> "absent"],
   review |-> [author |-> Blank, reviewer |-> Blank, passed |-> FALSE, evidence |-> FALSE],
   launch |-> [alive |-> FALSE, calm |-> FALSE, screenshot |-> "other", done |-> FALSE,
               trip |-> [ids |-> FALSE, evidence |-> FALSE, layers |-> {},
                        before |-> Blank, after |-> Blank]]]

(* validate_requirements: every field and every entry filled in. *)
RequirementsChecks(r) ==
  << Check(r.given /\ r.fields, "bounded_mechanical"),
     Check(r.done # <<>> /\ Blank \notin Range(r.done), "bounded_mechanical") >>

(* validate_review: two identities, a verdict, and evidence of it. *)
ReviewHolds(v) == Blank \notin {v.author, v.reviewer} /\ v.author # v.reviewer /\ v.passed /\ v.evidence

(* validate_blueprint. *)
Place(order, c) == CHOOSE i \in DOMAIN order : order[i] = c
OrderHolds(b) == Len(b.order) = Cardinality(Range(b.crates)) /\ Range(b.order) = Range(b.crates)

(* Variant: a crate may depend on itself. *)
EdgeHoldsLoosely(b, e) ==
  /\ {e[1], e[2]} \subseteq Range(b.order)
  /\ Place(b.order, e[1]) <= Place(b.order, e[2])

EdgeHolds(b, e) ==
  /\ {e[1], e[2]} \subseteq Range(b.order)
  /\ Place(b.order, e[1]) < Place(b.order, e[2])
ContractHolds(b, c) ==
  /\ c.id # Blank
  /\ c.producer \in Range(b.crates)
  /\ c.consumers # {} /\ c.consumers \subseteq Range(b.crates)
Ids(b) == {c.id : c \in Range(b.contracts)}
BlueprintChecks(b) ==
  << Check(b.version # 0 /\ b.crates # <<>>, "blueprint_amendment"),
     Check(Distinct(b.crates) /\ Blank \notin Range(b.crates), "unbounded_ownership"),
     Check(OrderHolds(b), "architectural_violation"),
     Check(\A e \in b.edges : EdgeHolds(b, e), "architectural_violation"),
     Check(b.contracts # <<>>, "blueprint_amendment"),
     Check(Cardinality(Ids(b)) = Len(b.contracts) /\ \A c \in Range(b.contracts) : ContractHolds(b, c),
           "architectural_violation"),
     Check(Len(b.coupling) = Cardinality(Ids(b)) /\ Range(b.coupling) = Ids(b), "architectural_violation"),
     Check(ReviewHolds(b.review), "adversarial_failure") >>

(* require_command: a real execution, then its verdict, then its warnings. *)
CommandChecks(c) ==
  << Check(c # "narrative", "evidence_invalid"),
     Check(c # "failed", "compile_errors"),
     Check(c # "warned", "compile_warnings") >>

(* inspect_rust_sources, one artifact after the other: a stub, a broad     *)
(* allow, a COUPLE marker without one; then markers where none may be.     *)
SourceChecks(sources, markers) ==
  FlattenSeq([i \in DOMAIN sources |->
    << Check(~sources[i].stub, "stub_detected"), Check(~sources[i].broad, "compile_warnings") >>])
  \o << Check(markers \/ \A s \in Range(sources) : s.markers = {}, "compile_warnings") >>
MarkersOf(sources) == UNION {s.markers : s \in Range(sources)}
SourcesOf(in) == FlattenSeq([i \in DOMAIN in.crates |-> in.crates[i].sources])

(* evaluate_intake and evaluate_blueprint; the later gates take a missing  *)
(* blueprint for a violation (required_blueprint).                         *)
BlueprintGateChecks(in) ==
  << Check(in.requirements.given, "blueprint_amendment") >> \o RequirementsChecks(in.requirements)
    \o << Check(in.blueprint.given, "blueprint_amendment") >> \o BlueprintChecks(in.blueprint)
RequiredBlueprint(in) ==
  << Check(in.blueprint.given, "architectural_violation") >> \o BlueprintChecks(in.blueprint)
IntakeChecks(in) ==
  RequirementsChecks(in.requirements)
    \o << Check(~in.blueprint.given /\ in.crates = <<>> /\ in.wirings = <<>>, "architectural_violation") >>

(* evaluate_crate_build: the crates in their order, no wiring yet, each    *)
(* crate's sources and commands, and the markers the ledger tracks.        *)
CrateChecks(k) ==
  << Check(k.sources # <<>>, "unbounded_ownership") >>
    \o SourceChecks(k.sources, TRUE) \o CommandChecks(k.check) \o CommandChecks(k.test)
CrateBuildChecks(in) ==
  RequiredBlueprint(in)
    \o << Check([i \in DOMAIN in.crates |-> in.crates[i].name] = in.blueprint.order,
             "architectural_violation"),
          Check(in.wirings = <<>>, "architectural_violation") >>
    \o FlattenSeq([i \in DOMAIN in.crates |-> CrateChecks(in.crates[i])])
    \o << Check(MarkersOf(SourcesOf(in)) = in.markers, "couple_debt") >>

(* evaluate_crate_couple: one wiring per contract in coupling order. *)
Contract(b, id) == CHOOSE c \in Range(b.contracts) : c.id = id
WiringChecks(in, i) ==
  LET w == in.wirings[i]
      id == in.blueprint.coupling[i] IN
  << Check(w.contract = id, "architectural_violation"),
     Check(id \in Ids(in.blueprint), "architectural_violation"),
     Check(id \in Ids(in.blueprint) =>
             w.producer = Contract(in.blueprint, id).producer
               /\ w.consumer \in Contract(in.blueprint, id).consumers,
           "architectural_violation"),
     Check(~w.direct, "architectural_violation"),
     Check(w.status = "pass" => w.observed, "functional_failure"),
     Check(w.status # "fail", "functional_failure"),
     Check(w.status = "deferred" => w.reason, "couple_debt") >>
Deferrals(in) == {w.contract : w \in {v \in Range(in.wirings) : v.status = "deferred"}}
CoupleChecks(in) ==
  LET b == in.blueprint IN
  RequiredBlueprint(in)
    \o << Check(in.markers = {}, "couple_debt") >>
    \o SourceChecks(SourcesOf(in), FALSE)
    \o << Check(Len(in.wirings) = Len(b.coupling), "couple_debt") >>
    \o (IF Len(in.wirings) = Len(b.coupling)
        THEN FlattenSeq([i \in DOMAIN in.wirings |-> WiringChecks(in, i)]) ELSE <<>>)
    \o << Check(Deferrals(in) = in.debt, "couple_debt") >>

(* evaluate_build_test: no debt, the sources, three commands, functional   *)
(* cases, and the review of the implementation.                            *)
CaseHolds(c) == c.passed /\ ~c.smoke /\ c.evidence
NoDebt(in) == Check(in.debt = {} /\ in.markers = {}, "couple_debt")
BuildTestChecks(in) ==
  RequiredBlueprint(in)
    \o << NoDebt(in) >>
    \o SourceChecks(SourcesOf(in), FALSE)
    \o FlattenSeq([i \in 1..3 |-> << Check(in.commands[i] # "absent", "compile_errors") >>
                                    \o CommandChecks(in.commands[i])])
    \o << Check(in.requirements.given /\ Len(in.cases) >= Len(in.requirements.done) /\ in.cases # <<>>,
                "functional_failure"),
          Check(\A c \in Range(in.cases) : CaseHolds(c), "functional_failure"),
          Check(ReviewHolds(in.review), "adversarial_failure") >>

(* evaluate_launch: alive, without panic, the right roles, a round trip    *)
(* that changed what is drawn, and the definition of done confirmed.       *)
Layers == {"L0", "L1", "L2", "L3"}
RoundTripHolds(r) ==
  r.ids /\ r.evidence /\ Layers \subseteq r.layers /\ r.before # r.after /\ Blank \notin {r.before, r.after}
LaunchChecks(in) ==
  LET l == in.launch IN
  RequiredBlueprint(in)
    \o << NoDebt(in) >>
    \o SourceChecks(SourcesOf(in), FALSE)
    \o << Check(l.alive, "launch_proof_missing"),
          Check(l.calm, "runtime_panic"),
          Check(l.screenshot = "screenshot", "evidence_invalid"),
          Check(RoundTripHolds(l.trip), "launch_proof_missing"),
          Check(l.done, "launch_proof_missing") >>

(* evaluate_gate: the artifacts first, then the gate of the step. *)
Evaluated(in) ==
  Outcome(<< Check(\A a \in in.artifacts : Present(a), "evidence_invalid") >> \o
    CASE in.step = "intake" -> IntakeChecks(in)
      [] in.step = "blueprint" -> BlueprintGateChecks(in)
      [] in.step = "crates" -> CrateBuildChecks(in)
      [] in.step = "couple" -> CoupleChecks(in)
      [] in.step = "test" -> BuildTestChecks(in)
      [] in.step = "launch" -> LaunchChecks(in))

(***************************************************************************)
(* Properties.                                                             *)
(***************************************************************************)
(* A crate that passed was built after everything it reaches over any      *)
(* number of dependency edges, and none reaches itself: the order the gate *)
(* compares pairwise is a topological one (validate_blueprint).            *)
Reaches(edges, c, d) ==
  \A S \in SUBSET {e[2] : e \in edges} :
    (\A e \in edges : e[1] \in {c} \cup S => e[2] \in S) => d \in S
OrdersAreTopological(in) ==
  in.step # "intake" /\ Evaluated(in) = "pass" =>
    \A c, d \in Range(in.blueprint.crates) :
      Reaches(in.blueprint.edges, c, d) =>
        c # d /\ Place(in.blueprint.order, c) < Place(in.blueprint.order, d)

(* Coupling leaves no contract of the blueprint without a wiring that was  *)
(* seen to carry its message, or that is recorded as debt (SKILL           *)
(* atom-crate-couple: "all contracts resolved in order").                  *)
ContractsAreResolved(in) ==
  in.step = "couple" /\ Evaluated(in) = "pass" =>
    \A c \in Range(in.blueprint.contracts) :
      \E w \in Range(in.wirings) :
        /\ w.contract = c.id /\ w.producer = c.producer /\ w.consumer \in c.consumers /\ ~w.direct
        /\ (w.status = "pass" /\ w.observed) \/ c.id \in in.debt

(* Markers tracked in the ledger after the crates were built are exactly   *)
(* the ones their sources carry, and no later gate passes while one of     *)
(* them is left in a source it is shown.                                   *)
MarkersAreTracked(in) ==
  Evaluated(in) = "pass" =>
    /\ in.step = "crates" => MarkersOf(SourcesOf(in)) = in.markers
    /\ in.step \in {"couple", "test", "launch"} => MarkersOf(SourcesOf(in)) = {}

(* A gate's pass is a result the planner takes: the evidence it carries    *)
(* validates, unless the input named more artifacts than a record may      *)
(* (evaluate_gate against BuildGateResult::validate).                      *)
PassesAreTaken(in) ==
  Evaluated(in) = "pass" /\ Cardinality(in.artifacts) <= MaxArtifacts =>
    ValidResult("build", in.step, FALSE, in.artifacts)

GatesHold(in) ==
  /\ OrdersAreTopological(in)
  /\ ContractsAreResolved(in)
  /\ MarkersAreTracked(in)
  /\ PassesAreTaken(in)

(* The build test exercises every condition of the definition of done      *)
(* (SKILL atom-build-test: "Exercise every definition-of-done condition    *)
(* through a realistic workflow").                                         *)
ConditionsAreTested(in) ==
  in.step = "test" /\ Evaluated(in) = "pass" =>
    \A d \in Range(in.requirements.done) : \E c \in Range(in.cases) : c.requirement = d
=============================================================================
