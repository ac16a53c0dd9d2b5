----------------------------- MODULE BuildPlanner -----------------------------
(***************************************************************************)
(* One build's ledger and what a gate evaluation does to it                *)
(* (atom-vibe-build-planner, planner.rs and model.rs), as functions of a   *)
(* ledger and a gate input, over the vocabulary of the build spine         *)
(* (atom-vibe-build-protocol): its six steps by ordinal, the error classes *)
(* a gate can report, and which may be corrected without a human.          *)
(*                                                                         *)
(* A ledger is a record.  Its free text, timestamps and artifacts are left *)
(* out; a blueprint is one value, and the crate and wiring statuses are    *)
(* the blueprint whose topological and coupling order they list, because   *)
(* the gates accept no other names; retry_ledger is kept as the number of  *)
(* "retry_requested" records per step, which is all retry_attempts reads.  *)
(***************************************************************************)
EXTENDS Naturals, Sequences

CONSTANTS
  Blueprints,    (* blueprints a gate input may carry                     *)
  NoBlueprint,   (* no blueprint                                          *)
  Markers,       (* COUPLE markers that may be found in crate sources     *)
  Wirings,       (* wirings that may be deferred                          *)
  Autonomous,    (* autonomous_correction of every build                  *)
  RetryLimit     (* retry_limit of every build                            *)

ASSUME RetryLimitAssumption == RetryLimit \in 1..32
ASSUME AutonomousAssumption == Autonomous \in BOOLEAN
ASSUME BlueprintAssumption  == NoBlueprint \notin Blueprints

(***************************************************************************)
(* Steps and error classes.                                                *)
(***************************************************************************)
Intake      == 1
Blueprint   == 2
CrateBuild  == 3
CrateCouple == 4
BuildTest   == 5
LaunchProof == 6

Steps == Intake..LaunchProof

\* BuildStep::next
HasNext(step) == step # LaunchProof
NextStep(step) == step + 1

BoundedClasses ==
  {"bounded_mechanical", "blueprint_amendment", "compile_errors",
   "compile_warnings", "stub_detected", "couple_debt", "functional_failure",
   "adversarial_failure", "launch_proof_missing"}

UnboundedClasses ==
  {"architectural_violation", "runtime_panic", "unbounded_ownership",
   "retry_exhausted", "evidence_invalid", "unknown"}

ErrorClasses == BoundedClasses \cup UnboundedClasses

\* BuildErrorClass::is_bounded_candidate
IsBoundedCandidate(class) == class \in BoundedClasses

Statuses == {"active", "halted", "complete"}

(***************************************************************************)
(* Ledgers.                                                                *)
(***************************************************************************)
MaybeBlueprint == Blueprints \cup {NoBlueprint}

Ledgers ==
  [revision       : Nat,
   status         : Statuses,
   current_step   : Steps,
   blueprint      : MaybeBlueprint,   \* latest of blueprint_versions
   step_outputs   : Seq(Steps),
   crate_statuses : MaybeBlueprint,
   wiring_statuses: MaybeBlueprint,
   deferred_debt  : SUBSET Wirings,
   couple_markers : SUBSET Markers,
   retries        : [Steps -> Nat],
   launch_proof   : BOOLEAN]

\* BuildPlanner::new
NewLedger ==
  [revision |-> 1, status |-> "active", current_step |-> Intake,
   blueprint |-> NoBlueprint, step_outputs |-> <<>>,
   crate_statuses |-> NoBlueprint, wiring_statuses |-> NoBlueprint,
   deferred_debt |-> {}, couple_markers |-> {},
   retries |-> [s \in Steps |-> 0], launch_proof |-> FALSE]

(***************************************************************************)
(* A gate input as far as the planner tells inputs apart.  `verdict' is    *)
(* what evaluate_gate makes of the evidence: "pass" or an error class.     *)
(***************************************************************************)
InputsFor(step, verdicts) ==
  [step : {step}, blueprint : MaybeBlueprint, couple_markers : SUBSET Markers,
   deferred_debt : SUBSET Wirings, verdict : verdicts]

\* required_blueprint, or validate_blueprint of the blueprint gate
BlueprintFailures ==
  {"architectural_violation", "blueprint_amendment", "unbounded_ownership",
   "adversarial_failure"}

\* inspect_rust_sources and require_command
SourceFailures  == {"stub_detected", "compile_warnings"}
CommandFailures == {"evidence_invalid", "compile_errors", "compile_warnings"}

\* The error classes of the six gates.
IntakeGateFailures == {"bounded_mechanical", "architectural_violation"}

BlueprintGateFailures == {"bounded_mechanical"} \cup BlueprintFailures

CrateBuildGateFailures ==
  {"couple_debt"} \cup BlueprintFailures \cup SourceFailures \cup CommandFailures

CrateCoupleGateFailures ==
  {"couple_debt", "functional_failure"} \cup BlueprintFailures \cup SourceFailures

BuildTestGateFailures == CrateCoupleGateFailures \cup CommandFailures

LaunchGateFailures ==
  {"couple_debt", "launch_proof_missing", "runtime_panic"}
    \cup BlueprintFailures \cup SourceFailures

\* Every gate recomputes the artifact hashes first: evidence_invalid.
GateFailures(step) ==
  {"evidence_invalid"} \cup
  CASE step = Intake      -> IntakeGateFailures
    [] step = Blueprint   -> BlueprintGateFailures
    [] step = CrateBuild  -> CrateBuildGateFailures
    [] step = CrateCouple -> CrateCoupleGateFailures
    [] step = BuildTest   -> BuildTestGateFailures
    [] step = LaunchProof -> LaunchGateFailures

\* What must be true of the input itself for its gate to pass.  The gates
\* look at the input only: nothing here mentions a ledger.
GatePasses(in) ==
  /\ in.step # Intake => in.blueprint # NoBlueprint
  /\ in.step = Intake => in.blueprint = NoBlueprint
  /\ in.step \in {CrateCouple, BuildTest, LaunchProof} => in.couple_markers = {}
  /\ in.step \in {BuildTest, LaunchProof} => in.deferred_debt = {}

\* The inputs of a step with what evaluate_gate may return for them; it never
\* returns Deferred.
Inputs(step) ==
  InputsFor(step, GateFailures(step))
    \cup {in \in InputsFor(step, {"pass"}) : GatePasses(in)}

(***************************************************************************)
(* handle_pass, with record_step_state.                                    *)
(***************************************************************************)
DebtRefused(in) ==
  in.step \in {BuildTest, LaunchProof} /\ in.deferred_debt # {}

MarkersRefused(in) ==
  in.step \in {CrateCouple, BuildTest, LaunchProof} /\ in.couple_markers # {}

\* Debt and markers after the step: Crate Build tracks the markers it found,
\* Crate Couple replaces the debt and clears the markers, and the last two
\* steps clear both.
DebtAfter(l, in) ==
  CASE in.step = CrateCouple -> in.deferred_debt
    [] in.step \in {BuildTest, LaunchProof} -> {}
    [] OTHER -> l.deferred_debt

MarkersAfter(l, in) ==
  CASE in.step = CrateBuild -> in.couple_markers
    [] in.step \in {CrateCouple, BuildTest, LaunchProof} -> {}
    [] OTHER -> l.couple_markers

Passed(l, in) ==
  [l EXCEPT
    !.revision        = @ + 1,
    !.blueprint       = IF in.step = Blueprint THEN in.blueprint ELSE @,
    !.crate_statuses  = IF in.step = CrateBuild THEN in.blueprint ELSE @,
    !.wiring_statuses = IF in.step = CrateCouple THEN in.blueprint ELSE @,
    !.launch_proof    = @ \/ in.step = LaunchProof,
    !.deferred_debt   = DebtAfter(l, in),
    !.couple_markers  = MarkersAfter(l, in),
    !.step_outputs    = Append(@, in.step),
    !.current_step    = IF HasNext(in.step) THEN NextStep(in.step) ELSE @,
    !.status          = IF HasNext(in.step) THEN @ ELSE "complete"]

(***************************************************************************)
(* handle_fail: a bounded correction, or a hard halt.                      *)
(***************************************************************************)
\* Variant: one correction too many.
RetryEligibleOnceMore(l, in) ==
  /\ Autonomous
  /\ IsBoundedCandidate(in.verdict)
  /\ l.retries[in.step] <= RetryLimit

RetryEligible(l, in) ==
  /\ Autonomous
  /\ IsBoundedCandidate(in.verdict)
  /\ l.retries[in.step] + 1 <= RetryLimit

Retried(l, in) ==
  [l EXCEPT !.revision = @ + 1, !.retries[in.step] = @ + 1]

Halted(l) == [l EXCEPT !.revision = @ + 1, !.status = "halted"]

\* evaluate_and_handle refuses an inactive build or the wrong step, and
\* handle_pass refuses what the gates have refused before it.
Accepts(l, in) ==
  /\ l.status = "active"
  /\ in.step = l.current_step
  /\ in.verdict = "pass" => ~DebtRefused(in) /\ ~MarkersRefused(in)

Evaluated(l, in) ==
  IF in.verdict = "pass" THEN Passed(l, in)
  ELSE IF RetryEligible(l, in) THEN Retried(l, in)
  ELSE Halted(l)

(***************************************************************************)
(* BuildLedger::validate: what save and load insist on.                    *)
(***************************************************************************)
Valid(l) ==
  /\ l.revision # 0
  /\ l.status = "complete" =>
       /\ l.current_step = LaunchProof
       /\ l.launch_proof
       /\ l.step_outputs # <<>>
       /\ l.step_outputs[Len(l.step_outputs)] = LaunchProof
  /\ Len(l.step_outputs) <= LaunchProof
  /\ \A i \in 1..Len(l.step_outputs) : l.step_outputs[i] = i

(***************************************************************************)
(* What a ledger means, stronger than validate asks.                       *)
(***************************************************************************)
\* The steps passed are exactly those before the current one, and all six
\* when the build is complete.
SpineInOrder(l) ==
  /\ Len(l.step_outputs) =
       IF l.status = "complete" THEN LaunchProof ELSE l.current_step - 1
  /\ \A i \in 1..Len(l.step_outputs) : l.step_outputs[i] = i
  /\ l.status = "complete" => l.current_step = LaunchProof /\ l.launch_proof

\* No step has been corrected more than RetryLimit times, a step not yet
\* released not at all, and without autonomous correction nothing has.
CorrectionsBounded(l) ==
  \A s \in Steps :
    /\ l.retries[s] <= RetryLimit
    /\ s > l.current_step => l.retries[s] = 0
    /\ ~Autonomous => l.retries[s] = 0

\* Markers are tracked only between Crate Build and Crate Couple, debt only
\* between Crate Couple and Build Test: a complete build has neither.
DebtOnlyBetweenGates(l) ==
  /\ l.couple_markers # {} => l.current_step = CrateCouple
  /\ l.deferred_debt # {} => l.current_step = BuildTest
  /\ l.status = "complete" => l.couple_markers = {} /\ l.deferred_debt = {}
==============================================================================
