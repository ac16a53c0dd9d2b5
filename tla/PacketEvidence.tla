---------------------------- MODULE PacketEvidence ----------------------------
(***************************************************************************)
(* The answers a work packet takes (math-atoms-work, planner) and the      *)
(* evidence an executed plan leaves: plan-expanded.json, a record per      *)
(* packet and its output (store), which verify_work_plan_evidence reads    *)
(* back without the plan.                                                  *)
(*                                                                         *)
(* A hash is what it is the hash of; a plan id is the identity it is       *)
(* derived from.  The outputs of a plan are told apart by their packet.    *)
(***************************************************************************)
EXTENDS WorkSchedule

ArtifactStages == {"file-implementation", "file-correction", "integration-correction",
                   "final-correction"}
ClosedStages   == {"closure-group", "integration-closure", "release-group",
                   "release-verification", "finalization"}

\* PacketContract of a stage
Contract(stage) ==
  IF stage = "file-manifest" THEN "file-manifest-v1"
  ELSE IF stage \in ArtifactStages THEN "file-artifact-v1" ELSE "envelope-v1"

(***************************************************************************)
(* Answers: what a model sent for a packet.                                *)
(***************************************************************************)
Answers ==
  [shape  : {"object", "fenced", "prose", "two fences"},
   exact  : BOOLEAN,    (* the fields of the contract, no other            *)
   mine   : BOOLEAN,    (* the packet's id and status complete             *)
   checks : 0..1, risks : 0..1,
   marker : BOOLEAN,    (* a TODO, an ellipsis, a stub                     *)
   secret : BOOLEAN,    (* credential material                             *)
   bytes  : {0, 1, 2}]  (* none, within the limit of the packet, over it   *)

\* validate_envelope and validate_manifest: one raw object
TakesObject(stage, answer) ==
  /\ answer.shape = "object" /\ answer.exact /\ answer.mine
  /\ answer.checks > 0
  /\ stage \in ClosedStages => answer.risks = 0

\* file_artifact_content: one fenced file without a mark of missing code
TakesFile(answer) == answer.shape = "fenced" /\ ~answer.marker

\* validate_packet_output
Takes(stage, answer) ==
  /\ answer.bytes = 1
  /\ IF stage \in ArtifactStages THEN TakesFile(answer) ELSE TakesObject(stage, answer)

\* What store_packet keeps of an answer: its text, with secrets redacted but for a
\* file, which must not have any.
Stored(stage, answer) ==
  IF stage \in ArtifactStages THEN answer ELSE [answer EXCEPT !.secret = FALSE]

\* Variant: a file is not searched for secrets.
TakesUnsearched(stage, answer) == Takes(stage, Stored(stage, answer))

\* validate_secure_packet_output
TakesSecurely(stage, answer) ==
  /\ stage \in ArtifactStages => ~answer.secret
  /\ Takes(stage, Stored(stage, answer))

(***************************************************************************)
(* The files of an executed plan.                                          *)
(***************************************************************************)
Identity == [intent |-> "intent", recipe |-> "recipe", atoms |-> "atoms",
             fingerprint |-> "fingerprint"]

Descriptor(packets, i) ==
  [ordinal |-> i, stage |-> packets[i].stage, contract |-> Contract(packets[i].stage),
   file |-> packets[i].file, dependencies |-> packets[i].dependencies,
   limit |-> OutputLimit(packets[i].stage)]

\* StoredPacket
Record(packets, i) ==
  [plan |-> Identity, ordinal |-> i, stage |-> packets[i].stage,
   contract |-> Contract(packets[i].stage), model |-> "model", output |-> i]

\* write_plan_manifest and store_packet, of all packets
Executed(packets) ==
  [manifest |-> [plan |-> Identity, identity |-> Identity, count |-> Len(packets),
                 expanded |-> TRUE,
                 packets |-> [i \in DOMAIN packets |-> Descriptor(packets, i)]],
   records  |-> [i \in DOMAIN packets |-> Record(packets, i)],
   outputs  |-> [i \in DOMAIN packets |-> i]]

\* Variant: the rows are compared by their stage only.
RecordHoldsLoosely(kept, i) == kept.records[i].stage = kept.manifest.packets[i].stage

\* The record of a packet and its output.
RecordHolds(kept, i) ==
  LET r == kept.records[i]  d == kept.manifest.packets[i] IN
    /\ r.plan = kept.manifest.plan
    /\ r.ordinal = i /\ d.ordinal = i
    /\ r.stage = d.stage /\ r.contract = d.contract
    /\ r.model = kept.records[1].model /\ r.model # ""
    /\ r.output = kept.outputs[i]

\* expect_descriptor, of the whole schedule
FollowsSchedule(descriptors, n) ==
  /\ Len(descriptors) = ExpectedCount(n)
  /\ \A i \in DOMAIN descriptors :
       /\ Row(descriptors[i].stage, descriptors[i].file) = Schedule(n)[i]
       /\ descriptors[i].contract = Contract(descriptors[i].stage)

\* verify_work_plan_evidence for a plan of n files; canonical is the plan
\* canonical_from_manifest builds from the manifest's identity and files.
PlanVerifies(kept, claim, n, canonical) ==
  LET m == kept.manifest IN
    /\ m.plan = claim.plan /\ m.expanded
    /\ m.count = claim.count /\ Len(m.packets) = m.count /\ Len(kept.records) = m.count
    /\ \A i \in DOMAIN m.packets : RecordHolds(kept, i)
    /\ FollowsSchedule(m.packets, n)
    /\ m.identity = claim.plan
    /\ \A i \in DOMAIN m.packets : m.packets[i] = Descriptor(canonical, i)

\* One file changed, lost or added.
DamagedPlans(kept) ==
  LET n == Len(kept.records)  other == "other"
      record(i) == {[kept EXCEPT !.records[i].ordinal = @ + 1],
                    [kept EXCEPT !.records[i].stage = other],
                    [kept EXCEPT !.records[i].contract = other],
                    [kept EXCEPT !.records[i].model = other],
                    [kept EXCEPT !.records[i].output = 0],
                    [kept EXCEPT !.outputs[i] = 0]}
      descriptor(i) == {[kept EXCEPT !.manifest.packets[i].ordinal = @ + 1],
                        [kept EXCEPT !.manifest.packets[i].stage = other],
                        [kept EXCEPT !.manifest.packets[i].contract = other],
                        [kept EXCEPT !.manifest.packets[i].file = @ + 1],
                        [kept EXCEPT !.manifest.packets[i].dependencies = Append(@, 1)],
                        [kept EXCEPT !.manifest.packets[i].limit = @ + 1]}
  IN  (UNION {record(i) \cup descriptor(i) : i \in 1..n})
      \cup {[kept EXCEPT !.records = SubSeq(@, 1, n - 1)],
            [kept EXCEPT !.records = Append(@, kept.records[n])],
            [kept EXCEPT !.manifest.expanded = FALSE],
            [kept EXCEPT !.manifest.count = @ + 1],
            [kept EXCEPT !.manifest.packets = SubSeq(@, 1, n - 1)],
            [kept EXCEPT !.manifest.plan.intent = other],
            [kept EXCEPT !.manifest.identity.recipe = other]}

(***************************************************************************)
(* Properties.                                                             *)
(***************************************************************************)
\* "Envelope output is redacted before persistence ... credential-bearing source
\* fails closed" (work-packets.md): what is stored holds no secret, and is taken
\* again by verify_work_plan_evidence, which reads it through another function.
StoredAnswersReverify(stage, answer) ==
  TakesSecurely(stage, answer) =>
    Takes(stage, Stored(stage, answer)) /\ ~Stored(stage, answer).secret

\* "A missing, malformed, reordered, wrong-model, oversized, noncanonical, or
\* tampered packet fails closed" (work-packets.md): the files of an executed
\* plan verify, and with one of them changed, lost or added they do not.
PlanDamageIsRefused(packets, n) ==
  LET kept == Executed(packets)  claim == [plan |-> Identity, count |-> Len(packets)] IN
    /\ PlanVerifies(kept, claim, n, packets)
    /\ \A damaged \in DamagedPlans(kept) : ~PlanVerifies(damaged, claim, n, packets)
==============================================================================
