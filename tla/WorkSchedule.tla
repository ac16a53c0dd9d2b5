----------------------------- MODULE WorkSchedule -----------------------------
(***************************************************************************)
(* The stages of a work plan and the schedule of packets its evidence is   *)
(* verified against (math-atoms-work, validate_packet_schedule).           *)
(*                                                                         *)
(* A file is its position in the manifest, 0 for a packet without a file.  *)
(* The contract of a packet and the bound on its output follow from its    *)
(* stage.                                                                  *)
(***************************************************************************)
EXTENDS Naturals, Sequences

CONSTANT MaxFiles   (* MAX_FILES_PER_PLAN: 32 in the code *)

ASSUME FilesAssumption == MaxFiles \in Nat \ {0}

BaseStages == <<"intent", "functional-requirements", "quality-requirements",
                "architecture", "file-manifest">>
FileStages == <<"file-contract", "file-implementation", "file-review",
                "file-correction">>
GroupStages == {"integration-group", "closure-group", "release-group"}
Stages ==
  {BaseStages[i] : i \in 1..5} \cup {FileStages[i] : i \in 1..4} \cup GroupStages
    \cup {"integration", "integration-correction", "integration-closure",
          "verification", "adversarial-review", "final-correction",
          "release-verification", "finalization"}

KiB == 1024

\* max_output_bytes
OutputLimit(stage) ==
  CASE stage = "file-manifest" -> 32 * KiB
    [] stage \in GroupStages \cup {BaseStages[i] : i \in 1..4} -> 8 * KiB
    [] OTHER -> 12 * KiB

Thirds(n) == (n + 2) \div 3

IntegrationGroupCount[n \in Nat] ==
  IF n > 3 THEN Thirds(n) + IntegrationGroupCount[Thirds(n)] ELSE 0

ReductionToOneCount[n \in Nat \ {0}] ==
  IF Thirds(n) = 1 THEN 1 ELSE Thirds(n) + ReductionToOneCount[Thirds(n)]

ExpectedCount(n) ==
  11 + 6 * n + IntegrationGroupCount[n] + 2 * ReductionToOneCount[n]

Row(stage, file) == [stage |-> stage, file |-> file]
Repeated(stage, k) == [i \in 1..k |-> Row(stage, 0)]
PerFile(stage, n)  == [f \in 1..n |-> Row(stage, f)]

\* The rows expected for a manifest of n files.
Schedule(n) ==
  [i \in 1..5 |-> Row(BaseStages[i], 0)]
    \o [i \in 1..4 * n |-> Row(FileStages[((i - 1) % 4) + 1], ((i - 1) \div 4) + 1)]
    \o Repeated("integration-group", IntegrationGroupCount[n])
    \o <<Row("integration", 0)>>
    \o PerFile("integration-correction", n)
    \o Repeated("closure-group", ReductionToOneCount[n])
    \o <<Row("integration-closure", 0), Row("verification", 0),
         Row("adversarial-review", 0)>>
    \o PerFile("final-correction", n)
    \o Repeated("release-group", ReductionToOneCount[n])
    \o <<Row("release-verification", 0), Row("finalization", 0)>>
==============================================================================
