------------------------------- MODULE WorkPlan -------------------------------
(***************************************************************************)
(* How a work plan grows from its five base packets to the packet DAG of a *)
(* manifest (WorkPlan::from_identity and expand_files, math-atoms-work).   *)
(*                                                                         *)
(* An action is one round of a loop of expand_files, or the packets pushed *)
(* between two loops.  A packet is known by its place in the plan: its id  *)
(* starts with its ordinal, which makes ids unique.  Objectives and        *)
(* acceptance texts are left out.                                          *)
(***************************************************************************)
EXTENDS WorkSchedule

VARIABLES
  files,        (* files of the manifest, 1..files                         *)
  packets,      (* the packets pushed so far                               *)
  phase,        (* the loop of expand_files that is running                *)
  contracts,    (* of each file, its contract packet                       *)
  corrections,  (* of each file, the packet of its last correction         *)
  inputs        (* packets the running reduction still has to combine      *)

vars == <<files, packets, phase, contracts, corrections, inputs>>

Packets == [stage : Stages, file : 0..MaxFiles, dependencies : Seq(Nat)]
Ids     == 1..Len(packets)

TypeOK ==
  /\ files \in 1..MaxFiles
  /\ packets \in Seq(Packets)
  /\ phase \in {"files", "integration", "closure", "gates", "release", "finish", "done"}
  /\ contracts \in Seq(Ids) /\ corrections \in Seq(Ids) /\ inputs \in Seq(Ids)

Packet(stage, file, dependencies) ==
  [stage |-> stage, file |-> file, dependencies |-> dependencies]

Functional   == 2
Quality      == 3
Architecture == 4
Manifest     == 5

\* from_identity, then a manifest whose paths are safe and distinct
\* (validate_files): its files are numbered.
Init ==
  /\ files \in 1..MaxFiles
  /\ packets = [i \in 1..5 |->
                  Packet(BaseStages[i], 0, IF i = 1 THEN <<>> ELSE <<i - 1>>)]
  /\ phase = "files"
  /\ contracts = <<>> /\ corrections = <<>> /\ inputs = <<>>

\* The packet of a stage that occurs once.
The(stage) == CHOOSE i \in Ids : packets[i].stage = stage

\* k packets from the next place on, in order
NextIds(k) == [i \in 1..k |-> Len(packets) + i]

\* Variant: the implementation waits for itself instead of its contract.
FileFlowMisnumbered ==
  LET f == Len(contracts) + 1  k == Len(packets) IN
    /\ phase = "files"
    /\ packets' = packets \o
         <<Packet("file-contract", f, <<Manifest, Architecture>>
             \o (IF f = 1 THEN <<>> ELSE <<corrections[f - 1]>>)),
           Packet("file-implementation", f, <<k + 2, Manifest, Architecture>>),
           Packet("file-review", f, <<k + 1, k + 2, Quality>>),
           Packet("file-correction", f, <<k + 1, k + 2, k + 3>>)>>
    /\ contracts' = Append(contracts, k + 1)
    /\ corrections' = Append(corrections, k + 4)
    /\ inputs' = corrections'
    /\ phase' = IF f = files THEN "integration" ELSE phase
    /\ UNCHANGED files

\* Contract, implementation, review and correction of the next file.  A
\* contract also reads the correction of the file before it.
FileFlow ==
  LET f == Len(contracts) + 1  k == Len(packets) IN
    /\ phase = "files"
    /\ packets' = packets \o
         <<Packet("file-contract", f, <<Manifest, Architecture>>
             \o (IF f = 1 THEN <<>> ELSE <<corrections[f - 1]>>)),
           Packet("file-implementation", f, <<k + 1, Manifest, Architecture>>),
           Packet("file-review", f, <<k + 1, k + 2, Quality>>),
           Packet("file-correction", f, <<k + 1, k + 2, k + 3>>)>>
    /\ contracts' = Append(contracts, k + 1)
    /\ corrections' = Append(corrections, k + 4)
    /\ inputs' = corrections'
    /\ phase' = IF f = files THEN "integration" ELSE phase
    /\ UNCHANGED files

(***************************************************************************)
(* Groups of three.                                                        *)
(***************************************************************************)
\* Variant: groups of four.
ChunksOfFour(s) ==
  [g \in 1..((Len(s) + 3) \div 4) |->
     SubSeq(s, 4 * g - 3, IF 4 * g < Len(s) THEN 4 * g ELSE Len(s))]

\* chunks(3)
Chunks(s) ==
  [g \in 1..Thirds(Len(s)) |->
     SubSeq(s, 3 * g - 2, IF 3 * g < Len(s) THEN 3 * g ELSE Len(s))]

\* One level of grouping: a packet per group, which become the next inputs.
Grouped(stage) ==
  LET groups == Chunks(inputs) IN
    /\ packets' = packets \o [g \in 1..Len(groups) |-> Packet(stage, 0, groups[g])]
    /\ inputs' = NextIds(Len(groups))

\* Variant: three inputs are grouped once more.
TooManyAtThree(s) == Len(s) >= 3

TooMany(s) == Len(s) > 3

IntegrateLevel ==
  /\ phase = "integration" /\ TooMany(inputs)
  /\ Grouped("integration-group")
  /\ UNCHANGED <<files, phase, contracts, corrections>>

\* summarize_to_one: at least one level, until a level has one group.
Summarize(stage, from, to) ==
  /\ phase = from
  /\ Grouped(stage)
  /\ phase' = IF Len(inputs') = 1 THEN to ELSE from
  /\ UNCHANGED <<files, contracts, corrections>>

CloseLevel   == Summarize("closure-group", "closure", "gates")
ReleaseLevel == Summarize("release-group", "release", "finish")

(***************************************************************************)
(* The packets between the reductions.                                     *)
(***************************************************************************)
\* Variant: the corrections read the first of the shared packets.
CorrectFromFirst(stage, shared) ==
  LET k == Len(packets) + Len(shared) IN
    /\ packets' = packets \o shared \o
         [f \in 1..files |->
            Packet(stage, f, <<corrections[f], contracts[f], Len(packets) + 1>>)]
    /\ corrections' = [f \in 1..files |-> k + f]
    /\ inputs' = corrections'

\* Pushes shared, then a correction of every file that also reads the last of
\* the shared packets.
Correct(stage, shared) ==
  LET k == Len(packets) + Len(shared) IN
    /\ packets' = packets \o shared \o
         [f \in 1..files |-> Packet(stage, f, <<corrections[f], contracts[f], k>>)]
    /\ corrections' = [f \in 1..files |-> k + f]
    /\ inputs' = corrections'

Integrate ==
  /\ phase = "integration" /\ ~TooMany(inputs)
  /\ Correct("integration-correction", <<Packet("integration", 0, inputs)>>)
  /\ phase' = "closure"
  /\ UNCHANGED <<files, contracts>>

Gates ==
  LET k == Len(packets) IN
    /\ phase = "gates"
    /\ Correct("final-correction",
         <<Packet("integration-closure", 0, <<inputs[1], The("integration"), Quality>>),
           Packet("verification", 0, <<k + 1, Functional, Quality>>),
           Packet("adversarial-review", 0, <<k + 2, k + 1, Architecture>>)>>)
    /\ phase' = "release"
    /\ UNCHANGED <<files, contracts>>

Finish ==
  /\ phase = "finish"
  /\ packets' = packets \o
       <<Packet("release-verification", 0,
           <<inputs[1], The("verification"), The("adversarial-review")>>),
         Packet("finalization", 0,
           <<Len(packets) + 1, The("integration-closure"), inputs[1]>>)>>
  /\ phase' = "done"
  /\ UNCHANGED <<files, contracts, corrections, inputs>>

Next ==
  \/ FileFlow \/ IntegrateLevel \/ Integrate \/ CloseLevel
  \/ Gates \/ ReleaseLevel \/ Finish

Spec == Init /\ [][Next]_vars

(***************************************************************************)
(* What a prompt carries of its dependencies (WorkPlan::prompt).           *)
(***************************************************************************)
MaxContext       == 32 * KiB
MaxPerDependency == 12 * KiB
Marker           == 20   (* the bytes truncate_utf8 appends to a cut output *)

\* Bytes of context in the prompt of packet i before its dependency k + 1,
\* when every output is as long as its packet allows.
ContextBefore(i, n) ==
  LET deps == packets[i].dependencies
      before[k \in 0..n] ==
        IF k = 0 THEN 0
        ELSE LET used   == before[k - 1]
                 room   == IF used < MaxContext THEN MaxContext - used ELSE 0
                 take   == IF room < MaxPerDependency THEN room ELSE MaxPerDependency
                 output == OutputLimit(packets[deps[k]].stage)
             IN  used + (IF output <= take THEN output ELSE take + Marker)
  IN before[n]

(***************************************************************************)
(* Properties.                                                             *)
(***************************************************************************)
\* WorkPlan::validate: dependencies are packets before their readers, so a
\* plan executed in order never misses one (prompt's MissingDependency).
DependenciesPrecede ==
  \A i \in Ids : \A k \in 1..Len(packets[i].dependencies) :
    packets[i].dependencies[k] \in 1..(i - 1)

\* The plan the generator builds is the one the verifier of its evidence
\* expects, for every number of files: the two count groups separately.
EvidenceVerifies ==
  phase = "done" =>
    /\ Len(packets) = ExpectedCount(files)
    /\ [i \in Ids |-> Row(packets[i].stage, packets[i].file)] = Schedule(files)

Reads(j, i) == \E k \in 1..Len(packets[j].dependencies) :
                 packets[j].dependencies[k] = i

\* "Review packets may report risks only because a later file-correction stage
\* consumes them" (work-packets.md): whatever is found up to the hostile review
\* flows into it, every final correction reads it, and whatever comes later
\* flows into the finalization.
FindingsAreRead ==
  phase = "done" =>
    LET review == The("adversarial-review")  last == Len(packets) IN
      /\ \A i \in 1..(review - 1) : \E j \in (i + 1)..review : Reads(j, i)
      /\ \A i \in Ids : packets[i].stage = "final-correction" => Reads(i, review)
      /\ \A i \in 1..(last - 1) : \E j \in (i + 1)..last : Reads(j, i)

\* "Bounded three-input ... groups prevent large manifests from overflowing a
\* small model context" (work-packets.md): with every output at its limit no
\* dependency is left out of a prompt, and the context stays within its budget
\* but for truncation markers.
PromptsCarryEveryDependency ==
  \A i \in Ids :
    LET n == Len(packets[i].dependencies) IN
      /\ \A k \in 1..n : ContextBefore(i, k - 1) < MaxContext
      /\ ContextBefore(i, n) <= MaxContext + n * Marker
==============================================================================
