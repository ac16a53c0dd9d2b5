-------------------------- MODULE ProviderPlan_proofs --------------------------
(***************************************************************************)
(* Proofs about a provider route: of RoutesReclose, for every number of    *)
(* files, of attempts and of calls; then about the harness that runs its   *)
(* programs (HarnessEvidence), the fast build (FastBuild), the plans and   *)
(* the evidence of the run (PlansAreSound, EvidenceIsEarned), and the      *)
(* calls of a provider (CallsAreFaithful).                                 *)
(*                                                                         *)
(* RoutesReclose speaks of the disk.  It is kept because of what a call    *)
(* knows where it stands: at packet `index` everything before it is        *)
(* stored (PacketInv), at attempt `ordinal` everything before it failed    *)
(* and was repaired, and what the call holds is what the record it comes   *)
(* from says (LoopInv); and because records have no gaps (ChainInv).       *)
(***************************************************************************)
EXTENDS MCProviderPlan, SequenceTheorems, TLAPS

\* The schedule of a plan, and what is proved of its counts.
Expanding == INSTANCE WorkPlan_proofs WITH MaxFiles <- PlanFiles, files <- manifest

BaseRows == [i \in 1..5 |-> Row(BaseStages[i], 0)]
RowsOf(n) == IF n = 0 THEN BaseRows ELSE Schedule(n)

\* The number of files the stored manifest lists, 0 before it is stored.
Listed == IF Len(stored) >= 5 THEN stored[5] ELSE 0

StoredInv ==
  /\ Len(stored) >= 5 => stored[5] \in AllFiles /\ expanded = stored[5]
  /\ Len(stored) <= Len(RowsOf(Listed))
  /\ \A i \in 1..Len(stored) : stored[i] \in OutputsOf(RowsOf(Listed)[i].stage)

InLoop == pc \in {"verify", "write", "judged", "repair", "draft", "closed"}

AllStored == Listed # 0 /\ Len(stored) = Len(Schedule(Listed))

PacketInv ==
  /\ index \in Nat \ {0}
  /\ pc = "idle" => plan = 0 /\ index = 1
  /\ pc \in {"packets", "store"} =>
       /\ index <= Len(stored) + 1
       /\ plan = 0 => index <= 5
       /\ plan # 0 => expanded = plan /\ (index > 5 \/ (index = 5 /\ pc = "store"))
       /\ plan # 0 /\ index > 5 => Listed = plan
  /\ pc = "packets" /\ plan # 0 => index > 5
  /\ pc = "store" =>
       /\ index = Len(stored) + 1 /\ index <= Len(Rows)
       /\ answer \in OutputsOf(Rows[index].stage)
       /\ index = 5 => answer = plan /\ plan # 0
  /\ InLoop => AllStored /\ plan = Listed
  /\ released # {} => AllStored

\* Everything before attempt o failed and was repaired.
RepairedBefore(o) ==
  \A j \in 1..(o - 1) : attempts[j] # None /\ ~attempts[j].passed /\ repairs[j] # None

LoopInv ==
  /\ ~InLoop => ordinal = 1
  /\ InLoop => RepairedBefore(ordinal) /\ files \in Candidates
  /\ pc \in {"verify", "repair"} => index = 1
  /\ pc \in {"verify", "write"} /\ ordinal > 1 => files = repairs[ordinal - 1].files
  /\ pc = "write" =>
       /\ attempts[ordinal] = None
       /\ \A f \in DOMAIN files : f < index => written[ordinal][f] = files[f]
  /\ pc = "judged" => attempts[ordinal] # None /\ attempts[ordinal].files = files
  /\ pc \in {"repair", "draft"} =>
       /\ attempts[ordinal] # None /\ ~attempts[ordinal].passed
       /\ repairs[ordinal] = None /\ ordinal < Limit
  /\ pc = "draft" =>
       \A f \in DOMAIN files : f < index => drafts[ordinal][f] = files[f]
  /\ pc = "closed" => final = [attempt |-> ordinal, files |-> files]

ChainInv ==
  /\ EvidenceChains /\ EvidenceRecomputes
  /\ \A o \in Ordinals : attempts[o] # None => RepairedBefore(o)

RouteInv == TypeOK /\ StoredInv /\ PacketInv /\ LoopInv /\ ChainInv

(***************************************************************************)
(* The schedule of a plan: it starts with the base packets, asks for no    *)
(* second manifest, and has a final correction of every file.              *)
(***************************************************************************)
LaterStages ==
  {"file-contract", "file-implementation", "file-review", "file-correction",
   "integration-group", "integration", "integration-correction", "closure-group",
   "integration-closure", "verification", "adversarial-review", "final-correction",
   "release-group", "release-verification", "finalization"}
PlanStages == LaterStages \cup {BaseStages[i] : i \in 1..5}
LaterRows  == [stage : LaterStages, file : Nat]
PlanRows   == [stage : PlanStages, file : Nat]

StartsPlan(rows) ==
  /\ rows \in Seq(PlanRows) /\ Len(rows) >= 5
  /\ \A i \in 1..5 : rows[i] = BaseRows[i]
  /\ \A i \in 6..Len(rows) : rows[i] \in LaterRows

Corrects(rows, f) == \E i \in 1..Len(rows) : rows[i] = Row("final-correction", f)

\* The base packets start a plan; the fifth asks for the manifest.
LEMMA BaseStarts ==
  /\ StartsPlan(BaseRows) /\ Len(BaseRows) = 5
  /\ BaseRows[5].stage = "file-manifest"
  /\ \A i \in 1..4 : BaseRows[i].stage \notin {"file-manifest", "final-correction"}
<1>1. BaseRows \in Seq(PlanRows) /\ Len(BaseRows) = 5
  <2>1. ASSUME NEW i \in 1..5 PROVE Row(BaseStages[i], 0) \in PlanRows
    BY DEF Row, PlanRows, PlanStages
  <2> QED  BY <2>1 DEF BaseRows
<1>2. \A i \in 1..5 : BaseRows[i].stage = BaseStages[i]
  BY DEF BaseRows, Row
<1> QED  BY <1>1, <1>2 DEF StartsPlan, BaseStages

\* What later packets are appended keeps the start and asks for no manifest.
LEMMA StartIsKept ==
  ASSUME NEW s, StartsPlan(s), NEW t \in Seq(LaterRows)
  PROVE  StartsPlan(s \o t) /\ Len(s \o t) = Len(s) + Len(t)
<1>1. t \in Seq(PlanRows)
  <2>1. LaterRows \subseteq PlanRows  BY DEF LaterRows, PlanRows, PlanStages
  <2> QED  BY <2>1
<1>2. s \o t \in Seq(PlanRows) /\ Len(s \o t) = Len(s) + Len(t)
  BY <1>1 DEF StartsPlan
<1>3. \A i \in 1..5 : (s \o t)[i] = BaseRows[i]
  BY <1>1 DEF StartsPlan
<1>4. ASSUME NEW i \in 6..Len(s \o t) PROVE (s \o t)[i] \in LaterRows
  <2>1. CASE i <= Len(s)  BY <1>1, <1>2, <2>1 DEF StartsPlan
  <2>2. CASE i > Len(s)
    <3>1. (s \o t)[i] = t[i - Len(s)] /\ i - Len(s) \in 1..Len(t)
      BY <1>1, <1>2, <2>2 DEF StartsPlan
    <3> QED  BY <3>1
  <2> QED  BY <1>2, <2>1, <2>2 DEF StartsPlan
<1> QED  BY <1>2, <1>3, <1>4 DEF StartsPlan

\* A correction that is asked for is still asked for in a longer schedule.
LEMMA CorrectionIsKept ==
  ASSUME NEW s \in Seq(PlanRows), NEW t \in Seq(PlanRows), NEW f,
         Corrects(s, f) \/ Corrects(t, f)
  PROVE  Corrects(s \o t, f)
<1>1. CASE Corrects(s, f)
  <2>1. PICK i \in 1..Len(s) : s[i] = Row("final-correction", f)  BY <1>1 DEF Corrects
  <2>2. (s \o t)[i] = s[i] /\ i \in 1..Len(s \o t)  OBVIOUS
  <2> QED  BY <2>1, <2>2 DEF Corrects
<1>2. CASE Corrects(t, f)
  <2>1. PICK i \in 1..Len(t) : t[i] = Row("final-correction", f)  BY <1>2 DEF Corrects
  <2>2. (s \o t)[Len(s) + i] = t[i] /\ Len(s) + i \in 1..Len(s \o t)  OBVIOUS
  <2> QED  BY <2>1, <2>2 DEF Corrects
<1> QED  BY <1>1, <1>2

\* The schedule of n files (validate_packet_schedule).
LEMMA ScheduleIsWhole ==
  ASSUME NEW n \in AllFiles
  PROVE  /\ StartsPlan(Schedule(n)) /\ Len(Schedule(n)) > 5
         /\ \A f \in 1..n : Corrects(Schedule(n), f)
<1>1. n \in 1..MaxFiles /\ n \in Nat  BY FilesAssumption DEF AllFiles
<1>2. IntegrationGroupCount[n] \in Nat /\ ReductionToOneCount[n] \in Nat
  <2>1. Expanding!IntegrationGroupCount = IntegrationGroupCount
    BY Zenon DEF IntegrationGroupCount, Expanding!IntegrationGroupCount, Thirds,
                 Expanding!Thirds
  <2>2. Expanding!ReductionToOneCount = ReductionToOneCount
    BY Zenon DEF ReductionToOneCount, Expanding!ReductionToOneCount, Thirds,
                 Expanding!Thirds
  <2>3. Expanding!IntegrationGroupCount[n] \in Nat /\ Expanding!ReductionToOneCount[n] \in Nat
    BY <1>1, FilesAssumption, PlanFilesAssumption, Expanding!CountsEnd
  <2> QED  BY <2>1, <2>2, <2>3
<1>3. ASSUME NEW stage \in LaterStages, NEW k \in Nat
      PROVE  Repeated(stage, k) \in Seq(LaterRows) /\ PerFile(stage, k) \in Seq(LaterRows)
  <2>1. ASSUME NEW i \in 1..k
        PROVE  Row(stage, 0) \in LaterRows /\ Row(stage, i) \in LaterRows
    BY DEF Row, LaterRows
  <2>2. Repeated(stage, k) \in Seq(LaterRows)  BY <2>1 DEF Repeated
  <2>3. PerFile(stage, k) \in Seq(LaterRows)  BY <2>1 DEF PerFile
  <2> QED  BY <2>2, <2>3
<1> DEFINE flows == [i \in 1..4 * n |-> Row(FileStages[((i - 1) % 4) + 1], ((i - 1) \div 4) + 1)]
<1>4. flows \in Seq(LaterRows)
  <2>1. ASSUME NEW i \in 1..4 * n
        PROVE  Row(FileStages[((i - 1) % 4) + 1], ((i - 1) \div 4) + 1) \in LaterRows
    <3>1. ((i - 1) % 4) + 1 \in 1..4 /\ ((i - 1) \div 4) + 1 \in Nat  BY <1>1
    <3>2. \A k \in 1..4 : FileStages[k] \in LaterStages
      BY DEF FileStages, LaterStages
    <3> QED  BY <3>1, <3>2 DEF Row, LaterRows
  <2>2. 4 * n \in Nat  BY <1>1
  <2> QED  BY <2>1, <2>2
<1>5. \A stage \in LaterStages : <<Row(stage, 0)>> \in Seq(LaterRows)
  BY DEF Row, LaterRows
<1> DEFINE three == <<Row("integration-closure", 0), Row("verification", 0),
                      Row("adversarial-review", 0)>>
           two   == <<Row("release-verification", 0), Row("finalization", 0)>>
           groups == Repeated("integration-group", IntegrationGroupCount[n])
           one    == <<Row("integration", 0)>>
           fixes  == PerFile("integration-correction", n)
           closes == Repeated("closure-group", ReductionToOneCount[n])
           finals == PerFile("final-correction", n)
           ships  == Repeated("release-group", ReductionToOneCount[n])
<1>6. three \in Seq(LaterRows) /\ two \in Seq(LaterRows)
  <2>1. \A stage \in LaterStages : Row(stage, 0) \in LaterRows  BY DEF Row, LaterRows
  <2> QED  BY <2>1 DEF LaterStages
<1>7. /\ groups \in Seq(LaterRows) /\ one \in Seq(LaterRows) /\ fixes \in Seq(LaterRows)
      /\ closes \in Seq(LaterRows) /\ finals \in Seq(LaterRows) /\ ships \in Seq(LaterRows)
  BY <1>1, <1>2, <1>3, <1>5 DEF LaterStages
<1>8. Schedule(n) = BaseRows \o flows \o groups \o one \o fixes \o closes \o three
                      \o finals \o ships \o two
  BY DEF Schedule, BaseRows
<1>9. \A f \in 1..n : Corrects(finals, f)
  <2>1. \A f \in 1..n : finals[f] = Row("final-correction", f)  BY DEF PerFile
  <2>2. Len(finals) = n  BY <1>1 DEF PerFile
  <2> QED  BY <2>1, <2>2 DEF Corrects
<1>10. Len(three) = 3  OBVIOUS
<1> HIDE DEF flows, three, two, groups, one, fixes, closes, finals, ships
<1> DEFINE early == BaseRows \o flows \o groups \o one \o fixes \o closes \o three
<1>11. StartsPlan(early) /\ Len(early) >= 8
  <2>1. StartsPlan(BaseRows \o flows)  BY <1>4, BaseStarts, StartIsKept
  <2>2. StartsPlan(BaseRows \o flows \o groups)  BY <1>7, <2>1, StartIsKept
  <2>3. StartsPlan(BaseRows \o flows \o groups \o one)  BY <1>7, <2>2, StartIsKept
  <2>4. StartsPlan(BaseRows \o flows \o groups \o one \o fixes)  BY <1>7, <2>3, StartIsKept
  <2>5. StartsPlan(BaseRows \o flows \o groups \o one \o fixes \o closes)
    BY <1>7, <2>4, StartIsKept
  <2>6. StartsPlan(early) /\ Len(early) =
          Len(BaseRows \o flows \o groups \o one \o fixes \o closes) + Len(three)
    BY <1>6, <2>5, StartIsKept
  <2>7. Len(BaseRows \o flows \o groups \o one \o fixes \o closes) \in Nat
    BY <2>5 DEF StartsPlan
  <2>8. Len(BaseRows \o flows \o groups \o one \o fixes \o closes) >= 5
    BY <2>5 DEF StartsPlan
  <2> QED  BY <1>10, <2>6, <2>7, <2>8
<1> HIDE DEF early
<1>12. Schedule(n) = early \o finals \o ships \o two  BY <1>8 DEF early
<1>13. /\ StartsPlan(early \o finals) /\ Len(early \o finals) >= 8
       /\ StartsPlan(early \o finals \o ships) /\ Len(early \o finals \o ships) >= 8
       /\ StartsPlan(Schedule(n)) /\ Len(Schedule(n)) >= 8
  <2>1. StartsPlan(early \o finals) /\ Len(early \o finals) = Len(early) + Len(finals)
    BY <1>7, <1>11, StartIsKept
  <2>2. /\ StartsPlan(early \o finals \o ships)
        /\ Len(early \o finals \o ships) = Len(early \o finals) + Len(ships)
    BY <1>7, <2>1, StartIsKept
  <2>3. /\ StartsPlan(Schedule(n))
        /\ Len(Schedule(n)) = Len(early \o finals \o ships) + Len(two)
    BY <1>6, <1>12, <2>2, StartIsKept
  <2>4. /\ Len(finals) \in Nat /\ Len(ships) \in Nat /\ Len(two) \in Nat
        /\ Len(early) \in Nat
    BY <1>6, <1>7, <1>11, SMTT(30) DEF StartsPlan
  <2> QED  BY <1>11, <2>1, <2>2, <2>3, <2>4
<1>14. ASSUME NEW f \in 1..n PROVE Corrects(Schedule(n), f)
  <2>1. LaterRows \subseteq PlanRows  BY DEF LaterRows, PlanRows, PlanStages
  <2>2. /\ finals \in Seq(PlanRows) /\ ships \in Seq(PlanRows) /\ two \in Seq(PlanRows)
        /\ early \in Seq(PlanRows)
    BY <1>6, <1>7, <1>11, <2>1, SMTT(30) DEF StartsPlan
  <2>3. Corrects(early \o finals, f)  BY <1>9, <2>2, CorrectionIsKept
  <2>4. Corrects(early \o finals \o ships, f)
    BY <1>13, <2>2, <2>3, CorrectionIsKept DEF StartsPlan
  <2> QED  BY <1>12, <1>13, <2>2, <2>4, CorrectionIsKept DEF StartsPlan
<1> QED  BY <1>13, <1>14

\* The rows of a plan of n files, or before it is known: the fifth asks for the
\* manifest and no other does, and every output is one a packet may have.
LEMMA RowsAreKnown ==
  ASSUME NEW n \in 0..MaxFiles
  PROVE  /\ Len(RowsOf(n)) \in Nat /\ Len(RowsOf(n)) >= 5 /\ (n # 0 => Len(RowsOf(n)) > 5)
         /\ n = 0 => Len(RowsOf(n)) = 5
         /\ \A i \in 1..5 : RowsOf(n)[i] = BaseRows[i]
         /\ \A i \in 1..Len(RowsOf(n)) :
              /\ RowsOf(n)[i].stage = "file-manifest" <=> i = 5
              /\ OutputsOf(RowsOf(n)[i].stage) \subseteq Outputs
<1>1. StartsPlan(RowsOf(n)) /\ (n # 0 => Len(RowsOf(n)) > 5) /\ (n = 0 => Len(RowsOf(n)) = 5)
  <2>1. CASE n = 0  BY <2>1, BaseStarts DEF RowsOf
  <2>2. CASE n # 0
    <3>1. n \in AllFiles  BY <2>2, FilesAssumption DEF AllFiles
    <3> QED  BY <2>2, <3>1, ScheduleIsWhole DEF RowsOf
  <2> QED  BY <2>1, <2>2
<1>2. ASSUME NEW i \in 1..Len(RowsOf(n))
      PROVE  RowsOf(n)[i].stage = "file-manifest" <=> i = 5
  <2>1. CASE i <= 5
    <3>1. RowsOf(n)[i] = BaseRows[i]  BY <1>1, <2>1 DEF StartsPlan
    <3> QED  BY <2>1, <3>1, BaseStarts
  <2>2. CASE i > 5
    <3>1. RowsOf(n)[i] \in LaterRows  BY <1>1, <2>2 DEF StartsPlan
    <3> QED  BY <2>2, <3>1 DEF LaterRows, LaterStages
  <2> QED  BY <1>1, <2>1, <2>2 DEF StartsPlan
<1>3. \A stage : OutputsOf(stage) \subseteq Outputs
  <2>1. /\ AllFiles \subseteq Outputs /\ Contents \subseteq Outputs /\ {Text} \subseteq Outputs
    BY FilesAssumption DEF AllFiles, Outputs, Text
  <2> QED  BY <2>1 DEF OutputsOf
<1>4. Len(RowsOf(n)) \in Nat  BY <1>1 DEF StartsPlan
<1> QED  BY <1>1, <1>2, <1>3, <1>4 DEF StartsPlan

(***************************************************************************)
(* What a step leaves alone.                                               *)
(***************************************************************************)
\* The evidence is read from its records, its files and what was released.
LEMMA ChainFrame ==
  ASSUME ChainInv, UNCHANGED <<written, attempts, drafts, repairs, final, released>>
  PROVE  ChainInv'
BY DEF ChainInv, EvidenceChains, EvidenceRecomputes, Chain, RepairedBefore

\* The stored packets are read from their records and the expanded manifest.
LEMMA StoredFrame ==
  ASSUME StoredInv, UNCHANGED <<expanded, stored>>
  PROVE  StoredInv' /\ Listed' = Listed /\ (AllStored' <=> AllStored)
BY DEF StoredInv, Listed, AllStored

\* A call that is not at an attempt holds nothing else LoopInv speaks of.
LEMMA OutsideLoop ==
  ASSUME pc' \in {"idle", "packets", "store"}, ordinal' = 1
  PROVE  LoopInv' /\ ~InLoop'
BY DEF LoopInv, InLoop

\* A call that ends stands nowhere.
LEMMA EndsOutside ==
  ASSUME RouteInv, NEW how, End(how), UNCHANGED <<expanded, stored>>,
         released' # {} => AllStored
  PROVE  StoredInv' /\ PacketInv' /\ LoopInv'
<1>1. StoredInv' /\ (AllStored' <=> AllStored)  BY StoredFrame DEF RouteInv
<1>2. pc' = "idle" /\ plan' = 0 /\ index' = 1 /\ ordinal' = 1  BY DEF End
<1>3. PacketInv'  BY <1>1, <1>2 DEF PacketInv, InLoop
<1> QED  BY <1>1, <1>2, <1>3, OutsideLoop

\* A call may fail, or die, anywhere.
LEMMA FailsKeeps ==
  ASSUME RouteInv, NEW how \in {"failed", "conflict"}, Fails(how)
  PROVE  RouteInv'
<1>1. TypeOK'
  <2>1. 1 \in Ordinals  BY ProviderPlanAssumption DEF Ordinals
  <2>2. 0 \in 0..MaxFiles  BY FilesAssumption
  <2> QED  BY <2>1, <2>2 DEF RouteInv, TypeOK, Fails, End, disk, Tries
<1>2. ChainInv'  BY ChainFrame DEF RouteInv, Fails, disk
<1>3. StoredInv' /\ PacketInv' /\ LoopInv'
  <2>1. released' # {} => AllStored  BY DEF RouteInv, PacketInv, Fails
  <2>2. End(how) /\ UNCHANGED <<expanded, stored>>  BY DEF Fails, disk
  <2> QED  BY <2>1, <2>2, EndsOutside
<1> QED  BY <1>1, <1>2, <1>3 DEF RouteInv

\* A route starts within the invariant.
LEMMA RouteStarts ==
  ASSUME Init
  PROVE  RouteInv
<1> USE DEF Init, NoCall
<1>1. TypeOK
  <2>1. 1 \in Ordinals  BY ProviderPlanAssumption DEF Ordinals
  <2>2. 0 \in 0..MaxFiles  BY FilesAssumption
  <2>3. <<>> \in Seq(Outputs)  OBVIOUS
  <2> QED  BY <2>1, <2>2, <2>3, ProviderPlanAssumption DEF TypeOK, Tries
<1>2. StoredInv
  <2>1. Len(stored) = 0 /\ Listed = 0  BY DEF Listed
  <2>2. 0 \in 0..MaxFiles  BY FilesAssumption
  <2> QED  BY <2>1, <2>2, RowsAreKnown DEF StoredInv
<1>3. PacketInv  BY DEF PacketInv, InLoop
<1>4. LoopInv  BY DEF LoopInv, InLoop
<1>5. ChainInv
  BY ProviderPlanAssumption DEF ChainInv, EvidenceChains, EvidenceRecomputes, Ordinals
<1> QED  BY <1>1, <1>2, <1>3, <1>4, <1>5 DEF RouteInv

(***************************************************************************)
(* The packets.                                                            *)
(***************************************************************************)
\* The packets of a call and those stored agree on where the manifest is.
LEMMA PacketsAgree ==
  ASSUME RouteInv
  PROVE  /\ Rows = RowsOf(plan) /\ plan \in 0..MaxFiles /\ Listed \in 0..MaxFiles
         /\ Len(stored) \in Nat /\ Len(Rows) \in Nat /\ Len(Rows) >= 5
         /\ index \in 1..Len(Rows) => (IsManifest <=> index = 5)
         /\ OutputsOf("file-manifest") = AllFiles
<1>1. Rows = RowsOf(plan)  BY DEF Rows, RowsOf, BaseRows
<1>2. plan \in 0..MaxFiles /\ Len(stored) \in Nat  BY DEF RouteInv, TypeOK
<1>3. Listed \in 0..MaxFiles
  BY FilesAssumption DEF RouteInv, StoredInv, Listed, AllFiles
<1>4. OutputsOf("file-manifest") = AllFiles  BY DEF OutputsOf
<1> QED  BY <1>1, <1>2, <1>3, <1>4, RowsAreKnown DEF IsManifest

LEMMA StartKeeps ==
  ASSUME RouteInv, Start
  PROVE  RouteInv'
<1>1. TypeOK'  BY ProviderPlanAssumption DEF RouteInv, TypeOK, Start, disk
<1>2. ChainInv'  BY ChainFrame DEF RouteInv, Start, disk
<1>3. StoredInv' /\ (AllStored' <=> AllStored)
  BY StoredFrame DEF RouteInv, Start, disk
<1>4. PacketInv'
  <2>1. Len(stored) \in Nat  BY PacketsAgree
  <2> QED  BY <1>3, <2>1 DEF RouteInv, PacketInv, Start, disk, InLoop
<1>5. LoopInv'  BY OutsideLoop DEF Start, RouteInv, LoopInv, InLoop
<1> QED  BY <1>1, <1>2, <1>3, <1>4, <1>5 DEF RouteInv

\* Reading back a stored packet: the fifth expands the plan.
LEMMA ResumeKeeps ==
  ASSUME RouteInv, Resume
  PROVE  RouteInv'
<1>1. CASE Conflicts(stored[index])
  BY <1>1, FailsKeeps DEF Resume
<1>2. CASE ~Conflicts(stored[index])
  <2>1. /\ pc = "packets" /\ index <= Len(Rows) /\ index <= Len(stored)
        /\ Expand(stored[index]) /\ index' = index + 1 /\ tries' = 1
        /\ UNCHANGED <<stored, written, attempts, drafts, repairs, final, pc,
                       ordinal, files, targets, answer, calls, outcome, released>>
    BY <1>2 DEF Resume, IsStored
  <2>2. index \in Nat \ {0}  BY DEF RouteInv, PacketInv
  <2>3. IsManifest <=> index = 5
    BY <2>1, <2>2, PacketsAgree
  <2>4. /\ expanded' = expanded
        /\ plan' = IF index = 5 THEN Listed ELSE plan
        /\ index = 5 => Listed = stored[5] /\ Listed \in AllFiles /\ expanded = Listed
    <3>1. CASE index = 5
      <4>1. expanded' = stored[5] /\ plan' = stored[5]  BY <2>1, <2>3, <3>1 DEF Expand
      <4>2. Len(stored) >= 5  BY <2>1, <3>1
      <4>3. stored[5] \in AllFiles /\ expanded = stored[5] /\ Listed = stored[5]
        BY <4>2 DEF RouteInv, StoredInv, Listed
      <4> QED  BY <3>1, <4>1, <4>3
    <3>2. CASE index # 5  BY <2>1, <2>3, <3>2 DEF Expand
    <3> QED  BY <3>1, <3>2
  <2>5. TypeOK'
    BY <2>1, <2>2, <2>4, PacketsAgree DEF RouteInv, TypeOK, Tries
  <2>6. ChainInv'  BY <2>1, ChainFrame DEF RouteInv
  <2>7. StoredInv' /\ Listed' = Listed /\ (AllStored' <=> AllStored)
    BY <2>1, <2>4, StoredFrame DEF RouteInv
  <2>8. PacketInv'
    <3>1. Len(stored) \in Nat /\ 0 \notin AllFiles  BY PacketsAgree DEF AllFiles
    <3>2. plan = 0 => index <= 5  BY <2>1 DEF RouteInv, PacketInv
    <3>3. plan # 0 => index > 5 /\ expanded = plan /\ Listed = plan
      BY <2>1 DEF RouteInv, PacketInv
    <3>4. plan' = 0 => index' <= 5  BY <2>1, <2>2, <2>4, <3>1, <3>2
    <3>5. plan' # 0 => index' > 5 /\ expanded' = plan' /\ Listed' = plan'
      BY <2>1, <2>2, <2>4, <2>7, <3>3
    <3>6. index' \in Nat \ {0} /\ index' <= Len(stored) + 1
      BY <2>1, <2>2, <3>1
    <3> QED
      BY <2>1, <2>7, <3>4, <3>5, <3>6 DEF RouteInv, PacketInv, InLoop
  <2>9. LoopInv'  BY <2>1, OutsideLoop DEF RouteInv, LoopInv, InLoop
  <2> QED  BY <2>5, <2>6, <2>7, <2>8, <2>9 DEF RouteInv
<1> QED  BY <1>1, <1>2

\* An answer is held until it is stored; a manifest expands the plan first.
LEMMA AnswerKeeps ==
  ASSUME RouteInv, Answer
  PROVE  RouteInv'
<1>1. PICK output \in OutputsOf(Rows[index].stage) :
        IF Conflicts(output)
        THEN Fails("conflict")
        ELSE /\ Expand(output)
             /\ answer' = output /\ pc' = "store"
             /\ UNCHANGED <<stored, written, attempts, drafts, repairs, final, index,
                            tries, ordinal, files, targets, calls, outcome, released>>
  BY DEF Answer
<1>2. CASE Conflicts(output)
  BY <1>1, <1>2, FailsKeeps
<1>3. CASE ~Conflicts(output)
  <2>1. /\ pc = "packets" /\ index <= Len(Rows) /\ ~(index <= Len(stored))
        /\ Expand(output) /\ answer' = output /\ pc' = "store"
        /\ UNCHANGED <<stored, written, attempts, drafts, repairs, final, index,
                       tries, ordinal, files, targets, calls, outcome, released>>
    BY <1>1, <1>3 DEF Answer, Asking, IsStored
  <2>2. index \in Nat \ {0} /\ index = Len(stored) + 1
    BY <2>1, PacketsAgree DEF RouteInv, PacketInv
  <2>3. IsManifest <=> index = 5  BY <2>1, <2>2, PacketsAgree
  <2>4. output \in Outputs
    BY <2>1, <2>2, PacketsAgree, RowsAreKnown
  <2>5. /\ index = 5 => expanded' = output /\ plan' = output /\ output \in AllFiles
        /\ index # 5 => expanded' = expanded /\ plan' = plan
    <3>1. CASE index = 5
      <4>1. Rows[index].stage = "file-manifest"  BY <2>3, <3>1 DEF IsManifest
      <4> QED  BY <2>1, <2>3, <3>1, <4>1, PacketsAgree DEF Expand
    <3>2. CASE index # 5  BY <2>1, <2>3, <3>2 DEF Expand
    <3> QED  BY <3>1, <3>2
  <2>6. /\ AllFiles \subseteq 0..MaxFiles /\ 0 \notin AllFiles
    BY FilesAssumption DEF AllFiles
  <2>7. TypeOK'
    BY <2>1, <2>4, <2>5, <2>6 DEF RouteInv, TypeOK
  <2>8. ChainInv'  BY <2>1, ChainFrame DEF RouteInv
  <2>9. Listed' = Listed /\ (AllStored' <=> AllStored)
    BY <2>1 DEF Listed, AllStored
  <2>10. StoredInv'
    <3>1. Len(stored) >= 5 => index # 5  BY <2>2, PacketsAgree
    <3>2. Len(stored) >= 5 => stored[5] \in AllFiles /\ expanded' = stored[5]
      BY <2>5, <3>1 DEF RouteInv, StoredInv
    <3> QED  BY <2>1, <2>9, <3>2 DEF RouteInv, StoredInv
  <2>11. PacketInv'
    <3>1. plan' = 0 => index <= 5
      BY <2>1, <2>5 DEF RouteInv, PacketInv
    <3>2. plan' # 0 => expanded' = plan' /\ (index > 5 \/ index = 5)
      <4>1. CASE index = 5  BY <2>5, <4>1
      <4>2. CASE index # 5  BY <2>1, <2>5, <4>2 DEF RouteInv, PacketInv
      <4> QED  BY <4>1, <4>2
    <3>3. plan' # 0 /\ index > 5 => Listed' = plan'
      BY <2>1, <2>2, <2>5, <2>9 DEF RouteInv, PacketInv
    <3>4. index <= Len(Rows') /\ output \in OutputsOf(Rows'[index].stage)
      <4>1. CASE index = 5
        <5>1. Rows' = RowsOf(plan') /\ plan' \in 0..MaxFiles
          BY <2>5, <2>6, <4>1 DEF Rows, RowsOf, BaseRows
        <5>2. Rows'[5] = BaseRows[5] /\ Len(Rows') >= 5  BY <5>1, RowsAreKnown
        <5> QED  BY <2>5, <4>1, <5>2, BaseStarts, PacketsAgree
      <4>2. CASE index # 5
        <5>1. Rows' = Rows  BY <2>5, <4>2 DEF Rows
        <5> QED  BY <1>1, <2>1, <5>1
      <4> QED  BY <4>1, <4>2
    <3>5. index = 5 => answer' = plan' /\ plan' # 0  BY <2>1, <2>5, <2>6
    <3>6. released' # {} => AllStored'  BY <2>1, <2>9 DEF RouteInv, PacketInv
    <3>7. index' = Len(stored') + 1 /\ index' <= Len(stored') + 1
      BY <2>1, <2>2, PacketsAgree
    <3> QED
      BY <2>1, <2>2, <3>1, <3>2, <3>3, <3>4, <3>5, <3>6, <3>7 DEF PacketInv, InLoop
  <2>12. LoopInv'  BY <2>1, OutsideLoop DEF RouteInv, LoopInv, InLoop
  <2> QED  BY <2>7, <2>8, <2>10, <2>11, <2>12 DEF RouteInv
<1> QED  BY <1>2, <1>3

\* A refused answer changes nothing but the count of responses.
LEMMA BadAnswerKeeps ==
  ASSUME RouteInv, BadAnswer
  PROVE  RouteInv'
<1>1. CASE tries = Tries
  BY <1>1, FailsKeeps DEF BadAnswer
<1>2. CASE tries # Tries
  <2>1. /\ tries' = tries + 1
        /\ UNCHANGED <<disk, pc, plan, index, ordinal, files, targets, answer,
                       calls, outcome, released>>
    BY <1>2 DEF BadAnswer
  <2>2. TypeOK'  BY <1>2, <2>1 DEF RouteInv, TypeOK, disk, Tries
  <2>3. ChainInv'  BY <2>1, ChainFrame DEF RouteInv, disk
  <2>4. StoredInv' /\ Listed' = Listed /\ (AllStored' <=> AllStored)
    BY <2>1, StoredFrame DEF RouteInv, disk
  <2>5. PacketInv'
    BY <2>1, <2>4 DEF RouteInv, PacketInv, InLoop, Rows, disk
  <2>6. LoopInv'
    BY <2>1 DEF RouteInv, LoopInv, InLoop, RepairedBefore, disk
  <2> QED  BY <2>2, <2>3, <2>4, <2>5, <2>6 DEF RouteInv
<1> QED  BY <1>1, <1>2

\* The rows of the stored packets are those of the plan of the running call,
\* before and after the manifest is stored.
LEMMA StorePacketKeeps ==
  ASSUME RouteInv, StorePacket
  PROVE  RouteInv'
<1>1. /\ pc = "store" /\ stored' = Append(stored, answer) /\ answer' = None
      /\ index' = index + 1 /\ tries' = 1 /\ pc' = "packets"
      /\ UNCHANGED <<expanded, written, attempts, drafts, repairs, final, plan,
                     ordinal, files, targets, calls, outcome, released>>
  BY DEF StorePacket
<1>2. /\ index = Len(stored) + 1 /\ index <= Len(Rows) /\ index \in Nat \ {0}
      /\ answer \in OutputsOf(Rows[index].stage)
      /\ index = 5 => answer = plan /\ plan # 0
      /\ plan = 0 => index <= 5
      /\ plan # 0 => expanded = plan /\ index >= 5
      /\ plan # 0 /\ index > 5 => Listed = plan
  BY <1>1 DEF RouteInv, PacketInv
<1>3. answer \in Outputs
  BY <1>2, PacketsAgree, RowsAreKnown
<1>4. /\ stored' \in Seq(Outputs) /\ Len(stored') = index
      /\ \A i \in 1..Len(stored) : stored'[i] = stored[i]
      /\ stored'[index] = answer
  BY <1>1, <1>2, <1>3 DEF RouteInv, TypeOK
<1>5. TypeOK'
  BY <1>1, <1>2, <1>4 DEF RouteInv, TypeOK, Tries
<1>6. ChainInv'  BY <1>1, ChainFrame DEF RouteInv
<1>7. Listed' = plan
  <2>1. CASE index < 5
    <3>1. plan = 0  BY <1>2, <2>1
    <3> QED  BY <1>2, <1>4, <2>1, <3>1 DEF Listed
  <2>2. CASE index = 5  BY <1>2, <1>4, <2>2 DEF Listed
  <2>3. CASE index > 5
    <3>1. Len(stored) >= 5 /\ Len(stored) \in Nat  BY <1>2, <2>3, PacketsAgree
    <3>2. stored'[5] = stored[5]  BY <1>4, <3>1
    <3>3. plan # 0 /\ Listed = plan  BY <1>2, <2>3
    <3> QED  BY <1>4, <2>3, <3>1, <3>2, <3>3 DEF Listed
  <2> QED  BY <1>2, <2>1, <2>2, <2>3
<1>8. StoredInv'
  <2>1. plan # 0 => plan \in AllFiles /\ expanded' = plan
    BY <1>1, <1>2, PacketsAgree DEF AllFiles
  <2>2. Len(stored') >= 5 => stored'[5] = plan /\ plan # 0
    BY <1>2, <1>4, <1>7 DEF Listed
  <2>3. Rows = RowsOf(Listed')  BY <1>7, PacketsAgree
  <2>4. ASSUME NEW i \in 1..Len(stored') PROVE stored'[i] \in OutputsOf(RowsOf(Listed')[i].stage)
    <3>1. CASE i = index  BY <1>2, <1>4, <2>3, <3>1
    <3>2. CASE i # index
      <4>1. i \in 1..Len(stored) /\ stored'[i] = stored[i]
        BY <1>2, <1>4, <3>2, PacketsAgree
      <4>2. stored[i] \in OutputsOf(RowsOf(Listed)[i].stage)
        BY <4>1 DEF RouteInv, StoredInv
      <4>3. RowsOf(Listed)[i] = RowsOf(Listed')[i]
        <5>1. CASE i <= 5
          BY <1>7, <4>1, <5>1, PacketsAgree, RowsAreKnown, SMTT(30)
        <5>2. CASE i > 5
          <6>1. Listed = plan  BY <1>2, <4>1, <5>2, PacketsAgree
          <6> QED  BY <1>7, <6>1
        <5> QED  BY <5>1, <5>2
      <4> QED  BY <4>1, <4>2, <4>3
    <3> QED  BY <3>1, <3>2
  <2> QED  BY <1>2, <1>4, <2>1, <2>2, <2>3, <2>4 DEF StoredInv
<1>9. PacketInv'
  <2>1. released = {}
    <3>1. ASSUME AllStored PROVE FALSE
      <4>1. Listed \in 0..MaxFiles /\ Listed # 0 /\ Len(stored) = Len(RowsOf(Listed))
        BY <3>1, PacketsAgree DEF AllStored, RowsOf
      <4>2. Len(stored) > 5  BY <4>1, RowsAreKnown
      <4>3. index > 5 /\ Listed = plan  BY <1>2, <4>2, PacketsAgree
      <4>4. Len(Rows) = Len(stored)  BY <4>1, <4>3, PacketsAgree
      <4> QED  BY <1>2, <4>4, PacketsAgree
    <3> QED  BY <3>1 DEF RouteInv, PacketInv
  <2>2. plan' = plan /\ Listed' = plan /\ expanded' = expanded  BY <1>1, <1>7
  <2>3. index' <= Len(stored') + 1 /\ index' \in Nat \ {0}  BY <1>1, <1>2, <1>4
  <2>4. plan = 0 => index' <= 5  BY <1>1, <1>2
  <2>5. plan # 0 => expanded = plan /\ index' > 5  BY <1>1, <1>2
  <2> QED
    BY <1>1, <2>1, <2>2, <2>3, <2>4, <2>5 DEF PacketInv, InLoop
<1>10. LoopInv'  BY <1>1, OutsideLoop DEF RouteInv, LoopInv, InLoop
<1> QED  BY <1>5, <1>6, <1>8, <1>9, <1>10 DEF RouteInv

\* generated_files finds a final correction of every file.
LEMMA DeliverableIsCandidate ==
  ASSUME RouteInv, AllPacketsDone
  PROVE  AllStored /\ Listed = plan /\ plan # 0 /\ Deliverable \in Candidates
<1>1. /\ pc = "packets" /\ index > Len(Rows) /\ index <= Len(stored) + 1
      /\ plan = 0 => index <= 5
      /\ plan # 0 /\ index > 5 => Listed = plan
      /\ index \in Nat
  BY DEF AllPacketsDone, RouteInv, PacketInv
<1>2. plan # 0 /\ index > 5 /\ Listed = plan
  BY <1>1, PacketsAgree
<1>3. Len(stored) = Len(Rows) /\ Rows = Schedule(plan)
  BY <1>1, <1>2, PacketsAgree DEF RouteInv, StoredInv, RowsOf
<1>4. plan \in AllFiles /\ plan \in Nat  BY <1>2, PacketsAgree DEF AllFiles
<1>5. ASSUME NEW f \in 1..plan
      PROVE  stored[CHOOSE i \in 1..Len(Rows) : Rows[i] = Row("final-correction", f)] \in Contents
  <2>1. \E i \in 1..Len(Rows) : Rows[i] = Row("final-correction", f)
    BY <1>3, <1>4, ScheduleIsWhole DEF Corrects
  <2> DEFINE i == CHOOSE k \in 1..Len(Rows) : Rows[k] = Row("final-correction", f)
  <2>2. i \in 1..Len(Rows) /\ Rows[i] = Row("final-correction", f)  BY <2>1
  <2> HIDE DEF i
  <2>3. stored[i] \in OutputsOf(Rows[i].stage)
    BY <1>2, <1>3, <2>2, PacketsAgree DEF RouteInv, StoredInv
  <2>4. OutputsOf(Rows[i].stage) = Contents
    BY <2>2 DEF Row, OutputsOf
  <2> QED  BY <2>3, <2>4 DEF i
<1>6. Deliverable \in [1..plan -> Contents]
  BY <1>5 DEF Deliverable
<1>7. Deliverable \in Candidates
  BY <1>4, <1>6 DEF Candidates
<1> QED  BY <1>2, <1>3, <1>7 DEF AllStored

\* With every packet stored the first attempt begins.
LEMMA AllPacketsDoneKeeps ==
  ASSUME RouteInv, AllPacketsDone
  PROVE  RouteInv'
<1>1. /\ files' \in Candidates /\ pc' = "verify" /\ index' = 1 /\ pc = "packets"
      /\ UNCHANGED <<disk, plan, tries, ordinal, targets, answer, calls, outcome, released>>
  BY DeliverableIsCandidate DEF AllPacketsDone
<1>2. ordinal = 1  BY <1>1 DEF RouteInv, LoopInv, InLoop
<1>3. TypeOK'  BY <1>1 DEF RouteInv, TypeOK, disk
<1>4. ChainInv'  BY <1>1, ChainFrame DEF RouteInv, disk
<1>5. StoredInv' /\ Listed' = Listed /\ (AllStored' <=> AllStored)
  BY <1>1, StoredFrame DEF RouteInv, disk
<1>6. PacketInv'
  BY <1>1, <1>5, DeliverableIsCandidate DEF PacketInv, InLoop
<1>7. LoopInv'
  BY <1>1, <1>2 DEF LoopInv, InLoop, RepairedBefore
<1> QED  BY <1>3, <1>4, <1>5, <1>6, <1>7 DEF RouteInv

(***************************************************************************)
(* The attempts.                                                           *)
(***************************************************************************)
\* The packets are none of the business of an attempt.
LEMMA LoopFrame ==
  ASSUME RouteInv, InLoop, InLoop', UNCHANGED <<expanded, stored, plan, released>>,
         index' \in Nat \ {0}
  PROVE  StoredInv' /\ PacketInv'
<1>1. StoredInv' /\ Listed' = Listed /\ (AllStored' <=> AllStored)
  BY StoredFrame DEF RouteInv
<1>2. PacketInv'
  BY <1>1 DEF RouteInv, PacketInv, InLoop
<1> QED  BY <1>1, <1>2

\* Once the end of the chain is recorded no attempt is made and no repair asked
\* for: attempt `ordinal` would be before, at or after the passed one, and each
\* contradicts what is on disk.
LEMMA FinishedRoutesAreRead ==
  ASSUME RouteInv, final # None
  PROVE  pc \notin {"write", "repair", "draft"}
<1> SUFFICES ASSUME pc \in {"write", "repair", "draft"} PROVE FALSE
  OBVIOUS
<1>1. final \in Finals  BY DEF RouteInv, TypeOK
<1> DEFINE n == final.attempt
<1>2. n \in Ordinals /\ Chain(n)
  BY <1>1 DEF Finals, RouteInv, ChainInv, EvidenceChains
<1>3. ordinal \in Ordinals /\ InLoop  BY DEF RouteInv, TypeOK, InLoop
<1>4. RepairedBefore(ordinal)  BY <1>3 DEF RouteInv, LoopInv
<1>5. /\ pc = "write" => attempts[ordinal] = None
      /\ pc \in {"repair", "draft"} =>
           ~attempts[ordinal].passed /\ repairs[ordinal] = None
  BY DEF RouteInv, LoopInv
<1> HIDE DEF n
<1>6. attempts[n] # None /\ attempts[n].passed
  BY <1>2, ProviderPlanAssumption DEF Chain, Ordinals
<1>7. CASE ordinal < n
  <2>1. attempts[ordinal] # None  BY <1>2, <1>3, <1>7, ProviderPlanAssumption DEF Chain, Ordinals
  <2>2. repairs[ordinal] # None
    BY <1>2, <1>3, <1>7, ProviderPlanAssumption DEF Chain, Ordinals
  <2> QED  BY <1>5, <2>1, <2>2
<1>8. CASE ordinal = n  BY <1>5, <1>6, <1>8
<1>9. CASE ordinal > n
  <2>1. ~attempts[n].passed
    BY <1>2, <1>3, <1>4, <1>9, ProviderPlanAssumption DEF RepairedBefore, Ordinals
  <2> QED  BY <1>6, <2>1
<1> QED
  BY <1>2, <1>3, <1>7, <1>8, <1>9, ProviderPlanAssumption DEF Ordinals

\* An attempt that ended is taken over with the files it was made of.
LEMMA LoadAttemptKeeps ==
  ASSUME RouteInv, LoadAttempt
  PROVE  RouteInv'
<1>1. CASE attempts[ordinal] # None /\ attempts[ordinal].files # files
  BY <1>1, FailsKeeps DEF LoadAttempt
<1>2. CASE attempts[ordinal] = None \/ attempts[ordinal].files = files
  <2>1. /\ pc = "verify"
        /\ pc' = IF attempts[ordinal] = None THEN "write" ELSE "judged"
        /\ UNCHANGED <<disk, plan, index, tries, ordinal, files, targets,
                       answer, calls, outcome, released>>
    BY <1>2 DEF LoadAttempt
  <2>2. index = 1 /\ InLoop /\ InLoop'  BY <2>1 DEF RouteInv, LoopInv, InLoop
  <2>3. TypeOK'  BY <2>1 DEF RouteInv, TypeOK, disk
  <2>4. ChainInv'  BY <2>1, ChainFrame DEF RouteInv, disk
  <2>5. StoredInv' /\ PacketInv'  BY <2>1, <2>2, LoopFrame DEF disk
  <2>6. DOMAIN files \subseteq Nat \ {0}
    BY <2>2 DEF RouteInv, LoopInv, Candidates, AllFiles
  <2>7. LoopInv'
    BY <1>2, <2>1, <2>2, <2>6 DEF RouteInv, LoopInv, InLoop, RepairedBefore, disk
  <2> QED  BY <2>3, <2>4, <2>5, <2>7 DEF RouteInv
<1> QED  BY <1>1, <1>2

\* The files of an attempt that is not recorded yet: no record recomputes from them.
LEMMA WrittenFrame ==
  ASSUME RouteInv, pc = "write",
         UNCHANGED <<attempts, drafts, repairs, final, released>>,
         \A o \in Ordinals : o # ordinal => written'[o] = written[o]
  PROVE  ChainInv'
<1>1. attempts[ordinal] = None  BY DEF RouteInv, LoopInv
<1>2. EvidenceRecomputes'
  BY <1>1 DEF RouteInv, ChainInv, EvidenceRecomputes
<1>3. EvidenceChains'
  BY DEF RouteInv, ChainInv, EvidenceChains, Chain
<1> QED  BY <1>2, <1>3 DEF RouteInv, ChainInv, RepairedBefore

\* A candidate in memory has a length, and its files are 1 to its length.
LEMMA CandidatesHaveLength ==
  ASSUME RouteInv, InLoop
  PROVE  /\ files \in Candidates /\ Len(files) \in AllFiles /\ DOMAIN files = 1..Len(files)
         /\ DOMAIN files \subseteq AllFiles /\ index \in Nat \ {0} /\ ordinal \in Ordinals
         /\ Len(files) \in Nat
<1>1. files \in Candidates  BY DEF RouteInv, LoopInv
<1>2. PICK n \in AllFiles : files \in [1..n -> Contents]  BY <1>1 DEF Candidates
<1>3. n \in Nat /\ 1..n \subseteq AllFiles  BY <1>2, FilesAssumption DEF AllFiles
<1>4. Len(files) = n /\ DOMAIN files = 1..n  BY <1>2, <1>3
<1> QED  BY <1>1, <1>3, <1>4 DEF RouteInv, TypeOK, PacketInv

\* materialize_candidate, a file at a time.
LEMMA WriteFileKeeps ==
  ASSUME RouteInv, WriteFile
  PROVE  RouteInv'
<1>1. CASE ~Kept(written[ordinal][index], files[index])
  BY <1>1, FailsKeeps DEF WriteFile
<1>2. CASE Kept(written[ordinal][index], files[index])
  <2>1. /\ pc = "write" /\ index <= Len(files)
        /\ written' = [written EXCEPT ![ordinal][index] =
                         IF written[ordinal][index] = None THEN files[index]
                         ELSE written[ordinal][index]]
        /\ index' = index + 1
        /\ UNCHANGED <<expanded, stored, attempts, drafts, repairs, final, pc,
                       plan, tries, ordinal, files, targets, answer, calls,
                       outcome, released>>
    BY <1>2 DEF WriteFile
  <2>2. InLoop /\ InLoop'  BY <2>1 DEF InLoop
  <2>3. /\ files \in Candidates /\ index \in DOMAIN files /\ index \in AllFiles
        /\ index \in Nat /\ ordinal \in Ordinals /\ DOMAIN files \subseteq Nat
    BY <2>1, <2>2, CandidatesHaveLength DEF AllFiles
  <2>4. files[index] \in Contents  BY <2>3 DEF Candidates
  <2>5. written \in [Ordinals -> [AllFiles -> Contents \cup {None, Torn}]]
    BY DEF RouteInv, TypeOK
  <2>6. /\ written' \in [Ordinals -> [AllFiles -> Contents \cup {None, Torn}]]
        /\ written'[ordinal][index] = files[index]
        /\ \A f \in AllFiles : f # index => written'[ordinal][f] = written[ordinal][f]
        /\ \A o \in Ordinals : o # ordinal => written'[o] = written[o]
    <3>1. written[ordinal][index] \in Contents \cup {None, Torn}  BY <2>3, <2>5
    <3> DEFINE kept == IF written[ordinal][index] = None THEN files[index]
                       ELSE written[ordinal][index]
    <3>2. kept = files[index] /\ kept \in Contents  BY <1>2, <2>4 DEF Kept
    <3>3. written' = [written EXCEPT ![ordinal][index] = kept]  BY <2>1
    <3> HIDE DEF kept
    <3> QED  BY <2>3, <2>5, <3>2, <3>3
  <2>7. TypeOK'  BY <2>1, <2>3, <2>6 DEF RouteInv, TypeOK
  <2>8. ChainInv'  BY <2>1, <2>6, WrittenFrame
  <2>9. StoredInv' /\ PacketInv'  BY <2>1, <2>2, <2>3, LoopFrame
  <2>10. LoopInv'
    <3>1. \A f \in DOMAIN files : f < index' => written'[ordinal][f] = files[f]
      <4>1. TAKE f \in DOMAIN files
      <4>2. f \in AllFiles  BY <2>2, CandidatesHaveLength
      <4>3. f < index => written[ordinal][f] = files[f]
        BY <2>1 DEF RouteInv, LoopInv
      <4> QED  BY <2>1, <2>3, <2>6, <4>2, <4>3
    <3> QED
      BY <2>1, <2>2, <3>1 DEF RouteInv, LoopInv, InLoop, RepairedBefore
  <2> QED  BY <2>7, <2>8, <2>9, <2>10 DEF RouteInv
<1> QED  BY <1>1, <1>2

\* A torn file belongs to an attempt that is not recorded.
LEMMA TearFileKeeps ==
  ASSUME RouteInv, TearFile
  PROVE  RouteInv'
<1>1. /\ pc = "write" /\ index <= Len(files)
      /\ written' = [written EXCEPT ![ordinal][index] = Torn] /\ End("failed")
      /\ UNCHANGED <<expanded, stored, attempts, drafts, repairs, final, calls, released>>
  BY DEF TearFile
<1>2. index \in AllFiles /\ ordinal \in Ordinals
  BY <1>1, CandidatesHaveLength DEF InLoop, AllFiles
<1>3. /\ written' \in [Ordinals -> [AllFiles -> Contents \cup {None, Torn}]]
      /\ \A o \in Ordinals : o # ordinal => written'[o] = written[o]
  BY <1>1, <1>2 DEF RouteInv, TypeOK
<1>4. TypeOK'
  <2>1. 1 \in Ordinals  BY ProviderPlanAssumption DEF Ordinals
  <2>2. 0 \in 0..MaxFiles  BY FilesAssumption
  <2> QED  BY <1>1, <1>3, <2>1, <2>2 DEF RouteInv, TypeOK, End, Tries
<1>5. ChainInv'  BY <1>1, <1>3, WrittenFrame
<1>6. StoredInv' /\ PacketInv' /\ LoopInv'
  <2>1. released' # {} => AllStored  BY <1>1 DEF RouteInv, PacketInv
  <2> QED  BY <1>1, <2>1, EndsOutside
<1> QED  BY <1>4, <1>5, <1>6 DEF RouteInv

\* The record of an attempt is written last: every file before it is on disk, and
\* everything before the attempt failed and was repaired.
LEMMA RunCommandsKeeps ==
  ASSUME RouteInv, RunCommands
  PROVE  RouteInv'
<1>1. /\ pc = "write" /\ index > Len(files) /\ pc' = "judged" /\ index' = 1
      /\ UNCHANGED <<expanded, stored, written, drafts, repairs, final, plan, tries,
                     ordinal, files, targets, answer, calls, outcome, released>>
  BY DEF RunCommands
<1>2. PICK passed \in BOOLEAN, blamed \in SUBSET (1..Len(files)) :
        attempts' = [attempts EXCEPT ![ordinal] =
                       [files |-> files, passed |-> passed, targets |-> blamed]]
  BY DEF RunCommands
<1>3. InLoop /\ InLoop'  BY <1>1 DEF InLoop
<1>4. /\ files \in Candidates /\ Len(files) \in AllFiles /\ DOMAIN files = 1..Len(files)
      /\ DOMAIN files \subseteq AllFiles /\ ordinal \in Ordinals /\ index \in Nat
  BY <1>3, CandidatesHaveLength
<1> DEFINE attempt == [files |-> files, passed |-> passed, targets |-> blamed]
<1>5. attempt \in Attempts /\ attempt.files = files
  BY <1>4 DEF Attempts
<1>6. attempt # None  BY <1>5, NoneAssumption
<1>7. attempts' = [attempts EXCEPT ![ordinal] = attempt]  BY <1>2
<1> HIDE DEF attempt
<1>8. /\ attempts' \in [Ordinals -> Attempts \cup {None}] /\ attempts'[ordinal] = attempt
      /\ \A o \in Ordinals : o # ordinal => attempts'[o] = attempts[o]
  BY <1>4, <1>5, <1>7 DEF RouteInv, TypeOK
<1>9. /\ attempts[ordinal] = None /\ RepairedBefore(ordinal)
      /\ ordinal > 1 => files = repairs[ordinal - 1].files
      /\ \A f \in DOMAIN files : f < index => written[ordinal][f] = files[f]
  BY <1>1, <1>3 DEF RouteInv, LoopInv
<1>10. final = None  BY <1>1, FinishedRoutesAreRead
<1>11. released = {}  BY <1>10 DEF RouteInv, ChainInv, EvidenceChains
<1>12. TypeOK'  BY <1>1, <1>8 DEF RouteInv, TypeOK
<1>13. EvidenceRecomputes'
  <2>1. ASSUME NEW o \in Ordinals, attempts'[o] # None, NEW f \in DOMAIN attempts'[o].files
        PROVE  written[o][f] = attempts'[o].files[f]
    <3>1. CASE o = ordinal
      <4>1. f \in DOMAIN files /\ f < index  BY <1>1, <1>4, <1>5, <1>8, <2>1, <3>1
      <4> QED  BY <1>5, <1>8, <1>9, <3>1, <4>1
    <3>2. CASE o # ordinal
      BY <1>8, <2>1, <3>2 DEF RouteInv, ChainInv, EvidenceRecomputes
    <3> QED  BY <3>1, <3>2
  <2> QED  BY <1>1, <2>1 DEF RouteInv, ChainInv, EvidenceRecomputes
<1>14. \A o \in Ordinals : repairs[o] # None /\ o < Limit => attempts[o] # None
  BY ProviderPlanAssumption DEF RouteInv, ChainInv, EvidenceChains, Ordinals
<1>15. EvidenceChains'
  <2>1. ASSUME NEW o \in 1..(Limit - 1)
        PROVE  /\ repairs[o] # None =>
                    /\ attempts'[o] # None /\ ~attempts'[o].passed
                    /\ repairs[o].source = attempts'[o].files
               /\ attempts'[o + 1] # None =>
                    repairs[o] # None /\ repairs[o].files = attempts'[o + 1].files
    <3>1. o \in Ordinals /\ o + 1 \in Ordinals /\ o < Limit
      BY ProviderPlanAssumption DEF Ordinals
    <3>2. repairs[o] # None =>
            /\ attempts'[o] # None /\ ~attempts'[o].passed
            /\ repairs[o].source = attempts'[o].files
      <4>1. repairs[o] # None => o # ordinal  BY <1>9, <1>14, <3>1
      <4> QED  BY <1>8, <3>1, <4>1 DEF RouteInv, ChainInv, EvidenceChains
    <3>3. attempts'[o + 1] # None =>
            repairs[o] # None /\ repairs[o].files = attempts'[o + 1].files
      <4>1. CASE o + 1 = ordinal
        <5>1. repairs[o] # None
          BY <1>9, <3>1, <4>1 DEF RepairedBefore, Ordinals
        <5>2. o = ordinal - 1 /\ ordinal > 1  BY <3>1, <4>1 DEF Ordinals
        <5>3. repairs[o].files = files  BY <1>9, <5>2
        <5> QED  BY <1>5, <1>8, <4>1, <5>1, <5>3
      <4>2. CASE o + 1 # ordinal
        BY <1>8, <3>1, <4>2 DEF RouteInv, ChainInv, EvidenceChains
      <4> QED  BY <4>1, <4>2
    <3> QED  BY <3>2, <3>3
  <2> QED  BY <1>1, <1>10, <1>11, <2>1 DEF EvidenceChains
<1>16. ASSUME NEW o \in Ordinals, attempts'[o] # None
       PROVE  RepairedBefore(o)'
  <2>1. RepairedBefore(o)
    BY <1>8, <1>9, <1>16 DEF RouteInv, ChainInv
  <2>2. ASSUME NEW j \in 1..(o - 1)
        PROVE  attempts'[j] # None /\ ~attempts'[j].passed /\ repairs[j] # None
    <3>1. j \in Ordinals  BY ProviderPlanAssumption DEF Ordinals
    <3>2. attempts[j] # None  BY <2>1 DEF RepairedBefore
    <3>3. attempts'[j] = attempts[j]  BY <1>8, <1>9, <3>1, <3>2
    <3> QED  BY <2>1, <3>3 DEF RepairedBefore
  <2> QED  BY <1>1, <2>2 DEF RepairedBefore
<1>17. ChainInv'  BY <1>13, <1>15, <1>16 DEF ChainInv
<1>18. StoredInv' /\ PacketInv'  BY <1>1, <1>3, LoopFrame
<1>19. LoopInv'
  <2>1. PICK o \in Ordinals : o = ordinal  BY <1>4
  <2>2. RepairedBefore(o)'  BY <1>6, <1>8, <1>16, <2>1
  <2>3. \A j \in 1..(ordinal' - 1) :
          attempts'[j] # None /\ ~attempts'[j].passed /\ repairs'[j] # None
    BY <1>1, <2>1, <2>2 DEF RepairedBefore
  <2>4. attempts'[ordinal'] # None /\ attempts'[ordinal'].files = files'
    BY <1>1, <1>5, <1>6, <1>8
  <2> QED
    BY <1>1, <1>3, <1>4, <2>3, <2>4 DEF LoopInv, InLoop, RepairedBefore
<1> QED  BY <1>12, <1>17, <1>18, <1>19 DEF RouteInv

(***************************************************************************)
(* After an attempt.                                                       *)
(***************************************************************************)
\* finalize_success recloses the chain before it names its end.
LEMMA FinalizeKeeps ==
  ASSUME RouteInv, Finalize
  PROVE  RouteInv'
<1> DEFINE result == [attempt |-> ordinal, files |-> files]
<1>1. CASE ~(Chain(ordinal) /\ final \in {None, result})
  BY <1>1, FailsKeeps DEF Finalize
<1>2. CASE Chain(ordinal) /\ final \in {None, result}
  <2>1. /\ pc = "judged" /\ final' = result /\ pc' = "closed"
        /\ UNCHANGED <<expanded, stored, written, attempts, drafts, repairs, plan,
                       index, tries, ordinal, files, targets, answer, calls,
                       outcome, released>>
    BY <1>2 DEF Finalize
  <2>2. InLoop /\ InLoop'  BY <2>1 DEF InLoop
  <2>3. files \in Candidates /\ ordinal \in Ordinals /\ index \in Nat \ {0}
    BY <2>2, CandidatesHaveLength
  <2>4. result \in Finals /\ result.attempt = ordinal /\ result.files = files
    BY <2>3 DEF Finals
  <2> HIDE DEF result
  <2>5. TypeOK'  BY <2>1, <2>4 DEF RouteInv, TypeOK
  <2>6. EvidenceChains'
    <3>1. Chain(final.attempt)'  BY <1>2, <2>1, <2>4 DEF Chain
    <3>2. released # {} => final' # None /\ released = {final'.files}
      BY <1>2, <2>1 DEF RouteInv, ChainInv, EvidenceChains
    <3> QED  BY <2>1, <3>1, <3>2 DEF RouteInv, ChainInv, EvidenceChains
  <2>7. ChainInv'
    BY <2>1, <2>6 DEF RouteInv, ChainInv, EvidenceRecomputes, RepairedBefore
  <2>8. StoredInv' /\ PacketInv'  BY <2>1, <2>2, <2>3, LoopFrame
  <2>9. LoopInv'
    BY <2>1, <2>2 DEF RouteInv, LoopInv, InLoop, RepairedBefore, result
  <2> QED  BY <2>5, <2>7, <2>8, <2>9 DEF RouteInv
<1> QED  BY <1>1, <1>2

\* What is released is the end of the chain, whichever call releases it.
LEMMA ReleaseKeeps ==
  ASSUME RouteInv, Release
  PROVE  RouteInv'
<1>1. CASE ~(Chain(final.attempt) /\ final.files = files)
  BY <1>1, FailsKeeps DEF Release
<1>2. CASE Chain(final.attempt) /\ final.files = files
  <2>1. /\ pc = "closed" /\ released' = released \cup {files} /\ End("released")
        /\ UNCHANGED <<disk, calls>>
    BY <1>2 DEF Release
  <2>2. InLoop  BY <2>1 DEF InLoop
  <2>3. files \in Candidates /\ ordinal \in Ordinals  BY <2>2, CandidatesHaveLength
  <2>4. final # None
    <3>1. final = [attempt |-> ordinal, files |-> files]  BY <2>1 DEF RouteInv, LoopInv
    <3>2. final \in Finals  BY <2>3, <3>1 DEF Finals
    <3> QED  BY <3>2, NoneAssumption
  <2>5. released' = {final.files}
    BY <1>2, <2>1, <2>4 DEF RouteInv, ChainInv, EvidenceChains
  <2>6. TypeOK'
    <3>1. 1 \in Ordinals  BY ProviderPlanAssumption DEF Ordinals
    <3>2. 0 \in 0..MaxFiles  BY FilesAssumption
    <3> QED  BY <2>1, <2>3, <3>1, <3>2 DEF RouteInv, TypeOK, End, Tries, disk
  <2>7. EvidenceChains'
    BY <2>1, <2>4, <2>5 DEF RouteInv, ChainInv, EvidenceChains, Chain, disk
  <2>8. ChainInv'
    BY <2>1, <2>7 DEF RouteInv, ChainInv, EvidenceRecomputes, RepairedBefore, disk
  <2>9. StoredInv' /\ PacketInv' /\ LoopInv'
    <3>1. AllStored  BY <2>2 DEF RouteInv, PacketInv
    <3> QED  BY <2>1, <3>1, EndsOutside DEF disk
  <2> QED  BY <2>6, <2>8, <2>9 DEF RouteInv
<1> QED  BY <1>1, <1>2

LEMMA ExhaustKeeps ==
  ASSUME RouteInv, Exhaust
  PROVE  RouteInv'
BY FailsKeeps DEF Exhaust

\* A stored repair is taken over as the candidate of the next attempt.
LEMMA LoadRepairKeeps ==
  ASSUME RouteInv, LoadRepair
  PROVE  RouteInv'
<1>1. CASE repairs[ordinal].source # attempts[ordinal].files
  BY <1>1, FailsKeeps DEF LoadRepair
<1>2. CASE repairs[ordinal].source = attempts[ordinal].files
  <2>1. /\ pc = "judged" /\ ~attempts[ordinal].passed /\ ordinal # Limit
        /\ repairs[ordinal] # None
        /\ files' = repairs[ordinal].files /\ ordinal' = ordinal + 1
        /\ pc' = "verify" /\ index' = 1
        /\ UNCHANGED <<disk, plan, tries, targets, answer, calls, outcome, released>>
    BY <1>2 DEF LoadRepair, NextAttempt, RepairedFiles, Failed, IsLast, HasRepair
  <2>2. InLoop /\ InLoop'  BY <2>1 DEF InLoop
  <2>3. ordinal \in Ordinals  BY <2>2, CandidatesHaveLength
  <2>4. ordinal' \in Ordinals /\ ordinal \in Nat /\ ordinal' - 1 = ordinal
    BY <2>1, <2>3, ProviderPlanAssumption DEF Ordinals
  <2>5. repairs[ordinal] \in Repairs  BY <2>1, <2>3 DEF RouteInv, TypeOK
  <2>6. files' \in Candidates  BY <2>1, <2>5 DEF Repairs
  <2>7. TypeOK'  BY <2>1, <2>4, <2>6 DEF RouteInv, TypeOK, disk
  <2>8. ChainInv'  BY <2>1, ChainFrame DEF RouteInv, disk
  <2>9. StoredInv' /\ PacketInv'  BY <2>1, <2>2, LoopFrame DEF disk
  <2>10. LoopInv'
    <3>1. attempts[ordinal] # None /\ RepairedBefore(ordinal)
      BY <2>1, <2>2 DEF RouteInv, LoopInv
    <3>2. \A j \in 1..(ordinal' - 1) :
            attempts'[j] # None /\ ~attempts'[j].passed /\ repairs'[j] # None
      BY <2>1, <2>4, <3>1 DEF RepairedBefore, disk
    <3>3. files' = repairs'[ordinal' - 1].files  BY <2>1, <2>4 DEF disk
    <3> QED  BY <2>1, <2>2, <2>6, <3>2, <3>3 DEF LoopInv, InLoop, RepairedBefore
  <2> QED  BY <2>7, <2>8, <2>9, <2>10 DEF RouteInv
<1> QED  BY <1>1, <1>2

\* A repair begins where no repair is stored.
LEMMA BeginRepairKeeps ==
  ASSUME RouteInv, BeginRepair
  PROVE  RouteInv'
<1>1. /\ pc = "judged" /\ ~attempts[ordinal].passed /\ ordinal # Limit
      /\ repairs[ordinal] = None
      /\ targets' = attempts[ordinal].targets
      /\ pc' = "repair" /\ index' = 1 /\ tries' = 1
      /\ UNCHANGED <<disk, plan, ordinal, files, answer, calls, outcome, released>>
  BY DEF BeginRepair, Failed, IsLast, HasRepair
<1>2. InLoop /\ InLoop'  BY <1>1 DEF InLoop
<1>3. ordinal \in Ordinals /\ ordinal < Limit
  BY <1>1, <1>2, CandidatesHaveLength, ProviderPlanAssumption DEF Ordinals
<1>4. attempts[ordinal] # None  BY <1>1 DEF RouteInv, LoopInv
<1>5. attempts[ordinal] \in Attempts  BY <1>3, <1>4 DEF RouteInv, TypeOK
<1>6. targets' \subseteq AllFiles  BY <1>1, <1>5 DEF Attempts
<1>7. TypeOK'  BY <1>1, <1>6 DEF RouteInv, TypeOK, disk, Tries
<1>8. ChainInv'  BY <1>1, ChainFrame DEF RouteInv, disk
<1>9. StoredInv' /\ PacketInv'  BY <1>1, <1>2, LoopFrame DEF disk
<1>10. LoopInv'
  BY <1>1, <1>2, <1>3, <1>4 DEF RouteInv, LoopInv, InLoop, RepairedBefore, disk
<1> QED  BY <1>7, <1>8, <1>9, <1>10 DEF RouteInv

\* An answer replaces one file of the candidate in memory.
LEMMA RepairAnswerKeeps ==
  ASSUME RouteInv, RepairAnswer
  PROVE  RouteInv'
<1> DEFINE f == CHOOSE g \in targets : \A h \in targets : g <= h
<1>1. /\ pc = "repair" /\ targets' = targets \ {f}
      /\ pc' = IF targets' = {} THEN "draft" ELSE pc
      /\ tries' = 1
      /\ UNCHANGED <<disk, plan, index, ordinal, answer, calls, outcome, released>>
  BY DEF RepairAnswer
<1>2. PICK content \in Contents : files' = [files EXCEPT ![f] = content]
  BY DEF RepairAnswer
<1> HIDE DEF f
<1>3. InLoop /\ InLoop' /\ index = 1 /\ pc' \in {"repair", "draft"}
  BY <1>1 DEF InLoop, RouteInv, LoopInv
<1>4. files' \in Candidates /\ DOMAIN files' \subseteq Nat \ {0}
  <2>1. PICK n \in AllFiles : files \in [1..n -> Contents]
    BY <1>3 DEF RouteInv, LoopInv, Candidates
  <2>2. files' \in [1..n -> Contents]  BY <1>2, <2>1
  <2> QED  BY <2>1, <2>2 DEF Candidates, AllFiles
<1>5. TypeOK'
  BY <1>1, <1>3, <1>4 DEF RouteInv, TypeOK, disk, Tries
<1>6. ChainInv'  BY <1>1, ChainFrame DEF RouteInv, disk
<1>7. StoredInv' /\ PacketInv'  BY <1>1, <1>3, LoopFrame DEF disk
<1>8. LoopInv'
  <2>1. \A g \in DOMAIN files' : ~(g < index')  BY <1>1, <1>3, <1>4
  <2> QED
    BY <1>1, <1>3, <1>4, <2>1 DEF RouteInv, LoopInv, InLoop, RepairedBefore, disk
<1> QED  BY <1>5, <1>6, <1>7, <1>8 DEF RouteInv

\* store_repair, a file at a time: no repair is recorded at this ordinal yet.
LEMMA WriteDraftKeeps ==
  ASSUME RouteInv, WriteDraft
  PROVE  RouteInv'
<1>1. CASE ~Kept(drafts[ordinal][index], files[index])
  BY <1>1, FailsKeeps DEF WriteDraft
<1>2. CASE Kept(drafts[ordinal][index], files[index])
  <2>1. /\ pc = "draft" /\ index <= Len(files)
        /\ drafts' = [drafts EXCEPT ![ordinal][index] =
                        IF drafts[ordinal][index] = None THEN files[index]
                        ELSE drafts[ordinal][index]]
        /\ index' = index + 1
        /\ UNCHANGED <<expanded, stored, written, attempts, repairs, final, pc,
                       plan, tries, ordinal, files, targets, answer, calls,
                       outcome, released>>
    BY <1>2 DEF WriteDraft
  <2>2. InLoop /\ InLoop'  BY <2>1 DEF InLoop
  <2>3. /\ files \in Candidates /\ index \in DOMAIN files /\ index \in AllFiles
        /\ index \in Nat /\ ordinal \in Ordinals /\ DOMAIN files \subseteq Nat
    BY <2>1, <2>2, CandidatesHaveLength DEF AllFiles
  <2>4. files[index] \in Contents  BY <2>3 DEF Candidates
  <2>5. drafts \in [Ordinals -> [AllFiles -> Contents \cup {None}]]
    BY DEF RouteInv, TypeOK
  <2>6. /\ drafts' \in [Ordinals -> [AllFiles -> Contents \cup {None}]]
        /\ drafts'[ordinal][index] = files[index]
        /\ \A f \in AllFiles : f # index => drafts'[ordinal][f] = drafts[ordinal][f]
        /\ \A o \in Ordinals : o # ordinal => drafts'[o] = drafts[o]
    <3>1. drafts[ordinal][index] \in Contents \cup {None}  BY <2>3, <2>5
    <3> DEFINE kept == IF drafts[ordinal][index] = None THEN files[index]
                       ELSE drafts[ordinal][index]
    <3>2. kept = files[index] /\ kept \in Contents  BY <1>2, <2>4 DEF Kept
    <3>3. drafts' = [drafts EXCEPT ![ordinal][index] = kept]  BY <2>1
    <3> HIDE DEF kept
    <3> QED  BY <2>3, <2>5, <3>2, <3>3
  <2>7. TypeOK'  BY <2>1, <2>3, <2>6 DEF RouteInv, TypeOK
  <2>8. repairs[ordinal] = None  BY <2>1 DEF RouteInv, LoopInv
  <2>9. EvidenceRecomputes'
    BY <2>1, <2>6, <2>8 DEF RouteInv, ChainInv, EvidenceRecomputes
  <2>10. EvidenceChains'
    BY <2>1 DEF RouteInv, ChainInv, EvidenceChains, Chain
  <2>11. ChainInv'
    BY <2>1, <2>9, <2>10 DEF RouteInv, ChainInv, RepairedBefore
  <2>12. StoredInv' /\ PacketInv'  BY <2>1, <2>2, <2>3, LoopFrame
  <2>13. LoopInv'
    <3>1. \A f \in DOMAIN files : f < index' => drafts'[ordinal][f] = files[f]
      <4>1. TAKE f \in DOMAIN files
      <4>2. f \in AllFiles  BY <2>2, CandidatesHaveLength
      <4>3. f < index => drafts[ordinal][f] = files[f]
        BY <2>1 DEF RouteInv, LoopInv
      <4> QED  BY <2>1, <2>3, <2>6, <4>2, <4>3
    <3> QED
      BY <2>1, <2>2, <3>1 DEF RouteInv, LoopInv, InLoop, RepairedBefore
  <2> QED  BY <2>7, <2>11, <2>12, <2>13 DEF RouteInv
<1> QED  BY <1>1, <1>2

\* repair.json is written last: it binds the failed attempt to the next one.
LEMMA StoreRepairKeeps ==
  ASSUME RouteInv, StoreRepair
  PROVE  RouteInv'
<1> DEFINE repair == [source |-> attempts[ordinal].files, files |-> files]
<1>1. /\ pc = "draft" /\ index > Len(files)
      /\ repairs' = [repairs EXCEPT ![ordinal] = repair]
      /\ files' = files /\ ordinal' = ordinal + 1 /\ pc' = "verify" /\ index' = 1
      /\ UNCHANGED <<expanded, stored, written, attempts, drafts, final, plan, tries,
                     targets, answer, calls, outcome, released>>
  BY DEF StoreRepair, NextAttempt
<1>2. InLoop /\ InLoop'  BY <1>1 DEF InLoop
<1>3. /\ files \in Candidates /\ Len(files) \in AllFiles /\ DOMAIN files = 1..Len(files)
      /\ ordinal \in Ordinals /\ index \in Nat
  BY <1>2, CandidatesHaveLength
<1>4. /\ attempts[ordinal] # None /\ ~attempts[ordinal].passed
      /\ repairs[ordinal] = None /\ ordinal < Limit /\ RepairedBefore(ordinal)
      /\ \A f \in DOMAIN files : f < index => drafts[ordinal][f] = files[f]
  BY <1>1, <1>2 DEF RouteInv, LoopInv
<1>5. attempts[ordinal] \in Attempts  BY <1>3, <1>4 DEF RouteInv, TypeOK
<1>6. /\ repair \in Repairs /\ repair.files = files
      /\ repair.source = attempts[ordinal].files
  BY <1>3, <1>5 DEF Repairs, Attempts
<1>7. repair # None  BY <1>6, NoneAssumption
<1> HIDE DEF repair
<1>8. /\ repairs' \in [Ordinals -> Repairs \cup {None}] /\ repairs'[ordinal] = repair
      /\ \A o \in Ordinals : o # ordinal => repairs'[o] = repairs[o]
  BY <1>1, <1>3, <1>6 DEF RouteInv, TypeOK
<1>9. ordinal' \in Ordinals /\ ordinal \in Nat /\ ordinal' - 1 = ordinal
  BY <1>1, <1>3, <1>4, ProviderPlanAssumption DEF Ordinals
<1>10. TypeOK'  BY <1>1, <1>3, <1>8, <1>9 DEF RouteInv, TypeOK
<1>11. final = None  BY <1>1, FinishedRoutesAreRead
<1>12. released = {}  BY <1>11 DEF RouteInv, ChainInv, EvidenceChains
<1>13. attempts[ordinal + 1] = None
  <2>1. ordinal \in 1..(Limit - 1)  BY <1>3, <1>4, ProviderPlanAssumption DEF Ordinals
  <2> QED  BY <1>4, <2>1 DEF RouteInv, ChainInv, EvidenceChains
<1>14. EvidenceRecomputes'
  <2>1. ASSUME NEW o \in Ordinals, repairs'[o] # None, NEW f \in DOMAIN repairs'[o].files
        PROVE  drafts[o][f] = repairs'[o].files[f]
    <3>1. CASE o = ordinal
      <4>1. f \in DOMAIN files /\ f < index  BY <1>1, <1>3, <1>6, <1>8, <2>1, <3>1
      <4> QED  BY <1>4, <1>6, <1>8, <3>1, <4>1
    <3>2. CASE o # ordinal
      BY <1>8, <2>1, <3>2 DEF RouteInv, ChainInv, EvidenceRecomputes
    <3> QED  BY <3>1, <3>2
  <2> QED  BY <1>1, <2>1 DEF RouteInv, ChainInv, EvidenceRecomputes
<1>15. EvidenceChains'
  <2>1. ASSUME NEW o \in 1..(Limit - 1)
        PROVE  /\ repairs'[o] # None =>
                    /\ attempts[o] # None /\ ~attempts[o].passed
                    /\ repairs'[o].source = attempts[o].files
               /\ attempts[o + 1] # None =>
                    repairs'[o] # None /\ repairs'[o].files = attempts[o + 1].files
    <3>1. o \in Ordinals  BY ProviderPlanAssumption DEF Ordinals
    <3>2. CASE o = ordinal  BY <1>4, <1>6, <1>8, <1>13, <3>2
    <3>3. CASE o # ordinal
      BY <1>8, <3>1, <3>3 DEF RouteInv, ChainInv, EvidenceChains
    <3> QED  BY <3>2, <3>3
  <2> QED  BY <1>1, <1>11, <1>12, <2>1 DEF EvidenceChains
<1>16. \A j \in Ordinals : repairs[j] # None => repairs'[j] # None
  BY <1>4, <1>8
<1>17. ASSUME NEW o \in Ordinals, attempts[o] # None
       PROVE  RepairedBefore(o)'
  <2>1. RepairedBefore(o)  BY <1>17 DEF RouteInv, ChainInv
  <2>2. 1..(o - 1) \subseteq Ordinals  BY ProviderPlanAssumption DEF Ordinals
  <2> QED  BY <1>1, <1>16, <2>1, <2>2 DEF RepairedBefore
<1>18. ChainInv'  BY <1>1, <1>14, <1>15, <1>17 DEF ChainInv
<1>19. StoredInv' /\ PacketInv'  BY <1>1, <1>2, LoopFrame
<1>20. LoopInv'
  <2>1. ASSUME NEW j \in 1..(ordinal' - 1)
        PROVE  attempts'[j] # None /\ ~attempts'[j].passed /\ repairs'[j] # None
    <3>1. CASE j = ordinal  BY <1>1, <1>4, <1>7, <1>8, <3>1
    <3>2. CASE j # ordinal
      <4>1. j \in 1..ordinal  BY <1>9
      <4>2. j \in 1..(ordinal - 1)  BY <1>9, <3>2, <4>1
      <4>3. ordinal \in 1..Limit  BY <1>3 DEF Ordinals
      <4>4. j \in Ordinals  BY <4>1, <4>3, ProviderPlanAssumption DEF Ordinals
      <4> QED  BY <1>1, <1>4, <1>16, <4>2, <4>4 DEF RepairedBefore
    <3> QED  BY <3>1, <3>2
  <2>2. files' = repairs'[ordinal' - 1].files  BY <1>1, <1>6, <1>8, <1>9
  <2> QED
    BY <1>1, <1>2, <1>3, <2>1, <2>2 DEF LoopInv, InLoop, RepairedBefore
<1> QED  BY <1>10, <1>18, <1>19, <1>20 DEF RouteInv

(***************************************************************************)
(* The theorems.                                                           *)
(***************************************************************************)
\* Every step keeps the invariant.
LEMMA RouteSteps == RouteInv /\ [Next]_vars => RouteInv'
<1> SUFFICES ASSUME RouteInv, [Next]_vars PROVE RouteInv'
  OBVIOUS
<1>1. CASE Next
  <2>1. CASE GiveUp  BY <2>1, FailsKeeps DEF GiveUp
  <2> QED
    BY <1>1, <2>1, StartKeeps, ResumeKeeps, AnswerKeeps, BadAnswerKeeps, StorePacketKeeps,
       AllPacketsDoneKeeps, LoadAttemptKeeps, WriteFileKeeps, TearFileKeeps, RunCommandsKeeps,
       FinalizeKeeps, ReleaseKeeps, ExhaustKeeps, LoadRepairKeeps, BeginRepairKeeps,
       RepairAnswerKeeps, WriteDraftKeeps, StoreRepairKeeps DEF Next
<1>2. CASE UNCHANGED vars
  <2>1. UNCHANGED <<expanded, stored, written, attempts, drafts, repairs, final, pc, plan,
                    index, tries, ordinal, files, targets, answer, calls, outcome, released>>
    BY <1>2 DEF vars, disk, call
  <2>2. TypeOK'  BY <2>1 DEF RouteInv, TypeOK
  <2>3. ChainInv'  BY <2>1, ChainFrame DEF RouteInv
  <2>4. StoredInv' /\ Listed' = Listed /\ (AllStored' <=> AllStored)
    BY <2>1, StoredFrame DEF RouteInv
  <2>5. PacketInv'
    BY <2>1, <2>4 DEF RouteInv, PacketInv, InLoop, Rows
  <2>6. LoopInv'
    BY <2>1 DEF RouteInv, LoopInv, InLoop, RepairedBefore
  <2> QED  BY <2>2, <2>3, <2>4, <2>5, <2>6 DEF RouteInv
<1> QED  BY <1>1, <1>2

\* A released route has all its packets and the end of its chain on disk: a call
\* reads them back and has nothing to ask, to write or to run.
LEMMA ReleasedRoutesAreRead ==
  ASSUME RouteInv
  PROVE  CompletedRoutesStayQuiet
<1> SUFFICES ASSUME released # {}
             PROVE  ~Asking /\ pc \notin {"store", "write", "repair", "draft"}
  BY DEF CompletedRoutesStayQuiet
<1>1. pc \notin {"write", "repair", "draft"}
  BY FinishedRoutesAreRead DEF RouteInv, ChainInv, EvidenceChains
<1>2. AllStored  BY DEF RouteInv, PacketInv
<1>3. Listed \in 0..MaxFiles /\ Listed # 0 /\ Len(stored) = Len(RowsOf(Listed))
  BY <1>2, PacketsAgree DEF AllStored, RowsOf
<1>4. Len(stored) > 5  BY <1>3, RowsAreKnown
<1>5. ASSUME pc \in {"packets", "store"}, index > Len(stored), index <= Len(Rows)
      PROVE  FALSE
  <2>1. index \in Nat /\ (plan = 0 => index <= 5) /\ (plan # 0 /\ index > 5 => Listed = plan)
    BY <1>5 DEF RouteInv, PacketInv
  <2>2. Listed = plan  BY <1>4, <1>5, <2>1, PacketsAgree
  <2>3. Len(Rows) = Len(stored)  BY <1>3, <2>2, PacketsAgree
  <2> QED  BY <1>5, <2>1, <2>3, PacketsAgree
<1>6. ~Asking  BY <1>5, PacketsAgree DEF Asking, IsStored, RouteInv, PacketInv
<1>7. pc # "store"  BY <1>5, PacketsAgree DEF RouteInv, PacketInv
<1> QED  BY <1>1, <1>6, <1>7

\* The inductive invariant: where a call stands in its packets and its attempts,
\* and what that says of the disk.
THEOREM RouteInvariant == Spec => []RouteInv
<1>1. Init => RouteInv  BY RouteStarts
<1> QED  BY <1>1, RouteSteps, PTL DEF Spec

\* For any number of files, attempts and calls: whatever step a call died at,
\* what it left is a prefix of the chain load_chain accepts, recomputes from the
\* files on disk, and a route once released asks for nothing any more.
THEOREM RoutesStayClosable == Spec => []RoutesReclose
<1>1. RouteInv => RoutesReclose
  BY ReleasedRoutesAreRead DEF RouteInv, ChainInv, RoutesReclose
<1> QED  BY <1>1, RouteInvariant, PTL

\* A passed attempt ends its route for good: the result, once recorded, is never
\* recorded otherwise, and the records it stands on are never replaced.
THEOREM ResultsAreFinal ==
  Spec => [][final # None => UNCHANGED <<attempts, repairs, final, written, drafts>>]_vars
<1>1. RouteInv /\ [Next]_vars =>
        [final # None => UNCHANGED <<attempts, repairs, final, written, drafts>>]_vars
  <2> SUFFICES ASSUME RouteInv, Next, final # None
               PROVE  UNCHANGED <<attempts, repairs, final, written, drafts>>
    OBVIOUS
  <2>1. pc \notin {"write", "repair", "draft"}  BY FinishedRoutesAreRead
  <2>2. CASE Finalize
    BY <2>2 DEF Finalize, Fails, disk
  <2> QED
    BY <2>1, <2>2 DEF Next, Start, GiveUp, Resume, Answer, BadAnswer, StorePacket,
       AllPacketsDone, LoadAttempt, WriteFile, TearFile, RunCommands, Release, Exhaust,
       LoadRepair, BeginRepair, RepairAnswer, WriteDraft, StoreRepair, Fails, disk
<1> QED  BY <1>1, RouteInvariant, PTL DEF Spec

(***************************************************************************)
(* The harness that runs a program of the route (HarnessEvidence), for     *)
(* any limit of the capture and any pipe.  An attestation is about the     *)
(* output the readers took; that it is about all the program printed needs *)
(* where the reader stands: it is done only at the end of a pipe nobody    *)
(* writes to any more, and within its limit.                               *)
(***************************************************************************)
HarnessSpec == HarnessInit /\ [][HarnessNext]_harness

Printing  == {"right", "wrong", "binary"}
NoSpec    == [id |-> "", env |-> "", gate |-> "", timeout |-> 0]
Ids       == {"", "caller-selected"} \cup Allowed
Envs      == {"", "MATH_ATOMS_REAL_APP_BMP"}
GateNames == {"", "build"}
Attested0 == [exit |-> 0]   \* before the first attestation
Attestations ==
  [id : Ids, env : Envs, gate : GateNames, exit : {0, 1}, artifact : Versions \cup {Absent},
   executable : Versions \cup {Absent}, expected : {"right"}, actual : Printing]

HarnessTyped ==
  harness \in
    [at : {"idle", "waiting", "joining", "hashing", "refused", "written"},
     spec : Specs \cup {NoSpec},
     child : {"none", "running", "exited"}, exit : {0, 1}, printed : Nat, read : Nat,
     prints : Printing, reader : {"none", "reading", "done", "failed"},
     artifact : Versions \cup {Absent}, executable : Versions \cup {Absent},
     file : {Absent, "attested", "other"}, attested : Attestations \cup {Attested0},
     hash : {Absent, "attested"}]

\* A program runs only while it is waited for, and a reader reads to its limit
\* or to the end of what an ended program printed.
ReaderInv ==
  /\ harness.child = "running" => Is("waiting")
  /\ Is("idle") => harness.printed = 0 /\ harness.read = 0
  /\ harness.reader = "reading" => harness.read <= MaxCapture
  /\ harness.reader = "done" =>
       harness.child # "running" /\ harness.read = harness.printed /\ harness.read <= MaxCapture

\* What is hashed was satisfied, and what is written is what was hashed.
EarnedInv ==
  /\ Is("hashing") => Satisfied
  /\ Is("written") =>
       /\ harness.reader = "done" /\ harness.printed > 0
       /\ harness.attested.exit = 0 /\ harness.attested.actual = "right"
  /\ harness.hash # Absent => harness.attested \in Attestations

HarnessInv == HarnessTyped /\ ReaderInv /\ EarnedInv

LEMMA HarnessStarts ==
  ASSUME MaxCapture \in Nat, HarnessInit
  PROVE  HarnessInv
<1>1. harness = [at |-> "idle", spec |-> NoSpec, child |-> "none", exit |-> 0, printed |-> 0,
                 read |-> 0, prints |-> "right", reader |-> "none", artifact |-> Absent,
                 executable |-> "v1", file |-> Absent, attested |-> Attested0, hash |-> Absent]
  BY DEF HarnessInit, NoSpec, Attested0
<1>2. HarnessTyped
  BY <1>1 DEF HarnessTyped, Printing, Versions
<1>3. ReaderInv /\ EarnedInv
  BY <1>1 DEF ReaderInv, EarnedInv, Is
<1> QED  BY <1>2, <1>3 DEF HarnessInv

\* What a specification and the allowlist hold.
LEMMA SpecsKnown ==
  ASSUME NEW spec \in Specs \cup {NoSpec}
  PROVE  spec.id \in Ids /\ spec.gate \in GateNames
<1>1. CASE spec = NoSpec
  BY <1>1, Zenon DEF NoSpec, Ids, GateNames
<1>2. CASE spec \in Specs
  BY <1>2, Zenon DEF Specs, Ids, GateNames
<1> QED  BY <1>1, <1>2

LEMMA ArtifactEnvs == \A id : ArtifactEnv(id) \in Envs
BY Zenon DEF ArtifactEnv, Envs

LEMMA AttestationTyped ==
  ASSUME HarnessTyped
  PROVE  Attestation(harness) \in Attestations
<1>1. harness.spec.id \in Ids /\ harness.spec.gate \in GateNames
  BY SpecsKnown DEF HarnessTyped
<1>2. ArtifactEnv(harness.spec.id) \in Envs
  BY ArtifactEnvs
<1>3. /\ harness.exit \in {0, 1} /\ harness.prints \in Printing
      /\ harness.artifact \in Versions \cup {Absent}
      /\ harness.executable \in Versions \cup {Absent}
  BY DEF HarnessTyped
<1> QED  BY <1>1, <1>2, <1>3 DEF Attestation, Attestations

\* No step of the harness leaves its types.
LEMMA HarnessKeepsTypes ==
  ASSUME HarnessTyped, HarnessNext
  PROVE  HarnessTyped'
<1> USE DEF HarnessTyped
<1>1. CASE RunHarness
  <2>1. PICK spec \in Specs :
          \/ harness' = [harness EXCEPT !.at = "waiting", !.spec = spec,
                                        !.child = "running", !.reader = "reading"]
          \/ harness' = [Refused EXCEPT !.spec = spec]
    BY <1>1 DEF RunHarness
  <2>2. CASE harness' = [Refused EXCEPT !.spec = spec]
    <3>1. harness' = [harness EXCEPT !.at = "refused", !.spec = spec]
      BY <2>2 DEF Refused
    <3> QED  BY <3>1
  <2> QED  BY <2>1, <2>2
<1>2. CASE ChildPrints
  <2>1. PICK now \in Printing :
          harness' = [harness EXCEPT !.printed = @ + 1, !.prints = now]
    <3>1. PICK what \in Printing :
            harness' = [harness EXCEPT !.printed = @ + 1,
                          !.prints = IF harness.printed = 0 \/ what # "right" THEN what ELSE @]
      BY <1>2 DEF ChildPrints, Printing
    <3>2. harness.prints \in Printing
      OBVIOUS
    <3> QED  BY <3>1, <3>2
  <2>2. harness.printed + 1 \in Nat
    OBVIOUS
  <2> QED  BY <2>1, <2>2
<1>3. CASE ChildWrites
  BY <1>3 DEF ChildWrites
<1>4. CASE ChildExits
  BY <1>4 DEF ChildExits
<1>5. CASE ChildBreaks
  BY <1>5 DEF ChildBreaks
<1>6. CASE Reads
  <2>1. PICK now \in {"reading", "done", "failed"}, n \in Nat :
          harness' = [harness EXCEPT !.read = n, !.reader = now]
    <3>1. harness.read \in Nat /\ harness.reader = "reading"
      BY <1>6 DEF Reads
    <3>2. CASE harness' = [harness EXCEPT !.reader = "done"]
      <4>1. harness' = [harness EXCEPT !.read = harness.read, !.reader = "done"]
        BY <3>2
      <4> QED  BY <3>1, <4>1
    <3>3. CASE harness' = [harness EXCEPT !.read = @ + 1,
                             !.reader = IF harness.read = MaxCapture THEN "failed" ELSE @]
      <4>1. harness.read + 1 \in Nat
        BY <3>1
      <4>2. (IF harness.read = MaxCapture THEN "failed" ELSE harness.reader)
              \in {"reading", "done", "failed"}
        BY <3>1
      <4> HIDE DEF HarnessTyped
      <4> QED  BY <3>3, <4>1, <4>2
    <3> QED  BY <1>6, <3>2, <3>3 DEF Reads
  <2> QED  BY <2>1
<1>7. CASE Collected
  BY <1>7 DEF Collected
<1>8. CASE TimesOut
  BY <1>8 DEF TimesOut, Refused
<1>9. CASE Joined
  BY <1>9 DEF Joined, Refused
<1>10. CASE Attest
  <2>1. CASE harness' = Refused
    BY <2>1 DEF Refused
  <2>2. CASE harness' # Refused
    <3> DEFINE a == Attestation(harness)
    <3>1. /\ harness' = [harness EXCEPT !.at = "written", !.attested = a,
                                        !.file = "attested", !.hash = "attested"]
      BY <1>10, <2>2 DEF Attest
    <3>2. a \in Attestations
      BY AttestationTyped
    <3> HIDE DEF a
    <3> QED  BY <3>1, <3>2
  <2> QED  BY <2>1, <2>2
<1>11. CASE Others
  <2>1. CASE \E c \in Versions \cup {Absent} : harness' = [harness EXCEPT !.artifact = c]
    BY <2>1
  <2>2. CASE \E c \in Versions \cup {Absent} : harness' = [harness EXCEPT !.executable = c]
    BY <2>2
  <2>3. CASE \E c \in {"other", Absent} : harness' = [harness EXCEPT !.file = c]
    BY <2>3
  <2> QED  BY <1>11, <2>1, <2>2, <2>3 DEF Others
<1>12. CASE RunAgain
  BY <1>12 DEF RunAgain, Printing
<1> QED
  BY <1>1, <1>2, <1>3, <1>4, <1>5, <1>6, <1>7, <1>8, <1>9, <1>10, <1>11, <1>12
  DEF HarnessNext

\* Where the reader stands, and what was earned.
LEMMA HarnessSteps ==
  ASSUME MaxCapture \in Nat, HarnessInv, HarnessNext
  PROVE  HarnessInv'
<1>0. HarnessTyped'
  BY HarnessKeepsTypes DEF HarnessInv
<1>1. HarnessTyped /\ ReaderInv /\ EarnedInv
  BY DEF HarnessInv
<1>2. /\ harness.read \in Nat /\ harness.printed \in Nat /\ harness.exit \in {0, 1}
      /\ harness.prints \in Printing
  BY <1>1 DEF HarnessTyped
<1> USE DEF HarnessTyped, ReaderInv, EarnedInv, Is
<1>3. ASSUME RunHarness PROVE ReaderInv' /\ EarnedInv'
  BY <1>1, <1>2, <1>3 DEF RunHarness, Refused
<1>4. ASSUME ChildPrints PROVE ReaderInv' /\ EarnedInv'
  BY <1>1, <1>2, <1>4 DEF ChildPrints
<1>5. ASSUME ChildWrites PROVE ReaderInv' /\ EarnedInv'
  BY <1>1, <1>2, <1>5 DEF ChildWrites, Satisfied
<1>6. ASSUME ChildExits PROVE ReaderInv' /\ EarnedInv'
  BY <1>1, <1>2, <1>6 DEF ChildExits, Satisfied
<1>7. ASSUME ChildBreaks PROVE ReaderInv' /\ EarnedInv'
  BY <1>1, <1>2, <1>7 DEF ChildBreaks, Satisfied
<1>8. ASSUME Reads PROVE ReaderInv' /\ EarnedInv'
  <2>1. harness.reader = "reading"
    BY <1>8 DEF Reads
  <2>2. ~Is("hashing") /\ ~Is("written")
    BY <1>1, <2>1 DEF Satisfied
  <2>3. CASE harness' = [harness EXCEPT !.reader = "done"] /\ harness.read = harness.printed
              /\ harness.child # "running"
    BY <1>1, <1>2, <2>1, <2>2, <2>3
  <2>4. CASE harness' = [harness EXCEPT !.read = @ + 1,
                           !.reader = IF harness.read = MaxCapture THEN "failed" ELSE @]
              /\ harness.read < harness.printed
    <3>1. /\ harness'.read = harness.read + 1
          /\ harness'.reader = IF harness.read = MaxCapture THEN "failed" ELSE "reading"
          /\ harness'.at = harness.at /\ harness'.child = harness.child
          /\ harness'.hash = harness.hash /\ harness'.attested = harness.attested
      BY <1>1, <2>1, <2>4
    <3>2. harness.at # "idle"
      BY <1>1, <1>2, <2>4
    <3> HIDE DEF HarnessTyped
    <3> QED  BY <1>1, <1>2, <2>1, <2>2, <3>1, <3>2
  <2> QED  BY <1>8, <2>3, <2>4 DEF Reads
<1>9. ASSUME Collected PROVE ReaderInv' /\ EarnedInv'
  BY <1>1, <1>2, <1>9 DEF Collected
<1>10. ASSUME TimesOut PROVE ReaderInv' /\ EarnedInv'
  BY <1>1, <1>2, <1>10 DEF TimesOut, Refused
<1>11. ASSUME Joined PROVE ReaderInv' /\ EarnedInv'
  BY <1>1, <1>2, <1>11 DEF Joined, Refused, Satisfied
<1>12. ASSUME Attest PROVE ReaderInv' /\ EarnedInv'
  <2>1. CASE harness' = Refused
    <3>1. harness' = [harness EXCEPT !.at = "refused"] /\ Is("hashing")
      BY <1>12, <2>1 DEF Refused, Attest
    <3> QED  BY <1>1, <1>2, <3>1 DEF Satisfied
  <2>2. CASE harness' # Refused
    <3> DEFINE a == Attestation(harness)
    <3>1. harness' = [harness EXCEPT !.at = "written", !.attested = a,
                                     !.file = "attested", !.hash = "attested"]
      BY <1>12, <2>2 DEF Attest
    <3>2. a \in Attestations /\ a.exit = harness.exit /\ a.actual = harness.prints
      BY <1>1, AttestationTyped DEF Attestation
    <3>3. Is("hashing") /\ Satisfied
      BY <1>1, <1>12 DEF Attest
    <3> HIDE DEF a
    <3> QED  BY <1>1, <1>2, <3>1, <3>2, <3>3 DEF Satisfied
  <2> QED  BY <2>1, <2>2
<1>13. ASSUME Others PROVE ReaderInv' /\ EarnedInv'
  BY <1>1, <1>2, <1>13 DEF Others, Satisfied
<1>14. ASSUME RunAgain PROVE ReaderInv' /\ EarnedInv'
  BY <1>1, <1>2, <1>14 DEF RunAgain
<1>15. ReaderInv' /\ EarnedInv'
  BY <1>3, <1>4, <1>5, <1>6, <1>7, <1>8, <1>9, <1>10, <1>11, <1>12, <1>13, <1>14
  DEF HarnessNext
<1> QED  BY <1>0, <1>15 DEF HarnessInv

LEMMA HarnessUnmoved == HarnessInv /\ UNCHANGED harness => HarnessInv'
BY DEF HarnessInv, HarnessTyped, ReaderInv, EarnedInv, Is, Satisfied

LEMMA HarnessInvSuffices == HarnessInv => AttestationsAreEarned /\ ProgramsAreEnded
BY DEF HarnessInv, HarnessTyped, ReaderInv, EarnedInv, AttestationsAreEarned,
   ProgramsAreEnded, Is, Attested, ValidAttestation, Versions, Absent

\* An attestation stands only for a run that ended with code 0 and whose whole
\* output was captured and as expected, and verifies only while its files are
\* there; a program never outlives run_harness (run_harness,
\* verify_harness_attestation).
THEOREM AttestationsStand ==
  ASSUME MaxCapture \in Nat
  PROVE  HarnessSpec => [](AttestationsAreEarned /\ ProgramsAreEnded)
<1>1. HarnessInv /\ [HarnessNext]_harness => HarnessInv'
  BY HarnessSteps, HarnessUnmoved
<1> QED  BY HarnessStarts, <1>1, HarnessInvSuffices, PTL DEF HarnessSpec

(***************************************************************************)
(* Proof of ResultsDescribeTheirFile, for every number of repairs.  The    *)
(* property speaks of a build that is over; what a round has to find and   *)
(* to leave behind is BestIsKept: the score is the one of the best program *)
(* as soon as rustc rejected one, and none of those rejected beats it.     *)
(***************************************************************************)
FastSpec == fast = FastIdle /\ [][FastNext]_fast

ScoreOf(p) == <<p.complete, p.counted>>

Scores  == BOOLEAN \X Nat
Written == Programs \cup {Nothing}

FastTyped ==
  fast \in [stage : {"idle", "ask", "check", "write", "built", "failed"},
           verify : BOOLEAN, calls : Nat, repairs : 0..MaxRepair,
           verified : BOOLEAN, compiled : BOOLEAN, code : Written, best : Written,
           score : Scores, errors : Written, tried : SUBSET Programs, file : Written]

\* One call more than the repairs made, and none before the first.
CallsAreCounted ==
  /\ fast.stage \in {"idle", "ask"} => fast.calls <= fast.repairs
  /\ fast.calls <= 1 + fast.repairs
  /\ fast.calls = 0 => ~fast.verified /\ fast.stage \in {"idle", "ask", "failed"}
  /\ fast.calls # 0 /\ fast.stage # "failed" => fast.code \in Programs /\ fast.best \in Programs

BestIsKept ==
  /\ fast.compiled => fast.verified /\ fast.best.compiles /\ fast.stage \in {"write", "built"}
  /\ ~fast.verified => fast.tried = {} /\ fast.score = <<FALSE, MaxErrors + 1>>
  /\ fast.verified /\ ~fast.compiled =>
       /\ fast.errors = fast.best /\ fast.best \in fast.tried
       /\ fast.score = ScoreOf(fast.best)
       /\ \A p \in fast.tried : ~p.compiles /\ ~Better(ScoreOf(p), fast.score)

FileIsBest == fast.stage = "built" => fast.file \in {fast.best, Nothing}

FastInv == FastTyped /\ CallsAreCounted /\ BestIsKept /\ FileIsBest

\* MaxErrors stands for usize::MAX, the errors counted before the first round:
\* at least the one of NoCodeStub fits under it.
FastBounds == MaxRepair \in Nat /\ MaxErrors \in Nat \ {0}

\* The stub is a program, Nothing is none.
LEMMA StubsAndNothing ==
  ASSUME FastBounds
  PROVE  NoCodeStub \in Programs /\ Nothing \notin Programs
<1>1. NoCodeStub \in Programs  BY DEF FastBounds, NoCodeStub, Programs
<1>2. ASSUME Nothing \in Programs PROVE FALSE
  <2>1. Nothing.counted \in 0..MaxErrors  BY <1>2 DEF Programs
  <2>2. Nothing.counted = -1  BY DEF Nothing
  <2> QED  BY <2>1, <2>2, SMT DEF FastBounds
<1> QED  BY <1>1, <1>2

\* Better orders scores strictly: what does not beat a score does not beat a
\* better one, and no score beats itself.
LEMMA BetterIsAnOrder ==
  ASSUME NEW a \in Scores, NEW b \in Scores, NEW c \in Scores,
         ~Better(a, b)
  PROVE  ~Better(a, a) /\ (Better(c, b) => ~Better(a, c))
BY DEF Better, Scores

\* Any program beats the score before the first round (usize::MAX errors).
LEMMA FirstRoundCounts ==
  ASSUME FastBounds, NEW p \in Programs
  PROVE  /\ ScoreOf(p) \in Scores
         /\ Better(ScoreOf(p), <<FALSE, MaxErrors + 1>>)
<1>1. p.complete \in BOOLEAN /\ p.counted \in Nat /\ p.counted < MaxErrors + 1
  BY DEF FastBounds, Programs
<1>2. ScoreOf(p) = <<p.complete, p.counted>>  BY DEF ScoreOf
<1>3. ASSUME NEW c \in BOOLEAN, NEW n \in Nat, n < MaxErrors + 1
      PROVE  <<c, n>> \in Scores /\ Better(<<c, n>>, <<FALSE, MaxErrors + 1>>)
  <2>1. CASE c = TRUE   BY <2>1 DEF Better, Scores
  <2>2. CASE c = FALSE  BY <1>3, <2>2 DEF Better, Scores
  <2> QED  BY <2>1, <2>2
<1> QED  BY <1>1, <1>2, <1>3

\* A build starts within the invariant.
LEMMA FastStarts ==
  ASSUME FastBounds, fast = FastIdle
  PROVE  FastInv
<1>1. MaxErrors + 1 \in Nat  BY DEF FastBounds
<1>2. <<FALSE, MaxErrors + 1>> \in Scores  BY <1>1, Zenon DEF Scores
<1>3. FastTyped
  BY <1>2 DEF FastBounds, FastIdle, FastTyped, Written
<1>4. /\ fast.stage = "idle" /\ fast.calls = 0 /\ fast.repairs = 0
      /\ ~fast.verified /\ ~fast.compiled /\ fast.tried = {}
      /\ fast.score = <<FALSE, MaxErrors + 1>>
  BY DEF FastIdle
<1>5. CallsAreCounted  BY <1>4 DEF CallsAreCounted
<1>6. BestIsKept  BY <1>4, Zenon DEF BestIsKept
<1>7. FileIsBest  BY <1>4 DEF FileIsBest
<1> QED  BY <1>3, <1>5, <1>6, <1>7 DEF FastInv

\* A rejection replaces the best program exactly when its score is better: what
\* is kept is again the best of what was tried (RustcRejects).
LEMMA RejectionKeepsBest ==
  ASSUME FastBounds, FastInv, RustcRejects
  PROVE  FastInv'
<1> DEFINE score  == ScoreOf(fast.code)
           better == Better(score, fast.score)
<1>1. /\ fast.stage = "check" /\ ~fast.code.compiles /\ fast.code \in Programs
      /\ fast.calls # 0 /\ ~fast.compiled /\ fast.best \in Programs
  BY DEF RustcRejects, FastInv, FastTyped, CallsAreCounted, BestIsKept
<1>2. fast' = [fast EXCEPT
          !.verified = TRUE, !.tried = @ \cup {fast.code},
          !.score   = IF better THEN score ELSE @,
          !.best    = IF better THEN fast.code ELSE @,
          !.errors  = IF better THEN fast.code ELSE @,
          !.repairs = IF @ >= MaxRepair THEN @ ELSE @ + 1,
          !.stage   = IF fast.repairs >= MaxRepair THEN "write" ELSE "ask"]
  BY DEF RustcRejects, ScoreOf
<1>3. /\ score \in Scores /\ fast.score \in Scores
      /\ ~fast.verified => better
  BY <1>1, FirstRoundCounts DEF FastInv, FastTyped, BestIsKept
<1> HIDE DEF score, better
<1>4. FastTyped'
  <2> DEFINE n == IF fast.repairs >= MaxRepair THEN fast.repairs ELSE fast.repairs + 1
             b == IF better THEN fast.code ELSE fast.best
             e == IF better THEN fast.code ELSE fast.errors
             z == IF better THEN score ELSE fast.score
             g == IF fast.repairs >= MaxRepair THEN "write" ELSE "ask"
             t == fast.tried \cup {fast.code}
  <2>1. n \in 0..MaxRepair  BY DEF FastInv, FastTyped, FastBounds
  <2>2. /\ b \in Written /\ e \in Written /\ z \in Scores /\ t \in SUBSET Programs
        /\ g \in {"write", "ask"}
    BY <1>1, <1>3 DEF FastInv, FastTyped, Written
  <2>3. fast' = [fast EXCEPT !.verified = TRUE, !.tried = t, !.score = z, !.best = b,
                             !.errors = e, !.repairs = n, !.stage = g]
    BY <1>2
  <2> HIDE DEF n, b, e, z, g, t
  <2> QED  BY <2>1, <2>2, <2>3 DEF FastInv, FastTyped
<1>5. CallsAreCounted'
  BY <1>1, <1>2 DEF FastInv, FastTyped, CallsAreCounted, FastBounds
<1>6. BestIsKept'
  <2>1. /\ fast'.verified /\ ~fast'.compiled /\ fast'.tried = fast.tried \cup {fast.code}
        /\ fast'.score = IF better THEN score ELSE fast.score
        /\ fast'.best = IF better THEN fast.code ELSE fast.best
        /\ fast'.errors = IF better THEN fast.code ELSE fast.errors
    BY <1>1, <1>2 DEF FastInv, FastTyped
  <2>2. /\ fast'.errors = fast'.best /\ fast'.best \in fast'.tried
        /\ fast'.score = ScoreOf(fast'.best)
    BY <1>1, <1>3, <2>1 DEF FastInv, BestIsKept, score
  <2>3. ASSUME NEW p \in fast'.tried PROVE ~p.compiles /\ ~Better(ScoreOf(p), fast'.score)
    <3>1. CASE p = fast.code
      <4>1. ~Better(score, score)  BY <1>3 DEF Better, Scores
      <4> QED  BY <1>1, <2>1, <3>1, <4>1 DEF score, better
    <3>2. CASE p \in fast.tried
      <4>1. fast.verified  BY <3>2 DEF FastInv, BestIsKept
      <4>2. ~p.compiles /\ ~Better(ScoreOf(p), fast.score)
        BY <1>1, <3>2, <4>1 DEF FastInv, BestIsKept
      <4>3. ScoreOf(p) \in Scores
        BY <3>2, FirstRoundCounts DEF FastInv, FastTyped
      <4>4. better => ~Better(ScoreOf(p), score)
        BY <1>3, <4>2, <4>3, BetterIsAnOrder DEF better
      <4> QED  BY <2>1, <4>2, <4>4
    <3> QED  BY <2>1, <3>1, <3>2
  <2> QED  BY <2>1, <2>2, <2>3 DEF BestIsKept
<1>7. FileIsBest'
  BY <1>1, <1>2 DEF FastInv, FastTyped, FileIsBest
<1> QED  BY <1>4, <1>5, <1>6, <1>7 DEF FastInv

\* The steps keep the invariant.
LEMMA FastSteps ==
  ASSUME FastBounds, FastInv, FastNext
  PROVE  FastInv'
<1> USE DEF FastBounds
<1>1. CASE FastStart
  <2>1. fast.stage = "idle" /\ \E verify \in BOOLEAN, stage \in {"ask", "failed"} :
          fast' = [fast EXCEPT !.verify = verify, !.stage = stage]
    BY <1>1 DEF FastStart
  <2>2. FastTyped'  BY <2>1 DEF FastInv, FastTyped
  <2> QED
    BY <2>1, <2>2 DEF FastInv, FastTyped, CallsAreCounted, BestIsKept, FileIsBest
<1>2. CASE FastCallFails
  <2>1. fast.stage = "ask" /\ fast' = [fast EXCEPT !.stage = "failed", !.calls = @ + 1]
    BY <1>2 DEF FastCallFails
  <2>2. fast.calls + 1 \in Nat  BY DEF FastInv, FastTyped
  <2>4. FastTyped'  BY <2>1, <2>2 DEF FastInv, FastTyped
  <2>5. /\ fast'.stage = "failed" /\ fast'.calls = fast.calls + 1
        /\ \A f \in {"repairs", "verified", "compiled", "best", "tried", "score", "errors"} :
             fast'[f] = fast[f]
    BY <2>1 DEF FastInv, FastTyped
  <2>6. CallsAreCounted'  BY <2>1, <2>4, <2>5 DEF FastInv, FastTyped, CallsAreCounted
  <2>7. BestIsKept'  BY <2>1, <2>4, <2>5 DEF FastInv, FastTyped, BestIsKept
  <2>8. FileIsBest'  BY <2>5 DEF FileIsBest
  <2> QED
    BY <2>4, <2>6, <2>7, <2>8 DEF FastInv
<1>3. CASE FastAnswer
  <2>1. PICK found \in Programs \cup {Nothing} :
          LET first   == fast.calls = 0
              program == IF found # Nothing THEN found
                         ELSE IF first THEN NoCodeStub ELSE fast.code
          IN fast' = [fast EXCEPT
               !.calls = @ + 1, !.code = program,
               !.best  = IF first THEN program ELSE @,
               !.stage = IF fast.verify THEN "check" ELSE "write"]
    BY <1>3 DEF FastAnswer
  <2> DEFINE program == IF found # Nothing THEN found
                        ELSE IF fast.calls = 0 THEN NoCodeStub ELSE fast.code
  <2>2. fast.stage = "ask"  BY <1>3 DEF FastAnswer
  <2>3. program \in Programs  BY <2>1, <2>2, StubsAndNothing DEF FastInv, CallsAreCounted
  <2>4. fast' = [fast EXCEPT
               !.calls = @ + 1, !.code = program,
               !.best  = IF fast.calls = 0 THEN program ELSE @,
               !.stage = IF fast.verify THEN "check" ELSE "write"]
    BY <2>1
  <2> HIDE DEF program
  <2> DEFINE best  == IF fast.calls = 0 THEN program ELSE fast.best
             stage == IF fast.verify THEN "check" ELSE "write"
  <2>5. /\ fast.calls + 1 \in Nat /\ program \in Written /\ stage \in {"check", "write"}
        /\ best \in Programs /\ best \in Written
    BY <2>2, <2>3 DEF FastInv, FastTyped, CallsAreCounted, Written
  <2>6. fast.verified => best = fast.best
    BY DEF FastInv, CallsAreCounted
  <2>7. fast' = [fast EXCEPT !.calls = fast.calls + 1, !.code = program, !.best = best,
                             !.stage = stage]
    BY <2>4
  <2> HIDE DEF best, stage
  <2>8. FastTyped'  BY <2>5, <2>7 DEF FastInv, FastTyped
  <2>9. /\ fast'.stage = stage /\ fast'.calls = fast.calls + 1
        /\ fast'.code = program /\ fast'.best = best
        /\ \A f \in {"repairs", "verified", "compiled", "tried", "score", "errors"} :
             fast'[f] = fast[f]
    BY <2>7 DEF FastInv, FastTyped
  <2>10. CallsAreCounted'
    BY <2>2, <2>3, <2>5, <2>9 DEF FastInv, FastTyped, CallsAreCounted
  <2>11. BestIsKept'
    BY <2>2, <2>6, <2>9 DEF FastInv, BestIsKept
  <2>12. FileIsBest'  BY <2>5, <2>9 DEF FileIsBest
  <2> QED  BY <2>8, <2>10, <2>11, <2>12 DEF FastInv
<1>4. CASE RustcUnavailable
  <2>1. fast.stage = "check" /\ fast' = [fast EXCEPT !.stage = "write"]
    BY <1>4 DEF RustcUnavailable
  <2>2. FastTyped'  BY <2>1 DEF FastInv, FastTyped
  <2>3. /\ fast'.stage = "write"
        /\ \A f \in {"calls", "repairs", "verified", "compiled", "code", "best", "tried",
                      "score", "errors"} : fast'[f] = fast[f]
    BY <2>1 DEF FastInv, FastTyped
  <2>4. CallsAreCounted'  BY <2>1, <2>3 DEF FastInv, CallsAreCounted
  <2>5. BestIsKept'  BY <2>1, <2>3 DEF FastInv, BestIsKept
  <2>6. FileIsBest'  BY <2>3 DEF FileIsBest
  <2> QED  BY <2>2, <2>4, <2>5, <2>6 DEF FastInv
<1>5. CASE RustcAccepts
  <2>1. /\ fast.stage = "check" /\ fast.code.compiles
        /\ fast' = [fast EXCEPT
             !.verified = TRUE, !.compiled = TRUE, !.errors = Nothing, !.best = fast.code,
             !.tried = fast.tried \cup {fast.code}, !.stage = "write"]
    BY <1>5 DEF RustcAccepts
  <2>2. fast.calls # 0 /\ fast.code \in Programs
    BY <2>1 DEF FastInv, CallsAreCounted
  <2> DEFINE tried == fast.tried \cup {fast.code}
  <2>3. /\ tried \in SUBSET Programs /\ fast.code \in Written /\ Nothing \in Written
    BY <2>2 DEF FastInv, FastTyped, Written
  <2>4. fast' = [fast EXCEPT
             !.verified = TRUE, !.compiled = TRUE, !.errors = Nothing, !.best = fast.code,
             !.tried = tried, !.stage = "write"]
    BY <2>1
  <2> HIDE DEF tried
  <2>5. FastTyped'  BY <2>3, <2>4 DEF FastInv, FastTyped
  <2>6. /\ fast'.stage = "write" /\ fast'.verified /\ fast'.compiled
        /\ fast'.best = fast.code
        /\ \A f \in {"calls", "repairs", "code"} : fast'[f] = fast[f]
    BY <2>4 DEF FastInv, FastTyped
  <2>7. CallsAreCounted'  BY <2>1, <2>2, <2>6 DEF FastInv, CallsAreCounted
  <2>8. BestIsKept'  BY <2>1, <2>6 DEF BestIsKept
  <2>9. FileIsBest'  BY <2>6 DEF FileIsBest
  <2> QED  BY <2>5, <2>7, <2>8, <2>9 DEF FastInv
<1>6. CASE RustcRejects
  BY <1>6, RejectionKeepsBest
<1>7. CASE WriteProgram
  <2>1. fast.stage = "write" /\ \E file \in {fast.best, Nothing} :
          fast' = [fast EXCEPT !.stage = "built", !.file = file]
    BY <1>7 DEF WriteProgram
  <2>2. PICK file \in {fast.best, Nothing} :
          fast' = [fast EXCEPT !.stage = "built", !.file = file]
    BY <2>1
  <2>3. file \in Written  BY DEF FastInv, FastTyped, Written
  <2>4. FastTyped'  BY <2>2, <2>3 DEF FastInv, FastTyped
  <2>5. /\ fast'.stage = "built" /\ fast'.file = file
        /\ \A f \in {"calls", "repairs", "verified", "compiled", "code", "best", "tried",
                      "score", "errors"} : fast'[f] = fast[f]
    BY <2>2 DEF FastInv, FastTyped
  <2>6. CallsAreCounted'  BY <2>1, <2>5 DEF FastInv, CallsAreCounted
  <2>7. BestIsKept'  BY <2>1, <2>5 DEF FastInv, BestIsKept
  <2>8. FileIsBest'  BY <2>2, <2>5 DEF FileIsBest
  <2> QED  BY <2>4, <2>6, <2>7, <2>8 DEF FastInv
<1> QED  BY <1>1, <1>2, <1>3, <1>4, <1>5, <1>6, <1>7 DEF FastNext

\* The invariant says what the property says of a build that is over.
LEMMA FastInvSuffices ==
  ASSUME FastBounds, FastInv
  PROVE  ResultsDescribeTheirFile
<1>1. fast.calls <= 1 + MaxRepair
  BY DEF FastBounds, FastInv, FastTyped, CallsAreCounted
<1>2. ASSUME fast.stage = "built"
      PROVE  /\ fast.file \in {fast.best, Nothing} /\ fast.best # Nothing
             /\ ~fast.verified => fast.tried = {}
             /\ fast.compiled => fast.best.compiles /\ fast.verified
             /\ fast.verified /\ ~fast.compiled =>
                  /\ fast.errors = fast.best /\ fast.best \in fast.tried
                  /\ \A p \in fast.tried : ~p.compiles /\ ~Better(ScoreOf(p), ScoreOf(fast.best))
  BY <1>2, StubsAndNothing DEF FastInv, FastTyped, CallsAreCounted, BestIsKept, FileIsBest
<1> QED  BY <1>1, <1>2 DEF ResultsDescribeTheirFile, Status, ScoreOf

\* For any number of repairs: a build is a bounded number of calls, its status
\* and errors are those of the program in its file, and rustc judged no better
\* one ("the best candidate ... is what actually gets written", run_fast_build).
THEOREM BestProgramIsBuilt ==
  ASSUME FastBounds
  PROVE  FastSpec => []ResultsDescribeTheirFile
<1>1. fast = FastIdle => FastInv  BY FastStarts
<1>2. FastInv /\ [FastNext]_fast => FastInv'
  <2>1. FastInv /\ UNCHANGED fast => FastInv'
    BY DEF FastInv, FastTyped, CallsAreCounted, BestIsKept, FileIsBest
  <2> QED  BY <2>1, FastSteps
<1>3. FastInv => ResultsDescribeTheirFile  BY FastInvSuffices
<1> QED  BY <1>1, <1>2, <1>3, PTL DEF FastSpec

(***************************************************************************)
(* The expansion of a plan, and the evidence of its execution.             *)
(*                                                                         *)
(* The plan of the run is WorkPlan of its `manifest` files; what           *)
(* WorkPlan_proofs proves of it is kept while it is the part of the run    *)
(* (PlanPart).                                                             *)
(***************************************************************************)
\* WorkPlan as the run instantiates it and as its proofs do is the same plan.
LEMMA SameSteps == Expanding!Next <=> Expansion!Next
BY Zenon DEF
      Expanding!Thirds, Expansion!Thirds, Expanding!NextIds,
      Expansion!NextIds, Expanding!Packet, Expansion!Packet,
      Expanding!Manifest, Expansion!Manifest, Expanding!Architecture,
      Expansion!Architecture, Expanding!Quality, Expansion!Quality,
      Expanding!Functional, Expansion!Functional, Expanding!The,
      Expansion!The, Expanding!Ids, Expansion!Ids, Expanding!Chunks,
      Expansion!Chunks, Expanding!Grouped, Expansion!Grouped,
      Expanding!TooMany, Expansion!TooMany, Expanding!Summarize,
      Expansion!Summarize, Expanding!Correct, Expansion!Correct,
      Expanding!FileFlow, Expansion!FileFlow, Expanding!IntegrateLevel,
      Expansion!IntegrateLevel, Expanding!Integrate, Expansion!Integrate,
      Expanding!CloseLevel, Expansion!CloseLevel, Expanding!Gates,
      Expansion!Gates, Expanding!ReleaseLevel, Expansion!ReleaseLevel,
      Expanding!Finish, Expansion!Finish, Expanding!Next, Expansion!Next

LEMMA SameStart == Expanding!Init <=> Expansion!Init
BY Zenon DEF
      Expanding!BaseStages, Expansion!BaseStages, Expanding!Packet,
      Expansion!Packet, Expanding!Init, Expansion!Init

LEMMA SameTypes == Expanding!TypeOK <=> Expansion!TypeOK
BY Zenon DEF
      Expanding!BaseStages, Expansion!BaseStages, Expanding!FileStages,
      Expansion!FileStages, Expanding!GroupStages, Expansion!GroupStages,
      Expanding!Stages, Expansion!Stages, Expanding!Packets,
      Expansion!Packets, Expanding!Ids, Expansion!Ids, Expanding!TypeOK,
      Expansion!TypeOK

LEMMA SameOrder == Expanding!DependenciesPrecede <=> Expansion!DependenciesPrecede
BY Zenon DEF
      Expanding!Ids, Expansion!Ids, Expanding!DependenciesPrecede,
      Expansion!DependenciesPrecede

LEMMA SameRows == Expanding!EvidenceVerifies <=> Expansion!EvidenceVerifies
BY Zenon DEF
      Expanding!BaseStages, Expansion!BaseStages, Expanding!FileStages,
      Expansion!FileStages, Expanding!Thirds, Expansion!Thirds,
      Expanding!IntegrationGroupCount, Expansion!IntegrationGroupCount,
      Expanding!ReductionToOneCount, Expansion!ReductionToOneCount,
      Expanding!ExpectedCount, Expansion!ExpectedCount, Expanding!Row,
      Expansion!Row, Expanding!Repeated, Expansion!Repeated,
      Expanding!PerFile, Expansion!PerFile, Expanding!Schedule,
      Expansion!Schedule, Expanding!Ids, Expansion!Ids,
      Expanding!EvidenceVerifies, Expansion!EvidenceVerifies

LEMMA SameReaders == Expanding!FindingsAreRead <=> Expansion!FindingsAreRead
BY Zenon DEF
      Expanding!Ids, Expansion!Ids, Expanding!The, Expansion!The,
      Expanding!Reads, Expansion!Reads, Expanding!FindingsAreRead,
      Expansion!FindingsAreRead

LEMMA SamePrompts ==
  Expanding!PromptsCarryEveryDependency <=> Expansion!PromptsCarryEveryDependency
BY Zenon DEF
      Expanding!BaseStages, Expansion!BaseStages, Expanding!GroupStages,
      Expansion!GroupStages, Expanding!KiB, Expansion!KiB,
      Expanding!OutputLimit, Expansion!OutputLimit, Expanding!Ids,
      Expansion!Ids, Expanding!MaxContext, Expansion!MaxContext,
      Expanding!MaxPerDependency, Expansion!MaxPerDependency,
      Expanding!Marker, Expansion!Marker, Expanding!ContextBefore,
      Expansion!ContextBefore, Expanding!PromptsCarryEveryDependency,
      Expansion!PromptsCarryEveryDependency

\* What is proved of the plan (WorkPlan_proofs), while it is the part of the run.
PlanPart ==
  part = "plan" => Expanding!PlanInv /\ Expanding!FindingsInv /\ Expanding!ShortInv

LEMMA PlanPartStays == PlanPart /\ [PlanNext]_<<part, input, vars, planVars, harness, fast>> => PlanPart'
<1> SUFFICES ASSUME PlanPart, [PlanNext]_<<part, input, vars, planVars, harness, fast>>, part' = "plan"
             PROVE  Expanding!PlanInv' /\ Expanding!FindingsInv' /\ Expanding!ShortInv'
  BY DEF PlanPart
<1>1. part = "plan"
  BY DEF PlanNext, Choose
<1>2. [Expanding!Next]_Expanding!vars
  <2>1. Expansion!Next \/ UNCHANGED planVars
    BY <1>1 DEF PlanNext, Choose
  <2>2. UNCHANGED planVars => UNCHANGED Expanding!vars
    BY DEF planVars, Expanding!vars
  <2> QED  BY <2>1, <2>2, SameSteps
<1> QED
  BY <1>1, <1>2, PlanFilesAssumption, Expanding!PlanStays, Expanding!FindingsStay, Expanding!ShortStays DEF PlanPart

LEMMA PlanPartStarts == PlanInit => PlanPart
<1> SUFFICES ASSUME PlanInit, part = "plan"
             PROVE  Expanding!PlanInv /\ Expanding!FindingsInv /\ Expanding!ShortInv
  BY DEF PlanPart
<1>1. Expanding!Init
  BY SameStart DEF PlanInit
<1> QED
  BY <1>1, PlanFilesAssumption, Expanding!PlanStarts, Expanding!FindingsStart, Expanding!ShortStarts

LEMMA PlanPartHolds ==
  PlanPart /\ part = "plan" =>
    /\ Expansion!TypeOK /\ Expansion!DependenciesPrecede /\ Expansion!EvidenceVerifies
    /\ Expansion!FindingsAreRead /\ Expansion!PromptsCarryEveryDependency
<1> SUFFICES ASSUME PlanPart, part = "plan"
             PROVE  /\ Expansion!TypeOK /\ Expansion!DependenciesPrecede /\ Expansion!EvidenceVerifies
                    /\ Expansion!FindingsAreRead /\ Expansion!PromptsCarryEveryDependency
  OBVIOUS
<1>1. Expanding!TypeOK /\ Expanding!DependenciesPrecede
  BY DEF PlanPart, Expanding!PlanInv
<1>2. /\ Expanding!EvidenceVerifies /\ Expanding!FindingsAreRead
      /\ Expanding!PromptsCarryEveryDependency
  BY PlanFilesAssumption, Expanding!PlanMeetsSchedule, Expanding!FindingsAreTaken, Expanding!ShortPromptsAreWhole
     DEF PlanPart
<1> QED
  BY <1>1, <1>2, SameTypes, SameOrder, SameRows, SameReaders, SamePrompts
(***************************************************************************)
(* The packet store.                                                       *)
(***************************************************************************)
PlanPackets == [stage : PlanStore!Stages, file : Nat, dependencies : Seq(Nat)]

\* The rows of s are the schedule of n files.
Scheduled(s, n) ==
  /\ Len(s) = PlanStore!ExpectedCount(n)
  /\ \A i \in 1..Len(s) : PlanStore!Row(s[i].stage, s[i].file) = PlanStore!Schedule(n)[i]

ClaimOf(s) == [plan |-> PlanStore!Identity, count |-> Len(s)]

\* What a store that verifies says.
LEMMA VerifiedSays ==
  ASSUME NEW s, NEW n, NEW d, PlanStore!PlanVerifies(d, ClaimOf(s), n, s)
  PROVE  /\ d.manifest.plan = PlanStore!Identity /\ d.manifest.identity = PlanStore!Identity
         /\ d.manifest.expanded /\ d.manifest.count = Len(s)
         /\ Len(d.manifest.packets) = Len(s) /\ Len(d.records) = Len(s)
         /\ \A i \in DOMAIN d.manifest.packets :
              /\ d.manifest.packets[i] = PlanStore!Descriptor(s, i)
              /\ d.records[i].ordinal = i
              /\ d.records[i].stage = PlanStore!Descriptor(s, i).stage
              /\ d.records[i].contract = PlanStore!Descriptor(s, i).contract
              /\ d.records[i].model = d.records[1].model
              /\ d.records[i].output = d.outputs[i]
BY DEF PlanStore!PlanVerifies, ClaimOf, PlanStore!RecordHolds

LEMMA ExecutedIs ==
  ASSUME NEW s \in Seq(PlanPackets)
  PROVE  LET kept == PlanStore!Executed(s) IN
         /\ kept = [manifest |-> kept.manifest, records |-> kept.records, outputs |-> kept.outputs]
         /\ kept.manifest = [plan |-> PlanStore!Identity, identity |-> PlanStore!Identity,
                             count |-> Len(s), expanded |-> TRUE,
                             packets |-> [i \in 1..Len(s) |-> PlanStore!Descriptor(s, i)]]
         /\ kept.records = [i \in 1..Len(s) |-> PlanStore!Record(s, i)]
         /\ kept.outputs = [i \in 1..Len(s) |-> i]
<1>1. DOMAIN s = 1..Len(s)
  OBVIOUS
<1> QED
  BY <1>1 DEF PlanStore!Executed

LEMMA DescriptorIs ==
  ASSUME NEW s \in Seq(PlanPackets), NEW i \in 1..Len(s)
  PROVE  LET d == PlanStore!Descriptor(s, i) IN
         /\ d = [ordinal |-> i, stage |-> d.stage, contract |-> d.contract, file |-> d.file,
                 dependencies |-> d.dependencies, limit |-> d.limit]
         /\ i \in Nat /\ d.file \in Nat /\ d.dependencies \in Seq(Nat) /\ d.limit \in Nat
         /\ d.stage # "other" /\ d.contract # "other"
<1>1. s[i] \in PlanPackets
  OBVIOUS
<1>2. "other" \notin PlanStore!Stages
  BY DEF PlanStore!Stages, PlanStore!BaseStages, PlanStore!FileStages, PlanStore!GroupStages
<1>3. s[i].stage \in PlanStore!Stages /\ s[i].file \in Nat /\ s[i].dependencies \in Seq(Nat)
  BY <1>1 DEF PlanPackets
<1>4. PlanStore!Contract(s[i].stage) # "other"
  BY DEF PlanStore!Contract
<1>5. PlanStore!OutputLimit(s[i].stage) \in Nat
  BY DEF PlanStore!OutputLimit, PlanStore!KiB
<1> QED
  BY <1>2, <1>3, <1>4, <1>5 DEF PlanStore!Descriptor

LEMMA RecordIs ==
  ASSUME NEW s, NEW i
  PROVE  LET r == PlanStore!Record(s, i)  d == PlanStore!Descriptor(s, i) IN
         /\ r = [plan |-> PlanStore!Identity, ordinal |-> i, stage |-> d.stage,
                 contract |-> d.contract, model |-> "model", output |-> i]
BY DEF PlanStore!Record, PlanStore!Descriptor

LEMMA RecordFields ==
  \A s, i : PlanStore!Record(s, i).model = "model" /\ PlanStore!Record(s, i).output = i
BY DEF PlanStore!Record

LEMMA ExecutedVerifies ==
  ASSUME NEW s \in Seq(PlanPackets), NEW n, Scheduled(s, n), Len(s) # 0
  PROVE  PlanStore!PlanVerifies(PlanStore!Executed(s), ClaimOf(s), n, s)
<1> DEFINE kept == PlanStore!Executed(s)
<1>1. /\ kept.manifest = [plan |-> PlanStore!Identity, identity |-> PlanStore!Identity,
                          count |-> Len(s), expanded |-> TRUE,
                          packets |-> [i \in 1..Len(s) |-> PlanStore!Descriptor(s, i)]]
      /\ kept.records = [i \in 1..Len(s) |-> PlanStore!Record(s, i)]
      /\ kept.outputs = [i \in 1..Len(s) |-> i]
  BY ExecutedIs
<1>2. Len(s) \in Nat
  OBVIOUS
<1> HIDE DEF kept
<1>3. /\ kept.manifest.plan = PlanStore!Identity /\ kept.manifest.expanded
      /\ kept.manifest.count = Len(s) /\ Len(kept.manifest.packets) = Len(s)
      /\ Len(kept.records) = Len(s) /\ kept.manifest.identity = PlanStore!Identity
      /\ DOMAIN kept.manifest.packets = 1..Len(s)
      /\ \A i \in 1..Len(s) : kept.manifest.packets[i] = PlanStore!Descriptor(s, i)
      /\ \A i \in 1..Len(s) : kept.records[i] = PlanStore!Record(s, i) /\ kept.outputs[i] = i
  BY <1>1, <1>2
<1>4. ASSUME NEW i \in 1..Len(s) PROVE PlanStore!RecordHolds(kept, i)
  <2>1. 1 \in 1..Len(s)
    BY <1>2
  <2>2. /\ kept.records[1].model = "model" /\ kept.records[i].model = "model"
        /\ kept.records[i].plan = PlanStore!Identity /\ kept.records[i].ordinal = i
        /\ kept.records[i].output = i
        /\ kept.records[i].stage = PlanStore!Descriptor(s, i).stage
        /\ kept.records[i].contract = PlanStore!Descriptor(s, i).contract
    BY <1>3, <2>1, RecordIs
  <2>3. PlanStore!Descriptor(s, i).ordinal = i
    BY DescriptorIs
  <2> QED
    BY <1>3, <2>2, <2>3 DEF PlanStore!RecordHolds
<1>5. PlanStore!FollowsSchedule(kept.manifest.packets, n)
  <2>1. \A i \in 1..Len(s) :
          /\ kept.manifest.packets[i].stage = s[i].stage /\ kept.manifest.packets[i].file = s[i].file
          /\ kept.manifest.packets[i].contract = PlanStore!Contract(s[i].stage)
    <3>1. \A i : /\ PlanStore!Descriptor(s, i).stage = s[i].stage
                 /\ PlanStore!Descriptor(s, i).file = s[i].file
                 /\ PlanStore!Descriptor(s, i).contract = PlanStore!Contract(s[i].stage)
      BY DEF PlanStore!Descriptor
    <3> QED  BY <1>3, <3>1
  <2> QED
    BY <1>3, <2>1 DEF PlanStore!FollowsSchedule, Scheduled
<1> QED
  BY <1>3, <1>4, <1>5 DEF PlanStore!PlanVerifies, ClaimOf, kept

LEMMA RecordDamageIsRefused ==
  ASSUME NEW s \in Seq(PlanPackets), NEW n, Len(s) > 1, NEW i \in 1..Len(s), NEW d,
         LET kept == PlanStore!Executed(s) IN
         \/ d = [kept EXCEPT !.records[i].ordinal = @ + 1]
         \/ d = [kept EXCEPT !.records[i].stage = "other"]
         \/ d = [kept EXCEPT !.records[i].contract = "other"]
         \/ d = [kept EXCEPT !.records[i].model = "other"]
         \/ d = [kept EXCEPT !.records[i].output = 0]
         \/ d = [kept EXCEPT !.outputs[i] = 0]
  PROVE  ~PlanStore!PlanVerifies(d, ClaimOf(s), n, s)
<1> DEFINE kept == PlanStore!Executed(s)
<1>1. /\ kept = [manifest |-> kept.manifest, records |-> kept.records, outputs |-> kept.outputs]
      /\ kept.manifest = [plan |-> PlanStore!Identity, identity |-> PlanStore!Identity,
                          count |-> Len(s), expanded |-> TRUE,
                          packets |-> [j \in 1..Len(s) |-> PlanStore!Descriptor(s, j)]]
      /\ kept.records = [j \in 1..Len(s) |-> PlanStore!Record(s, j)]
      /\ kept.outputs = [j \in 1..Len(s) |-> j]
  BY ExecutedIs
<1>2. /\ Len(s) \in Nat /\ i \in Nat /\ 1 \in 1..Len(s) /\ 2 \in 1..Len(s) /\ i # 0
      /\ i # i + 1
  OBVIOUS
<1>3. \/ d = [kept EXCEPT !.records[i].ordinal = @ + 1]
      \/ d = [kept EXCEPT !.records[i].stage = "other"]
      \/ d = [kept EXCEPT !.records[i].contract = "other"]
      \/ d = [kept EXCEPT !.records[i].model = "other"]
      \/ d = [kept EXCEPT !.records[i].output = 0]
      \/ d = [kept EXCEPT !.outputs[i] = 0]
  OBVIOUS
<1> HIDE DEF kept
<1> SUFFICES ASSUME PlanStore!PlanVerifies(d, ClaimOf(s), n, s) PROVE FALSE
  OBVIOUS
<1>4. /\ d.manifest = kept.manifest
      /\ DOMAIN d.manifest.packets = 1..Len(s)
  <2>1. kept = [manifest |-> kept.manifest, records |-> kept.records, outputs |-> kept.outputs]
    BY <1>1
  <2>2. d.manifest = kept.manifest
    BY <1>3, <2>1
  <2>3. DOMAIN kept.manifest.packets = 1..Len(s)
    BY <1>1
  <2> QED  BY <2>2, <2>3
<1>5. \A j \in 1..Len(s) :
        /\ d.records[j].ordinal = j
        /\ d.records[j].stage = PlanStore!Descriptor(s, j).stage
        /\ d.records[j].contract = PlanStore!Descriptor(s, j).contract
        /\ d.records[j].model = d.records[1].model
        /\ d.records[j].output = d.outputs[j]
  BY <1>4, VerifiedSays
<1>6. \A j \in 1..Len(s) : kept.records[j] =
        [plan |-> PlanStore!Identity, ordinal |-> j, stage |-> PlanStore!Descriptor(s, j).stage,
         contract |-> PlanStore!Descriptor(s, j).contract, model |-> "model", output |-> j]
  BY <1>1, RecordIs
<1>15. \A j \in 1..Len(s) : kept.records[j] = PlanStore!Record(s, j)
  BY <1>1
<1>7. PlanStore!Descriptor(s, i).stage # "other" /\ PlanStore!Descriptor(s, i).contract # "other"
  BY DescriptorIs
<1>8. DOMAIN kept.records = 1..Len(s) /\ DOMAIN kept.outputs = 1..Len(s)
      /\ \A j \in 1..Len(s) : kept.outputs[j] = j
  BY <1>1
<1>9. CASE d = [kept EXCEPT !.records[i].ordinal = @ + 1]
  <2>1. d.records[i].ordinal = i + 1
    BY <1>1, <1>6, <1>8, <1>9
  <2> QED  BY <1>2, <1>5, <2>1
<1>10. CASE d = [kept EXCEPT !.records[i].stage = "other"]
  <2>1. d.records[i].stage = "other"
    BY <1>1, <1>6, <1>8, <1>10
  <2> QED  BY <1>5, <1>7, <2>1
<1>11. CASE d = [kept EXCEPT !.records[i].contract = "other"]
  <2>1. d.records[i].contract = "other"
    BY <1>1, <1>6, <1>8, <1>11
  <2> QED  BY <1>5, <1>7, <2>1
<1>12. CASE d = [kept EXCEPT !.records[i].model = "other"]
  <2>1. d.records[i].model = "other"
    BY <1>1, <1>6, <1>8, <1>12
  <2>2. PICK j \in 1..Len(s) : j # i
    BY <1>2
  <2>3. d.records[j] = kept.records[j]
    BY <1>1, <1>8, <1>12, <2>2
  <2>4. d.records[j].model = "model"
    <3>1. kept.records[j].model = "model"
      BY <1>15, RecordFields
    <3> QED  BY <2>3, <3>1
  <2>5. d.records[j].model = d.records[i].model
    BY <1>5
  <2> QED  BY <2>1, <2>4, <2>5
<1>13. CASE d = [kept EXCEPT !.records[i].output = 0]
  <2>1. d.records[i].output = 0 /\ d.outputs = kept.outputs
    BY <1>1, <1>6, <1>8, <1>13
  <2> QED  BY <1>2, <1>5, <1>8, <2>1
<1>14. CASE d = [kept EXCEPT !.outputs[i] = 0]
  <2>1. d.outputs[i] = 0 /\ d.records = kept.records
    BY <1>1, <1>8, <1>14
  <2>2. kept.records[i].output = i
    BY <1>15, RecordFields
  <2>3. d.records[i].output = d.outputs[i]
    BY <1>5
  <2> QED  BY <1>2, <2>1, <2>2, <2>3
<1> QED
  BY <1>3, <1>9, <1>10, <1>11, <1>12, <1>13, <1>14

LEMMA DescriptorDamageIsRefused ==
  ASSUME NEW s \in Seq(PlanPackets), NEW n, NEW i \in 1..Len(s), NEW d,
         LET kept == PlanStore!Executed(s) IN
         \/ d = [kept EXCEPT !.manifest.packets[i].ordinal = @ + 1]
         \/ d = [kept EXCEPT !.manifest.packets[i].stage = "other"]
         \/ d = [kept EXCEPT !.manifest.packets[i].contract = "other"]
         \/ d = [kept EXCEPT !.manifest.packets[i].file = @ + 1]
         \/ d = [kept EXCEPT !.manifest.packets[i].dependencies = Append(@, 1)]
         \/ d = [kept EXCEPT !.manifest.packets[i].limit = @ + 1]
  PROVE  ~PlanStore!PlanVerifies(d, ClaimOf(s), n, s)
<1> DEFINE kept == PlanStore!Executed(s)
           p == PlanStore!Descriptor(s, i)
<1>1. /\ kept = [manifest |-> kept.manifest, records |-> kept.records, outputs |-> kept.outputs]
      /\ kept.manifest = [plan |-> PlanStore!Identity, identity |-> PlanStore!Identity,
                          count |-> Len(s), expanded |-> TRUE,
                          packets |-> [j \in 1..Len(s) |-> PlanStore!Descriptor(s, j)]]
  BY ExecutedIs
<1>2. /\ p = [ordinal |-> i, stage |-> p.stage, contract |-> p.contract, file |-> p.file,
              dependencies |-> p.dependencies, limit |-> p.limit]
      /\ i \in Nat /\ p.file \in Nat /\ p.dependencies \in Seq(Nat) /\ p.limit \in Nat
      /\ p.stage # "other" /\ p.contract # "other"
  BY DescriptorIs
<1>3. \/ d = [kept EXCEPT !.manifest.packets[i].ordinal = @ + 1]
      \/ d = [kept EXCEPT !.manifest.packets[i].stage = "other"]
      \/ d = [kept EXCEPT !.manifest.packets[i].contract = "other"]
      \/ d = [kept EXCEPT !.manifest.packets[i].file = @ + 1]
      \/ d = [kept EXCEPT !.manifest.packets[i].dependencies = Append(@, 1)]
      \/ d = [kept EXCEPT !.manifest.packets[i].limit = @ + 1]
  OBVIOUS
<1>4. kept.manifest.packets[i] = p /\ DOMAIN kept.manifest.packets = 1..Len(s)
  BY <1>1
<1> HIDE DEF kept, p
<1>5. ASSUME NEW q, q # p, d = [kept EXCEPT !.manifest.packets[i] = q]
      PROVE  ~PlanStore!PlanVerifies(d, ClaimOf(s), n, s)
  <2>1. d.manifest.packets = [kept.manifest.packets EXCEPT ![i] = q]
    BY <1>1, <1>5
  <2>2. DOMAIN d.manifest.packets = 1..Len(s) /\ d.manifest.packets[i] = q
    BY <1>4, <2>1
  <2>3. PlanStore!PlanVerifies(d, ClaimOf(s), n, s) => d.manifest.packets[i] = p
    BY <2>2, VerifiedSays DEF p
  <2> QED  BY <1>5, <2>2, <2>3
<1>6. \A q : [kept EXCEPT !.manifest.packets[i] = q]
              = [kept EXCEPT !.manifest = [kept.manifest EXCEPT !.packets =
                   [kept.manifest.packets EXCEPT ![i] = q]]]
  OBVIOUS
<1>7. \/ d = [kept EXCEPT !.manifest.packets[i] = [p EXCEPT !.ordinal = p.ordinal + 1]]
      \/ d = [kept EXCEPT !.manifest.packets[i] = [p EXCEPT !.stage = "other"]]
      \/ d = [kept EXCEPT !.manifest.packets[i] = [p EXCEPT !.contract = "other"]]
      \/ d = [kept EXCEPT !.manifest.packets[i] = [p EXCEPT !.file = p.file + 1]]
      \/ d = [kept EXCEPT !.manifest.packets[i] =
                [p EXCEPT !.dependencies = Append(p.dependencies, 1)]]
      \/ d = [kept EXCEPT !.manifest.packets[i] = [p EXCEPT !.limit = p.limit + 1]]
  BY <1>3, <1>4
<1>8. /\ [p EXCEPT !.ordinal = p.ordinal + 1] # p
      /\ [p EXCEPT !.stage = "other"] # p
      /\ [p EXCEPT !.contract = "other"] # p
      /\ [p EXCEPT !.file = p.file + 1] # p
      /\ [p EXCEPT !.limit = p.limit + 1] # p
  BY <1>2
<1>9. [p EXCEPT !.dependencies = Append(p.dependencies, 1)] # p
  <2>1. Len(Append(p.dependencies, 1)) = Len(p.dependencies) + 1 /\ Len(p.dependencies) \in Nat
    BY <1>2
  <2>2. Append(p.dependencies, 1) # p.dependencies
    BY <2>1
  <2> QED  BY <1>2, <2>2
<1> QED
  BY <1>5, <1>7, <1>8, <1>9

LEMMA StoreDamageIsRefused ==
  ASSUME NEW s \in Seq(PlanPackets), NEW n, Len(s) > 0, NEW d,
         LET kept == PlanStore!Executed(s)  last == Len(kept.records) IN
         \/ d = [kept EXCEPT !.records = SubSeq(@, 1, last - 1)]
         \/ d = [kept EXCEPT !.records = Append(@, kept.records[last])]
         \/ d = [kept EXCEPT !.manifest.expanded = FALSE]
         \/ d = [kept EXCEPT !.manifest.count = @ + 1]
         \/ d = [kept EXCEPT !.manifest.packets = SubSeq(@, 1, last - 1)]
         \/ d = [kept EXCEPT !.manifest.plan.intent = "other"]
         \/ d = [kept EXCEPT !.manifest.identity.recipe = "other"]
  PROVE  ~PlanStore!PlanVerifies(d, ClaimOf(s), n, s)
<1> DEFINE kept == PlanStore!Executed(s)
           m == kept.manifest
           r == kept.records
           last == Len(s)
<1>1. /\ kept = [manifest |-> m, records |-> r, outputs |-> kept.outputs]
      /\ m = [plan |-> PlanStore!Identity, identity |-> PlanStore!Identity,
              count |-> Len(s), expanded |-> TRUE,
              packets |-> [j \in 1..Len(s) |-> PlanStore!Descriptor(s, j)]]
      /\ r = [j \in 1..Len(s) |-> PlanStore!Record(s, j)]
  BY ExecutedIs
<1>2. last \in Nat /\ last - 1 \in Nat /\ last # last - 1 /\ last # last + 1
  OBVIOUS
<1>3. Len(r) = last /\ r \in Seq({PlanStore!Record(s, j) : j \in 1..Len(s)})
  BY <1>1, <1>2
<1>4. Len(m.packets) = last /\ m.packets \in Seq({PlanStore!Descriptor(s, j) : j \in 1..Len(s)})
  BY <1>1, <1>2
<1>5. \/ d = [kept EXCEPT !.records = SubSeq(r, 1, last - 1)]
      \/ d = [kept EXCEPT !.records = Append(r, r[last])]
      \/ d = [kept EXCEPT !.manifest = [m EXCEPT !.expanded = FALSE]]
      \/ d = [kept EXCEPT !.manifest = [m EXCEPT !.count = m.count + 1]]
      \/ d = [kept EXCEPT !.manifest = [m EXCEPT !.packets = SubSeq(m.packets, 1, last - 1)]]
      \/ d = [kept EXCEPT !.manifest = [m EXCEPT !.plan = [m.plan EXCEPT !.intent = "other"]]]
      \/ d = [kept EXCEPT !.manifest =
                [m EXCEPT !.identity = [m.identity EXCEPT !.recipe = "other"]]]
  BY <1>3
<1>6. /\ Len(SubSeq(r, 1, last - 1)) = last - 1 /\ Len(Append(r, r[last])) = last + 1
      /\ Len(SubSeq(m.packets, 1, last - 1)) = last - 1
  <2> DEFINE R == {PlanStore!Record(s, j) : j \in 1..Len(s)}
             D == {PlanStore!Descriptor(s, j) : j \in 1..Len(s)}
             q == m.packets
  <2>1. r \in Seq(R) /\ q \in Seq(D) /\ Len(r) = last /\ Len(q) = last /\ last \in Nat /\ last > 0
    BY <1>2, <1>3, <1>4
  <2> HIDE DEF R, D, q, r, last
  <2>2. r[last] \in R
    BY <2>1
  <2>3. Len(Append(r, r[last])) = last + 1
    BY <2>1, <2>2
  <2>4. Len(SubSeq(r, 1, last - 1)) = last - 1 /\ Len(SubSeq(q, 1, last - 1)) = last - 1
    BY <2>1, SubSeqProperties
  <2> QED  BY <2>3, <2>4 DEF q
<1>7. [m.plan EXCEPT !.intent = "other"] # PlanStore!Identity
      /\ [m.identity EXCEPT !.recipe = "other"] # PlanStore!Identity
  BY <1>1 DEF PlanStore!Identity
<1> SUFFICES ASSUME PlanStore!PlanVerifies(d, ClaimOf(s), n, s) PROVE FALSE
  OBVIOUS
<1>8. /\ d.manifest.plan = PlanStore!Identity /\ d.manifest.identity = PlanStore!Identity
      /\ d.manifest.expanded /\ d.manifest.count = last
      /\ Len(d.manifest.packets) = last /\ Len(d.records) = last
  BY VerifiedSays
<1>9. m = [plan |-> m.plan, identity |-> m.identity, count |-> last, expanded |-> m.expanded,
           packets |-> m.packets]
  BY <1>1
<1>10. kept = [manifest |-> m, records |-> r, outputs |-> kept.outputs]
  BY <1>1
<1> HIDE DEF m, r, kept
<1>11. CASE d = [kept EXCEPT !.records = SubSeq(r, 1, last - 1)]
  BY <1>2, <1>6, <1>8, <1>10, <1>11
<1>12. CASE d = [kept EXCEPT !.records = Append(r, r[last])]
  BY <1>2, <1>6, <1>8, <1>10, <1>12
<1>13. CASE d = [kept EXCEPT !.manifest = [m EXCEPT !.expanded = FALSE]]
  BY <1>8, <1>9, <1>10, <1>13
<1>14. CASE d = [kept EXCEPT !.manifest = [m EXCEPT !.count = m.count + 1]]
  BY <1>2, <1>8, <1>9, <1>10, <1>14
<1>15. CASE d = [kept EXCEPT !.manifest = [m EXCEPT !.packets = SubSeq(m.packets, 1, last - 1)]]
  BY <1>2, <1>6, <1>8, <1>9, <1>10, <1>15
<1>16. CASE d = [kept EXCEPT !.manifest = [m EXCEPT !.plan = [m.plan EXCEPT !.intent = "other"]]]
  BY <1>7, <1>8, <1>9, <1>10, <1>16
<1>17. CASE d = [kept EXCEPT !.manifest =
                  [m EXCEPT !.identity = [m.identity EXCEPT !.recipe = "other"]]]
  BY <1>7, <1>8, <1>9, <1>10, <1>17
<1> QED
  BY <1>5, <1>11, <1>12, <1>13, <1>14, <1>15, <1>16, <1>17

\* "A missing, malformed, reordered, wrong-model, oversized, noncanonical, or
\* tampered packet fails closed" (work-packets.md): the files of an executed plan
\* of more than one packet, whose rows are the schedule of its manifest, pass
\* verify_work_plan_evidence, and with one of them changed, lost or added they do
\* not.
THEOREM DamagedPlansAreRefused ==
  \A s \in Seq(PlanPackets) : \A n :
    Len(s) > 1 /\ Scheduled(s, n) => PlanStore!PlanDamageIsRefused(s, n)
<1> SUFFICES ASSUME NEW s \in Seq(PlanPackets), NEW n, Len(s) > 1, Scheduled(s, n)
             PROVE  PlanStore!PlanDamageIsRefused(s, n)
  OBVIOUS
<1> DEFINE kept == PlanStore!Executed(s)
           last == Len(kept.records)
<1> HIDE DEF kept
<1>1. PlanStore!PlanVerifies(kept, ClaimOf(s), n, s)
  BY ExecutedVerifies DEF kept
<1>2. last = Len(s)
  <2>1. kept.records = [i \in 1..Len(s) |-> PlanStore!Record(s, i)]
    BY ExecutedIs DEF kept
  <2>2. Len(s) \in Nat
    OBVIOUS
  <2> QED  BY <2>1, <2>2
<1>3. ASSUME NEW d \in PlanStore!DamagedPlans(kept)
      PROVE  ~PlanStore!PlanVerifies(d, ClaimOf(s), n, s)
  <2> DEFINE record(i) == {[kept EXCEPT !.records[i].ordinal = @ + 1],
                           [kept EXCEPT !.records[i].stage = "other"],
                           [kept EXCEPT !.records[i].contract = "other"],
                           [kept EXCEPT !.records[i].model = "other"],
                           [kept EXCEPT !.records[i].output = 0],
                           [kept EXCEPT !.outputs[i] = 0]}
             descriptor(i) == {[kept EXCEPT !.manifest.packets[i].ordinal = @ + 1],
                               [kept EXCEPT !.manifest.packets[i].stage = "other"],
                               [kept EXCEPT !.manifest.packets[i].contract = "other"],
                               [kept EXCEPT !.manifest.packets[i].file = @ + 1],
                               [kept EXCEPT !.manifest.packets[i].dependencies = Append(@, 1)],
                               [kept EXCEPT !.manifest.packets[i].limit = @ + 1]}
             whole == {[kept EXCEPT !.records = SubSeq(@, 1, last - 1)],
                       [kept EXCEPT !.records = Append(@, kept.records[last])],
                       [kept EXCEPT !.manifest.expanded = FALSE],
                       [kept EXCEPT !.manifest.count = @ + 1],
                       [kept EXCEPT !.manifest.packets = SubSeq(@, 1, last - 1)],
                       [kept EXCEPT !.manifest.plan.intent = "other"],
                       [kept EXCEPT !.manifest.identity.recipe = "other"]}
  <2>3. PlanStore!DamagedPlans(kept) = (UNION {record(i) \cup descriptor(i) : i \in 1..last}) \cup whole
    BY Zenon DEF PlanStore!DamagedPlans
  <2>4. (\E i \in 1..last : d \in record(i) \/ d \in descriptor(i)) \/ d \in whole
    <3> HIDE DEF record, descriptor, whole
    <3> QED  BY <1>3, <2>3, Zenon
  <2>5. ASSUME NEW i \in 1..last, d \in record(i)
        PROVE  ~PlanStore!PlanVerifies(d, ClaimOf(s), n, s)
    BY <1>2, <2>5, RecordDamageIsRefused DEF kept
  <2>6. ASSUME NEW i \in 1..last, d \in descriptor(i)
        PROVE  ~PlanStore!PlanVerifies(d, ClaimOf(s), n, s)
    BY <1>2, <2>6, DescriptorDamageIsRefused DEF kept
  <2>7. ASSUME d \in whole PROVE ~PlanStore!PlanVerifies(d, ClaimOf(s), n, s)
    <3>1. Len(s) > 0
      OBVIOUS
    <3> QED  BY <2>7, <3>1, StoreDamageIsRefused DEF kept
  <2> QED  BY <2>4, <2>5, <2>6, <2>7
<1> QED
  BY <1>1, <1>3 DEF PlanStore!PlanDamageIsRefused, ClaimOf, kept

\* The schedule of the plan is the one its evidence is read against.
LEMMA SameSchedule ==
  /\ \A n : Expansion!Schedule(n) = PlanStore!Schedule(n)
  /\ \A n : Expansion!ExpectedCount(n) = PlanStore!ExpectedCount(n)
  /\ \A s, f : Expansion!Row(s, f) = PlanStore!Row(s, f)
  /\ Expansion!Stages = PlanStore!Stages
BY Zenon DEF
     Expansion!BaseStages, PlanStore!BaseStages, Expansion!FileStages, PlanStore!FileStages,
     Expansion!GroupStages, PlanStore!GroupStages, Expansion!Stages, PlanStore!Stages,
     Expansion!Thirds, PlanStore!Thirds,
     Expansion!IntegrationGroupCount, PlanStore!IntegrationGroupCount,
     Expansion!ReductionToOneCount, PlanStore!ReductionToOneCount,
     Expansion!ExpectedCount, PlanStore!ExpectedCount, Expansion!Row, PlanStore!Row,
     Expansion!Repeated, PlanStore!Repeated, Expansion!PerFile, PlanStore!PerFile,
     Expansion!Schedule, PlanStore!Schedule

LEMMA SameExpectedCount ==
  \A n : Expanding!ExpectedCount(n) = PlanStore!ExpectedCount(n)
BY Zenon DEF Expanding!Thirds, PlanStore!Thirds,
     Expanding!IntegrationGroupCount, PlanStore!IntegrationGroupCount,
     Expanding!ReductionToOneCount, PlanStore!ReductionToOneCount,
     Expanding!ExpectedCount, PlanStore!ExpectedCount

LEMMA PlansHavePackets ==
  \A n \in Nat \ {0} : PlanStore!ExpectedCount(n) \in Nat /\ PlanStore!ExpectedCount(n) > 1
<1> SUFFICES ASSUME NEW n \in Nat \ {0}
             PROVE  Expanding!ExpectedCount(n) \in Nat /\ Expanding!ExpectedCount(n) > 1
  BY SameExpectedCount
<1>1. /\ Expanding!IntegrationGroupCount[n] \in Nat
      /\ Expanding!ReductionToOneCount[n] \in Nat
  BY PlanFilesAssumption, Expanding!CountsEnd
<1> QED
  BY <1>1 DEF Expanding!ExpectedCount

\* A finished plan is refused once damaged.
LEMMA FinishedPlansVerify ==
  ASSUME Expansion!TypeOK, Expansion!EvidenceVerifies, phase = "done"
  PROVE  PlanStore!PlanDamageIsRefused(packets, manifest)
<1>1. packets \in Seq(Expansion!Packets) /\ manifest \in Nat \ {0}
  BY PlanFilesAssumption DEF Expansion!TypeOK
<1>2. Expansion!Packets \subseteq PlanPackets
  BY PlanFilesAssumption, SameSchedule DEF Expansion!Packets, PlanPackets
<1>3. packets \in Seq(PlanPackets)
  BY <1>1, <1>2
<1>4. /\ Len(packets) = Expansion!ExpectedCount(manifest)
      /\ [i \in Expansion!Ids |-> Expansion!Row(packets[i].stage, packets[i].file)]
           = Expansion!Schedule(manifest)
  BY DEF Expansion!EvidenceVerifies
<1>5. \A i \in 1..Len(packets) :
        Expansion!Row(packets[i].stage, packets[i].file) = Expansion!Schedule(manifest)[i]
  <2>1. Expansion!Ids = 1..Len(packets)
    BY DEF Expansion!Ids
  <2> QED  BY <1>4, <2>1, Zenon
<1>6. Scheduled(packets, manifest)
  BY <1>4, <1>5, SameSchedule, Zenon DEF Scheduled
<1>7. Len(packets) > 1
  BY <1>1, <1>4, SameSchedule, PlansHavePackets
<1> QED
  BY <1>3, <1>6, <1>7, DamagedPlansAreRefused

\* An answer chosen as an input is one of them.
AnswerPart == Chosen("answer") => input.of \in AnswerInputs

LEMMA AnswerPartStays ==
  AnswerPart /\ [PlanNext]_<<part, input, vars, planVars, harness, fast>> => AnswerPart'
<1> SUFFICES ASSUME AnswerPart, [PlanNext]_<<part, input, vars, planVars, harness, fast>>,
                    part' = "answer", input' # NoInput
             PROVE  input'.of \in AnswerInputs
  BY DEF AnswerPart, Chosen, NoInput, AnswerInputs
<1>1. part = "answer"
  BY DEF PlanNext, Choose
<1>2. CASE UNCHANGED input
  BY <1>1, <1>2 DEF AnswerPart, Chosen
<1>3. CASE Choose("answer", AnswerInputs)
  BY <1>3 DEF Choose
<1> QED
  BY <1>1, <1>2, <1>3 DEF PlanNext, Choose

LEMMA AnswersAreTakenAgain ==
  \A stage : \A given \in PlanStore!Answers : PlanStore!StoredAnswersReverify(stage, given)
<1> SUFFICES ASSUME NEW stage, NEW given \in PlanStore!Answers,
                    PlanStore!TakesSecurely(stage, given)
             PROVE  /\ PlanStore!Takes(stage, PlanStore!Stored(stage, given))
                    /\ ~PlanStore!Stored(stage, given).secret
  BY DEF PlanStore!StoredAnswersReverify
<1>1. PlanStore!Takes(stage, PlanStore!Stored(stage, given))
  BY DEF PlanStore!TakesSecurely
<1>2. CASE stage \in PlanStore!ArtifactStages
  BY <1>2 DEF PlanStore!TakesSecurely, PlanStore!Stored
<1>3. CASE stage \notin PlanStore!ArtifactStages
  <2>1. PlanStore!Stored(stage, given) = [given EXCEPT !.secret = FALSE]
    BY <1>3 DEF PlanStore!Stored
  <2>2. "secret" \in DOMAIN given
    BY DEF PlanStore!Answers
  <2>3. [given EXCEPT !.secret = FALSE].secret = FALSE
    BY <2>2, Zenon
  <2> QED  BY <1>1, <2>1, <2>3, Zenon
<1> QED
  BY <1>1, <1>2, <1>3

\* For plans of any number of files: the packets of an expanded plan are those its
\* evidence is read against (validate_packet_schedule), in an order that never
\* misses a dependency, with every finding read and every prompt within its
\* context; the evidence of its execution verifies, and damaged does not
\* (verify_work_plan_evidence); what store_packet keeps of an answer is taken
\* again.
THEOREM PlansStaySound == PlanSpec => []PlansAreSound
<1>1. PlanInit => PlanPart /\ AnswerPart
  BY PlanPartStarts DEF PlanInit, AnswerPart, Chosen
<1>2. PlanPart /\ AnswerPart => PlansAreSound
  <2> SUFFICES ASSUME PlanPart, AnswerPart PROVE PlansAreSound
    OBVIOUS
  <2>1. part = "plan" /\ phase = "done" => PlanStore!PlanDamageIsRefused(packets, manifest)
    BY PlanPartHolds, FinishedPlansVerify
  <2>2. Chosen("answer") => PlanStore!StoredAnswersReverify(input.of.stage, input.of.answer)
    BY AnswersAreTakenAgain DEF AnswerPart, AnswerInputs
  <2> QED  BY PlanPartHolds, <2>1, <2>2 DEF PlansAreSound
<1> QED
  BY <1>1, <1>2, PlanPartStays, AnswerPartStays, PTL DEF PlanSpec

(***************************************************************************)
(* The evidence of a candidate.                                            *)
(*                                                                         *)
(* What the runner writes (Says, RepairSays, StoreSays) passes what the    *)
(* store checks; a change of one file contradicts what a store that        *)
(* verifies against the same final manifest has to say (Recorded).         *)
(***************************************************************************)
CandidateFiles(W, T) == [name : W, windows : BOOLEAN, content : T]

\* The names and the contents of the files of a candidate and of the controller.
Spelled(W, T) ==
  /\ {"Cargo.toml", "src/lib.rs"} \subseteq W
  /\ {<<"manifest">>, <<"harness">>, <<"compile_error!">>} \subseteq T
  /\ \A n \in Runner!RustNames : <<"manifest", n>> \in T
  /\ Runner!Damaged \notin T

\* What materialize_candidate takes, and the command that fails.
Candidate(W, T, bundle, fails) ==
  /\ bundle \in Seq(CandidateFiles(W, T)) /\ Runner!Materializes(bundle) /\ fails \in 0..3
  /\ Runner!Profile(bundle) = "json" /\ ~Runner!Parses(bundle) => fails = 1

LEMMA FileIs ==
  /\ \A n, c : Runner!File(n, c).name = n /\ Runner!File(n, c).content = c
  /\ \A W, T : \A n \in W, c \in T : Runner!File(n, c) \in CandidateFiles(W, T)
BY DEF Runner!File, CandidateFiles

LEMMA NamedFile ==
  ASSUME NEW W, NEW T, NEW f \in CandidateFiles(W, T)
  PROVE  [f EXCEPT !.windows = FALSE] = Runner!File(f.name, f.content)
<1>1. \A n, w, c, v : [[name |-> n, windows |-> w, content |-> c] EXCEPT !.windows = v]
                       = [name |-> n, windows |-> v, content |-> c]
  OBVIOUS
<1>2. PICK n, w, c : f = [name |-> n, windows |-> w, content |-> c]
  BY DEF CandidateFiles
<1> DEFINE changed(v) == [f EXCEPT !.windows = v]
           result(v) == [name |-> n, windows |-> v, content |-> c]
<1>3. \A v : changed(v) = result(v)
  BY <1>1, <1>2
<1>5. changed(FALSE) = result(FALSE)
  <2> HIDE DEF changed, result
  <2> QED  BY <1>3, Zenon
<1>4. f.name = n /\ f.content = c
  BY <1>2
<1> QED
  BY <1>4, <1>5 DEF Runner!File

LEMMA NormalIs ==
  ASSUME NEW W, NEW T, NEW bundle \in Seq(CandidateFiles(W, T))
  PROVE  /\ Runner!Normal(bundle) \in Seq(CandidateFiles(W, T))
         /\ Len(Runner!Normal(bundle)) = Len(bundle)
         /\ \A i \in 1..Len(bundle) :
              /\ Runner!Normal(bundle)[i] = Runner!File(bundle[i].name, bundle[i].content)
              /\ Runner!Normal(bundle)[i].name = bundle[i].name
              /\ Runner!Normal(bundle)[i].content = bundle[i].content
<1>1. DOMAIN bundle = 1..Len(bundle)
  OBVIOUS
<1>2. ASSUME NEW i \in 1..Len(bundle)
      PROVE  [bundle[i] EXCEPT !.windows = FALSE] = Runner!File(bundle[i].name, bundle[i].content)
  <2>1. bundle[i] \in CandidateFiles(W, T)
    OBVIOUS
  <2> QED  BY <2>1, NamedFile
<1>3. Runner!Normal(bundle) = [i \in 1..Len(bundle) |-> Runner!File(bundle[i].name, bundle[i].content)]
  BY <1>1, <1>2 DEF Runner!Normal
<1>4. \A i \in 1..Len(bundle) : bundle[i].name \in W /\ bundle[i].content \in T
  <2> SUFFICES ASSUME NEW i \in 1..Len(bundle)
               PROVE  bundle[i].name \in W /\ bundle[i].content \in T
    OBVIOUS
  <2>1. bundle[i] \in CandidateFiles(W, T)
    OBVIOUS
  <2> QED  BY <2>1 DEF CandidateFiles
<1>5. \A i \in 1..Len(bundle) : Runner!File(bundle[i].name, bundle[i].content) \in CandidateFiles(W, T)
  BY <1>4, FileIs
<1>6. Runner!Normal(bundle) \in Seq(CandidateFiles(W, T)) /\ Len(Runner!Normal(bundle)) = Len(bundle)
  <2>1. Len(bundle) \in Nat
    OBVIOUS
  <2>2. Runner!Normal(bundle) \in [1..Len(bundle) -> CandidateFiles(W, T)]
    BY <1>3, <1>5
  <2> QED  BY <2>1, <2>2
<1> QED
  BY <1>3, <1>6, FileIs

\* What is read of a candidate's files does not depend on how their paths are
\* spelled.
LEMMA SpellingIsForgotten ==
  ASSUME NEW W, NEW T, NEW bundle \in Seq(CandidateFiles(W, T))
  PROVE  LET own == Runner!Normal(bundle) IN
         /\ Runner!Names(own) = Runner!Names(bundle)
         /\ Runner!RustFiles(own) = Runner!RustFiles(bundle)
         /\ Runner!Profile(own) = Runner!Profile(bundle)
         /\ Runner!Parses(own) <=> Runner!Parses(bundle)
         /\ Runner!Harness(own) = Runner!Harness(bundle)
         /\ Runner!ValidFiles(bundle) => Runner!ValidFiles(own)
         /\ Runner!Bundle(own) = Runner!Bundle(bundle)
         /\ Runner!Expected(own) = Runner!Expected(bundle)
<1> DEFINE own == Runner!Normal(bundle)
<1>1. /\ own \in Seq(CandidateFiles(W, T)) /\ Len(own) = Len(bundle)
      /\ \A i \in 1..Len(bundle) :
           /\ own[i] = Runner!File(bundle[i].name, bundle[i].content)
           /\ own[i].name = bundle[i].name /\ own[i].content = bundle[i].content
  BY NormalIs
<1>2. Runner!Normal(own) = own
  <2>1. /\ Runner!Normal(own) \in Seq(CandidateFiles(W, T)) /\ Len(Runner!Normal(own)) = Len(own)
        /\ \A i \in 1..Len(own) : Runner!Normal(own)[i] = Runner!File(own[i].name, own[i].content)
    BY <1>1, NormalIs
  <2> HIDE DEF own
  <2>2. \A i \in 1..Len(own) : Runner!Normal(own)[i] = own[i]
    BY <1>1, <2>1
  <2> QED  BY <1>1, <2>1, <2>2, Expanding!SameSequence, PlanFilesAssumption
<1> HIDE DEF own
<1>3. DOMAIN own = 1..Len(bundle) /\ DOMAIN bundle = 1..Len(bundle)
  BY <1>1
<1>4. Runner!Names(own) = Runner!Names(bundle)
  BY <1>1, <1>3 DEF Runner!Names
<1>5. Runner!RustFiles(own) = Runner!RustFiles(bundle)
  BY <1>4 DEF Runner!RustFiles
<1>6. Runner!Profile(own) = Runner!Profile(bundle)
  BY <1>4, <1>5 DEF Runner!Profile
<1>7. Runner!Parses(own) <=> Runner!Parses(bundle)
  BY <1>1, <1>3 DEF Runner!Parses
<1>8. Runner!Harness(own) = Runner!Harness(bundle)
  BY <1>7 DEF Runner!Harness
<1>9. Runner!ValidFiles(bundle) => Runner!ValidFiles(own)
  <2>1. bundle # <<>> => own # <<>>
    BY <1>1
  <2> QED  BY <1>1, <1>3, <2>1 DEF Runner!ValidFiles
<1>10. Runner!Bundle(own) = Runner!Bundle(bundle)
  <2>1. Len(bundle) = 1 => own[1].content = bundle[1].content
    BY <1>1
  <2>2. Runner!Normal(bundle) = own
    BY DEF own
  <2> QED  BY <1>1, <1>2, <2>1, <2>2 DEF Runner!Bundle
<1>11. Runner!OneRustFile(own) = Runner!OneRustFile(bundle)
       /\ Runner!RustFile(own) = Runner!RustFile(bundle)
  BY <1>5 DEF Runner!OneRustFile, Runner!RustFile
<1>12. Runner!Expected(own) = Runner!Expected(bundle)
  BY <1>4, <1>6, <1>8, <1>11 DEF Runner!Expected
<1> QED
  BY <1>4, <1>5, <1>6, <1>7, <1>8, <1>9, <1>10, <1>12 DEF own

LEMMA PairIs ==
  \A a, b : <<a>> \o <<b>> = <<a, b>>
<1> SUFFICES ASSUME NEW a, NEW b PROVE <<a>> \o <<b>> = <<a, b>>
  OBVIOUS
<1>1. <<a>> \in Seq({a, b}) /\ <<b>> \in Seq({a, b}) /\ <<a, b>> \in Seq({a, b})
  OBVIOUS
<1>2. \A i \in 1..2 : (<<a>> \o <<b>>)[i] = <<a, b>>[i]
  BY <1>1
<1>3. Len(<<a>> \o <<b>>) = 2 /\ <<a>> \o <<b>> \in Seq({a, b})
  BY <1>1
<1> QED
  BY <1>1, <1>2, <1>3, Expanding!SameSequence, PlanFilesAssumption

\* The controller's files.
LEMMA AddedIs ==
  ASSUME NEW W, NEW T, NEW bundle \in Seq(CandidateFiles(W, T)), Spelled(W, T),
         Runner!Added(bundle) # Runner!NoTarget
  PROVE  /\ Runner!Added(bundle) \in Seq(CandidateFiles(W, T))
         /\ Runner!Added(bundle) = Runner!Expected(bundle)
         /\ \A i \in 1..Len(Runner!Added(bundle)) :
              Runner!Added(bundle)[i] =
                Runner!File(Runner!Added(bundle)[i].name, Runner!Added(bundle)[i].content)
<1> DEFINE one == <<Runner!File("Cargo.toml", <<"manifest">>)>>
           named == <<Runner!File("Cargo.toml", <<"manifest", Runner!RustFile(bundle)>>)>>
           two == <<Runner!File("Cargo.toml", <<"manifest">>),
                    Runner!File("src/lib.rs", Runner!Harness(bundle))>>
<1>1. /\ <<"manifest">> \in T
      /\ Runner!Harness(bundle) \in T
  BY DEF Spelled, Runner!Harness
<1>2. Runner!OneRustFile(bundle) => <<"manifest", Runner!RustFile(bundle)>> \in T
  <2>1. Runner!OneRustFile(bundle) => Runner!RustFile(bundle) \in Runner!RustNames
    BY Zenon DEF Runner!OneRustFile, Runner!RustFile
  <2> QED  BY <2>1 DEF Spelled
<1>3. /\ one \in Seq(CandidateFiles(W, T)) /\ two \in Seq(CandidateFiles(W, T))
      /\ Runner!OneRustFile(bundle) => named \in Seq(CandidateFiles(W, T))
  <2>1. /\ Runner!File("Cargo.toml", <<"manifest">>) \in CandidateFiles(W, T)
        /\ Runner!File("src/lib.rs", Runner!Harness(bundle)) \in CandidateFiles(W, T)
        /\ Runner!OneRustFile(bundle) =>
             Runner!File("Cargo.toml", <<"manifest", Runner!RustFile(bundle)>>) \in CandidateFiles(W, T)
    BY <1>1, <1>2, FileIs DEF Spelled
  <2> QED  BY <2>1
<1>4. \/ Runner!Added(bundle) = <<>> \/ Runner!Added(bundle) = one \/ Runner!Added(bundle) = two
      \/ Runner!OneRustFile(bundle) /\ Runner!Added(bundle) = named
  <2>1. CASE "Cargo.toml" \in Runner!Names(bundle)
    BY <2>1, Zenon DEF Runner!Added
  <2>2. CASE "Cargo.toml" \notin Runner!Names(bundle) /\ Runner!Profile(bundle) = "json"
    BY <2>2, Zenon DEF Runner!Added
  <2>3. CASE /\ "Cargo.toml" \notin Runner!Names(bundle) /\ Runner!Profile(bundle) # "json"
             /\ "src/main.rs" \in Runner!Names(bundle)
    BY <2>3, Zenon DEF Runner!Added
  <2>4. CASE /\ "Cargo.toml" \notin Runner!Names(bundle) /\ Runner!Profile(bundle) # "json"
             /\ "src/main.rs" \notin Runner!Names(bundle)
    BY <2>4, Zenon DEF Runner!Added
  <2> QED  BY <2>1, <2>2, <2>3, <2>4
<1>5. Runner!Added(bundle) = Runner!Expected(bundle)
  <2>1. \A a : <<a>> \o <<>> = <<a>>
    OBVIOUS
  <2>2. \A a, b : <<a>> \o <<b>> = <<a, b>>
    BY PairIs
  <2> QED  BY <2>1, <2>2, Zenon DEF Runner!Added, Runner!Expected
<1>6. ASSUME NEW s \in {one, two, named}, NEW i \in 1..Len(s)
      PROVE  s[i] = Runner!File(s[i].name, s[i].content)
  <2>1. \E n, c : s[i] = Runner!File(n, c)
    BY <1>6
  <2> QED  BY <2>1, FileIs
<1> HIDE DEF one, two, named
<1>7. <<>> \in Seq(CandidateFiles(W, T)) /\ \A i \in 1..Len(<<>>) : FALSE
  OBVIOUS
<1> QED
  BY <1>3, <1>4, <1>5, <1>6, <1>7

\* OnDisk, as the function it builds the files of one owner by.
Collects(f, a, owned) ==
  f = [i \in 0..Len(a.record.files) |->
         IF i = 0 THEN <<>>
         ELSE IF (a.record.files[i].owned <=> owned)
              THEN Append(f[i - 1], Runner!File(a.record.files[i].name, a.files[i]))
         ELSE f[i - 1]]

LEMMA OnDiskCollects ==
  ASSUME NEW a, NEW owned, NEW g, Collects(g, a, owned), Len(a.record.files) \in Nat
  PROVE  Runner!OnDisk(a, owned) = g[Len(a.record.files)]
<1> DEFINE n == Len(a.record.files)
           f == CHOOSE h : Collects(h, a, owned)
<1>1. Runner!OnDisk(a, owned) = f[n]
  BY Zenon DEF Runner!OnDisk, Collects
<1>2. Collects(f, a, owned)
  BY Zenon
<1> HIDE DEF f
<1>3. \A h : Collects(h, a, owned) =>
        /\ h[0] = <<>>
        /\ \A i \in 1..n : h[i] = IF (a.record.files[i].owned <=> owned)
                                  THEN Append(h[i - 1], Runner!File(a.record.files[i].name, a.files[i]))
                                  ELSE h[i - 1]
  <2> SUFFICES ASSUME NEW h, Collects(h, a, owned)
               PROVE  /\ h[0] = <<>>
                      /\ \A i \in 1..n :
                           h[i] = IF (a.record.files[i].owned <=> owned)
                                  THEN Append(h[i - 1], Runner!File(a.record.files[i].name, a.files[i]))
                                  ELSE h[i - 1]
    OBVIOUS
  <2> DEFINE value(i) == IF i = 0 THEN <<>>
                         ELSE IF (a.record.files[i].owned <=> owned)
                              THEN Append(h[i - 1], Runner!File(a.record.files[i].name, a.files[i]))
                         ELSE h[i - 1]
  <2>1. h = [i \in 0..n |-> value(i)]
    BY Zenon DEF Collects
  <2>2. \A i \in 0..n : h[i] = value(i)
    <3> HIDE DEF value
    <3> QED  BY <2>1
  <2>3. 0 \in 0..n /\ \A i \in 1..n : i \in 0..n /\ i # 0
    OBVIOUS
  <2> QED  BY <2>2, <2>3, Zenon
<1> DEFINE K == {k \in Nat : f[k] = g[k]}
<1>4. 0 \in K
  BY <1>2, <1>3
<1>5. ASSUME NEW k \in 0..n, k < n, k \in K PROVE k + 1 \in K
  <2>1. k + 1 \in 1..n /\ (k + 1) - 1 = k
    <3>1. n \in Nat /\ k \in 0..n /\ k < n
      BY <1>5
    <3> HIDE DEF n
    <3> QED  BY <3>1
  <2>2. f[k] = g[k]
    BY <1>5
  <2> DEFINE next(x) == IF (a.record.files[k + 1].owned <=> owned)
                        THEN Append(x, Runner!File(a.record.files[k + 1].name, a.files[k + 1]))
                        ELSE x
  <2>3. f[k + 1] = next(f[k])
    <3>3. f[k + 1] = IF (a.record.files[k + 1].owned <=> owned)
                     THEN Append(f[(k + 1) - 1], Runner!File(a.record.files[k + 1].name, a.files[k + 1]))
                     ELSE f[(k + 1) - 1]
      BY <1>2, <1>3, <2>1, Zenon
    <3>1. f[k + 1] = next(f[(k + 1) - 1])
      BY <3>3, Zenon
    <3>2. (k + 1) - 1 = k
      BY <2>1
    <3> HIDE DEF next
    <3> QED  BY <3>1, <3>2
  <2>4. g[k + 1] = next(g[k])
    <3>3. g[k + 1] = IF (a.record.files[k + 1].owned <=> owned)
                     THEN Append(g[(k + 1) - 1], Runner!File(a.record.files[k + 1].name, a.files[k + 1]))
                     ELSE g[(k + 1) - 1]
      BY <1>3, <2>1, Zenon
    <3>1. g[k + 1] = next(g[(k + 1) - 1])
      BY <3>3, Zenon
    <3>2. (k + 1) - 1 = k
      BY <2>1
    <3> HIDE DEF next
    <3> QED  BY <3>1, <3>2
  <2>5. f[k + 1] = g[k + 1]
    <3> HIDE DEF next
    <3> QED  BY <2>2, <2>3, <2>4
  <2> QED  BY <2>1, <2>5
<1>6. \A k \in 0..n : k \in K
  <2> HIDE DEF K
  <2> QED  BY <1>4, <1>5, Expanding!UpTo, PlanFilesAssumption
<1> QED
  BY <1>1, <1>6

\* The files of an attempt: the candidate's, then the controller's.
LEMMA OnDiskIs ==
  \A S, a : \A own, added \in Seq(S) :
    /\ Len(a.record.files) = Len(own) + Len(added)
    /\ \A i \in 1..Len(a.record.files) :
         /\ a.record.files[i].owned <=> i > Len(own)
         /\ Runner!File(a.record.files[i].name, a.files[i]) = (own \o added)[i]
    => Runner!OnDisk(a, FALSE) = own /\ Runner!OnDisk(a, TRUE) = added
<1> SUFFICES
      ASSUME NEW S, NEW a, NEW own \in Seq(S), NEW added \in Seq(S),
             /\ Len(a.record.files) = Len(own) + Len(added)
             /\ \A i \in 1..Len(a.record.files) :
                  /\ a.record.files[i].owned <=> i > Len(own)
                  /\ Runner!File(a.record.files[i].name, a.files[i]) = (own \o added)[i]
      PROVE  Runner!OnDisk(a, FALSE) = own /\ Runner!OnDisk(a, TRUE) = added
  BY Zenon
<1> DEFINE n == Len(own)
           r == a.record.files
           all == own \o added
           f == [i \in 0..Len(r) |-> IF i <= n THEN SubSeq(own, 1, i) ELSE own]
           g == [i \in 0..Len(r) |-> IF i <= n THEN <<>> ELSE SubSeq(added, 1, i - n)]
<1>1. n \in Nat /\ Len(added) \in Nat /\ Len(r) = n + Len(added) /\ Len(r) \in Nat
  OBVIOUS
<1>2. \A i \in 1..n : Append(SubSeq(own, 1, i - 1), own[i]) = SubSeq(own, 1, i)
  <2> SUFFICES ASSUME NEW i \in 1..n
               PROVE  Append(SubSeq(own, 1, i - 1), own[i]) = SubSeq(own, 1, i)
    OBVIOUS
  <2>1. SubSeq(own, 1, i) \in Seq(S) /\ Len(SubSeq(own, 1, i)) = i
        /\ SubSeq(own, 1, i - 1) \in Seq(S) /\ Len(SubSeq(own, 1, i - 1)) = i - 1 /\ own[i] \in S
    OBVIOUS
  <2>2. Append(SubSeq(own, 1, i - 1), own[i]) \in Seq(S)
        /\ Len(Append(SubSeq(own, 1, i - 1), own[i])) = i
    BY <2>1
  <2>3. \A j \in 1..i : Append(SubSeq(own, 1, i - 1), own[i])[j] = SubSeq(own, 1, i)[j]
    BY <2>1
  <2> QED  BY <2>1, <2>2, <2>3, Expanding!SameSequence, PlanFilesAssumption
<1>3. \A i \in 1..Len(added) : Append(SubSeq(added, 1, i - 1), added[i]) = SubSeq(added, 1, i)
  <2> SUFFICES ASSUME NEW i \in 1..Len(added)
               PROVE  Append(SubSeq(added, 1, i - 1), added[i]) = SubSeq(added, 1, i)
    OBVIOUS
  <2>1. SubSeq(added, 1, i) \in Seq(S) /\ Len(SubSeq(added, 1, i)) = i
        /\ SubSeq(added, 1, i - 1) \in Seq(S) /\ Len(SubSeq(added, 1, i - 1)) = i - 1 /\ added[i] \in S
    OBVIOUS
  <2>2. Append(SubSeq(added, 1, i - 1), added[i]) \in Seq(S)
        /\ Len(Append(SubSeq(added, 1, i - 1), added[i])) = i
    BY <2>1
  <2>3. \A j \in 1..i : Append(SubSeq(added, 1, i - 1), added[i])[j] = SubSeq(added, 1, i)[j]
    BY <2>1
  <2> QED  BY <2>1, <2>2, <2>3, Expanding!SameSequence, PlanFilesAssumption
<1>4. \A i \in 1..n : all[i] = own[i]
  OBVIOUS
<1>5. \A i \in 1..Len(added) : all[n + i] = added[i]
  OBVIOUS
<1>6. SubSeq(own, 1, 0) = <<>> /\ SubSeq(added, 1, 0) = <<>> /\ SubSeq(own, 1, n) = own
      /\ SubSeq(added, 1, Len(added)) = added
  OBVIOUS
<1> DEFINE file(i) == Runner!File(r[i].name, a.files[i])
<1>7. \A i \in 1..Len(r) : file(i) = all[i] /\ (r[i].owned <=> i > n)
  OBVIOUS
<1> HIDE DEF r, all, file, n
<1>8. Collects(f, a, FALSE)
  <2> DEFINE value(i) == IF i = 0 THEN <<>>
                         ELSE IF (r[i].owned <=> FALSE) THEN Append(f[i - 1], file(i)) ELSE f[i - 1]
  <2>1. ASSUME NEW i \in 0..Len(r) PROVE f[i] = value(i)
    <3>1. CASE i = 0
      BY <1>1, <1>6, <3>1
    <3>2. CASE i \in 1..n
      <4>1. f[i] = SubSeq(own, 1, i) /\ f[i - 1] = SubSeq(own, 1, i - 1)
        BY <1>1, <3>2
      <4>3. i \in 1..Len(r) /\ ~(i > n) /\ i # 0
        BY <1>1, <3>2
      <4>4. ~r[i].owned
        BY <1>7, <4>3
      <4>2. ~r[i].owned /\ file(i) = own[i] /\ i # 0
        BY <1>4, <1>7, <3>2, <4>3, <4>4, Zenon
      <4> HIDE DEF f
      <4> QED  BY <1>2, <3>2, <4>1, <4>2, Zenon
    <3>3. CASE i > n
      <4>3. i \in 1..Len(r) /\ i > n /\ i # 0
        BY <1>1, <3>3
      <4>1. f[i] = own /\ f[i - 1] = own
        <5>1. CASE i = n + 1
          BY <1>1, <1>6, <5>1
        <5>2. CASE i > n + 1
          BY <1>1, <3>3, <5>2
        <5> QED  BY <1>1, <3>3, <5>1, <5>2
      <4>2. r[i].owned /\ i # 0
        BY <1>7, <4>3, Zenon
      <4> HIDE DEF f
      <4> QED  BY <4>1, <4>2, Zenon
    <3>4. i = 0 \/ i \in 1..n \/ i > n
      BY <1>1
    <3> QED  BY <3>1, <3>2, <3>3, <3>4, Zenon
  <2>2. f = [i \in 0..Len(r) |-> f[i]]
    OBVIOUS
  <2>3. f = [i \in 0..Len(r) |-> value(i)]
    <3> HIDE DEF f, value
    <3> QED  BY <2>1, <2>2
  <2> HIDE DEF f
  <2> QED  BY <2>3, Zenon DEF Collects, r, file
<1>9. Collects(g, a, TRUE)
  <2> DEFINE value(i) == IF i = 0 THEN <<>>
                         ELSE IF (r[i].owned <=> TRUE) THEN Append(g[i - 1], file(i)) ELSE g[i - 1]
  <2>1. ASSUME NEW i \in 0..Len(r) PROVE g[i] = value(i)
    <3>1. CASE i = 0
      BY <1>1, <3>1
    <3>2. CASE i \in 1..n
      <4>1. g[i] = <<>> /\ g[i - 1] = <<>>
        BY <1>1, <3>2
      <4>3. i \in 1..Len(r) /\ ~(i > n) /\ i # 0
        BY <1>1, <3>2
      <4>2. ~r[i].owned /\ i # 0
        BY <1>7, <4>3
      <4> HIDE DEF g
      <4> QED  BY <4>1, <4>2, Zenon
    <3>3. CASE i > n
      <4>1. g[i] = SubSeq(added, 1, i - n)
        BY <1>1, <3>3
      <4>2. g[i - 1] = SubSeq(added, 1, (i - n) - 1)
        <5>1. CASE i = n + 1
          <6>1. i - 1 = n /\ (i - n) - 1 = 0 /\ n \in 0..Len(r) /\ n <= n
            BY <1>1, <5>1
          <6>2. g[n] = <<>>
            BY <6>1
          <6> HIDE DEF g
          <6> QED  BY <1>6, <6>1, <6>2
        <5>2. CASE i > n + 1
          BY <1>1, <3>3, <5>2
        <5> QED  BY <1>1, <3>3, <5>1, <5>2
      <4>3. i - n \in 1..Len(added) /\ i = n + (i - n)
        BY <1>1, <3>3
      <4>6. i \in 1..Len(r) /\ i > n /\ i # 0
        BY <1>1, <3>3
      <4>4. r[i].owned /\ i # 0
        BY <1>7, <4>6, Zenon
      <4>5. file(i) = added[i - n]
        <5>1. all[n + (i - n)] = added[i - n]
          BY <1>5, <4>3
        <5> QED  BY <1>7, <4>3, <4>6, <5>1
      <4> HIDE DEF g
      <4> QED  BY <1>3, <4>1, <4>2, <4>3, <4>4, <4>5, Zenon
    <3>4. i = 0 \/ i \in 1..n \/ i > n
      BY <1>1
    <3> QED  BY <3>1, <3>2, <3>3, <3>4, Zenon
  <2>2. g = [i \in 0..Len(r) |-> g[i]]
    OBVIOUS
  <2>3. g = [i \in 0..Len(r) |-> value(i)]
    <3> HIDE DEF g, value
    <3> QED  BY <2>1, <2>2
  <2> HIDE DEF g
  <2> QED  BY <2>3, Zenon DEF Collects, r, file
<1>10. f[Len(r)] = own
  <2>1. CASE Len(added) = 0
    BY <1>1, <1>6, <2>1
  <2>2. CASE Len(added) > 0
    BY <1>1, <2>2
  <2> QED  BY <1>1, <2>1, <2>2
<1>11. g[Len(r)] = added
  <2>1. CASE Len(added) = 0
    BY <1>1, <1>6, <2>1
  <2>2. CASE Len(added) > 0
    BY <1>1, <1>6, <2>2
  <2> QED  BY <1>1, <2>1, <2>2
<1> HIDE DEF f, g
<1> QED
  BY <1>1, <1>8, <1>9, <1>10, <1>11, OnDiskCollects DEF r, n

Runs(fails) == IF fails = 0 THEN 3 ELSE fails
Filed(bundle) == Runner!Normal(bundle) \o Runner!Added(bundle)

\* What an attempt says of the files w that were written and the n commands that ran.
Says(a, o, bundle, fails, w, n) ==
  /\ {"record", "files", "logs"} \subseteq DOMAIN a
  /\ {"attempt", "passed", "bundle", "files", "commands", "failure"} \subseteq DOMAIN a.record
  /\ a.record.attempt = o /\ a.record.bundle = Runner!Bundle(bundle)
  /\ a.record.passed <=> fails = 0
  /\ fails = 0 => a.record.failure = ""
  /\ fails # 0 => a.record.failure = "failed"
  /\ DOMAIN a.record.files = 1..Len(w) /\ Len(a.record.files) = Len(w)
  /\ \A i \in 1..Len(w) : a.record.files[i].name = w[i].name /\ a.record.files[i].hash = w[i].content
  /\ \A i \in 1..Len(w) : a.record.files[i].owned <=> i > Len(bundle)
  /\ DOMAIN a.files = 1..Len(w) /\ \A i \in 1..Len(w) : a.files[i] = w[i].content
  /\ a.record.commands \in Seq({a.record.commands[c] : c \in 1..n}) /\ Len(a.record.commands) = n
  /\ \A c \in 1..n : a.record.commands[c].name = Runner!Commands[c]
                     /\ a.record.commands[c].log = <<"log", c>>
  /\ \A c \in 1..n : a.record.commands[c].passed <=> c # fails
  /\ DOMAIN a.logs = 1..n /\ \A c \in 1..n : a.logs[c] = <<"log", c>>

LEMMA AttemptSays ==
  ASSUME NEW o, NEW bundle, NEW fails, Len(Filed(bundle)) \in Nat, Runs(fails) \in Nat
  PROVE  Says(Runner!Attempt(o, bundle, fails), o, bundle, fails, Filed(bundle), Runs(fails))
<1> DEFINE w == Filed(bundle)
           n == Runs(fails)
           shown == [i \in 1..Len(w) |->
                       [name |-> w[i].name, hash |-> w[i].content, owned |-> i > Len(bundle)]]
           ran == [c \in 1..n |->
                     [name |-> Runner!Commands[c], passed |-> c # fails, log |-> <<"log", c>>]]
           kept == [i \in 1..Len(w) |-> w[i].content]
           logged == [c \in 1..n |-> <<"log", c>>]
           said == IF fails = 0 THEN "" ELSE "failed"
           rec == [attempt |-> o, passed |-> fails = 0, bundle |-> Runner!Bundle(bundle),
                   files |-> shown, commands |-> ran, failure |-> said]
           a == Runner!Attempt(o, bundle, fails)
<1>1. Len(Runner!Commands) = 3
  BY DEF Runner!Commands
<1>2. (IF fails = 0 THEN Len(Runner!Commands) ELSE fails) = n
  BY <1>1 DEF Runs
<1>3. a = [record |-> rec, files |-> kept, logs |-> logged]
  BY <1>2, Zenon DEF Runner!Attempt, Filed
<1>4. /\ a.record = rec /\ a.files = kept /\ a.logs = logged
      /\ {"record", "files", "logs"} \subseteq DOMAIN a
  <2> HIDE DEF rec, kept, logged, a
  <2> QED  BY <1>3
<1>5. /\ rec.files = shown /\ rec.commands = ran /\ rec.attempt = o
      /\ rec.bundle = Runner!Bundle(bundle) /\ rec.failure = said
  <2> HIDE DEF shown, ran, said
  <2> QED  OBVIOUS
<1>6. rec.passed <=> fails = 0
  <2> HIDE DEF shown, ran, said
  <2> QED  OBVIOUS
<1>7. {"attempt", "passed", "bundle", "files", "commands", "failure"} \subseteq DOMAIN rec
  <2> HIDE DEF shown, ran, said
  <2> QED  OBVIOUS
<1>8. w = Filed(bundle) /\ n = Runs(fails) /\ Len(w) \in Nat /\ n \in Nat
  OBVIOUS
<1> HIDE DEF w, n
<1>9. /\ DOMAIN shown = 1..Len(w) /\ Len(shown) = Len(w)
      /\ \A i \in 1..Len(w) : shown[i].name = w[i].name /\ shown[i].hash = w[i].content
  BY <1>8
<1>10. \A i \in 1..Len(w) : shown[i].owned <=> i > Len(bundle)
  OBVIOUS
<1>11. DOMAIN kept = 1..Len(w) /\ \A i \in 1..Len(w) : kept[i] = w[i].content
  OBVIOUS
<1>12. /\ ran \in Seq({ran[c] : c \in 1..n}) /\ Len(ran) = n
       /\ \A c \in 1..n : ran[c].name = Runner!Commands[c] /\ ran[c].log = <<"log", c>>
  <2>1. \A c \in 1..n : ran[c].name = Runner!Commands[c] /\ ran[c].log = <<"log", c>>
    OBVIOUS
  <2>2. ran = [c \in 1..n |-> ran[c]]
    OBVIOUS
  <2> HIDE DEF ran
  <2>3. ran \in [1..n -> {ran[c] : c \in 1..n}]
    BY <2>2
  <2> QED  BY <1>8, <2>1, <2>3
<1>13. \A c \in 1..n : ran[c].passed <=> c # fails
  OBVIOUS
<1>14. DOMAIN logged = 1..n /\ \A c \in 1..n : logged[c] = <<"log", c>>
  OBVIOUS
<1>15. (fails = 0 => said = "") /\ (fails # 0 => said = "failed")
  OBVIOUS
<1> HIDE DEF shown, ran, kept, logged, said, rec, a
<1>16. /\ a.record.files = shown /\ a.record.commands = ran /\ a.record.attempt = o
       /\ a.record.bundle = Runner!Bundle(bundle) /\ a.record.failure = said
       /\ a.record.passed <=> fails = 0
  BY <1>4, <1>5, <1>6
<1>18. a.record.commands \in Seq({a.record.commands[c] : c \in 1..n})
  BY <1>12, <1>16
<1>17. Says(a, o, bundle, fails, w, n)
  BY <1>4, <1>7, <1>9, <1>10, <1>11, <1>12, <1>13, <1>14, <1>15, <1>16, <1>18, Zenon DEF Says
<1> QED
  BY <1>8, <1>17, Zenon DEF a

LEMMA WrittenIs ==
  ASSUME NEW W, NEW T, Spelled(W, T), NEW bundle \in Seq(CandidateFiles(W, T)),
         Runner!Materializes(bundle)
  PROVE  /\ Runner!Normal(bundle) \in Seq(CandidateFiles(W, T))
         /\ Len(Runner!Normal(bundle)) = Len(bundle)
         /\ Runner!Added(bundle) \in Seq(CandidateFiles(W, T))
         /\ Runner!Added(bundle) = Runner!Expected(Runner!Normal(bundle))
         /\ Filed(bundle) \in Seq(CandidateFiles(W, T))
         /\ Len(Filed(bundle)) = Len(bundle) + Len(Runner!Added(bundle))
         /\ \A i \in 1..Len(Filed(bundle)) :
              Filed(bundle)[i] = Runner!File(Filed(bundle)[i].name, Filed(bundle)[i].content)
<1> DEFINE own == Runner!Normal(bundle)  added == Runner!Added(bundle)
<1>1. /\ own \in Seq(CandidateFiles(W, T)) /\ Len(own) = Len(bundle)
      /\ \A i \in 1..Len(bundle) : own[i] = Runner!File(bundle[i].name, bundle[i].content)
      /\ \A i \in 1..Len(bundle) : own[i].name = bundle[i].name /\ own[i].content = bundle[i].content
  BY NormalIs
<1>2. /\ added \in Seq(CandidateFiles(W, T)) /\ added = Runner!Expected(bundle)
      /\ \A i \in 1..Len(added) : added[i] = Runner!File(added[i].name, added[i].content)
  <2>1. Runner!Added(bundle) # Runner!NoTarget
    BY DEF Runner!Materializes
  <2> QED  BY <2>1, AddedIs
<1>3. Runner!Expected(own) = Runner!Expected(bundle)
  BY SpellingIsForgotten
<1> HIDE DEF own, added
<1>4. own \o added \in Seq(CandidateFiles(W, T)) /\ Len(own \o added) = Len(own) + Len(added)
  BY <1>1, <1>2, Expanding!ConcatLength, PlanFilesAssumption
<1>5. \A i \in 1..Len(own) : own[i] = Runner!File(own[i].name, own[i].content)
  BY <1>1, Zenon
<1>6. \A i \in 1..Len(own \o added) :
        \/ i \in 1..Len(own) /\ (own \o added)[i] = own[i]
        \/ i - Len(own) \in 1..Len(added) /\ (own \o added)[i] = added[i - Len(own)]
  <2> SUFFICES ASSUME NEW i \in 1..Len(own \o added)
               PROVE  \/ i \in 1..Len(own) /\ (own \o added)[i] = own[i]
                      \/ i - Len(own) \in 1..Len(added) /\ (own \o added)[i] = added[i - Len(own)]
    OBVIOUS
  <2>1. own \in Seq(CandidateFiles(W, T)) /\ added \in Seq(CandidateFiles(W, T))
    BY <1>1, <1>2
  <2>2. i \in 1..(Len(own) + Len(added)) /\ Len(own) \in Nat /\ Len(added) \in Nat
    BY <1>4, <2>1
  <2>3. CASE i <= Len(own)
    BY <2>1, <2>2, <2>3
  <2>4. CASE i > Len(own)
    BY <2>1, <2>2, <2>4
  <2> QED  BY <2>2, <2>3, <2>4
<1>7. \A i \in 1..Len(own \o added) :
        (own \o added)[i] = Runner!File((own \o added)[i].name, (own \o added)[i].content)
  BY <1>2, <1>5, <1>6, Zenon
<1> QED
  BY <1>1, <1>2, <1>3, <1>4, <1>7 DEF Filed, own, added

\* verify_attempt of the store takes what verify_attempt of the runner wrote.
LEMMA AttemptVerifies ==
  ASSUME NEW W, NEW T, Spelled(W, T), NEW bundle, NEW fails, Candidate(W, T, bundle, fails),
         NEW o \in 1..Runner!MaxAttempts
  PROVE  Runner!AttemptHolds(Runner!Attempt(o, bundle, fails))
<1> DEFINE a == Runner!Attempt(o, bundle, fails)
           own == Runner!Normal(bundle)
           w == Filed(bundle)
           n == Runs(fails)
<1>1. /\ bundle \in Seq(CandidateFiles(W, T)) /\ Runner!Materializes(bundle) /\ fails \in 0..3
      /\ Runner!ValidFiles(bundle) /\ Runner!Profile(bundle) # "unsupported"
      /\ (Runner!Profile(bundle) = "json" /\ ~Runner!Parses(bundle)) => fails = 1
  BY DEF Candidate, Runner!Materializes
<1>2. /\ own \in Seq(CandidateFiles(W, T)) /\ Len(own) = Len(bundle)
      /\ Runner!Added(bundle) \in Seq(CandidateFiles(W, T))
      /\ Runner!Added(bundle) = Runner!Expected(own)
      /\ Len(w) = Len(own) + Len(Runner!Added(bundle)) /\ Len(w) \in Nat
      /\ \A i \in 1..Len(w) : w[i] = Runner!File(w[i].name, w[i].content)
  BY <1>1, WrittenIs
<1>3. w = own \o Runner!Added(bundle)
  BY DEF Filed
<1>9. /\ Len(Runner!Commands) = 3 /\ n \in 1..3 /\ (fails = 0 => n = 3) /\ (fails # 0 => n = fails)
  BY <1>1 DEF Runs, Runner!Commands
<1>4. Says(a, o, bundle, fails, w, n)
  BY <1>2, <1>9, AttemptSays
<1> HIDE DEF a, own, w, n
<1>5. /\ Len(a.record.files) = Len(w) /\ DOMAIN a.record.files = 1..Len(w)
      /\ \A i \in 1..Len(w) : a.record.files[i].name = w[i].name /\ a.record.files[i].hash = w[i].content
      /\ \A i \in 1..Len(w) : a.files[i] = w[i].content
      /\ \A i \in 1..Len(w) : a.record.files[i].owned <=> i > Len(bundle)
  BY <1>4, Zenon DEF Says
<1>6. /\ a.record.attempt = o /\ a.record.bundle = Runner!Bundle(bundle)
      /\ a.record.passed <=> fails = 0
      /\ fails = 0 => a.record.failure = ""
      /\ fails # 0 => a.record.failure = "failed"
  BY <1>4, Zenon DEF Says
<1>7. Runner!OnDisk(a, FALSE) = own /\ Runner!OnDisk(a, TRUE) = Runner!Added(bundle)
  <2>1. Len(a.record.files) = Len(own) + Len(Runner!Added(bundle))
    BY <1>2, <1>5
  <2>2. \A i \in 1..Len(a.record.files) :
          /\ a.record.files[i].owned <=> i > Len(own)
          /\ Runner!File(a.record.files[i].name, a.files[i]) = (own \o Runner!Added(bundle))[i]
    <3> SUFFICES ASSUME NEW i \in 1..Len(w)
                 PROVE  /\ a.record.files[i].owned <=> i > Len(own)
                        /\ Runner!File(a.record.files[i].name, a.files[i]) = w[i]
      BY <1>3, <1>5
    <3>1. a.record.files[i].owned <=> i > Len(own)
      BY <1>2, <1>5
    <3>2. Runner!File(a.record.files[i].name, a.files[i]) = w[i]
      BY <1>2, <1>5, Zenon
    <3> QED  BY <3>1, <3>2
  <2> QED  BY <1>2, <2>1, <2>2, OnDiskIs, Zenon
<1>8. /\ Runner!Profile(own) = Runner!Profile(bundle)
      /\ Runner!Parses(own) <=> Runner!Parses(bundle)
      /\ Runner!ValidFiles(own)
      /\ Runner!Bundle(own) = Runner!Bundle(bundle)
  BY <1>1, SpellingIsForgotten DEF own
<1>10. /\ Len(a.record.commands) = n
       /\ \A c \in 1..n : a.record.commands[c].name = Runner!Commands[c]
                          /\ a.record.commands[c].log = <<"log", c>>
       /\ \A c \in 1..n : a.record.commands[c].passed <=> c # fails
       /\ \A c \in 1..n : a.logs[c] = <<"log", c>>
  BY <1>4, Zenon DEF Says
<1>11. \A c \in 1..n : Runner!CommandHolds(a, c)
  BY <1>10 DEF Runner!CommandHolds
<1>12. a.record.attempt \in 1..Runner!MaxAttempts
  BY <1>6
<1>13. \A i \in DOMAIN a.record.files : a.files[i] = a.record.files[i].hash
  BY <1>5
<1>14. (a.record.passed /\ Runner!Profile(own) = "json") => Runner!Parses(own)
  <2>1. fails = 0 => ~(fails = 1)
    OBVIOUS
  <2> QED  BY <1>1, <1>6, <1>8, <2>1, Zenon
<1>15. Runner!OnDisk(a, TRUE) = Runner!Expected(own) /\ Runner!Bundle(own) = a.record.bundle
  BY <1>2, <1>6, <1>7, <1>8
<1>16. IF a.record.passed
       THEN n = Len(Runner!Commands) /\ a.record.failure = "" /\ \A c \in 1..n : a.record.commands[c].passed
       ELSE a.record.failure # "" /\ \A c \in 1..n : a.record.commands[c].passed <=> c < n
  <2>1. CASE fails = 0
    <3>1. n = Len(Runner!Commands) /\ \A c \in 1..n : c # fails
      BY <1>9, <2>1
    <3> QED  BY <1>6, <1>10, <2>1, <3>1, Zenon
  <2>2. CASE fails # 0
    <3>1. \A c \in 1..n : c # fails <=> c < n
      BY <1>9, <2>2
    <3> QED  BY <1>6, <1>10, <2>2, <3>1
  <2> QED  BY <2>1, <2>2
<1>17. n \in 1..Len(Runner!Commands)
  BY <1>9
<1>18. Runner!AttemptHolds(a)
  BY <1>1, <1>7, <1>8, <1>10, <1>11, <1>12, <1>13, <1>14, <1>15, <1>16, <1>17, Zenon DEF Runner!AttemptHolds
<1> QED
  BY <1>18 DEF a

LEMMA BundleIsWhole ==
  ASSUME NEW W, NEW T, Spelled(W, T), NEW bundle \in Seq(CandidateFiles(W, T)), bundle # <<>>
  PROVE  Runner!Bundle(bundle) # Runner!Damaged
<1>1. CASE Len(bundle) = 1
  <2>1. bundle[1] \in CandidateFiles(W, T)
    BY <1>1
  <2>2. bundle[1].content \in T
    BY <2>1 DEF CandidateFiles
  <2> QED  BY <1>1, <2>2 DEF Runner!Bundle, Spelled
<1>2. CASE Len(bundle) # 1
  <2>1. Len(Runner!Normal(bundle)) = Len(bundle)
    BY NormalIs
  <2>2. Len(Runner!Damaged) = 1
    BY DEF Runner!Damaged
  <2> QED  BY <1>2, <2>1, <2>2 DEF Runner!Bundle
<1> QED
  BY <1>1, <1>2

\* One file of an attempt that was changed: it does not hold, or its record is
\* another.
LEMMA AttemptDamageShows ==
  ASSUME NEW o \in Nat, NEW bundle, NEW fails, NEW w, NEW n \in 1..3, NEW at,
         Says(at, o, bundle, fails, w, n),
         \A i \in 1..Len(w) : w[i].content # Runner!Damaged,
         Runner!Bundle(bundle) # Runner!Damaged,
         NEW a \in Runner!DamagedAttempts(at),
         Runner!AttemptHolds(a), a.record = at.record
  PROVE  FALSE
<1>1. /\ {"record", "files", "logs"} \subseteq DOMAIN at
      /\ {"attempt", "passed", "bundle", "files", "commands", "failure"} \subseteq DOMAIN at.record
      /\ at.record.attempt = o /\ at.record.bundle = Runner!Bundle(bundle)
      /\ DOMAIN at.record.files = 1..Len(w)
      /\ \A i \in 1..Len(w) : at.record.files[i].hash = w[i].content
      /\ DOMAIN at.files = 1..Len(w)
      /\ at.record.commands \in Seq({at.record.commands[c] : c \in 1..n})
      /\ Len(at.record.commands) = n
      /\ \A c \in 1..n : at.record.commands[c].log = <<"log", c>>
      /\ DOMAIN at.logs = 1..n
  BY Zenon DEF Says
<1>2. /\ \A i \in DOMAIN a.record.files : a.files[i] = a.record.files[i].hash
      /\ \A c \in 1..Len(a.record.commands) : a.logs[c] = a.record.commands[c].log
  BY Zenon DEF Runner!AttemptHolds, Runner!CommandHolds
<1>3. ASSUME NEW i \in DOMAIN at.files, a = [at EXCEPT !.files[i] = Runner!Damaged]
      PROVE  FALSE
  <2>1. a.files[i] = Runner!Damaged
    BY <1>1, <1>3
  <2>2. a.files[i] = w[i].content /\ i \in 1..Len(w)
    BY <1>1, <1>2, <1>3, Zenon
  <2> QED  BY <2>1, <2>2
<1>4. ASSUME NEW c \in DOMAIN at.logs, a = [at EXCEPT !.logs[c] = Runner!Damaged]
      PROVE  FALSE
  <2>1. a.logs[c] = Runner!Damaged
    BY <1>1, <1>4
  <2>2. a.logs[c] = <<"log", c>>
    BY <1>1, <1>2, <1>4, Zenon
  <2>3. Len(<<"log", c>>) = 2 /\ Len(Runner!Damaged) = 1
    BY DEF Runner!Damaged
  <2> QED  BY <2>1, <2>2, <2>3
<1>5. CASE a = [at EXCEPT !.record.passed = ~@]
  <2> DEFINE changed(v) == [at EXCEPT !.record.passed = v]
  <2>1. \A v : changed(v).record.passed = v
    BY <1>1
  <2>2. a = changed(~at.record.passed)
    BY <1>5, Zenon
  <2>3. a.record.passed = ~at.record.passed
    <3> HIDE DEF changed
    <3> QED  BY <2>1, <2>2, Zenon
  <2> QED  BY <2>3, Zenon
<1>6. CASE a = [at EXCEPT !.record.attempt = @ + 1]
  <2>1. a.record.attempt = o + 1
    BY <1>1, <1>6
  <2> QED  BY <1>1, <2>1
<1>7. CASE a = [at EXCEPT !.record.bundle = Runner!Damaged]
  <2>1. a.record.bundle = Runner!Damaged
    BY <1>1, <1>7
  <2> QED  BY <1>1, <2>1
<1>8. CASE a = [at EXCEPT !.record.failure = IF @ = "" THEN "failed" ELSE ""]
  <2>1. a.record.failure = IF at.record.failure = "" THEN "failed" ELSE ""
    BY <1>1, <1>8
  <2> QED  BY <2>1
<1>9. CASE a = [at EXCEPT !.record.commands = SubSeq(@, 1, Len(@) - 1)]
  <2>1. a.record.commands = SubSeq(at.record.commands, 1, Len(at.record.commands) - 1)
    BY <1>1, <1>9
  <2>2. Len(SubSeq(at.record.commands, 1, Len(at.record.commands) - 1)) = n - 1
    BY <1>1
  <2> QED  BY <1>1, <2>1, <2>2
<1>10. \/ \E i \in DOMAIN at.files : a = [at EXCEPT !.files[i] = Runner!Damaged]
       \/ \E c \in DOMAIN at.logs : a = [at EXCEPT !.logs[c] = Runner!Damaged]
       \/ a = [at EXCEPT !.record.passed = ~@]
       \/ a = [at EXCEPT !.record.attempt = @ + 1]
       \/ a = [at EXCEPT !.record.bundle = Runner!Damaged]
       \/ a = [at EXCEPT !.record.failure = IF @ = "" THEN "failed" ELSE ""]
       \/ a = [at EXCEPT !.record.commands = SubSeq(@, 1, Len(@) - 1)]
  BY Zenon DEF Runner!DamagedAttempts
<1> QED
  BY <1>3, <1>4, <1>5, <1>6, <1>7, <1>8, <1>9, <1>10, Zenon

\* What a repair says.
RepairSays(r, o, source, bundle) ==
  /\ {"record", "files"} \subseteq DOMAIN r
  /\ {"after", "source", "repaired", "files"} \subseteq DOMAIN r.record
  /\ r.record.after = o /\ r.record.source = Runner!Bundle(source)
  /\ r.record.repaired = Runner!Bundle(bundle) /\ r.record.files = Runner!Normal(bundle)
  /\ DOMAIN r.files = 1..Len(bundle) /\ \A i \in 1..Len(bundle) : r.files[i] = bundle[i].content

LEMMA RepairIsSaid ==
  ASSUME NEW o, NEW source, NEW S, NEW bundle \in Seq(S)
  PROVE  RepairSays(Runner!Repair(o, source, bundle), o, source, bundle)
<1>1. DOMAIN bundle = 1..Len(bundle)
  OBVIOUS
<1> DEFINE own == Runner!Normal(bundle)
           before == Runner!Bundle(source)
           after == Runner!Bundle(bundle)
           contents == [i \in 1..Len(bundle) |-> bundle[i].content]
           r == Runner!Repair(o, source, bundle)
<1>2. r = [record |-> [after |-> o, source |-> before, repaired |-> after, files |-> own],
           files |-> contents]
  BY <1>1, Zenon DEF Runner!Repair
<1>3. DOMAIN contents = 1..Len(bundle) /\ \A i \in 1..Len(bundle) : contents[i] = bundle[i].content
  OBVIOUS
<1>4. /\ {"record", "files"} \subseteq DOMAIN r
      /\ {"after", "source", "repaired", "files"} \subseteq DOMAIN r.record
      /\ r.record.after = o /\ r.record.source = before
      /\ r.record.repaired = after /\ r.record.files = own /\ r.files = contents
  <2> HIDE DEF r, own, before, after, contents
  <2> QED  BY <1>2
<1> HIDE DEF r, contents
<1>5. RepairSays(r, o, source, bundle)
  BY <1>3, <1>4, Zenon DEF RepairSays
<1> QED
  BY <1>5 DEF r

LEMMA RepairVerifies ==
  ASSUME NEW W, NEW T, NEW bundle \in Seq(CandidateFiles(W, T)), Runner!ValidFiles(bundle),
         NEW source, Runner!Bundle(source) # Runner!Bundle(bundle),
         NEW o \in 1..(Runner!MaxAttempts - 1), NEW r, RepairSays(r, o, source, bundle)
  PROVE  Runner!RepairHolds(r)
<1> DEFINE own == Runner!Normal(bundle)
<1>1. /\ own \in Seq(CandidateFiles(W, T)) /\ Len(own) = Len(bundle)
      /\ \A i \in 1..Len(bundle) : own[i].content = bundle[i].content
  BY NormalIs
<1>2. Runner!ValidFiles(own) /\ Runner!Bundle(own) = Runner!Bundle(bundle)
  BY SpellingIsForgotten
<1> HIDE DEF own
<1>3. DOMAIN own = 1..Len(bundle)
  BY <1>1
<1>4. /\ r.record.after = o /\ r.record.source = Runner!Bundle(source)
      /\ r.record.repaired = Runner!Bundle(bundle) /\ r.record.files = own
      /\ \A i \in 1..Len(bundle) : r.files[i] = bundle[i].content
  BY Zenon DEF RepairSays, own
<1> QED
  BY <1>1, <1>2, <1>3, <1>4, Zenon DEF Runner!RepairHolds

LEMMA RepairDamageShows ==
  ASSUME NEW W, NEW T, Spelled(W, T), NEW bundle \in Seq(CandidateFiles(W, T)), NEW source,
         Runner!Bundle(source) # Runner!Damaged, Runner!Bundle(bundle) # Runner!Damaged,
         NEW o \in Nat, NEW at, RepairSays(at, o, source, bundle),
         NEW r \in Runner!DamagedRepairs(at), Runner!RepairHolds(r), r.record = at.record
  PROVE  FALSE
<1>1. /\ {"record", "files"} \subseteq DOMAIN at
      /\ {"after", "source", "repaired", "files"} \subseteq DOMAIN at.record
      /\ at.record.after = o /\ at.record.source = Runner!Bundle(source)
      /\ at.record.repaired = Runner!Bundle(bundle) /\ at.record.files = Runner!Normal(bundle)
      /\ DOMAIN at.files = 1..Len(bundle)
  BY Zenon DEF RepairSays
<1>2. ASSUME NEW i \in DOMAIN at.files, r = [at EXCEPT !.files[i] = Runner!Damaged]
      PROVE  FALSE
  <2>1. r.files[i] = Runner!Damaged
    BY <1>1, <1>2
  <2>2. Len(Runner!Normal(bundle)) = Len(bundle) /\ Runner!Normal(bundle) \in Seq(CandidateFiles(W, T))
        /\ Runner!Normal(bundle)[i].content = bundle[i].content
    BY <1>1, <1>2, NormalIs
  <2>3. i \in DOMAIN r.record.files
    BY <1>1, <1>2, <2>2
  <2>4. r.files[i] = r.record.files[i].content
    BY <2>3, Zenon DEF Runner!RepairHolds
  <2>5. bundle[i] \in CandidateFiles(W, T)
    BY <1>1, <1>2
  <2>6. bundle[i].content \in T
    BY <2>5 DEF CandidateFiles
  <2> QED  BY <1>1, <2>1, <2>2, <2>4, <2>6 DEF Spelled
<1>3. CASE r = [at EXCEPT !.record.after = @ + 1]
  <2>1. r.record.after = o + 1
    BY <1>1, <1>3
  <2> QED  BY <1>1, <2>1
<1>4. CASE r = [at EXCEPT !.record.source = Runner!Damaged]
  <2>1. r.record.source = Runner!Damaged
    BY <1>1, <1>4
  <2> QED  BY <1>1, <2>1
<1>5. CASE r = [at EXCEPT !.record.repaired = Runner!Damaged]
  <2>1. r.record.repaired = Runner!Damaged
    BY <1>1, <1>5
  <2> QED  BY <1>1, <2>1
<1> QED
  BY <1>2, <1>3, <1>4, <1>5, Zenon DEF Runner!DamagedRepairs

\* A chain of candidates, each but the last of which fails and is repaired by
\* another.
Chained(W, T, candidates, failed) ==
  /\ Len(candidates) \in 1..Runner!MaxAttempts
  /\ \A o \in 1..Len(candidates) : Candidate(W, T, candidates[o], failed[o])
  /\ \A o \in 1..(Len(candidates) - 1) :
       failed[o] # 0 /\ Runner!Bundle(candidates[o]) # Runner!Bundle(candidates[o + 1])

\* What the runner keeps of a chain of n candidates.
StoreSays(store, candidates, failed, n) ==
  /\ {"attempts", "repairs", "final"} \subseteq DOMAIN store
  /\ store.attempts \in Seq({store.attempts[o] : o \in 1..(n + 1)}) /\ Len(store.attempts) = n + 1
  /\ \A o \in 1..n : store.attempts[o] = Runner!Attempt(o, candidates[o], failed[o])
  /\ store.attempts[n + 1] = <<>>
  /\ DOMAIN store.repairs = 1..n
  /\ \A o \in 1..(n - 1) : store.repairs[o] = Runner!Repair(o, candidates[o], candidates[o + 1])
  /\ store.repairs[n] = <<>>
  /\ {"attempts", "repairs", "bundle", "history", "attempt"} \subseteq DOMAIN store.final
  /\ store.final.attempts = n /\ store.final.repairs = n - 1
  /\ store.final.bundle = store.attempts[n].record.bundle
  /\ store.final.attempt = store.attempts[n].record
  /\ store.final.history = Runner!History(store, n)

LEMMA StoreIsSaid ==
  ASSUME NEW candidates, NEW failed, Len(candidates) \in Nat \ {0}
  PROVE  StoreSays(Runner!StoreOf(candidates, failed), candidates, failed, Len(candidates))
<1> DEFINE n == Len(candidates)
           made(o) == IF o > n THEN <<>> ELSE Runner!Attempt(o, candidates[o], failed[o])
           mended(o) == IF o = n THEN <<>>
                        ELSE Runner!Repair(o, candidates[o], candidates[o + 1])
           A == [o \in 1..(n + 1) |-> made(o)]
           R == [o \in 1..n |-> mended(o)]
           without == [attempts |-> A, repairs |-> R]
           F == Runner!Final(without, n)
           store == Runner!StoreOf(candidates, failed)
<1>1. store = [attempts |-> without.attempts, repairs |-> without.repairs, final |-> F]
  BY Zenon DEF Runner!StoreOf
<1>2. without.attempts = A /\ without.repairs = R
  <2> HIDE DEF A, R
  <2> QED  OBVIOUS
<1>3. /\ store.attempts = A /\ store.repairs = R /\ store.final = F
      /\ {"attempts", "repairs", "final"} \subseteq DOMAIN store
  <2> HIDE DEF store, without, A, R, F
  <2> QED  BY <1>1, <1>2
<1>4. F = [attempts |-> n, repairs |-> n - 1, bundle |-> A[n].record.bundle,
           history |-> Runner!History(without, n), attempt |-> A[n].record]
  <2> HIDE DEF A, R, n
  <2> QED  BY <1>2, Zenon DEF Runner!Final
<1>5. Runner!History(without, n) = Runner!History(store, n)
  <2> HIDE DEF store, without, A, R, F, n
  <2> QED  BY <1>2, <1>3, Zenon DEF Runner!History
<1>6. n \in Nat \ {0}
  OBVIOUS
<1> HIDE DEF n
<1>7. /\ A \in Seq({A[o] : o \in 1..(n + 1)}) /\ Len(A) = n + 1 /\ A[n + 1] = <<>>
      /\ \A o \in 1..n : A[o] = Runner!Attempt(o, candidates[o], failed[o])
  <2>1. \A o \in 1..(n + 1) : A[o] = made(o)
    <3> HIDE DEF made
    <3> QED  OBVIOUS
  <2>2. n + 1 \in 1..(n + 1) /\ n + 1 > n /\ \A o \in 1..n : o \in 1..(n + 1) /\ ~(o > n)
    BY <1>6
  <2>3. A \in Seq({A[o] : o \in 1..(n + 1)}) /\ Len(A) = n + 1
    <3> HIDE DEF made
    <3>1. A = [o \in 1..(n + 1) |-> A[o]] /\ n + 1 \in Nat /\ Len(A) = n + 1
      BY <1>6
    <3> HIDE DEF A
    <3>2. A \in [1..(n + 1) -> {A[o] : o \in 1..(n + 1)}]
      BY <3>1
    <3> QED  BY <3>1, <3>2
  <2> HIDE DEF A
  <2> QED  BY <2>1, <2>2, <2>3, Zenon
<1>8. /\ DOMAIN R = 1..n /\ R[n] = <<>>
      /\ \A o \in 1..(n - 1) : R[o] = Runner!Repair(o, candidates[o], candidates[o + 1])
  <2>1. \A o \in 1..n : R[o] = mended(o)
    <3> HIDE DEF mended
    <3> QED  OBVIOUS
  <2>2. n \in 1..n /\ \A o \in 1..(n - 1) : o \in 1..n /\ o # n
    BY <1>6
  <2>3. DOMAIN R = 1..n
    <3> HIDE DEF mended
    <3> QED  OBVIOUS
  <2> HIDE DEF R
  <2> QED  BY <2>1, <2>2, <2>3, Zenon
<1> HIDE DEF A, R, without, store
<1>9. /\ {"attempts", "repairs", "bundle", "history", "attempt"} \subseteq DOMAIN F
      /\ F.attempts = n /\ F.repairs = n - 1 /\ F.bundle = A[n].record.bundle
      /\ F.attempt = A[n].record /\ F.history = Runner!History(without, n)
  <2> HIDE DEF F
  <2> QED  BY <1>4
<1> HIDE DEF F
<1>10. store.attempts \in Seq({store.attempts[o] : o \in 1..(n + 1)})
  BY <1>3, <1>7
<1>11. StoreSays(store, candidates, failed, n)
  BY <1>3, <1>5, <1>7, <1>8, <1>9, <1>10, Zenon DEF StoreSays
<1> QED
  BY <1>11 DEF store, n

\* What is known of each record of the store of a chain.
LEMMA ChainSays ==
  ASSUME NEW W, NEW T, Spelled(W, T), NEW candidates, NEW failed, Chained(W, T, candidates, failed),
         NEW store, NEW n, StoreSays(store, candidates, failed, n), Len(candidates) = n
  PROVE  /\ n \in 1..Runner!MaxAttempts
         /\ \A o \in 1..n :
              /\ candidates[o] \in Seq(CandidateFiles(W, T)) /\ failed[o] \in 0..3
              /\ Runner!ValidFiles(candidates[o]) /\ Runner!Materializes(candidates[o])
              /\ Runner!Bundle(candidates[o]) # Runner!Damaged
              /\ Runner!AttemptHolds(store.attempts[o]) /\ store.attempts[o] # <<>>
              /\ Runs(failed[o]) \in 1..3
              /\ Says(store.attempts[o], o, candidates[o], failed[o], Filed(candidates[o]),
                      Runs(failed[o]))
         /\ \A o \in 1..(n - 1) :
              /\ RepairSays(store.repairs[o], o, candidates[o], candidates[o + 1])
              /\ Runner!RepairHolds(store.repairs[o]) /\ store.repairs[o] # <<>>
<1>1. n \in 1..Runner!MaxAttempts /\ n \in Nat /\ Runner!MaxAttempts = 32
  <2>1. n \in 1..Runner!MaxAttempts
    BY Zenon DEF Chained
  <2>2. Runner!MaxAttempts = 32
    BY DEF Runner!MaxAttempts
  <2>3. \A k : k \in 1..32 => k \in Nat
    OBVIOUS
  <2> QED  BY <2>1, <2>2, <2>3, Zenon
<1>2. /\ \A a : {"record", "files"} \subseteq DOMAIN a => a # <<>>
      /\ \A a : {"record", "files", "logs"} \subseteq DOMAIN a => a # <<>>
  OBVIOUS
<1>3. ASSUME NEW o \in 1..n
      PROVE  /\ candidates[o] \in Seq(CandidateFiles(W, T)) /\ failed[o] \in 0..3
             /\ Runner!ValidFiles(candidates[o]) /\ Runner!Materializes(candidates[o])
             /\ Runner!Bundle(candidates[o]) # Runner!Damaged
             /\ Runner!AttemptHolds(store.attempts[o]) /\ store.attempts[o] # <<>>
             /\ Runs(failed[o]) \in 1..3
             /\ Says(store.attempts[o], o, candidates[o], failed[o], Filed(candidates[o]),
                     Runs(failed[o]))
  <2>1. Candidate(W, T, candidates[o], failed[o])
    BY Zenon DEF Chained
  <2>2. /\ candidates[o] \in Seq(CandidateFiles(W, T)) /\ failed[o] \in 0..3
        /\ Runner!ValidFiles(candidates[o]) /\ Runner!Materializes(candidates[o])
    BY <2>1, Zenon DEF Candidate, Runner!Materializes
  <2>3. Runner!Bundle(candidates[o]) # Runner!Damaged
    <3>1. candidates[o] # <<>>
      BY <2>2, Zenon DEF Runner!ValidFiles
    <3> QED  BY <2>2, <3>1, BundleIsWhole
  <2>4. store.attempts[o] = Runner!Attempt(o, candidates[o], failed[o])
    BY Zenon DEF StoreSays
  <2>5. o \in 1..Runner!MaxAttempts
    <3>1. \A k, m : m \in Nat /\ m \in 1..32 /\ k \in 1..m => k \in 1..32
      OBVIOUS
    <3> QED  BY <1>1, <3>1, Zenon
  <2>6. Runner!AttemptHolds(store.attempts[o])
    BY <2>1, <2>4, <2>5, AttemptVerifies
  <2>7. Runs(failed[o]) \in 1..3 /\ Runs(failed[o]) \in Nat
    BY <2>2 DEF Runs
  <2>8. Len(Filed(candidates[o])) \in Nat
    <3>1. Filed(candidates[o]) \in Seq(CandidateFiles(W, T))
      BY <2>2, WrittenIs
    <3> QED  BY <3>1
  <2>9. Says(store.attempts[o], o, candidates[o], failed[o], Filed(candidates[o]), Runs(failed[o]))
    BY <2>4, <2>7, <2>8, AttemptSays
  <2>10. store.attempts[o] # <<>>
    <3>1. {"record", "files", "logs"} \subseteq DOMAIN store.attempts[o]
      BY <2>9, Zenon DEF Says
    <3> QED  BY <1>2, <3>1, Zenon
  <2> QED  BY <2>2, <2>3, <2>6, <2>7, <2>9, <2>10
<1>4. ASSUME NEW o \in 1..(n - 1)
      PROVE  /\ RepairSays(store.repairs[o], o, candidates[o], candidates[o + 1])
             /\ Runner!RepairHolds(store.repairs[o]) /\ store.repairs[o] # <<>>
  <2>1. o \in 1..n /\ o + 1 \in 1..n /\ o \in 1..(Runner!MaxAttempts - 1)
    <3>1. \A k, m : m \in Nat /\ m \in 1..32 /\ k \in 1..(m - 1) =>
                      k \in 1..m /\ k + 1 \in 1..m /\ k \in 1..(32 - 1)
      OBVIOUS
    <3> QED  BY <1>1, <3>1, Zenon
  <2>2. candidates[o + 1] \in Seq(CandidateFiles(W, T)) /\ Runner!ValidFiles(candidates[o + 1])
    BY <1>3, <2>1
  <2>3. Runner!Bundle(candidates[o]) # Runner!Bundle(candidates[o + 1])
    BY Zenon DEF Chained
  <2>4. store.repairs[o] = Runner!Repair(o, candidates[o], candidates[o + 1])
    BY Zenon DEF StoreSays
  <2>5. RepairSays(store.repairs[o], o, candidates[o], candidates[o + 1])
    BY <2>2, <2>4, RepairIsSaid
  <2>6. Runner!RepairHolds(store.repairs[o])
    BY <2>1, <2>2, <2>3, <2>5, RepairVerifies
  <2>7. {"record", "files"} \subseteq DOMAIN store.repairs[o]
    BY <2>5, Zenon DEF RepairSays
  <2> QED  BY <1>2, <2>5, <2>6, <2>7, Zenon
<1> QED
  BY <1>1, <1>3, <1>4

LEMMA BeforeLast ==
  \A n, o : n \in Nat /\ n \in 1..32 /\ o \in 1..n => o = n \/ o \in 1..(n - 1)
OBVIOUS

\* The evidence of a chain that ends in a pass verifies.
LEMMA ChainVerifies ==
  ASSUME NEW W, NEW T, Spelled(W, T), NEW candidates, NEW failed, Chained(W, T, candidates, failed),
         NEW store, NEW n, StoreSays(store, candidates, failed, n), Len(candidates) = n,
         failed[n] = 0
  PROVE  Runner!Verifies(store, [final |-> store.final, bundle |-> store.final.bundle])
<1>1. /\ n \in 1..Runner!MaxAttempts
      /\ \A o \in 1..n :
           /\ Runner!AttemptHolds(store.attempts[o]) /\ store.attempts[o] # <<>>
           /\ Says(store.attempts[o], o, candidates[o], failed[o], Filed(candidates[o]),
                   Runs(failed[o]))
      /\ \A o \in 1..(n - 1) :
           /\ RepairSays(store.repairs[o], o, candidates[o], candidates[o + 1])
           /\ Runner!RepairHolds(store.repairs[o]) /\ store.repairs[o] # <<>>
  BY ChainSays, Zenon
<1>2. Runner!MaxAttempts = 32 /\ \A k \in 1..32 : k \in Nat
  BY DEF Runner!MaxAttempts
<1>3. n \in Nat /\ n \in 1..32
  BY <1>1, <1>2, Zenon
<1>4. \A o \in 1..n : /\ store.attempts[o].record.attempt = o
                      /\ store.attempts[o].record.bundle = Runner!Bundle(candidates[o])
                      /\ store.attempts[o].record.passed <=> failed[o] = 0
  BY <1>1, Zenon DEF Says
<1>5. \A o \in 1..n : store.attempts[o].record.passed <=> o = n
  <2> SUFFICES ASSUME NEW o \in 1..n PROVE failed[o] = 0 <=> o = n
    BY <1>4, Zenon
  <2>1. o = n \/ o \in 1..(n - 1)
    BY <1>3, BeforeLast, Zenon
  <2>2. o \in 1..(n - 1) => failed[o] # 0
    BY Zenon DEF Chained
  <2>3. o \in 1..(n - 1) => o # n
    <3>1. \A k, m : m \in Nat /\ k \in 1..(m - 1) => k # m
      OBVIOUS
    <3> QED  BY <1>3, <3>1, Zenon
  <2> QED  BY <2>1, <2>2, <2>3, Zenon
<1>6. \A o \in 1..(n - 1) :
        /\ store.repairs[o].record.after = o
        /\ store.repairs[o].record.source = store.attempts[o].record.bundle
        /\ store.repairs[o].record.repaired = store.attempts[o + 1].record.bundle
  <2> SUFFICES ASSUME NEW o \in 1..(n - 1)
               PROVE  /\ store.repairs[o].record.after = o
                      /\ store.repairs[o].record.source = store.attempts[o].record.bundle
                      /\ store.repairs[o].record.repaired = store.attempts[o + 1].record.bundle
    BY Zenon
  <2>1. o \in 1..n /\ o + 1 \in 1..n
    <3>1. \A k, m : m \in Nat /\ k \in 1..(m - 1) => k \in 1..m /\ k + 1 \in 1..m
      OBVIOUS
    <3> QED  BY <1>3, <3>1, Zenon
  <2>2. /\ store.repairs[o].record.after = o
        /\ store.repairs[o].record.source = Runner!Bundle(candidates[o])
        /\ store.repairs[o].record.repaired = Runner!Bundle(candidates[o + 1])
    BY <1>1, Zenon DEF RepairSays
  <2> QED  BY <1>4, <2>1, <2>2, Zenon
<1>7. /\ Len(store.attempts) = n + 1 /\ store.attempts[n + 1] = <<>> /\ store.repairs[n] = <<>>
      /\ store.final.attempts = n /\ store.final.repairs = n - 1
      /\ store.final.bundle = store.attempts[n].record.bundle
      /\ store.final.attempt = store.attempts[n].record
      /\ store.final.history = Runner!History(store, n)
      /\ {"attempts", "repairs", "bundle", "history", "attempt"} \subseteq DOMAIN store.final
  BY Zenon DEF StoreSays
<1>8. Runner!ChainHolds(store, n)
  <2>1. n \in 1..Len(store.attempts)
    <3>1. \A m \in Nat : m \in 1..32 => m \in 1..(m + 1)
      OBVIOUS
    <3> QED  BY <1>3, <1>7, <3>1, Zenon
  <2> QED  BY <1>1, <1>4, <1>5, <1>6, <1>7, <2>1, Zenon DEF Runner!ChainHolds
<1>9. store.final # <<>>
  <2>1. \A f : {"attempts", "repairs", "bundle", "history", "attempt"} \subseteq DOMAIN f => f # <<>>
    OBVIOUS
  <2> QED  BY <1>7, <2>1, Zenon
<1> DEFINE claim == [final |-> store.final, bundle |-> store.final.bundle]
<1>10. claim.final = store.final /\ claim.bundle = store.final.bundle
  OBVIOUS
<1> HIDE DEF claim
<1>11. Runner!Verifies(store, claim)
  BY <1>7, <1>8, <1>9, <1>10, Zenon DEF Runner!Verifies
<1> QED
  BY <1>11 DEF claim

\* What a store says that verifies against the final manifest of another.
Recorded(d, store, n) ==
  /\ d.final = store.final /\ d.final # <<>> /\ d.repairs[n] = <<>>
  /\ n < Len(d.attempts) => d.attempts[n + 1] = <<>>
  /\ \A o \in 1..n : /\ d.attempts[o] # <<>> /\ Runner!AttemptHolds(d.attempts[o])
                     /\ d.attempts[o].record = store.attempts[o].record
  /\ \A o \in 1..(n - 1) : /\ d.repairs[o] # <<>> /\ Runner!RepairHolds(d.repairs[o])
                           /\ d.repairs[o].record = store.repairs[o].record

LEMMA VerifiedChain ==
  ASSUME NEW store, NEW n, NEW d, NEW claim, store.final.attempts = n,
         store.final.history = Runner!History(store, n), claim.final = store.final,
         Runner!Verifies(d, claim)
  PROVE  Recorded(d, store, n)
<1>3. d.final = store.final /\ d.final # <<>> /\ Runner!ChainHolds(d, n)
      /\ d.final.history = Runner!History(d, n)
  BY Zenon DEF Runner!Verifies
<1>4. Runner!History(d, n) = Runner!History(store, n)
  BY <1>3, Zenon
<1>5. /\ [o \in 1..n |-> d.attempts[o].record] = [o \in 1..n |-> store.attempts[o].record]
      /\ [o \in 1..(n - 1) |-> d.repairs[o].record] = [o \in 1..(n - 1) |-> store.repairs[o].record]
  <2>1. \A a, b, x, y : <<a, b>> = <<x, y>> => a = x /\ b = y
    OBVIOUS
  <2> QED  BY <1>4, <2>1, Zenon DEF Runner!History
<1>6. /\ \A o \in 1..n : d.attempts[o].record = store.attempts[o].record
      /\ \A o \in 1..(n - 1) : d.repairs[o].record = store.repairs[o].record
  <2>1. \A S, f, g : [o \in S |-> f[o]] = [o \in S |-> g[o]] => \A o \in S : f[o] = g[o]
    OBVIOUS
  <2> QED  BY <1>5
<1> QED
  BY <1>3, <1>6, Zenon DEF Runner!ChainHolds, Recorded

LEMMA StoreDamageShows ==
  ASSUME NEW W, NEW T, Spelled(W, T), NEW candidates, NEW failed, Chained(W, T, candidates, failed),
         NEW store, NEW n, StoreSays(store, candidates, failed, n), Len(candidates) = n,
         NEW d \in Runner!DamagedStores(store),
         NEW claim, claim.final = store.final, Runner!Verifies(d, claim)
  PROVE  FALSE
<1>1. /\ n \in 1..Runner!MaxAttempts
      /\ \A o \in 1..n :
           /\ candidates[o] \in Seq(CandidateFiles(W, T)) /\ Runner!Materializes(candidates[o])
           /\ Runner!Bundle(candidates[o]) # Runner!Damaged
           /\ store.attempts[o] # <<>> /\ Runs(failed[o]) \in 1..3
           /\ Says(store.attempts[o], o, candidates[o], failed[o], Filed(candidates[o]),
                   Runs(failed[o]))
      /\ \A o \in 1..(n - 1) : RepairSays(store.repairs[o], o, candidates[o], candidates[o + 1])
  BY ChainSays, Zenon
<1>2. /\ {"attempts", "repairs", "final"} \subseteq DOMAIN store
      /\ store.attempts \in Seq({store.attempts[o] : o \in 1..(n + 1)}) /\ Len(store.attempts) = n + 1
      /\ DOMAIN store.repairs = 1..n
      /\ {"attempts", "repairs", "bundle", "history", "attempt"} \subseteq DOMAIN store.final
      /\ store.final.attempts = n /\ store.final.repairs = n - 1
      /\ store.final.bundle = store.attempts[n].record.bundle
      /\ store.final.history = Runner!History(store, n)
  BY Zenon DEF StoreSays
<1>3. /\ d.final = store.final /\ d.final # <<>> /\ d.repairs[n] = <<>>
      /\ n < Len(d.attempts) => d.attempts[n + 1] = <<>>
      /\ \A o \in 1..n : /\ d.attempts[o] # <<>> /\ Runner!AttemptHolds(d.attempts[o])
                         /\ d.attempts[o].record = store.attempts[o].record
      /\ \A o \in 1..(n - 1) : /\ d.repairs[o] # <<>> /\ Runner!RepairHolds(d.repairs[o])
                               /\ d.repairs[o].record = store.repairs[o].record
  <2>1. store.final.attempts = n /\ store.final.history = Runner!History(store, n)
    BY <1>2, Zenon
  <2>2. Recorded(d, store, n)
    BY <2>1, VerifiedChain, Zenon
  <2> QED  BY <2>2, Zenon DEF Recorded
<1>4. n \in Nat \ {0}
  <2>1. Runner!MaxAttempts = 32 /\ \A k : k \in 1..32 => k \in Nat \ {0}
    <3>1. \A k : k \in 1..32 => k \in Nat \ {0}
      OBVIOUS
    <3>2. Runner!MaxAttempts = 32
      BY Zenon DEF Runner!MaxAttempts
    <3> QED  BY <3>1, <3>2, Zenon
  <2> QED  BY <1>1, <2>1, Zenon
<1> HIDE DEF StoreSays, Chained, Spelled
<1>5. ASSUME NEW o \in 1..n, NEW a \in Runner!DamagedAttempts(store.attempts[o]) \cup {<<>>},
             d = [store EXCEPT !.attempts[o] = a]
      PROVE  FALSE
  <2>1. o \in DOMAIN store.attempts
    BY <1>2, <1>4
  <2>2. d.attempts[o] = a
    BY <1>2, <1>5, <2>1
  <2>3. a # <<>> /\ Runner!AttemptHolds(a) /\ a.record = store.attempts[o].record
    BY <1>3, <2>2, Zenon
  <2>4. a \in Runner!DamagedAttempts(store.attempts[o])
    BY <2>3
  <2>5. \A i \in 1..Len(Filed(candidates[o])) : Filed(candidates[o])[i].content # Runner!Damaged
    <3>1. Filed(candidates[o]) \in Seq(CandidateFiles(W, T))
      BY <1>1, WrittenIs
    <3>2. \A f \in CandidateFiles(W, T) : f.content # Runner!Damaged
      BY DEF CandidateFiles, Spelled
    <3> QED  BY <3>1, <3>2
  <2>6. o \in Nat
    BY <1>4
  <2> QED  BY <1>1, <2>3, <2>4, <2>5, <2>6, AttemptDamageShows
<1>6. ASSUME NEW o \in 1..(n - 1), NEW r \in Runner!DamagedRepairs(store.repairs[o]) \cup {<<>>},
             d = [store EXCEPT !.repairs[o] = r]
      PROVE  FALSE
  <2>1. o \in DOMAIN store.repairs /\ o \in 1..n /\ o + 1 \in 1..n /\ o \in Nat
    <3>1. DOMAIN store.repairs = 1..n
      BY <1>2, Zenon
    <3>2. \A m \in Nat \ {0} : \A k \in 1..(m - 1) : k \in 1..m /\ k + 1 \in 1..m /\ k \in Nat
      OBVIOUS
    <3>3. o \in 1..n /\ o + 1 \in 1..n /\ o \in Nat
      BY <1>4, <1>6, <3>2, Zenon
    <3> QED  BY <3>1, <3>3, Zenon
  <2>2. d.repairs[o] = r
    BY <1>2, <1>6, <2>1
  <2>3. r # <<>> /\ Runner!RepairHolds(r) /\ r.record = store.repairs[o].record
    BY <1>3, <2>2, Zenon
  <2>4. r \in Runner!DamagedRepairs(store.repairs[o])
    BY <2>3
  <2> QED  BY <1>1, <2>1, <2>3, <2>4, RepairDamageShows
<1>7. CASE d = [store EXCEPT !.attempts[n + 1] = store.attempts[n]]
  <2> DEFINE S == {store.attempts[o] : o \in 1..(n + 1)}
  <2>1. store.attempts \in Seq(S) /\ Len(store.attempts) = n + 1 /\ n + 1 \in DOMAIN store.attempts
    BY <1>2, <1>4
  <2>2. store.attempts[n] \in S
    BY <1>4
  <2>3. d.attempts = [store.attempts EXCEPT ![n + 1] = store.attempts[n]]
    BY <1>2, <1>7
  <2> HIDE DEF S
  <2>4. Len(d.attempts) = n + 1 /\ d.attempts[n + 1] = store.attempts[n]
    BY <2>1, <2>2, <2>3
  <2>5. n < n + 1 /\ n \in 1..n
    BY <1>4
  <2> QED  BY <1>1, <1>3, <2>4, <2>5, Zenon
<1>8. CASE d = [store EXCEPT !.repairs[n] =
                  Runner!Repair(n, <<Runner!File("a.json", <<"x">>)>>, <<Runner!File("a.json", <<"y">>)>>)]
  <2> DEFINE r == Runner!Repair(n, <<Runner!File("a.json", <<"x">>)>>, <<Runner!File("a.json", <<"y">>)>>)
  <2>1. n \in DOMAIN store.repairs
    BY <1>2, <1>4
  <2>2. d.repairs[n] = r
    <3> HIDE DEF r
    <3>1. d = [store EXCEPT !.repairs[n] = r]
      BY <1>8 DEF r
    <3> QED  BY <1>2, <2>1, <3>1
  <2>3. {"record", "files"} \subseteq DOMAIN r
    BY DEF Runner!Repair
  <2>4. \A x : {"record", "files"} \subseteq DOMAIN x => x # <<>>
    OBVIOUS
  <2> HIDE DEF r
  <2> QED  BY <1>3, <2>2, <2>3, <2>4, Zenon
<1>9. CASE d = [store EXCEPT !.final = <<>>]
  <2>1. d.final = <<>>
    BY <1>2, <1>9
  <2> QED  BY <1>3, <2>1
<1>10. CASE d = [store EXCEPT !.final.repairs = @ + 1]
  <2>1. d.final.repairs = (n - 1) + 1
    BY <1>2, <1>10
  <2> QED  BY <1>2, <1>3, <1>4, <2>1
<1>11. CASE d = [store EXCEPT !.final.bundle = Runner!Damaged]
  <2>1. d.final.bundle = Runner!Damaged
    BY <1>2, <1>11
  <2>2. n \in 1..n
    BY <1>4
  <2>3. store.attempts[n].record.bundle = Runner!Bundle(candidates[n])
    BY <1>1, <2>2, Zenon DEF Says
  <2> QED  BY <1>1, <1>2, <1>3, <2>1, <2>2, <2>3, Zenon
<1> DEFINE tried == {{[store EXCEPT !.attempts[o] = a] :
                           a \in Runner!DamagedAttempts(store.attempts[o]) \cup {<<>>}} : o \in 1..n}
           mended == {{[store EXCEPT !.repairs[o] = r] :
                           r \in Runner!DamagedRepairs(store.repairs[o]) \cup {<<>>}} : o \in 1..(n - 1)}
           whole == {[store EXCEPT !.attempts[n + 1] = store.attempts[n]],
                     [store EXCEPT !.repairs[n] =
                        Runner!Repair(n, <<Runner!File("a.json", <<"x">>)>>,
                                         <<Runner!File("a.json", <<"y">>)>>)],
                     [store EXCEPT !.final = <<>>], [store EXCEPT !.final.repairs = @ + 1],
                     [store EXCEPT !.final.bundle = Runner!Damaged]}
<1>12. Runner!DamagedStores(store) = (UNION tried) \cup (UNION mended) \cup whole
  BY <1>2, Zenon DEF Runner!DamagedStores
<1>13. d \in UNION tried \/ d \in UNION mended \/ d \in whole
  <2> HIDE DEF tried, mended, whole
  <2> QED  BY <1>12, Zenon
<1>14. d \notin UNION tried
  <2> SUFFICES ASSUME NEW o \in 1..n,
                      d \in {[store EXCEPT !.attempts[o] = a] :
                              a \in Runner!DamagedAttempts(store.attempts[o]) \cup {<<>>}}
               PROVE  FALSE
    BY Zenon
  <2> HIDE DEF tried, mended, whole
  <2>1. PICK a \in Runner!DamagedAttempts(store.attempts[o]) \cup {<<>>} :
               d = [store EXCEPT !.attempts[o] = a]
    OBVIOUS
  <2> QED  BY <1>5, <2>1
<1>15. d \notin UNION mended
  <2> SUFFICES ASSUME NEW o \in 1..(n - 1),
                      d \in {[store EXCEPT !.repairs[o] = r] :
                              r \in Runner!DamagedRepairs(store.repairs[o]) \cup {<<>>}}
               PROVE  FALSE
    BY Zenon
  <2> HIDE DEF tried, mended, whole
  <2>1. PICK r \in Runner!DamagedRepairs(store.repairs[o]) \cup {<<>>} :
               d = [store EXCEPT !.repairs[o] = r]
    OBVIOUS
  <2> QED  BY <1>6, <2>1
<1>16. d \notin whole
  BY <1>7, <1>8, <1>9, <1>10, <1>11, Zenon
<1> QED
  BY <1>13, <1>14, <1>15, <1>16, Zenon

\* What the runner writes of a chain of candidates (verify_attempt, store_repair and
\* finalize_success of the runner) is what the store reads back (verify_attempt,
\* parse_repair and load_chain of the store), and once one file of it was changed,
\* lost or added verify_candidate_evidence refuses it: for every name and content
\* of the files, and any number of attempts up to MAX_VERIFICATION_ATTEMPTS.
THEOREM ChainsOfEvidenceHold ==
  ASSUME NEW W, NEW T, Spelled(W, T), NEW candidates, NEW failed, Chained(W, T, candidates, failed)
  PROVE  /\ Runner!WrittenEvidenceVerifies(candidates, failed)
         /\ Runner!DamageIsRefused(candidates, failed)
<1> DEFINE n == Len(candidates)
           store == Runner!StoreOf(candidates, failed)
           claim == [final |-> store.final, bundle |-> store.final.bundle]
<1>1. n \in Nat \ {0}
  <2>1. \A k : k \in 1..32 => k \in Nat \ {0}
    OBVIOUS
  <2>2. Runner!MaxAttempts = 32
    BY Zenon DEF Runner!MaxAttempts
  <2>3. n \in 1..Runner!MaxAttempts
    BY Zenon DEF Chained
  <2> QED  BY <2>1, <2>2, <2>3, Zenon
<1>2. StoreSays(store, candidates, failed, n)
  BY <1>1, StoreIsSaid
<1>3. claim.final = store.final
  OBVIOUS
<1> HIDE DEF store
<1>4. /\ \A o \in 1..n : Runner!AttemptHolds(store.attempts[o])
      /\ \A o \in 1..(n - 1) : Runner!RepairHolds(store.repairs[o])
  BY <1>2, ChainSays, Zenon
<1>5. failed[n] = 0 => Runner!Verifies(store, claim)
  BY <1>2, ChainVerifies, Zenon
<1>6. \A d \in Runner!DamagedStores(store) : ~Runner!Verifies(d, claim)
  <2> HIDE DEF claim
  <2> QED  BY <1>2, <1>3, StoreDamageShows, Zenon
<1>7. Runner!WrittenEvidenceVerifies(candidates, failed)
  BY <1>4, <1>5, Zenon DEF Runner!WrittenEvidenceVerifies, store
<1>8. Runner!DamageIsRefused(candidates, failed)
  BY <1>6, Zenon DEF Runner!DamageIsRefused, store
<1> QED
  BY <1>7, <1>8

\* The names and the contents of the candidates of the run.
RunNames == {"Cargo.toml", "src/lib.rs", "src/main.rs", "util.rs", "a.json", "b.json", "notes.md",
             "build.rs"}
RunTexts == {<<"x">>, <<"y">>, <<"broken">>, <<"manifest">>, <<"harness">>, <<"compile_error!">>}
               \cup {<<"manifest", n>> : n \in Runner!RustNames}
RunFiles == CandidateFiles(RunNames, RunTexts)

LEMMA RunIsSpelled == Spelled(RunNames, RunTexts)
<1>1. \A n : <<"manifest", n>> # <<"damaged">>
  OBVIOUS
<1>2. <<"damaged">> \notin RunTexts
  BY <1>1 DEF RunTexts
<1> QED
  BY <1>2 DEF Spelled, RunNames, RunTexts, Runner!Damaged

LEMMA BundlesAreFiles == Bundles \subseteq Seq(RunFiles)
<1>1. \A n \in RunNames : \A t \in {"x", "y", "broken"} : File(n, t) \in RunFiles
  <2>1. \A t \in {"x", "y", "broken"} : <<t>> \in RunTexts
    BY DEF RunTexts
  <2> QED  BY <2>1, FileIs DEF File, RunFiles
<1>2. \A f \in RunFiles : <<f>> \in Seq(RunFiles)
  OBVIOUS
<1>3. \A f, g \in RunFiles : <<f, g>> \in Seq(RunFiles)
  OBVIOUS
<1> DEFINE Singles == {<<File(n, t)>> : n \in RunNames, t \in {"x", "y", "broken"}}
           Doubles == {<<File(p[1], p[2]), File(p[3], p[4])>> :
                         p \in RunNames \X {"x", "y", "broken"} \X RunNames \X {"x", "y", "broken"}}
<1>4. \A n \in RunNames, m \in RunNames : \A t \in {"x", "y", "broken"}, u \in {"x", "y", "broken"} :
        <<File(n, t)>> \in Seq(RunFiles) /\ <<File(n, t), File(m, u)>> \in Seq(RunFiles)
  BY <1>1, <1>2, <1>3
<1>5. {"Cargo.toml", "src/main.rs", "util.rs", "a.json", "b.json", "notes.md", "build.rs"} \subseteq RunNames
  BY DEF RunNames
<1> HIDE DEF RunFiles, RunNames
<1> QED
  BY <1>4, <1>5 DEF Bundles

LEMMA InputsAreChained ==
  ASSUME NEW i \in CandidateInputs
  PROVE  Chained(RunNames, RunTexts, i.candidates, i.failed)
<1>1. \A c \in Bundles : \A n \in 0..3 :
        Judged(c, n) => Candidate(RunNames, RunTexts, c, n)
  BY BundlesAreFiles DEF Judged, Candidate, RunFiles
<1>2. \A c, d : /\ Len(<<c>>) = 1 /\ <<c>>[1] = c /\ DOMAIN <<c>> = {1}
                /\ Len(<<c, d>>) = 2 /\ <<c, d>>[1] = c /\ <<c, d>>[2] = d /\ DOMAIN <<c, d>> = {1, 2}
  OBVIOUS
<1>3. Runner!MaxAttempts = 32 /\ 1 \in 1..32 /\ 2 \in 1..32 /\ 1..1 = {1} /\ 1..2 = {1, 2}
      /\ 1..(1 - 1) = {} /\ 1..(2 - 1) = {1} /\ 1 + 1 = 2
  BY DEF Runner!MaxAttempts
<1>4. CASE i \in [candidates : {<<c>> : c \in Bundles}, failed : {<<n>> : n \in 0..3}]
  <2>1. PICK c \in Bundles, n \in 0..3 : i.candidates = <<c>> /\ i.failed = <<n>>
    BY <1>4
  <2>2. Judged(c, n)
    <3>1. \A k \in DOMAIN i.candidates : Judged(i.candidates[k], i.failed[k])
      BY Zenon DEF CandidateInputs
    <3>2. 1 \in DOMAIN i.candidates /\ i.candidates[1] = c /\ i.failed[1] = n
      BY <2>1
    <3> QED  BY <3>1, <3>2, Zenon
  <2>3. Candidate(RunNames, RunTexts, i.candidates[1], i.failed[1]) /\ Len(i.candidates) = 1
    BY <1>1, <2>1, <2>2
  <2>4. /\ Len(i.candidates) \in 1..Runner!MaxAttempts
        /\ 1..Len(i.candidates) = {1} /\ 1..(Len(i.candidates) - 1) = {}
    BY <1>3, <2>3
  <2> QED  BY <2>3, <2>4 DEF Chained
<1>5. CASE i \in [candidates : Bundles \X Bundles, failed : {1, 2, 3} \X {0, 1}]
  <2>1. PICK c \in Bundles, d \in Bundles, n \in {1, 2, 3}, m \in {0, 1} :
               i.candidates = <<c, d>> /\ i.failed = <<n, m>>
    BY <1>5
  <2>2. Judged(c, n) /\ Judged(d, m) /\ Runner!Bundle(c) # Runner!Bundle(d)
    <3>1. /\ \A k \in DOMAIN i.candidates : Judged(i.candidates[k], i.failed[k])
          /\ Len(i.candidates) = 2 =>
               Runner!Bundle(i.candidates[1]) # Runner!Bundle(i.candidates[2])
      BY Zenon DEF CandidateInputs
    <3>2. /\ 1 \in DOMAIN i.candidates /\ i.candidates[1] = c /\ i.failed[1] = n
          /\ 2 \in DOMAIN i.candidates /\ i.candidates[2] = d /\ i.failed[2] = m
          /\ Len(i.candidates) = 2
      BY <2>1
    <3> QED  BY <3>1, <3>2, Zenon
  <2>3. /\ Candidate(RunNames, RunTexts, i.candidates[1], i.failed[1])
        /\ Candidate(RunNames, RunTexts, i.candidates[2], i.failed[2])
        /\ Len(i.candidates) = 2 /\ i.failed[1] # 0
        /\ Runner!Bundle(i.candidates[1]) # Runner!Bundle(i.candidates[2])
    BY <1>1, <2>1, <2>2
  <2>4. /\ Len(i.candidates) \in 1..Runner!MaxAttempts
        /\ \A k \in 1..Len(i.candidates) : k = 1 \/ k = 2
        /\ \A k \in 1..(Len(i.candidates) - 1) : k = 1 /\ k + 1 = 2
    BY <1>3, <2>3
  <2> QED  BY <2>3, <2>4 DEF Chained
<1> QED
  BY <1>4, <1>5 DEF CandidateInputs

\* A chain chosen as an input is one of them.
CandidatePart == Chosen("candidate") => input.of \in CandidateInputs

LEMMA CandidatePartStays ==
  CandidatePart /\ [PlanNext]_<<part, input, vars, planVars, harness, fast>> => CandidatePart'
<1> SUFFICES ASSUME CandidatePart, [PlanNext]_<<part, input, vars, planVars, harness, fast>>,
                    part' = "candidate", input' # NoInput
             PROVE  input'.of \in CandidateInputs
  BY DEF CandidatePart, Chosen, NoInput, CandidateInputs
<1>1. part = "candidate"
  BY DEF PlanNext, Choose
<1>2. CASE UNCHANGED input
  BY <1>1, <1>2 DEF CandidatePart, Chosen
<1>3. CASE Choose("candidate", CandidateInputs)
  BY <1>3 DEF Choose
<1> QED
  BY <1>1, <1>2, <1>3 DEF PlanNext, Choose

\* The harness moves by its own steps, or not at all.
LEMMA HarnessPartStays ==
  ASSUME MaxCapture \in Nat, HarnessInv,
         [PlanNext]_<<part, input, vars, planVars, harness, fast>>
  PROVE  HarnessInv'
<1>1. HarnessNext \/ UNCHANGED harness
  BY DEF PlanNext, Choose
<1> QED
  BY <1>1, HarnessSteps, HarnessUnmoved

\* An attestation, whatever the program prints and however long its output, stands
\* only for a run that ended as expected (run_harness, verify_harness_attestation
\* of math-atoms-attestation); what the runner writes of a chain of candidates
\* verifies, and damaged does not (verify_candidate_evidence).
THEOREM EvidenceStaysEarned ==
  ASSUME MaxCapture \in Nat
  PROVE  PlanSpec => []EvidenceIsEarned
<1>1. PlanInit => HarnessInv /\ CandidatePart
  BY HarnessStarts DEF PlanInit, CandidatePart, Chosen
<1>2. HarnessInv /\ CandidatePart => EvidenceIsEarned
  <2> SUFFICES ASSUME HarnessInv, CandidatePart PROVE EvidenceIsEarned
    OBVIOUS
  <2>1. AttestationsAreEarned /\ ProgramsAreEnded
    BY HarnessInvSuffices
  <2>2. Chosen("candidate") =>
          /\ Runner!WrittenEvidenceVerifies(input.of.candidates, input.of.failed)
          /\ Runner!DamageIsRefused(input.of.candidates, input.of.failed)
    BY InputsAreChained, RunIsSpelled, ChainsOfEvidenceHold DEF CandidatePart
  <2> QED  BY <2>1, <2>2 DEF EvidenceIsEarned
<1>3. /\ HarnessInv /\ [PlanNext]_<<part, input, vars, planVars, harness, fast>> => HarnessInv'
      /\ CandidatePart /\ [PlanNext]_<<part, input, vars, planVars, harness, fast>> => CandidatePart'
  BY HarnessPartStays, CandidatePartStays
<1> QED
  BY <1>1, <1>2, <1>3, PTL DEF PlanSpec

(***************************************************************************)
(* The calls of a provider.                                                *)
(***************************************************************************)
\* What a configuration is made of.
LEMMA ConfigSays ==
  ASSUME NEW crate, NEW form, NEW s, NEW keys, NEW c, c = Adapter!Config(crate, form, s, keys)
  PROVE  /\ c.kind = Adapter!Kind(crate, s) /\ c.endpoint = Adapter!Endpoint(crate, s)
         /\ c.model = Adapter!Model(crate, s) /\ c.key_env = Adapter!KeyName(crate, s)
         /\ c.format = Adapter!Format(crate, s) /\ c.header = Adapter!Header(s.header)
         /\ c.scheme = Adapter!Scheme(form, s.scheme) /\ c.template = s.template
         /\ c.response_key = Adapter!ResponseKey(s.response_key)
         /\ c.thinking = Adapter!Thinking(s.thinking)
         /\ c.scope = Adapter!Scope(Adapter!Endpoint(crate, s), keys[Adapter!KeyName(crate, s)])
         /\ c.timeout = Adapter!Timeout(crate, s)
BY Zenon DEF Adapter!Config

LEMMA KeyIsPresent ==
  ASSUME NEW crate, NEW form, NEW s, NEW keys
  PROVE  Adapter!Config(crate, form, s, keys).present <=> keys[Adapter!KeyName(crate, s)] # ""
BY Zenon DEF Adapter!Config

LEMMA TimeoutsAreInRange ==
  ASSUME NEW crate, NEW s
  PROVE  Adapter!Timeout(crate, s) \in Adapter!Timeouts
<1>1. \A low, high, fallback : fallback \in low..high =>
        Adapter!Within(s.timeout, low, high, fallback) \in low..high
  BY Zenon DEF Adapter!Within
<1>2. (IF Adapter!Kind(crate, s) = "deepseek" /\ Adapter!IsPro(Adapter!Model(crate, s)) THEN 900
       ELSE 120) \in 10..1800
  OBVIOUS
<1> QED
  BY <1>1, <1>2, SMT DEF Adapter!Timeout, Adapter!Timeouts

\* Whose endpoint, key name or format was not asked for has that of its kind.
LEMMA KeysFollowEndpoints ==
  ASSUME NEW crate, NEW s, NEW keys
  PROVE  LET c == Adapter!Config(crate, "environment", s, keys) IN
         /\ {s.url, s.key_env} \subseteq {"unset", "blank"} /\ c.endpoint # "" =>
              c.key_env = c.endpoint
         /\ {s.url, s.format} \subseteq {"unset", "blank"} /\ c.endpoint # "" =>
              c.format = Adapter!DefaultFormat(c.endpoint)
<1> DEFINE c == Adapter!Config(crate, "environment", s, keys)
<1>1. /\ c.endpoint = Adapter!Endpoint(crate, s) /\ c.key_env = Adapter!KeyName(crate, s)
      /\ c.format = Adapter!Format(crate, s)
  BY ConfigSays
<1> HIDE DEF c
<1>2. s.url \in {"unset", "blank"} /\ c.endpoint # "" => c.endpoint = Adapter!Kind(crate, s)
  BY <1>1 DEF Adapter!Endpoint, Adapter!Or, Adapter!DefaultEndpoint
<1>3. s.key_env \in {"unset", "blank"} => c.key_env = Adapter!Kind(crate, s)
  BY <1>1 DEF Adapter!KeyName, Adapter!Or, Adapter!KeyEnv
<1>4. s.format \in {"unset", "blank"} => c.format = Adapter!DefaultFormat(Adapter!Kind(crate, s))
  BY <1>1 DEF Adapter!Format, Adapter!Or
<1> QED
  BY <1>2, <1>3, <1>4, Zenon DEF c

\* What is_ready, prepare_call_with_atoms and validate_config each ask for.
LEMMA ReadyIsPrepared ==
  ASSUME NEW crate \in {"core", "fast"}, NEW s, NEW keys, s.header # ""
  PROVE  LET c == Adapter!Config(crate, "environment", s, keys) IN
         /\ Adapter!Ready(crate, c) <=>
              Adapter!Missing(crate, c, <<"task">>) \in
                (IF crate = "core" THEN {"", "InvalidBodyTemplate"} ELSE {""})
<1> DEFINE c == Adapter!Config(crate, "environment", s, keys)
<1>1. c.header = Adapter!Header(s.header)
  BY Zenon DEF Adapter!Config
<1>2. <<"task">> # <<>>
  OBVIOUS
<1> HIDE DEF c
<1>3. c.header # ""
  BY <1>1 DEF Adapter!Header
<1> QED
  BY <1>2, <1>3 DEF c, Adapter!Ready, Adapter!Missing

LEMMA ReadyIsValid ==
  ASSUME NEW s, NEW keys, s.header # ""
  PROVE  LET c == Adapter!Config("core", "environment", s, keys) IN
         Adapter!Valid(c) <=> Adapter!Ready("core", c) /\ c.endpoint # "remote"
<1> DEFINE c == Adapter!Config("core", "environment", s, keys)
<1>1. c.timeout = Adapter!Timeout("core", s)
  BY Zenon DEF Adapter!Config
<1> HIDE DEF c
<1>2. c.timeout \in Adapter!Timeouts
  BY <1>1, TimeoutsAreInRange
<1>3. Adapter!Valid(c) <=> Adapter!Ready("core", c) /\ c.endpoint # "remote"
  BY <1>2, Zenon DEF Adapter!Ready, Adapter!Valid
<1> QED
  BY <1>3 DEF c

\* The full and the fast crate differ in DeepSeek's second name and in its model.
LEMMA CratesAgree ==
  ASSUME NEW s, NEW keys, s.kind # "deepseek-pro"
  PROVE  LET core == Adapter!Config("core", "environment", s, keys)
             fastOne == Adapter!Config("fast", "environment", s, keys)
         IN  \A field \in {"kind", "format", "endpoint", "key_env", "header", "scheme",
                           "response_key", "present"} : core[field] = fastOne[field]
<1> DEFINE core == Adapter!Config("core", "environment", s, keys)
           fastOne == Adapter!Config("fast", "environment", s, keys)
<1>1. Adapter!Kind("core", s) = Adapter!Kind("fast", s)
  BY DEF Adapter!Kind, Adapter!KindOf, Adapter!Or
<1>2. /\ Adapter!Endpoint("core", s) = Adapter!Endpoint("fast", s)
      /\ Adapter!KeyName("core", s) = Adapter!KeyName("fast", s)
      /\ Adapter!Format("core", s) = Adapter!Format("fast", s)
  BY <1>1, Zenon DEF Adapter!Endpoint, Adapter!KeyName, Adapter!Format
<1>3. /\ core.kind = fastOne.kind /\ core.endpoint = fastOne.endpoint
      /\ core.key_env = fastOne.key_env /\ core.format = fastOne.format
      /\ core.header = fastOne.header /\ core.scheme = fastOne.scheme
      /\ core.response_key = fastOne.response_key
  BY <1>1, <1>2, ConfigSays
<1>4. core.present = fastOne.present
  BY <1>2, Zenon DEF Adapter!Config, Adapter!KeyName, Adapter!Kind
<1> HIDE DEF core, fastOne
<1>5. \A field \in {"kind", "format", "endpoint", "key_env", "header", "scheme",
                    "response_key", "present"} : core[field] = fastOne[field]
  BY <1>3, <1>4
<1> QED
  BY <1>5 DEF core, fastOne

LEMMA FormsAgree ==
  ASSUME NEW s, NEW keys, s.scheme # "blank"
  PROVE  Adapter!Config("core", "environment", s, keys) = Adapter!Config("core", "values", s, keys)
<1>1. Adapter!Scheme("environment", s.scheme) = Adapter!Scheme("values", s.scheme)
  BY DEF Adapter!Scheme
<1> QED
  BY <1>1, Zenon DEF Adapter!Config

LEMMA SettingsAlwaysAgree ==
  ASSUME NEW s, NEW keys, s.header # ""
  PROVE  Adapter!SettingsAgree(s, keys)
<1>1. \A crate : LET c == Adapter!Config(crate, "environment", s, keys) IN
         /\ {s.url, s.key_env} \subseteq {"unset", "blank"} /\ c.endpoint # "" =>
              c.key_env = c.endpoint
         /\ {s.url, s.format} \subseteq {"unset", "blank"} /\ c.endpoint # "" =>
              c.format = Adapter!DefaultFormat(c.endpoint)
  BY KeysFollowEndpoints
<1>2. /\ Adapter!Ready("core", Adapter!Config("core", "environment", s, keys)) <=>
           Adapter!Missing("core", Adapter!Config("core", "environment", s, keys), <<"task">>)
             \in {"", "InvalidBodyTemplate"}
      /\ Adapter!Ready("fast", Adapter!Config("fast", "environment", s, keys)) <=>
           Adapter!Missing("fast", Adapter!Config("fast", "environment", s, keys), <<"task">>) = ""
  BY ReadyIsPrepared
<1> QED
  BY <1>1, <1>2, ReadyIsValid, CratesAgree, FormsAgree, Zenon DEF Adapter!SettingsAgree

\* The body, from what of a configuration it depends on.
BodyOf(adapter, kind, template, model, thinking, format, prompt) ==
  IF template # <<>> THEN Adapter!Rendered(template, model, prompt, thinking[1])
  ELSE <<format, model>> \o prompt.instructions \o prompt.data
         \o IF format = "chat" /\ (IF adapter = "core" THEN model = "deepseek-v4-pro"
                                   ELSE kind = "deepseek" /\ Adapter!IsPro(model))
            THEN <<"enabled">> ELSE thinking

LEMMA BodyIs ==
  ASSUME NEW adapter, NEW c, NEW prompt
  PROVE  Adapter!Body(adapter, c, prompt) =
           BodyOf(adapter, c.kind, c.template, c.model, c.thinking, c.format, prompt)
BY Zenon DEF Adapter!Body, BodyOf

\* take(n), and the six pieces shown of the eight that are hashed.
LEMMA FirstIs ==
  ASSUME NEW S, NEW s \in Seq(S), NEW n \in Nat
  PROVE  LET k == IF Len(s) < n THEN Len(s) ELSE n IN
         /\ Adapter!First(s, n) \in Seq(S) /\ Len(Adapter!First(s, n)) = k
         /\ DOMAIN Adapter!First(s, n) = 1..k
         /\ \A i \in 1..k : Adapter!First(s, n)[i] = s[i]
<1> DEFINE k == IF Len(s) < n THEN Len(s) ELSE n
<1>1. k \in 0..Len(s) /\ Len(s) \in Nat
  OBVIOUS
<1> HIDE DEF k
<1>2. SubSeq(s, 1, k) \in Seq(S) /\ Len(SubSeq(s, 1, k)) = k /\ DOMAIN SubSeq(s, 1, k) = 1..k
      /\ \A i \in 1..k : SubSeq(s, 1, k)[i] = s[i]
  BY <1>1
<1> QED
  BY <1>2 DEF Adapter!First, k

LEMMA BestIsShown ==
  ASSUME NEW S, NEW s \in Seq(S), NEW t \in Seq(S), Adapter!TitlesKept(s, t),
         Adapter!Identified(s, 8) = Adapter!Identified(t, 8)
  PROVE  Adapter!Shown(s) = Adapter!Shown(t)
<1> DEFINE bestS == Adapter!First(s, 6)
           bestT == Adapter!First(t, 6)
           k == IF Len(s) < 6 THEN Len(s) ELSE 6
           Piece(x) == <<x.node, x.score, x.excerpt>>
<1>0. /\ 6 \in Nat /\ 8 \in Nat
      /\ \A n \in Nat, u \in Seq(S) :
           LET l == IF Len(u) < n THEN Len(u) ELSE n IN
           /\ Len(Adapter!First(u, n)) = l /\ DOMAIN Adapter!First(u, n) = 1..l
           /\ \A i \in 1..l : Adapter!First(u, n)[i] = u[i]
  BY FirstIs
<1>1. /\ DOMAIN bestS = 1..(IF Len(s) < 6 THEN Len(s) ELSE 6)
      /\ DOMAIN bestT = 1..(IF Len(t) < 6 THEN Len(t) ELSE 6)
      /\ \A i \in 1..(IF Len(s) < 6 THEN Len(s) ELSE 6) : bestS[i] = s[i]
      /\ \A i \in 1..(IF Len(t) < 6 THEN Len(t) ELSE 6) : bestT[i] = t[i]
  BY <1>0
<1>2. /\ (IF Len(s) < 8 THEN Len(s) ELSE 8) = (IF Len(t) < 8 THEN Len(t) ELSE 8)
      /\ \A i \in 1..(IF Len(s) < 8 THEN Len(s) ELSE 8) : Piece(s[i]) = Piece(t[i])
  <2> DEFINE m == IF Len(s) < 8 THEN Len(s) ELSE 8
             o == IF Len(t) < 8 THEN Len(t) ELSE 8
             identS == Adapter!Identified(s, 8)
             identT == Adapter!Identified(t, 8)
             firstS == Adapter!First(s, 8)
             firstT == Adapter!First(t, 8)
  <2>1. /\ DOMAIN firstS = 1..m /\ DOMAIN firstT = 1..o
        /\ \A i \in 1..m : firstS[i] = s[i]
        /\ \A i \in 1..o : firstT[i] = t[i]
    BY <1>0
  <2>2. /\ identS = [i \in DOMAIN firstS |-> Piece(firstS[i])]
        /\ identT = [i \in DOMAIN firstT |-> Piece(firstT[i])]
    BY Zenon DEF Adapter!Identified
  <2>3. m \in Nat /\ o \in Nat
    OBVIOUS
  <2>4. identS = identT
    OBVIOUS
  <2> HIDE DEF m, o, identS, identT, firstS, firstT, Piece
  <2>5. /\ DOMAIN identS = 1..m /\ \A i \in 1..m : identS[i] = Piece(s[i])
        /\ DOMAIN identT = 1..o /\ \A i \in 1..o : identT[i] = Piece(t[i])
    BY <2>1, <2>2
  <2>6. m = o
    <3>1. 1..m = 1..o
      BY <2>4, <2>5
    <3> QED  BY <2>3, <3>1
  <2>7. \A i \in 1..m : Piece(s[i]) = Piece(t[i])
    BY <2>4, <2>5, <2>6
  <2> QED  BY <2>6, <2>7 DEF m, o
<1>3. Len(s) \in Nat /\ Len(t) \in Nat /\ DOMAIN s = 1..Len(s) /\ DOMAIN t = 1..Len(t)
  OBVIOUS
<1>4. /\ (IF Len(t) < 6 THEN Len(t) ELSE 6) = k
      /\ \A i \in 1..k : i \in DOMAIN s /\ i \in DOMAIN t /\ Piece(s[i]) = Piece(t[i])
  <2> HIDE DEF Piece
  <2> QED  BY <1>2, <1>3
<1>5. \A i \in 1..k : s[i].node = t[i].node /\ s[i].excerpt = t[i].excerpt
  BY <1>4
<1>6. \A i \in 1..k : s[i].title = t[i].title
  BY <1>4, <1>5, Zenon DEF Adapter!TitlesKept
<1>7. /\ DOMAIN bestS = 1..k /\ DOMAIN bestT = 1..k
      /\ \A i \in 1..k : bestS[i].title = bestT[i].title /\ bestS[i].excerpt = bestT[i].excerpt
  BY <1>1, <1>4, <1>5, <1>6
<1> HIDE DEF k, bestS, bestT
<1>8. [i \in DOMAIN bestS |-> bestS[i].title \o ": " \o bestS[i].excerpt]
      = [i \in DOMAIN bestT |-> bestT[i].title \o ": " \o bestT[i].excerpt]
  BY <1>7
<1> QED
  BY <1>8, Zenon DEF Adapter!Shown, Adapter!EvidenceShown, bestS, bestT

LEMMA FingerprintSays ==
  ASSUME NEW c, NEW d, NEW s, NEW t, Adapter!Fingerprint(c, s) = Adapter!Fingerprint(d, t)
  PROVE  /\ c.kind = d.kind /\ c.model = d.model /\ c.endpoint = d.endpoint /\ c.format = d.format
         /\ c.header = d.header /\ c.scheme = d.scheme /\ c.response_key = d.response_key
         /\ c.thinking = d.thinking /\ c.template = d.template /\ c.scope = d.scope
         /\ c.timeout = d.timeout /\ c.plan = d.plan /\ c.attempts = d.attempts
         /\ c.verify = d.verify
         /\ Adapter!Identified(s, 8) = Adapter!Identified(t, 8)
BY DEF Adapter!Fingerprint, Adapter!EvidenceHashed

\* All a call sends is in its fingerprint, the titles of its evidence excepted.
LEMMA SamePlansSendTheSame ==
  ASSUME NEW S, NEW s \in Seq(S), NEW t \in Seq(S), NEW c, NEW d, Adapter!TitlesKept(s, t),
         Adapter!Fingerprint(c, s) = Adapter!Fingerprint(d, t)
  PROVE  Adapter!Call(c, s) = Adapter!Call(d, t)
<1>1. /\ c.kind = d.kind /\ c.model = d.model /\ c.endpoint = d.endpoint /\ c.format = d.format
      /\ c.header = d.header /\ c.scheme = d.scheme /\ c.response_key = d.response_key
      /\ c.thinking = d.thinking /\ c.template = d.template /\ c.scope = d.scope
      /\ c.timeout = d.timeout /\ c.plan = d.plan /\ c.attempts = d.attempts
      /\ c.verify = d.verify
      /\ Adapter!Identified(s, 8) = Adapter!Identified(t, 8)
  BY FingerprintSays
<1>2. Adapter!Shown(s) = Adapter!Shown(t)
  BY <1>1, BestIsShown
<1>3. \A prompt : Adapter!Body("core", c, prompt) = Adapter!Body("core", d, prompt)
  BY <1>1, BodyIs
<1> QED
  BY <1>1, <1>2, <1>3, Zenon DEF Adapter!Call

LEMMA PlansAlwaysFollowTheirCalls ==
  ASSUME NEW s, NEW t, NEW keys, NEW later, NEW S, NEW evidence \in Seq(S), NEW other \in Seq(S)
  PROVE  Adapter!PlansFollowTheirCalls(s, t, keys, later, evidence, other)
<1> DEFINE c == Adapter!Config("core", "environment", s, keys)
           d == Adapter!Config("core", "environment", t, later)
<1>0. d.present <=> later[Adapter!KeyName("core", t)] # ""
  BY KeyIsPresent
<1>1. /\ d.endpoint = Adapter!Endpoint("core", t) /\ d.key_env = Adapter!KeyName("core", t)
      /\ d.scope = Adapter!Scope(Adapter!Endpoint("core", t), later[Adapter!KeyName("core", t)])
  BY Zenon DEF Adapter!Config
<1> HIDE DEF c, d
<1>2. Adapter!Fingerprint(c, evidence) = Adapter!Fingerprint(d, other)
        /\ Adapter!TitlesKept(evidence, other) =>
          Adapter!Call(c, evidence) = Adapter!Call(d, other)
  BY SamePlansSendTheSame
<1>3. ASSUME Adapter!Ready("core", d), c.key_env = d.key_env,
             Adapter!Fingerprint(c, evidence) = Adapter!Fingerprint(d, other)
      PROVE  Adapter!KeyHolds(c, later)
  <2>1. c.endpoint = d.endpoint /\ c.scope = d.scope
    BY <1>3, FingerprintSays
  <2>2. d.present
    BY <1>3, Zenon DEF Adapter!Ready
  <2> QED  BY <1>0, <1>1, <1>3, <2>1, <2>2, Zenon DEF Adapter!KeyHolds
<1> QED
  BY <1>2, <1>3, Zenon DEF Adapter!PlansFollowTheirCalls, c, d

\* What is known of an end that is tried again, and of one that is not.
LEMMA EndsAreJudged ==
  ASSUME NEW end \in Adapter!Ends
  PROVE  /\ Adapter!Retried(end) =>
              /\ end.status \notin {"2xx", "other", "lost"} /\ end.code # "1..99"
              /\ \/ end.code \in {"none", "other"}
                 \/ end.code = "0" /\ end.status = "odd"
         /\ ~Adapter!Retried(end) =>
              end.sent \/ end.status = "lost" \/ end.code \in {"0", "1..99"}
<1>1. CASE end \in Adapter!Lost
  <2>1. end.status = "lost"
    BY <1>1 DEF Adapter!Lost
  <2> QED  BY <2>1 DEF Adapter!Retried, Adapter!CurlFailed
<1>2. CASE end \in Adapter!Captures
  <2>1. /\ end.code \in {"none", "0", "1..99", "other"}
        /\ end.status \in {"missing", "odd", "2xx", "other"}
        /\ end.sent \/ (end.code # "0" /\ end.status \in {"missing", "odd"})
    BY <1>2 DEF Adapter!Captures
  <2> QED  BY <2>1 DEF Adapter!Retried, Adapter!CurlFailed, Adapter!Answered
<1> QED  BY <1>1, <1>2 DEF Adapter!Ends

LEMMA FailuresAreAlwaysFinal ==
  ASSUME NEW ends \in [1..3 -> Adapter!Ends]
  PROVE  Adapter!FailuresAreFinal(ends)
<1> DEFINE n == Adapter!Started(ends)
<1>1. \E m \in 1..3 : /\ \A k \in 1..(m - 1) : Adapter!Retried(ends[k])
                      /\ m = 3 \/ ~Adapter!Retried(ends[m])
  <2>1. CASE ~Adapter!Retried(ends[1])
    BY <2>1
  <2>2. CASE Adapter!Retried(ends[1]) /\ ~Adapter!Retried(ends[2])
    BY <2>2
  <2>3. CASE Adapter!Retried(ends[1]) /\ Adapter!Retried(ends[2])
    BY <2>3
  <2> QED  BY <2>1, <2>2, <2>3
<1>2. /\ n \in 1..3 /\ \A k \in 1..(n - 1) : Adapter!Retried(ends[k])
      /\ n = 3 \/ ~Adapter!Retried(ends[n])
  BY <1>1 DEF Adapter!Started, Adapter!Tries
<1> HIDE DEF n
<1>3. \A k \in 1..n : ends[k] \in Adapter!Ends
  BY <1>2
<1>4. \A k \in 1..(n - 1) : k \in 1..n
  BY <1>2
<1>5. n <= 3 /\ (n < 3 => n # 3) /\ n \in 1..n
  BY <1>2
<1> QED
  BY <1>2, <1>3, <1>4, <1>5, EndsAreJudged, Zenon
     DEF Adapter!FailuresAreFinal, Adapter!Tries, n

\* f joins the first of the n sequences e, one by one.
Joins(f, e, n) == f = [i \in 0..n |-> IF i = 0 THEN <<>> ELSE f[i - 1] \o e[i]]

\* Such a function exists, and its last value holds all that was joined.
LEMMA JoinsExist ==
  ASSUME NEW n \in Nat, NEW e
  PROVE  \E f : Joins(f, e, n)
<1> DEFINE T == {k \in Nat : \E f : Joins(f, e, k)}
<1>1. 0 \in T
  <2> DEFINE f == [i \in 0..0 |-> <<>>]
  <2>1. \A i \in 0..0 : i = 0
    OBVIOUS
  <2>2. Joins(f, e, 0)
    BY <2>1 DEF Joins
  <2> QED  BY <2>2
<1>2. ASSUME NEW k \in 0..n, k < n, k \in T PROVE k + 1 \in T
  <2>1. PICK f : Joins(f, e, k)
    BY <1>2
  <2> DEFINE x == f[k] \o e[k + 1]
             g == [i \in 0..(k + 1) |-> IF i = k + 1 THEN x ELSE f[i]]
             value(i) == IF i = 0 THEN <<>> ELSE g[i - 1] \o e[i]
  <2>2. \A i \in 0..k : f[i] = IF i = 0 THEN <<>> ELSE f[i - 1] \o e[i]
    BY <2>1, Zenon DEF Joins
  <2>3. k \in Nat /\ \A i \in 0..(k + 1) : i = k + 1 \/ (i \in 0..k /\ i # k + 1)
    OBVIOUS
  <2> HIDE DEF x
  <2>4. /\ \A i \in 0..k : g[i] = f[i]
        /\ g[k + 1] = x /\ k \in 0..k /\ k + 1 # 0 /\ (k + 1) - 1 = k
        /\ \A i \in 0..k : i # 0 => i - 1 \in 0..k
    BY <2>3
  <2> HIDE DEF g
  <2>5. \A i \in 0..(k + 1) : g[i] = value(i)
    <3> SUFFICES ASSUME NEW i \in 0..(k + 1) PROVE g[i] = value(i)
      OBVIOUS
    <3>1. CASE i = k + 1
      <4>1. g[i - 1] = f[k]
        BY <2>4, <3>1
      <4> QED  BY <2>4, <3>1, <4>1, Zenon DEF x
    <3>2. CASE i \in 0..k
      BY <2>2, <2>4, <3>2, Zenon
    <3> QED  BY <2>3, <3>1, <3>2
  <2>6. g = [i \in 0..(k + 1) |-> g[i]]
    BY DEF g
  <2>7. g = [i \in 0..(k + 1) |-> value(i)]
    <3> HIDE DEF value
    <3> QED  BY <2>5, <2>6
  <2>8. Joins(g, e, k + 1)
    BY <2>7, Zenon DEF Joins
  <2> QED  BY <2>3, <2>8
<1> HIDE DEF T
<1>3. \A k \in 0..n : k \in T
  BY <1>1, <1>2, Expanding!UpTo, PlanFilesAssumption
<1>4. n \in T
  BY <1>3
<1> QED  BY <1>4 DEF T

\* A concatenation holds what its parts hold.
LEMMA ConcatHolds ==
  ASSUME NEW S, NEW s \in Seq(S), NEW t \in Seq(S)
  PROVE  /\ s \o t \in Seq(S)
         /\ Adapter!Range(s) \subseteq Adapter!Range(s \o t)
         /\ Adapter!Range(t) \subseteq Adapter!Range(s \o t)
<1> DEFINE c == s \o t
<1>1. /\ c \in Seq(S) /\ Len(c) = Len(s) + Len(t)
      /\ \A i \in 1..(Len(s) + Len(t)) : c[i] = IF i <= Len(s) THEN s[i] ELSE t[i - Len(s)]
  BY ConcatProperties
<1>2. /\ DOMAIN c = 1..(Len(s) + Len(t)) /\ DOMAIN s = 1..Len(s) /\ DOMAIN t = 1..Len(t)
      /\ Len(s) \in Nat /\ Len(t) \in Nat
  BY <1>1
<1> HIDE DEF c
<1>3. \A x \in Adapter!Range(s) : x \in Adapter!Range(c)
  <2> SUFFICES ASSUME NEW i \in 1..Len(s) PROVE s[i] \in Adapter!Range(c)
    BY <1>2 DEF Adapter!Range
  <2>1. i \in DOMAIN c /\ c[i] = s[i]
    BY <1>1, <1>2
  <2> QED  BY <2>1 DEF Adapter!Range
<1>4. \A x \in Adapter!Range(t) : x \in Adapter!Range(c)
  <2> SUFFICES ASSUME NEW i \in 1..Len(t) PROVE t[i] \in Adapter!Range(c)
    BY <1>2 DEF Adapter!Range
  <2>1. Len(s) + i \in DOMAIN c /\ c[Len(s) + i] = t[i]
    BY <1>1, <1>2
  <2> QED  BY <2>1 DEF Adapter!Range
<1> QED
  BY <1>1, <1>3, <1>4 DEF c

LEMMA JoinsHold ==
  ASSUME NEW S, NEW n \in Nat, NEW e, \A i \in 1..n : e[i] \in Seq(S), NEW f, Joins(f, e, n)
  PROVE  /\ f[n] \in Seq(S)
         /\ \A i \in 1..n : Adapter!Range(e[i]) \subseteq Adapter!Range(f[n])
<1> DEFINE Held(k) == /\ f[k] \in Seq(S)
                      /\ \A i \in 1..k : Adapter!Range(e[i]) \subseteq Adapter!Range(f[k])
           T == {k \in Nat : k <= n => Held(k)}
<1>1. \A i \in 0..n : f[i] = IF i = 0 THEN <<>> ELSE f[i - 1] \o e[i]
  BY Zenon DEF Joins
<1>2. 0 \in T
  <2>1. f[0] = <<>>
    BY <1>1
  <2>2. f[0] \in Seq(S) /\ 1..0 = {}
    BY <2>1
  <2>3. Held(0)
    BY <2>2, Zenon
  <2> HIDE DEF Held
  <2> QED  BY <2>3
<1>3. ASSUME NEW k \in 0..n, k < n, k \in T PROVE k + 1 \in T
  <2>1. Held(k)
    BY <1>3
  <2>2. k + 1 \in 0..n /\ k + 1 # 0 /\ (k + 1) - 1 = k /\ k + 1 \in 1..n /\ k + 1 \in Nat
    BY <1>3
  <2>3. f[k + 1] = f[k] \o e[k + 1]
    BY <1>1, <2>2
  <2>4. /\ f[k + 1] \in Seq(S)
        /\ Adapter!Range(f[k]) \subseteq Adapter!Range(f[k + 1])
        /\ Adapter!Range(e[k + 1]) \subseteq Adapter!Range(f[k + 1])
    <3>1. f[k] \in Seq(S) /\ e[k + 1] \in Seq(S)
      BY <2>1, <2>2
    <3> HIDE DEF Held
    <3> QED  BY <2>3, <3>1, ConcatHolds, Zenon
  <2>5. \A i \in 1..(k + 1) : i \in 1..k \/ i = k + 1
    BY <2>2
  <2>6. Held(k + 1)
    BY <2>1, <2>4, <2>5, Zenon
  <2> HIDE DEF Held
  <2> QED  BY <2>2, <2>6
<1> HIDE DEF T
<1>4. \A k \in 0..n : k \in T
  BY <1>2, <1>3, Expanding!UpTo, PlanFilesAssumption
<1>5. n \in T
  BY <1>4
<1>6. Held(n)
  <2> HIDE DEF Held
  <2> QED  BY <1>5 DEF T
<1> QED  BY <1>6

\* str::replace keeps every other word, and puts the value where the name was.
LEMMA ReplacedHolds ==
  ASSUME NEW S, NEW text \in Seq(S), NEW value \in Seq(S), NEW name
  PROVE  /\ Adapter!Replaced(text, name, value) \in Seq(S)
         /\ \A w \in Adapter!Range(text) : w # name =>
              w \in Adapter!Range(Adapter!Replaced(text, name, value))
         /\ name \in Adapter!Range(text) =>
              Adapter!Range(value) \subseteq Adapter!Range(Adapter!Replaced(text, name, value))
<1> DEFINE n == Len(text)
           word(i) == IF text[i] = name THEN value ELSE <<text[i]>>
           e == [i \in 1..n |-> word(i)]
           Sums(f) == f = [i \in 0..n |-> IF i = 0 THEN <<>> ELSE f[i - 1] \o word(i)]
           f == CHOOSE h : Sums(h)
<1>1. Adapter!Replaced(text, name, value) = f[n]
  BY Zenon DEF Adapter!Replaced
<1>2. n \in Nat /\ DOMAIN text = 1..n /\ \A i \in 1..n : text[i] \in S
  OBVIOUS
<1>3. \A i \in 1..n : e[i] = word(i)
  <2> HIDE DEF word
  <2> QED  OBVIOUS
<1>4. \A i \in 0..n : i = 0 \/ i \in 1..n
  BY <1>2
<1>5. \A h : Sums(h) <=> Joins(h, e, n)
  <2> TAKE h
  <2>1. \A i \in 0..n : (IF i = 0 THEN <<>> ELSE h[i - 1] \o word(i))
                         = (IF i = 0 THEN <<>> ELSE h[i - 1] \o e[i])
    <3> HIDE DEF word, e
    <3> QED  BY <1>3, <1>4, Zenon
  <2>2. [i \in 0..n |-> IF i = 0 THEN <<>> ELSE h[i - 1] \o word(i)]
          = [i \in 0..n |-> IF i = 0 THEN <<>> ELSE h[i - 1] \o e[i]]
    <3> HIDE DEF word, e
    <3> QED  BY <2>1, Zenon
  <2> QED  BY <2>2, Zenon DEF Joins
<1>6. \E h : Sums(h)
  <2>1. \E h : Joins(h, e, n)
    BY <1>2, JoinsExist
  <2> HIDE DEF Sums, e
  <2> QED  BY <2>1, <1>5
<1>7. Sums(f)
  <2> HIDE DEF Sums
  <2> QED  BY <1>6, Zenon
<1>8. Joins(f, e, n)
  <2> HIDE DEF Sums, f, e
  <2> QED  BY <1>5, <1>7
<1>9. \A i \in 1..n : e[i] \in Seq(S)
  BY <1>2, <1>3
<1> HIDE DEF f, Sums, e
<1>10. /\ f[n] \in Seq(S)
       /\ \A i \in 1..n : Adapter!Range(e[i]) \subseteq Adapter!Range(f[n])
  BY <1>2, <1>8, <1>9, JoinsHold, Zenon
<1>11. ASSUME NEW w \in Adapter!Range(text), w # name PROVE w \in Adapter!Range(f[n])
  <2>1. PICK i \in 1..n : w = text[i]
    BY <1>2 DEF Adapter!Range
  <2>2. e[i] = <<w>>
    BY <1>3, <1>11, <2>1
  <2>3. w \in Adapter!Range(<<w>>)
    BY DEF Adapter!Range
  <2> QED  BY <1>10, <2>1, <2>2, <2>3
<1>12. ASSUME name \in Adapter!Range(text) PROVE Adapter!Range(value) \subseteq Adapter!Range(f[n])
  <2>1. PICK i \in 1..n : name = text[i]
    BY <1>2, <1>12 DEF Adapter!Range
  <2>2. e[i] = value
    BY <1>3, <2>1
  <2> QED  BY <1>10, <2>1, <2>2
<1> HIDE DEF n
<1> QED  BY <1>1, <1>10, <1>11, <1>12

\* What render_body_template replaces.
Placeholders == {"model", "instructions", "data", "model_json", "instructions_json", "data_json",
                 "thinking", "thinking_json"}

\* The words of a template that are no placeholders stay, and the values of its
\* placeholders are in what is rendered.
LEMMA RenderedHolds ==
  ASSUME NEW S, NEW template \in Seq(S), NEW model \in S, NEW level \in S, NEW prompt,
         prompt.instructions \in Seq(S), prompt.data \in Seq(S),
         (Adapter!Range(prompt.instructions) \cup Adapter!Range(prompt.data) \cup {level})
           \cap Placeholders = {},
         Adapter!CarriesAll(template), template # <<>>
  PROVE  (Adapter!Range(prompt.instructions) \cup Adapter!Range(prompt.data) \cup {level})
           \subseteq Adapter!Range(Adapter!Rendered(template, model, prompt, level))
<1> DEFINE ins == prompt.instructions
           dat == prompt.data
           m == <<model>>
           l == <<level>>
           t1 == Adapter!Replaced(template, "model", m)
           t2 == Adapter!Replaced(t1, "instructions", ins)
           t3 == Adapter!Replaced(t2, "data", dat)
           t4 == Adapter!Replaced(t3, "model_json", m)
           t5 == Adapter!Replaced(t4, "instructions_json", ins)
           t6 == Adapter!Replaced(t5, "data_json", dat)
           t7 == Adapter!Replaced(t6, "thinking", l)
           t8 == Adapter!Replaced(t7, "thinking_json", l)
           R(t) == Adapter!Range(t)
           Step(t, u, name, value) ==
             /\ u \in Seq(S)
             /\ \A w \in R(t) : w # name => w \in R(u)
             /\ name \in R(t) => R(value) \subseteq R(u)
<1>1. m \in Seq(S) /\ l \in Seq(S) /\ ins \in Seq(S) /\ dat \in Seq(S)
  OBVIOUS
<1>2. R(l) = {level}
  BY DEF Adapter!Range
<1>3. Adapter!Rendered(template, model, prompt, level) = t8
  BY Zenon DEF Adapter!Rendered
<1> HIDE DEF m, l, ins, dat
<1>4. \A name : \A t \in Seq(S), value \in Seq(S) :
        Step(t, Adapter!Replaced(t, name, value), name, value)
  BY ReplacedHolds
<1> HIDE DEF Step
<1>a. Step(template, t1, "model", m)
  BY <1>1, <1>4
<1>b. t1 \in Seq(S)
  BY <1>a DEF Step
<1>c. Step(t1, t2, "instructions", ins)
  BY <1>1, <1>4, <1>b
<1>d. t2 \in Seq(S)
  BY <1>c DEF Step
<1>e. Step(t2, t3, "data", dat)
  BY <1>1, <1>4, <1>d
<1>f. t3 \in Seq(S)
  BY <1>e DEF Step
<1>g. Step(t3, t4, "model_json", m)
  BY <1>1, <1>4, <1>f
<1>h. t4 \in Seq(S)
  BY <1>g DEF Step
<1>i. Step(t4, t5, "instructions_json", ins)
  BY <1>1, <1>4, <1>h
<1>j. t5 \in Seq(S)
  BY <1>i DEF Step
<1>k. Step(t5, t6, "data_json", dat)
  BY <1>1, <1>4, <1>j
<1>l. t6 \in Seq(S)
  BY <1>k DEF Step
<1>m. Step(t6, t7, "thinking", l)
  BY <1>1, <1>4, <1>l
<1>n. t7 \in Seq(S)
  BY <1>m DEF Step
<1>o. Step(t7, t8, "thinking_json", l)
  BY <1>1, <1>4, <1>n
<1> HIDE DEF t1, t2, t3, t4, t5, t6, t7, t8, R
<1>5. /\ \A w \in R(ins) \cup R(dat) \cup R(l) : w \notin Placeholders
      /\ \E w \in R(template) : w \in {"instructions", "instructions_json"}
      /\ \E w \in R(template) : w \in {"data", "data_json"}
      /\ \E w \in R(template) : w \in {"thinking", "thinking_json"}
  BY <1>2 DEF Adapter!CarriesAll, Adapter!Carries, R, ins, dat
<1>6. R(ins) \subseteq R(t8)
  <2>1. CASE "instructions" \in R(template)
    <3>1. R(ins) \subseteq R(t2)
      BY <1>a, <1>c, <2>1 DEF Step
    <3>2. R(ins) \subseteq R(t5)
      BY <1>e, <1>g, <1>i, <1>5, <3>1 DEF Step, Placeholders
    <3> QED  BY <1>k, <1>m, <1>o, <1>5, <3>2 DEF Step, Placeholders
  <2>2. CASE "instructions_json" \in R(template)
    <3>1. "instructions_json" \in R(t4)
      BY <1>a, <1>c, <1>e, <1>g, <2>2 DEF Step
    <3>2. R(ins) \subseteq R(t5)
      BY <1>i, <3>1 DEF Step
    <3> QED  BY <1>k, <1>m, <1>o, <1>5, <3>2 DEF Step, Placeholders
  <2> QED  BY <1>5, <2>1, <2>2
<1>7. R(dat) \subseteq R(t8)
  <2>1. CASE "data" \in R(template)
    <3>1. R(dat) \subseteq R(t3)
      BY <1>a, <1>c, <1>e, <2>1 DEF Step
    <3>2. R(dat) \subseteq R(t6)
      BY <1>g, <1>i, <1>k, <1>5, <3>1 DEF Step, Placeholders
    <3> QED  BY <1>m, <1>o, <1>5, <3>2 DEF Step, Placeholders
  <2>2. CASE "data_json" \in R(template)
    <3>1. "data_json" \in R(t5)
      BY <1>a, <1>c, <1>e, <1>g, <1>i, <2>2 DEF Step
    <3>2. R(dat) \subseteq R(t6)
      BY <1>k, <3>1 DEF Step
    <3> QED  BY <1>m, <1>o, <1>5, <3>2 DEF Step, Placeholders
  <2> QED  BY <1>5, <2>1, <2>2
<1>8. R(l) \subseteq R(t8)
  <2>1. CASE "thinking" \in R(template)
    <3>1. "thinking" \in R(t6)
      BY <1>a, <1>c, <1>e, <1>g, <1>i, <1>k, <2>1 DEF Step
    <3> QED  BY <1>m, <1>o, <1>5, <3>1 DEF Step, Placeholders
  <2>2. CASE "thinking_json" \in R(template)
    <3>1. "thinking_json" \in R(t7)
      BY <1>a, <1>c, <1>e, <1>g, <1>i, <1>k, <1>m, <2>2 DEF Step
    <3> QED  BY <1>o, <3>1 DEF Step
  <2> QED  BY <1>5, <2>1, <2>2
<1> QED
  BY <1>2, <1>3, <1>6, <1>7, <1>8 DEF R, ins, dat

\* Without a template.
LEMMA PlainBodyHolds ==
  ASSUME NEW S, NEW a \in S, NEW b \in S, NEW ins \in Seq(S), NEW dat \in Seq(S), NEW t \in Seq(S)
  PROVE  /\ Adapter!Range(ins) \subseteq Adapter!Range(<<a, b>> \o ins \o dat \o t)
         /\ Adapter!Range(dat) \subseteq Adapter!Range(<<a, b>> \o ins \o dat \o t)
         /\ Adapter!Range(t) \subseteq Adapter!Range(<<a, b>> \o ins \o dat \o t)
<1>1. <<a, b>> \in Seq(S)
  OBVIOUS
<1>2. /\ <<a, b>> \o ins \in Seq(S)
      /\ Adapter!Range(ins) \subseteq Adapter!Range(<<a, b>> \o ins)
  BY <1>1, ConcatHolds, Zenon
<1>3. /\ <<a, b>> \o ins \o dat \in Seq(S)
      /\ Adapter!Range(<<a, b>> \o ins) \subseteq Adapter!Range(<<a, b>> \o ins \o dat)
      /\ Adapter!Range(dat) \subseteq Adapter!Range(<<a, b>> \o ins \o dat)
  BY <1>2, ConcatHolds, Zenon
<1>4. /\ Adapter!Range(<<a, b>> \o ins \o dat) \subseteq Adapter!Range(<<a, b>> \o ins \o dat \o t)
      /\ Adapter!Range(t) \subseteq Adapter!Range(<<a, b>> \o ins \o dat \o t)
  BY <1>3, ConcatHolds, Zenon
<1> QED  BY <1>2, <1>3, <1>4, Zenon

LEMMA RangeOfOne == \A w : Adapter!Range(<<w>>) = {w}
BY DEF Adapter!Range

LEMMA WordsFit ==
  ASSUME NEW W, NEW model, NEW format, {"low", "medium", "high", "enabled"} \subseteq W
  PROVE  LET S == W \cup {model, format} IN
         /\ model \in S /\ format \in S /\ "enabled" \in S
         /\ <<"enabled">> \in Seq(S)
         /\ \A t \in Seq(W) : t \in Seq(S)
         /\ \A w \in {"low", "medium", "high"} : w \in S /\ <<w>> \in Seq(S)
<1> DEFINE S == W \cup {model, format}
<1>1. /\ model \in S /\ format \in S /\ W \subseteq S
      /\ \A w \in {"low", "medium", "high", "enabled"} : w \in S
  OBVIOUS
<1> HIDE DEF S
<1>2. /\ \A t \in Seq(W) : t \in Seq(S)
      /\ \A w \in S : <<w>> \in Seq(S)
  BY <1>1
<1>3. \A w \in {"low", "medium", "high", "enabled"} : w \in S /\ <<w>> \in Seq(S)
  BY <1>1, <1>2, Zenon
<1> QED  BY <1>1, <1>2, <1>3, Zenon DEF S

LEMMA BodiesAlwaysCarryTheirPrompt ==
  ASSUME NEW s, NEW keys, NEW prompt, NEW W,
         {"low", "medium", "high", "enabled"} \subseteq W, s.template \in Seq(W),
         prompt.instructions \in Seq(W), prompt.data \in Seq(W),
         (Adapter!Range(prompt.instructions) \cup Adapter!Range(prompt.data)) \cap Placeholders = {}
  PROVE  Adapter!BodiesCarryTheirPrompt(s, keys, prompt)
<1> DEFINE c == Adapter!Config("core", "environment", s, keys)
           Said(adapter) == Adapter!Range(Adapter!Body(adapter, c, prompt))
           Asks == {"low", "medium", "high", "enabled"}
<1>1. c.template = s.template /\ c.thinking = Adapter!Thinking(s.thinking)
  BY Zenon DEF Adapter!Config
<1> HIDE DEF c
<1> SUFFICES ASSUME Adapter!Missing("core", c, <<"task">>) = "", NEW adapter \in {"core", "vibe"}
             PROVE  /\ Adapter!Range(prompt.instructions) \cup Adapter!Range(prompt.data)
                         \subseteq Said(adapter)
                    /\ Said(adapter) \cap Asks # {}
  BY Zenon DEF Adapter!BodiesCarryTheirPrompt, c
<1>2. c.thinking # <<>> /\ Adapter!CarriesAll(c.template)
  BY DEF Adapter!Missing
<1>3. PICK level \in {"low", "medium", "high"} : c.thinking = <<level>>
  BY <1>1, <1>2, Zenon DEF Adapter!Thinking
<1> DEFINE S == W \cup {c.model, c.format}
<1>4. /\ level \in S /\ "enabled" \in S /\ c.model \in S /\ c.format \in S
      /\ c.template \in Seq(S) /\ prompt.instructions \in Seq(S) /\ prompt.data \in Seq(S)
      /\ <<level>> \in Seq(S) /\ <<"enabled">> \in Seq(S)
  BY <1>1, WordsFit, Zenon
<1>5. Adapter!Range(<<level>>) = {level} /\ Adapter!Range(<<"enabled">>) = {"enabled"}
  BY RangeOfOne, Zenon
<1>6. level \notin Placeholders
  BY <1>3 DEF Placeholders
<1> HIDE DEF S
<1>7. CASE c.template # <<>>
  <2>0. (Adapter!Range(prompt.instructions) \cup Adapter!Range(prompt.data) \cup {level})
          \cap Placeholders = {}
    BY <1>6
  <2>1. Adapter!Body(adapter, c, prompt) = Adapter!Rendered(c.template, c.model, prompt, level)
    <3>1. <<level>>[1] = level
      OBVIOUS
    <3> QED  BY <1>3, <1>7, <3>1, Zenon DEF Adapter!Body
  <2>2. Adapter!Range(prompt.instructions) \cup Adapter!Range(prompt.data) \cup {level}
          \subseteq Adapter!Range(Adapter!Rendered(c.template, c.model, prompt, level))
    BY <1>2, <1>4, <1>7, <2>0, RenderedHolds
  <2> QED  BY <1>3, <2>1, <2>2
<1>8. CASE c.template = <<>>
  <2>1. PICK t \in {<<"enabled">>, <<level>>} :
          Adapter!Body(adapter, c, prompt)
            = <<c.format, c.model>> \o prompt.instructions \o prompt.data \o t
    <3>1. c.template = <<>>
      BY <1>8
    <3> QED  BY <1>3, <3>1, Zenon DEF Adapter!Body
  <2>2. t \in Seq(S) /\ Adapter!Range(t) \cap Asks # {}
    BY <1>3, <1>4, <1>5, <2>1
  <2>3. /\ Adapter!Range(prompt.instructions) \subseteq Said(adapter)
        /\ Adapter!Range(prompt.data) \subseteq Said(adapter)
        /\ Adapter!Range(t) \subseteq Said(adapter)
    BY <1>4, <2>1, <2>2, PlainBodyHolds
  <2> HIDE DEF Said
  <2> QED  BY <2>2, <2>3
<1> QED  BY <1>7, <1>8

\* A search stops at the first place it looks for.
LEMMA LeastIs ==
  ASSUME NEW places \in SUBSET Int, NEW m \in places, \A j \in places : m <= j
  PROVE  Adapter!Least(places) = m
<1>1. \A i \in places : (\A j \in places : i <= j) => i = m
  OBVIOUS
<1> QED  BY <1>1, Zenon DEF Adapter!Least

LEMMA LeastIsThere ==
  ASSUME NEW places \in SUBSET Nat, places # {}
  PROVE  Adapter!Least(places) \in places /\ \A j \in places : Adapter!Least(places) <= j
<1>1. \E i \in places : \A j \in places : i <= j
  BY Expanding!LeastNumber, PlanFilesAssumption
<1> QED  BY <1>1, Zenon DEF Adapter!Least

\* The blocks of a response, whose words are in W but for those of its thinking.
BlocksSay(blocks, W) ==
  /\ Len(blocks) \in Nat /\ DOMAIN blocks = 1..Len(blocks)
  /\ \A i \in DOMAIN blocks : Adapter!Speaks(blocks[i]) => blocks[i].text \in Seq(W)
ItemsSay(items, W) ==
  /\ Len(items) \in Nat /\ DOMAIN items = 1..Len(items)
  /\ \A i \in DOMAIN items : ~Adapter!Silent(items[i]) => BlocksSay(items[i].content[1], W)

\* chat_completion_text: what is read of the blocks is the text of those that speak.
LEMMA SpokenIsSaid ==
  ASSUME NEW W, NEW blocks, BlocksSay(blocks, W)
  PROVE  Adapter!Spoken(blocks) \in Seq(W)
<1> DEFINE n == Len(blocks)
           word(i) == IF Adapter!Speaks(blocks[i]) THEN blocks[i].text ELSE <<>>
           e == [i \in 1..n |-> word(i)]
           Sums(f) == f = [i \in 0..n |-> IF i = 0 THEN <<>> ELSE f[i - 1] \o word(i)]
           f == CHOOSE h : Sums(h)
<1>1. Adapter!Spoken(blocks) = f[n]
  BY Zenon DEF Adapter!Spoken
<1>2. n \in Nat /\ \A i \in 1..n : Adapter!Speaks(blocks[i]) => blocks[i].text \in Seq(W)
  BY Zenon DEF BlocksSay
<1>3. \A i \in 1..n : e[i] = word(i)
  <2> HIDE DEF word
  <2> QED  OBVIOUS
<1>4. \A i \in 0..n : i = 0 \/ i \in 1..n
  BY <1>2
<1>5. \A h : Sums(h) <=> Joins(h, e, n)
  <2> TAKE h
  <2>1. \A i \in 0..n : (IF i = 0 THEN <<>> ELSE h[i - 1] \o word(i))
                         = (IF i = 0 THEN <<>> ELSE h[i - 1] \o e[i])
    <3> HIDE DEF word, e
    <3> QED  BY <1>3, <1>4, Zenon
  <2>2. [i \in 0..n |-> IF i = 0 THEN <<>> ELSE h[i - 1] \o word(i)]
          = [i \in 0..n |-> IF i = 0 THEN <<>> ELSE h[i - 1] \o e[i]]
    <3> HIDE DEF word, e
    <3> QED  BY <2>1, Zenon
  <2> QED  BY <2>2, Zenon DEF Joins
<1>6. \E h : Sums(h)
  <2>1. \E h : Joins(h, e, n)
    BY <1>2, JoinsExist
  <2> HIDE DEF Sums, e
  <2> QED  BY <2>1, <1>5
<1>7. Sums(f)
  <2> HIDE DEF Sums
  <2> QED  BY <1>6, Zenon
<1>8. Joins(f, e, n)
  <2> HIDE DEF Sums, f, e
  <2> QED  BY <1>5, <1>7
<1>9. \A i \in 1..n : e[i] \in Seq(W)
  <2>1. <<>> \in Seq(W)
    OBVIOUS
  <2>2. \A i \in 1..n : word(i) \in Seq(W)
    BY <1>2, <2>1, Zenon
  <2> HIDE DEF word, e
  <2> QED  BY <1>3, <2>2
<1> HIDE DEF f, Sums, e
<1> QED  BY <1>1, <1>2, <1>8, <1>9, JoinsHold, Zenon

\* What the two adapters read of the items of a response: the same, or nothing.
LEMMA ItemsAreRead ==
  ASSUME NEW W, NEW items, ItemsSay(items, W)
  PROVE  LET core == Adapter!ReadItems("core", items)
             vibe == Adapter!ReadItems("vibe", items)
         IN  /\ core \in Seq(W) /\ vibe \in Seq(W)
             /\ core = <<>> \/ core = vibe
             /\ (\A i \in DOMAIN items : ~Adapter!Silent(items[i])) => core = vibe
<1> DEFINE Spoken(adapter) ==
             {i \in Adapter!Reads(adapter, items) : Adapter!Speaking(items[i].content[1]) # {}}
           TextAt(i) == items[i].content[1][Adapter!Least(Adapter!Speaking(items[i].content[1]))].text
<1>1. \A adapter : Adapter!ReadItems(adapter, items) =
        IF Spoken(adapter) = {} THEN <<>> ELSE TextAt(Adapter!Least(Spoken(adapter)))
  BY Zenon DEF Adapter!ReadItems
<1>2. /\ Adapter!Reads("core", items)
           = {i \in DOMAIN items : \A j \in 1..i : ~Adapter!Silent(items[j])}
      /\ Adapter!Reads("vibe", items) = {i \in DOMAIN items : ~Adapter!Silent(items[i])}
  BY DEF Adapter!Reads
<1>3. /\ DOMAIN items \in SUBSET Nat
      /\ \A i \in DOMAIN items : i \in 1..i
      /\ \A i, k \in DOMAIN items : k <= i => \A j \in 1..k : j \in 1..i
  BY DEF ItemsSay
<1>4. \A adapter \in {"core", "vibe"} :
        Spoken(adapter) \in SUBSET {i \in DOMAIN items : ~Adapter!Silent(items[i])}
  BY <1>2, <1>3, Zenon
<1>5. \A adapter \in {"core", "vibe"} : Spoken(adapter) \in SUBSET Nat
  BY <1>3, <1>4
<1>6. \A i \in DOMAIN items :
        ~Adapter!Silent(items[i]) /\ Adapter!Speaking(items[i].content[1]) # {} =>
          TextAt(i) \in Seq(W)
  <2> SUFFICES ASSUME NEW i \in DOMAIN items, ~Adapter!Silent(items[i]),
                      Adapter!Speaking(items[i].content[1]) # {}
               PROVE  TextAt(i) \in Seq(W)
    OBVIOUS
  <2> DEFINE blocks == items[i].content[1]
  <2>1. BlocksSay(blocks, W)
    BY DEF ItemsSay
  <2> HIDE DEF blocks
  <2>2. Adapter!Speaking(blocks) \in SUBSET Nat
    BY <2>1 DEF BlocksSay, Adapter!Speaking
  <2>3. Adapter!Speaking(blocks) # {}
    BY DEF blocks
  <2>4. Adapter!Least(Adapter!Speaking(blocks)) \in Adapter!Speaking(blocks)
    BY <2>2, <2>3, LeastIsThere
  <2>5. blocks[Adapter!Least(Adapter!Speaking(blocks))].text \in Seq(W)
    BY <2>1, <2>4, Zenon DEF BlocksSay, Adapter!Speaking
  <2> QED  BY <2>5, Zenon DEF blocks
<1>7. \A adapter \in {"core", "vibe"} : Spoken(adapter) # {} =>
        /\ Adapter!Least(Spoken(adapter)) \in Spoken(adapter)
        /\ \A j \in Spoken(adapter) : Adapter!Least(Spoken(adapter)) <= j
  <2> HIDE DEF Spoken
  <2> QED  BY <1>5, LeastIsThere
<1>8. \A adapter \in {"core", "vibe"} : Adapter!ReadItems(adapter, items) \in Seq(W)
  <2>1. <<>> \in Seq(W)
    OBVIOUS
  <2>2. \A adapter \in {"core", "vibe"} : \A i \in Spoken(adapter) :
          TextAt(i) \in Seq(W)
    BY <1>4, <1>6, Zenon
  <2> HIDE DEF Spoken, TextAt
  <2> QED  BY <1>1, <1>7, <2>1, <2>2
<1>9. Spoken("core") # {} => Adapter!Least(Spoken("vibe")) = Adapter!Least(Spoken("core"))
  <2> SUFFICES ASSUME Spoken("core") # {}
               PROVE  Adapter!Least(Spoken("vibe")) = Adapter!Least(Spoken("core"))
    OBVIOUS
  <2>1. Spoken("core") \subseteq Spoken("vibe")
    BY <1>2, <1>3, Zenon
  <2> DEFINE m == Adapter!Least(Spoken("vibe"))
             k == Adapter!Least(Spoken("core"))
  <2>2. /\ m \in Spoken("vibe") /\ \A j \in Spoken("vibe") : m <= j
        /\ k \in Spoken("core") /\ \A j \in Spoken("core") : k <= j
    <3> HIDE DEF Spoken
    <3> QED  BY <1>7, <2>1
  <2> HIDE DEF m, k
  <2>3. m <= k
    <3> HIDE DEF Spoken
    <3> QED  BY <2>1, <2>2
  <2>4. m \in DOMAIN items /\ k \in DOMAIN items /\ \A j \in 1..k : ~Adapter!Silent(items[j])
    BY <1>2, <2>2, Zenon
  <2>5. \A j \in 1..m : ~Adapter!Silent(items[j])
    BY <1>3, <2>3, <2>4, Zenon
  <2>6. m \in Spoken("core")
    BY <1>2, <2>2, <2>4, <2>5, Zenon
  <2>7. m \in Nat /\ k \in Nat
    BY <1>3, <2>4
  <2>8. m = k
    <3> HIDE DEF Spoken
    <3> QED  BY <2>2, <2>3, <2>6, <2>7
  <2> QED  BY <2>8 DEF m, k
<1>10. Adapter!ReadItems("core", items) = <<>>
        \/ Adapter!ReadItems("core", items) = Adapter!ReadItems("vibe", items)
  <2>1. Spoken("core") \subseteq Spoken("vibe")
    BY <1>2, <1>3, Zenon
  <2>2. Spoken("core") # {} => Spoken("vibe") # {}
    <3> HIDE DEF Spoken
    <3> QED  BY <2>1
  <2> HIDE DEF Spoken, TextAt
  <2> QED  BY <1>1, <1>9, <2>2
<1>11. (\A i \in DOMAIN items : ~Adapter!Silent(items[i])) =>
         Adapter!ReadItems("core", items) = Adapter!ReadItems("vibe", items)
  <2> SUFFICES ASSUME \A i \in DOMAIN items : ~Adapter!Silent(items[i])
               PROVE  Adapter!ReadItems("core", items) = Adapter!ReadItems("vibe", items)
    OBVIOUS
  <2>1. \A i \in DOMAIN items : \A j \in 1..i : j \in DOMAIN items
    BY DEF ItemsSay
  <2>2. Adapter!Reads("core", items) = Adapter!Reads("vibe", items)
    BY <1>2, <2>1, Zenon
  <2>3. Spoken("core") = Spoken("vibe")
    BY <2>2, Zenon
  <2> HIDE DEF Spoken, TextAt
  <2> QED  BY <1>1, <2>3
<1> QED
  BY <1>8, <1>10, <1>11

\* A response whose texts are in W.
ResponseSays(r, W) ==
  /\ r.direct \in Seq(W) /\ r.preferred \in Seq(W) /\ ItemsSay(r.items, W)
  /\ r.items # <<>> => 1 \in DOMAIN r.items

LEMMA TextsAreRead ==
  ASSUME NEW W, NEW r, ResponseSays(r, W), NEW format
  PROVE  LET core == Adapter!TextOf("core", format, r)
             vibe == Adapter!TextOf("vibe", format, r)
         IN  /\ core \in Seq(W) /\ vibe \in Seq(W)
             /\ core = <<>> \/ core = vibe
             /\ (\A i \in DOMAIN r.items : ~Adapter!Silent(r.items[i])) => core = vibe
<1>1. /\ Adapter!ReadItems("core", r.items) \in Seq(W)
      /\ Adapter!ReadItems("vibe", r.items) \in Seq(W)
      /\ Adapter!ReadItems("core", r.items) = <<>>
           \/ Adapter!ReadItems("core", r.items) = Adapter!ReadItems("vibe", r.items)
      /\ (\A i \in DOMAIN r.items : ~Adapter!Silent(r.items[i])) =>
           Adapter!ReadItems("core", r.items) = Adapter!ReadItems("vibe", r.items)
  BY ItemsAreRead DEF ResponseSays
<1>2. ~(r.items = <<>> \/ r.items[1].content = <<>>) =>
        Adapter!Spoken(r.items[1].content[1]) \in Seq(W)
  BY SpokenIsSaid DEF ResponseSays, ItemsSay, Adapter!Silent
<1>3. <<>> \in Seq(W) /\ r.direct \in Seq(W)
  BY DEF ResponseSays
<1>4. CASE r.direct # <<>>
  BY <1>3, <1>4, Zenon DEF Adapter!TextOf
<1>5. CASE r.direct = <<>> /\ format = "responses"
  <2>1. \A adapter : Adapter!TextOf(adapter, format, r) = Adapter!ReadItems(adapter, r.items)
    BY <1>5 DEF Adapter!TextOf
  <2> QED  BY <1>1, <2>1
<1>6. CASE r.direct = <<>> /\ format = "chat"
  <2>1. \A adapter : Adapter!TextOf(adapter, format, r) =
          IF r.items = <<>> \/ r.items[1].content = <<>> THEN <<>>
          ELSE Adapter!Spoken(r.items[1].content[1])
    BY <1>6 DEF Adapter!TextOf
  <2> QED  BY <1>2, <1>3, <2>1, Zenon
<1>7. CASE r.direct = <<>> /\ format \notin {"responses", "chat"}
  <2>1. \A adapter : Adapter!TextOf(adapter, format, r) = <<>>
    BY <1>7 DEF Adapter!TextOf
  <2> QED  BY <1>3, <2>1, Zenon
<1> QED  BY <1>4, <1>5, <1>6, <1>7

LEMMA AnswersAreAlwaysThought ==
  ASSUME NEW W, NEW r, ResponseSays(r, W), NEW format, NEW key, "hidden" \notin W
  PROVE  Adapter!AnswersAreThought(format, key, r)
<1> DEFINE core == Adapter!Answer("core", format, key, r)
           vibe == Adapter!Answer("vibe", format, key, r)
           textC == Adapter!TextOf("core", format, r)
           textV == Adapter!TextOf("vibe", format, r)
           Thinks == r.tokens > 0 \/ r.reasoning # <<>>
                     \/ \E i \in DOMAIN r.items :
                          \/ r.items[i].type \in Adapter!Reasons
                          \/ /\ r.items[i].content # <<>>
                             /\ \E b \in Adapter!Range(r.items[i].content[1]) :
                                  b.type \in Adapter!Reasons
<1>1. Adapter!Thought(format, r) => Thinks
  <2>1. CASE format = "responses"
    BY <2>1 DEF Adapter!Thought
  <2>2. CASE format = "chat"
    BY <2>2 DEF Adapter!Thought, ResponseSays
  <2>3. CASE format \notin {"responses", "chat"}
    BY <2>3 DEF Adapter!Thought
  <2> QED  BY <2>1, <2>2, <2>3
<1>2. /\ textC \in Seq(W) /\ textV \in Seq(W) /\ (textC = <<>> \/ textC = textV)
      /\ (\A i \in DOMAIN r.items : ~Adapter!Silent(r.items[i])) => textC = textV
  BY TextsAreRead
<1>3. core # <<>> => Adapter!Thought(format, r)
  BY Zenon DEF Adapter!Answer
<1>4. \/ core = <<>> /\ vibe = <<>>
      \/ core = r.preferred /\ vibe = r.preferred
      \/ core = textC /\ vibe = textV
  <2> HIDE DEF Thinks
  <2>1. CASE r.error \/ ~Adapter!Thought(format, r)
    <3>1. core = <<>> /\ vibe = <<>>
      BY <2>1, Zenon DEF Adapter!Answer
    <3> QED  BY <3>1
  <2>2. CASE /\ ~(r.error \/ ~Adapter!Thought(format, r))
             /\ key \notin {"", "output_text"} /\ r.preferred # <<>>
    <3>1. core = r.preferred /\ vibe = r.preferred
      BY <2>2, Zenon DEF Adapter!Answer
    <3> QED  BY <3>1
  <2>3. CASE /\ ~(r.error \/ ~Adapter!Thought(format, r))
             /\ ~(key \notin {"", "output_text"} /\ r.preferred # <<>>)
    <3>1. core = textC /\ vibe = textV
      BY <2>3, Zenon DEF Adapter!Answer
    <3> QED  BY <3>1
  <2> HIDE DEF core, vibe, textC, textV
  <2> QED  BY <2>1, <2>2, <2>3
<1>5. \A w \in Seq(W) : "hidden" \notin Adapter!Range(w)
  BY DEF Adapter!Range
<1>6. <<>> \in Seq(W) /\ r.preferred \in Seq(W)
  BY DEF ResponseSays
<1> HIDE DEF core, vibe, textC, textV, Thinks
<1>7. core \in Seq(W) /\ vibe \in Seq(W)
  BY <1>2, <1>4, <1>6
<1>8. "hidden" \notin Adapter!Range(core) \cup Adapter!Range(vibe)
  BY <1>5, <1>7
<1>9. core \in {<<>>, vibe}
  BY <1>2, <1>4
<1>10. (\A i \in DOMAIN r.items : r.items[i].content # <<>>) => core = vibe
  BY <1>2, <1>4 DEF Adapter!Silent
<1>11. core # <<>> => Thinks
  BY <1>1, <1>3
<1> QED
  BY <1>8, <1>9, <1>10, <1>11, Zenon DEF Adapter!AnswersAreThought, core, vibe, Thinks

\* For every setting, prompt, retrieval, end of a curl and response: a key goes to the
\* provider it belongs to and what is ready can be prepared (ProviderConfig,
\* prepare_call_with_atoms); a body carries the whole prompt, which itself holds no
\* placeholder, and asks for thinking (provider_body, render_body_template); two
\* calls of one plan whose titles are the same send the same (work_fingerprint); an
\* answer, an error of a server or of curl itself ends a call, and a curl that was
\* killed before it sent anything does not (post_json); and only an answer that was
\* thought about is read, never the thinking (parse_provider_text, parse_receipt).  A
\* variable that is set to the empty word counts as blank.
THEOREM EveryCallIsFaithful ==
  /\ \A s, keys : s.header # "" => Adapter!SettingsAgree(s, keys)
  /\ \A W, s, keys, prompt :
       /\ {"low", "medium", "high", "enabled"} \subseteq W /\ s.template \in Seq(W)
       /\ prompt.instructions \in Seq(W) /\ prompt.data \in Seq(W)
       /\ (Adapter!Range(prompt.instructions) \cup Adapter!Range(prompt.data))
            \cap Placeholders = {}
       => Adapter!BodiesCarryTheirPrompt(s, keys, prompt)
  /\ \A S, s, t, keys, later : \A evidence, other \in Seq(S) :
       Adapter!PlansFollowTheirCalls(s, t, keys, later, evidence, other)
  /\ \A ends \in [1..3 -> Adapter!Ends] : Adapter!FailuresAreFinal(ends)
  /\ \A W, r, format, key :
       ResponseSays(r, W) /\ "hidden" \notin W => Adapter!AnswersAreThought(format, key, r)
<1>1. \A s, keys : s.header # "" => Adapter!SettingsAgree(s, keys)
  BY SettingsAlwaysAgree
<1>2. \A W, s, keys, prompt :
        /\ {"low", "medium", "high", "enabled"} \subseteq W /\ s.template \in Seq(W)
        /\ prompt.instructions \in Seq(W) /\ prompt.data \in Seq(W)
        /\ (Adapter!Range(prompt.instructions) \cup Adapter!Range(prompt.data))
             \cap Placeholders = {}
        => Adapter!BodiesCarryTheirPrompt(s, keys, prompt)
  BY BodiesAlwaysCarryTheirPrompt
<1>3. \A S, s, t, keys, later : \A evidence, other \in Seq(S) :
        Adapter!PlansFollowTheirCalls(s, t, keys, later, evidence, other)
  BY PlansAlwaysFollowTheirCalls
<1>4. \A ends \in [1..3 -> Adapter!Ends] : Adapter!FailuresAreFinal(ends)
  BY FailuresAreAlwaysFinal
<1>5. \A W, r, format, key :
        ResponseSays(r, W) /\ "hidden" \notin W => Adapter!AnswersAreThought(format, key, r)
  BY AnswersAreAlwaysThought
<1> QED  BY <1>1, <1>2, <1>3, <1>4, <1>5

(***************************************************************************)
(* The inputs of the run.                                                  *)
(***************************************************************************)
Words == {"low", "medium", "high", "enabled", "do", "it", "with", "this", "lit", "instructions",
          "instructions_json", "data", "data_json", "thinking", "thinking_json"}
Sensible(s) == DOMAIN s = DOMAIN Unset /\ s.header # "" /\ s.template \in Seq(Words)

LEMMA UnsetIsSensible == Sensible(Unset)
<1>1. Unset.header # "" /\ Unset.template = <<>>
  BY DEF Unset
<1>2. <<>> \in Seq(Words)
  OBVIOUS
<1> QED  BY <1>1, <1>2, Zenon DEF Sensible

LEMMA WithKeeps ==
  ASSUME NEW s, Sensible(s), NEW t \in With(s)
  PROVE  Sensible(t)
<1>1. PICK n \in DOMAIN Unset : \E w \in WordsOf(n) : t = [s EXCEPT ![n] = w]
  BY Zenon DEF With
<1>2. PICK w \in WordsOf(n) : t = [s EXCEPT ![n] = w]
  BY <1>1
<1>3. DOMAIN t = DOMAIN s
  BY <1>2
<1>4. {"header", "template"} \subseteq DOMAIN s
  BY DEF Sensible, Unset
<1>5. t.header # ""
  <2>1. CASE n = "header"
    <3>1. w \in {"unset", "bad", "X-Key"}
      BY <1>2, <2>1 DEF WordsOf
    <3> QED  BY <1>2, <1>4, <2>1, <3>1
  <2>2. CASE n # "header"
    BY <1>2, <1>4, <2>2 DEF Sensible
  <2> QED  BY <2>1, <2>2
<1>6. t.template \in Seq(Words)
  <2>1. CASE n = "template"
    <3>1. w \in {<<>>, <<"instructions", "data_json", "thinking">>, <<"data", "instructions_json">>,
                 <<"data_json", "thinking_json", "instructions", "lit">>}
      BY <1>2, <2>1 DEF WordsOf
    <3>2. /\ <<>> \in Seq(Words)
          /\ \A a, b \in Words : <<a, b>> \in Seq(Words)
          /\ \A a, b, c \in Words : <<a, b, c>> \in Seq(Words)
          /\ \A a, b, c, d \in Words : <<a, b, c, d>> \in Seq(Words)
      OBVIOUS
    <3>3. /\ <<"instructions", "data_json", "thinking">> \in Seq(Words)
          /\ <<"data", "instructions_json">> \in Seq(Words)
          /\ <<"data_json", "thinking_json", "instructions", "lit">> \in Seq(Words)
      <4>1. {"instructions", "instructions_json", "data", "data_json", "thinking", "thinking_json",
             "lit"} \subseteq Words
        BY DEF Words
      <4>2. /\ "instructions" \in Words /\ "instructions_json" \in Words /\ "data" \in Words
            /\ "data_json" \in Words /\ "thinking" \in Words /\ "thinking_json" \in Words
            /\ "lit" \in Words
        BY <4>1
      <4> QED  BY <3>2, <4>2, Zenon
    <3>4. w \in Seq(Words)
      BY <3>1, <3>2, <3>3, Zenon
    <3> QED  BY <1>2, <1>4, <2>1, <3>4
  <2>2. CASE n # "template"
    BY <1>2, <1>4, <2>2 DEF Sensible
  <2> QED  BY <2>1, <2>2
<1> QED  BY <1>3, <1>5, <1>6, Zenon DEF Sensible

Prompt == [instructions |-> <<"do", "it">>, data |-> <<"with", "this">>]

LEMMA SettingsHold ==
  ASSUME NEW s \in WithTwo, NEW keys
  PROVE  Adapter!SettingsAgree(s, keys) /\ Adapter!BodiesCarryTheirPrompt(s, keys, Prompt)
<1>1. PICK u \in With(Unset) : s \in With(u)
  BY Zenon DEF WithTwo
<1>2. Sensible(u)
  BY <1>1, UnsetIsSensible, WithKeeps, Zenon
<1>3. s.header # "" /\ s.template \in Seq(Words)
  BY <1>1, <1>2, WithKeeps, Zenon DEF Sensible
<1>4. Prompt.instructions \in Seq(Words) /\ Prompt.data \in Seq(Words)
  BY DEF Prompt, Words
<1>5. /\ Adapter!Range(Prompt.instructions) = {"do", "it"}
      /\ Adapter!Range(Prompt.data) = {"with", "this"}
  BY DEF Prompt, Adapter!Range
<1>6. (Adapter!Range(Prompt.instructions) \cup Adapter!Range(Prompt.data)) \cap Placeholders = {}
  BY <1>5 DEF Placeholders
<1>7. {"low", "medium", "high", "enabled"} \subseteq Words
  BY DEF Words
<1> QED
  BY <1>3, <1>4, <1>6, <1>7, SettingsAlwaysAgree, BodiesAlwaysCarryTheirPrompt

LEMMA RetrievalsAreSequences ==
  \E S : \A evidence \in Retrievals : evidence \in Seq(S)
<1> DEFINE S == {Nine[k] : k \in 1..9} \cup {[Nine[k] EXCEPT !.excerpt = "y"] : k \in 1..9}
                  \cup {[Nine[k] EXCEPT !.title = "new"] : k \in 1..9}
<1>1. Nine \in [1..9 -> S] /\ DOMAIN Nine = 1..9
  BY DEF Nine
<1>2. ASSUME NEW k \in 1..9 PROVE [Nine EXCEPT ![k].excerpt = "y"] \in [1..9 -> S]
  <2>1. [Nine EXCEPT ![k].excerpt = "y"] = [Nine EXCEPT ![k] = [Nine[k] EXCEPT !.excerpt = "y"]]
    BY Zenon
  <2>2. [Nine[k] EXCEPT !.excerpt = "y"] \in S
    OBVIOUS
  <2> HIDE DEF S
  <2> QED  BY <1>1, <2>1, <2>2
<1>7. ASSUME NEW k \in 1..9 PROVE [Nine EXCEPT ![k].title = "new"] \in [1..9 -> S]
  <2>1. [Nine EXCEPT ![k].title = "new"] = [Nine EXCEPT ![k] = [Nine[k] EXCEPT !.title = "new"]]
    BY Zenon
  <2>2. [Nine[k] EXCEPT !.title = "new"] \in S
    OBVIOUS
  <2> HIDE DEF S
  <2> QED  BY <1>1, <2>1, <2>2
<1> HIDE DEF S
<1>3. \A f \in [1..9 -> S] : f \in Seq(S)
  <2>1. 9 \in Nat
    OBVIOUS
  <2>2. \A n \in Nat : \A f \in [1..n -> S] : f \in Seq(S)
    BY Zenon, SeqDef
  <2> QED  BY <2>1, <2>2
<1>4. Nine \in Seq(S) /\ Len(Nine) = 9
  <2>1. Nine \in Seq(S)
    BY <1>1, <1>3
  <2>2. Len(Nine) \in Nat /\ DOMAIN Nine = 1..Len(Nine)
    BY <2>1
  <2>3. \A l \in Nat : 1..l = 1..9 => l = 9
    OBVIOUS
  <2> QED  BY <1>1, <2>1, <2>2, <2>3
<1>5. SubSeq(Nine, 1, 6) \in Seq(S) /\ SubSeq(Nine, 1, 8) \in Seq(S)
  <2>1. \A t \in Seq(S) : \A m \in 0..Len(t) : SubSeq(t, 1, m) \in Seq(S)
    OBVIOUS
  <2>2. 6 \in 0..9 /\ 8 \in 0..9
    OBVIOUS
  <2> QED  BY <1>4, <2>1, <2>2
<1>6. \A evidence \in Retrievals : evidence \in Seq(S)
  <2> SUFFICES ASSUME NEW evidence \in Retrievals PROVE evidence \in Seq(S)
    OBVIOUS
  <2>1. \/ evidence \in {Nine, SubSeq(Nine, 1, 6), SubSeq(Nine, 1, 8)}
        \/ \E k \in {1, 2, 6, 7, 8, 9} : evidence = [Nine EXCEPT ![k].excerpt = "y"]
        \/ \E k \in {6, 7} : evidence = [Nine EXCEPT ![k].title = "new"]
    BY Zenon DEF Retrievals
  <2>2. {1, 2, 6, 7, 8, 9} \subseteq 1..9 /\ {6, 7} \subseteq 1..9
    OBVIOUS
  <2>3. \A k \in {1, 2, 6, 7, 8, 9} : [Nine EXCEPT ![k].excerpt = "y"] \in Seq(S)
    BY <1>2, <1>3, <2>2
  <2>4. \A k \in {6, 7} : [Nine EXCEPT ![k].title = "new"] \in Seq(S)
    BY <1>3, <1>7, <2>2
  <2> QED  BY <1>4, <1>5, <2>1, <2>3, <2>4
<1> QED  BY <1>6

LEMMA ResponsesSay ==
  ASSUME NEW r \in Responses
  PROVE  ResponseSays(r, {"say"})
<1> DEFINE W == {"say"}
<1>1. /\ r.direct \in {<<>>, <<"say">>} /\ r.preferred \in {<<>>, <<"say">>}
      /\ r.items \in Upto(Items, 2)
  BY DEF Responses
<1>2. <<>> \in Seq(W) /\ <<"say">> \in Seq(W)
  OBVIOUS
<1> HIDE DEF W
<1>3. \A S : \A s \in Upto(S, 2) :
        Len(s) \in Nat /\ DOMAIN s = 1..Len(s) /\ \A i \in DOMAIN s : s[i] \in S
  BY DEF Upto
<1>4. ASSUME NEW b \in Blocks, Adapter!Speaks(b) PROVE b.text \in Seq(W)
  <2>1. PICK t \in {"text", "reasoning", "image"} : b = Block(t)
    BY DEF Blocks
  <2>2. t = "text"
    BY <1>4, <2>1 DEF Adapter!Speaks, Block
  <2>3. b.text = <<"say">>
    BY <2>1, <2>2 DEF Block, Adapter!Reasons
  <2> QED  BY <1>2, <2>3
<1>5. \A blocks \in Upto(Blocks, 2) : BlocksSay(blocks, W)
  BY <1>3, <1>4 DEF BlocksSay
<1>6. ASSUME NEW i \in DOMAIN r.items, ~Adapter!Silent(r.items[i])
      PROVE  BlocksSay(r.items[i].content[1], W)
  <2>1. r.items[i] \in Items
    BY <1>1, <1>3
  <2>2. PICK b \in Upto(Blocks, 2) : r.items[i].content = <<b>>
    BY <1>6, <2>1 DEF Items, Adapter!Silent
  <2>3. <<b>>[1] = b
    OBVIOUS
  <2> QED  BY <1>5, <2>2, <2>3
<1>7. r.items # <<>> => 1 \in DOMAIN r.items
  BY <1>1 DEF Upto
<1>8. Len(r.items) \in Nat /\ DOMAIN r.items = 1..Len(r.items)
  BY <1>1, <1>3
<1>9. r.direct \in Seq(W) /\ r.preferred \in Seq(W)
  BY <1>1, <1>2
<1>10. ItemsSay(r.items, W)
  BY <1>6, <1>8, Zenon DEF ItemsSay
<1>11. ResponseSays(r, W)
  BY <1>7, <1>9, <1>10, Zenon DEF ResponseSays
<1> QED  BY <1>11 DEF W

\* What is chosen as an input of a call is one of its inputs.
CallPart ==
  /\ Chosen("settings") => input.of \in SettingInputs
  /\ Chosen("pair") => input.of \in PairInputs
  /\ Chosen("retrieval") => input.of \in RetrievalInputs
  /\ Chosen("ends") => input.of \in EndInputs
  /\ Chosen("response") => input.of \in ResponseInputs

LEMMA CallPartStays ==
  CallPart /\ [PlanNext]_<<part, input, vars, planVars, harness, fast>> => CallPart'
<1> SUFFICES ASSUME CallPart, [PlanNext]_<<part, input, vars, planVars, harness, fast>>
             PROVE  CallPart'
  OBVIOUS
<1>0. part' = part
  BY DEF PlanNext, Choose
<1>1. ASSUME part' = "settings", input' # NoInput PROVE input'.of \in SettingInputs
  <2>1. UNCHANGED input \/ Choose("settings", SettingInputs)
    BY <1>0, <1>1 DEF PlanNext, Choose
  <2>2. CASE UNCHANGED input
    BY <1>0, <1>1, <2>2, Zenon DEF CallPart, Chosen, NoInput
  <2>3. CASE Choose("settings", SettingInputs)
    <3>1. PICK v \in SettingInputs : input' = [kind |-> "settings", of |-> v]
      BY <2>3, Zenon DEF Choose
    <3> QED  BY <3>1
  <2> QED  BY <2>1, <2>2, <2>3
<1>2. ASSUME part' = "pair", input' # NoInput PROVE input'.of \in PairInputs
  <2>1. UNCHANGED input \/ Choose("pair", PairInputs)
    BY <1>0, <1>2 DEF PlanNext, Choose
  <2>2. CASE UNCHANGED input
    BY <1>0, <1>2, <2>2, Zenon DEF CallPart, Chosen, NoInput
  <2>3. CASE Choose("pair", PairInputs)
    <3>1. PICK v \in PairInputs : input' = [kind |-> "pair", of |-> v]
      BY <2>3, Zenon DEF Choose
    <3> QED  BY <3>1
  <2> QED  BY <2>1, <2>2, <2>3
<1>3. ASSUME part' = "retrieval", input' # NoInput PROVE input'.of \in RetrievalInputs
  <2>1. UNCHANGED input \/ Choose("retrieval", RetrievalInputs)
    BY <1>0, <1>3 DEF PlanNext, Choose
  <2>2. CASE UNCHANGED input
    BY <1>0, <1>3, <2>2, Zenon DEF CallPart, Chosen, NoInput
  <2>3. CASE Choose("retrieval", RetrievalInputs)
    <3>1. PICK v \in RetrievalInputs : input' = [kind |-> "retrieval", of |-> v]
      BY <2>3, Zenon DEF Choose
    <3> QED  BY <3>1
  <2> QED  BY <2>1, <2>2, <2>3
<1>4. ASSUME part' = "response", input' # NoInput PROVE input'.of \in ResponseInputs
  <2>1. UNCHANGED input \/ Choose("response", ResponseInputs)
    BY <1>0, <1>4 DEF PlanNext, Choose
  <2>2. CASE UNCHANGED input
    BY <1>0, <1>4, <2>2, Zenon DEF CallPart, Chosen, NoInput
  <2>3. CASE Choose("response", ResponseInputs)
    <3>1. PICK v \in ResponseInputs : input' = [kind |-> "response", of |-> v]
      BY <2>3, Zenon DEF Choose
    <3> QED  BY <3>1
  <2> QED  BY <2>1, <2>2, <2>3
<1>5. ASSUME part' = "ends", input' # NoInput PROVE input'.of \in EndInputs
  <2>1. UNCHANGED input \/ Choose("ends", EndInputs)
    BY <1>0, <1>5 DEF PlanNext, Choose
  <2>2. CASE UNCHANGED input
    BY <1>0, <1>5, <2>2, Zenon DEF CallPart, Chosen, NoInput
  <2>3. CASE Choose("ends", EndInputs)
    <3>1. PICK v \in EndInputs : input' = [kind |-> "ends", of |-> v]
      BY <2>3, Zenon DEF Choose
    <3> QED  BY <3>1
  <2> QED  BY <2>1, <2>2, <2>3
<1>6. NoInput' = NoInput /\ EndInputs' = EndInputs
  BY DEF NoInput, EndInputs
<1> QED
  BY <1>1, <1>2, <1>3, <1>4, <1>5, <1>6, Zenon DEF CallPart, Chosen

\* Whatever a call is configured by, its key and its prompt go where it says
\* (ProviderConfig, provider_body); two calls with one plan send the same, where
\* the titles of their evidence are (work_fingerprint); an answer, an error of a
\* server or of curl itself ends a call (post_json); and only an answer that was
\* thought about is read (parse_provider_text, parse_receipt).
THEOREM CallsStayFaithful == PlanSpec => []CallsAreFaithful
<1>1. PlanInit => CallPart
  BY DEF PlanInit, CallPart, Chosen
<1>2. CallPart => CallsAreFaithful
  <2> SUFFICES ASSUME CallPart PROVE CallsAreFaithful
    OBVIOUS
  <2>1. Chosen("settings") =>
          /\ Adapter!SettingsAgree(input.of.settings, input.of.keys)
          /\ Adapter!BodiesCarryTheirPrompt(input.of.settings, input.of.keys,
               [instructions |-> <<"do", "it">>, data |-> <<"with", "this">>])
    <3> SUFFICES ASSUME Chosen("settings")
                 PROVE  /\ Adapter!SettingsAgree(input.of.settings, input.of.keys)
                        /\ Adapter!BodiesCarryTheirPrompt(input.of.settings, input.of.keys, Prompt)
      BY Zenon DEF Prompt
    <3>1. input.of.settings \in WithTwo
      BY DEF CallPart, SettingInputs
    <3> QED  BY <3>1, SettingsHold
  <2>2. Chosen("pair") =>
          Adapter!PlansFollowTheirCalls(input.of.one, input.of.other, Keys(KeyNames),
            [input.of.keys EXCEPT !["openai"] = "later"], <<>>, <<>>)
    <3>1. <<>> \in Seq({})
      OBVIOUS
    <3> QED  BY <3>1, PlansAlwaysFollowTheirCalls
  <2>3. Chosen("retrieval") =>
          Adapter!PlansFollowTheirCalls(Unset, Unset, Keys(KeyNames), Keys(KeyNames),
            input.of.one, input.of.other)
    <3> SUFFICES ASSUME Chosen("retrieval")
                 PROVE  Adapter!PlansFollowTheirCalls(Unset, Unset, Keys(KeyNames), Keys(KeyNames),
                          input.of.one, input.of.other)
      OBVIOUS
    <3>1. PICK S : \A evidence \in Retrievals : evidence \in Seq(S)
      BY RetrievalsAreSequences
    <3>2. input.of.one \in Retrievals /\ input.of.other \in Retrievals
      BY DEF CallPart, RetrievalInputs
    <3> QED  BY <3>1, <3>2, PlansAlwaysFollowTheirCalls
  <2>4. Chosen("ends") => Adapter!FailuresAreFinal(input.of)
    BY FailuresAreAlwaysFinal DEF CallPart, EndInputs
  <2>5. Chosen("response") =>
          Adapter!AnswersAreThought(input.of.format, input.of.key, input.of.response)
    <3> SUFFICES ASSUME Chosen("response")
                 PROVE  Adapter!AnswersAreThought(input.of.format, input.of.key, input.of.response)
      OBVIOUS
    <3>1. input.of.response \in Responses
      BY DEF CallPart, ResponseInputs
    <3>2. ResponseSays(input.of.response, {"say"}) /\ "hidden" \notin {"say"}
      BY <3>1, ResponsesSay
    <3> QED  BY <3>2, AnswersAreAlwaysThought
  <2> QED  BY <2>1, <2>2, <2>3, <2>4, <2>5, Zenon DEF CallsAreFaithful
<1> QED
  BY <1>1, <1>2, CallPartStays, PTL DEF PlanSpec
==============================================================================
