----------------------------- MODULE ProviderPlan -----------------------------
(***************************************************************************)
(* One provider work plan and the calls that execute it                    *)
(* (PreparedProviderCall::execute_work_plan and close_candidate_loop of    *)
(* math-atoms-core, over the stores of math-atoms-work and                 *)
(* math-atoms-verification).                                               *)
(*                                                                         *)
(* Every call of a plan runs under the lease of the plan (FileLease), so   *)
(* calls come one after the other.  A call may die at any step; what it    *)
(* wrote stays.  Writes of the two stores replace a file atomically and    *)
(* refuse to replace other bytes; the files of a candidate are written in  *)
(* place.  A file is its position in the manifest, a manifest answer the   *)
(* number of files it lists; the only other outputs kept apart are those   *)
(* of the final corrections, which are the deliverable.                    *)
(***************************************************************************)
EXTENDS WorkSchedule

CONSTANTS
  Contents,   (* complete contents a file may be given                     *)
  None,       (* nothing on disk                                           *)
  Torn,       (* a file that exists with part of its bytes                 *)
  Limit,      (* verification_attempt_limit of the route                   *)
  MaxCalls    (* bound: calls of the plan                                  *)

ASSUME ProviderPlanAssumption ==
  /\ Limit \in Nat \ {0} /\ MaxCalls \in Nat
  /\ None \notin Contents /\ Torn \notin Contents /\ None # Torn

Text      == 0   (* an output whose text does not matter here *)
Tries     == 3   (* PACKET_RESPONSE_ATTEMPTS and REPAIR_RESPONSE_ATTEMPTS *)
Ordinals  == 1..Limit
AllFiles  == 1..MaxFiles
Candidates == UNION {[1..n -> Contents] : n \in AllFiles}

VARIABLES
  expanded,   (* plan-expanded.json: its number of files, 0 for none       *)
  stored,     (* outputs of the stored packets                             *)
  written,    (* of each attempt, the candidate files on disk              *)
  attempts,   (* attempt.json of each attempt, or None                     *)
  drafts,     (* of each attempt, the files of its repair on disk          *)
  repairs,    (* repair.json of each attempt, or None                      *)
  final       (* verification-final.json: attempt and candidate, or None   *)
disk == <<expanded, stored, written, attempts, drafts, repairs, final>>

VARIABLES
  pc,         (* where the running call is                                 *)
  plan,       (* files of the plan in memory, 0 before it is expanded      *)
  index,      (* the next packet, or the next file to write                *)
  tries,      (* which response is being waited for                        *)
  ordinal,    (* the verification attempt                                  *)
  files,      (* the candidate in memory                                   *)
  targets,    (* files that still wait for a repair                        *)
  answer      (* a packet output not yet stored                            *)
call == <<pc, plan, index, tries, ordinal, files, targets, answer>>

VARIABLES
  calls,      (* calls made so far                                         *)
  outcome,    (* how the last call ended                                   *)
  released    (* the candidates calls returned                             *)
vars == <<disk, call, calls, outcome, released>>

Attempts == [files : Candidates, passed : BOOLEAN, targets : SUBSET AllFiles]
Repairs  == [source : Candidates, files : Candidates]
Finals   == [attempt : Ordinals, files : Candidates]
Outputs  == 0..MaxFiles \cup Contents

ASSUME NoneAssumption == None \notin Attempts \cup Repairs \cup Finals

TypeOK ==
  /\ expanded \in 0..MaxFiles
  /\ stored \in Seq(Outputs)
  /\ written \in [Ordinals -> [AllFiles -> Contents \cup {None, Torn}]]
  /\ attempts \in [Ordinals -> Attempts \cup {None}]
  /\ drafts \in [Ordinals -> [AllFiles -> Contents \cup {None}]]
  /\ repairs \in [Ordinals -> Repairs \cup {None}]
  /\ final \in Finals \cup {None}
  /\ pc \in {"idle", "packets", "store", "verify", "write", "judged", "repair",
            "draft", "closed"}
  /\ plan \in 0..MaxFiles /\ index \in Nat /\ tries \in 1..Tries
  /\ ordinal \in Ordinals /\ files \in Candidates \cup {<<>>}
  /\ targets \subseteq AllFiles /\ answer \in Outputs \cup {None}
  /\ calls \in 0..MaxCalls
  /\ outcome \in {"none", "failed", "conflict", "released"}
  /\ released \subseteq Candidates

NoCall ==
  /\ pc = "idle" /\ plan = 0 /\ index = 1 /\ tries = 1 /\ ordinal = 1
  /\ files = <<>> /\ targets = {} /\ answer = None

Init ==
  /\ expanded = 0 /\ stored = <<>>
  /\ written = [o \in Ordinals |-> [f \in AllFiles |-> None]]
  /\ drafts  = [o \in Ordinals |-> [f \in AllFiles |-> None]]
  /\ attempts = [o \in Ordinals |-> None] /\ repairs = [o \in Ordinals |-> None]
  /\ final = None
  /\ NoCall /\ calls = 0 /\ outcome = "none" /\ released = {}

\* The call returns, or dies: what it held is gone.
End(how) ==
  /\ pc' = "idle" /\ plan' = 0 /\ index' = 1 /\ tries' = 1 /\ ordinal' = 1
  /\ files' = <<>> /\ targets' = {} /\ answer' = None
  /\ outcome' = how

Fails(how) == End(how) /\ UNCHANGED <<disk, calls, released>>

\* The lease of the plan is held and the base manifest, always the same, is
\* written.
Start ==
  /\ pc = "idle" /\ calls < MaxCalls
  /\ calls' = calls + 1 /\ pc' = "packets"
  /\ UNCHANGED <<disk, plan, index, tries, ordinal, files, targets, answer,
                 outcome, released>>

\* A deadline, a provider or cargo that cannot be run, a file system error,
\* or the end of the process.
GiveUp == pc # "idle" /\ Fails("failed")

(***************************************************************************)
(* The packets.                                                            *)
(***************************************************************************)
Rows == IF plan = 0 THEN [i \in 1..5 |-> Row(BaseStages[i], 0)] ELSE Schedule(plan)

IsManifest == Rows[index].stage = "file-manifest"

OutputsOf(stage) ==
  CASE stage = "file-manifest" -> AllFiles
    [] stage = "final-correction" -> Contents
    [] OTHER -> {Text}

\* No expanded manifest yet, or one of the same files.
Agrees(n) == expanded \in {0, n}

\* expand_files and write_plan_manifest when the packet is the manifest
Expand(output) ==
  IF IsManifest THEN expanded' = output /\ plan' = output
                ELSE UNCHANGED <<expanded, plan>>

\* The manifest on disk lists other files: the call ends.
Conflicts(output) == IsManifest /\ ~Agrees(output)

\* load_packet finds the record of the packet.
IsStored == index <= Len(stored)

Resume ==
  /\ pc = "packets" /\ index <= Len(Rows) /\ IsStored
  /\ IF Conflicts(stored[index])
     THEN Fails("conflict")
     ELSE /\ Expand(stored[index])
          /\ index' = index + 1 /\ tries' = 1
          /\ UNCHANGED <<stored, written, attempts, drafts, repairs, final, pc,
                         ordinal, files, targets, answer, calls, outcome, released>>

Asking == pc = "packets" /\ index <= Len(Rows) /\ ~IsStored

\* A response that satisfies its contract.  A manifest expands the plan before
\* its packet is stored.
Answer ==
  /\ Asking
  /\ \E output \in OutputsOf(Rows[index].stage) :
       IF Conflicts(output)
       THEN Fails("conflict")
       ELSE /\ Expand(output)
            /\ answer' = output /\ pc' = "store"
            /\ UNCHANGED <<stored, written, attempts, drafts, repairs, final, index,
                           tries, ordinal, files, targets, calls, outcome, released>>

\* A response its gate refuses, of a packet or of a repair.
BadAnswer ==
  /\ Asking \/ pc = "repair"
  /\ IF tries = Tries
     THEN Fails("failed")
     ELSE /\ tries' = tries + 1
          /\ UNCHANGED <<disk, pc, plan, index, ordinal, files, targets, answer,
                         calls, outcome, released>>

\* The artifact, then the record that names it: without the record the packet is
\* not stored, and a repeated artifact has the same name and bytes.
StorePacket ==
  /\ pc = "store"
  /\ stored' = Append(stored, answer)
  /\ answer' = None /\ index' = index + 1 /\ tries' = 1 /\ pc' = "packets"
  /\ UNCHANGED <<expanded, written, attempts, drafts, repairs, final, plan,
                 ordinal, files, targets, calls, outcome, released>>

\* generated_files: the outputs of the final corrections.
Deliverable ==
  [f \in 1..plan |->
     stored[CHOOSE i \in 1..Len(Rows) : Rows[i] = Row("final-correction", f)]]

AllPacketsDone ==
  /\ pc = "packets" /\ index > Len(Rows)
  /\ files' = Deliverable /\ pc' = "verify" /\ index' = 1
  /\ UNCHANGED <<disk, plan, tries, ordinal, targets, answer, calls, outcome, released>>

(***************************************************************************)
(* One attempt (CandidateVerifier::verify_attempt).                        *)
(***************************************************************************)
\* Variant: a file that exists is taken for written.
KeptIfThere(old, new) == TRUE

\* What write_immutable accepts on disk.
Kept(old, new) == old \in {None, new}

\* load_attempt: an attempt that ended is not run again.
LoadAttempt ==
  /\ pc = "verify"
  /\ LET attempt == attempts[ordinal] IN
       IF attempt # None /\ attempt.files # files
       THEN Fails("conflict")
       ELSE /\ pc' = IF attempt = None THEN "write" ELSE "judged"
            /\ UNCHANGED <<disk, plan, index, tries, ordinal, files, targets,
                           answer, calls, outcome, released>>

\* materialize_candidate, a file per step
WriteFile ==
  /\ pc = "write" /\ index <= Len(files)
  /\ IF Kept(written[ordinal][index], files[index])
     THEN /\ written' = [written EXCEPT ![ordinal][index] =
                            IF @ = None THEN files[index] ELSE @]
          /\ index' = index + 1
          /\ UNCHANGED <<expanded, stored, attempts, drafts, repairs, final, pc,
                         plan, tries, ordinal, files, targets, answer, calls,
                         outcome, released>>
     ELSE Fails("conflict")

\* fs::write creates the file, then the call dies or the disk is full.
TearFile ==
  /\ pc = "write" /\ index <= Len(files) /\ written[ordinal][index] = None
  /\ written' = [written EXCEPT ![ordinal][index] = Torn]
  /\ End("failed")
  /\ UNCHANGED <<expanded, stored, attempts, drafts, repairs, final, calls, released>>

\* The strict commands pass, or one of them fails or runs into its timeout; its
\* output names the files to repair, all of them if it names none.
RunCommands ==
  /\ pc = "write" /\ index > Len(files)
  /\ \E passed \in BOOLEAN, blamed \in SUBSET (1..Len(files)) :
       /\ passed <=> blamed = {}
       /\ attempts' = [attempts EXCEPT ![ordinal] =
                          [files |-> files, passed |-> passed, targets |-> blamed]]
  /\ pc' = "judged" /\ index' = 1
  /\ UNCHANGED <<expanded, stored, written, drafts, repairs, final, plan, tries,
                 ordinal, files, targets, answer, calls, outcome, released>>

(***************************************************************************)
(* After an attempt (close_candidate_loop).                                *)
(***************************************************************************)
\* load_chain: failed attempts, each bound to its repair and the repair to the
\* next attempt, and the pass at the end of it.
Chain(n) ==
  /\ \A o \in 1..n : attempts[o] # None /\ (attempts[o].passed <=> o = n)
  /\ \A o \in 1..(n - 1) :
       /\ repairs[o] # None
       /\ repairs[o].source = attempts[o].files
       /\ repairs[o].files = attempts[o + 1].files
  /\ repairs[n] = None
  /\ n < Limit => attempts[n + 1] = None

\* finalize_success
Finalize ==
  LET result == [attempt |-> ordinal, files |-> files] IN
    /\ pc = "judged" /\ attempts[ordinal].passed
    /\ IF Chain(ordinal) /\ final \in {None, result}
       THEN /\ final' = result /\ pc' = "closed"
            /\ UNCHANGED <<expanded, stored, written, attempts, drafts, repairs, plan,
                           index, tries, ordinal, files, targets, answer, calls,
                           outcome, released>>
       ELSE Fails("conflict")

\* verify_candidate_evidence, and the text of the candidate is returned.
Release ==
  /\ pc = "closed"
  /\ IF Chain(final.attempt) /\ final.files = files
     THEN /\ released' = released \cup {files}
          /\ End("released") /\ UNCHANGED <<disk, calls>>
     ELSE Fails("conflict")

IsLast == ordinal = Limit

Failed == pc = "judged" /\ ~attempts[ordinal].passed

Exhaust == Failed /\ IsLast /\ Fails("failed")

\* Variant: the repair is looked for under the attempt it leads to.
HasRepairAfter == repairs[ordinal + 1] # None

HasRepair == repairs[ordinal] # None

\* Variant: the repair is found and its files are not taken over.
ForgottenRepair == files

RepairedFiles == repairs[ordinal].files

NextAttempt(candidate) ==
  /\ files' = candidate /\ ordinal' = ordinal + 1 /\ pc' = "verify" /\ index' = 1

LoadRepair ==
  /\ Failed /\ ~IsLast /\ HasRepair
  /\ IF repairs[ordinal].source = attempts[ordinal].files
     THEN /\ NextAttempt(RepairedFiles)
          /\ UNCHANGED <<disk, plan, tries, targets, answer, calls, outcome, released>>
     ELSE Fails("failed")

BeginRepair ==
  /\ Failed /\ ~IsLast /\ ~HasRepair
  /\ targets' = attempts[ordinal].targets
  /\ pc' = "repair" /\ index' = 1 /\ tries' = 1
  /\ UNCHANGED <<disk, plan, ordinal, files, answer, calls, outcome, released>>

\* The repair of the first target left: other contents than the failed ones.
RepairAnswer ==
  /\ pc = "repair"
  /\ LET f == CHOOSE g \in targets : \A h \in targets : g <= h IN
       /\ \E content \in Contents \ {files[f]} : files' = [files EXCEPT ![f] = content]
       /\ targets' = targets \ {f}
       /\ pc' = IF targets' = {} THEN "draft" ELSE pc
  /\ tries' = 1
  /\ UNCHANGED <<disk, plan, index, ordinal, answer, calls, outcome, released>>

\* store_repair writes every file of the candidate ...
WriteDraft ==
  /\ pc = "draft" /\ index <= Len(files)
  /\ IF Kept(drafts[ordinal][index], files[index])
     THEN /\ drafts' = [drafts EXCEPT ![ordinal][index] =
                           IF @ = None THEN files[index] ELSE @]
          /\ index' = index + 1
          /\ UNCHANGED <<expanded, stored, written, attempts, repairs, final, pc,
                         plan, tries, ordinal, files, targets, answer, calls,
                         outcome, released>>
     ELSE Fails("conflict")

\* ... and repair.json last.
StoreRepair ==
  /\ pc = "draft" /\ index > Len(files)
  /\ repairs' = [repairs EXCEPT ![ordinal] =
                    [source |-> attempts[ordinal].files, files |-> files]]
  /\ NextAttempt(files)
  /\ UNCHANGED <<expanded, stored, written, attempts, drafts, final, plan, tries,
                 targets, answer, calls, outcome, released>>

Next ==
  \/ Start \/ GiveUp \/ Resume \/ Answer \/ BadAnswer \/ StorePacket \/ AllPacketsDone
  \/ LoadAttempt \/ WriteFile \/ TearFile \/ RunCommands
  \/ Finalize \/ Release \/ Exhaust
  \/ LoadRepair \/ BeginRepair \/ RepairAnswer \/ WriteDraft \/ StoreRepair

Spec == Init /\ [][Next]_vars

(***************************************************************************)
(* Properties.                                                             *)
(***************************************************************************)
\* The evidence a call leaves, at every step and after any death, is a prefix of
\* the chain load_chain recloses: an attempt starts from the packets or from
\* the repair of the failed attempt before it, and what was released is the
\* candidate that ends the chain.
EvidenceChains ==
  /\ \A o \in 1..(Limit - 1) :
       /\ repairs[o] # None =>
            /\ attempts[o] # None /\ ~attempts[o].passed
            /\ repairs[o].source = attempts[o].files
       /\ attempts[o + 1] # None =>
            repairs[o] # None /\ repairs[o].files = attempts[o + 1].files
  /\ final # None => Chain(final.attempt)
  /\ released # {} => final # None /\ released = {final.files}

\* verify_attempt and verify_repair recompute the bundle from the files on disk:
\* a candidate torn by a crash is never the one an attempt vouches for.
EvidenceRecomputes ==
  \A o \in Ordinals :
    /\ attempts[o] # None =>
         \A f \in DOMAIN attempts[o].files : written[o][f] = attempts[o].files[f]
    /\ repairs[o] # None =>
         \A f \in DOMAIN repairs[o].files : drafts[o][f] = repairs[o].files[f]

\* "A repeated identical route resumes verified packets; it does not call the
\* provider again for completed work" (work-packets.md): once a candidate was
\* released, no call reaches the provider or cargo.
CompletedRoutesStayQuiet ==
  released # {} => ~Asking /\ pc \notin {"store", "write", "repair", "draft"}

\* Whatever step a call of a route died at, what it left recloses: it is a
\* prefix of the chain load_chain accepts, every attempt and repair recomputes
\* from the files on disk, and a route once released asks for nothing any more.
RoutesReclose == TypeOK /\ EvidenceChains /\ EvidenceRecomputes /\ CompletedRoutesStayQuiet

\* "strict, resumable, content-addressed provider work packets" (README.md): a
\* repeated identical route goes on from what is on disk, and never refuses it.
ResumeNeverConflicts == outcome # "conflict"
==============================================================================
