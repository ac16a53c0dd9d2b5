---------------------------- MODULE LearningRules ----------------------------
(***************************************************************************)
(* What a learning record has to show (math-atoms-learning): when it is    *)
(* valid, when its success promotes a recipe, and what of it a ledger line *)
(* of its schema version carries.                                          *)
(*                                                                         *)
(* A record is the fields these rules read; `disk` is what the files it    *)
(* names verify to when they are read.                                     *)
(***************************************************************************)
EXTENDS Integers

(***************************************************************************)
(* Schema versions.                                                        *)
(***************************************************************************)
Legacy == 1   LegacySha == 2   LegacyWork == 3   LegacyHarness == 4   Current == 5

NoCandidate == [given |-> FALSE, attempts |-> 0, repairs |-> 0]
Candidates  == [given : {TRUE}, attempts : {0, 2}, repairs : {1, 2}] \cup {NoCandidate}

Records ==
  [schema : 1..6, outcome : {"failed", "succeeded"},
   gate   : {"native-fast-build", "provider-review"},
   source : {"native-app", "provider-plan", "harness"},
   route  : {3, 4}, model : {"", "m"}, failure : BOOLEAN,
   path   : BOOLEAN, hash : {"", "fnv", "sha256"},
   packets : {0, 13, 19}, attested : BOOLEAN, candidate : Candidates]

Disks == [artifact : BOOLEAN, work : BOOLEAN, model : {"m", "other"}, harness : BOOLEAN,
          candidate : BOOLEAN, attempts : {2, 3}]

Succeeded(r)   == r.outcome = "succeeded"
FastBuild(r)   == Succeeded(r) /\ r.gate = "native-fast-build"
FullRoute(r)   == r.source = "native-app" /\ r.route >= 4

\* Variant: a provider is known by the source alone.
RequiresWorkBySource(r) == r.source = "provider-plan"

RequiresWork(r)    == r.model # "" \/ r.source = "provider-plan"
RequiresHarness(r) == ~(FullRoute(r) /\ r.model = "")

(***************************************************************************)
(* validate_structure: what the record itself shows.                       *)
(***************************************************************************)
CandidateHolds(c) == c.given /\ c.attempts # 0 /\ c.repairs = c.attempts - 1

SuccessShows(r) ==
  IF r.schema = Legacy THEN FullRoute(r) \/ r.hash # ""
  ELSE
    /\ (FullRoute(r) /\ r.model = "") \/ (r.path /\ r.hash # "")
    /\ r.schema >= LegacyWork /\ RequiresWork(r)
         => r.packets >= (IF r.schema >= LegacyHarness THEN 19 ELSE 13)
    /\ r.schema >= LegacyHarness /\ RequiresHarness(r) => r.attested
    /\ r.schema = Current /\ RequiresWork(r) => CandidateHolds(r.candidate)

Structure(r) ==
  /\ r.schema \in Legacy..Current
  /\ r.outcome = "failed" => r.failure
  /\ \/ FastBuild(r)
     \/ /\ Succeeded(r) => SuccessShows(r)
        /\ r.hash \in {"", IF r.schema = Legacy THEN "fnv" ELSE "sha256"}

(***************************************************************************)
(* What the files show.                                                    *)
(***************************************************************************)
WorkVerifies(r, disk)      == disk.work /\ (r.model = "" \/ disk.model = r.model)
HarnessVerifies(r, disk)   == disk.harness
CandidateVerifies(r, disk) ==
  r.candidate.given /\ disk.candidate /\ disk.attempts = r.candidate.attempts
    /\ disk.attempts - 1 = r.candidate.repairs

\* validate
Valid(r, disk) ==
  /\ Structure(r)
  /\ \/ FastBuild(r) \/ ~Succeeded(r)
     \/ /\ r.schema >= LegacyWork    /\ RequiresWork(r)    => WorkVerifies(r, disk)
        /\ r.schema >= LegacyHarness /\ RequiresHarness(r) => HarnessVerifies(r, disk)
        /\ r.schema = Current        /\ RequiresWork(r)    => CandidateVerifies(r, disk)

\* is_promotable_success
Promotable(r, disk) ==
  /\ Valid(r, disk) /\ Succeeded(r)
  /\ \/ r.gate = "native-fast-build"
     \/ FullRoute(r) /\ r.model = ""
     \/ /\ r.schema = Current /\ r.hash = "sha256" /\ disk.artifact
        /\ RequiresHarness(r) => HarnessVerifies(r, disk)
        /\ RequiresWork(r)    => WorkVerifies(r, disk) /\ CandidateVerifies(r, disk)

(***************************************************************************)
(* A ledger line.                                                          *)
(***************************************************************************)
\* to_json: the fields written, group by group
Written(schema) ==
  IF schema < LegacyWork THEN {"base"}
  ELSE IF schema = LegacyWork THEN {"base", "work"}
  ELSE IF schema = LegacyHarness THEN {"base", "work", "harness"}
  ELSE {"base", "work", "harness", "candidate"}

\* Variant: the candidate is read from the version after the current one on.
ReadLater(schema) ==
  {"base"} \cup (IF schema >= LegacyWork THEN {"work"} ELSE {})
    \cup (IF schema >= LegacyHarness THEN {"harness"} ELSE {})
    \cup (IF schema > Current THEN {"candidate"} ELSE {})

\* from_json: the fields a line must have, no other
Read(schema) ==
  {"base"} \cup (IF schema >= LegacyWork THEN {"work"} ELSE {})
    \cup (IF schema >= LegacyHarness THEN {"harness"} ELSE {})
    \cup (IF schema = Current THEN {"candidate"} ELSE {})

\* The record of a line, where a group that is not there has its default.
FromJson(r, fields) ==
  [r EXCEPT !.packets   = IF "work" \in fields THEN @ ELSE 0,
            !.attested  = IF "harness" \in fields THEN @ ELSE FALSE,
            !.candidate = IF "candidate" \in fields THEN @ ELSE NoCandidate]

ReadsBack(r) == Written(r.schema) = Read(r.schema)
                  /\ Structure(FromJson(r, Read(r.schema)))

(***************************************************************************)
(* Properties of an input.                                                 *)
(***************************************************************************)
\* "Legacy schema-v1/v2/v3 records remain readable audit history but cannot promote
\* provider evidence" (README): a success of a provider promotes a recipe only
\* under the current schema, with its artifact, its work plan, its harness and
\* its candidate all verified now and the plan made by the recorded model; a
\* fast build and a full route without a provider are the only exceptions.
EvidenceBacksSuccess(r, disk) ==
  Promotable(r, disk) =>
    \/ FastBuild(r)
    \/ FullRoute(r) /\ r.model = "" /\ r.source = "native-app"
    \/ /\ r.schema = Current /\ disk.artifact /\ disk.harness
       /\ r.source = "provider-plan" \/ r.model # "" =>
            /\ disk.work /\ r.packets >= 19 /\ r.model \in {"", disk.model}
            /\ disk.candidate /\ disk.attempts = r.candidate.attempts

\* "Historical records remain readable": a record that was valid when it was appended is
\* read back from its line whatever became of its files, with the fields its
\* schema knows, and reading its line again changes nothing more.
HistoryStaysReadable(r, disk) ==
  Valid(r, disk) =>
    /\ ReadsBack(r)
    /\ LET once == FromJson(r, Read(r.schema)) IN
         /\ ReadsBack(once) /\ FromJson(once, Read(r.schema)) = once
         /\ r.schema = Current => once = r
==============================================================================
