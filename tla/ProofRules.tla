------------------------------ MODULE ProofRules ------------------------------
(***************************************************************************)
(* Proof records (math-atoms-proof): the line one is stored as, what is    *)
(* read back of it, and when the graph and the runtime take it for         *)
(* evidence.  `disk` is what the files a record names verify to when they  *)
(* are read: the hash and the length of the artifact, the candidate's      *)
(* evidence and the model of the work plan.                                *)
(***************************************************************************)
EXTENDS Integers, Sequences, SequencesExt

NoCandidate == [given |-> FALSE, bundle |-> "", attempts |-> 0]
Candidate(bundle, attempts) == [given |-> TRUE, bundle |-> bundle, attempts |-> attempts]

\* A text that looks like a secret is stored as another one.
Secret == "secret"
Redacted(text) == IF text = Secret THEN "redacted" ELSE text

\* ProofRecord; the atoms are those of its recipe ("a", "b") and others
ProofRecords ==
  [recipe : {"local", "provider", "unknown"}, status : {"proven", "blocked"},
   atoms : SUBSET {"a", "other"}, evidence : {0, 1}, blocked : BOOLEAN, route : {3, 4},
   state : {"provider:ran", "provider:ready"}, model : {"", "m"}, endpoint : {"", "e", Secret},
   artifact : {"", "file", Secret}, hash : {"", "h", "text"}, length : {0, 1},
   plan : {"", "work-1"}, packets : {0, 19},
   candidate : {NoCandidate, Candidate("h", 1), Candidate("other", 1), Candidate("h", 2)}]

\* The fields from_json insists on; candidate_verification may be left out, too.
Required == {"recipe", "status", "atoms", "evidence", "blocked", "state", "route"}
Optional == {"model", "endpoint", "artifact", "hash", "length", "plan", "packets", "candidate"}

\* to_json, a function from the fields of the line to their values
ToJson(r) == [r EXCEPT !.endpoint = Redacted(@), !.artifact = Redacted(@)]
\* A line of an earlier version of the program, which lacks some fields.
Older(line, fields) == [f \in DOMAIN line \ fields |-> line[f]]

\* Variant: packets a line does not count are taken for a full plan.
DefaultFull(f) == IF f = "packets" THEN 19 ELSE IF f = "length" THEN 0 ELSE ""

\* from_json: unwrap_or_default of the optional fields, none for other lines
Default(f) == IF f \in {"length", "packets"} THEN 0 ELSE ""

FromJson(line) ==
  IF ~(Required \subseteq DOMAIN line) \/ ~(DOMAIN line \subseteq Required \cup Optional) THEN <<>>
  ELSE << [f \in Required \cup Optional |->
             IF f \in DOMAIN line THEN line[f] ELSE IF f = "candidate" THEN NoCandidate ELSE Default(f)] >>

\* read_records: one line that is no record, and none is read
ReadRecords(lines) ==
  IF \E k \in DOMAIN lines : FromJson(lines[k]) = <<>> THEN <<>>
  ELSE [k \in DOMAIN lines |-> FromJson(lines[k])[1]]

\* proof_record_is_positive_evidence
CandidateVerifies(r, disk) ==
  r.candidate.given /\ r.candidate.bundle = r.hash /\ disk.candidate = r.candidate
ArtifactVerifies(r, disk) ==
  /\ r.artifact \in {"file", Secret} /\ r.hash = "h" /\ disk.hash = r.hash
  /\ r.length > 0 /\ disk.length = r.length
PlanVerifies(r, disk) == r.plan = "work-1" /\ r.packets >= 19 /\ disk.model = r.model
IsPositive(r, disk) ==
  /\ r.status = "proven" /\ ~r.blocked /\ r.evidence > 0 /\ r.route >= 4
  /\ r.recipe # "unknown"
  /\ r.recipe = "provider" =>
       /\ r.state = "provider:ran" /\ r.model # "" /\ r.endpoint # ""
       /\ ArtifactVerifies(r, disk) /\ PlanVerifies(r, disk) /\ CandidateVerifies(r, disk)

\* authored_record_atoms and proof_node_id: a node is known by all of a record,
\* of whose atoms only those of the recipe count
NodeOf(r) == [r EXCEPT !.atoms = IF r.recipe = "unknown" THEN {} ELSE @ \cap {"a"}]

\* learn_proof_record: what the bus says, and the nodes of the graph afterwards
Learned(nodes, r, disk) ==
  [kind  |-> IF r.status = "proven" THEN "StoreLearned" ELSE "StoreObserved",
   nodes |-> IF IsPositive(r, disk) THEN nodes \cup {NodeOf(r)} ELSE nodes]

(***************************************************************************)
(* Properties of a record, the fields an older line lacks, and the disk.   *)
(***************************************************************************)
\* A restart earns nothing: what is read back of a record's line, of this
\* version or an older one, is evidence only if the record was, never with
\* less than all of a provider's fields; and it is the node it was unless
\* something of it was redacted (from_json, add_proof_record).
ProofsAreEarned(r, fields, disk) ==
  LET read == FromJson(Older(ToJson(r), fields)) IN
  /\ fields \cap Required # {} <=> read = <<>>
  /\ read # <<>> =>
       /\ IsPositive(read[1], disk) => IsPositive(r, disk) /\ (r.recipe = "provider" => fields = {})
       /\ fields = {} /\ Secret \notin {r.endpoint, r.artifact} =>
            NodeOf(read[1]) = NodeOf(r)
              /\ Learned(Learned({}, r, disk).nodes, read[1], disk).nodes = Learned({}, r, disk).nodes

\* "stored proof record loaded into graph evidence": what the bus carries of a
\* proven record (learn_proof_record) holds only if it is positive, too.
LearnedIsLoaded(r, disk) ==
  Learned({}, r, disk).kind = "StoreLearned" => Learned({}, r, disk).nodes # {}
==============================================================================
