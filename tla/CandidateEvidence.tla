-------------------------- MODULE CandidateEvidence --------------------------
(***************************************************************************)
(* The evidence a verified candidate leaves (math-atoms-verification): the *)
(* runner writes attempts and repairs, the store reads them back and       *)
(* closes the chain from the files alone.                                  *)
(*                                                                         *)
(* A hash is what it is the hash of.  A file is its name, whether its path *)
(* is spelled with backslashes, and its content, a tuple of strings; a   *)
(* manifest is its fields.                                                 *)
(***************************************************************************)
EXTENDS Integers, Sequences

Damaged == <<"damaged">>   (* bytes nobody wrote                           *)
MaxAttempts == 32          (* MAX_VERIFICATION_ATTEMPTS                    *)

File(name, content) == [name |-> name, windows |-> FALSE, content |-> content]

Normal(files) == [i \in DOMAIN files |-> [files[i] EXCEPT !.windows = FALSE]]
Names(files)  == {files[i].name : i \in DOMAIN files}
RustNames     == {"src/main.rs", "util.rs"}
RustFiles(files) == Names(files) \cap RustNames

OneRustFile(files) == \E name \in RustNames : RustFiles(files) = {name}
RustFile(files)    == CHOOSE name \in RustFiles(files) : TRUE

ValidFiles(files) ==
  /\ files # <<>>
  /\ \A i \in DOMAIN files : files[i].content # <<>>
  /\ \A i, j \in DOMAIN files : files[i].name = files[j].name => i = j

\* What a bundle is hashed as: the content of a single file, else all of it.
Bundle(files) == IF Len(files) = 1 THEN files[1].content ELSE Normal(files)

Profile(files) ==
  IF "Cargo.toml" \in Names(files) \/ RustFiles(files) # {} THEN "rust"
  ELSE IF Names(files) \subseteq {"a.json", "b.json"} THEN "json"
  ELSE "unsupported"

\* json_validation_failure and the harness that carries it to cargo
Parses(files)  == \A i \in DOMAIN files : files[i].content # <<"broken">>
Harness(files) == IF Parses(files) THEN <<"harness">> ELSE <<"compile_error!">>

(***************************************************************************)
(* The runner.                                                             *)
(***************************************************************************)
\* Stands for the files of a candidate without a target to build.
NoTarget == <<File("no target", <<>>)>>

\* ensure_manifest: the files the controller adds
Added(files) ==
  IF "Cargo.toml" \in Names(files) THEN <<>>
  ELSE IF Profile(files) = "json"
       THEN <<File("Cargo.toml", <<"manifest">>), File("src/lib.rs", Harness(files))>>
  ELSE IF "src/main.rs" \in Names(files) THEN <<File("Cargo.toml", <<"manifest">>)>>
  ELSE IF OneRustFile(files)
       THEN <<File("Cargo.toml", <<"manifest", RustFile(files)>>)>>
  ELSE NoTarget

\* materialize_candidate takes the files.
Materializes(files) ==
  /\ ValidFiles(files) /\ Profile(files) # "unsupported"
  /\ "build.rs" \notin Names(files)
  /\ Added(files) # NoTarget
  /\ \A i \in DOMAIN files : files[i].name = "Cargo.toml" => files[i].content # <<"needs-crate">>

Commands == <<"cargo-check", "cargo-test", "cargo-clippy">>

\* verify_attempt, when the command number `fails` fails (0 for none): attempt.json,
\* the candidate files and the logs.
Attempt(ordinal, files, fails) ==
  LET runs    == IF fails = 0 THEN Len(Commands) ELSE fails
      added   == Added(files)
      written == Normal(files) \o added
      log(c)  == <<"log", c>>
  IN  [record |->
         [attempt |-> ordinal, passed |-> fails = 0, bundle |-> Bundle(files),
          files |-> [i \in 1..Len(written) |->
                       [name |-> written[i].name, hash |-> written[i].content,
                        owned |-> i > Len(files)]],
          commands |-> [c \in 1..runs |->
                          [name |-> Commands[c], passed |-> c # fails, log |-> log(c)]],
          failure |-> IF fails = 0 THEN "" ELSE "failed"],
       files |-> [i \in 1..Len(written) |-> written[i].content],
       logs  |-> [c \in 1..runs |-> log(c)]]

\* store_repair: repair.json and the files beside it
Repair(ordinal, source, files) ==
  [record |-> [after |-> ordinal, source |-> Bundle(source), repaired |-> Bundle(files),
               files |-> Normal(files)],
   files  |-> [i \in DOMAIN files |-> files[i].content]]

(***************************************************************************)
(* The store.                                                              *)
(***************************************************************************)
\* The files of an attempt as they are on disk.
OnDisk(attempt, owned) ==
  LET r == attempt.record.files
      mine[i \in 0..Len(r)] ==
        IF i = 0 THEN <<>>
        ELSE IF r[i].owned <=> owned THEN Append(mine[i - 1], File(r[i].name, attempt.files[i]))
        ELSE mine[i - 1]
  IN  mine[Len(r)]

\* expected_controller_files
Expected(files) ==
  LET manifest(extra) == <<File("Cargo.toml", <<"manifest">> \o extra)>>  IN
    IF "Cargo.toml" \in Names(files) THEN <<>>
    ELSE IF Profile(files) = "json"
         THEN manifest(<<>>) \o <<File("src/lib.rs", Harness(files))>>
    ELSE IF "src/main.rs" \in Names(files) THEN manifest(<<>>)
    ELSE IF OneRustFile(files) THEN manifest(<<RustFile(files)>>)
    ELSE NoTarget

\* Variant: the log of a command is taken on trust.
CommandHoldsUnread(attempt, c) == attempt.record.commands[c].name = Commands[c]

\* verify_command
CommandHolds(attempt, c) ==
  /\ attempt.record.commands[c].name = Commands[c]
  /\ attempt.logs[c] = attempt.record.commands[c].log

\* verify_attempt of the store
AttemptHolds(attempt) ==
  LET a == attempt.record  own == OnDisk(attempt, FALSE)  n == Len(a.commands) IN
    /\ a.attempt \in 1..MaxAttempts
    /\ \A i \in DOMAIN a.files : attempt.files[i] = a.files[i].hash
    /\ ValidFiles(own) /\ Profile(own) # "unsupported"
    /\ OnDisk(attempt, TRUE) = Expected(own) /\ Bundle(own) = a.bundle
    /\ a.passed /\ Profile(own) = "json" => Parses(own)
    /\ n \in 1..Len(Commands) /\ \A c \in 1..n : CommandHolds(attempt, c)
    /\ IF a.passed
       THEN n = Len(Commands) /\ a.failure = "" /\ \A c \in 1..n : a.commands[c].passed
       ELSE a.failure # "" /\ \A c \in 1..n : a.commands[c].passed <=> c < n

\* Variant: the files of a repair are not read.
RepairHoldsUnread(repair) == repair.record.source # repair.record.repaired

\* parse_repair and validate_repair_fields
RepairHolds(repair) ==
  LET r == repair.record IN
    /\ r.after \in 1..(MaxAttempts - 1) /\ r.source # r.repaired
    /\ \A i \in DOMAIN r.files : repair.files[i] = r.files[i].content
    /\ ValidFiles(r.files) /\ Bundle(r.files) = r.repaired

\* load_chain: attempts[o] and repairs[o] are << >> where the file is missing.
ChainHolds(store, n) ==
  /\ n \in 1..Len(store.attempts)
  /\ \A o \in 1..n :
       /\ store.attempts[o] # <<>> /\ AttemptHolds(store.attempts[o])
       /\ store.attempts[o].record.attempt = o
       /\ store.attempts[o].record.passed <=> o = n
  /\ \A o \in 1..(n - 1) :
       /\ store.repairs[o] # <<>> /\ RepairHolds(store.repairs[o])
       /\ store.repairs[o].record.after = o
       /\ store.repairs[o].record.source = store.attempts[o].record.bundle
       /\ store.repairs[o].record.repaired = store.attempts[o + 1].record.bundle
  /\ store.repairs[n] = <<>>
  /\ n < Len(store.attempts) => store.attempts[n + 1] = <<>>

History(store, n) ==
  <<[o \in 1..n |-> store.attempts[o].record],
    [o \in 1..(n - 1) |-> store.repairs[o].record]>>

\* finalize_success
Final(store, n) ==
  [attempts |-> n, repairs |-> n - 1, bundle |-> store.attempts[n].record.bundle,
   history |-> History(store, n), attempt |-> store.attempts[n].record]

\* verify_candidate_evidence: the caller holds the hash of the final manifest and of
\* the bundle.
Verifies(store, claim) ==
  LET f == store.final IN
    /\ f # <<>> /\ f = claim.final /\ f.bundle = claim.bundle
    /\ f.repairs = f.attempts - 1
    /\ ChainHolds(store, f.attempts)
    /\ f.history = History(store, f.attempts)
    /\ f.attempt = store.attempts[f.attempts].record
    /\ f.attempt.bundle = claim.bundle

(***************************************************************************)
(* What one damaged, lost or foreign file makes of a store.                *)
(***************************************************************************)
DamagedAttempts(a) ==
  {[a EXCEPT !.files[i] = Damaged] : i \in DOMAIN a.files}
    \cup {[a EXCEPT !.logs[c] = Damaged] : c \in DOMAIN a.logs}
    \cup {[a EXCEPT !.record.passed = ~@], [a EXCEPT !.record.attempt = @ + 1],
          [a EXCEPT !.record.bundle = Damaged],
          [a EXCEPT !.record.failure = IF @ = "" THEN "failed" ELSE ""],
          [a EXCEPT !.record.commands = SubSeq(@, 1, Len(@) - 1)]}

DamagedRepairs(r) ==
  {[r EXCEPT !.files[i] = Damaged] : i \in DOMAIN r.files}
    \cup {[r EXCEPT !.record.after = @ + 1], [r EXCEPT !.record.source = Damaged],
          [r EXCEPT !.record.repaired = Damaged]}

DamagedStores(store) ==
  LET n == store.final.attempts IN
    (UNION {{[store EXCEPT !.attempts[o] = a] : a \in DamagedAttempts(store.attempts[o]) \cup {<<>>}}
            : o \in 1..n})
    \cup (UNION {{[store EXCEPT !.repairs[o] = r] :
                    r \in DamagedRepairs(store.repairs[o]) \cup {<<>>}} : o \in 1..(n - 1)})
    \cup {[store EXCEPT !.attempts[n + 1] = store.attempts[n]],
          [store EXCEPT !.repairs[n] = Repair(n, <<File("a.json", <<"x">>)>>, <<File("a.json", <<"y">>)>>)],
          [store EXCEPT !.final = <<>>], [store EXCEPT !.final.repairs = @ + 1],
          [store EXCEPT !.final.bundle = Damaged]}

\* The store after a chain of candidates, of which the last passes if the command
\* number `fails` of it is 0.
StoreOf(candidates, failed) ==
  LET n == Len(candidates)
      without == [attempts |-> [o \in 1..(n + 1) |->
                                  IF o > n THEN <<>>
                                  ELSE Attempt(o, candidates[o], failed[o])],
                  repairs  |-> [o \in 1..n |->
                                  IF o = n THEN <<>>
                                  ELSE Repair(o, candidates[o], candidates[o + 1])]]
  IN [attempts |-> without.attempts, repairs |-> without.repairs, final |-> Final(without, n)]

(***************************************************************************)
(* Properties of an input.                                                 *)
(***************************************************************************)
\* What the runner writes of a candidate it takes is what the store expects when it
\* reads it back ("candidate bundle does not recompute from attempt files"
\* otherwise): both compute the controller's files, in two places.  A chain
\* that ends in a pass is closed by its files alone.
WrittenEvidenceVerifies(candidates, failed) ==
  LET n == Len(candidates)  store == StoreOf(candidates, failed) IN
    /\ \A o \in 1..n : AttemptHolds(store.attempts[o])
    /\ \A o \in 1..(n - 1) : RepairHolds(store.repairs[o])
    /\ failed[n] = 0 => Verifies(store, [final |-> store.final, bundle |-> store.final.bundle])

\* "recomputes_every_transition" (the runner's tests): one file that was changed,
\* lost or added after the pass, and the evidence no longer verifies.
DamageIsRefused(candidates, failed) ==
  LET n == Len(candidates)  store == StoreOf(candidates, failed) IN
    failed[n] = 0 =>
      \A damaged \in DamagedStores(store) :
        ~Verifies(damaged, [final |-> store.final, bundle |-> store.final.bundle])
==============================================================================
