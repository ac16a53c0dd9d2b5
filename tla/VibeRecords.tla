----------------------------- MODULE VibeRecords -----------------------------
(***************************************************************************)
(* The files the vibe coder resumes from: the ledger snapshots of the      *)
(* planner, the session manifest and the turn records of the runtime, the  *)
(* entries of a scratchpad and what of them a prompt shows.                *)
(*                                                                         *)
(* A record is its place, its link and the free text in it; a text is a    *)
(* tuple of characters, of which only those are told apart that are        *)
(* written differently.  A hash is what it is the hash of.  Leases and     *)
(* limits on counts are VibeRuntime's.                                     *)
(***************************************************************************)
EXTENDS Integers, Sequences

\* A string written by json_escape and parsed: control characters without a
\* short form become blanks.
Kept(text) == [i \in DOMAIN text |-> IF text[i] = "escape" THEN "blank" ELSE text[i]]

(***************************************************************************)
(* Records as they are written.  A field is its name and a form it may     *)
(* take: a value of a kind, an object of another record, a list of either, *)
(* one of the texts of an enumeration, or null.                            *)
(***************************************************************************)
As(form, names)      == names \X {form}
AsList(kind, names)  == names \X {<<"list", kind>>}
AsText(texts, names) == names \X {<<text>> : text \in texts}
OrNull(form, names)  == names \X {form, <<"null">>}

LedgerToJson ==
  As(<<"number">>, {"schema_version", "revision", "retry_limit", "created_at_unix_ms", "updated_at_unix_ms"})
  \cup As(<<"string">>, {"build_id", "project_id"}) \cup As(<<"step">>, {"current_step"})
  \cup AsText({"active", "halted", "complete"}, {"status"})
  \cup As(<<"flag">>, {"autonomous_correction"}) \cup AsList("string", {"crate_statuses", "couple_markers"})
  \cup AsList("blueprint", {"blueprint_versions"}) \cup AsList("step_output", {"step_outputs"})
  \cup AsList("wiring", {"wiring_statuses"}) \cup AsList("debt", {"deferred_debt"})
  \cup AsList("retry", {"retry_ledger"})
  \cup OrNull(<<"requirements">>, {"requirements"}) \cup OrNull(<<"launch">>, {"launch_proof"})

RequirementsJson ==
  As(<<"string">>, {"purpose", "ui_decision", "persistence_decision", "execution_siting"})
  \cup AsList("string", {"user_behaviors", "external_boundaries", "out_of_scope", "definition_of_done"})
  \cup As(<<"artifact">>, {"artifact"})

BlueprintJson ==
  As(<<"number">>, {"version"}) \cup AsList("crate", {"crates"})
  \cup AsList("contract", {"message_contracts"}) \cup AsList("edge", {"dependency_edges"})
  \cup AsList("string", {"topological_order", "coupling_order"})
  \cup As(<<"artifact">>, {"blueprint_artifact", "protocol_artifact"})
  \cup As(<<"review">>, {"independent_review"})

CrateJson == As(<<"string">>, {"name", "responsibility"})
EdgeJson  == As(<<"string">>, {"dependency", "consumer"})

ContractJson ==
  As(<<"string">>, {"id", "message_type", "producer", "failure_semantics"}) \cup AsList("string", {"consumers"})

ReviewJson ==
  As(<<"string">>, {"author_identity_hash", "reviewer_identity_hash"}) \cup AsList("string", {"findings"})
  \cup As(<<"flag">>, {"passed", "findings_resolved"}) \cup AsList("artifact", {"evidence"})

StepOutputJson ==
  As(<<"step">>, {"step"}) \cup As(<<"string">>, {"summary"}) \cup AsList("string", {"details"})
  \cup AsList("artifact", {"artifacts"}) \cup As(<<"number">>, {"recorded_at_unix_ms"})

WiringJson ==
  As(<<"string">>, {"contract_id"}) \cup AsText({"pass", "fail", "deferred"}, {"status"})
  \cup AsList("artifact", {"evidence"})

DebtJson ==
  As(<<"step">>, {"step"}) \cup As(<<"string">>, {"reason"}) \cup As(<<"number">>, {"recorded_at_unix_ms"})

RetryJson ==
  As(<<"step">>, {"step"}) \cup As(<<"error class">>, {"error_class"})
  \cup As(<<"string">>, {"summary", "decision"}) \cup AsList("artifact", {"artifacts"})
  \cup As(<<"number">>, {"attempt", "recorded_at_unix_ms"})

LaunchJson ==
  As(<<"flag">>, {"process_started", "process_still_running", "panic_free", "usable_screen_observed",
                  "definition_of_done_satisfied", "completion_enforcer_clean"})
  \cup As(<<"artifact">>, {"screenshot", "startup_output"}) \cup As(<<"trip">>, {"round_trip"})
  \cup AsList("artifact", {"definition_of_done_evidence"})

TripJson ==
  As(<<"string">>, {"input_event_id", "runtime_result_id", "rendered_before_hash", "rendered_after_hash"})
  \cup ({"bus_layers"} \X {<<"list", layer>> : layer \in
             {"l0_transport", "l1_message", "l2_flow", "l3_orchestration"}})
  \cup AsList("artifact", {"evidence"})

ArtifactJson == As(<<"string">>, {"path", "sha256_hex", "role"})

\* record_json, of a turn
RecordJson ==
  As(<<"number">>, {"schema_version", "ordinal", "planner_revision", "elapsed_ms", "created_at_unix_ms"})
  \cup As(<<"string">>, {"build_id", "provider", "model", "request_body_hash", "raw_response_hash",
                         "output_hash", "output_artifact", "thinking_source", "scratchpad_entry_hash",
                         "previous_hash", "record_hash"})
  \cup As(<<"step">>, {"step"}) \cup OrNull(<<"number">>, {"input_tokens", "output_tokens", "reasoning_tokens"})
  \cup AsList("string", {"evidence_ids"}) \cup AsList("number", {"context_route", "result_route"})

\* manifest_json, of a session
ManifestJson ==
  As(<<"number">>, {"schema_version", "created_at_unix_ms"})
  \cup As(<<"string">>, {"build_id", "project_id", "operator_request", "initial_provider", "initial_model",
                         "initial_provider_identity_hash", "manifest_hash"})

\* entry_to_json, of a scratchpad
EntryToJson ==
  As(<<"number">>, {"schema_version", "ordinal", "created_at_unix_ms"})
  \cup As(<<"string">>, {"build_id", "model_scope_hash", "content", "content_hash", "previous_hash",
                         "entry_hash"})
  \cup As(<<"entry kind">>, {"kind"}) \cup AsList("string", {"source_ids"}) \cup OrNull(<<"step">>, {"step"})

Writes ==
  [ledger |-> LedgerToJson, requirements |-> RequirementsJson, blueprint |-> BlueprintJson,
   crate |-> CrateJson, edge |-> EdgeJson, contract |-> ContractJson, review |-> ReviewJson,
   step_output |-> StepOutputJson, wiring |-> WiringJson, debt |-> DebtJson, retry |-> RetryJson,
   launch |-> LaunchJson, trip |-> TripJson, artifact |-> ArtifactJson, turn |-> RecordJson,
   session |-> ManifestJson, entry |-> EntryToJson]

(***************************************************************************)
(* Records as they are read.  A reader of a field refuses one that is      *)
(* missing, and every form but those it stands for here; what it then      *)
(* checks of a path, a hash or a role of an artifact is left out.          *)
(***************************************************************************)
StringField(names)      == names \X {<<"string">>}
NumberField(names)      == names \X {<<"number">>}
BoolField(names)        == names \X {<<"flag">>}
StringArrayField(names) == names \X {<<"list", "string">>}
U64Array(names)         == names \X {<<"list", "number">>}
OptionalNumber(names)   == names \X {<<"number">>, <<"null">>}
\* a string field and the parse of its type
Parsed(type, names)     == names \X {<<type>>}
ObjectField(record, names) == names \X {<<record>>}
ObjectArray(record, names) == names \X {<<"list", record>>}

\* Variant: an object that may be null is read like one that must be there.
OptionalObjectLate(record, names) == names \X {<<record>>}

OptionalObject(record, names) == names \X {<<record>>, <<"null">>}

\* BuildRunStatus::parse, wiring_status_parse, and bus_layer_parse of each layer
RunStatus(names)    == names \X {<<"active">>, <<"halted">>, <<"complete">>}
WiringStatus(names) == names \X {<<"pass">>, <<"fail">>, <<"deferred">>}
BusLayers(names) ==
  names \X {<<"list", "l0_transport">>, <<"list", "l1_message">>, <<"list", "l2_flow">>,
            <<"list", "l3_orchestration">>}

LedgerFromJson ==
  RunStatus({"status"}) \cup Parsed("step", {"current_step"})
  \cup NumberField({"schema_version", "revision", "retry_limit", "created_at_unix_ms", "updated_at_unix_ms"})
  \cup StringField({"build_id", "project_id"}) \cup BoolField({"autonomous_correction"})
  \cup OptionalObject("requirements", {"requirements"}) \cup ObjectArray("blueprint", {"blueprint_versions"})
  \cup ObjectArray("step_output", {"step_outputs"}) \cup StringArrayField({"crate_statuses", "couple_markers"})
  \cup ObjectArray("wiring", {"wiring_statuses"}) \cup ObjectArray("debt", {"deferred_debt"})
  \cup ObjectArray("retry", {"retry_ledger"}) \cup OptionalObject("launch", {"launch_proof"})

RequirementsFromJson ==
  StringField({"purpose", "ui_decision", "persistence_decision", "execution_siting"})
  \cup StringArrayField({"user_behaviors", "external_boundaries", "out_of_scope", "definition_of_done"})
  \cup ObjectField("artifact", {"artifact"})

BlueprintFromJson ==
  NumberField({"version"}) \cup ObjectArray("crate", {"crates"})
  \cup ObjectArray("contract", {"message_contracts"}) \cup ObjectArray("edge", {"dependency_edges"})
  \cup StringArrayField({"topological_order", "coupling_order"})
  \cup ObjectField("artifact", {"blueprint_artifact", "protocol_artifact"})
  \cup ObjectField("review", {"independent_review"})

CrateFromJson == StringField({"name", "responsibility"})
EdgeFromJson  == StringField({"dependency", "consumer"})

ContractFromJson ==
  StringField({"id", "message_type", "producer", "failure_semantics"}) \cup StringArrayField({"consumers"})

ReviewFromJson ==
  StringField({"author_identity_hash", "reviewer_identity_hash"}) \cup StringArrayField({"findings"})
  \cup BoolField({"passed", "findings_resolved"}) \cup ObjectArray("artifact", {"evidence"})

StepOutputFromJson ==
  Parsed("step", {"step"}) \cup StringField({"summary"}) \cup StringArrayField({"details"})
  \cup ObjectArray("artifact", {"artifacts"}) \cup NumberField({"recorded_at_unix_ms"})

WiringFromJson ==
  WiringStatus({"status"}) \cup StringField({"contract_id"}) \cup ObjectArray("artifact", {"evidence"})

DebtFromJson ==
  Parsed("step", {"step"}) \cup StringField({"reason"}) \cup NumberField({"recorded_at_unix_ms"})

RetryFromJson ==
  Parsed("step", {"step"}) \cup Parsed("error class", {"error_class"})
  \cup NumberField({"attempt", "recorded_at_unix_ms"}) \cup StringField({"summary", "decision"})
  \cup ObjectArray("artifact", {"artifacts"})

LaunchFromJson ==
  ObjectField("trip", {"round_trip"})
  \cup BoolField({"process_started", "process_still_running", "panic_free", "usable_screen_observed",
                  "definition_of_done_satisfied", "completion_enforcer_clean"})
  \cup ObjectField("artifact", {"screenshot", "startup_output"})
  \cup ObjectArray("artifact", {"definition_of_done_evidence"})

TripFromJson ==
  BusLayers({"bus_layers"}) \cup ObjectArray("artifact", {"evidence"})
  \cup StringField({"input_event_id", "runtime_result_id", "rendered_before_hash", "rendered_after_hash"})

ArtifactFromJson == StringField({"path", "sha256_hex", "role"})

ParseRecord ==
  NumberField({"schema_version", "ordinal", "planner_revision", "elapsed_ms", "created_at_unix_ms"})
  \cup StringField({"build_id", "provider", "model", "request_body_hash", "raw_response_hash",
                    "output_hash", "output_artifact", "thinking_source", "scratchpad_entry_hash",
                    "previous_hash", "record_hash"})
  \cup Parsed("step", {"step"}) \cup OptionalNumber({"input_tokens", "output_tokens", "reasoning_tokens"})
  \cup StringArrayField({"evidence_ids"}) \cup U64Array({"context_route", "result_route"})

ParseManifest ==
  NumberField({"schema_version", "created_at_unix_ms"})
  \cup StringField({"build_id", "project_id", "operator_request", "initial_provider", "initial_model",
                    "initial_provider_identity_hash", "manifest_hash"})

\* the step of an entry is matched: null, or a string and its parse
ParseEntry ==
  OptionalObject("step", {"step"}) \cup Parsed("entry kind", {"kind"}) \cup StringArrayField({"source_ids"})
  \cup NumberField({"schema_version", "ordinal", "created_at_unix_ms"})
  \cup StringField({"build_id", "model_scope_hash", "content", "content_hash", "previous_hash",
                    "entry_hash"})

Reads ==
  [ledger |-> LedgerFromJson, requirements |-> RequirementsFromJson, blueprint |-> BlueprintFromJson,
   crate |-> CrateFromJson, edge |-> EdgeFromJson, contract |-> ContractFromJson,
   review |-> ReviewFromJson, step_output |-> StepOutputFromJson, wiring |-> WiringFromJson,
   debt |-> DebtFromJson, retry |-> RetryFromJson, launch |-> LaunchFromJson, trip |-> TripFromJson,
   artifact |-> ArtifactFromJson, turn |-> ParseRecord, session |-> ParseManifest, entry |-> ParseEntry]

Names(fields) == {field[1] : field \in fields}

(***************************************************************************)
(* Chains of records.  A store is its files in the order of their names.   *)
(***************************************************************************)
Stores == {"session", "scratchpad", "turns", "ledger"}

LinkOf(files) == IF files = <<>> THEN <<>> ELSE files[Len(files)].link

\* The hash a record carries of its text: raw, but for a ledger, whose hash is of
\* the JSON it is written as.
Hashed(store, text) == IF store = "ledger" THEN Kept(text) ELSE text

\* The file of the next record.
NewFile(store, files, text) ==
  LET ordinal == Len(files) + 1
      hash    == <<ordinal, LinkOf(files), Hashed(store, text)>>
  IN  [name |-> <<ordinal, hash>>, ordinal |-> ordinal, previous |-> LinkOf(files),
       text |-> Kept(text), hash |-> hash, link |-> hash]

\* Variant: the link to the record before is not compared.
HoldsUnlinked(store, files, i) ==
  LET f == files[i] IN
    f.ordinal = i /\ f.hash = <<f.ordinal, f.previous, f.text>> /\ f.name = <<f.ordinal, f.hash>>

\* ScratchpadEntry::validate and its file name; validate_record and record_path of
\* turns; the snapshot checks of load_unlocked_optional.  The name of a
\* session is its build.
Holds(store, files, i) ==
  LET f == files[i] IN
    /\ f.ordinal = i /\ f.previous = LinkOf(SubSeq(files, 1, i - 1))
    /\ f.hash = <<f.ordinal, f.previous, f.text>>
    /\ store # "session" => f.name = <<f.ordinal, f.hash>>

\* load_unlocked of the stores
Loads(store, files) == \A i \in DOMAIN files : Holds(store, files, i)

\* append of scratchpads and turns, create of sessions, save of ledgers: the record is
\* written, read back and compared; it stays when the comparison fails.
WithRecord(store, files, text) ==
  IF ~Loads(store, files) \/ (store = "session" /\ files # <<>>)
  THEN [files |-> files, ok |-> FALSE]
  ELSE LET next == Append(files, NewFile(store, files, text)) IN
         [files |-> next, ok |-> Loads(store, next) /\ next[Len(next)].text = text]

FilesOf(store, texts) ==
  LET after[k \in 0..Len(texts)] ==
        IF k = 0 THEN <<>> ELSE WithRecord(store, after[k - 1], texts[k]).files
  IN  after[Len(texts)]

\* seal and verify_seal, but for its clock
Seal(files) == [count |-> Len(files), last |-> LinkOf(files)]
SealHolds(seal, files) == seal = Seal(files)

\* One file changed, renamed or gone.  Whoever changes the last record together
\* with its hashes and its name has made another last record; any record
\* before it is held by the next.
DamagedFiles(files) ==
  LET n == Len(files)
      other   == <<"x", "x", "x">>
      foreign == <<0, <<>>, other>>
      forged(i) == LET h == <<files[i].ordinal, files[i].previous, other>> IN
                     [files[i] EXCEPT !.text = other, !.hash = h, !.link = h, !.name = <<i, h>>]
  IN  {[files EXCEPT ![i].text = other] : i \in 1..n}
      \cup {[files EXCEPT ![i].hash = foreign, ![i].link = foreign] : i \in 1..n}
      \cup {[files EXCEPT ![i].previous = foreign] : i \in 1..n}
      \cup {[files EXCEPT ![i].ordinal = @ + 1] : i \in 1..n}
      \cup {[files EXCEPT ![i] = forged(i)] : i \in 1..(n - 1)}
      \cup {SubSeq(files, 1, i - 1) \o SubSeq(files, i + 1, n) : i \in 1..(n - 1)}

(***************************************************************************)
(* project: the entries of a scratchpad a prompt shows.  An entry is its   *)
(* step, 0 for all of them, and the bytes of its content.                  *)
(***************************************************************************)
Frame == 190         (* bytes of a projected block besides its content     *)
BlockContent == 4096
MinCut == 128

Block(entry) == Frame + (IF entry.bytes < BlockContent THEN entry.bytes ELSE BlockContent)

\* The entries of the step, by their place.
Eligible(entries, step) == {i \in DOMAIN entries : entries[i].step \in {0, step}}

\* Variant: the newest entry is left out when it does not fit.
ProjectionUncut(entries, step, header, budget) ==
  LET n == Len(entries)
      walk[k \in 0..n] ==
        IF k = 0 THEN [used |-> header, shown |-> <<>>, ended |-> FALSE]
        ELSE LET w == walk[k - 1]  i == (n + 1) - k  b == Block(entries[i]) IN
               IF i \in Eligible(entries, step) /\ w.used + b <= budget
               THEN [w EXCEPT !.used = @ + b, !.shown = <<[at |-> i, bytes |-> b]>> \o @]
               ELSE w
  IN  walk[n]

\* The newest first; the first that does not fit is cut if nothing else is shown,
\* which ends the walk, and skipped otherwise.
Projection(entries, step, header, budget) ==
  LET n == Len(entries)
      walk[k \in 0..n] ==
        IF k = 0 THEN [used |-> header, shown |-> <<>>, ended |-> FALSE]
        ELSE LET w == walk[k - 1]  i == (n + 1) - k  b == Block(entries[i])
                 show(bytes) == <<[at |-> i, bytes |-> bytes]>> \o w.shown
             IN IF w.ended \/ i \notin Eligible(entries, step) THEN w
                ELSE IF w.used + b <= budget
                     THEN [w EXCEPT !.used = @ + b, !.shown = show(b)]
                ELSE IF w.shown = <<>> /\ w.used < budget
                     THEN [w EXCEPT !.ended = TRUE,
                             !.shown = IF budget - w.used >= MinCut THEN show(budget - w.used) ELSE @]
                ELSE w
  IN  walk[n]

(***************************************************************************)
(* Properties of an input.                                                 *)
(***************************************************************************)
NoEscapes(texts) == \A i \in DOMAIN texts : Kept(texts[i]) = texts[i]

\* Writer and reader of a record are two lists of fields, each translated from its
\* own function: the reader takes every form the writer gives a field, null
\* included, and asks for no field the writer leaves out.  A record without
\* control characters is read back as it was, and the chain of its store loads;
\* a ledger's loads whatever its texts hold, because its hash is of what is
\* written.
RecordsReadBack(store, texts) ==
  /\ \A record \in DOMAIN Writes :
       Writes[record] \subseteq Reads[record] /\ Names(Reads[record]) \subseteq Names(Writes[record])
  /\ NoEscapes(texts) \/ store = "ledger" =>
       LET files == FilesOf(store, texts) IN
         /\ Loads(store, files)
         /\ Len(files) = IF store = "session" /\ texts # <<>> THEN 1 ELSE Len(texts)
         /\ \A i \in DOMAIN files : files[i].text = Kept(texts[i])

\* "Each build and provider-model identity owns an isolated, bounded, tamper-evident
\* scratchpad" (model-scratchpad.md), and so are turns and ledgers: no change
\* or loss of one record goes unnoticed, but for the loss of the last ones,
\* which a sealed scratchpad notices, too.
ChainDamageIsRefused(store, texts) ==
  NoEscapes(texts) /\ store # "session" =>
    LET files == FilesOf(store, texts) IN
      /\ \A damaged \in DamagedFiles(files) : ~Loads(store, damaged)
      /\ \A n \in 0..(Len(files) - 1) : ~SealHolds(Seal(files), SubSeq(files, 1, n))

\* A projection keeps its budget, shows entries of the step in their order and, as
\* long as there is any, the newest, whole if it fits: what a model did last
\* is what it resumes from.
ProjectionsFit(entries, step, header, budget) ==
  LET shown == Projection(entries, step, header, budget).shown
      eligible == Eligible(entries, step)
      used[k \in 0..Len(shown)] == IF k = 0 THEN header ELSE used[k - 1] + shown[k].bytes
  IN  /\ used[Len(shown)] <= budget
      /\ \A i \in DOMAIN shown : shown[i].at \in eligible
      /\ \A i, j \in DOMAIN shown : i < j => shown[i].at < shown[j].at
      /\ \A n \in eligible : (\A i \in eligible : i <= n) =>
           /\ shown # <<>> /\ shown[Len(shown)].at = n
           /\ header + Block(entries[n]) <= budget => shown[Len(shown)].bytes = Block(entries[n])

\* "so a small thinking model can resume without reconstructing active work"
\* (model-scratchpad.md): an append, whatever it returns, leaves a scratchpad,
\* a session and turns that load.
AppendsLeaveLoadable(store, texts) == Loads(store, FilesOf(store, texts))
==============================================================================
