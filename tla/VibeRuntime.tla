------------------------------ MODULE VibeRuntime ------------------------------
(***************************************************************************)
(* Atom Vibe runtimes - one per process - over one state root              *)
(* (atom-vibe-runtime with atom-vibe-scratchpad).                          *)
(*                                                                         *)
(* An operation of the runtime is a chain of writes to separate stores:    *)
(* planner ledger, session, scratchpad, output artifact, turn record.      *)
(* Each write is atomic under its store's own lease; between two of them   *)
(* another process may write, the next write may fail, or the process may  *)
(* die.  A scratchpad belongs to one build and one provider-model          *)
(* identity, so a change of provider changes the scratchpad.               *)
(*                                                                         *)
(* The ledger store is taken as module BuildCoordinator shows it to be: a  *)
(* chain of snapshots per build, each coordinator caching one of them.     *)
(* What a snapshot says is reduced to its step, its status and the         *)
(* decision that led to it.                                                *)
(***************************************************************************)
EXTENDS Naturals, Sequences

CONSTANTS
  Runtimes,      (* processes                                             *)
  Builds,        (* build ids                                             *)
  Providers,     (* provider-model identities                             *)
  Outputs,       (* texts a provider may answer with, named by their hash *)
  NoOutput,
  LastStep,      (* steps of the spine: 6 in the code                     *)
  MaxEntries,    (* MAX_SCRATCHPAD_ENTRIES                                *)
  MaxTurns,      (* MAX_TURNS_PER_BUILD                                   *)
  MaxRevision    (* bound: evaluations start below this revision          *)

ASSUME LimitAssumption ==
  /\ LastStep \in Nat \ {0}
  /\ MaxEntries \in Nat \ {0}
  /\ MaxTurns \in Nat \ {0}
  /\ MaxRevision \in Nat
ASSUME OutputAssumption == NoOutput \notin Outputs

VARIABLES
  \* of each runtime
  pc,        (* the write it is about to make                             *)
  provider,  (* its provider-model identity                               *)
  cached,    (* revision of its cached planner of each build, 0 for none  *)
  prepared,  (* the turn its caller has prepared last                     *)
  op,        (* the operation it is in                                    *)
  \* on disk
  history,   (* ledger snapshots of each build                            *)
  sessions,  (* builds with a session manifest                            *)
  pads,      (* scratchpad entries of each build and provider             *)
  seals,     (* entry count each scratchpad was sealed at, 0 for unsealed *)
  outputs,   (* output artifacts of each build                            *)
  turns      (* turn records of each build                                *)

memory == <<pc, provider, cached, prepared, op>>
disk   == <<history, sessions, pads, seals, outputs, turns>>
vars   == <<memory, disk>>

Decisions == {"started", "advance", "retry", "halt"}
Snapshots == [status   : {"active", "halted", "complete"},
              step     : 1..LastStep,
              decision : Decisions]

\* Observations, provider failures and notes are all just notes here.
Note == [kind |-> "note"]
Entries ==
  {Note}
    \cup [kind : {"packet_output"}, output : Outputs]
    \cup [kind : {"decision"}, revision : Nat, decision : Decisions]

Turns     == [revision : Nat, provider : Providers, output : Outputs, entry : Nat]
Prepared  == [build : Builds, revision : Nat, provider : Providers]
Operation == [build : Builds, revision : Nat, decision : Decisions,
              output : Outputs \cup {NoOutput}, entry : Nat]
NoOp      == <<>>
NoTurn    == <<>>

Storing == {"session", "observe", "persist", "entry", "record", "blocked",
            "decide", "seal"}

TypeOK ==
  /\ pc       \in [Runtimes -> {"down", "ready", "call"} \cup Storing]
  /\ provider \in [Runtimes -> Providers]
  /\ cached   \in [Runtimes -> [Builds -> Nat]]
  /\ prepared \in [Runtimes -> Prepared \cup {NoTurn}]
  /\ op       \in [Runtimes -> Operation \cup {NoOp}]
  /\ history  \in [Builds -> Seq(Snapshots)]
  /\ sessions \subseteq Builds
  /\ pads     \in [Builds -> [Providers -> Seq(Entries)]]
  /\ seals    \in [Builds -> [Providers -> Nat]]
  /\ outputs  \in [Builds -> SUBSET Outputs]
  /\ turns    \in [Builds -> Seq(Turns)]

Nothing(x) == [b \in Builds |-> [p \in Providers |-> x]]

Init ==
  /\ pc       = [r \in Runtimes |-> "down"]
  /\ provider \in [Runtimes -> Providers]
  /\ cached   = [r \in Runtimes |-> [b \in Builds |-> 0]]
  /\ prepared = [r \in Runtimes |-> NoTurn]
  /\ op       = [r \in Runtimes |-> NoOp]
  /\ history  = [b \in Builds |-> <<>>]
  /\ sessions = {}
  /\ pads     = Nothing(<<>>)
  /\ seals    = Nothing(0)
  /\ outputs  = [b \in Builds |-> {}]
  /\ turns    = [b \in Builds |-> <<>>]

\* The next write of an operation, and its end.
Goto(r, s) == pc' = [pc EXCEPT ![r] = s]
Begin(r, s, o) == Goto(r, s) /\ op' = [op EXCEPT ![r] = o]
Return(r) == Goto(r, "ready") /\ op' = [op EXCEPT ![r] = NoOp]

Op(b, n, d) == [build |-> b, revision |-> n, decision |-> d,
                output |-> NoOutput, entry |-> 0]

(***************************************************************************)
(* The scratchpad of a build and the runtime's provider                    *)
(* (ScratchpadStore::append and seal).                                     *)
(***************************************************************************)
\* Variant: the seal is not looked at.
MayAppendSealed(b, p) == Len(pads[b][p]) < MaxEntries

MayAppend(b, p) == seals[b][p] = 0 /\ Len(pads[b][p]) < MaxEntries

Write(b, p, entry) ==
  /\ MayAppend(b, p)
  /\ pads' = [pads EXCEPT ![b][p] = Append(@, entry)]

\* seal.json is written once; sealing again with another time is refused.
SealPad(b, p) ==
  /\ seals[b][p] = 0
  /\ seals' = [seals EXCEPT ![b][p] = Len(pads[b][p])]

(***************************************************************************)
(* Opening, provider changes, and the end of a process.                    *)
(***************************************************************************)
Open(r) ==
  /\ pc[r] = "down"
  /\ cached' = [cached EXCEPT ![r] = [b \in Builds |-> Len(history[b])]]
  /\ Goto(r, "ready")
  /\ UNCHANGED <<provider, prepared, op, disk>>

SetProvider(r) ==
  /\ pc[r] = "ready"
  /\ \E p \in Providers \ {provider[r]} : provider' = [provider EXCEPT ![r] = p]
  /\ UNCHANGED <<pc, cached, prepared, op, disk>>

Crash(r) ==
  /\ pc[r] # "down"
  /\ cached' = [cached EXCEPT ![r] = [b \in Builds |-> 0]]
  /\ prepared' = [prepared EXCEPT ![r] = NoTurn]
  /\ Begin(r, "down", NoOp)
  /\ UNCHANGED <<provider, disk>>

\* A write fails, its lease times out, or the scratchpad is sealed or full:
\* the operation returns Err and what it has written stays.
StoreFails(r) ==
  /\ pc[r] \in Storing
  /\ Return(r)
  /\ UNCHANGED <<provider, cached, prepared, disk>>

(***************************************************************************)
(* start_build                                                             *)
(***************************************************************************)
FirstSnapshot == [status |-> "active", step |-> 1, decision |-> "started"]

StartBuild(r) ==
  /\ pc[r] = "ready"
  /\ \E b \in Builds :
       /\ history[b] = <<>>
       /\ history' = [history EXCEPT ![b] = <<FirstSnapshot>>]
       /\ cached' = [cached EXCEPT ![r][b] = 1]
       /\ Begin(r, "session", Op(b, 1, "started"))
  /\ UNCHANGED <<provider, prepared, sessions, pads, seals, outputs, turns>>

CreateSession(r) ==
  /\ pc[r] = "session"
  /\ sessions' = sessions \cup {op[r].build}
  /\ Goto(r, "observe")
  /\ UNCHANGED <<provider, cached, prepared, op, history, pads, seals, outputs, turns>>

RecordRequest(r) ==
  /\ pc[r] = "observe"
  /\ Write(op[r].build, provider[r], Note)
  /\ Return(r)
  /\ UNCHANGED <<provider, cached, prepared, history, sessions, seals, outputs, turns>>

\* append_scratchpad_note: any caller, any time.
AppendNote(r) ==
  /\ pc[r] = "ready"
  /\ \E b \in Builds : history[b] # <<>> /\ Write(b, provider[r], Note)
  /\ UNCHANGED <<memory, history, sessions, seals, outputs, turns>>

(***************************************************************************)
(* prepare_turn and execute_turn                                           *)
(***************************************************************************)
\* Variant: the session is not loaded first.
AnySession(b) == TRUE

\* sessions.load(build_id)?
HasSession(b) == b \in sessions

\* active_ledger, of the cached planner
Active(r, b) == cached[r][b] # 0 /\ history[b][cached[r][b]].status = "active"

\* The projection of the scratchpad goes into the prepared request.
PrepareTurn(r) ==
  /\ pc[r] = "ready"
  /\ \E b \in Builds :
       /\ HasSession(b)
       /\ Active(r, b)
       /\ prepared' = [prepared EXCEPT ![r] =
            [build |-> b, revision |-> cached[r][b], provider |-> provider[r]]]
  /\ UNCHANGED <<pc, provider, cached, op, disk>>

\* Variant: the provider is not compared.
FreshForAnyProvider(r, t) ==
  /\ Active(r, t.build)
  /\ t.revision = cached[r][t.build]

\* validate_prepared; a step is not compared, its revision determines it
Fresh(r, t) ==
  /\ Active(r, t.build)
  /\ t.revision = cached[r][t.build]
  /\ t.provider = provider[r]

\* The prepared turn is borrowed: its caller may execute it again.
ExecuteTurn(r) ==
  /\ pc[r] = "ready"
  /\ prepared[r] # NoTurn
  /\ Fresh(r, prepared[r])
  /\ Begin(r, "call", Op(prepared[r].build, prepared[r].revision, "started"))
  /\ UNCHANGED <<provider, cached, prepared, disk>>

ProviderAnswers(r) ==
  /\ pc[r] = "call"
  /\ \E o \in Outputs : Begin(r, "persist", [op[r] EXCEPT !.output = o])
  /\ UNCHANGED <<provider, cached, prepared, disk>>

ProviderFails(r) ==
  /\ pc[r] = "call"
  /\ Goto(r, "blocked")
  /\ UNCHANGED <<provider, cached, prepared, op, disk>>

RecordFailure(r) ==
  /\ pc[r] = "blocked"
  /\ Write(op[r].build, provider[r], Note)
  /\ Return(r)
  /\ UNCHANGED <<provider, cached, prepared, history, sessions, seals, outputs, turns>>

\* persist_provider_output: a content-addressed file
PersistOutput(r) ==
  /\ pc[r] = "persist"
  /\ outputs' = [outputs EXCEPT ![op[r].build] = @ \cup {op[r].output}]
  /\ Goto(r, "entry")
  /\ UNCHANGED <<provider, cached, prepared, op, history, sessions, pads, seals, turns>>

\* Variant: a scratchpad that takes no more entries does not stop the turn.
RecordOutputIfRoom(r) ==
  /\ pc[r] = "entry"
  /\ \/ Write(op[r].build, provider[r],
              [kind |-> "packet_output", output |-> op[r].output])
     \/ ~MayAppend(op[r].build, provider[r]) /\ UNCHANGED pads
  /\ Begin(r, "record",
           [op[r] EXCEPT !.entry = Len(pads[op[r].build][provider[r]]) + 1])
  /\ UNCHANGED <<provider, cached, prepared, history, sessions, seals, outputs, turns>>

RecordOutput(r) ==
  /\ pc[r] = "entry"
  /\ Write(op[r].build, provider[r],
           [kind |-> "packet_output", output |-> op[r].output])
  /\ Begin(r, "record",
           [op[r] EXCEPT !.entry = Len(pads[op[r].build][provider[r]]) + 1])
  /\ UNCHANGED <<provider, cached, prepared, history, sessions, seals, outputs, turns>>

RecordTurn(r) ==
  /\ pc[r] = "record"
  /\ Len(turns[op[r].build]) < MaxTurns
  /\ turns' = [turns EXCEPT ![op[r].build] = Append(@,
        [revision |-> op[r].revision, provider |-> provider[r],
         output |-> op[r].output, entry |-> op[r].entry])]
  /\ Return(r)
  /\ UNCHANGED <<provider, cached, prepared, history, sessions, pads, seals, outputs>>

(***************************************************************************)
(* evaluate_gate                                                           *)
(***************************************************************************)
\* What the gates and the planner may make of a build at snapshot s.
Outcomes(s) ==
  {[s EXCEPT !.decision = "retry"],
   [s EXCEPT !.decision = "halt", !.status = "halted"],
   IF s.step < LastStep THEN [s EXCEPT !.decision = "advance", !.step = @ + 1]
   ELSE [s EXCEPT !.decision = "advance", !.status = "complete"]}

\* Variant: another ledger found at the candidate's revision counts as saved.
SavedByAnyone(b, n, s) ==
  \/ /\ n = Len(history[b])
     /\ history' = [history EXCEPT ![b] = Append(@, s)]
  \/ /\ n + 1 = Len(history[b])
     /\ UNCHANGED history

\* The coordinator's evaluate as one step: the candidate is appended if it
\* follows the last snapshot, or found there already, saved by another runtime.
\* Otherwise save reports the conflict and nothing changes.
Saved(b, n, s) ==
  \/ /\ n = Len(history[b])
     /\ history' = [history EXCEPT ![b] = Append(@, s)]
  \/ /\ n + 1 = Len(history[b])
     /\ history[b][n + 1] = s
     /\ UNCHANGED history

Evaluate(r) ==
  /\ pc[r] = "ready"
  /\ \E b \in Builds :
       /\ HasSession(b)
       /\ Active(r, b)
       /\ cached[r][b] < MaxRevision
       /\ \E s \in Outcomes(history[b][cached[r][b]]) :
            /\ Saved(b, cached[r][b], s)
            /\ Begin(r, "decide", Op(b, cached[r][b] + 1, s.decision))
       /\ cached' = [cached EXCEPT ![r][b] = @ + 1]
  /\ UNCHANGED <<provider, prepared, sessions, pads, seals, outputs, turns>>

\* The snapshot is durable but does not read back as written: evaluate returns
\* Err and the cache stays behind.
EvaluateFails(r) ==
  /\ pc[r] = "ready"
  /\ \E b \in Builds :
       /\ HasSession(b)
       /\ Active(r, b)
       /\ cached[r][b] < MaxRevision
       /\ \E s \in Outcomes(history[b][cached[r][b]]) : Saved(b, cached[r][b], s)
  /\ UNCHANGED <<memory, sessions, pads, seals, outputs, turns>>

\* decision_scratchpad, from the planner just cached and its decision
RecordDecision(r) ==
  /\ pc[r] = "decide"
  /\ Write(op[r].build, provider[r],
           [kind |-> "decision", revision |-> op[r].revision,
            decision |-> op[r].decision])
  /\ IF history[op[r].build][op[r].revision].status = "complete"
     THEN Goto(r, "seal") /\ UNCHANGED op
     ELSE Return(r)
  /\ UNCHANGED <<provider, cached, prepared, history, sessions, seals, outputs, turns>>

Seal(r) ==
  /\ pc[r] = "seal"
  /\ SealPad(op[r].build, provider[r])
  /\ Return(r)
  /\ UNCHANGED <<provider, cached, prepared, history, sessions, pads, outputs, turns>>

Next ==
  \E r \in Runtimes :
    \/ Open(r) \/ SetProvider(r) \/ Crash(r) \/ StoreFails(r)
    \/ StartBuild(r) \/ CreateSession(r) \/ RecordRequest(r) \/ AppendNote(r)
    \/ PrepareTurn(r) \/ ExecuteTurn(r) \/ ProviderAnswers(r) \/ ProviderFails(r)
    \/ RecordFailure(r) \/ PersistOutput(r) \/ RecordOutput(r) \/ RecordTurn(r)
    \/ Evaluate(r) \/ EvaluateFails(r) \/ RecordDecision(r) \/ Seal(r)

Spec == Init /\ [][Next]_vars

(***************************************************************************)
(* Properties.                                                             *)
(***************************************************************************)
\* What a restart recomputes for every turn record holds whatever failed or
\* died between the writes of execute_turn: its artifact is there, the
\* scratchpad entry it names is the checkpoint of that output in its own
\* provider's scratchpad, and no two turns share a checkpoint.
TurnsAreBacked ==
  \A b \in Builds : \A i \in 1..Len(turns[b]) :
    LET t == turns[b][i] IN
      /\ t.output \in outputs[b]
      /\ t.entry \in 1..Len(pads[b][t.provider])
      /\ pads[b][t.provider][t.entry] = [kind |-> "packet_output", output |-> t.output]
      /\ \A j \in 1..Len(turns[b]) :
           turns[b][j].provider = t.provider /\ turns[b][j].entry = t.entry => j = i

\* Racing writers never put a scratchpad or a turn chain beyond what load
\* accepts: the limits hold, and a sealed scratchpad has the entries it was
\* sealed with.
StoresStayLoadable ==
  \A b \in Builds :
    /\ Len(turns[b]) <= MaxTurns
    /\ \A p \in Providers :
         /\ Len(pads[b][p]) <= MaxEntries
         /\ seals[b][p] # 0 => seals[b][p] = Len(pads[b][p])

\* "Prevents cross-model hidden-context leakage" (PROVIDER_MODELS.md): the
\* scratchpad projected into a request in flight is that of the provider called,
\* and within one process no evaluation overtakes the call.
CallsStayInScope ==
  \A r \in Runtimes : pc[r] = "call" =>
    [build |-> op[r].build, revision |-> cached[r][op[r].build],
     provider |-> provider[r]] = prepared[r]

\* The scratchpad reports no decision the ledger does not hold.
DecisionsAreDurable ==
  \A b \in Builds, p \in Providers : \A i \in 1..Len(pads[b][p]) :
    LET e == pads[b][p][i] IN
      e.kind = "decision" =>
        /\ e.revision \in 2..Len(history[b])
        /\ history[b][e.revision].decision = e.decision

\* A build whose start was interrupted before its session was written never
\* moves: no turn, no evaluation.
SessionsPrecedeProgress ==
  \A b \in Builds \ sessions : Len(history[b]) <= 1 /\ turns[b] = <<>>

(***************************************************************************)
(* What the documents promise and the code does not keep.                  *)
(***************************************************************************)
Settled(b) == \A r \in Runtimes : op[r] = NoOp \/ op[r].build # b

\* "Completion seals the append-only hash chain" (model-scratchpad.md).
CompletionSeals ==
  \A b \in Builds :
    /\ Settled(b)
    /\ history[b] # <<>>
    /\ history[b][Len(history[b])].status = "complete"
    => \A p \in Providers : pads[b][p] # <<>> => seals[b][p] # 0

\* "Changing the planner revision ... invalidates that prepared request before
\* HTTP execution" (ARCHITECTURE.md): a call is made only at the latest revision.
StaleTurnsNeverCall ==
  [][\A r \in Runtimes : pc[r] # "call" /\ pc'[r] = "call" =>
       op'[r].revision = Len(history[op'[r].build])]_vars
==============================================================================
