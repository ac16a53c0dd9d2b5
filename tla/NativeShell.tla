------------------------------ MODULE NativeShell ------------------------------
(***************************************************************************)
(* The native shell: one window thread and the workers it starts           *)
(* (math-atoms-native with the Math Atoms runtime, the native bridge to    *)
(* the Atom Vibe runtime, and the ledgers of module LearningLedger).       *)
(*                                                                         *)
(* Every window message is handled to its end on the one thread; an action *)
(* is one message.  Three kinds of work run on threads of their own: a     *)
(* provider call of the proof route, a fast build, a step of the durable   *)
(* build.  Each has a channel whose receiver the thread keeps, a timer     *)
(* that polls it, and a flag that says it is under way.                    *)
(* The runtime of the durable build is lent to its worker and comes back   *)
(* with the result.                                                        *)
(*                                                                         *)
(* The shell always runs in coder mode, so every run asks for a provider   *)
(* call.  Texts are reduced to the intent they are about and the reasons   *)
(* they give; the graph evidence that enters a work plan, to the number of *)
(* lessons learned when it was prepared.                                   *)
(***************************************************************************)
EXTENDS LearningLedger

CONSTANTS
  Intents,    (* what the operator asks for                               *)
  Providers,  (* provider configurations                                  *)
  Ready,      (* those with endpoint, model, credential and thinking      *)
  FastReady,  (* those with endpoint, model and credential                *)
  NoCall,     (* no prepared call, no task                                *)
  NoWorker,   (* no receiver                                              *)
  MaxRuns,    (* bound: presses of Run                                    *)
  MaxFaults   (* bound: failed writes, crashes and refused preparations   *)

ASSUME ProviderAssumption == Ready \subseteq FastReady /\ FastReady \subseteq Providers
ASSUME BoundAssumption == MaxRuns \in Nat /\ MaxFaults \in Nat

VARIABLES
  up,          (* the process runs                                        *)
  rt,          (* the Math Atoms runtime                                  *)
  mem,         (* what the process remembers of the lessons               *)
  vibe,        (* the bridge to the durable build                         *)
  lastIntent,  (* the intent lessons are filed under                      *)
  rx,          (* the receiver of each kind of work, named by its task    *)
  running,     (* the flags                                               *)
  timer,       (* the armed poll timers                                   *)
  disk,        (* the two ledgers                                         *)
  clean,       (* every append since the process opened was confirmed     *)
  runs, faults

vars == <<up, rt, mem, vibe, lastIntent, rx, running, timer, disk, clean, runs, faults>>
work == <<rx, running, timer>>

Kinds     == {"provider", "fast", "vibe"}
Statuses  == {"draft", "pending", "verification", "proven", "blocked", "drift"}
Reasons   == {"credential", "schedule", "execution", "report", "store", "typecheck"}
NoIntent  == NoCall
Calls     == [intent : Intents, provider : Providers, lessons : Nat]
ASSUME WorkerAssumption == NoWorker \notin Calls /\ NoCall \notin Calls

\* about is the intent of the run that produced the lesson; the code files it
\* under the intent only.
Lessons == [intent : Intents, gate : Gates, outcome : Outcomes, attempt : Nat \ {0},
            failure : SUBSET Reasons, correction : SUBSET Reasons, about : Intents]

Runtimes == [provider : Providers, status : Statuses, call : Calls \cup {NoCall},
             output : Calls \cup {NoCall}, blockers : SUBSET Reasons, routed : BOOLEAN]

Vibes == [runtime  : {"held", "lent", "none"},
          state    : {"unavailable", "idle", "prepared", "running", "verification", "blocked"},
          provider : Providers, prepared : Calls \cup {NoCall}]

TypeOK ==
  /\ up \in BOOLEAN
  /\ rt \in Runtimes
  /\ mem.records \in Seq(Lessons)
  /\ mem.nodes \in Seq(Lessons)
  /\ mem.attempts \in [Intents -> [Gates -> Nat]]
  /\ mem.summary \in [Outcomes -> Nat]
  /\ vibe \in Vibes
  /\ lastIntent \in Intents \cup {NoIntent}
  /\ rx \in [Kinds -> {NoWorker} \cup Calls]
  /\ running \in [Kinds \ {"vibe"} -> BOOLEAN]
  /\ timer \in [Kinds -> BOOLEAN]
  /\ disk.learning.lines \in Seq(Lessons \cup {Garbled})
  /\ disk.learning.torn \in BOOLEAN
  /\ disk.proofs \in BOOLEAN
  /\ clean \in BOOLEAN
  /\ runs \in 0..MaxRuns
  /\ faults \in 0..MaxFaults

IsRunning(k) == IF k = "vibe" THEN vibe.state = "running" ELSE running[k]

(***************************************************************************)
(* Opening: both ledgers are read, by the runtime for its graph and by the *)
(* shell for its own memory.  A ledger that does not read leaves both      *)
(* without lessons and the runtime blocked.                                *)
(***************************************************************************)
Recall(file) ==
  LET records == ReadRecords(file)
  IN  [records  |-> EffectiveRecords(records),
       nodes    |-> RememberNodes(EffectiveRecords(records)),
       attempts |-> [i \in Intents |->
                      [g \in Gates |-> AttemptsOf(records, i, g)]],
       summary  |-> Summary(records)]

OpenRuntime(p) ==
  LET readable == disk.proofs /\ Readable(disk.learning)
  IN  [provider |-> p, status |-> IF readable THEN "draft" ELSE "blocked",
       call |-> NoCall, output |-> NoCall,
       blockers |-> IF readable THEN {} ELSE {"store"}, routed |-> ~readable]

OpenVibe(p) ==
  IF p \in Ready
    THEN [runtime |-> "held", state |-> "idle", provider |-> p, prepared |-> NoCall]
    ELSE [runtime |-> "none", state |-> "unavailable", provider |-> p, prepared |-> NoCall]

Idle == /\ rx = [k \in Kinds |-> NoWorker]
        /\ running = [k \in Kinds \ {"vibe"} |-> FALSE]
        /\ timer = [k \in Kinds |-> FALSE]

Init ==
  /\ disk = [proofs |-> TRUE, learning |-> EmptyFile]
  /\ mem = Recall(EmptyFile)
  /\ \E p \in Providers : rt = OpenRuntime(p) /\ vibe = OpenVibe(p)
  /\ lastIntent = NoIntent
  /\ up = TRUE /\ clean = TRUE /\ runs = 0 /\ faults = 0
  /\ Idle

(***************************************************************************)
(* The Math Atoms runtime, as functions of its state; routed says that it   *)
(* has a last route, which a proof is captured of.                         *)
(***************************************************************************)
\* run_coder_intent: the recipe is selected, the call prepared with the
\* lessons of the graph, and what an earlier run left is cleared.
RunCoderIntent(r, intent, lessons) ==
  LET prepared == r.provider \in Ready
  IN  [r EXCEPT !.status   = IF prepared THEN "pending" ELSE "blocked",
                !.call     = IF prepared
                               THEN [intent |-> intent, provider |-> r.provider,
                                     lessons |-> lessons]
                               ELSE NoCall,
                !.output   = NoCall,
                !.blockers = IF prepared THEN {} ELSE {"credential"},
                !.routed   = TRUE]

BlockRuntime(r, reason) ==
  [r EXCEPT !.status = "blocked", !.blockers = @ \cup {reason},
            !.routed = @ \/ reason # "store"]

FlagDrift(r) == [r EXCEPT !.status = "drift"]

ApplyProvider(r, p) ==
  [provider |-> p, status |-> "draft", call |-> NoCall, output |-> NoCall,
   blockers |-> {}, routed |-> FALSE]

MaySchedule(r) == r.call # NoCall /\ r.status = "pending"

\* Variant: a report is taken whatever plan it reports.
VerifiesAnyPlan(r, task) == r.status = "pending" /\ r.call # NoCall

\* verify_provider_execution_report: the run is still pending and the report
\* is of the plan prepared for it.
VerifiesReport(r, task) == r.status = "pending" /\ r.call # NoCall /\ r.call = task

\* Model output never proves: an executable harness is still required.
MarkReport(r, task, intact) ==
  IF intact /\ VerifiesReport(r, task)
    THEN [r EXCEPT !.status = "verification", !.output = task]
    ELSE BlockRuntime(r, "report")

(***************************************************************************)
(* Lessons.                                                                *)
(***************************************************************************)
\* current_learning_record of a proven or blocked run.
LessonOf(r, m, intent, about) ==
  LET gate == IF r.call # NoCall \/ r.blockers \cap (Reasons \ {"store"}) # {}
                THEN "native-provider-execution" ELSE "native-proof-route"
      won  == r.status = "proven"
  IN  [intent |-> intent, gate |-> gate,
       outcome |-> IF won THEN "succeeded" ELSE "failed",
       attempt |-> m.attempts[intent][gate] + 1,
       failure |-> IF won THEN {} ELSE r.blockers,
       correction |-> IF won THEN CorrectedFailure(m.records, intent, gate) ELSE {},
       about |-> about]

\* fast_build_success_record and fast_build_failure_record.
FastLesson(m, intent, compiled, about) ==
  LET gate == "native-fast-build"
  IN  [intent |-> intent, gate |-> gate,
       outcome |-> IF compiled THEN "succeeded" ELSE "failed",
       attempt |-> m.attempts[intent][gate] + 1,
       failure |-> IF compiled THEN {} ELSE {"typecheck"},
       correction |-> IF compiled THEN CorrectedFailure(m.records, intent, gate) ELSE {},
       about |-> about]

Learn(m, lesson) ==
  [records  |-> EffectiveRecords(Append(m.records, lesson)),
   nodes    |-> RememberNode(m.nodes, lesson),
   attempts |-> [m.attempts EXCEPT ![lesson.intent][lesson.gate] = lesson.attempt],
   summary  |-> [m.summary EXCEPT ![lesson.outcome] = @ + 1]]

\* Runtime, memory, ledgers, and whether every append was confirmed.
Books == [rt |-> rt, mem |-> mem, disk |-> disk, clean |-> clean]
Keep(b) == rt' = b.rt /\ mem' = b.mem /\ disk' = b.disk /\ clean' = b.clean

\* learn_learning_record: what is learned is published on the bus, and its
\* route becomes the last route.
RouteLesson(r) == [r EXCEPT !.routed = TRUE]

\* A lesson is learned only when its append is confirmed.
AppendLesson(b, lesson, end) ==
  LET written == [b EXCEPT !.disk.learning = AppendLine(@, lesson, end)]
  IN  IF end = "written"
        THEN [written EXCEPT !.mem = Learn(@, lesson), !.rt = RouteLesson(@)]
        ELSE [written EXCEPT !.clean = FALSE]

\* The proof record first; if it fails there is no lesson.
AppendProof(b, end) ==
  LET written == [b EXCEPT !.disk.proofs = @ /\ end # "torn"]
  IN  IF end = "written" THEN written
                         ELSE [written EXCEPT !.rt = BlockRuntime(@, "store")]

AppendProofRecord(b, learn, intent, about, ends) ==
  LET proved == AppendProof(b, ends.proof)
      taught == AppendLesson(proved, LessonOf(proved.rt, proved.mem, intent, about), ends.lesson)
  IN  IF ends.proof # "written" \/ ~learn \/ proved.rt.status \notin {"proven", "blocked"}
        THEN proved
        ELSE IF ends.lesson = "written" THEN taught
             ELSE [taught EXCEPT !.rt = BlockRuntime(@, "store")]

\* At most one of the writes of a message goes wrong.
Smooth == [proof |-> "written", lesson |-> "written", start |-> "prepared"]
Ends ==
  IF faults = MaxFaults THEN {Smooth}
  ELSE {[Smooth EXCEPT !.proof = e] : e \in AppendEnds}
         \cup {[Smooth EXCEPT !.lesson = e] : e \in AppendEnds}
         \cup {[Smooth EXCEPT !.start = "refused"]}

Fault(ends) == faults' = faults + (IF ends = Smooth THEN 0 ELSE 1)

(***************************************************************************)
(* The bridge to the durable build.                                        *)
(***************************************************************************)
\* A build that cannot be started leaves the turn prepared before in place.
StartBuild(v, turn, start) ==
  IF v.runtime # "held" \/ start = "refused" THEN v
  ELSE [v EXCEPT !.state = "prepared", !.prepared = [turn EXCEPT !.provider = v.provider]]

MayStep(v) == v.state # "running" /\ v.runtime = "held" /\ v.prepared # NoCall

LendRuntime(v) == [v EXCEPT !.runtime = "lent", !.state = "running", !.prepared = NoCall]

\* begin_step without a runtime or a prepared turn.
RefuseStep(v) ==
  IF v.state = "running" \/ (v.runtime = "held" /\ v.state = "verification") THEN v
  ELSE [v EXCEPT !.state = "blocked"]

ReturnRuntime(v, ok) ==
  [v EXCEPT !.runtime = "held", !.state = IF ok THEN "verification" ELSE "blocked"]

\* Variant: a worker that died leaves the bridge running.
ForgetRuntime(v) == [v EXCEPT !.runtime = "none"]

LoseRuntime(v) == [v EXCEPT !.runtime = "none", !.state = "blocked"]

\* set_provider reopens a lost runtime; it is refused while a step runs, and
\* a configuration the adapter rejects changes nothing.
SwitchVibe(v, p) ==
  IF v.state = "running" \/ p \notin Ready THEN v
  ELSE [runtime |-> "held", state |-> "idle", provider |-> p, prepared |-> NoCall]

(***************************************************************************)
(* The window's commands.                                                  *)
(***************************************************************************)
Launch(k, task) ==
  /\ rx' = [rx EXCEPT ![k] = task]
  /\ timer' = [timer EXCEPT ![k] = TRUE]
  /\ running' = [j \in DOMAIN running |-> j = k \/ running[j]]

\* The receiver is dropped and the timer killed.
Collect(k) ==
  /\ rx' = [rx EXCEPT ![k] = NoWorker]
  /\ timer' = [timer EXCEPT ![k] = FALSE]
  /\ running' = [j \in DOMAIN running |-> j # k /\ running[j]]

\* RUN_LOOP and Enter: run_current_intent, then begin_fast_build, which is
\* refused while one is under way.
Run(i) ==
  /\ up /\ runs < MaxRuns
  /\ runs' = runs + 1
  /\ lastIntent' = i
  /\ \E ends \in Ends :
       LET run  == [Books EXCEPT !.rt = RunCoderIntent(@, i, mem.summary["failed"]
                                                            + mem.summary["succeeded"])]
           turn == [intent |-> i, provider |-> rt.provider, lessons |-> 0]
       IN  /\ Fault(ends)
           /\ Keep(AppendProofRecord(run, TRUE, i, i, ends))
           /\ vibe' = StartBuild(vibe, turn, ends.start)
           /\ IF running["fast"] \/ rt.provider \notin FastReady
                THEN UNCHANGED work
                ELSE Launch("fast", turn)
  /\ UNCHANGED up

\* EXEC_PROVIDER.
ExecProvider ==
  /\ up /\ ~running["provider"]
  /\ IF MaySchedule(rt)
       THEN Launch("provider", rt.call) /\ UNCHANGED rt
       ELSE rt' = BlockRuntime(rt, "schedule") /\ UNCHANGED work
  /\ UNCHANGED <<up, mem, vibe, lastIntent, disk, clean, runs, faults>>

\* EXEC_VIBE_STEP.
ExecVibeStep ==
  /\ up
  /\ IF MayStep(vibe)
       THEN Launch("vibe", vibe.prepared) /\ vibe' = LendRuntime(vibe)
       ELSE vibe' = RefuseStep(vibe) /\ UNCHANGED work
  /\ UNCHANGED <<up, rt, mem, lastIntent, disk, clean, runs, faults>>

\* CAPTURE_PROOF: refused before a route exists and while a call is pending.
CaptureProof ==
  /\ up /\ rt.routed /\ rt.status # "pending"
  /\ \E ends \in {e \in Ends : e.lesson = "written" /\ e.start = "prepared"} :
       /\ Fault(ends)
       /\ Keep(AppendProofRecord(Books, FALSE, lastIntent, lastIntent, ends))
  /\ UNCHANGED <<up, vibe, lastIntent, work, runs>>

MarkDrift ==
  /\ up
  /\ rt' = FlagDrift(rt)
  /\ UNCHANGED <<up, mem, vibe, lastIntent, work, disk, clean, runs, faults>>

\* Variant: the receiver of the provider worker is kept.
ApplyKeepingWorker(p) ==
  /\ up
  /\ rt' = ApplyProvider(rt, p)
  /\ vibe' = SwitchVibe(vibe, p)
  /\ running' = [running EXCEPT !["provider"] = FALSE]
  /\ UNCHANGED <<up, mem, lastIntent, rx, timer, disk, clean, runs, faults>>

\* APPLY_PROVIDER: an answer still under way is discarded with its receiver.
Apply(p) ==
  /\ up
  /\ rt' = ApplyProvider(rt, p)
  /\ vibe' = SwitchVibe(vibe, p)
  /\ Collect("provider")
  /\ UNCHANGED <<up, mem, lastIntent, disk, clean, runs, faults>>

(***************************************************************************)
(* Polls.                                                                  *)
(***************************************************************************)
\* The timer of k fires and finds an answer, or that the worker has died; a
\* tick that finds neither changes nothing.
Polled(k) == up /\ timer[k] /\ rx[k] # NoWorker

\* complete_provider_execution_report.
PollProvider ==
  /\ Polled("provider")
  /\ \E result \in {"report", "spoiled", "error"},
        ends \in {e \in Ends : e.start = "prepared"} :
       LET task  == rx["provider"]
           done  == IF result = "error" THEN BlockRuntime(rt, "execution")
                    ELSE MarkReport(rt, task, result = "report")
       IN  /\ Fault(ends)
           /\ Keep(AppendProofRecord([Books EXCEPT !.rt = done], TRUE,
                                     lastIntent, task.intent, ends))
  /\ Collect("provider")
  /\ UNCHANGED <<up, vibe, lastIntent, runs>>

\* complete_fast_build: a typechecked build teaches, whatever its verdict; a
\* lesson that cannot be written is dropped.
PollFast ==
  /\ Polled("fast")
  /\ \E result \in {"compiled", "failing", "unverified", "error"},
        ends \in {e \in Ends : e.start = "prepared" /\ e.proof = "written"} :
       IF result \in {"compiled", "failing"}
         THEN /\ Fault(ends)
              /\ Keep(AppendLesson(Books, FastLesson(mem, lastIntent, result = "compiled",
                                                     rx["fast"].intent), ends.lesson))
         ELSE UNCHANGED <<rt, mem, disk, clean, faults>>
  /\ Collect("fast")
  /\ UNCHANGED <<up, vibe, lastIntent, runs>>

\* complete_vibe_step and vibe_worker_disconnected.
PollVibe ==
  /\ Polled("vibe")
  /\ \/ \E ok \in BOOLEAN : vibe' = ReturnRuntime(vibe, ok)
     \/ vibe' = LoseRuntime(vibe)
  /\ Collect("vibe")
  /\ UNCHANGED <<up, rt, mem, lastIntent, disk, clean, runs, faults>>

Poll(k) == CASE k = "provider" -> PollProvider
             [] k = "fast"     -> PollFast
             [] k = "vibe"     -> PollVibe

(***************************************************************************)
(* The process ends - perhaps within an append - and is opened again.      *)
(***************************************************************************)
Crash ==
  /\ up /\ faults < MaxFaults
  /\ \E torn \in BOOLEAN : disk' = [disk EXCEPT !.learning.torn = @ \/ torn]
  /\ up' = FALSE
  /\ rx' = [k \in Kinds |-> NoWorker]
  /\ running' = [k \in DOMAIN running |-> FALSE]
  /\ timer' = [k \in Kinds |-> FALSE]
  /\ vibe' = OpenVibe(rt.provider)
  /\ lastIntent' = NoIntent
  /\ faults' = faults + 1
  /\ UNCHANGED <<rt, mem, clean, runs>>

Reopen(p) ==
  /\ ~up /\ up' = TRUE
  /\ rt' = OpenRuntime(p)
  /\ vibe' = OpenVibe(p)
  /\ mem' = Recall(disk.learning)
  /\ clean' = Readable(disk.learning)
  /\ UNCHANGED <<lastIntent, work, disk, runs, faults>>

Next ==
  \/ \E i \in Intents : Run(i)
  \/ ExecProvider \/ ExecVibeStep \/ CaptureProof \/ MarkDrift
  \/ \E p \in Providers : Apply(p)
  \/ \E k \in Kinds : Poll(k)
  \/ Crash
  \/ \E p \in Providers : Reopen(p)

\* The workers that end whatever happens: curl runs with --max-time, cargo is
\* killed at its deadline, a lease is waited for with a timeout.  The rustc of a
\* fast build is waited for without one (run_rustc_check), so a fast build may
\* stay under way for ever.
Bounded == {"provider", "vibe"}

\* An armed timer keeps firing, and the window thread handles its messages.
\* Stated of the part that all polls share: a poll of a worker that ends does
\* not stay due for ever.
Fairness == \A k \in Bounded : WF_work(Polled(k) /\ Collect(k))

Spec == Init /\ [][Next]_vars /\ Fairness

(***************************************************************************)
(* Properties.                                                             *)
(***************************************************************************)
\* Flag, receiver and timer of a kind of work go together, and the runtime of
\* the durable build is away exactly while a step runs: otherwise a result is
\* never fetched, or a second worker is started over the first
\* (dispatch_model_command, the poll functions, NativeVibe).
WorkersArePolled ==
  /\ \A k \in Kinds : /\ IsRunning(k) <=> rx[k] # NoWorker
                      /\ timer[k] <=> rx[k] # NoWorker
  /\ vibe.runtime = "lent" <=> vibe.state = "running"

\* Whatever was pressed between the start of a provider call and its answer -
\* another run, drift, another provider - the answer makes a run
\* verification-pending only if it is the answer to that run's own call, and
\* no answer proves anything (verify_provider_execution_report).
ReportsMatchTheirCall ==
  /\ rt.status = "verification" => rt.output # NoCall
  /\ rt.output # NoCall => rt.output = rt.call
  /\ rt.status # "proven"

\* As long as every append was confirmed, the process remembers what it would
\* read back if it were opened again - lessons, graph nodes, attempts and
\* counts ("The graph keeps at most 256 deduplicated learning nodes during
\* startup and live operation", wiki self-learning).
MemoryIsReplay == up /\ clean /\ Readable(disk.learning) => mem = Recall(disk.learning)

\* Work whose commands have a timeout is over some time: its flag is cleared
\* and its runtime is back or known to be lost, also beside a fast build that
\* never ends.  Of the fast build itself no more is promised than that it can
\* be collected as soon as its worker answers: see WorkersArePolled.
WorkersAreCollected == \A k \in Bounded : []<>~IsRunning(k)

\* A lesson is filed under the intent of the run that taught it ("Bug #1 fix
\* (wrong-intent ledger writes)", begin_fast_build).
LessonsCarryTheirIntent ==
  \A n \in DOMAIN disk.learning.lines :
    LET line == disk.learning.lines[n] IN line # Garbled => line.intent = line.about
==============================================================================
