# A TLA+ model of Atom Vibe Coder

Atom Vibe Coder is a native desktop program that drives a language model through
the writing of Rust programs. It has three routes to a program - a *durable build*
of six gated steps, a *work plan* whose packets are verified by cargo, and a
*fast build* of one call and a few repairs - over a set of append-only
stores several processes may open at once, a wiki graph that learns from
outcomes, and a renderer of its own for the window.

This directory models the parts of the repository whose correctness is hard to
test: interleavings of processes over shared files, crashes between two writes,
retries and limits, worker threads and the messages that poll them, chains of
evidence that have to reclose after all of that, and the pure functions - gates,
parsers, schedules, line breaking - whose corner cases decide what the rest may
rely on.

Paths are relative to the repository; `A/` stands for
`atom-rendering-engine-main/` and `V/` for `vibe-coder/`. `PROJECT.json` maps
every definition to the lines it models.

## 1. The system

| Component | Code | State it keeps | Operations | What makes it correct |
|---|---|---|---|---|
| File lease | `A/math-atoms-lock` | owner file at a path, kernel lock on its inode | acquire with a timeout, drop | one holder; the file names it; every attempt ends |
| Build protocol, gates | `V/atom-vibe-build-protocol`, `-gates` | none | one evaluation per step | a gate that passes has shown what the next ones rely on |
| Build planner | `V/atom-vibe-build-planner/src/planner.rs` | ledger: step, status, retries, passed gates, debt, markers, blueprint | new, evaluate, halt | steps in order, bounded corrections, closed builds stay closed |
| Ledger store, coordinator | `.../store.rs`, `.../bus.rs` | a chain of snapshots per build, a cache per process | open, list, load, save, start_build, evaluate | the chain always loads; caches are durable; no lost update |
| Spiderweb bus | `A/math-atoms-bus` | envelopes, threads, intersections | the on-ramps, route_for, preload | routes end on their thread; meeting threads intersect |
| Atom Vibe runtime | `V/atom-vibe-runtime` | ledger, session, scratchpads, artifacts, turns | start_build, prepare_turn, execute_turn, append_note, evaluate_gate, set_provider | a turn is backed by its evidence; no stale call |
| Scratchpad, context | `V/atom-vibe-scratchpad`, `-context` | hash chain per build and provider, a seal | append, seal, project, ground | limits; nothing after the seal; projections keep what must be resumed from |
| Work packets | `A/math-atoms-work` | plan, packet store | expand_files, prompt, store, load, verify | DAG in order; generator and verifier agree; damage is refused |
| Provider execution | `A/math-atoms-core/src/provider*.rs`, `V/atom-vibe-provider` | one call | configure, send, read, execute_work_plan, close_candidate_loop | resume, bounded retries, a reported failure is final, the right key to the right place |
| Candidate verification | `A/math-atoms-verification`, `-repair` | attempts, repairs, final manifest | verify_attempt, store_repair, finalize, load_chain | the chain recloses; torn or changed files are never vouched for |
| Harness attestation | `A/math-atoms-attestation` | a child process, two pipes, an attestation | run, verify | stands only for a complete run on unchanged files |
| Fast path | `A/avc-core` | the best program so far | run_fast_build and its parsers | result and file belong together |
| Math Atoms runtime, doctrine | `A/math-atoms-core/src/runtime.rs`, `-doctrine` | the run: intent, recipe, plan, call, status | run, report, prove | only the answer to its own call; no proof without evidence |
| Evidence ledgers, wiki graph | `A/math-atoms-learning`, `-proof`, `-native-ledger`, `-graph` | JSONL files; nodes and edges | append, replay, promote, retrieve | memory is what a restart replays; failures do not promote |
| Native shell and bridge | `A/math-atoms-native`, `V/atom-vibe-native-bridge` | flags, channels and timers of three kinds of worker; the durable runtime, lent to one | window messages, polls, begin and complete | every worker is collected; results meet their run |
| Rendering engine | `A/pmre-kit`, `A/pmre-orchestrator` | interaction state, a cached frame, row queues, buffers | events, layout, line breaking, passes | frames are fresh; rows are exclusive; parts equal the whole |

How they interact. The *native shell* owns everything: a press of Run asks the
Math Atoms runtime for a recipe (chosen over the wiki graph), starts a provider
call, a fast build or a step of the durable build on a thread of its own, and is
told of the result by a timer that polls that thread's channel; what happened is
appended to the learning and proof ledgers, which feed the graph. The *durable
build*'s runtime owns a coordinator, which owns planners and writes ledger snapshots
under a *file lease* per build; a turn reads the planner, projects the scratchpad,
calls the provider, and then writes an artifact, a scratchpad entry and a turn
record, each store under a lease of its own; gate decisions are published on the
*bus*. The *work plan* route runs under a lease of the plan: packets are asked
for and stored one by one, then the candidate of the final corrections goes
through verification and repair until it passes or the route's limit is reached.
Nothing but files is shared between processes.

Hard behaviour, by kind: waiters on a file that is unlinked under them; savers with
caches of different age; crashes between two writes of one operation; processes at
a store's limit; a turn prepared before, executed after, an evaluation or a change
of provider; an answer that arrives when the operator has gone on; a call that
dies half way and is repeated with other answers; two independent counts
of one DAG; three functions that must break a text alike; workers asleep on a
queue. `PROJECT.json` lists each under `hazards` at its line, with the
properties about it.

## 2. The modules

| Module | Models | Composition |
|---|---|---|
| `Lease` | what a lease promises: granted when free, released by its holder | abstract |
| `FileLease` | `acquire_file_lease` and `Drop` on unix, one action per system call | implements `Lease` (`L == INSTANCE Lease WITH holder <- ...`) |
| `BuildPlanner` | steps, error classes, ledgers, gates as the failure classes they report, `evaluate_and_advance` | |
| `GateRules` | the six gates, check by check | the detail of `BuildPlanner`'s gates |
| `BuildSpine` | what a build promises to its reader: its step, status, corrections | abstract |
| `BuildCoordinator` | processes over the ledger store: open, start_build, evaluate, save | extends `BuildPlanner`, implements `BuildSpine` (`Spine == INSTANCE BuildSpine WITH ...`) |
| `SpiderwebBus` | emit with threads, intersections, backpressure | |
| `VibeRuntime` | processes over ledger, session, scratchpads, artifacts, turns | takes the ledger store as `BuildCoordinator` shows it to be |
| `VibeRecords` | the records of those stores, written and read back; the projection | the texts of `VibeRuntime` |
| `BuildPrompt` | the sections of a prompt and the evidence of a context | |
| `WorkSchedule`, `WorkPlan` | the stages of a plan; `expand_files`, one action per round of a loop | `WorkPlan` extends `WorkSchedule` |
| `PacketEvidence` | answers a packet takes; the packet store under any change of a file | extends `WorkSchedule` |
| `ProviderPlan` | repeated calls of one plan over packet store and verification chain | extends `WorkSchedule` |
| `CandidateEvidence` | what the runner writes of a candidate and what verifies it | the files of `ProviderPlan`'s chain |
| `HarnessEvidence` | a harness run: process, pipes, deadline, attestation | extended by `MCProviderPlan` |
| `ProviderCalls` | settings, keys, body, curl's ends, response, fingerprint | |
| `FastBuild`, `ModelAnswer` | the rounds of a fast build; code and message found in an answer | |
| `JsonText` | the strict parser, beside a grammar; texts with a character from U+007F to U+009F are refused beyond it | |
| `RecipeChoice` | classification, scoring, and the status a run may get | |
| `WikiGraph`, `WikiPages` | the graph as it learns; pages, sections, pattern notes | |
| `LearningRules`, `ProofRules` | what a lesson or a proof must show, as written and as read back | |
| `LearningLedger` | ledger files with failed and torn appends, and what is recalled of them | |
| `NativeShell` | the window thread, its workers, ledgers and restarts | uses `LearningLedger` |
| `UiShell` | the event reducer, the window's repaint and the frame cache | |
| `RowDispatch` | the worker threads over the row passes | |
| `FrameParts`, `TextFlow`, `BoxLayout` | lanes and tiles; line breaking; measure and layout | `BoxLayout` extends `TextFlow` |
| `*_proofs` | theorems about the module of that name, section 6; `Rendering_proofs` is about `UiShell`, `RowDispatch` and `FrameParts`, `ProviderPlan_proofs` also about `HarnessEvidence`, `FastBuild`, `PacketEvidence`, `CandidateEvidence` and `ProviderCalls`, `SpiderwebBus_proofs` also about `LearningRules` and `ProofRules`, `VibeRuntime_proofs` also about `GateRules`, `VibeRecords` and `BuildPrompt` | extend their modules, or the MC module that instantiates them |
| `MC*` | instances for TLC | `FileLease`, `BuildCoordinator` and `NativeShell` need none: their `.cfg` files give them their constants |

Notes on the larger ones.

**FileLease.** A process is at a program counter between two system calls (`open`,
`flock`, the comparison of device and inode, `set_len`, `write`; on drop the
read of the owner token, `unlink`, `close`). `path` is the directory entry,
`flocked` the kernel's lock of each inode, `owner` its text. Inode numbers are
reused as soon as nothing names or opens them, so the comparison can meet an old one.

**BuildPlanner** turns a ledger and a gate's result into the next ledger exactly as
`evaluate_and_advance` does: advance (with debt and markers of that step),
correct while the class is bounded and the limit not exceeded, or halt. A gate
is there the set of classes it can report; `GateRules` has its rules.

**BuildCoordinator** has a program counter per process through `save`: take the lease,
read the chain, compare the revision, write, read back. Each `?` of the code is
an action or a disjunct: lease timeout, stale revision, failed write, a snapshot that
is durable but does not read back, death.

**VibeRuntime.** An operation is a chain of writes; `pc` is the next one.
Between two of them any other process may run, the write may fail (`StoreFails`)
or the process die (`Crash`); what was written stays. `Fresh` is
`validate_prepared` as the code makes it: from the cache of its own process.

**ProviderPlan.** The lease of the plan is held for a whole call, so calls follow each
other; `GiveUp` ends a call at any step and stands for the deadline, a failing
provider or cargo, an I/O error and the end of the process, which all leave
the same disk. `TearFile` is the one write that is not atomic. Why a gate of
cargo failed is reduced to the files its output names; it may fail for a timeout, so
the same candidate may pass or fail.

**The evidence modules** (`PacketEvidence`, `CandidateEvidence`, `VibeRecords`) build
the files the writer leaves, then change, drop or add any one of them and
ask the reader. A hash is the thing it is the hash of, so a reader notices a
change exactly where the code really compares a hash or a length, and not because
the model compares whole states.

**NativeShell.** Actions are window messages. `rx`, the running flags and `timer` are
kept apart as the code keeps them; a worker answers at any time or dies; the
durable runtime is at home, lent or lost. A crash loses everything but the ledgers,
whose last line may be torn, and the next append joins it.

**RowDispatch** has every way rows are handed out - bands fixed in advance, an atomic
cursor, a queue sealed before the workers start, one that is filled while they wait,
and a pool kept over the passes with a barrier - with every lock and wait a step of its own.

**UiShell.** Frames of the current generation are `fresh`, `stale`, or `drifted`: only the
phase of an animated material differs. The animation is off, faint (above 0 but not above
the 0.01 of the timer) or lively. `FramesAreFresh` allows a drifted frame only while the animation
is faint; that there is one is `MaterialsFollowTheirControl`, which is violated.

**FrameParts.** Boxes, texts and rich texts are painted; edges, clip and lines lie on half rows,
glyphs may stand out of their line by a row (`Overrun`). `KeptRows` is all ink but the
backgrounds that reach beyond the clip: no lane skips a box for that. `InkRows` is
all of it, and with it the lanes differ from the serial picture (`LanesMatchSerial`, which is violated). A frame with
a transparent material is painted serially and has no lanes.

**Parts of an instance.** Many modules are pure functions. Their MC module
composes them with the state machine of the same layer: a variable `part`,
chosen at the start, says which of them a behaviour is about; `Choose` then
picks one `input` from every small input, and a property - an invariant of the state
with the input, or an action property of the step that chooses it - compares what
the functions of the code say of it with a reference definition that is written another
way (a grammar for the parser, distances for the path search, the serial picture for
the lanes, the verifier for the writer). The other variables stay as they were,
so the parts do not multiply. Where such a property is a theorem, it is one about the functions for every
input their types allow, of which the small inputs of the run are an instance; the theorem about the run's
specification follows from it.

## 3. What each run checks

| Run | Instance | Shows |
|---|---|---|
| `file_lease` | 2 processes, 2 attempts each, 4 inodes | `MutualExclusion`, `OwnerFileNamesHolder`, `LeaseSpec` (refinement), `EveryAttemptEnds` under fairness. Two attempts let a process meet the file its own crash left; four inodes let one be replaced while each process has one open. |
| `coordinator_spine` | 2 processes, 1 build, revisions up to 8: the whole spine with a correction | `ChainLoadable`, `CacheIsDurable`, `LedgersSound`, `SpineSpec` (refinement of `BuildSpine`). |
| `bus` | 3 nodes, 3 messages; a graph of 2 lessons, 2 attempts; every small intent, wiki, lesson and proof | `ParentsPrecede`, `FabricAgrees`, `SharedNodesIntersect`, `BackpressureSticks` of the bus. `KnowledgeIsSound`: the graph forgets a lesson and its edges together, is not swayed by failures, pins the mission, finds shortest paths; the text of a page from its first heading on is that of its sections, a section's links are its page's, and no better pattern is left out; no missing provider becomes a proof. `EvidenceBacksSuccess`: a lesson or proof counts only on evidence that verifies now, and reads back by its own and by a later schema. Three messages are the least with which a third thread joins an intersection. |
| `runtime` | 2 processes, 2 providers, 1 build, 2 entries, 2 turns, 1 step, 2 revisions; every small chain, projection, prompt, context and gate input | `TurnsAreBacked`, `StoresStayLoadable`, `DecisionsAreDurable`, `CallsStayInScope` of the stores; `RecordsReadBack` (records as they are written and as the readers take them, damage, projections, prompts, contexts); `GatesHold` (what passed gates have shown). Limits of two put both processes at the limit at once. |
| `provider_plan` | 1 or 2 files, 3 contents, limit 3, 3 calls; every manifest of 1 to 32 files; small programs, answers, settings, responses | `RoutesReclose` (chain, recomputation, quiet after completion). `PlansAreSound`: the DAG of every manifest the code accepts is what the verifier expects, in dependency order, with no finding lost, and a damaged plan store is refused. `EvidenceIsEarned` (harness and candidate), `ResultsDescribeTheirFile` (fast build), `CallsAreFaithful` (settings, keys, body, reported failures never sent again, thinking), `AnswersAreFound` (the code of the last fenced block whose fences and strings are closed, message fields, JSON). Three contents let a repair asked for twice be answered differently; a third call meets what two interrupted ones left; 32 files is the code's own bound. |
| `native` | 2 presses of Run, 2 intents, a configured and a keyless provider, 1 fault, memory of 2 lessons | `WorkersArePolled`, `ReportsMatchTheirCall`, `MemoryIsReplay`; `WorkersAreCollected` under fairness: provider and durable-step workers, whose commands have timeouts, are collected, also beside a fast build whose rustc hangs. Two runs let a late answer meet the other run; two lessons fill the memory. |
| `rendering` | 3 workers, 4 rows in chunks of 2; texts of up to 5 characters; a text field of 2, 2 materials, one animated; boxes and texts of up to 8 lines in frames of 9 rows and up to 4 lanes | `RowsAreExclusive`, `FrameIsFinished` (under fairness); `SelectionsAreLive`, `OverridesBelongToMaterial`, `FramesAreFresh`, `ShortcutsActOnce` of the window; `LinesAgree`; `MeasuresHold` (what is laid out has the room it was measured to need); `PartsMatchWhole` (lanes and tiles). Three workers allow two to sleep while the third works; five characters give a word, a gap and a word too long for a line. |

Type invariants are theorems (section 6) of `FileLease`, `BuildCoordinator`, `SpiderwebBus`,
`VibeRuntime`, `NativeShell`, `UiShell`, `RowDispatch`, `FastBuild`, `HarnessEvidence`, `WorkPlan`
and `ProviderPlan`. TLC also
evaluates those of `VibeRuntime`, `ProviderPlan` and `WorkPlan`, as conjuncts of
`RecordsReadBack`, `RoutesReclose` and `PlansAreSound`.

Runs that must be violated, each a disagreement of a text of the repository and the code:

| Run | The text | What the code does |
|---|---|---|
| `coordinator_reopen` | `V/docs/OPERATIONS.md:23`: after power loss, reopen from the same state root | `save` creates the build's directory with its lease before the first snapshot; one process that dies in between and reopens fails, for every build |
| `poisoned_scratchpad` | `knowledge/wiki/model-scratchpad.md:7-9`: a small model can resume from it | `json_escape` blanks some control characters while hashes are over the raw text: such an entry is written, does not read back, and nothing loads that scratchpad again |
| `reasoning_refused` | `A/docs/PROVIDER_RUNTIME.md:44`: a typed reasoning block is accepted as thinking | `responses_output_text` ends its search at the first output item without content; the durable adapter skips it |
| `double_submit` | comment at `A/math-atoms-provider-transport/src/lib.rs:136-140`: only a curl that never issued the request is started again, which cannot double-submit | a curl killed after it sent the request, or one that exits well with a status marker not in 100..=599, counts as one that never ran (`:209-221`), and the request is sent again |
| `wrong_intent` | comment at `A/math-atoms-native/src/model.rs:418`: a lesson is recorded under its build's intent | Run sets `last_intent` before `begin_fast_build` refuses a second worker; the first build's lesson is filed under the second intent |

More disagreements are stated in the modules and listed by no configuration. Each has been
seen violated with the instance named: the name is added to that `.cfg` (a definition that
takes an input through one in the MC module, `Chosen("gate") =>
Gates!ConditionsAreTested(input.of)` and likewise for "wiki" and "proof").

| Definition (run) | The text | What the code does |
|---|---|---|
| `BuildCoordinator!BlueprintStaysFrozen` (`coordinator_spine` with `Blueprints = {bp, bq}`) | `V/assets/skills/atom-build-blueprint/SKILL.md:15-16`: the frozen blueprint is never silently rewritten | later gates take the blueprint from their own input and never compare it |
| `VibeRuntime!CompletionSeals` (`runtime`) | `knowledge/wiki/model-scratchpad.md:22`: completion seals the chain | the seal is a later write; a failure, a crash or another provider's scratchpad leaves it unsealed |
| `VibeRuntime!StaleTurnsNeverCall` (`runtime`) | `V/docs/ARCHITECTURE.md:57-59`: a changed revision invalidates the prepared request before HTTP | the check reads the cache of its own process |
| `ProviderPlan!ResumeNeverConflicts` (`provider_plan`) | `README.md:43`: resumable work packets | the expanded manifest is written before the packet it comes from; after a crash in between another answer is refused for good |
| `GateRules!ConditionsAreTested` (`runtime`) | `V/assets/skills/atom-build-test/SKILL.md:9-10`: exercise every definition-of-done condition | the gate compares the number of cases with the number of conditions, so one case given twice stands for two |
| `WikiPages!PatternsAreNotes` (`bus`) | comment at `A/math-atoms-graph/src/lib.rs:287`: hits are companion pattern notes | sections of a note are answered too, and `avc-core` makes up a source file from the id of a page that names none |
| `ProofRules!LearnedIsLoaded` (`bus`) | the message of `A/math-atoms-core/src/runtime.rs:819-829`: stored proof record loaded into graph evidence | it is announced also when the graph refused the record |
| `UiShell!MaterialsFollowTheirControl` (`rendering`) | `A/docs/TRANSPARENCY_COOKBOOK.md:43`, `:45`: animation of Smoke and Heat haze follows the Animation control | the timer gives up cached frames only above 0.01 (`win.rs:757`), the phase moves with any animation above 0 (`pmre-orchestrator/src/lib.rs:549`); the slider reaches the values between a pixel or two from its end |
| `FrameParts!LanesMatchSerial` (`rendering`) | comment at `A/pmre-orchestrator/src/lib.rs:268`: output is bit-identical to the serial render | the background of a selected line is filled without a clip (`:138`), the extent lanes go by ends at the clip (`:257-260`): scrolled out of its input, the line is filled by the serial render and not by a lane further away |
| `MCRendering!CaretsNeverRewrap` (`rendering`) | comment at `A/pmre-kit/src/layout.rs:199`: zero-width pieces never re-wrap | a caret among leading spaces does |

Seen while modelling and not stated as a property: the templates of a prompt are substituted one after the other, so a value that
contains a later placeholder is substituted too (`A/math-atoms-core/src/provider.rs:1126`);
`work_fingerprint` leaves the titles of the evidence out (`:896`; `CallsAreFaithful` takes a node to keep its title); a turn chain or ledger cut
off after a whole record loads without notice, since nothing counts its records elsewhere;
one invalid line makes the whole proof store unreadable (`math-atoms-proof:110`);
`strip_wikilinks` repeats text after an unclosed bracket (`avc-core:1644-1650`).

`FileLease`, `BuildCoordinator`, `VibeRuntime`, `ProviderPlan` and the behaviours of one input
really may stop (no call to make, bound reached), so deadlock is not checked; that
nothing waits for ever is checked as liveness instead. Symmetry is used only in runs
without liveness; `BackpressureSticks` and `SpineSpec` are safety.

A definition commented "Variant" changes the one after it the way a slip in the
code would. Nothing else uses it: with the original replaced by its variant, TLC
finds a property of the same run violated, which shows that the property can fail
for that reason. `PROJECT.json` pairs one with each property under `mutants`; the
others are further slips the same properties find, where one property covers several
modules:

| Property | Further variants it finds |
|---|---|
| `FabricAgrees` | `SpiderwebBus!CarriedLast`, `CrossedByAll` |
| `KnowledgeIsSound` | `WikiGraph!PathWithinOneMore`, `WikiPages!SectionsCutShort`, `BeatsOrTies`, `RecipeChoice!ClassifiedBehind`, `StackQualityUnordered` |
| `EvidenceBacksSuccess` | `LearningRules!ReadLater`, `ProofRules!DefaultFull` |
| `RecordsReadBack` | `VibeRecords!HoldsUnlinked`, `ProjectionUncut`, `VibeRuntime!AnySession`, `BuildPrompt!TakenAlone`, `PinnedTopicsOnly` |
| `RoutesReclose` | `ProviderPlan!KeptIfThere`, `HasRepairAfter` |
| `PlansAreSound` | `WorkPlan!FileFlowMisnumbered`, `ChunksOfFour`, `CorrectFromFirst`, `PacketEvidence!TakesUnsearched`, `RecordHoldsLoosely` |
| `EvidenceIsEarned` | `CandidateEvidence!CommandHoldsUnread`, `RepairHoldsUnread`, `HarnessEvidence!TimesOutLeaving` |
| `CallsAreFaithful` | `ProviderCalls!FingerprintOfBest`, `RetriedOnFailure`, `AnswerUnproved` |
| `AnswersAreFound` | `JsonText!IntegerEndLoose`, `ParseScalarLoose`, `ModelAnswer!MessageFieldAnywhere` |

## 4. Bounds

Every bound is a constant of the module it limits, or a set in the MC module. Where
the code has a limit (32 files, attempts of a route, entries, turns, repair rounds,
depth) the constant stands for it and is small, except `PlanFiles`, which is the code's
own. `MaxEnvelopes`, `MaxRevision`, `MaxAttempts`, `MaxCalls`, `MaxRuns`, `MaxFaults` and
`MaxText` only end the state space. Byte lengths appear where a budget is cut: in
`VibeRecords` (512 to 6000), `BuildPrompt` and `WorkPlan`.

## 5. Fairness

* `FileLease!FairSpec`: weak fairness of each process's next system call, and of
  its deadline. Nothing forces a caller to ask for a lease, to drop it, or an error
  to happen. `acquire_platform_guard` checks the clock on every round, so a waiter
  whose file is replaced for ever still ends.
* `NativeShell!Spec`: weak fairness of collecting the answer of a polled provider
  worker and of a polled durable step (`Bounded`). Such a worker ends because curl has
  `--max-time`, cargo a deadline and a lease a timeout, and an armed timer keeps
  firing; nothing forces the operator to press anything. There is none for a fast build:
  `run_rustc_check` (`avc-core/src/lib.rs:1224-1240`) waits for rustc without a timeout, so
  it may stay under way for ever.
* `RowDispatch!RowFairness`: weak fairness of the producer's push, seal and wake, of the
  start of the next pass, and of each worker's step: threads of a running
  process are scheduled. A worker asleep is not runnable; whether it is woken is the
  question.

All other modules state safety only.

## 6. What is proved

All theorems hold for every value of the constants that meets the `ASSUME`s of the
module.

**`FileLease_proofs`** (any processes, inodes, bound of attempts).
`MutualExclusion` is not inductive: it depends on why the comparison of inodes
is enough. The invariant is `TypeOK`, that a process past `open` has a descriptor, that
past `flock` the kernel's lock of its inode is its own, that past the comparison the
path still names that inode, and that what is written there is the holder's
token. The step that needs all of them is `Unlink`: only the holder unlinks, so the
path cannot change under a process that passed the comparison.
`LeaseIsExclusive`, `OwnerFileIsTruthful` and `FileLeaseImplementsLease` follow.

**`BuildCoordinator_proofs`** (any coordinators, builds, blueprints, markers, wirings,
retry limit). The inductive invariant joins typing, loadable chains, "a cache is
a durable snapshot", what a process holds inside `save` (its clone is one revision
after its own cache and a legal successor of it), that a lease has one holder
and that holder is inside the guarded part, and that past the comparison the chain is
still as it was compared, which only the lease guarantees. Lemmas about the planner
(`NewLedgerSound`, `PassedSound`, `RetriedSound`, `HaltedSound`, `EvaluatedSound`,
`DerivedSound`) carry ledger soundness over each kind of transition. `Typing`,
`ChainsStayLoadable`, `CachesAreDurable`, `LedgersStaySound`, `ClosedBuilds` (a
closed build never gets another snapshot) and the refinement
`CoordinatorsImplementSpine` follow.

**`SpiderwebBus_proofs`** (any nodes, any number of messages). Typing, then
`ParentsPrecede` (so `route_for` ends and stays on its thread) and
`SharedNodesIntersect`: two threads at one node can have become so only by the last
message, and that message recorded the intersection of all threads it crossed. The
second invariant, `FabricInv`, adds the other direction: an
intersection names threads that exist, every message stands in the record of its thread where
that record says, and an intersection joins only threads that met at its node
(`ThreadsKeepRecord`, `IntersectionsAreMeetings`). The rest of `FabricAgrees` is about the route of a
message, a recursive function over its parents. `RouteInv` carries what it computes along as the messages
arrive: each
message has a function that walks up from it (`WalksUp`), a new message's route is its parent's and
itself, and since a thread lists its messages in the order they came (`ThreadsInOrder`), a
route visits them in that order (`Follows`). `FabricStaysConsistent` follows.
`BackpressureIsKept` is an action property over the same invariant.

The second part is about evidence (`LearningRules`, `ProofRules`, any lesson or proof of their types, any state of
the files). `EvidenceIsNeeded`: a provider's success promotes a recipe only under the current schema with everything
it names verified now; a lesson that was valid when it was appended is read back, and reading its line
again changes nothing more; a proof read from its line, or from an older line without some of the fields,
earns nothing the proof itself had not. The proof follows a record through each reader, schema by
schema. `EvidenceIsAlwaysNeeded` is `EvidenceBacksSuccess` of the run.

**`VibeRuntime_proofs`** (any processes, builds, providers, any limits of entries, turns
and revisions). Three invariants over a common typing, which knows what operation a
process has in hand at each `pc` (`OpsKnown`) and that a cache is of a ledger that exists
(`CachesExist`):

* `TurnInv`. `TurnsAreBacked` speaks of turn records, the last of three writes; `Backing`
  says what is already there at each write before it: the artifact when the entry is due,
  artifact and entry when the record is. It also says that no two processes are about to
  record the same checkpoint, which the scratchpad's numbering gives: without it a second
  record of one entry could take the place of the first.
* `DecisionInv`. Between `evaluate` and the note of its decision, the decision in hand is
  the one of that revision in the ledger (`Decided`).
* `SessionInv`. An operation that will write progress began in a session.

All three need that other processes' writes take nothing away: `StoresOnlyGrow`, an action
property, proved first (prefixes of stores stay, a sealed scratchpad gets nothing).
`StoresLoad`, `CallsKeepTheirScope`, `DecisionsLast`, `ProgressFollowsSession` and
`TurnsKeepTheirBacking` follow.

The parts of the run beside the stores (`GateRules`, `VibeRecords`, `BuildPrompt`) are proved for every input
their types allow, and then for the inputs of the run: `InputInv` says that an input chosen for a part is
one of that part's, and `RuntimesRun` that the run does what `VibeRuntime!Spec` does, so that the
theorems above hold in it too.

* `GatesShowWhatTheyPass`, `GatesAlwaysHold`. A gate is a list of checks, each with the class it reports, and
  passes when none reports; so passing makes each check's condition true (`Passing`, by induction over
  the list). What a gate promises is stated otherwise - a topological order, a contract that is wired or on record
  as debt, markers tracked until none is left, evidence the planner takes - and the step from one to the
  other is the proof: distinct names by the cardinality of their set, dependencies by the least closed set of
  crates.
* `RecordsAreReadBack` (any number of records with any texts). The forms a writer gives each field and those the
  `parse_*` and `*_from_json` readers take are two tables, each from its own functions; every form that is
  written is one that is taken, and a chain loads with its texts, by induction over its records, if they have no control
  characters; ledgers whatever is in them.
* `DamageIsRefused`. A change of one record or the loss of one but the last goes unnoticed by no reader, and a sealed
  scratchpad also notices the loss of the last ones. The hypothesis is that the change is one: no
  record has the text it is changed to.
* `ProjectionsAlwaysFit`. The walk from the newest entry stops at the first that does not fit; its invariant
  is that the header and what is taken leave room for the least cut. The hypothesis, that the budget has
  room for the header and that cut, is what the limits of `project` (512 bytes and more) are for.
* `PromptsAlwaysFit` (any lengths, any budget). Sections are taken in the order of priority and one is cut
  at most; what is taken of them is summed in two orders, which are compared term by term.
* `ContextsAreAlwaysGrounded` (any finite set of nodes in which a node has one piece and one is the
  mission, any limit). Topics and mission are kept and the rest is ranked; that ranks are
  different and none is skipped is an argument about the cardinality of the pieces ahead of one.

**`ProviderPlan_proofs`** (any number of files, limit of attempts, calls and contents).
`RoutesReclose` speaks of the disk, and holds because of what a call knows where it stands:
`StoredInv` (stored packets are a prefix of the schedule of the stored manifest, each of its
stage), `PacketInv` (at packet `index` all before it is stored; in the loop all is),
`LoopInv` (at attempt `ordinal` all before it failed and was repaired, and the candidate in
hand is the one its record names), `ChainInv` (records have no gaps and recompute).
A call that dies keeps the disk and starts over at the first packet, so everything the
loop knows has to be read again from the records; that it then comes to the same candidate
is the heart of the proof. `ReleasedRoutesAreRead` and `FinishedRoutesAreRead` show the last
part: over a chain whose end is recorded a call only reads. `RoutesStayClosable` follows, and
`ResultsAreFinal`: once a result is recorded no step changes it or what it stands on.

**`NativeShell_proofs`** (any intents, providers, runs and faults). `ShellInv` joins
`WorkersArePolled` and `ReportsMatchTheirCall` with the types and with `DownIsIdle`: a process
that is down has lent its durable runtime to nobody, which `Reopen` needs.
`WorkersAreNotReplaced` is the action property behind them: a worker's channel is
replaced only after it was collected or its process died. `ShellTypes` is the type invariant.

`MemoryStaysReplay` (any bound of the memory, any failure of an append) is about the other half of the shell, its lessons. A
running shell adds them to its graph one at a time as it appends them; a restarted one reads all lines,
keeps the newest of each key and replays those. `Replayed` says that while every append was confirmed and the
file reads, the memory is what the file teaches (`Recall`). That one more line teaches one more lesson is the
heart of it: the newest records of the longer file are those of the shorter with one taken
out and the new one at the end, and remembering them one by one comes to the same nodes. `FiledUnderIntent`
is for the types: a worker that is out has an intent to be filed under.

**`Rendering_proofs`**. For `UiShell` (any length of text, any number of materials) `UiInv`
joins that selection, caret, focus and sliders are sound, the types, `FramesAreFresh` (a frame that drifted
belongs to a faint animation of an animated material, which no step can end without giving the frame up), and, for
the shortcuts, which of key and character has acted: `ShortcutsActOnce` alone does
not say that a suppressed character is the one on its way. `PicturesInvalidate` is the action
property behind the cache: a step that changes what is to be seen gives up every frame.
For `RowDispatch` (any number of workers, rows, any chunk) `RowInv` says that there is one pass all
workers are in, with the passes before it written and those after untouched, and that
in it each row is in exactly one place: unclaimed, in one worker's hand, or written (`Split`). Each way
of handing out rows only says what is unclaimed: what is listed or yet to be pushed, or what is
beyond the cursor. `RowsStayExclusive` follows, and `FramesAreWritten`: when all workers
have ended the last pass every row was written, so no row is lost either.

For `FrameParts` (any height, number of lanes, size of tile and radius) a frame in parts is compared with the frame drawn
whole. `LanesAlwaysPaintTheirRows`: the lanes partition the rows, and a lane keeps every box or text whose shape, shadow,
glyphs or backgrounds within the clip reach one of its rows, since `PaintExtent` is at most five halves of a row
from that ink on either side (`InkInExtent`), and lanes add six.
`TilesAlwaysMatchRows`: the tiles partition the pixels, and the halo of a tile holds what the
two blurs of its pixels read, with the indices clamped at the edge of the frame and not of the tile.
`PartsAlwaysMatch` is `PartsMatchWhole` of a specification that chooses one picture at a time.

**`HarnessEvidence`** (in `ProviderPlan_proofs`; any limit of output in `Nat`). An attestation is
written several steps after the output was read, from fields filled on the way.
`ReaderInv` ties what was read to what was printed: within the limit while reading, and all of it,
after the program's end, once the reader is done. `EarnedInv` says what the later stages stand
on: the code and the output are as expected (`Satisfied`) before hashing, and the attestation written says
so of a finished reader. `AttestationsStand` follows: what is attested ended with code 0,
printed what was expected and lost none of it; it stops counting when its files change, and no
program outlives its run.

**The stores of the run** (in `ProviderPlan_proofs`, about `MCProviderPlan`'s specification; any number of files in a
plan, any limit of output).

* `PlansStaySound` is `PlansAreSound`. While a plan is expanded the run does what `WorkPlan!Spec` does, and the theorems
  of `WorkPlan_proofs` hold in it (`PlanPart`). What is written of its execution is read back as it was
  written, and `DamagedPlansAreRefused` goes through the files: a packet that was changed, lost or
  added contradicts its own record, its neighbours' or the schedule of the manifest, a changed manifest the claim of
  the caller. The check of the damage is stated for every plan, where the run makes it for manifests of up to four files.
* `EvidenceStaysEarned` is `EvidenceIsEarned`. Its first half is `HarnessInv`, its second `ChainsOfEvidenceHold`: for any
  names and contents of files and up to `MAX_VERIFICATION_ATTEMPTS` candidates. The runner and the store
  compute the controller's files in two places, from the candidate as it was given and from the files on disk, paths
  normalized; that these are the same (`SpellingIsForgotten`, `AddedIs`, `OnDiskIs`) is what makes the evidence verify.
  `DamageIsRefused` is by contradiction: who verifies against the final manifest has its whole history, so every
  attempt and repair has the record that was written (`VerifiedChain`), and each of its other files is named there by its hash.
  The one hypothesis about contents is that nobody wrote the damaged bytes before (`Spelled`).

**`ProviderCalls`** (in `ProviderPlan_proofs`; no constants). The functions of a call are proved for every input of a
kind, in `EveryCallIsFaithful`; `CallsStayFaithful` is `CallsAreFaithful`, for which the inputs of the run are shown to
be of that kind.

* Settings: any words and numbers, where a variable set to the empty word counts as blank (`lookup` of `from_pairs`
  drops it). A key, a format and an endpoint come from one kind unless one was asked for; the timeout is in the range the durable adapter
  asks for whatever was configured (`TimeoutsAreInRange`), so what is ready is valid.
* Bodies: templates and prompts of any length. Eight replacements follow each other, and each may
  find its name in what the earlier ones put in: a prompt that holds no placeholder survives them all (`RenderedHolds`), from
  the place it was put in to the end.
* Plans: retrievals of any length. The fingerprint hashes eight pieces of evidence and the prompt shows six, so equal
  fingerprints show the same (`BestIsShown`) as long as a node keeps its title, which is shown and not hashed.
* Ends of curl: any three, with or without the request sent. What is started again ended without a status a server
  gave and without one of curl's own errors (`EndsAreJudged`, `FailuresAreAlwaysFinal`).
* Responses: any number of items and blocks whose texts are in a set `W` without the text of the reasoning. Where the two adapters
  differ, the one that gives up at an item without content has read nothing; if it has read something, no
  item before that was silent, and the first one that speaks is the same for both (`ItemsAreRead`).

**`FastBuild`** (in `ProviderPlan_proofs`; any number of repairs). `ResultsDescribeTheirFile` is about a
build that is over;
`BestIsKept` is what each round finds and leaves: the score is the best program's as soon
as rustc rejected one, and none of those rejected beats it. The theorem's hypothesis `FastBounds`
says that `MaxErrors`, which stands for `usize::MAX` as the initial count of errors, is above
the one error of the stub; with a smaller one no program could become the best.

**`WorkPlan_proofs`** (any number of files). `expand_files` groups what it has until little
enough is left; `validate_packet_schedule` counts the groups in advance, by a recursion of its own.
`RowsInv` says at each round how many groups were made and that the count still expected of the inputs left
adds up to that of the beginning (`Reducing`); it needs `DependenciesPrecede`, the types, and that each
file has one contract and one last correction. `PlansReadBackwards` and `ExpansionMeetsSchedule`
follow: a packet reads only packets before it, and the finished plan is row by row, and in
length, the schedule. That the two counts are numbers and satisfy their equations is an induction over the
number of files (`ProviderPlan_proofs` takes it from here, through an `INSTANCE`).

`NoFindingIsLost`: every packet before the hostile review flows into it, each correction reads it, and what
comes later flows into the finalization. `FindingsInv` says that all packets but those of the `Frontier` are read
by a later one, and that the frontier is what the reductions still have to combine; each round
moves it. `PromptsAreWhole`: a packet reads three packets at most (`ShortInv`), so with every output at its limit the
context passes its budget only by the markers of what was cut; the context is a sum over the
dependencies, defined by recursion.

**Assumptions.** Constants are assumed to be of their kind and markers (`None`, `NoWorker`, `NoCall`,
`NoLedger`, `NoInode`, `NoOutput`) to be none of the values they stand beside; the code has
`Option`s there. `RowDispatch` takes a finite, numbered, non-empty set of workers.
`FramesAssumption` says that a frame has a width, a height, a tile and a radius that are numbers, the first three not 0, or a number of lanes
and a box. `PlanFilesAssumption` (`MCProviderPlan`) says that a manifest may have a file. `BlankAssumption` (`MCVibeRuntime`) says that the blank text is not the name the gates take for a project.

**Induction.** The library's induction theorems take an operator as a parameter, which no prover here can
instantiate. The proofs use sets instead: a property of numbers is the set of those that have it, and
if that set contains 0 and with each number the next, it contains all (`UpTo`), because a set of numbers that is not empty
has a least one (`LeastNumber`, from the library's theorem that strict inclusion of finite sets is well-founded). A function defined by recursion is
for the prover a `CHOOSE` of one that satisfies its equation; a lemma shows by induction up to `n` that one
exists, and from then on the equation may be used.

**Only model-checked**, and why:

* Liveness (`EveryAttemptEnds`, `WorkersAreCollected`, `FrameIsFinished`): fairness
  is beyond the prover.
* `LinesAgree` and `MeasuresHold`: `BoxLayout` (a tree of boxes) reaches a `RECURSIVE` operator, which the provers
  cannot be used with.
* `AnswersAreFound`: it compares a parser of nested values (`JsonText`) and searches in texts (`ModelAnswer`), which are
  recursive functions, with a grammar that is another one.
* `KnowledgeIsSound`: an action property of a step that chooses an input; its functions walk graphs by
  `SelectSeq` and folds, which the prover does not expand.

## 7. What is not modelled

* The Windows branch of the lease (a named mutex beside the same owner file): the kernel
  has the exclusion, and no file is compared or replaced.
* Hashes, regular expressions of secrets, wording of prompts, reports and status
  lines. `VibeRuntime` takes records as loadable once written; which texts break that is
  `VibeRecords`' and the run `poisoned_scratchpad`'s.
* curl, TLS, rustc, cargo and the isolation of candidate commands: their ends are
  nondeterministic.
* The design-upload worker, the widget tree, file dialogs and the clipboard of the
  native shell; `V/atom-vibe-mode`: constant texts.
* Pixels: fonts, HTML, paths, colours, transparency, blur weights, the GPU pass. They
  are pure functions to numbers, to be compared with a picture.
* The browser prototype `app/`, example programs, scripts, and
  `V/reference/ordo-pro`, from which the planner was derived: none of it runs in
  the product.
* Components listed as `partly` in `PROJECT.json` name what of them is left out.

## 8. Plan

What is left to prove, in order:

1. `WikiGraph`: the graph forgets a lesson and its edges together.
