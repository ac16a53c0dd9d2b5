--------------------------- MODULE BuildCoordinator ---------------------------
(***************************************************************************)
(* Several build coordinators - one per process - over one ledger store    *)
(* (atom-vibe-build-planner, bus.rs and store.rs).                         *)
(*                                                                         *)
(* A coordinator caches a planner per build when it opens the store and    *)
(* never reads the store again except inside save.  save takes the build's *)
(* file lease, loads the chain of snapshots, accepts only the revision     *)
(* that follows the last one, renames a new snapshot into place, reads the *)
(* chain back, and only then does evaluate replace the cached planner.     *)
(* Any coordinator can die between any two of these steps.                 *)
(*                                                                         *)
(* The lease is the abstract one of module Lease, which the unix file      *)
(* lease implements (FileLease_proofs).  Only the directory the lease      *)
(* creates for its lock file is kept: list() sees it.                      *)
(***************************************************************************)
EXTENDS BuildPlanner, TLC

CONSTANTS
  Builds,        (* build ids                                             *)
  Coordinators,  (* processes that open the store                         *)
  NoOne,         (* a free lease                                          *)
  NoLedger,      (* nothing cached for a build                            *)
  MaxRevision    (* bound: evaluations start below this revision          *)

ASSUME NoOneAssumption    == NoOne \notin Coordinators
ASSUME NoLedgerAssumption == NoLedger \notin Ledgers
ASSUME BoundAssumption    == MaxRevision \in Nat

VARIABLES
  pc,        (* where each coordinator is in open, start_build or evaluate *)
  planners,  (* its cached planners                                        *)
  todo,      (* builds list() has still to load                            *)
  job,       (* the build and candidate ledger it is saving                *)
  lease,     (* the owner of each build's lease                            *)
  dirs,      (* builds whose directory exists under the store's root       *)
  chain      (* the snapshots of each build, in file-name order            *)

vars == <<pc, planners, todo, job, lease, dirs, chain>>

\* save is between its lease and its return in these states.
InLease == {"load", "rename", "readback"}
Saving  == {"mkdir", "lock"} \cup InLease
Failed  == {"not_found", "timed_out"}

Jobs  == [build : Builds, ledger : Ledgers]
NoJob == <<>>

TypeOK ==
  /\ pc       \in [Coordinators -> {"down", "list", "ready"} \cup Saving \cup Failed]
  /\ planners \in [Coordinators -> [Builds -> Ledgers \cup {NoLedger}]]
  /\ todo     \in [Coordinators -> SUBSET Builds]
  /\ job      \in [Coordinators -> Jobs \cup {NoJob}]
  /\ lease    \in [Builds -> Coordinators \cup {NoOne}]
  /\ dirs     \in SUBSET Builds
  /\ chain    \in [Builds -> Seq(Ledgers)]

NothingCached == [b \in Builds |-> NoLedger]

Init ==
  /\ pc       = [c \in Coordinators |-> "down"]
  /\ planners = [c \in Coordinators |-> NothingCached]
  /\ todo     = [c \in Coordinators |-> {}]
  /\ job      = [c \in Coordinators |-> NoJob]
  /\ lease    = [b \in Builds |-> NoOne]
  /\ dirs     = {}
  /\ chain    = [b \in Builds |-> <<>>]

Goto(c, s) == pc' = [pc EXCEPT ![c] = s]

Persisted(b) == chain[b] # <<>>
Latest(b)    == chain[b][Len(chain[b])]

(***************************************************************************)
(* BuildCoordinator::open: list() loads every build directory under its    *)
(* lease and gives up at the first one that has no snapshot.               *)
(***************************************************************************)
Open(c) ==
  /\ pc[c] \in {"down"} \cup Failed
  /\ planners' = [planners EXCEPT ![c] = NothingCached]
  /\ todo' = [todo EXCEPT ![c] = dirs]
  /\ Goto(c, "list")
  /\ UNCHANGED <<job, lease, dirs, chain>>

\* load: acquire, load_unlocked_optional, release.  Nothing but the lease is
\* shared while it runs, so it is one step.
LoadOne(c) ==
  /\ pc[c] = "list"
  /\ \E b \in todo[c] :
       /\ lease[b] = NoOne
       /\ Persisted(b)
       /\ planners' = [planners EXCEPT ![c][b] = Latest(b)]
       /\ todo' = [todo EXCEPT ![c] = @ \ {b}]
  /\ UNCHANGED <<pc, job, lease, dirs, chain>>

LoadNotFound(c) ==
  /\ pc[c] = "list"
  /\ \E b \in todo[c] : lease[b] = NoOne /\ ~Persisted(b)
  /\ todo' = [todo EXCEPT ![c] = {}]
  /\ planners' = [planners EXCEPT ![c] = NothingCached]
  /\ Goto(c, "not_found")
  /\ UNCHANGED <<job, lease, dirs, chain>>

LoadTimesOut(c) ==
  /\ pc[c] = "list"
  /\ \E b \in todo[c] : lease[b] # NoOne
  /\ todo' = [todo EXCEPT ![c] = {}]
  /\ planners' = [planners EXCEPT ![c] = NothingCached]
  /\ Goto(c, "timed_out")
  /\ UNCHANGED <<job, lease, dirs, chain>>

Opened(c) ==
  /\ pc[c] = "list"
  /\ todo[c] = {}
  /\ Goto(c, "ready")
  /\ UNCHANGED <<planners, todo, job, lease, dirs, chain>>

(***************************************************************************)
(* start_build and evaluate up to their call of save.                      *)
(***************************************************************************)
\* The hash of project, time, process and sequence is an id nobody has used.
Unused(b) ==
  /\ b \notin dirs
  /\ \A c \in Coordinators : job[c] # NoJob => job[c].build # b

StartBuild(c) ==
  /\ pc[c] = "ready"
  /\ \E b \in Builds :
       /\ Unused(b)
       /\ job' = [job EXCEPT ![c] = [build |-> b, ledger |-> NewLedger]]
  /\ Goto(c, "mkdir")
  /\ UNCHANGED <<planners, todo, lease, dirs, chain>>

\* The candidate is a clone of the cached planner.  An input for another step
\* is refused (WrongStep) and changes nothing, so only inputs for the current
\* one are offered.
Evaluate(c) ==
  /\ pc[c] = "ready"
  /\ \E b \in Builds :
       /\ planners[c][b] # NoLedger
       /\ planners[c][b].revision < MaxRevision
       /\ \E in \in Inputs(planners[c][b].current_step) :
            /\ Accepts(planners[c][b], in)
            /\ job' = [job EXCEPT ![c] =
                  [build |-> b, ledger |-> Evaluated(planners[c][b], in)]]
  /\ Goto(c, "mkdir")
  /\ UNCHANGED <<planners, todo, lease, dirs, chain>>

(***************************************************************************)
(* BuildLedgerStore::save.                                                 *)
(***************************************************************************)
\* acquire_file_lease creates the directory of the lock file first.
CreateDirectory(c) ==
  /\ pc[c] = "mkdir"
  /\ dirs' = dirs \cup {job[c].build}
  /\ Goto(c, "lock")
  /\ UNCHANGED <<planners, todo, job, lease, chain>>

AcquireLease(c) ==
  /\ pc[c] = "lock"
  /\ lease[job[c].build] = NoOne
  /\ lease' = [lease EXCEPT ![job[c].build] = c]
  /\ Goto(c, "load")
  /\ UNCHANGED <<planners, todo, job, dirs, chain>>

\* save returns Err without the lease: the cached planner stays as it was.
LeaseTimesOut(c) ==
  /\ pc[c] = "lock"
  /\ lease[job[c].build] # NoOne
  /\ job' = [job EXCEPT ![c] = NoJob]
  /\ Goto(c, "ready")
  /\ UNCHANGED <<planners, todo, lease, dirs, chain>>

\* save returns: the lease is dropped whatever the result.
Return(c) ==
  /\ lease' = [lease EXCEPT ![job[c].build] = NoOne]
  /\ job' = [job EXCEPT ![c] = NoJob]
  /\ Goto(c, "ready")

\* Variant: the revision that is already there is accepted as well.
NotOlder(l, b) == l.revision >= Len(chain[b])

\* The one revision that may be written next.
Follows(l, b) == l.revision = Len(chain[b]) + 1

LoadAndCheck(c) ==
  /\ pc[c] = "load"
  /\ Follows(job[c].ledger, job[c].build)
  /\ Goto(c, "rename")
  /\ UNCHANGED <<planners, todo, job, lease, dirs, chain>>

Conflict(c) ==
  /\ pc[c] = "load"
  /\ ~Follows(job[c].ledger, job[c].build)
  /\ Return(c)
  /\ UNCHANGED <<planners, todo, dirs, chain>>

\* Another coordinator has saved the same ledger, to the millisecond: Ok
\* without a new snapshot.
AlreadySaved(c) ==
  /\ pc[c] = "load"
  /\ Persisted(job[c].build)
  /\ job[c].ledger = Latest(job[c].build)
  /\ planners' = [planners EXCEPT ![c][job[c].build] = job[c].ledger]
  /\ Return(c)
  /\ UNCHANGED <<todo, dirs, chain>>

\* write_new_atomic: the snapshot becomes visible with one rename.
RenameSnapshot(c) ==
  /\ pc[c] = "rename"
  /\ chain' = [chain EXCEPT ![job[c].build] = Append(@, job[c].ledger)]
  /\ Goto(c, "readback")
  /\ UNCHANGED <<planners, todo, job, lease, dirs>>

\* Variant: the candidate is cached before it is written.
WriteFailsCached(c) ==
  /\ pc[c] = "rename"
  /\ planners' = [planners EXCEPT ![c][job[c].build] = job[c].ledger]
  /\ Return(c)
  /\ UNCHANGED <<todo, dirs, chain>>

\* The write fails before the rename.
WriteFails(c) ==
  /\ pc[c] = "rename"
  /\ Return(c)
  /\ UNCHANGED <<planners, todo, dirs, chain>>

\* The chain reads back as written: evaluate caches the candidate.
Saved(c) ==
  /\ pc[c] = "readback"
  /\ planners' = [planners EXCEPT ![c][job[c].build] = job[c].ledger]
  /\ Return(c)
  /\ UNCHANGED <<todo, dirs, chain>>

\* json_escape has replaced a control character of the evidence, or reading
\* failed: save returns Err although the snapshot is durable.
ReadbackFails(c) ==
  /\ pc[c] = "readback"
  /\ Return(c)
  /\ UNCHANGED <<planners, todo, dirs, chain>>

\* The process dies; the kernel releases its lease.
Crash(c) ==
  /\ pc[c] # "down"
  /\ lease' = [b \in Builds |-> IF lease[b] = c THEN NoOne ELSE lease[b]]
  /\ planners' = [planners EXCEPT ![c] = NothingCached]
  /\ todo' = [todo EXCEPT ![c] = {}]
  /\ job' = [job EXCEPT ![c] = NoJob]
  /\ Goto(c, "down")
  /\ UNCHANGED <<dirs, chain>>

Save(c) ==
  \/ CreateDirectory(c) \/ AcquireLease(c) \/ LeaseTimesOut(c)
  \/ LoadAndCheck(c) \/ Conflict(c) \/ AlreadySaved(c)
  \/ RenameSnapshot(c) \/ WriteFails(c) \/ Saved(c) \/ ReadbackFails(c)

Listing(c) == LoadOne(c) \/ LoadNotFound(c) \/ LoadTimesOut(c) \/ Opened(c)

Next ==
  \E c \in Coordinators :
    \/ Open(c) \/ Listing(c)
    \/ StartBuild(c) \/ Evaluate(c)
    \/ Save(c) \/ Crash(c)

Spec == Init /\ [][Next]_vars

\* Nothing above tells one process or one build from another.
Symmetry == Permutations(Coordinators) \cup Permutations(Builds)

(***************************************************************************)
(* Properties.                                                             *)
(***************************************************************************)
\* However many coordinators race, time out or die, the snapshots of a build
\* carry the revisions 1, 2, 3, ... and every one of them passes validate,
\* so the chain can always be loaded again (load_unlocked_optional).
ChainLoadable ==
  \A b \in Builds : \A i \in 1..Len(chain[b]) :
    chain[b][i].revision = i /\ Valid(chain[b][i])

\* A coordinator never acts on a ledger that is not durable: what it caches
\* is the snapshot of that revision.
CacheIsDurable ==
  \A c \in Coordinators : \A b \in Builds :
    planners[c][b] # NoLedger =>
      /\ planners[c][b].revision \in 1..Len(chain[b])
      /\ planners[c][b] = chain[b][planners[c][b].revision]

\* Every durable ledger has passed exactly the steps before its current one,
\* within the corrections allowed, and tracks debt and markers only where
\* the spine has them.
LedgersSound ==
  \A b \in Builds : \A i \in 1..Len(chain[b]) :
    /\ SpineInOrder(chain[b][i])
    /\ CorrectionsBounded(chain[b][i])
    /\ DebtOnlyBetweenGates(chain[b][i])

\* A build that has halted or completed gets no further snapshot, not even
\* from a coordinator that still caches it as active (BuildNotActive).
ClosedBuildsStayClosed ==
  [][\A b \in Builds :
       Persisted(b) /\ Latest(b).status # "active" => chain'[b] = chain[b]]_vars

(***************************************************************************)
(* The coordinators together implement the build spine: its state is the   *)
(* latest durable snapshot of every build.                                 *)
(***************************************************************************)
stage  == [b \in Builds |-> IF Persisted(b) THEN Latest(b).current_step ELSE 0]
status == [b \in Builds |-> IF Persisted(b) THEN Latest(b).status ELSE "active"]
corrections ==
  [b \in Builds |->
     IF Persisted(b) THEN Latest(b).retries[Latest(b).current_step] ELSE 0]

Spine == INSTANCE BuildSpine
           WITH stage <- stage, status <- status, corrections <- corrections

SpineSpec == Spine!Spec

(***************************************************************************)
(* What the documents promise and the code does not keep.                  *)
(***************************************************************************)
\* "After power loss, reopen the coordinator and scratchpad from the same
\* state root" (OPERATIONS.md): opening never fails because of a build.  A
\* process that dies between the directory of a new build and its first
\* snapshot leaves one that no later open gets past.
ReopenNeverFails == \A c \in Coordinators : pc[c] # "not_found"

\* "they never silently rewrite the frozen record" (atom-build-blueprint):
\* the crates and wirings recorded are those of the frozen blueprint.
BlueprintStaysFrozen ==
  \A b \in Builds : Persisted(b) =>
    /\ Latest(b).crate_statuses \in {NoBlueprint, Latest(b).blueprint}
    /\ Latest(b).wiring_statuses \in {NoBlueprint, Latest(b).blueprint}
==============================================================================
