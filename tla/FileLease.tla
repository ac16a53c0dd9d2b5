------------------------------ MODULE FileLease ------------------------------
(***************************************************************************)
(* The unix file lease of math-atoms-lock: a flock on whatever file is at  *)
(* the lock path, an owner token written into it, and the unlinking of     *)
(* that file when the lease is dropped.                                    *)
(*                                                                         *)
(* Because the file is unlinked on release, a waiter may have opened - and *)
(* may then lock - a file that is no longer at the path.  The code re-reads*)
(* the path after locking and compares inodes; this module is about        *)
(* whether that is enough when any number of processes race, time out and  *)
(* die at any point.                                                       *)
(*                                                                         *)
(* One step per system call the other processes can tell apart.  An inode  *)
(* number may be reused once nothing links to it and no process has it     *)
(* open, as the kernel does.                                               *)
(***************************************************************************)
EXTENDS Naturals, FiniteSets

CONSTANTS
  Procs,        (* processes or threads asking for the lease              *)
  Inodes,       (* inode numbers of the filesystem                        *)
  NoProc,       (* an inode nobody has locked                             *)
  NoInode,      (* nothing at the path, no open descriptor                *)
  MaxAttempts   (* bound: calls of acquire_file_lease per process         *)

ASSUME ProcsAssumption  == NoProc \notin Procs
ASSUME InodesAssumption == NoInode \notin Inodes
ASSUME BoundAssumption  == MaxAttempts \in Nat

VARIABLES
  pc,        (* where each process is in acquire_file_lease or in drop     *)
  fd,        (* the inode each process has open                            *)
  attempt,   (* how often each process has called acquire_file_lease       *)
  late,      (* whether the process's deadline has passed                  *)
  path,      (* the inode the lock path names                              *)
  flocked,   (* the process that holds the kernel lock of each inode       *)
  owner      (* the owner token each inode contains                        *)

vars == <<pc, fd, attempt, late, path, flocked, owner>>

(***************************************************************************)
(* owner_token(): pid, process start, time and a sequence number, so every *)
(* attempt has a token of its own.  NoToken is an empty file.              *)
(***************************************************************************)
Tokens    == Procs \X Nat
NoToken   == <<>>
token(p)  == <<p, attempt[p]>>

States == {"idle", "open", "flock", "check", "retry", "truncate", "write",
           "held", "read", "unlink", "unlock"}

TypeOK ==
  /\ pc      \in [Procs -> States]
  /\ fd      \in [Procs -> Inodes \cup {NoInode}]
  /\ attempt \in [Procs -> Nat]
  /\ late    \in [Procs -> BOOLEAN]
  /\ path    \in Inodes \cup {NoInode}
  /\ flocked \in [Inodes -> Procs \cup {NoProc}]
  /\ owner   \in [Inodes -> Tokens \cup {NoToken}]

Init ==
  /\ pc      = [p \in Procs |-> "idle"]
  /\ fd      = [p \in Procs |-> NoInode]
  /\ attempt = [p \in Procs |-> 0]
  /\ late    = [p \in Procs |-> FALSE]
  /\ path    = NoInode
  /\ flocked = [i \in Inodes |-> NoProc]
  /\ owner   = [i \in Inodes |-> NoToken]

Goto(p, s) == pc' = [pc EXCEPT ![p] = s]

\* The last close of p's descriptor gives up the kernel lock it holds on it.
Close(p) ==
  /\ fd' = [fd EXCEPT ![p] = NoInode]
  /\ flocked' = [i \in Inodes |-> IF flocked[i] = p THEN NoProc ELSE flocked[i]]

Unused(i) == i # path /\ \A p \in Procs : fd[p] # i

(***************************************************************************)
(* acquire_file_lease and acquire_platform_guard.                          *)
(***************************************************************************)
Acquire(p) ==
  /\ pc[p] = "idle"
  /\ attempt[p] < MaxAttempts
  /\ attempt' = [attempt EXCEPT ![p] = @ + 1]
  /\ late' = [late EXCEPT ![p] = FALSE]
  /\ Goto(p, "open")
  /\ UNCHANGED <<fd, path, flocked, owner>>

\* Instant::now() >= deadline from here on.
Deadline(p) ==
  /\ pc[p] \in {"open", "flock", "check", "retry"}
  /\ ~late[p]
  /\ late' = [late EXCEPT ![p] = TRUE]
  /\ UNCHANGED <<pc, fd, attempt, path, flocked, owner>>

\* open(path, O_CREAT): the file at the path, or a new one.
OpenExisting(p) ==
  /\ pc[p] = "open"
  /\ path # NoInode
  /\ fd' = [fd EXCEPT ![p] = path]
  /\ Goto(p, "flock")
  /\ UNCHANGED <<attempt, late, path, flocked, owner>>

OpenNew(p) ==
  /\ pc[p] = "open"
  /\ path = NoInode
  /\ \E i \in Inodes :
       /\ Unused(i)
       /\ path' = i
       /\ fd' = [fd EXCEPT ![p] = i]
       /\ owner' = [owner EXCEPT ![i] = NoToken]
  /\ Goto(p, "flock")
  /\ UNCHANGED <<attempt, late, flocked>>

\* flock(fd, LOCK_EX | LOCK_NB)
Flock(p) ==
  /\ pc[p] = "flock"
  /\ flocked[fd[p]] = NoProc
  /\ flocked' = [flocked EXCEPT ![fd[p]] = p]
  /\ Goto(p, "check")
  /\ UNCHANGED <<fd, attempt, late, path, owner>>

FlockWouldBlock(p) ==
  /\ pc[p] = "flock"
  /\ flocked[fd[p]] # NoProc
  /\ Goto(p, "retry")
  /\ UNCHANGED <<fd, attempt, late, path, flocked, owner>>

\* Variant: any locked descriptor will do.
AnyInode(p) == TRUE

\* The locked descriptor must still be the file at the path.
SameInode(p) == path = fd[p]

Check(p) ==
  /\ pc[p] = "check"
  /\ Goto(p, IF SameInode(p) THEN "truncate" ELSE "retry")
  /\ UNCHANGED <<fd, attempt, late, path, flocked, owner>>

\* Variant: the deadline is not looked at.
RetryForever(p) ==
  /\ pc[p] = "retry"
  /\ Close(p)
  /\ Goto(p, "open")
  /\ UNCHANGED <<attempt, late, path, owner>>

\* Deadline passed: WouldBlock.  Otherwise sleep 20 ms; the descriptor, and
\* a lock on an unlinked file, is only dropped at the end of the iteration.
Retry(p) ==
  /\ pc[p] = "retry"
  /\ Close(p)
  /\ Goto(p, IF late[p] THEN "idle" ELSE "open")
  /\ UNCHANGED <<attempt, late, path, owner>>

\* write_owner: set_len(0), then write_all, flush and sync_all.
Truncate(p) ==
  /\ pc[p] = "truncate"
  /\ owner' = [owner EXCEPT ![fd[p]] = NoToken]
  /\ Goto(p, "write")
  /\ UNCHANGED <<fd, attempt, late, path, flocked>>

WriteOwner(p) ==
  /\ pc[p] = "write"
  /\ owner' = [owner EXCEPT ![fd[p]] = token(p)]
  /\ Goto(p, "held")
  /\ UNCHANGED <<fd, attempt, late, path, flocked>>

\* An I/O error between lock and return: the guard is dropped and the file
\* stays at the path.
AcquireFails(p) ==
  /\ pc[p] \in {"check", "truncate", "write"}
  /\ Close(p)
  /\ Goto(p, "idle")
  /\ UNCHANGED <<attempt, late, path, owner>>

(***************************************************************************)
(* Drop: the owner file is removed BEFORE the kernel lock is released, by  *)
(* name and only when it contains this lease's token.                      *)
(***************************************************************************)
\* Variant: the kernel lock is released first.
BeginDropUnlocking(p) ==
  /\ pc[p] = "held"
  /\ Close(p)
  /\ Goto(p, "read")
  /\ UNCHANGED <<attempt, late, path, owner>>

BeginDrop(p) ==
  /\ pc[p] = "held"
  /\ Goto(p, "read")
  /\ UNCHANGED <<fd, attempt, late, path, flocked, owner>>

OwnFileAtPath(p) == path # NoInode /\ owner[path] = token(p)

ReadOwner(p) ==
  /\ pc[p] = "read"
  /\ Goto(p, IF OwnFileAtPath(p) THEN "unlink" ELSE "unlock")
  /\ UNCHANGED <<fd, attempt, late, path, flocked, owner>>

Unlink(p) ==
  /\ pc[p] = "unlink"
  /\ path' = NoInode
  /\ Goto(p, "unlock")
  /\ UNCHANGED <<fd, attempt, late, flocked, owner>>

Unlock(p) ==
  /\ pc[p] = "unlock"
  /\ Close(p)
  /\ Goto(p, "idle")
  /\ UNCHANGED <<attempt, late, path, owner>>

\* The process dies: the kernel closes its descriptor, the file stays.
Crash(p) ==
  /\ pc[p] # "idle"
  /\ Close(p)
  /\ Goto(p, "idle")
  /\ UNCHANGED <<attempt, late, path, owner>>

(***************************************************************************)
(* What the scheduler must let a live process do.  Acquire, BeginDrop,     *)
(* AcquireFails and Crash are not among them: nothing forces a caller to   *)
(* ask for a lease or to drop it, or an error to happen.                   *)
(***************************************************************************)
Step(p) ==
  \/ OpenExisting(p) \/ OpenNew(p)
  \/ Flock(p) \/ FlockWouldBlock(p)
  \/ Check(p) \/ Retry(p) \/ Truncate(p) \/ WriteOwner(p)
  \/ ReadOwner(p) \/ Unlink(p) \/ Unlock(p)

Next ==
  \E p \in Procs :
    \/ Acquire(p) \/ Deadline(p) \/ Step(p)
    \/ AcquireFails(p) \/ BeginDrop(p) \/ Crash(p)

Spec == Init /\ [][Next]_vars

\* A running process keeps running and the clock reaches every deadline.
Fairness == \A p \in Procs : WF_vars(Step(p)) /\ WF_vars(Deadline(p))

FairSpec == Spec /\ Fairness

(***************************************************************************)
(* Properties.                                                             *)
(***************************************************************************)
Holds(p) == pc[p] \in {"held", "read", "unlink"}

\* No two processes are between a successful acquire_file_lease and the
\* release of that lease, whatever waiters had open when the file was
\* unlinked (live_owner_is_exclusive_and_kernel_releases_it).
MutualExclusion == \A p, q \in Procs : Holds(p) /\ Holds(q) => p = q

\* As long as a lease is held the file at the path is the locked one and
\* names its holder, so an auditor reading the path is told the truth and
\* nobody's drop has removed another lease's owner file.
OwnerFileNamesHolder ==
  \A p \in Procs : Holds(p) => path = fd[p] /\ owner[fd[p]] = token(p)

\* Every call of acquire_file_lease ends - in a lease, a timeout or an
\* error - even if the file keeps being replaced under the waiter.
EveryAttemptEnds ==
  \A p \in Procs : pc[p] = "open" ~> pc[p] \in {"held", "idle"}

(***************************************************************************)
(* FileLease implements Lease: the holder is the process inside "held".    *)
(***************************************************************************)
holder ==
  IF \E p \in Procs : Holds(p) THEN CHOOSE p \in Procs : Holds(p) ELSE NoProc

L == INSTANCE Lease WITH Procs <- Procs, NoProc <- NoProc, holder <- holder

LeaseSpec == L!Spec
==============================================================================
