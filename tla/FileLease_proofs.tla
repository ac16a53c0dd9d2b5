--------------------------- MODULE FileLease_proofs ---------------------------
(***************************************************************************)
(* Mutual exclusion of the file lease, for any number of processes and     *)
(* inodes, and that FileLease implements Lease.                            *)
(*                                                                         *)
(* MutualExclusion is not inductive: it needs to be known that a process   *)
(* past the inode check still owns the kernel lock of its inode (Locked)   *)
(* and that the path still names that inode (AtPath).  AtPath is stable    *)
(* because the only step that takes a name away is the Unlink of a process *)
(* that itself satisfies Locked and AtPath, hence of the same process.     *)
(***************************************************************************)
EXTENDS FileLease, TLAPS

\* Every process that has opened the file has a descriptor.
HasDescriptor ==
  \A p \in Procs : pc[p] \notin {"idle", "open"} => fd[p] \in Inodes

\* From flock until the lock is given up the kernel lock is the process's own.
Locked ==
  \A p \in Procs :
    pc[p] \in {"check", "truncate", "write", "held", "read", "unlink"}
      => flocked[fd[p]] = p

\* From the inode check to the unlink the path names the locked inode.
AtPath ==
  \A p \in Procs :
    pc[p] \in {"truncate", "write", "held", "read", "unlink"} => path = fd[p]

IInv == TypeOK /\ HasDescriptor /\ Locked /\ AtPath /\ OwnerFileNamesHolder

\* The inductive invariant implies mutual exclusion: two holders have the
\* path's inode open and own its one kernel lock.
LEMMA ExclusionFromIInv == IInv => MutualExclusion
  BY DEF IInv, HasDescriptor, Locked, AtPath, MutualExclusion, Holds

LEMMA InitIInv == Init => IInv
  BY DEF Init, IInv, TypeOK, HasDescriptor, Locked, AtPath,
         OwnerFileNamesHolder, Holds, States

\* Every step of every process preserves the inductive invariant.
LEMMA NextIInv == IInv /\ [Next]_vars => IInv'
<1> SUFFICES ASSUME IInv, [Next]_vars PROVE IInv'
  OBVIOUS
<1> USE InodesAssumption, ProcsAssumption
<1> USE DEF IInv, TypeOK, HasDescriptor, Locked, AtPath,
            OwnerFileNamesHolder, Holds, States, Goto, token, Tokens, NoToken
<1>1. CASE UNCHANGED vars
  BY <1>1 DEF vars
<1>2. ASSUME NEW p \in Procs, Acquire(p) PROVE IInv'
  BY <1>2 DEF Acquire
<1>3. ASSUME NEW p \in Procs, Deadline(p) PROVE IInv'
  BY <1>3 DEF Deadline
<1>4. ASSUME NEW p \in Procs, OpenExisting(p) PROVE IInv'
  BY <1>4 DEF OpenExisting
<1>5. ASSUME NEW p \in Procs, OpenNew(p) PROVE IInv'
  <2>1. TypeOK' /\ HasDescriptor'
    BY <1>5 DEF OpenNew, Unused
  <2>2. ASSUME NEW q \in Procs, pc[q] \in {"truncate", "write", "held", "read", "unlink"}
        PROVE  FALSE
    BY <1>5, <2>2 DEF OpenNew
  <2>3. Locked'
    BY <1>5 DEF OpenNew, Unused
  <2>4. AtPath' /\ OwnerFileNamesHolder'
    BY <1>5, <2>2 DEF OpenNew
  <2> QED
    BY <2>1, <2>3, <2>4
<1>6. ASSUME NEW p \in Procs, Flock(p) PROVE IInv'
  BY <1>6 DEF Flock
<1>7. ASSUME NEW p \in Procs, FlockWouldBlock(p) PROVE IInv'
  BY <1>7 DEF FlockWouldBlock
<1>8. ASSUME NEW p \in Procs, Check(p) PROVE IInv'
  BY <1>8 DEF Check, SameInode
<1>9. ASSUME NEW p \in Procs, Retry(p) PROVE IInv'
  BY <1>9 DEF Retry, Close
<1>10. ASSUME NEW p \in Procs, Truncate(p) PROVE IInv'
  BY <1>10 DEF Truncate
<1>11. ASSUME NEW p \in Procs, WriteOwner(p) PROVE IInv'
  <2>1. TypeOK' /\ HasDescriptor'
    BY <1>11 DEF WriteOwner
  <2>2. Locked' /\ AtPath'
    BY <1>11 DEF WriteOwner
  <2>3. \A q \in Procs : q # p /\ Holds(q)' => fd[q] # fd[p]
    BY <1>11 DEF WriteOwner
  <2>4. owner'[fd[p]] = token(p)'
    BY <1>11 DEF WriteOwner
  <2>5. OwnerFileNamesHolder'
    BY <1>11, <2>3, <2>4 DEF WriteOwner
  <2> QED
    BY <2>1, <2>2, <2>5
<1>12. ASSUME NEW p \in Procs, AcquireFails(p) PROVE IInv'
  BY <1>12 DEF AcquireFails, Close
<1>13. ASSUME NEW p \in Procs, BeginDrop(p) PROVE IInv'
  BY <1>13 DEF BeginDrop
<1>14. ASSUME NEW p \in Procs, ReadOwner(p) PROVE IInv'
  BY <1>14 DEF ReadOwner, OwnFileAtPath
<1>15. ASSUME NEW p \in Procs, Unlink(p) PROVE IInv'
  BY <1>15 DEF Unlink
<1>16. ASSUME NEW p \in Procs, Unlock(p) PROVE IInv'
  BY <1>16 DEF Unlock, Close
<1>17. ASSUME NEW p \in Procs, Crash(p) PROVE IInv'
  BY <1>17 DEF Crash, Close
<1> QED
  BY <1>1, <1>2, <1>3, <1>4, <1>5, <1>6, <1>7, <1>8, <1>9, <1>10, <1>11,
     <1>12, <1>13, <1>14, <1>15, <1>16, <1>17 DEF Next, Step

\* In every reachable state the lease is typed, the lock and the path agree
\* for whoever is past the inode check, and the owner file names the holder.
THEOREM LeaseInvariant == Spec => []IInv
<1>1. Init => IInv
  BY InitIInv
<1>2. IInv /\ [Next]_vars => IInv'
  BY NextIInv
<1> QED
  BY <1>1, <1>2, PTL DEF Spec

\* At most one process at a time is between a successful acquire_file_lease
\* and the release of that lease.
THEOREM LeaseIsExclusive == Spec => []MutualExclusion
  BY LeaseInvariant, ExclusionFromIInv, PTL

\* The file at the path names the holder for as long as the lease is held.
THEOREM OwnerFileIsTruthful == Spec => []OwnerFileNamesHolder
<1>1. IInv => OwnerFileNamesHolder
  BY DEF IInv
<1> QED
  BY <1>1, LeaseInvariant, PTL

(***************************************************************************)
(* Refinement.  The holder is unique, so a step maps to Grant exactly when *)
(* it makes some process hold, to Release when it makes the holder stop,   *)
(* and to a stutter otherwise.                                             *)
(***************************************************************************)
HolderIsUnique ==
  /\ \A p \in Procs : Holds(p) <=> holder = p
  /\ holder \in Procs \cup {NoProc}

\* With mutual exclusion the CHOOSE in holder picks the one process there is.
LEMMA ExclusionMakesHolderUnique == MutualExclusion => HolderIsUnique
<1> SUFFICES ASSUME MutualExclusion PROVE HolderIsUnique
  OBVIOUS
<1> USE ProcsAssumption
<1>1. CASE \E q \in Procs : Holds(q)
  <2>1. PICK q \in Procs : Holds(q)
    BY <1>1
  <2>2. holder \in Procs /\ Holds(holder)
    BY <1>1 DEF holder
  <2> QED
    BY <2>1, <2>2 DEF MutualExclusion, HolderIsUnique
<1>2. CASE ~\E q \in Procs : Holds(q)
  BY <1>2 DEF holder, HolderIsUnique
<1> QED
  BY <1>1, <1>2

LEMMA IInvMakesHolderUnique == IInv => HolderIsUnique
  BY ExclusionFromIInv, ExclusionMakesHolderUnique

\* The same fact about the state after a step.
LEMMA HolderUniqueNext == IInv' => HolderIsUnique'
<1>1. IInv => HolderIsUnique
  BY IInvMakesHolderUnique
<1> QED
  BY <1>1, PTL

\* A step that changes no process's Holds leaves the abstract holder alone.
LEMMA NoChangeOfHolder ==
  ASSUME HolderIsUnique, HolderIsUnique',
         \A q \in Procs : Holds(q)' <=> Holds(q)
  PROVE  holder' = holder
<1> USE ProcsAssumption DEF HolderIsUnique
<1>1. CASE holder \in Procs
  <2>1. Holds(holder)
    BY <1>1
  <2>2. \A q \in Procs : q = holder => Holds(q)'
    BY <1>1, <2>1
  <2> QED
    BY <1>1, <2>2
<1>2. CASE holder = NoProc
  <2>1. \A q \in Procs : ~Holds(q)
    BY <1>2
  <2>2. \A q \in Procs : ~Holds(q)'
    BY <2>1
  <2> QED
    BY <1>2, <2>2
<1> QED
  BY <1>1, <1>2

\* Every step of the file lease is a grant, a release or a stutter of Lease.
LEMMA StepRefinesLease == IInv /\ IInv' /\ [Next]_vars => [L!Next]_holder
<1> SUFFICES ASSUME IInv, IInv', [Next]_vars PROVE [L!Next]_holder
  OBVIOUS
<1>u. HolderIsUnique /\ HolderIsUnique'
  BY IInvMakesHolderUnique, HolderUniqueNext
<1>t. TypeOK
  BY DEF IInv
<1>1. ASSUME NEW p \in Procs, WriteOwner(p) PROVE L!Grant(p)
  <2>1. \A q \in Procs : ~Holds(q)
    BY <1>1, <1>t DEF IInv, Locked, AtPath, Holds, WriteOwner
  <2>2. holder = NoProc
    BY <2>1, <1>u DEF HolderIsUnique
  <2>3. Holds(p)'
    BY <1>1, <1>t DEF WriteOwner, Goto, Holds, TypeOK
  <2>4. holder' = p
    BY <2>3, <1>u DEF HolderIsUnique
  <2> QED
    BY <2>2, <2>4 DEF L!Grant
<1>2. ASSUME NEW p \in Procs, Holds(p), ~Holds(p)',
             \A q \in Procs \ {p} : pc'[q] = pc[q]
      PROVE  L!Release(p)
  <2>1. holder = p
    BY <1>2, <1>u DEF HolderIsUnique
  <2>2. \A q \in Procs : ~Holds(q)'
    BY <1>2, <2>1, <1>u DEF HolderIsUnique, Holds
  <2>3. holder' = NoProc
    BY <2>2, <1>u DEF HolderIsUnique
  <2> QED
    BY <2>1, <2>3 DEF L!Release
<1>3. ASSUME NEW p \in Procs, \A q \in Procs \ {p} : pc'[q] = pc[q],
             Holds(p)' <=> Holds(p)
      PROVE  holder' = holder
  <2>1. \A q \in Procs : Holds(q)' <=> Holds(q)
    BY <1>3 DEF Holds
  <2> QED
    BY <2>1, <1>u, NoChangeOfHolder
<1>4. ASSUME NEW p \in Procs,
             \/ Acquire(p) \/ Deadline(p) \/ OpenExisting(p) \/ OpenNew(p)
             \/ Flock(p) \/ FlockWouldBlock(p) \/ Check(p) \/ Retry(p)
             \/ Truncate(p) \/ AcquireFails(p) \/ BeginDrop(p) \/ Unlock(p)
      PROVE  holder' = holder
  <2>1. \A q \in Procs \ {p} : pc'[q] = pc[q]
    BY <1>4, <1>t DEF TypeOK, Goto, Acquire, Deadline, OpenExisting, OpenNew,
       Flock, FlockWouldBlock, Check, Retry, Truncate, AcquireFails,
       BeginDrop, Unlock
  <2>2. Holds(p)' <=> Holds(p)
    BY <1>4, <1>t DEF TypeOK, Goto, Holds, Acquire, Deadline, OpenExisting,
       OpenNew, Flock, FlockWouldBlock, Check, Retry, Truncate, AcquireFails,
       BeginDrop, Unlock
  <2> QED
    BY <2>1, <2>2, <1>3
<1>5. ASSUME NEW p \in Procs, ReadOwner(p) \/ Unlink(p) \/ Crash(p)
      PROVE  L!Release(p) \/ holder' = holder
  <2>1. \A q \in Procs \ {p} : pc'[q] = pc[q]
    BY <1>5, <1>t DEF TypeOK, Goto, ReadOwner, Unlink, Crash
  <2>2. CASE Holds(p) /\ ~Holds(p)'
    BY <2>1, <2>2, <1>2
  <2>3. CASE Holds(p)' <=> Holds(p)
    BY <2>1, <2>3, <1>3
  <2>4. Holds(p)' => Holds(p)
    BY <1>5, <1>t DEF TypeOK, Goto, Holds, ReadOwner, Unlink, Crash
  <2> QED
    BY <2>2, <2>3, <2>4
<1>6. CASE UNCHANGED vars
  BY <1>6 DEF vars, holder, Holds
<1> QED
  BY <1>1, <1>4, <1>5, <1>6 DEF Next, Step, L!Next

\* The unix file lease implements the abstract lease: its initial state is a
\* free lease and every step is a grant, a release or invisible.
THEOREM FileLeaseImplementsLease == Spec => LeaseSpec
<1>1. Init => L!Init
  BY DEF Init, L!Init, holder, Holds
<1>2. IInv /\ IInv' /\ [Next]_vars => [L!Next]_holder
  BY StepRefinesLease
<1>3. Spec => []IInv
  BY LeaseInvariant
<1> QED
  BY <1>1, <1>2, <1>3, PTL DEF Spec, LeaseSpec, L!Spec
==============================================================================
