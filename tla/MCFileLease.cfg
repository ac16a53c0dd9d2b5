\* Two processes, two attempts each: safety, refinement and termination.  A
\* waiter's file is replaced only if some inode is left over while every process
\* has one open: more inodes than processes.
SPECIFICATION FairSpec
CONSTANTS
  Procs = {p1, p2}
  Inodes = {i1, i2, i3, i4}
  NoProc = NoProc
  NoInode = NoInode
  MaxAttempts = 2
INVARIANTS
  MutualExclusion
  OwnerFileNamesHolder
PROPERTIES
  LeaseSpec
  EveryAttemptEnds
CHECK_DEADLOCK FALSE
