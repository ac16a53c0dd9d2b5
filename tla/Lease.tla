-------------------------------- MODULE Lease --------------------------------
(***************************************************************************)
(* What a file lease promises its callers (math-atoms-lock): at most one   *)
(* process is between acquire_file_lease returning and the lease's drop.   *)
(* A crash of the owner is a release.  The stores of this repository are   *)
(* written against this promise; FileLease is shown to keep it.            *)
(***************************************************************************)
CONSTANTS
  Procs,    (* the processes (or threads) that ask for the lease *)
  NoProc    (* the lease is free *)

VARIABLE
  holder    (* the process that holds the lease, or NoProc *)

Init == holder = NoProc

\* acquire_file_lease returns Ok to p.
Grant(p) ==
  /\ holder = NoProc
  /\ holder' = p

\* p drops its lease, or dies holding it.
Release(p) ==
  /\ holder = p
  /\ holder' = NoProc

Next == \E p \in Procs : Grant(p) \/ Release(p)

Spec == Init /\ [][Next]_holder
==============================================================================
