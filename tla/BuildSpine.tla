------------------------------ MODULE BuildSpine ------------------------------
(***************************************************************************)
(* What the build planner promises about every build, whoever drives it    *)
(* and whatever crashes: the six steps are passed one at a time and in     *)
(* order, each step may be corrected at most RetryLimit times, and a       *)
(* halted or complete build never moves again.                             *)
(***************************************************************************)
EXTENDS Naturals

CONSTANTS
  Builds,        (* build ids                                             *)
  Autonomous,    (* whether corrections may be requested at all           *)
  RetryLimit     (* corrections per step                                  *)

(* The steps are numbered.                                                 *)
Intake      == 1
LaunchProof == 6

VARIABLES
  stage,         (* current step of each build, 0 before it is started    *)
  status,        (* its run status                                        *)
  corrections    (* corrections requested at its current step             *)

vars == <<stage, status, corrections>>

Init ==
  /\ stage       = [b \in Builds |-> 0]
  /\ status      = [b \in Builds |-> "active"]
  /\ corrections = [b \in Builds |-> 0]

Start(b) ==
  /\ stage[b] = 0
  /\ stage' = [stage EXCEPT ![b] = Intake]
  /\ UNCHANGED <<status, corrections>>

Running(b) == stage[b] # 0 /\ status[b] = "active"

Advance(b) ==
  /\ Running(b)
  /\ stage[b] < LaunchProof
  /\ stage' = [stage EXCEPT ![b] = @ + 1]
  /\ corrections' = [corrections EXCEPT ![b] = 0]
  /\ UNCHANGED status

Complete(b) ==
  /\ Running(b)
  /\ stage[b] = LaunchProof
  /\ status' = [status EXCEPT ![b] = "complete"]
  /\ UNCHANGED <<stage, corrections>>

Correct(b) ==
  /\ Running(b)
  /\ Autonomous
  /\ corrections[b] < RetryLimit
  /\ corrections' = [corrections EXCEPT ![b] = @ + 1]
  /\ UNCHANGED <<stage, status>>

Halt(b) ==
  /\ Running(b)
  /\ status' = [status EXCEPT ![b] = "halted"]
  /\ UNCHANGED <<stage, corrections>>

Next ==
  \E b \in Builds : Start(b) \/ Advance(b) \/ Complete(b) \/ Correct(b) \/ Halt(b)

Spec == Init /\ [][Next]_vars
==============================================================================
