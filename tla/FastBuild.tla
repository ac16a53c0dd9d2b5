------------------------------ MODULE FastBuild ------------------------------
(***************************************************************************)
(* One fast build (run_fast_build, avc-core): a call that asks for a whole *)
(* program, then rounds of rustc and of calls that ask for another whole   *)
(* program, until one compiles or the rounds are used up.                  *)
(*                                                                         *)
(* A program is what the loop tells apart: whether rustc accepts it,       *)
(* whether it has an `fn main`, and how many errors are counted in the     *)
(* part of rustc's report that is kept.                                    *)
(***************************************************************************)
EXTENDS Integers

CONSTANTS
  MaxRepair,   (* VIBE_REPAIR_ATTEMPTS                                     *)
  MaxErrors    (* bound: errors counted                                    *)

Programs == [compiles : BOOLEAN, complete : BOOLEAN, counted : 0..MaxErrors]

\* The compile_error! written when an answer has no program in it.
NoCodeStub == [compiles |-> FALSE, complete |-> FALSE, counted |-> 1]
Nothing    == [compiles |-> FALSE, complete |-> FALSE, counted |-> -1]

VARIABLE fast
  (* stage    - "idle", "ask", "check", "write", "built" or "failed"       *)
  (* verify   - VIBE_VERIFY                                                *)
  (* calls, repairs, verified, compiled - as in the code                   *)
  (* code, best, score - the program at hand, the best one and its score   *)
  (* errors   - the program whose errors are kept                          *)
  (* tried    - history: the programs rustc judged                         *)
  (* file     - the program in the file, Nothing when it was not written   *)

FastIdle ==
  [stage |-> "idle", verify |-> TRUE, calls |-> 0, repairs |-> 0,
   verified |-> FALSE, compiled |-> FALSE, code |-> Nothing, best |-> Nothing,
   score |-> <<FALSE, MaxErrors + 1>>, errors |-> Nothing, tried |-> {},
   file |-> Nothing]

\* prepare_build_call: a task, an endpoint, a model and a key.
FastStart ==
  /\ fast.stage = "idle"
  /\ \E given \in SUBSET {"task", "endpoint", "model", "key"}, verify \in BOOLEAN :
       fast' = [fast EXCEPT
         !.verify = verify,
         !.stage  = IF given = {"task", "endpoint", "model", "key"} THEN "ask" ELSE "failed"]

\* The call cannot be made, the provider refuses or answers without text: the
\* build fails, whatever the rounds before found.
FastCallFails ==
  /\ fast.stage = "ask"
  /\ fast' = [fast EXCEPT !.stage = "failed", !.calls = @ + 1]

\* An answer.  Without a program in it the first round judges a stub, a later
\* one the program of the round before again.
FastAnswer ==
  /\ fast.stage = "ask"
  /\ \E found \in Programs \cup {Nothing} :
       LET first   == fast.calls = 0
           program == IF found # Nothing THEN found
                      ELSE IF first THEN NoCodeStub ELSE fast.code
       IN fast' = [fast EXCEPT
            !.calls = @ + 1, !.code = program,
            !.best  = IF first THEN program ELSE @,
            !.stage = IF fast.verify THEN "check" ELSE "write"]

\* rustc, or the temporary directory, is not there (any more).
RustcUnavailable ==
  /\ fast.stage = "check"
  /\ fast' = [fast EXCEPT !.stage = "write"]

RustcAccepts ==
  /\ fast.stage = "check" /\ fast.code.compiles
  /\ fast' = [fast EXCEPT
       !.verified = TRUE, !.compiled = TRUE, !.errors = Nothing, !.best = fast.code,
       !.tried = @ \cup {fast.code}, !.stage = "write"]

\* "(true, x) beats (false, y) for any x, y; among equals, fewer errors wins."
Better(score, than) ==
  IF score[1] # than[1] THEN score[1] ELSE score[2] < than[2]

\* Variant: the errors of the round replace those of the best program.
RustcRejectsLast ==
  /\ fast.stage = "check" /\ ~fast.code.compiles
  /\ LET score  == <<fast.code.complete, fast.code.counted>>
         better == Better(score, fast.score)
     IN fast' = [fast EXCEPT
          !.verified = TRUE, !.tried = @ \cup {fast.code},
          !.score   = IF better THEN score ELSE @,
          !.best    = IF better THEN fast.code ELSE @,
          !.errors  = fast.code,
          !.repairs = IF @ >= MaxRepair THEN @ ELSE @ + 1,
          !.stage   = IF fast.repairs >= MaxRepair THEN "write" ELSE "ask"]

RustcRejects ==
  /\ fast.stage = "check" /\ ~fast.code.compiles
  /\ LET score  == <<fast.code.complete, fast.code.counted>>
         better == Better(score, fast.score)
     IN fast' = [fast EXCEPT
          !.verified = TRUE, !.tried = @ \cup {fast.code},
          !.score   = IF better THEN score ELSE @,
          !.best    = IF better THEN fast.code ELSE @,
          !.errors  = IF better THEN fast.code ELSE @,
          !.repairs = IF @ >= MaxRepair THEN @ ELSE @ + 1,
          !.stage   = IF fast.repairs >= MaxRepair THEN "write" ELSE "ask"]

\* The best program is written; a write that fails is noted in source_path.
WriteProgram ==
  /\ fast.stage = "write"
  /\ \E ok \in BOOLEAN :
       fast' = [fast EXCEPT !.stage = "built",
                            !.file  = IF ok THEN fast.best ELSE Nothing]

FastNext ==
  \/ FastStart \/ FastAnswer \/ FastCallFails
  \/ RustcUnavailable \/ RustcAccepts \/ RustcRejects \/ WriteProgram

Status == IF ~fast.verified THEN "built" ELSE IF fast.compiled THEN "typechecks" ELSE "errors"

(***************************************************************************)
(* Properties.                                                             *)
(***************************************************************************)
\* "after the loop the best candidate ... is what actually gets written"
\* (run_fast_build): status and errors of a build are those of the program in
\* the file, whatever rounds came after it, and none that rustc judged was
\* better.  A build is a bounded number of calls.
ResultsDescribeTheirFile ==
  /\ fast.calls <= 1 + MaxRepair
  /\ fast.stage = "built" =>
       LET scoreOf(p) == <<p.complete, p.counted>>  IN
         /\ fast.file \in {fast.best, Nothing} /\ fast.best # Nothing
         /\ Status = "built" => fast.tried = {}
         /\ Status = "typechecks" => fast.best.compiles
         /\ Status = "errors" =>
              /\ fast.errors = fast.best /\ fast.best \in fast.tried
              /\ \A p \in fast.tried : ~p.compiles /\ ~Better(scoreOf(p), scoreOf(fast.best))
==============================================================================
