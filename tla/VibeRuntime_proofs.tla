--------------------------- MODULE VibeRuntime_proofs ---------------------------
(***************************************************************************)
(* Proofs about the runtimes and their stores, for any number of processes,*)
(* builds, providers and outputs, and for every limit of the stores.       *)
(*                                                                         *)
(* A property of the disk is inductive only together with what each        *)
(* runtime knows at the write it is about to make: Typing says what the    *)
(* operation in hand holds, Backing what the earlier writes of             *)
(* execute_turn have left on disk, Decided what evaluate has.              *)
(*                                                                         *)
(* Then what the stores hold and what is read of it, for inputs of any     *)
(* size: the gates (GateRules), the files and projections (VibeRecords),   *)
(* prompts and contexts (BuildPrompt).  At the end, the runs of            *)
(* MCVibeRuntime, whose inputs are some of them.                           *)
(***************************************************************************)
EXTENDS MCVibeRuntime, FiniteSetTheorems, SequenceTheorems, TLAPS

\* Appending keeps what was there and puts the new element last.
LEMMA AppendKeeps ==
  ASSUME NEW S, NEW s \in Seq(S), NEW e \in S
  PROVE  /\ Append(s, e) \in Seq(S)
         /\ Len(Append(s, e)) = Len(s) + 1
         /\ \A i \in 1..Len(s) : Append(s, e)[i] = s[i]
         /\ Append(s, e)[Len(s) + 1] = e
  OBVIOUS

(***************************************************************************)
(* What an operation in progress holds.                                    *)
(***************************************************************************)
Busy == {"call"} \cup Storing

OpsKnown ==
  \A r \in Runtimes :
    /\ pc[r] \in Busy => op[r] \in Operation
    /\ pc[r] \in {"persist", "entry", "record"} => op[r].output \in Outputs

\* A coordinator caches a snapshot that was saved.
CachesExist == \A r \in Runtimes, b \in Builds : cached[r][b] <= Len(history[b])

Typing == TypeOK /\ OpsKnown /\ CachesExist

\* No step takes anything away from a store, and none adds to a sealed pad.
Extends(s, t) == Len(s) <= Len(t) /\ \A i \in 1..Len(s) : t[i] = s[i]

Growth ==
  /\ sessions \subseteq sessions'
  /\ \A b \in Builds :
       /\ Extends(history[b], history'[b])
       /\ Extends(turns[b], turns'[b])
       /\ outputs[b] \subseteq outputs'[b]
       /\ \A p \in Providers :
            /\ Extends(pads[b][p], pads'[b][p])
            /\ seals[b][p] # 0 => /\ seals'[b][p] = seals[b][p]
                                  /\ pads'[b][p] = pads[b][p]

(***************************************************************************)
(* Between the writes of execute_turn.                                     *)
(***************************************************************************)
Checkpoint(o) == [kind |-> "packet_output", output |-> o]

Backed(b, p, o, n) ==
  /\ o \in outputs[b]
  /\ n \in 1..Len(pads[b][p])
  /\ pads[b][p][n] = Checkpoint(o)

\* The runtimes about to record a turn for the entry they have just written.
Recording(r, b, p, n) ==
  pc[r] = "record" /\ op[r].build = b /\ provider[r] = p /\ op[r].entry = n

Backing ==
  /\ \A r \in Runtimes :
       /\ pc[r] = "entry" => op[r].output \in outputs[op[r].build]
       /\ pc[r] = "record" =>
            Backed(op[r].build, provider[r], op[r].output, op[r].entry)
  /\ \A r \in Runtimes, q \in Runtimes :
       /\ pc[r] = "record" /\ Recording(q, op[r].build, provider[r], op[r].entry)
       => q = r
  /\ \A r \in Runtimes, b \in Builds : \A i \in 1..Len(turns[b]) :
       ~Recording(r, b, turns[b][i].provider, turns[b][i].entry)

TurnInv == Typing /\ Backing /\ TurnsAreBacked

(***************************************************************************)
(* Between evaluate and the note of its decision.                          *)
(***************************************************************************)
InLedger(chain, n, d) == n \in 2..Len(chain) /\ chain[n].decision = d

Decided ==
  \A r \in Runtimes :
    pc[r] = "decide" =>
      InLedger(history[op[r].build], op[r].revision, op[r].decision)

DecisionInv == Typing /\ Decided /\ DecisionsAreDurable

(***************************************************************************)
(* Turns begin in a session.                                               *)
(***************************************************************************)
InSession ==
  \A r \in Runtimes :
    /\ prepared[r] # NoTurn => prepared[r].build \in sessions
    /\ pc[r] \in {"call", "persist", "entry", "record"} => op[r].build \in sessions

SessionInv == Typing /\ InSession /\ SessionsPrecedeProgress

(***************************************************************************)
(* The parts of a step.                                                    *)
(***************************************************************************)
\* The operation in hand, at any of its writes.
LEMMA InHand ==
  ASSUME Typing, NEW r \in Runtimes
  PROVE  /\ provider[r] \in Providers
         /\ pc[r] \in Busy =>
              /\ op[r] \in Operation
              /\ op[r].build \in Builds
              /\ op[r].revision \in Nat
              /\ op[r].entry \in Nat
              /\ op[r].decision \in Decisions
BY DEF Typing, TypeOK, OpsKnown, Operation

LEMMA OpTyped ==
  ASSUME NEW b \in Builds, NEW n \in Nat, NEW d \in Decisions
  PROVE  /\ Op(b, n, d) \in Operation
         /\ Op(b, n, d).build = b
         /\ Op(b, n, d).revision = n
         /\ Op(b, n, d).decision = d
BY DEF Op, Operation

LEMMA NoteTyped == Note \in Entries
BY DEF Note, Entries

LEMMA CheckpointTyped ==
  ASSUME NEW o \in Outputs
  PROVE  Checkpoint(o) \in Entries /\ Checkpoint(o).kind # "decision"
BY DEF Checkpoint, Entries

LEMMA DecisionTyped ==
  ASSUME NEW n \in Nat, NEW d \in Decisions
  PROVE  [kind |-> "decision", revision |-> n, decision |-> d] \in Entries
BY DEF Entries

\* One entry more in one scratchpad, which was not sealed.
LEMMA WriteEffect ==
  ASSUME Typing, NEW b \in Builds, NEW p \in Providers, NEW e \in Entries,
         Write(b, p, e)
  PROVE  /\ pads' \in [Builds -> [Providers -> Seq(Entries)]]
         /\ seals[b][p] = 0
         /\ Len(pads[b][p]) < MaxEntries
         /\ Len(pads'[b][p]) = Len(pads[b][p]) + 1
         /\ pads'[b][p][Len(pads[b][p]) + 1] = e
         /\ \A i \in 1..Len(pads[b][p]) : pads'[b][p][i] = pads[b][p][i]
         /\ \A c \in Builds, q \in Providers :
              c # b \/ q # p => pads'[c][q] = pads[c][q]
<1>1. /\ pads \in [Builds -> [Providers -> Seq(Entries)]]
      /\ pads[b][p] \in Seq(Entries)
  BY DEF Typing, TypeOK
<1>2. /\ Append(pads[b][p], e) \in Seq(Entries)
      /\ Len(Append(pads[b][p], e)) = Len(pads[b][p]) + 1
      /\ \A i \in 1..Len(pads[b][p]) : Append(pads[b][p], e)[i] = pads[b][p][i]
      /\ Append(pads[b][p], e)[Len(pads[b][p]) + 1] = e
  BY <1>1, AppendKeeps
<1>3. pads' = [pads EXCEPT ![b][p] = Append(pads[b][p], e)]
  BY DEF Write
<1>4. seals[b][p] = 0 /\ Len(pads[b][p]) < MaxEntries
  BY DEF Write, MayAppend
<1> QED
  BY <1>1, <1>2, <1>3, <1>4

\* What may come of an evaluation is a snapshot with the decision it carries.
LEMMA OutcomesTyped ==
  ASSUME NEW s \in Snapshots, NEW o \in Outcomes(s)
  PROVE  o \in Snapshots
<1>1. [s EXCEPT !.decision = "retry"] \in Snapshots
  BY DEF Snapshots, Decisions
<1>2. [s EXCEPT !.decision = "halt", !.status = "halted"] \in Snapshots
  BY DEF Snapshots, Decisions
<1>3. ASSUME s.step < LastStep
      PROVE  [s EXCEPT !.decision = "advance", !.step = @ + 1] \in Snapshots
  <2>1. s.step \in 1..LastStep /\ s.step + 1 \in 1..LastStep
    BY <1>3, LimitAssumption DEF Snapshots
  <2> DEFINE n == s.step + 1
  <2> HIDE DEF n
  <2>2. [s EXCEPT !.decision = "advance", !.step = n] \in Snapshots
    BY <2>1 DEF Snapshots, Decisions, n
  <2> QED
    BY <2>2 DEF n
<1>4. [s EXCEPT !.decision = "advance", !.status = "complete"] \in Snapshots
  BY DEF Snapshots, Decisions
<1> QED
  BY <1>1, <1>2, <1>3, <1>4 DEF Outcomes

\* One snapshot more in one chain, or none because it was there already.
LEMMA SavedEffect ==
  ASSUME Typing, NEW b \in Builds, NEW n \in Nat, NEW s \in Snapshots,
         Saved(b, n, s)
  PROVE  /\ history' \in [Builds -> Seq(Snapshots)]
         /\ \A c \in Builds : Extends(history[c], history'[c])
         /\ \A c \in Builds : c # b => history'[c] = history[c]
         /\ n + 1 = Len(history'[b])
         /\ history'[b][n + 1] = s
<1>1. history \in [Builds -> Seq(Snapshots)] /\ history[b] \in Seq(Snapshots)
  BY DEF Typing, TypeOK
<1>2. CASE n = Len(history[b]) /\ history' = [history EXCEPT ![b] = Append(@, s)]
  <2>1. /\ Append(history[b], s) \in Seq(Snapshots)
        /\ Len(Append(history[b], s)) = Len(history[b]) + 1
        /\ \A i \in 1..Len(history[b]) : Append(history[b], s)[i] = history[b][i]
        /\ Append(history[b], s)[Len(history[b]) + 1] = s
    BY <1>1, AppendKeeps
  <2>2. /\ history'[b] = Append(history[b], s)
        /\ history' \in [Builds -> Seq(Snapshots)]
        /\ \A c \in Builds : c # b => history'[c] = history[c]
    BY <1>1, <1>2, <2>1
  <2> QED
    BY <1>1, <1>2, <2>1, <2>2 DEF Extends
<1>3. CASE n + 1 = Len(history[b]) /\ history[b][n + 1] = s /\ UNCHANGED history
  BY <1>1, <1>3 DEF Extends
<1> QED
  BY <1>2, <1>3 DEF Saved

\* An evaluation saves what may come of the snapshot its runtime caches.
LEMMA EvaluationEffect ==
  ASSUME Typing, NEW r \in Runtimes, NEW b \in Builds, Active(r, b),
         NEW s \in Outcomes(history[b][cached[r][b]]),
         Saved(b, cached[r][b], s)
  PROVE  /\ cached[r][b] \in Nat /\ cached[r][b] + 1 >= 2
         /\ s \in Snapshots
         /\ s.decision \in Decisions
         /\ history' \in [Builds -> Seq(Snapshots)]
         /\ \A c \in Builds : Extends(history[c], history'[c])
         /\ \A c \in Builds : c # b => history'[c] = history[c]
         /\ cached[r][b] + 1 = Len(history'[b])
         /\ history'[b][cached[r][b] + 1] = s
<1>1. cached[r][b] \in 1..Len(history[b])
  BY DEF Typing, TypeOK, CachesExist, Active
<1>2. history[b][cached[r][b]] \in Snapshots
  BY <1>1 DEF Typing, TypeOK
<1>3. s \in Snapshots
  BY <1>2, OutcomesTyped
<1>4. s.decision \in Decisions
  BY <1>3 DEF Snapshots
<1> QED
  BY <1>1, <1>3, <1>4, SavedEffect

\* A cached revision stays one when the chains grow.
LEMMA CachesFollow ==
  ASSUME Typing, history' \in [Builds -> Seq(Snapshots)],
         \A c \in Builds : Extends(history[c], history'[c]),
         NEW r \in Runtimes, NEW b \in Builds
  PROVE  cached[r][b] \in Nat /\ cached[r][b] <= Len(history'[b])
<1>1. cached[r][b] \in Nat /\ cached[r][b] <= Len(history[b])
  BY DEF Typing, TypeOK, CachesExist
<1>2. Len(history[b]) <= Len(history'[b])
  BY DEF Extends
<1>3. Len(history[b]) \in Nat /\ Len(history'[b]) \in Nat
  BY DEF Typing, TypeOK
<1> QED
  BY <1>1, <1>2, <1>3

LEMMA TypingStep == Typing /\ [Next]_vars => Typing'
<1> SUFFICES ASSUME Typing, [Next]_vars PROVE Typing'
  OBVIOUS
<1> USE DEF Typing, TypeOK, OpsKnown, CachesExist, Busy, Storing, Goto, Begin,
        Return, memory, disk, vars
<1>1. CASE UNCHANGED vars
  BY <1>1
<1>2. ASSUME NEW r \in Runtimes, Open(r) PROVE Typing'
  BY <1>2 DEF Open
<1>3. ASSUME NEW r \in Runtimes, SetProvider(r) PROVE Typing'
  BY <1>3 DEF SetProvider
<1>4. ASSUME NEW r \in Runtimes, Crash(r) PROVE Typing'
  BY <1>4 DEF Crash
<1>5. ASSUME NEW r \in Runtimes, StoreFails(r) PROVE Typing'
  BY <1>5 DEF StoreFails
<1>6. ASSUME NEW r \in Runtimes, StartBuild(r) PROVE Typing'
  <2>1. PICK b \in Builds :
          /\ history[b] = <<>>
          /\ history' = [history EXCEPT ![b] = <<FirstSnapshot>>]
          /\ cached' = [cached EXCEPT ![r][b] = 1]
          /\ Begin(r, "session", Op(b, 1, "started"))
    BY <1>6 DEF StartBuild
  <2>2. FirstSnapshot \in Snapshots
    BY LimitAssumption DEF FirstSnapshot, Snapshots, Decisions
  <2>3. /\ history' \in [Builds -> Seq(Snapshots)]
        /\ Len(history[b]) = 0 /\ Len(history'[b]) = 1
        /\ \A c \in Builds : c # b => history'[c] = history[c]
    BY <2>1, <2>2
  <2>4. Op(b, 1, "started") \in Operation
    BY OpTyped DEF Decisions
  <2> QED
    BY <1>6, <2>1, <2>3, <2>4 DEF StartBuild
<1>7. ASSUME NEW r \in Runtimes, CreateSession(r) PROVE Typing'
  BY <1>7, InHand DEF CreateSession
<1>8. ASSUME NEW r \in Runtimes, RecordRequest(r) PROVE Typing'
  <2>1. pads' \in [Builds -> [Providers -> Seq(Entries)]]
    BY <1>8, InHand, NoteTyped, WriteEffect DEF RecordRequest
  <2> QED
    BY <1>8, <2>1 DEF RecordRequest
<1>9. ASSUME NEW r \in Runtimes, AppendNote(r) PROVE Typing'
  <2>1. pads' \in [Builds -> [Providers -> Seq(Entries)]]
    BY <1>9, InHand, NoteTyped, WriteEffect DEF AppendNote
  <2> QED
    BY <1>9, <2>1 DEF AppendNote
<1>10. ASSUME NEW r \in Runtimes, PrepareTurn(r) PROVE Typing'
  BY <1>10 DEF PrepareTurn, HasSession, Active, Prepared
<1>11. ASSUME NEW r \in Runtimes, ExecuteTurn(r) PROVE Typing'
  <2>1. prepared[r] \in Prepared
    BY <1>11 DEF ExecuteTurn
  <2>2. Op(prepared[r].build, prepared[r].revision, "started") \in Operation
    BY <2>1, OpTyped DEF Prepared, Decisions
  <2> QED
    BY <1>11, <2>2 DEF ExecuteTurn
<1>12. ASSUME NEW r \in Runtimes, ProviderAnswers(r) PROVE Typing'
  <2>1. PICK o \in Outputs : Begin(r, "persist", [op[r] EXCEPT !.output = o])
    BY <1>12 DEF ProviderAnswers
  <2>2. /\ [op[r] EXCEPT !.output = o] \in Operation
        /\ [op[r] EXCEPT !.output = o].output = o
    BY <1>12, InHand DEF ProviderAnswers, Operation
  <2> QED
    BY <1>12, <2>1, <2>2 DEF ProviderAnswers
<1>13. ASSUME NEW r \in Runtimes, ProviderFails(r) PROVE Typing'
  BY <1>13 DEF ProviderFails
<1>14. ASSUME NEW r \in Runtimes, RecordFailure(r) PROVE Typing'
  <2>1. pads' \in [Builds -> [Providers -> Seq(Entries)]]
    BY <1>14, InHand, NoteTyped, WriteEffect DEF RecordFailure
  <2> QED
    BY <1>14, <2>1 DEF RecordFailure
<1>15. ASSUME NEW r \in Runtimes, PersistOutput(r) PROVE Typing'
  BY <1>15 DEF PersistOutput, Operation
<1>16. ASSUME NEW r \in Runtimes, RecordOutput(r) PROVE Typing'
  <2> DEFINE b == op[r].build
             n == Len(pads[b][provider[r]]) + 1
  <2>1. pc[r] = "entry" /\ b \in Builds /\ op[r].output \in Outputs
    BY <1>16, InHand DEF RecordOutput
  <2>2. /\ Write(b, provider[r], Checkpoint(op[r].output))
        /\ Begin(r, "record", [op[r] EXCEPT !.entry = n])
    BY <1>16 DEF RecordOutput, Checkpoint
  <2>3. pads' \in [Builds -> [Providers -> Seq(Entries)]]
    BY <2>1, <2>2, InHand, CheckpointTyped, WriteEffect
  <2>4. n \in Nat
    BY <2>1
  <2> HIDE DEF n, b
  <2>5. /\ [op[r] EXCEPT !.entry = n] \in Operation
        /\ [op[r] EXCEPT !.entry = n].output = op[r].output
    BY <2>1, <2>4, InHand DEF Operation
  <2> QED
    BY <1>16, <2>1, <2>2, <2>3, <2>5 DEF RecordOutput
<1>17. ASSUME NEW r \in Runtimes, RecordTurn(r) PROVE Typing'
  <2> DEFINE t == [revision |-> op[r].revision, provider |-> provider[r],
                   output |-> op[r].output, entry |-> op[r].entry]
  <2>1. /\ op[r].build \in Builds
        /\ turns' = [turns EXCEPT ![op[r].build] = Append(@, t)]
    BY <1>17, InHand DEF RecordTurn
  <2>2. t \in Turns
    BY <1>17, InHand DEF RecordTurn, Turns
  <2> HIDE DEF t
  <2>3. turns' \in [Builds -> Seq(Turns)]
    BY <2>1, <2>2, AppendKeeps
  <2> QED
    BY <1>17, <2>3 DEF RecordTurn
<1>18. ASSUME NEW r \in Runtimes, Evaluate(r) PROVE Typing'
  <2>1. PICK b \in Builds :
          /\ Active(r, b)
          /\ \E s \in Outcomes(history[b][cached[r][b]]) :
               /\ Saved(b, cached[r][b], s)
               /\ Begin(r, "decide", Op(b, cached[r][b] + 1, s.decision))
          /\ cached' = [cached EXCEPT ![r][b] = @ + 1]
    BY <1>18 DEF Evaluate
  <2> PICK s \in Outcomes(history[b][cached[r][b]]) :
          /\ Saved(b, cached[r][b], s)
          /\ Begin(r, "decide", Op(b, cached[r][b] + 1, s.decision))
    BY <2>1
  <2>2. /\ cached[r][b] \in Nat
        /\ s.decision \in Decisions
        /\ history' \in [Builds -> Seq(Snapshots)]
        /\ \A c \in Builds : Extends(history[c], history'[c])
        /\ cached[r][b] + 1 = Len(history'[b])
    BY <2>1, EvaluationEffect
  <2>3. Op(b, cached[r][b] + 1, s.decision) \in Operation
    BY <2>2, OpTyped
  <2>4. ASSUME NEW q \in Runtimes, NEW c \in Builds
        PROVE  cached'[q][c] <= Len(history'[c])
    <3>1. cached[q][c] \in Nat /\ cached[q][c] <= Len(history'[c])
      BY <2>2, CachesFollow
    <3>2. cached'[q][c] = IF q = r /\ c = b THEN cached[r][b] + 1 ELSE cached[q][c]
      BY <2>1
    <3> QED
      BY <2>2, <3>1, <3>2
  <2>5. cached' \in [Runtimes -> [Builds -> Nat]]
    BY <2>1, <2>2
  <2> QED
    BY <1>18, <2>1, <2>2, <2>3, <2>4, <2>5 DEF Evaluate
<1>19. ASSUME NEW r \in Runtimes, EvaluateFails(r) PROVE Typing'
  <2>1. PICK b \in Builds :
          /\ Active(r, b)
          /\ \E s \in Outcomes(history[b][cached[r][b]]) : Saved(b, cached[r][b], s)
    BY <1>19 DEF EvaluateFails
  <2> PICK s \in Outcomes(history[b][cached[r][b]]) : Saved(b, cached[r][b], s)
    BY <2>1
  <2>2. /\ history' \in [Builds -> Seq(Snapshots)]
        /\ \A c \in Builds : Extends(history[c], history'[c])
    BY <2>1, EvaluationEffect
  <2>3. ASSUME NEW q \in Runtimes, NEW c \in Builds
        PROVE  cached'[q][c] <= Len(history'[c])
    <3>1. cached[q][c] <= Len(history'[c])
      BY <2>2, CachesFollow
    <3> QED
      BY <1>19, <3>1 DEF EvaluateFails
  <2> QED
    BY <1>19, <2>2, <2>3 DEF EvaluateFails
<1>20. ASSUME NEW r \in Runtimes, RecordDecision(r) PROVE Typing'
  <2>1. Write(op[r].build, provider[r],
              [kind |-> "decision", revision |-> op[r].revision,
               decision |-> op[r].decision])
    BY <1>20 DEF RecordDecision
  <2>2. pads' \in [Builds -> [Providers -> Seq(Entries)]]
    BY <1>20, <2>1, InHand, DecisionTyped, WriteEffect DEF RecordDecision
  <2>3. (Goto(r, "seal") /\ UNCHANGED op) \/ Return(r)
    BY <1>20 DEF RecordDecision
  <2>4. OpsKnown'
    BY <1>20, <2>3 DEF RecordDecision
  <2> QED
    BY <1>20, <2>2, <2>3, <2>4 DEF RecordDecision
<1>21. ASSUME NEW r \in Runtimes, Seal(r) PROVE Typing'
  <2>1. /\ op[r].build \in Builds /\ provider[r] \in Providers
        /\ seals' = [seals EXCEPT ![op[r].build][provider[r]] =
                        Len(pads[op[r].build][provider[r]])]
    BY <1>21, InHand DEF Seal, SealPad
  <2>2. Len(pads[op[r].build][provider[r]]) \in Nat
    BY <2>1
  <2>3. seals' \in [Builds -> [Providers -> Nat]]
    BY <2>1, <2>2
  <2> QED
    BY <1>21, <2>3 DEF Seal
<1> QED
  BY <1>1, <1>2, <1>3, <1>4, <1>5, <1>6, <1>7, <1>8, <1>9, <1>10, <1>11,
     <1>12, <1>13, <1>14, <1>15, <1>16, <1>17, <1>18, <1>19, <1>20, <1>21 DEF
     Next
\* Which actions write to which store.
LEMMA WhoWrites ==
  ASSUME [Next]_vars
  PROVE  /\ \/ UNCHANGED history
            \/ \E r \in Runtimes : StartBuild(r) \/ Evaluate(r) \/ EvaluateFails(r)
         /\ \/ UNCHANGED sessions
            \/ \E r \in Runtimes : CreateSession(r)
         /\ \/ UNCHANGED pads
            \/ \E r \in Runtimes :
                 \/ RecordRequest(r) \/ AppendNote(r) \/ RecordFailure(r)
                 \/ RecordOutput(r) \/ RecordDecision(r)
         /\ UNCHANGED seals \/ \E r \in Runtimes : Seal(r)
         /\ UNCHANGED outputs \/ \E r \in Runtimes : PersistOutput(r)
         /\ UNCHANGED turns \/ \E r \in Runtimes : RecordTurn(r)
<1> USE DEF memory, disk, vars
<1>1. CASE UNCHANGED vars
  BY <1>1
<1>2. ASSUME NEW r \in Runtimes,
             Open(r) \/ SetProvider(r) \/ Crash(r) \/ StoreFails(r)
               \/ PrepareTurn(r) \/ ExecuteTurn(r) \/ ProviderAnswers(r)
               \/ ProviderFails(r)
      PROVE  UNCHANGED disk
  BY <1>2 DEF Open, SetProvider, Crash, StoreFails, PrepareTurn, ExecuteTurn,
       ProviderAnswers, ProviderFails
<1>3. ASSUME NEW r \in Runtimes, StartBuild(r) \/ Evaluate(r) \/ EvaluateFails(r)
      PROVE  UNCHANGED <<sessions, pads, seals, outputs, turns>>
  BY <1>3 DEF StartBuild, Evaluate, EvaluateFails
<1>4. ASSUME NEW r \in Runtimes,
             RecordRequest(r) \/ AppendNote(r) \/ RecordFailure(r)
               \/ RecordOutput(r) \/ RecordDecision(r)
      PROVE  UNCHANGED <<history, sessions, seals, outputs, turns>>
  BY <1>4 DEF RecordRequest, AppendNote, RecordFailure, RecordOutput, RecordDecision
<1>5. ASSUME NEW r \in Runtimes
      PROVE  /\ CreateSession(r) => UNCHANGED <<history, pads, seals, outputs, turns>>
             /\ Seal(r) => UNCHANGED <<history, sessions, pads, outputs, turns>>
             /\ PersistOutput(r) => UNCHANGED <<history, sessions, pads, seals, turns>>
             /\ RecordTurn(r) => UNCHANGED <<history, sessions, pads, seals, outputs>>
  BY DEF CreateSession, Seal, PersistOutput, RecordTurn
<1> QED
  BY <1>1, <1>2, <1>3, <1>4, <1>5 DEF Next

\* Every entry a runtime writes is put after the others of one unsealed pad.
LEMMA PadWritten ==
  ASSUME Typing, NEW r \in Runtimes,
         \/ RecordRequest(r) \/ AppendNote(r) \/ RecordFailure(r)
         \/ RecordOutput(r) \/ RecordDecision(r)
  PROVE  \E b \in Builds, e \in Entries :
           /\ Write(b, provider[r], e)
           /\ \/ e = Note
              \/ RecordOutput(r) /\ b = op[r].build /\ e = Checkpoint(op[r].output)
              \/ /\ RecordDecision(r) /\ b = op[r].build
                 /\ e = [kind |-> "decision", revision |-> op[r].revision,
                         decision |-> op[r].decision]
<1>1. CASE RecordRequest(r) \/ RecordFailure(r)
  <2>1. op[r].build \in Builds /\ Write(op[r].build, provider[r], Note)
    BY <1>1, InHand DEF RecordRequest, RecordFailure, Busy, Storing
  <2> QED
    BY <2>1, NoteTyped
<1>2. CASE AppendNote(r)
  BY <1>2, NoteTyped DEF AppendNote
<1>3. CASE RecordOutput(r)
  <2>1. /\ op[r].build \in Builds /\ op[r].output \in Outputs
        /\ Write(op[r].build, provider[r], Checkpoint(op[r].output))
    BY <1>3, InHand DEF RecordOutput, Busy, Storing, Typing, OpsKnown, Checkpoint
  <2> QED
    BY <1>3, <2>1, CheckpointTyped
<1>4. CASE RecordDecision(r)
  <2> DEFINE e == [kind |-> "decision", revision |-> op[r].revision,
                   decision |-> op[r].decision]
  <2>1. /\ op[r].build \in Builds /\ e \in Entries
        /\ Write(op[r].build, provider[r], e)
    BY <1>4, InHand, DecisionTyped DEF RecordDecision, Busy, Storing
  <2> QED
    BY <1>4, <2>1
<1> QED
  BY <1>1, <1>2, <1>3, <1>4

LEMMA ExtendsItself ==
  ASSUME NEW S, NEW s \in Seq(S)
  PROVE  Extends(s, s)
BY DEF Extends

LEMMA ExtendsAppended ==
  ASSUME NEW S, NEW s \in Seq(S), NEW e \in S
  PROVE  Extends(s, Append(s, e))
BY AppendKeeps DEF Extends

LEMMA GrowthStep ==
  ASSUME Typing, [Next]_vars
  PROVE  Growth
<1> DEFINE Chains == \A b \in Builds : Extends(history[b], history'[b])
           Records == \A b \in Builds : Extends(turns[b], turns'[b])
           Pads == \A b \in Builds, p \in Providers :
                     /\ Extends(pads[b][p], pads'[b][p])
                     /\ seals[b][p] # 0 => pads'[b][p] = pads[b][p]
           Seals == \A b \in Builds, p \in Providers :
                      seals[b][p] # 0 => seals'[b][p] = seals[b][p]
           Kept == \A b \in Builds : outputs[b] \subseteq outputs'[b]
<1>1. Chains
  <2>1. CASE UNCHANGED history
    BY <2>1, ExtendsItself DEF Typing, TypeOK
  <2>2. ASSUME NEW r \in Runtimes, StartBuild(r) PROVE Chains
    <3>1. PICK b \in Builds :
            history[b] = <<>> /\ history' = [history EXCEPT ![b] = <<FirstSnapshot>>]
      BY <2>2 DEF StartBuild
    <3>2. Extends(history[b], history'[b])
      BY <3>1 DEF Typing, TypeOK, Extends
    <3>3. ASSUME NEW c \in Builds, c # b PROVE Extends(history[c], history'[c])
      BY <3>1, <3>3, ExtendsItself DEF Typing, TypeOK
    <3> QED
      BY <3>2, <3>3
  <2>3. ASSUME NEW r \in Runtimes, Evaluate(r) \/ EvaluateFails(r) PROVE Chains
    <3>1. PICK b \in Builds :
            /\ Active(r, b)
            /\ \E s \in Outcomes(history[b][cached[r][b]]) : Saved(b, cached[r][b], s)
      BY <2>3 DEF Evaluate, EvaluateFails
    <3> QED
      BY <3>1, EvaluationEffect
  <2> QED
    BY <2>1, <2>2, <2>3, WhoWrites
<1>2. Records
  <2>1. CASE UNCHANGED turns
    BY <2>1, ExtendsItself DEF Typing, TypeOK
  <2>2. ASSUME NEW r \in Runtimes, RecordTurn(r) PROVE Records
    <3> DEFINE t == [revision |-> op[r].revision, provider |-> provider[r],
                     output |-> op[r].output, entry |-> op[r].entry]
               b == op[r].build
    <3>1. b \in Builds /\ turns' = [turns EXCEPT ![b] = Append(@, t)]
      BY <2>2, InHand DEF RecordTurn, Busy, Storing
    <3>2. t \in Turns
      BY <2>2, InHand DEF RecordTurn, Turns, Busy, Storing, Typing, OpsKnown
    <3> HIDE DEF t, b
    <3>3. Extends(turns[b], turns'[b])
      BY <3>1, <3>2, ExtendsAppended DEF Typing, TypeOK
    <3>4. ASSUME NEW c \in Builds, c # b PROVE Extends(turns[c], turns'[c])
      BY <3>1, <3>4, ExtendsItself DEF Typing, TypeOK
    <3> QED
      BY <3>3, <3>4
  <2> QED
    BY <2>1, <2>2, WhoWrites
<1>3. Pads
  <2>1. CASE UNCHANGED pads
    BY <2>1, ExtendsItself DEF Typing, TypeOK
  <2>2. ASSUME NEW r \in Runtimes,
               \/ RecordRequest(r) \/ AppendNote(r) \/ RecordFailure(r)
               \/ RecordOutput(r) \/ RecordDecision(r)
        PROVE  Pads
    <3>1. PICK b \in Builds, e \in Entries : Write(b, provider[r], e)
      BY <2>2, PadWritten
    <3>2. provider[r] \in Providers
      BY InHand
    <3>3. /\ seals[b][provider[r]] = 0
          /\ Extends(pads[b][provider[r]], pads'[b][provider[r]])
      BY <3>1, <3>2, WriteEffect DEF Extends, Typing, TypeOK
    <3>4. ASSUME NEW c \in Builds, NEW q \in Providers, c # b \/ q # provider[r]
          PROVE  Extends(pads[c][q], pads'[c][q]) /\ pads'[c][q] = pads[c][q]
      <4>1. pads'[c][q] = pads[c][q]
        BY <3>1, <3>2, <3>4, WriteEffect
      <4> QED
        BY <4>1, ExtendsItself DEF Typing, TypeOK
    <3> QED
      BY <3>2, <3>3, <3>4
  <2> QED
    BY <2>1, <2>2, WhoWrites
<1>4. Seals
  <2>1. ASSUME NEW r \in Runtimes, Seal(r) PROVE Seals
    BY <2>1, InHand DEF Seal, SealPad, Typing, TypeOK
  <2> QED
    BY <2>1, WhoWrites
<1>5. Kept
  <2>1. ASSUME NEW r \in Runtimes, PersistOutput(r) PROVE Kept
    BY <2>1, InHand DEF PersistOutput, Typing, TypeOK
  <2> QED
    BY <2>1, WhoWrites
<1>6. sessions \subseteq sessions'
  BY WhoWrites DEF CreateSession
<1> QED
  BY <1>1, <1>2, <1>3, <1>4, <1>5, <1>6 DEF Growth
\* How a runtime comes to one of the writes that promise something: it stays
\* there while others move, or it has just made the write before.
LEMMA WhoArrives ==
  ASSUME Typing, [Next]_vars, NEW q \in Runtimes
  PROVE  \/ pc'[q] \in {"down", "ready", "session", "observe", "blocked", "seal"}
         \/ /\ pc'[q] = pc[q] /\ op'[q] = op[q] /\ provider'[q] = provider[q]
            /\ cached'[q] = cached[q] /\ prepared'[q] = prepared[q]
         \/ ExecuteTurn(q) \/ ProviderAnswers(q) \/ PersistOutput(q)
         \/ RecordOutput(q) \/ Evaluate(q)
<1> USE DEF Typing, TypeOK, Storing, Goto, Begin, Return, memory, disk, vars
<1>1. CASE UNCHANGED vars
  BY <1>1
<1>2. ASSUME NEW r \in Runtimes,
             \/ Open(r) \/ SetProvider(r) \/ Crash(r) \/ StoreFails(r)
             \/ CreateSession(r) \/ RecordRequest(r) \/ AppendNote(r)
             \/ PrepareTurn(r) \/ ExecuteTurn(r) \/ ProviderAnswers(r)
             \/ ProviderFails(r) \/ RecordFailure(r) \/ PersistOutput(r)
             \/ RecordOutput(r) \/ RecordTurn(r) \/ EvaluateFails(r)
             \/ RecordDecision(r) \/ Seal(r),
             q # r
      PROVE  /\ pc'[q] = pc[q] /\ op'[q] = op[q] /\ provider'[q] = provider[q]
             /\ cached'[q] = cached[q] /\ prepared'[q] = prepared[q]
  BY <1>2 DEF Open, SetProvider, Crash, StoreFails, CreateSession, RecordRequest,
       AppendNote, PrepareTurn, ExecuteTurn, ProviderAnswers, ProviderFails,
       RecordFailure, PersistOutput, RecordOutput, RecordTurn, EvaluateFails,
       RecordDecision, Seal
<1>3. ASSUME NEW r \in Runtimes, StartBuild(r) \/ Evaluate(r), q # r
      PROVE  /\ pc'[q] = pc[q] /\ op'[q] = op[q] /\ provider'[q] = provider[q]
             /\ cached'[q] = cached[q] /\ prepared'[q] = prepared[q]
  BY <1>3 DEF StartBuild, Evaluate
<1>4. ASSUME \/ Open(q) \/ SetProvider(q) \/ Crash(q) \/ StoreFails(q)
             \/ StartBuild(q) \/ CreateSession(q) \/ RecordRequest(q)
             \/ AppendNote(q) \/ PrepareTurn(q) \/ ProviderFails(q)
             \/ RecordFailure(q) \/ RecordTurn(q) \/ EvaluateFails(q)
             \/ RecordDecision(q) \/ Seal(q)
      PROVE  pc'[q] \in {"down", "ready", "session", "observe", "blocked", "seal"}
  BY <1>4 DEF Open, SetProvider, Crash, StoreFails, StartBuild, CreateSession,
       RecordRequest, AppendNote, PrepareTurn, ProviderFails, RecordFailure,
       RecordTurn, EvaluateFails, RecordDecision, Seal
<1> QED
  BY <1>1, <1>2, <1>3, <1>4 DEF Next
(***************************************************************************)
(* The theorems.                                                           *)
(***************************************************************************)
LEMMA InitTyping == Init => Typing
BY DEF Init, Typing, TypeOK, OpsKnown, CachesExist, Busy, Storing, Nothing

\* Every store and every runtime keeps to its type, what an operation in
\* progress holds is known, and a cached revision is a saved one.
THEOREM RuntimeTyping == Spec => []Typing
<1> QED
  BY InitTyping, TypingStep, PTL DEF Spec

\* Ledgers, scratchpads and turn records are append-only, artifacts and sessions
\* stay, and a sealed scratchpad never changes again, whichever process writes,
\* fails or dies.
THEOREM StoresOnlyGrow == Spec => [][Growth]_vars
<1>1. Typing /\ [Next]_vars => [Growth]_vars
  BY GrowthStep
<1> QED
  BY <1>1, RuntimeTyping, PTL DEF Spec

\* The limits of the scratchpads and of the turn records hold, and a sealed
\* scratchpad has the entries it was sealed with, however the writers race.
THEOREM StoresLoad == Spec => []StoresStayLoadable
<1>1. Init => StoresStayLoadable
  BY LimitAssumption DEF Init, StoresStayLoadable, Nothing
<1>2. Typing /\ StoresStayLoadable /\ [Next]_vars => StoresStayLoadable'
  <2> SUFFICES ASSUME Typing, StoresStayLoadable, [Next]_vars
               PROVE  StoresStayLoadable'
    OBVIOUS
  <2>1. ASSUME NEW b \in Builds PROVE Len(turns'[b]) <= MaxTurns
    <3>1. CASE UNCHANGED turns
      BY <3>1 DEF StoresStayLoadable
    <3>2. ASSUME NEW r \in Runtimes, RecordTurn(r) PROVE Len(turns'[b]) <= MaxTurns
      <4> DEFINE t == [revision |-> op[r].revision, provider |-> provider[r],
                       output |-> op[r].output, entry |-> op[r].entry]
                 c == op[r].build
      <4>1. /\ c \in Builds /\ Len(turns[c]) < MaxTurns
            /\ turns' = [turns EXCEPT ![c] = Append(@, t)]
        BY <3>2, InHand DEF RecordTurn, Busy, Storing
      <4>2. t \in Turns
        BY <3>2, InHand DEF RecordTurn, Turns, Busy, Storing, Typing, OpsKnown
      <4> HIDE DEF t, c
      <4>3. turns'[c] = Append(turns[c], t) /\ turns[c] \in Seq(Turns)
        BY <4>1 DEF Typing, TypeOK
      <4>4. Len(turns'[c]) = Len(turns[c]) + 1
        BY <4>2, <4>3, AppendKeeps
      <4>5. b # c => turns'[b] = turns[b]
        BY <4>1 DEF Typing, TypeOK
      <4> QED
        BY <4>1, <4>3, <4>4, <4>5, LimitAssumption DEF StoresStayLoadable
    <3> QED
      BY <3>1, <3>2, WhoWrites
  <2>2. ASSUME NEW b \in Builds, NEW p \in Providers
        PROVE  Len(pads'[b][p]) <= MaxEntries
    <3>1. CASE UNCHANGED pads
      BY <3>1 DEF StoresStayLoadable
    <3>2. ASSUME NEW r \in Runtimes,
                 \/ RecordRequest(r) \/ AppendNote(r) \/ RecordFailure(r)
                 \/ RecordOutput(r) \/ RecordDecision(r)
          PROVE  Len(pads'[b][p]) <= MaxEntries
      <4>1. PICK c \in Builds, e \in Entries : Write(c, provider[r], e)
        BY <3>2, PadWritten
      <4>2. /\ Len(pads[c][provider[r]]) < MaxEntries
            /\ Len(pads[c][provider[r]]) \in Nat
            /\ Len(pads'[c][provider[r]]) = Len(pads[c][provider[r]]) + 1
            /\ b # c \/ p # provider[r] => pads'[b][p] = pads[b][p]
        BY <4>1, InHand, WriteEffect DEF Typing, TypeOK
      <4> QED
        BY <4>2, LimitAssumption DEF StoresStayLoadable
    <3> QED
      BY <3>1, <3>2, WhoWrites
  <2>3. ASSUME NEW b \in Builds, NEW p \in Providers, seals'[b][p] # 0
        PROVE  seals'[b][p] = Len(pads'[b][p])
    <3>1. CASE seals[b][p] # 0
      BY <3>1, GrowthStep DEF Growth, StoresStayLoadable
    <3>2. CASE seals[b][p] = 0
      <4>1. PICK r \in Runtimes : Seal(r)
        BY <2>3, <3>2, WhoWrites
      <4> QED
        BY <2>3, <3>2, <4>1, InHand DEF Seal, SealPad, Typing, TypeOK
    <3> QED
      BY <3>1, <3>2
  <2> QED
    BY <2>1, <2>2, <2>3 DEF StoresStayLoadable
<1> QED
  BY <1>1, <1>2, RuntimeTyping, PTL DEF Spec

\* The scratchpad projected into a request in flight is that of the provider it
\* is sent to, at the revision its runtime caches.
THEOREM CallsKeepTheirScope == Spec => []CallsStayInScope
<1>1. Init => CallsStayInScope
  BY DEF Init, CallsStayInScope
<1>2. Typing /\ CallsStayInScope /\ [Next]_vars => CallsStayInScope'
  <2> SUFFICES ASSUME Typing, CallsStayInScope, [Next]_vars,
                      NEW q \in Runtimes, pc'[q] = "call"
               PROVE  [build |-> op'[q].build, revision |-> cached'[q][op'[q].build],
                       provider |-> provider'[q]] = prepared'[q]
    BY DEF CallsStayInScope
  <2>1. CASE /\ pc'[q] = pc[q] /\ op'[q] = op[q] /\ provider'[q] = provider[q]
             /\ cached'[q] = cached[q] /\ prepared'[q] = prepared[q]
    BY <2>1 DEF CallsStayInScope
  <2>2. CASE ExecuteTurn(q)
    <3>1. /\ prepared[q] \in Prepared /\ prepared'[q] = prepared[q]
          /\ cached'[q] = cached[q] /\ provider'[q] = provider[q]
          /\ op'[q] = Op(prepared[q].build, prepared[q].revision, "started")
      BY <2>2 DEF ExecuteTurn, Begin, Typing, TypeOK
    <3>2. /\ op'[q].build = prepared[q].build
          /\ prepared[q].revision = cached[q][prepared[q].build]
          /\ prepared[q].provider = provider[q]
      BY <2>2, <3>1 DEF Op, ExecuteTurn, Fresh
    <3> QED
      BY <3>1, <3>2 DEF Prepared
  <2>3. CASE \/ ProviderAnswers(q) \/ PersistOutput(q) \/ RecordOutput(q)
             \/ Evaluate(q)
    BY <2>3 DEF ProviderAnswers, PersistOutput, RecordOutput, Evaluate, Begin,
         Goto, Typing, TypeOK
  <2> QED
    BY <2>1, <2>2, <2>3, WhoArrives
<1> QED
  BY <1>1, <1>2, RuntimeTyping, PTL DEF Spec
\* What the ledger holds it keeps.
LEMMA LedgerKeeps ==
  ASSUME Typing, [Next]_vars,
         NEW b \in Builds, NEW n \in Nat, NEW d, InLedger(history[b], n, d)
  PROVE  InLedger(history'[b], n, d)
<1>1. Extends(history[b], history'[b])
  BY GrowthStep DEF Growth
<1>2. Len(history[b]) \in Nat /\ Len(history'[b]) \in Nat
  BY TypingStep DEF Typing, TypeOK
<1>3. n \in 2..Len(history[b]) /\ history'[b][n] = history[b][n]
  BY <1>1, <1>2 DEF Extends, InLedger
<1>4. n \in 2..Len(history'[b])
  BY <1>1, <1>2, <1>3 DEF Extends
<1> QED
  BY <1>3, <1>4 DEF InLedger

LEMMA DecisionStep ==
  ASSUME DecisionInv, [Next]_vars
  PROVE  DecisionInv'
<1> USE DEF DecisionInv
<1>1. Typing'
  BY TypingStep
<1>2. Decided'
  <2> SUFFICES ASSUME NEW q \in Runtimes, pc'[q] = "decide"
               PROVE  InLedger(history'[op'[q].build], op'[q].revision, op'[q].decision)
    BY DEF Decided
  <2>1. CASE pc'[q] = pc[q] /\ op'[q] = op[q]
    BY <2>1, InHand, LedgerKeeps DEF Decided, Busy, Storing
  <2>2. CASE Evaluate(q)
    <3>1. PICK b \in Builds :
            /\ Active(q, b)
            /\ \E s \in Outcomes(history[b][cached[q][b]]) :
                 /\ Saved(b, cached[q][b], s)
                 /\ Begin(q, "decide", Op(b, cached[q][b] + 1, s.decision))
      BY <2>2 DEF Evaluate
    <3> PICK s \in Outcomes(history[b][cached[q][b]]) :
               /\ Saved(b, cached[q][b], s)
               /\ Begin(q, "decide", Op(b, cached[q][b] + 1, s.decision))
      BY <3>1
    <3> DEFINE n == cached[q][b] + 1
    <3>2. /\ n \in Nat /\ n >= 2
          /\ s.decision \in Decisions
          /\ n = Len(history'[b])
          /\ history'[b][n] = s
      BY <3>1, EvaluationEffect
    <3>3. op'[q] = Op(b, n, s.decision)
      BY DEF Begin, Typing, TypeOK
    <3> HIDE DEF n
    <3>4. op'[q].build = b /\ op'[q].revision = n /\ op'[q].decision = s.decision
      BY <3>2, <3>3, OpTyped
    <3> QED
      BY <3>2, <3>4 DEF InLedger
  <2>3. CASE \/ ExecuteTurn(q) \/ ProviderAnswers(q) \/ PersistOutput(q)
             \/ RecordOutput(q)
    BY <2>3 DEF ExecuteTurn, ProviderAnswers, PersistOutput, RecordOutput, Begin,
         Goto, Typing, TypeOK
  <2> QED
    BY <2>1, <2>2, <2>3, WhoArrives
<1>3. DecisionsAreDurable'
  <2> SUFFICES ASSUME NEW b \in Builds, NEW p \in Providers,
                      NEW i \in 1..Len(pads'[b][p]), pads'[b][p][i].kind = "decision"
               PROVE  InLedger(history'[b], pads'[b][p][i].revision,
                        pads'[b][p][i].decision)
    BY DEF DecisionsAreDurable, InLedger
  <2>1. ASSUME i \in 1..Len(pads[b][p]), pads'[b][p][i] = pads[b][p][i]
        PROVE  InLedger(history'[b], pads'[b][p][i].revision,
                        pads'[b][p][i].decision)
    <3> DEFINE e == pads[b][p][i]
    <3>1. InLedger(history[b], e.revision, e.decision)
      BY <2>1 DEF DecisionsAreDurable, InLedger
    <3>2. e.revision \in Nat
      BY <3>1 DEF InLedger, Typing, TypeOK
    <3> QED
      BY <2>1, <3>1, <3>2, LedgerKeeps
  <2>2. CASE UNCHANGED pads
    BY <2>1, <2>2
  <2>3. ASSUME NEW r \in Runtimes,
               \/ RecordRequest(r) \/ AppendNote(r) \/ RecordFailure(r)
               \/ RecordOutput(r) \/ RecordDecision(r)
        PROVE  InLedger(history'[b], pads'[b][p][i].revision,
                        pads'[b][p][i].decision)
    <3>1. PICK c \in Builds, e \in Entries :
            /\ Write(c, provider[r], e)
            /\ \/ e = Note
               \/ RecordOutput(r) /\ c = op[r].build /\ e = Checkpoint(op[r].output)
               \/ /\ RecordDecision(r) /\ c = op[r].build
                  /\ e = [kind |-> "decision", revision |-> op[r].revision,
                          decision |-> op[r].decision]
      BY <2>3, PadWritten
    <3>2. CASE b # c \/ p # provider[r] \/ i # Len(pads[c][provider[r]]) + 1
      <4>1. i \in 1..Len(pads[b][p]) /\ pads'[b][p][i] = pads[b][p][i]
        <5> DEFINE n == Len(pads[c][provider[r]])
        <5>1. provider[r] \in Providers
          BY InHand
        <5>2. n \in Nat
          BY <5>1 DEF Typing, TypeOK
        <5>3. /\ Len(pads'[c][provider[r]]) = n + 1
              /\ \A j \in 1..n : pads'[c][provider[r]][j] = pads[c][provider[r]][j]
          <6>1. Len(pads'[c][provider[r]]) = n + 1
            BY <3>1, <5>1, WriteEffect
          <6>2. ASSUME NEW j \in 1..n
                PROVE  pads'[c][provider[r]][j] = pads[c][provider[r]][j]
            BY <3>1, <5>1, WriteEffect
          <6> QED
            BY <6>1, <6>2
        <5> HIDE DEF n
        <5>4. CASE b # c \/ p # provider[r]
          <6>1. pads'[b][p] = pads[b][p]
            BY <3>1, <5>1, <5>4, WriteEffect
          <6> QED
            BY <6>1
        <5>5. CASE b = c /\ p = provider[r]
          BY <3>2, <5>2, <5>3, <5>5 DEF n
        <5> QED
          BY <5>4, <5>5
      <4> QED
        BY <2>1, <4>1
    <3>3. CASE b = c /\ p = provider[r] /\ i = Len(pads[c][provider[r]]) + 1
      <4>1. pads'[b][p][i] = e
        BY <3>1, <3>3, InHand, WriteEffect
      <4>2. /\ RecordDecision(r) /\ b = op[r].build
            /\ e.revision = op[r].revision /\ e.decision = op[r].decision
        BY <3>1, <3>3, <4>1 DEF Note, Checkpoint
      <4>3. pc[r] = "decide" /\ op[r].revision \in Nat
        BY <4>2, InHand DEF RecordDecision, Busy, Storing
      <4> QED
        BY <4>1, <4>2, <4>3, LedgerKeeps DEF Decided
    <3> QED
      BY <3>2, <3>3
  <2> QED
    BY <2>2, <2>3, WhoWrites
<1> QED
  BY <1>1, <1>2, <1>3

\* The scratchpad reports no decision that the ledger does not hold.
THEOREM DecisionsLast == Spec => []DecisionsAreDurable
<1>1. Init => DecisionInv
  BY InitTyping DEF Init, DecisionInv, Decided, DecisionsAreDurable, Nothing
<1>2. DecisionInv /\ [Next]_vars => DecisionInv'
  BY DecisionStep
<1>3. DecisionInv => DecisionsAreDurable
  BY DEF DecisionInv
<1> QED
  BY <1>1, <1>2, <1>3, PTL DEF Spec
LEMMA SessionStep ==
  ASSUME SessionInv, [Next]_vars
  PROVE  SessionInv'
<1> USE DEF SessionInv
<1>1. Typing'
  BY TypingStep
<1>2. sessions \subseteq sessions'
  BY GrowthStep DEF Growth
<1>3. ASSUME NEW q \in Runtimes, prepared'[q] # NoTurn
      PROVE  prepared'[q].build \in sessions'
  <2>1. CASE prepared'[q] = prepared[q]
    BY <1>2, <1>3, <2>1 DEF InSession
  <2>2. CASE PrepareTurn(q)
    BY <1>2, <2>2 DEF PrepareTurn, HasSession, Typing, TypeOK
  <2>3. prepared'[q] = prepared[q] \/ PrepareTurn(q) \/ prepared'[q] = NoTurn
    <3> USE DEF Typing, TypeOK, memory, disk, vars
    <3>1. CASE UNCHANGED vars
      BY <3>1
    <3>2. ASSUME NEW r \in Runtimes,
                 \/ Open(r) \/ SetProvider(r) \/ StoreFails(r) \/ StartBuild(r)
                 \/ CreateSession(r) \/ RecordRequest(r) \/ AppendNote(r)
                 \/ ExecuteTurn(r) \/ ProviderAnswers(r) \/ ProviderFails(r)
                 \/ RecordFailure(r) \/ PersistOutput(r) \/ RecordOutput(r)
                 \/ RecordTurn(r) \/ Evaluate(r) \/ EvaluateFails(r)
                 \/ RecordDecision(r) \/ Seal(r)
          PROVE  UNCHANGED prepared
      BY <3>2 DEF Open, SetProvider, StoreFails, StartBuild, CreateSession,
           RecordRequest, AppendNote, ExecuteTurn, ProviderAnswers, ProviderFails,
           RecordFailure, PersistOutput, RecordOutput, RecordTurn, Evaluate,
           EvaluateFails, RecordDecision, Seal
    <3>3. ASSUME NEW r \in Runtimes, Crash(r) \/ PrepareTurn(r)
          PROVE  <2>3
      BY <3>3 DEF Crash, PrepareTurn
    <3> QED
      BY <3>1, <3>2, <3>3 DEF Next
  <2> QED
    BY <1>3, <2>1, <2>2, <2>3
<1>4. ASSUME NEW q \in Runtimes, pc'[q] \in {"call", "persist", "entry", "record"}
      PROVE  op'[q].build \in sessions'
  <2>1. CASE pc'[q] = pc[q] /\ op'[q] = op[q]
    BY <1>2, <1>4, <2>1 DEF InSession
  <2>2. CASE ExecuteTurn(q)
    BY <1>2, <2>2 DEF ExecuteTurn, Begin, Op, InSession, Typing, TypeOK
  <2>3. CASE ProviderAnswers(q) \/ PersistOutput(q) \/ RecordOutput(q)
    <3>1. pc[q] \in {"call", "persist", "entry"} /\ op[q] \in Operation
      BY <2>3, InHand DEF ProviderAnswers, PersistOutput, RecordOutput, Busy, Storing
    <3>2. op'[q].build = op[q].build
      BY <2>3, <3>1 DEF ProviderAnswers, PersistOutput, RecordOutput, Begin,
           Operation, Typing, TypeOK
    <3> QED
      BY <1>2, <3>1, <3>2 DEF InSession
  <2>4. CASE Evaluate(q)
    BY <1>4, <2>4 DEF Evaluate, Begin, Goto, Typing, TypeOK
  <2> QED
    BY <1>4, <2>1, <2>2, <2>3, <2>4, WhoArrives
<1>5. ASSUME NEW b \in Builds \ sessions'
      PROVE  Len(history'[b]) <= 1 /\ turns'[b] = <<>>
  <2>1. b \notin sessions /\ Len(history[b]) <= 1 /\ turns[b] = <<>>
    BY <1>2, <1>5 DEF SessionsPrecedeProgress
  <2>2. turns'[b] = turns[b]
    <3>1. ASSUME NEW r \in Runtimes, RecordTurn(r) PROVE turns'[b] = turns[b]
      <4>1. op[r].build \in sessions
        BY <3>1 DEF RecordTurn, InSession
      <4> QED
        BY <2>1, <3>1, <4>1 DEF RecordTurn, Typing, TypeOK
    <3> QED
      BY <3>1, WhoWrites
  <2>3. Len(history'[b]) <= 1
    <3>1. ASSUME NEW r \in Runtimes, StartBuild(r) PROVE Len(history'[b]) <= 1
      BY <2>1, <3>1 DEF StartBuild, Typing, TypeOK
    <3>2. ASSUME NEW r \in Runtimes, Evaluate(r) \/ EvaluateFails(r)
          PROVE  Len(history'[b]) <= 1
      <4>1. PICK c \in Builds :
              /\ HasSession(c) /\ Active(r, c)
              /\ \E s \in Outcomes(history[c][cached[r][c]]) :
                   Saved(c, cached[r][c], s)
        BY <3>2 DEF Evaluate, EvaluateFails
      <4>2. b # c
        BY <2>1, <4>1 DEF HasSession
      <4> QED
        BY <2>1, <4>1, <4>2, EvaluationEffect
    <3> QED
      BY <2>1, <3>1, <3>2, WhoWrites
  <2> QED
    BY <2>1, <2>2, <2>3
<1> QED
  BY <1>1, <1>3, <1>4, <1>5 DEF InSession, SessionsPrecedeProgress

\* A build whose start was interrupted before its session was written has no
\* turn and no evaluation, then or later.
THEOREM ProgressFollowsSession == Spec => []SessionsPrecedeProgress
<1>1. Init => SessionInv
  BY InitTyping DEF Init, SessionInv, InSession, SessionsPrecedeProgress
<1>2. SessionInv /\ [Next]_vars => SessionInv'
  BY SessionStep
<1>3. SessionInv => SessionsPrecedeProgress
  BY DEF SessionInv
<1> QED
  BY <1>1, <1>2, <1>3, PTL DEF Spec
\* What backs a turn stays on disk.
LEMMA BackingKeeps ==
  ASSUME Typing, [Next]_vars, NEW b \in Builds, NEW p \in Providers,
         NEW o, NEW n, Backed(b, p, o, n)
  PROVE  Backed(b, p, o, n)'
<1>1. Extends(pads[b][p], pads'[b][p]) /\ outputs[b] \subseteq outputs'[b]
  BY GrowthStep DEF Growth
<1>2. Len(pads[b][p]) \in Nat /\ Len(pads'[b][p]) \in Nat
  BY TypingStep DEF Typing, TypeOK
<1>3. n \in 1..Len(pads[b][p]) /\ pads'[b][p][n] = Checkpoint(o)
  BY <1>1 DEF Backed, Extends
<1>4. n \in 1..Len(pads'[b][p])
  BY <1>1, <1>2, <1>3 DEF Extends
<1> QED
  BY <1>1, <1>3, <1>4 DEF Backed

\* The checkpoint a runtime writes is new, and it has the output it will record.
LEMMA CheckpointWritten ==
  ASSUME Typing, Backing, NEW r \in Runtimes, RecordOutput(r)
  PROVE  LET b == op[r].build
             p == provider[r]
         IN  /\ b \in Builds /\ p \in Providers
             /\ provider' = provider
             /\ op'[r].build = b
             /\ op'[r].entry = Len(pads[b][p]) + 1
             /\ Backed(op[r].build, provider[r], op[r].output, op[r].entry)'
<1> DEFINE b == op[r].build
           p == provider[r]
           n == Len(pads[b][p]) + 1
<1>1. /\ pc[r] = "entry" /\ b \in Builds /\ p \in Providers
      /\ op[r] \in Operation /\ op[r].output \in Outputs
      /\ provider' = provider /\ outputs' = outputs
  BY InHand DEF RecordOutput, Typing, OpsKnown, Busy, Storing
<1>2. Write(b, p, Checkpoint(op[r].output)) /\ op'[r] = [op[r] EXCEPT !.entry = n]
  BY DEF RecordOutput, Checkpoint, Begin, Typing, TypeOK
<1>3. Len(pads'[b][p]) = n /\ pads'[b][p][n] = Checkpoint(op[r].output)
  BY <1>1, <1>2, CheckpointTyped, WriteEffect
<1>4. n \in 1..n
  BY <1>1 DEF Typing, TypeOK
<1> HIDE DEF n
<1>5. op'[r].build = b /\ op'[r].entry = n /\ op'[r].output = op[r].output
  BY <1>1, <1>2 DEF Operation
<1>6. op[r].output \in outputs[b]
  BY <1>1 DEF Backing
<1> QED
  BY <1>1, <1>3, <1>4, <1>5, <1>6 DEF Backed, n
LEMMA TurnStep ==
  ASSUME TurnInv, [Next]_vars
  PROVE  TurnInv'
<1> USE DEF TurnInv
<1>1. Typing'
  BY TypingStep
\* Who is at "entry" or "record" was there, or has just come from the write before.
<1>2. ASSUME NEW q \in Runtimes, pc'[q] = "entry"
      PROVE  op'[q].output \in outputs'[op'[q].build]
  <2>1. CASE pc'[q] = pc[q] /\ op'[q] = op[q]
    BY <1>2, <2>1, InHand, GrowthStep DEF Backing, Growth, Busy, Storing
  <2>2. CASE PersistOutput(q)
    BY <2>2, InHand DEF PersistOutput, Typing, TypeOK, Busy, Storing
  <2>3. CASE ExecuteTurn(q) \/ ProviderAnswers(q) \/ RecordOutput(q) \/ Evaluate(q)
    BY <1>2, <2>3 DEF ExecuteTurn, ProviderAnswers, RecordOutput, Evaluate, Begin,
         Goto, Typing, TypeOK
  <2> QED
    BY <1>2, <2>1, <2>2, <2>3, WhoArrives
<1>3. ASSUME NEW q \in Runtimes, pc'[q] = "record"
      PROVE  \/ RecordOutput(q)
             \/ /\ pc[q] = "record" /\ op'[q] = op[q] /\ provider'[q] = provider[q]
                /\ op[q].build \in Builds /\ provider[q] \in Providers
                /\ Backed(op[q].build, provider[q], op[q].output, op[q].entry)
  <2>1. CASE pc'[q] = pc[q] /\ op'[q] = op[q] /\ provider'[q] = provider[q]
    BY <1>3, <2>1, InHand DEF Backing, Busy, Storing
  <2>2. CASE ExecuteTurn(q) \/ ProviderAnswers(q) \/ PersistOutput(q) \/ Evaluate(q)
    BY <1>3, <2>2 DEF ExecuteTurn, ProviderAnswers, PersistOutput, Evaluate, Begin,
         Goto, Typing, TypeOK
  <2> QED
    BY <1>3, <2>1, <2>2, WhoArrives
<1>4. ASSUME NEW q \in Runtimes, pc'[q] = "record"
      PROVE  Backed(op[q].build, provider[q], op[q].output, op[q].entry)'
  <2>1. CASE RecordOutput(q)
    BY <2>1, CheckpointWritten
  <2>2. CASE /\ op'[q] = op[q] /\ provider'[q] = provider[q]
             /\ op[q].build \in Builds /\ provider[q] \in Providers
             /\ Backed(op[q].build, provider[q], op[q].output, op[q].entry)
    BY <2>2, BackingKeeps DEF Backed
  <2> QED
    BY <1>3, <1>4, <2>1, <2>2
\* A new checkpoint lies behind every one that is backed already.
<1>5. ASSUME NEW r \in Runtimes, RecordOutput(r), NEW b \in Builds,
             NEW p \in Providers, NEW o, NEW n, Backed(b, p, o, n)
      PROVE  ~ (op'[r].build = b /\ provider'[r] = p /\ op'[r].entry = n)
  <2>1. n \in 1..Len(pads[b][p]) /\ Len(pads[b][p]) \in Nat
    BY <1>5 DEF Backed, Typing, TypeOK
  <2>2. op'[r].entry = Len(pads[op'[r].build][provider'[r]]) + 1
    BY <1>5, CheckpointWritten
  <2> QED
    BY <2>1, <2>2
<1>6. ASSUME NEW r \in Runtimes, NEW q \in Runtimes,
             pc'[r] = "record", pc'[q] = "record",
             op'[q].build = op'[r].build, provider'[q] = provider'[r],
             op'[q].entry = op'[r].entry
      PROVE  q = r
  <2>1. CASE RecordOutput(r) /\ RecordOutput(q)
    BY <2>1 DEF RecordOutput, Begin, Goto, Typing, TypeOK
  <2>2. CASE RecordOutput(r) /\ ~RecordOutput(q)
    BY <1>3, <1>5, <1>6, <2>2
  <2>3. CASE RecordOutput(q) /\ ~RecordOutput(r)
    BY <1>3, <1>5, <1>6, <2>3
  <2>4. CASE ~RecordOutput(q) /\ ~RecordOutput(r)
    BY <1>3, <1>6, <2>4 DEF Backing, Recording
  <2> QED
    BY <2>1, <2>2, <2>3, <2>4
\* The turn chain, and what a turn just recorded was before.
<1>7. ASSUME NEW b \in Builds, NEW i \in 1..Len(turns[b])
      PROVE  /\ turns[b][i].provider \in Providers
             /\ Backed(b, turns[b][i].provider, turns[b][i].output, turns[b][i].entry)
  <2>1. turns[b][i] \in Turns
    BY DEF Typing, TypeOK
  <2> QED
    BY <2>1 DEF Turns, TurnsAreBacked, Backed, Checkpoint
<1> DEFINE Kept(b, i) == i \in 1..Len(turns[b]) /\ turns'[b][i] = turns[b][i]
           Added(b, i) == /\ i = Len(turns[b]) + 1
                          /\ \E r \in Runtimes :
                               /\ RecordTurn(r)
                               /\ op[r].build = b
                               /\ turns'[b][i].provider = provider[r]
                               /\ turns'[b][i].output = op[r].output
                               /\ turns'[b][i].entry = op[r].entry
<1>8. ASSUME NEW b \in Builds, NEW i \in 1..Len(turns'[b])
      PROVE  Kept(b, i) \/ Added(b, i)
  <2>1. CASE UNCHANGED turns
    BY <2>1
  <2>2. ASSUME NEW r \in Runtimes, RecordTurn(r) PROVE Kept(b, i) \/ Added(b, i)
    <3> DEFINE t == [revision |-> op[r].revision, provider |-> provider[r],
                     output |-> op[r].output, entry |-> op[r].entry]
               c == op[r].build
    <3>1. c \in Builds /\ turns' = [turns EXCEPT ![c] = Append(@, t)]
      BY <2>2, InHand DEF RecordTurn, Busy, Storing
    <3>2. /\ t \in Turns /\ t.provider = provider[r] /\ t.output = op[r].output
          /\ t.entry = op[r].entry
      BY <2>2, InHand DEF RecordTurn, Turns, Busy, Storing, Typing, OpsKnown
    <3> HIDE DEF t
    <3>3. CASE b # c
      <4>1. turns'[b] = turns[b]
        BY <3>1, <3>3 DEF Typing, TypeOK
      <4> QED
        BY <4>1
    <3>4. CASE b = c
      <4>1. turns[b] \in Seq(Turns) /\ turns'[b] = Append(turns[b], t)
        BY <3>1, <3>4 DEF Typing, TypeOK
      <4>2. /\ Len(turns'[b]) = Len(turns[b]) + 1 /\ Len(turns[b]) \in Nat
            /\ \A j \in 1..Len(turns[b]) : turns'[b][j] = turns[b][j]
            /\ turns'[b][Len(turns[b]) + 1] = t
        BY <3>2, <4>1, AppendKeeps
      <4>3. i \in 1..Len(turns[b]) \/ i = Len(turns[b]) + 1
        BY <4>2
      <4> QED
        BY <2>2, <3>2, <3>4, <4>2, <4>3
    <3> QED
      BY <3>3, <3>4
  <2> QED
    BY <2>1, <2>2, WhoWrites
<1>9. ASSUME NEW r \in Runtimes, RecordTurn(r)
      PROVE  /\ pc[r] = "record" /\ pc'[r] = "ready"
             /\ op[r].build \in Builds /\ provider[r] \in Providers
             /\ Backed(op[r].build, provider[r], op[r].output, op[r].entry)
             /\ \A q \in Runtimes : ~RecordOutput(q)
  <2>1. pc[r] = "record" /\ pc' = [pc EXCEPT ![r] = "ready"]
    BY <1>9 DEF RecordTurn, Return, Goto
  <2>2. ASSUME NEW q \in Runtimes PROVE ~RecordOutput(q)
    BY <2>1 DEF RecordOutput, Begin, Goto, Typing, TypeOK
  <2> QED
    BY <2>1, <2>2, InHand DEF Backing, Busy, Storing, Typing, TypeOK
<1>10. ASSUME NEW q \in Runtimes, NEW b \in Builds, NEW i \in 1..Len(turns'[b]),
              pc'[q] = "record", op'[q].build = b,
              provider'[q] = turns'[b][i].provider, op'[q].entry = turns'[b][i].entry
       PROVE  FALSE
  <2>1. CASE Kept(b, i)
    <3>1. CASE RecordOutput(q)
      BY <1>5, <1>7, <1>10, <2>1, <3>1
    <3>2. CASE ~RecordOutput(q)
      BY <1>3, <1>10, <2>1, <3>2 DEF Backing, Recording
    <3> QED
      BY <3>1, <3>2
  <2>2. ASSUME NEW r \in Runtimes, RecordTurn(r), op[r].build = b,
               turns'[b][i].provider = provider[r], turns'[b][i].entry = op[r].entry
        PROVE  FALSE
    <3>1. q # r /\ ~RecordOutput(q)
      BY <1>9, <1>10, <2>2
    <3>2. Recording(q, op[r].build, provider[r], op[r].entry)
      BY <1>3, <1>10, <2>2, <3>1 DEF Recording
    <3> QED
      BY <1>9, <2>2, <3>1, <3>2 DEF Backing
  <2> QED
    BY <1>8, <2>1, <2>2
<1>11. ASSUME NEW b \in Builds, NEW i \in 1..Len(turns'[b])
       PROVE  Backed(b, turns[b][i].provider, turns[b][i].output, turns[b][i].entry)'
  <2>1. CASE Kept(b, i)
    <3>1. /\ turns[b][i].provider \in Providers
          /\ Backed(b, turns[b][i].provider, turns[b][i].output, turns[b][i].entry)
      BY <1>7, <2>1
    <3>2. ASSUME NEW t, t.provider \in Providers,
                 Backed(b, t.provider, t.output, t.entry)
          PROVE  Backed(b, t.provider, t.output, t.entry)'
      BY <3>2, BackingKeeps
    <3> QED
      BY <2>1, <3>1, <3>2 DEF Backed
  <2>2. ASSUME NEW r \in Runtimes, RecordTurn(r), op[r].build = b,
               turns'[b][i].provider = provider[r],
               turns'[b][i].output = op[r].output, turns'[b][i].entry = op[r].entry
        PROVE  Backed(b, turns[b][i].provider, turns[b][i].output, turns[b][i].entry)'
    BY <1>9, <2>2, BackingKeeps DEF Backed
  <2> QED
    BY <1>8, <2>1, <2>2
<1>12. ASSUME NEW b \in Builds, NEW i \in 1..Len(turns'[b]),
              NEW j \in 1..Len(turns'[b]),
              turns'[b][j].provider = turns'[b][i].provider,
              turns'[b][j].entry = turns'[b][i].entry
       PROVE  j = i
  <2>1. CASE Kept(b, i) /\ Kept(b, j)
    <3>1. ASSUME NEW k \in 1..Len(turns[b]), NEW l \in 1..Len(turns[b]),
                 turns[b][l].provider = turns[b][k].provider,
                 turns[b][l].entry = turns[b][k].entry
          PROVE  l = k
      BY <3>1 DEF TurnsAreBacked
    <3> QED
      BY <1>12, <2>1, <3>1
  <2>2. ASSUME NEW k \in {i, j}, NEW l \in {i, j},
               k = Len(turns[b]) + 1, l \in 1..Len(turns[b]),
               turns'[b][l] = turns[b][l],
               NEW r \in Runtimes, RecordTurn(r), op[r].build = b,
               turns'[b][k].provider = provider[r], turns'[b][k].entry = op[r].entry
        PROVE  FALSE
    <3>1. turns[b][l].provider = provider[r] /\ turns[b][l].entry = op[r].entry
      BY <1>12, <2>2
    <3> QED
      BY <1>9, <2>2, <3>1 DEF Backing, Recording
  <2> QED
    BY <1>8, <2>1, <2>2
<1>13. Backing'
  BY <1>2, <1>4, <1>6, <1>10 DEF Backing, Recording
<1>14. TurnsAreBacked'
  <2> SUFFICES ASSUME NEW b \in Builds, NEW i \in 1..Len(turns'[b])
               PROVE  /\ Backed(b, turns[b][i].provider, turns[b][i].output,
                                turns[b][i].entry)'
                      /\ \A j \in 1..Len(turns'[b]) :
                           /\ turns'[b][j].provider = turns'[b][i].provider
                           /\ turns'[b][j].entry = turns'[b][i].entry
                           => j = i
    BY DEF TurnsAreBacked, Backed, Checkpoint
  <2> QED
    BY <1>11, <1>12
<1> QED
  BY <1>1, <1>13, <1>14

\* Every turn record has its artifact and its checkpoint, and shares the
\* checkpoint with no other, whatever failed or died between the writes.
THEOREM TurnsKeepTheirBacking == Spec => []TurnsAreBacked
<1>1. Init => TurnInv
  BY InitTyping DEF Init, TurnInv, Backing, TurnsAreBacked, Recording
<1>2. TurnInv /\ [Next]_vars => TurnInv'
  BY TurnStep
<1>3. TurnInv => TurnsAreBacked
  BY DEF TurnInv
<1> QED
  BY <1>1, <1>2, <1>3, PTL DEF Spec

(***************************************************************************)
(* Sequences: a least number, induction, and what a concatenation holds.   *)
(***************************************************************************)
\* A non-empty set of numbers has a least one.
LEMMA LeastNumber ==
  \A T \in SUBSET Nat : T # {} => \E m \in T : \A k \in T : m <= k
<1> SUFFICES ASSUME NEW T \in SUBSET Nat, T # {}
             PROVE  \E m \in T : \A k \in T : m <= k
  OBVIOUS
<1> DEFINE U == {0..k : k \in T}
<1>1. U \subseteq FiniteSubsetsOf(Nat) /\ U # {}
  <2>1. ASSUME NEW k \in T PROVE 0..k \in FiniteSubsetsOf(Nat)
    <3>1. IsFiniteSet(0..k)
      BY FS_Interval
    <3> QED
      BY <3>1 DEF FiniteSubsetsOf
  <2> QED
    BY <2>1
<1>2. \E x \in U : \A y \in U : ~(<<y, x>> \in StrictSubsetOrdering(Nat))
  BY <1>1, WFMin, FS_StrictSubsetOrderingWellFounded, Zenon
<1>3. PICK m \in T : \A k \in T : <<0..k, 0..m>> \notin StrictSubsetOrdering(Nat)
  BY <1>2
<1>4. ASSUME NEW k \in T PROVE m <= k
  <2>1. CASE k < m
    <3>1. 0..k \subseteq 0..m /\ m \in 0..m /\ m \notin 0..k
      BY <2>1
    <3>2. 0..k \in SUBSET Nat /\ 0..m \in SUBSET Nat /\ 0..k # 0..m
      BY <3>1
    <3> QED
      BY <1>3, <3>1, <3>2 DEF StrictSubsetOrdering
  <2> QED
    BY <2>1
<1> QED
  BY <1>4

\* What is true of 0 and passes from each number to the next is true up to n.
LEMMA UpTo ==
  ASSUME NEW n \in Nat, NEW T, 0 \in T, \A k \in 0..n : k < n /\ k \in T => k + 1 \in T
  PROVE  \A k \in 0..n : k \in T
<1> DEFINE U == {k \in 0..n : k \notin T}
<1> SUFFICES ASSUME U # {} PROVE FALSE
  OBVIOUS
<1>1. PICK m \in U : \A k \in U : m <= k
  <2>1. U \in SUBSET Nat
    OBVIOUS
  <2> HIDE DEF U
  <2> QED
    BY <2>1, LeastNumber
<1>2. m # 0 /\ m - 1 \in 0..n /\ m - 1 < n
  BY <1>1
<1>3. m - 1 \in T
  BY <1>1, <1>2
<1>4. m - 1 + 1 = m
  BY <1>1
<1>5. m \in T
  BY <1>2, <1>3, <1>4
<1> QED
  BY <1>1, <1>5

\* What Gates!FlattenSeq computes, from the first sequence on.
IsFlattening(f, seqs, n) ==
  f = [i \in 1..n |-> IF i = 1 THEN seqs[i] ELSE f[i - 1] \o seqs[i]]

LEMMA Flattens ==
  ASSUME NEW S, NEW seqs \in Seq(Seq(S))
  PROVE  \E f \in [1..Len(seqs) -> Seq(S)] : IsFlattening(f, seqs, Len(seqs))
<1> DEFINE T == {k \in Nat : k <= Len(seqs) =>
                    \E f \in [1..k -> Seq(S)] : IsFlattening(f, seqs, k)}
<1>1. 0 \in T
  <2> DEFINE f == [i \in 1..0 |-> <<>>]
  <2>1. f \in [1..0 -> Seq(S)] /\ IsFlattening(f, seqs, 0)
    BY DEF IsFlattening
  <2> QED
    BY <2>1
<1>2. ASSUME NEW k \in 0..Len(seqs), k < Len(seqs), k \in T
      PROVE  k + 1 \in T
  <2>1. PICK f \in [1..k -> Seq(S)] : IsFlattening(f, seqs, k)
    BY <1>2
  <2> DEFINE e == IF k = 0 THEN seqs[1] ELSE f[k] \o seqs[k + 1]
             g == [i \in 1..(k + 1) |-> IF i = k + 1 THEN e ELSE f[i]]
  <2>2. seqs[k + 1] \in Seq(S) /\ seqs[1] \in Seq(S)
    BY <1>2
  <2>3. e \in Seq(S)
    <3>1. CASE k = 0
      BY <2>2, <3>1
    <3>2. CASE k # 0
      <4>1. f[k] \in Seq(S)
        BY <1>2, <3>2
      <4> QED
        BY <2>2, <3>2, <4>1, ConcatProperties
    <3> QED
      BY <3>1, <3>2
  <2>4. \A i \in 1..k : f[i] = IF i = 1 THEN seqs[i] ELSE f[i - 1] \o seqs[i]
    BY <2>1 DEF IsFlattening
  <2> HIDE DEF e
  <2>5. g \in [1..(k + 1) -> Seq(S)]
    BY <1>2, <2>3
  <2>6. \A i \in 1..(k + 1) : g[i] = IF i = 1 THEN seqs[i] ELSE g[i - 1] \o seqs[i]
    <3> SUFFICES ASSUME NEW i \in 1..(k + 1)
                 PROVE  g[i] = IF i = 1 THEN seqs[i] ELSE g[i - 1] \o seqs[i]
      OBVIOUS
    <3>1. CASE i = k + 1
      <4>1. CASE k = 0
        BY <3>1, <4>1 DEF e
      <4>2. CASE k # 0
        <5>1. g[i] = e /\ i # 1
          BY <1>2, <3>1, <4>2
        <5>2. g[i - 1] = f[k] /\ i - 1 = k
          BY <1>2, <3>1, <4>2
        <5>3. e = f[k] \o seqs[k + 1]
          BY <4>2 DEF e
        <5> HIDE DEF g
        <5> QED
          BY <3>1, <5>1, <5>2, <5>3
      <4> QED
        BY <4>1, <4>2
    <3>2. CASE i # k + 1
      <4>1. i \in 1..k /\ g[i] = f[i]
        BY <1>2, <3>2
      <4>2. CASE i = 1
        BY <2>4, <4>1, <4>2
      <4>3. CASE i # 1
        <5>1. g[i - 1] = f[i - 1]
          BY <1>2, <4>1, <4>3
        <5> QED
          BY <2>4, <4>1, <4>3, <5>1
      <4> QED
        BY <4>2, <4>3
    <3> QED
      BY <3>1, <3>2
  <2>7. IsFlattening(g, seqs, k + 1)
    <3>1. g = [i \in 1..(k + 1) |-> g[i]]
      BY <2>5
    <3> HIDE DEF g
    <3> QED
      BY <2>6, <3>1 DEF IsFlattening
  <2> HIDE DEF g
  <2> QED
    BY <1>2, <2>5, <2>7
<1>3. Len(seqs) \in Nat
  OBVIOUS
<1> HIDE DEF T
<1>4. \A k \in 0..Len(seqs) : k \in T
  BY <1>1, <1>2, <1>3, UpTo
<1> QED
  BY <1>3, <1>4 DEF T

\* A concatenation holds what its parts hold.
LEMMA ConcatHolds ==
  ASSUME NEW S, NEW s \in Seq(S), NEW t \in Seq(S)
  PROVE  s \o t \in Seq(S) /\ Gates!Range(s \o t) = Gates!Range(s) \cup Gates!Range(t)
<1> DEFINE c == s \o t
<1>1. /\ c \in Seq(S) /\ Len(c) = Len(s) + Len(t)
      /\ \A i \in 1..(Len(s) + Len(t)) : c[i] = IF i <= Len(s) THEN s[i] ELSE t[i - Len(s)]
  BY ConcatProperties
<1>2. /\ DOMAIN c = 1..(Len(s) + Len(t)) /\ DOMAIN s = 1..Len(s) /\ DOMAIN t = 1..Len(t)
      /\ Len(s) \in Nat /\ Len(t) \in Nat
  BY <1>1
<1> HIDE DEF c
<1>3. \A x \in Gates!Range(c) : x \in Gates!Range(s) \cup Gates!Range(t)
  <2> SUFFICES ASSUME NEW i \in DOMAIN c PROVE c[i] \in Gates!Range(s) \cup Gates!Range(t)
    BY DEF Gates!Range
  <2>1. CASE i <= Len(s)
    <3>1. i \in DOMAIN s /\ c[i] = s[i]
      BY <1>1, <1>2, <2>1
    <3> QED
      BY <3>1 DEF Gates!Range
  <2>2. CASE ~(i <= Len(s))
    <3>1. i - Len(s) \in DOMAIN t /\ c[i] = t[i - Len(s)]
      BY <1>1, <1>2, <2>2
    <3> QED
      BY <3>1 DEF Gates!Range
  <2> QED
    BY <2>1, <2>2
<1>4. \A x \in Gates!Range(s) : x \in Gates!Range(c)
  <2> SUFFICES ASSUME NEW i \in 1..Len(s) PROVE s[i] \in Gates!Range(c)
    BY <1>2 DEF Gates!Range
  <2>1. i \in DOMAIN c /\ c[i] = s[i]
    BY <1>1, <1>2
  <2> QED
    BY <2>1 DEF Gates!Range
<1>5. \A x \in Gates!Range(t) : x \in Gates!Range(c)
  <2> SUFFICES ASSUME NEW i \in 1..Len(t) PROVE t[i] \in Gates!Range(c)
    BY <1>2 DEF Gates!Range
  <2>1. Len(s) + i \in DOMAIN c /\ c[Len(s) + i] = t[i]
    BY <1>1, <1>2
  <2> QED
    BY <2>1 DEF Gates!Range
<1> QED
  BY <1>1, <1>3, <1>4, <1>5 DEF c

LEMMA FlattenProperties ==
  ASSUME NEW S, NEW seqs \in Seq(Seq(S))
  PROVE  /\ Gates!FlattenSeq(seqs) \in Seq(S)
         /\ Gates!Range(Gates!FlattenSeq(seqs)) = UNION {Gates!Range(seqs[i]) : i \in DOMAIN seqs}
<1>1. CASE Len(seqs) = 0
  <2>1. seqs = <<>> /\ Gates!FlattenSeq(seqs) = seqs
    BY <1>1 DEF Gates!FlattenSeq
  <2>2. DOMAIN seqs = {} /\ DOMAIN Gates!FlattenSeq(seqs) = {}
    BY <2>1
  <2>3. Gates!Range(Gates!FlattenSeq(seqs)) = {}
    BY <2>2 DEF Gates!Range
  <2> QED
    <3>1. UNION {Gates!Range(seqs[i]) : i \in DOMAIN seqs} = {}
      BY <2>2
    <3>2. <<>> \in Seq(S)
      OBVIOUS
    <3> QED
      BY <2>1, <2>3, <3>1, <3>2, Zenon
<1>2. CASE Len(seqs) # 0
  <2> DEFINE n == Len(seqs)
             flat == CHOOSE f : IsFlattening(f, seqs, n)
  <2>1. n \in Nat \ {0} /\ DOMAIN seqs = 1..n
    BY <1>2
  <2>2. Gates!FlattenSeq(seqs) = flat[n]
    BY <1>2 DEF Gates!FlattenSeq, IsFlattening
  <2>3. IsFlattening(flat, seqs, n)
    <3>1. \E f : IsFlattening(f, seqs, n)
      BY Flattens
    <3> QED
      BY <3>1, Zenon
  <2> HIDE DEF flat
  <2>4. \A i \in 1..n : flat[i] = IF i = 1 THEN seqs[i] ELSE flat[i - 1] \o seqs[i]
    BY <2>3 DEF IsFlattening
  <2> DEFINE Sound(k) == /\ flat[k] \in Seq(S)
                         /\ Gates!Range(flat[k]) = UNION {Gates!Range(seqs[i]) : i \in 1..k}
             T == {k \in Nat : k \in 1..n => Sound(k)}
  <2>5. \A k \in 1..n : Sound(k)
    <3>1. 0 \in T
      OBVIOUS
    <3>2. ASSUME NEW k \in 0..n, k < n, k \in T
          PROVE  k + 1 \in T
      <4>1. seqs[k + 1] \in Seq(S) /\ k + 1 \in 1..n
        BY <2>1, <3>2
      <4>2. CASE k = 0
        <5>1. flat[1] = seqs[1]
          BY <2>1, <2>4
        <5>2. UNION {Gates!Range(seqs[i]) : i \in 1..1} = Gates!Range(seqs[1])
          OBVIOUS
        <5> QED
          BY <4>1, <4>2, <5>1, <5>2
      <4>3. CASE k # 0
        <5>1. k \in 1..n /\ Sound(k)
          BY <3>2, <4>3
        <5>2. flat[k + 1] = flat[k] \o seqs[k + 1]
          <6>1. k + 1 # 1 /\ (k + 1) - 1 = k
            BY <4>3, <3>2
          <6> DEFINE Step(i) == flat[i] = flat[i - 1] \o seqs[i]
          <6>2. \A i \in 1..n : i # 1 => Step(i)
            BY <2>4
          <6> HIDE DEF Step, n
          <6>3. Step(k + 1)
            BY <4>1, <6>1, <6>2
          <6> QED
            BY <6>1, <6>3 DEF Step
        <5>3. /\ flat[k + 1] \in Seq(S)
              /\ Gates!Range(flat[k + 1]) = Gates!Range(flat[k]) \cup Gates!Range(seqs[k + 1])
          BY <4>1, <5>1, <5>2, ConcatHolds
        <5>4. UNION {Gates!Range(seqs[i]) : i \in 1..(k + 1)}
                = (UNION {Gates!Range(seqs[i]) : i \in 1..k}) \cup Gates!Range(seqs[k + 1])
          <6>1. 1..(k + 1) = 1..k \cup {k + 1}
            BY <5>1
          <6> QED
            BY <6>1
        <5> HIDE DEF n
        <5>5. Sound(k + 1)
          BY <5>1, <5>3, <5>4
        <5> HIDE DEF Sound
        <5> QED
          BY <3>2, <5>5
      <4> QED
        BY <4>2, <4>3
    <3> HIDE DEF T, Sound, n
    <3>3. \A k \in 0..n : k \in T
      BY <2>1, <3>1, <3>2, UpTo
    <3> QED
      BY <2>1, <3>3 DEF T
  <2>6. Sound(n)
    <3> HIDE DEF n, Sound
    <3> QED
      BY <2>1, <2>5
  <2> QED
    BY <2>1, <2>2, <2>6
<1> QED
  BY <1>1, <1>2


(***************************************************************************)
(* The gates (GateRules), of inputs of any size over any names.            *)
(***************************************************************************)
Steps == {"intake", "blueprint", "crates", "couple", "test", "launch"}
SourceRecords(N) == [stub : BOOLEAN, broad : BOOLEAN, markers : SUBSET N]
CrateRecords(N) ==
  [name : N, sources : Seq(SourceRecords(N)), check : Gates!CommandRecords,
   test : Gates!CommandRecords]
ContractRecords(N) == [id : N, producer : N, consumers : SUBSET N]
BlueprintRecords(N) ==
  [given : BOOLEAN, version : Nat, crates : Seq(N), order : Seq(N), edges : SUBSET (N \X N),
   contracts : Seq(ContractRecords(N)), coupling : Seq(N), review : Gates!ReviewRecords(N)]
ArtifactRecords(N) == [path : N, hex : BOOLEAN, recomputes : BOOLEAN, role : N]
GateRecords(N) ==
  [step : Steps, artifacts : SUBSET ArtifactRecords(N), crates : Seq(CrateRecords(N)),
   wirings : Seq(Gates!WiringRecords(N, N)), cases : Seq(Gates!CaseRecords(N)),
   markers : SUBSET N, debt : SUBSET N,
   requirements : [given : BOOLEAN, fields : BOOLEAN, done : Seq(N)],
   blueprint : BlueprintRecords(N),
   commands : [1..3 -> Gates!CommandRecords \cup {"absent"}],
   review : Gates!ReviewRecords(N),
   launch : Gates!LaunchRecords(Gates!TripRecords(SUBSET N, N))]

\* What a check comes to.
Results ==
  {"pass", "bounded_mechanical", "blueprint_amendment", "architectural_violation",
   "unbounded_ownership", "adversarial_failure", "evidence_invalid", "compile_errors",
   "compile_warnings", "stub_detected", "couple_debt", "functional_failure",
   "launch_proof_missing", "runtime_panic"}

Passing(checks) == \A i \in DOMAIN checks : checks[i] = "pass"

LEMMA PassesByRange == \A checks : Passing(checks) <=> Gates!Range(checks) \subseteq {"pass"}
BY DEF Passing, Gates!Range

\* A gate passes when all of its checks do.
LEMMA OutcomePasses ==
  ASSUME NEW checks \in Seq(Results)
  PROVE  Gates!Outcome(checks) = "pass" <=> Passing(checks)
<1> DEFINE failed == {i \in DOMAIN checks : checks[i] # "pass"}
           first == CHOOSE i \in failed : \A j \in failed : i <= j
<1>1. failed = {} <=> Passing(checks)
  BY DEF Passing
<1>2. Gates!Outcome(checks) = IF failed = {} THEN "pass" ELSE checks[first]
  BY Zenon DEF Gates!Outcome
<1>3. CASE failed # {}
  <2>1. failed \in SUBSET Nat
    OBVIOUS
  <2>2. \A i \in failed : checks[i] # "pass"
    OBVIOUS
  <2> HIDE DEF failed
  <2>3. \E i \in failed : \A j \in failed : i <= j
    BY <1>3, <2>1, LeastNumber
  <2>4. first \in failed
    BY <2>3, Zenon
  <2> QED
    BY <1>1, <1>2, <1>3, <2>2, <2>4, Zenon
<1> QED
  BY <1>1, <1>2, <1>3, Zenon

LEMMA ConcatPasses ==
  ASSUME NEW s \in Seq(Results), NEW t \in Seq(Results)
  PROVE  s \o t \in Seq(Results) /\ (Passing(s \o t) <=> Passing(s) /\ Passing(t))
<1>1. s \o t \in Seq(Results) /\ Gates!Range(s \o t) = Gates!Range(s) \cup Gates!Range(t)
  BY ConcatHolds
<1> QED
  BY <1>1, PassesByRange

LEMMA FlattenPasses ==
  ASSUME NEW seqs \in Seq(Seq(Results))
  PROVE  /\ Gates!FlattenSeq(seqs) \in Seq(Results)
         /\ Passing(Gates!FlattenSeq(seqs)) => \A i \in DOMAIN seqs : Passing(seqs[i])
<1>1. /\ Gates!FlattenSeq(seqs) \in Seq(Results)
      /\ Gates!Range(Gates!FlattenSeq(seqs)) = UNION {Gates!Range(seqs[i]) : i \in DOMAIN seqs}
  BY FlattenProperties
<1>2. ASSUME NEW i \in DOMAIN seqs
      PROVE  Gates!Range(seqs[i]) \subseteq Gates!Range(Gates!FlattenSeq(seqs))
  BY <1>1
<1> QED
  BY <1>1, <1>2, PassesByRange, Zenon

\* Lists of one to three checks.
LEMMA OnePass ==
  ASSUME NEW a1 \in Results
  PROVE  /\ << a1 >> \in Seq(Results)
         /\ Passing(<< a1 >>) <=>
              /\ a1 = "pass"
<1> DEFINE s == << a1 >>
<1>1. s \in Seq(Results) /\ DOMAIN s = {1}
  OBVIOUS
<1>2. /\ s[1] = a1
  OBVIOUS
<1> HIDE DEF s
<1>3. Passing(s) <=>
        /\ a1 = "pass"
  BY <1>1, <1>2 DEF Passing
<1> QED
  BY <1>1, <1>3 DEF s

LEMMA TwoPass ==
  ASSUME NEW a1 \in Results, NEW a2 \in Results
  PROVE  /\ << a1, a2 >> \in Seq(Results)
         /\ Passing(<< a1, a2 >>) <=>
              /\ a1 = "pass" /\ a2 = "pass"
<1> DEFINE s == << a1, a2 >>
<1>1. s \in Seq(Results) /\ DOMAIN s = {1, 2}
  OBVIOUS
<1>2. /\ s[1] = a1 /\ s[2] = a2
  OBVIOUS
<1> HIDE DEF s
<1>3. Passing(s) <=>
        /\ a1 = "pass" /\ a2 = "pass"
  BY <1>1, <1>2 DEF Passing
<1> QED
  BY <1>1, <1>3 DEF s

LEMMA ThreePass ==
  ASSUME NEW a1 \in Results, NEW a2 \in Results, NEW a3 \in Results
  PROVE  /\ << a1, a2, a3 >> \in Seq(Results)
         /\ Passing(<< a1, a2, a3 >>) <=>
              /\ a1 = "pass" /\ a2 = "pass" /\ a3 = "pass"
<1> DEFINE s == << a1, a2, a3 >>
<1>1. s \in Seq(Results) /\ DOMAIN s = {1, 2, 3}
  OBVIOUS
<1>2. /\ s[1] = a1 /\ s[2] = a2 /\ s[3] = a3
  OBVIOUS
<1> HIDE DEF s
<1>3. Passing(s) <=>
        /\ a1 = "pass" /\ a2 = "pass" /\ a3 = "pass"
  BY <1>1, <1>2 DEF Passing
<1> QED
  BY <1>1, <1>3 DEF s

LEMMA SameCardinality == \A S : Gates!Cardinality(S) = Cardinality(S)
<1>1. \A S : Gates!IsFiniteSet(S) <=> IsFiniteSet(S)
  BY Zenon DEF Gates!IsFiniteSet, IsFiniteSet
<1> QED
  BY <1>1, Zenon DEF Gates!Cardinality, Cardinality


\* What the blueprint's checks show.
LEMMA BlueprintPasses ==
  ASSUME NEW b
  PROVE  /\ Gates!BlueprintChecks(b) \in Seq(Results)
         /\ Passing(Gates!BlueprintChecks(b)) =>
              /\ Gates!OrderHolds(b) /\ \A e \in b.edges : Gates!EdgeHolds(b, e)
              /\ Gates!Cardinality(Gates!Ids(b)) = Len(b.contracts)
              /\ Len(b.coupling) = Gates!Cardinality(Gates!Ids(b))
              /\ Gates!Range(b.coupling) = Gates!Ids(b)
<1> DEFINE c1 == Gates!Check(b.version # 0 /\ b.crates # <<>>, "blueprint_amendment")
           c2 == Gates!Check(Gates!Distinct(b.crates) /\ Blank \notin Gates!Range(b.crates),
                             "unbounded_ownership")
           c3 == Gates!Check(Gates!OrderHolds(b), "architectural_violation")
           c4 == Gates!Check(\A e \in b.edges : Gates!EdgeHolds(b, e), "architectural_violation")
           c5 == Gates!Check(b.contracts # <<>>, "blueprint_amendment")
           c6 == Gates!Check(Gates!Cardinality(Gates!Ids(b)) = Len(b.contracts)
                               /\ \A c \in Gates!Range(b.contracts) : Gates!ContractHolds(b, c),
                             "architectural_violation")
           c7 == Gates!Check(Len(b.coupling) = Gates!Cardinality(Gates!Ids(b))
                               /\ Gates!Range(b.coupling) = Gates!Ids(b), "architectural_violation")
           c8 == Gates!Check(Gates!ReviewHolds(b.review), "adversarial_failure")
<1>1. /\ c1 \in Results /\ c2 \in Results /\ c3 \in Results /\ c4 \in Results
      /\ c5 \in Results /\ c6 \in Results /\ c7 \in Results /\ c8 \in Results
  BY Zenon DEF Gates!Check, Results
<1>2. /\ c3 = "pass" => Gates!OrderHolds(b)
      /\ c4 = "pass" => \A e \in b.edges : Gates!EdgeHolds(b, e)
      /\ c6 = "pass" => Gates!Cardinality(Gates!Ids(b)) = Len(b.contracts)
      /\ c7 = "pass" => Len(b.coupling) = Gates!Cardinality(Gates!Ids(b))
                          /\ Gates!Range(b.coupling) = Gates!Ids(b)
  BY Zenon DEF Gates!Check
<1>3. Gates!BlueprintChecks(b) = << c1, c2, c3, c4, c5, c6, c7, c8 >>
  BY Zenon DEF Gates!BlueprintChecks
<1> HIDE DEF c1, c2, c3, c4, c5, c6, c7, c8
<1>4. /\ << c1, c2, c3, c4, c5, c6, c7, c8 >> \in Seq(Results)
      /\ Passing(<< c1, c2, c3, c4, c5, c6, c7, c8 >>) =>
           c3 = "pass" /\ c4 = "pass" /\ c6 = "pass" /\ c7 = "pass"
  <2> DEFINE s == << c1, c2, c3, c4, c5, c6, c7, c8 >>
  <2>1. /\ s \in Seq(Results) /\ DOMAIN s = 1..8
        /\ s[3] = c3 /\ s[4] = c4 /\ s[6] = c6 /\ s[7] = c7
    BY <1>1
  <2> HIDE DEF s
  <2>2. Passing(s) => c3 = "pass" /\ c4 = "pass" /\ c6 = "pass" /\ c7 = "pass"
    BY <2>1 DEF Passing
  <2> QED
    BY <2>1, <2>2 DEF s
<1> QED
  BY <1>2, <1>3, <1>4, Zenon

LEMMA RequirementsType ==
  ASSUME NEW r
  PROVE  Gates!RequirementsChecks(r) \in Seq(Results)
<1> DEFINE c1 == Gates!Check(r.given /\ r.fields, "bounded_mechanical")
           c2 == Gates!Check(r.done # <<>> /\ Blank \notin Gates!Range(r.done), "bounded_mechanical")
<1>1. c1 \in Results /\ c2 \in Results
  BY Zenon DEF Gates!Check, Results
<1>2. Gates!RequirementsChecks(r) = << c1, c2 >>
  BY Zenon DEF Gates!RequirementsChecks
<1> HIDE DEF c1, c2
<1> QED
  BY <1>1, <1>2, TwoPass, Zenon

LEMMA CommandsType ==
  ASSUME NEW c
  PROVE  Gates!CommandChecks(c) \in Seq(Results)
<1> DEFINE c1 == Gates!Check(c # "narrative", "evidence_invalid")
           c2 == Gates!Check(c # "failed", "compile_errors")
           c3 == Gates!Check(c # "warned", "compile_warnings")
<1>1. c1 \in Results /\ c2 \in Results /\ c3 \in Results
  BY Zenon DEF Gates!Check, Results
<1>2. Gates!CommandChecks(c) = << c1, c2, c3 >>
  BY Zenon DEF Gates!CommandChecks
<1> HIDE DEF c1, c2, c3
<1> QED
  BY <1>1, <1>2, ThreePass, Zenon

\* A gate that takes no markers passes no source with one.
LEMMA SourcesPass ==
  ASSUME NEW N, NEW sources \in Seq(SourceRecords(N)), NEW allowed \in BOOLEAN
  PROVE  /\ Gates!SourceChecks(sources, allowed) \in Seq(Results)
         /\ Passing(Gates!SourceChecks(sources, allowed)) /\ ~allowed =>
              Gates!MarkersOf(sources) = {}
<1> DEFINE two(i) == << Gates!Check(~sources[i].stub, "stub_detected"),
                        Gates!Check(~sources[i].broad, "compile_warnings") >>
           each == [i \in DOMAIN sources |-> two(i)]
           c == Gates!Check(allowed \/ \A s \in Gates!Range(sources) : s.markers = {},
                            "compile_warnings")
<1>1. Gates!SourceChecks(sources, allowed) = Gates!FlattenSeq(each) \o << c >>
  BY Zenon DEF Gates!SourceChecks
<1>2. each \in Seq(Seq(Results))
  <2>1. ASSUME NEW i \in DOMAIN sources PROVE two(i) \in Seq(Results)
    <3>1. /\ Gates!Check(~sources[i].stub, "stub_detected") \in Results
          /\ Gates!Check(~sources[i].broad, "compile_warnings") \in Results
      BY Zenon DEF Gates!Check, Results
    <3> QED
      BY <3>1, TwoPass, Zenon
  <2>2. DOMAIN sources = 1..Len(sources) /\ Len(sources) \in Nat
    OBVIOUS
  <2> HIDE DEF two
  <2> QED
    BY <2>1, <2>2
<1>3. c \in Results /\ (c = "pass" /\ ~allowed => \A s \in Gates!Range(sources) : s.markers = {})
  BY Zenon DEF Gates!Check, Results
<1> HIDE DEF each, c
<1>4. /\ << c >> \in Seq(Results) /\ (Passing(<< c >>) <=> c = "pass")
  BY <1>3, OnePass, Zenon
<1>5. /\ Gates!FlattenSeq(each) \o << c >> \in Seq(Results)
      /\ Passing(Gates!FlattenSeq(each) \o << c >>) => Passing(<< c >>)
  BY <1>2, <1>4, FlattenPasses, ConcatPasses, Zenon
<1>6. (\A s \in Gates!Range(sources) : s.markers = {}) => Gates!MarkersOf(sources) = {}
  BY DEF Gates!MarkersOf
<1> QED
  BY <1>1, <1>3, <1>4, <1>5, <1>6, Zenon

\* One list for each of some elements.
LEMMA EachPasses ==
  ASSUME NEW n \in Nat, NEW s, s = [i \in 1..n |-> s[i]], \A i \in 1..n : s[i] \in Seq(Results)
  PROVE  /\ Gates!FlattenSeq(s) \in Seq(Results)
         /\ Passing(Gates!FlattenSeq(s)) => \A i \in 1..n : Passing(s[i])
<1>1. s \in Seq(Seq(Results)) /\ DOMAIN s = 1..n
  OBVIOUS
<1> QED
  BY <1>1, FlattenPasses, Zenon

LEMMA SourcesOfType ==
  ASSUME NEW N, NEW in \in GateRecords(N)
  PROVE  Gates!SourcesOf(in) \in Seq(SourceRecords(N))
<1> DEFINE each == [i \in DOMAIN in.crates |-> in.crates[i].sources]
<1>1. in.crates \in Seq(CrateRecords(N))
  BY DEF GateRecords
<1>2. ASSUME NEW i \in DOMAIN in.crates
      PROVE  in.crates[i].sources \in Seq(SourceRecords(N))
  <2>1. in.crates[i] \in CrateRecords(N)
    BY <1>1
  <2> QED
    BY <2>1 DEF CrateRecords
<1>3. each \in Seq(Seq(SourceRecords(N)))
  BY <1>1, <1>2
<1> HIDE DEF each
<1>4. Gates!FlattenSeq(each) \in Seq(SourceRecords(N))
  BY <1>3, FlattenProperties, Zenon
<1> QED
  BY <1>4, Zenon DEF Gates!SourcesOf, each


LEMMA RequiredPasses ==
  ASSUME NEW in
  PROVE  /\ Gates!RequiredBlueprint(in) \in Seq(Results)
         /\ Passing(Gates!RequiredBlueprint(in)) => Passing(Gates!BlueprintChecks(in.blueprint))
<1> DEFINE c == Gates!Check(in.blueprint.given, "architectural_violation")
           d == Gates!BlueprintChecks(in.blueprint)
<1>1. c \in Results
  BY Zenon DEF Gates!Check, Results
<1>2. Gates!RequiredBlueprint(in) = << c >> \o d
  BY Zenon DEF Gates!RequiredBlueprint
<1>3. d \in Seq(Results)
  BY BlueprintPasses, Zenon
<1> HIDE DEF c, d
<1>4. << c >> \in Seq(Results)
  BY <1>1, OnePass, Zenon
<1>5. << c >> \o d \in Seq(Results) /\ (Passing(<< c >> \o d) => Passing(d))
  BY <1>3, <1>4, ConcatPasses, Zenon
<1> QED
  BY <1>2, <1>5, Zenon DEF d

LEMMA IntakeType ==
  ASSUME NEW in
  PROVE  Gates!IntakeChecks(in) \in Seq(Results)
<1> DEFINE c == Gates!Check(~in.blueprint.given /\ in.crates = <<>> /\ in.wirings = <<>>,
                            "architectural_violation")
           d == Gates!RequirementsChecks(in.requirements)
<1>1. c \in Results
  BY Zenon DEF Gates!Check, Results
<1>2. Gates!IntakeChecks(in) = d \o << c >>
  BY Zenon DEF Gates!IntakeChecks
<1>3. d \in Seq(Results)
  BY RequirementsType, Zenon
<1> HIDE DEF c, d
<1>4. << c >> \in Seq(Results)
  BY <1>1, OnePass, Zenon
<1> QED
  BY <1>2, <1>3, <1>4, ConcatPasses, Zenon

LEMMA BlueprintGatePasses ==
  ASSUME NEW in
  PROVE  /\ Gates!BlueprintGateChecks(in) \in Seq(Results)
         /\ Passing(Gates!BlueprintGateChecks(in)) => Passing(Gates!BlueprintChecks(in.blueprint))
<1> DEFINE c == Gates!Check(in.requirements.given, "blueprint_amendment")
           r == Gates!RequirementsChecks(in.requirements)
           g == Gates!Check(in.blueprint.given, "blueprint_amendment")
           d == Gates!BlueprintChecks(in.blueprint)
<1>1. c \in Results /\ g \in Results
  BY Zenon DEF Gates!Check, Results
<1>2. Gates!BlueprintGateChecks(in) = << c >> \o r \o << g >> \o d
  BY Zenon DEF Gates!BlueprintGateChecks
<1>3. r \in Seq(Results) /\ d \in Seq(Results)
  BY RequirementsType, BlueprintPasses, Zenon
<1> HIDE DEF c, r, g, d
<1>4. << c >> \in Seq(Results) /\ << g >> \in Seq(Results)
  BY <1>1, OnePass, Zenon
<1>5. << c >> \o r \in Seq(Results)
  BY <1>3, <1>4, ConcatPasses, Zenon
<1>6. << c >> \o r \o << g >> \in Seq(Results)
  BY <1>4, <1>5, ConcatPasses, Zenon
<1>7. /\ << c >> \o r \o << g >> \o d \in Seq(Results)
      /\ Passing(<< c >> \o r \o << g >> \o d) => Passing(d)
  BY <1>3, <1>6, ConcatPasses, Zenon
<1> QED
  BY <1>2, <1>7, Zenon DEF d

LEMMA CratesType ==
  ASSUME NEW N, NEW k \in CrateRecords(N)
  PROVE  Gates!CrateChecks(k) \in Seq(Results)
<1> DEFINE c == Gates!Check(k.sources # <<>>, "unbounded_ownership")
           s == Gates!SourceChecks(k.sources, TRUE)
           d == Gates!CommandChecks(k.check)
           t == Gates!CommandChecks(k.test)
<1>1. c \in Results
  BY Zenon DEF Gates!Check, Results
<1>2. Gates!CrateChecks(k) = << c >> \o s \o d \o t
  BY Zenon DEF Gates!CrateChecks
<1>3. s \in Seq(Results)
  <2>1. k.sources \in Seq(SourceRecords(N)) /\ TRUE \in BOOLEAN
    BY DEF CrateRecords
  <2> QED
    BY <2>1, SourcesPass, Zenon
<1>4. d \in Seq(Results) /\ t \in Seq(Results)
  BY CommandsType, Zenon
<1> HIDE DEF c, s, d, t
<1>5. << c >> \in Seq(Results)
  BY <1>1, OnePass, Zenon
<1>6. << c >> \o s \in Seq(Results)
  BY <1>3, <1>5, ConcatPasses, Zenon
<1>7. << c >> \o s \o d \in Seq(Results)
  BY <1>4, <1>6, ConcatPasses, Zenon
<1> QED
  BY <1>2, <1>4, <1>7, ConcatPasses, Zenon

LEMMA CrateBuildPasses ==
  ASSUME NEW N, NEW in \in GateRecords(N)
  PROVE  /\ Gates!CrateBuildChecks(in) \in Seq(Results)
         /\ Passing(Gates!CrateBuildChecks(in)) =>
              /\ Passing(Gates!BlueprintChecks(in.blueprint))
              /\ Gates!MarkersOf(Gates!SourcesOf(in)) = in.markers
<1> DEFINE r == Gates!RequiredBlueprint(in)
           c1 == Gates!Check([i \in DOMAIN in.crates |-> in.crates[i].name] = in.blueprint.order,
                             "architectural_violation")
           c2 == Gates!Check(in.wirings = <<>>, "architectural_violation")
           each == [i \in DOMAIN in.crates |-> Gates!CrateChecks(in.crates[i])]
           f == Gates!FlattenSeq(each)
           m == Gates!Check(Gates!MarkersOf(Gates!SourcesOf(in)) = in.markers, "couple_debt")
<1>1. /\ c1 \in Results /\ c2 \in Results /\ m \in Results
      /\ m = "pass" => Gates!MarkersOf(Gates!SourcesOf(in)) = in.markers
  BY Zenon DEF Gates!Check, Results
<1>2. Gates!CrateBuildChecks(in) = r \o << c1, c2 >> \o f \o << m >>
  BY Zenon DEF Gates!CrateBuildChecks
<1>3. r \in Seq(Results) /\ (Passing(r) => Passing(Gates!BlueprintChecks(in.blueprint)))
  BY RequiredPasses, Zenon
<1>4. f \in Seq(Results)
  <2>1. in.crates \in Seq(CrateRecords(N))
    BY DEF GateRecords
  <2>2. \A i \in DOMAIN in.crates : Gates!CrateChecks(in.crates[i]) \in Seq(Results)
    <3>1. \A i \in DOMAIN in.crates : in.crates[i] \in CrateRecords(N)
      BY <2>1
    <3> QED
      BY <3>1, CratesType, Zenon
  <2>3. each \in Seq(Seq(Results))
    BY <2>1, <2>2
  <2> HIDE DEF each
  <2> QED
    BY <2>3, FlattenPasses, Zenon
<1> HIDE DEF r, c1, c2, f, m
<1>5. /\ << c1, c2 >> \in Seq(Results) /\ << m >> \in Seq(Results)
      /\ Passing(<< m >>) => m = "pass"
  BY <1>1, OnePass, TwoPass, Zenon
<1>6. r \o << c1, c2 >> \in Seq(Results) /\ (Passing(r \o << c1, c2 >>) => Passing(r))
  BY <1>3, <1>5, ConcatPasses, Zenon
<1>7. /\ r \o << c1, c2 >> \o f \in Seq(Results)
      /\ Passing(r \o << c1, c2 >> \o f) => Passing(r)
  BY <1>4, <1>6, ConcatPasses, Zenon
<1>8. /\ r \o << c1, c2 >> \o f \o << m >> \in Seq(Results)
      /\ Passing(r \o << c1, c2 >> \o f \o << m >>) => Passing(r) /\ Passing(<< m >>)
  BY <1>5, <1>7, ConcatPasses, Zenon
<1> QED
  BY <1>1, <1>2, <1>3, <1>5, <1>8, Zenon

\* What the checks of a wiring show.
LEMMA WiringPasses ==
  ASSUME NEW in, NEW i
  PROVE  /\ Gates!WiringChecks(in, i) \in Seq(Results)
         /\ Passing(Gates!WiringChecks(in, i)) =>
              /\ in.wirings[i].contract = in.blueprint.coupling[i]
              /\ in.blueprint.coupling[i] \in Gates!Ids(in.blueprint) =>
                   /\ in.wirings[i].producer
                        = Gates!Contract(in.blueprint, in.blueprint.coupling[i]).producer
                   /\ in.wirings[i].consumer
                        \in Gates!Contract(in.blueprint, in.blueprint.coupling[i]).consumers
              /\ ~in.wirings[i].direct
              /\ in.wirings[i].status = "pass" => in.wirings[i].observed
              /\ in.wirings[i].status # "fail"
<1> DEFINE w == in.wirings[i]
           id == in.blueprint.coupling[i]
           c1 == Gates!Check(w.contract = id, "architectural_violation")
           c2 == Gates!Check(id \in Gates!Ids(in.blueprint), "architectural_violation")
           c3 == Gates!Check(id \in Gates!Ids(in.blueprint) =>
                               w.producer = Gates!Contract(in.blueprint, id).producer
                                 /\ w.consumer \in Gates!Contract(in.blueprint, id).consumers,
                             "architectural_violation")
           c4 == Gates!Check(~w.direct, "architectural_violation")
           c5 == Gates!Check(w.status = "pass" => w.observed, "functional_failure")
           c6 == Gates!Check(w.status # "fail", "functional_failure")
           c7 == Gates!Check(w.status = "deferred" => w.reason, "couple_debt")
<1>1. /\ c1 \in Results /\ c2 \in Results /\ c3 \in Results /\ c4 \in Results
      /\ c5 \in Results /\ c6 \in Results /\ c7 \in Results
  BY Zenon DEF Gates!Check, Results
<1>2. /\ c1 = "pass" => w.contract = id
      /\ c3 = "pass" =>
           (id \in Gates!Ids(in.blueprint) =>
              w.producer = Gates!Contract(in.blueprint, id).producer
                /\ w.consumer \in Gates!Contract(in.blueprint, id).consumers)
      /\ c4 = "pass" => ~w.direct
      /\ c5 = "pass" => (w.status = "pass" => w.observed)
      /\ c6 = "pass" => w.status # "fail"
  BY Zenon DEF Gates!Check
<1>3. Gates!WiringChecks(in, i) = << c1, c2, c3, c4, c5, c6, c7 >>
  BY Zenon DEF Gates!WiringChecks
<1> HIDE DEF c1, c2, c3, c4, c5, c6, c7
<1>4. /\ << c1, c2, c3, c4, c5, c6, c7 >> \in Seq(Results)
      /\ Passing(<< c1, c2, c3, c4, c5, c6, c7 >>) =>
           c1 = "pass" /\ c3 = "pass" /\ c4 = "pass" /\ c5 = "pass" /\ c6 = "pass"
  <2> DEFINE s == << c1, c2, c3, c4, c5, c6, c7 >>
  <2>1. /\ s \in Seq(Results) /\ DOMAIN s = 1..7
        /\ s[1] = c1 /\ s[3] = c3 /\ s[4] = c4 /\ s[5] = c5 /\ s[6] = c6
    BY <1>1
  <2> HIDE DEF s
  <2>2. Passing(s) => c1 = "pass" /\ c3 = "pass" /\ c4 = "pass" /\ c5 = "pass" /\ c6 = "pass"
    BY <2>1 DEF Passing
  <2> QED
    BY <2>1, <2>2 DEF s
<1> QED
  BY <1>2, <1>3, <1>4, Zenon


LEMMA CouplePasses ==
  ASSUME NEW N, NEW in \in GateRecords(N)
  PROVE  /\ Gates!CoupleChecks(in) \in Seq(Results)
         /\ Passing(Gates!CoupleChecks(in)) =>
              /\ Passing(Gates!BlueprintChecks(in.blueprint))
              /\ Gates!MarkersOf(Gates!SourcesOf(in)) = {}
              /\ Len(in.wirings) = Len(in.blueprint.coupling)
              /\ \A i \in DOMAIN in.wirings : Passing(Gates!WiringChecks(in, i))
              /\ Gates!Deferrals(in) = in.debt
<1> DEFINE b == in.blueprint
           r == Gates!RequiredBlueprint(in)
           c1 == Gates!Check(in.markers = {}, "couple_debt")
           s == Gates!SourceChecks(Gates!SourcesOf(in), FALSE)
           c2 == Gates!Check(Len(in.wirings) = Len(b.coupling), "couple_debt")
           each == [i \in DOMAIN in.wirings |-> Gates!WiringChecks(in, i)]
           f == IF Len(in.wirings) = Len(b.coupling) THEN Gates!FlattenSeq(each) ELSE <<>>
           c3 == Gates!Check(Gates!Deferrals(in) = in.debt, "couple_debt")
<1>1. /\ c1 \in Results /\ c2 \in Results /\ c3 \in Results
      /\ c2 = "pass" => Len(in.wirings) = Len(b.coupling)
      /\ c3 = "pass" => Gates!Deferrals(in) = in.debt
  BY Zenon DEF Gates!Check, Results
<1>2. Gates!CoupleChecks(in) = r \o << c1 >> \o s \o << c2 >> \o f \o << c3 >>
  BY Zenon DEF Gates!CoupleChecks
<1>3. r \in Seq(Results) /\ (Passing(r) => Passing(Gates!BlueprintChecks(in.blueprint)))
  BY RequiredPasses, Zenon
<1>4. s \in Seq(Results) /\ (Passing(s) => Gates!MarkersOf(Gates!SourcesOf(in)) = {})
  <2>1. Gates!SourcesOf(in) \in Seq(SourceRecords(N)) /\ FALSE \in BOOLEAN
    BY SourcesOfType
  <2> QED
    BY <2>1, SourcesPass, Zenon
<1>5. /\ f \in Seq(Results)
      /\ Passing(f) /\ Len(in.wirings) = Len(b.coupling) =>
           \A i \in DOMAIN in.wirings : Passing(Gates!WiringChecks(in, i))
  <2>1. in.wirings \in Seq(Gates!WiringRecords(N, N))
    BY DEF GateRecords
  <2>2. \A i \in DOMAIN in.wirings : Gates!WiringChecks(in, i) \in Seq(Results)
    BY WiringPasses, Zenon
  <2>3. /\ each \in Seq(Seq(Results)) /\ DOMAIN each = DOMAIN in.wirings
        /\ \A i \in DOMAIN in.wirings : each[i] = Gates!WiringChecks(in, i)
    BY <2>1, <2>2
  <2> HIDE DEF each
  <2>4. /\ Gates!FlattenSeq(each) \in Seq(Results)
        /\ Passing(Gates!FlattenSeq(each)) =>
             \A i \in DOMAIN in.wirings : Passing(Gates!WiringChecks(in, i))
    BY <2>3, FlattenPasses, Zenon
  <2>5. <<>> \in Seq(Results)
    OBVIOUS
  <2> QED
    BY <2>4, <2>5, Zenon
<1> HIDE DEF r, c1, s, c2, f, c3
<1>6. /\ << c1 >> \in Seq(Results) /\ << c2 >> \in Seq(Results) /\ << c3 >> \in Seq(Results)
      /\ Passing(<< c2 >>) => c2 = "pass"
      /\ Passing(<< c3 >>) => c3 = "pass"
  BY <1>1, OnePass, Zenon
<1>7. r \o << c1 >> \in Seq(Results) /\ (Passing(r \o << c1 >>) => Passing(r))
  BY <1>3, <1>6, ConcatPasses, Zenon
<1>8. /\ r \o << c1 >> \o s \in Seq(Results)
      /\ Passing(r \o << c1 >> \o s) => Passing(r) /\ Passing(s)
  BY <1>4, <1>7, ConcatPasses, Zenon
<1>9. /\ r \o << c1 >> \o s \o << c2 >> \in Seq(Results)
      /\ Passing(r \o << c1 >> \o s \o << c2 >>) =>
           Passing(r) /\ Passing(s) /\ Passing(<< c2 >>)
  BY <1>6, <1>8, ConcatPasses, Zenon
<1>10. /\ r \o << c1 >> \o s \o << c2 >> \o f \in Seq(Results)
       /\ Passing(r \o << c1 >> \o s \o << c2 >> \o f) =>
            Passing(r) /\ Passing(s) /\ Passing(<< c2 >>) /\ Passing(f)
  BY <1>5, <1>9, ConcatPasses, Zenon
<1>11. /\ r \o << c1 >> \o s \o << c2 >> \o f \o << c3 >> \in Seq(Results)
       /\ Passing(r \o << c1 >> \o s \o << c2 >> \o f \o << c3 >>) =>
            Passing(r) /\ Passing(s) /\ Passing(<< c2 >>) /\ Passing(f) /\ Passing(<< c3 >>)
  BY <1>6, <1>10, ConcatPasses, Zenon
<1> QED
  BY <1>1, <1>2, <1>3, <1>4, <1>5, <1>6, <1>11, Zenon

LEMMA BuildTestPasses ==
  ASSUME NEW N, NEW in \in GateRecords(N)
  PROVE  /\ Gates!BuildTestChecks(in) \in Seq(Results)
         /\ Passing(Gates!BuildTestChecks(in)) =>
              /\ Passing(Gates!BlueprintChecks(in.blueprint))
              /\ Gates!MarkersOf(Gates!SourcesOf(in)) = {}
<1> DEFINE r == Gates!RequiredBlueprint(in)
           d == Gates!NoDebt(in)
           s == Gates!SourceChecks(Gates!SourcesOf(in), FALSE)
           one(i) == << Gates!Check(in.commands[i] # "absent", "compile_errors") >>
                       \o Gates!CommandChecks(in.commands[i])
           each == [i \in 1..3 |-> one(i)]
           f == Gates!FlattenSeq(each)
           c1 == Gates!Check(in.requirements.given /\ Len(in.cases) >= Len(in.requirements.done)
                               /\ in.cases # <<>>, "functional_failure")
           c2 == Gates!Check(\A c \in Gates!Range(in.cases) : Gates!CaseHolds(c), "functional_failure")
           c3 == Gates!Check(Gates!ReviewHolds(in.review), "adversarial_failure")
<1>1. d \in Results /\ c1 \in Results /\ c2 \in Results /\ c3 \in Results
  BY Zenon DEF Gates!Check, Gates!NoDebt, Results
<1>2. Gates!BuildTestChecks(in) = r \o << d >> \o s \o f \o << c1, c2, c3 >>
  BY Zenon DEF Gates!BuildTestChecks
<1>3. r \in Seq(Results) /\ (Passing(r) => Passing(Gates!BlueprintChecks(in.blueprint)))
  BY RequiredPasses, Zenon
<1>4. s \in Seq(Results) /\ (Passing(s) => Gates!MarkersOf(Gates!SourcesOf(in)) = {})
  <2>1. Gates!SourcesOf(in) \in Seq(SourceRecords(N)) /\ FALSE \in BOOLEAN
    BY SourcesOfType
  <2> QED
    BY <2>1, SourcesPass, Zenon
<1>5. f \in Seq(Results)
  <2>1. ASSUME NEW i \in 1..3 PROVE one(i) \in Seq(Results)
    <3> DEFINE c == Gates!Check(in.commands[i] # "absent", "compile_errors")
    <3>1. c \in Results
      BY Zenon DEF Gates!Check, Results
    <3>2. Gates!CommandChecks(in.commands[i]) \in Seq(Results)
      BY CommandsType, Zenon
    <3> HIDE DEF c
    <3>3. << c >> \in Seq(Results)
      BY <3>1, OnePass, Zenon
    <3>4. << c >> \o Gates!CommandChecks(in.commands[i]) \in Seq(Results)
      BY <3>2, <3>3, ConcatPasses, Zenon
    <3> QED
      BY <3>4 DEF c
  <2> HIDE DEF one
  <2>2. each \in Seq(Seq(Results))
    BY <2>1
  <2> HIDE DEF each
  <2> QED
    BY <2>2, FlattenPasses, Zenon
<1> HIDE DEF r, d, s, f, c1, c2, c3
<1>6. << d >> \in Seq(Results) /\ << c1, c2, c3 >> \in Seq(Results)
  BY <1>1, OnePass, ThreePass, Zenon
<1>7. r \o << d >> \in Seq(Results) /\ (Passing(r \o << d >>) => Passing(r))
  BY <1>3, <1>6, ConcatPasses, Zenon
<1>8. /\ r \o << d >> \o s \in Seq(Results)
      /\ Passing(r \o << d >> \o s) => Passing(r) /\ Passing(s)
  BY <1>4, <1>7, ConcatPasses, Zenon
<1>9. /\ r \o << d >> \o s \o f \in Seq(Results)
      /\ Passing(r \o << d >> \o s \o f) => Passing(r) /\ Passing(s)
  BY <1>5, <1>8, ConcatPasses, Zenon
<1>10. /\ r \o << d >> \o s \o f \o << c1, c2, c3 >> \in Seq(Results)
       /\ Passing(r \o << d >> \o s \o f \o << c1, c2, c3 >>) => Passing(r) /\ Passing(s)
  BY <1>6, <1>9, ConcatPasses, Zenon
<1> QED
  BY <1>2, <1>3, <1>4, <1>10, Zenon

LEMMA LaunchPasses ==
  ASSUME NEW N, NEW in \in GateRecords(N)
  PROVE  /\ Gates!LaunchChecks(in) \in Seq(Results)
         /\ Passing(Gates!LaunchChecks(in)) =>
              /\ Passing(Gates!BlueprintChecks(in.blueprint))
              /\ Gates!MarkersOf(Gates!SourcesOf(in)) = {}
<1> DEFINE l == in.launch
           r == Gates!RequiredBlueprint(in)
           d == Gates!NoDebt(in)
           s == Gates!SourceChecks(Gates!SourcesOf(in), FALSE)
           c1 == Gates!Check(l.alive, "launch_proof_missing")
           c2 == Gates!Check(l.calm, "runtime_panic")
           c3 == Gates!Check(l.screenshot = "screenshot", "evidence_invalid")
           c4 == Gates!Check(Gates!RoundTripHolds(l.trip), "launch_proof_missing")
           c5 == Gates!Check(l.done, "launch_proof_missing")
<1>1. /\ d \in Results /\ c1 \in Results /\ c2 \in Results /\ c3 \in Results
      /\ c4 \in Results /\ c5 \in Results
  BY Zenon DEF Gates!Check, Gates!NoDebt, Results
<1>2. Gates!LaunchChecks(in) = r \o << d >> \o s \o << c1, c2, c3, c4, c5 >>
  BY Zenon DEF Gates!LaunchChecks
<1>3. r \in Seq(Results) /\ (Passing(r) => Passing(Gates!BlueprintChecks(in.blueprint)))
  BY RequiredPasses, Zenon
<1>4. s \in Seq(Results) /\ (Passing(s) => Gates!MarkersOf(Gates!SourcesOf(in)) = {})
  <2>1. Gates!SourcesOf(in) \in Seq(SourceRecords(N)) /\ FALSE \in BOOLEAN
    BY SourcesOfType
  <2> QED
    BY <2>1, SourcesPass, Zenon
<1> HIDE DEF r, d, s, c1, c2, c3, c4, c5
<1>5. << d >> \in Seq(Results) /\ << c1, c2, c3, c4, c5 >> \in Seq(Results)
  <2>1. << c1, c2, c3, c4, c5 >> \in Seq(Results)
    BY <1>1
  <2> QED
    BY <1>1, <2>1, OnePass, Zenon
<1>6. r \o << d >> \in Seq(Results) /\ (Passing(r \o << d >>) => Passing(r))
  BY <1>3, <1>5, ConcatPasses, Zenon
<1>7. /\ r \o << d >> \o s \in Seq(Results)
      /\ Passing(r \o << d >> \o s) => Passing(r) /\ Passing(s)
  BY <1>4, <1>6, ConcatPasses, Zenon
<1>8. /\ r \o << d >> \o s \o << c1, c2, c3, c4, c5 >> \in Seq(Results)
      /\ Passing(r \o << d >> \o s \o << c1, c2, c3, c4, c5 >>) => Passing(r) /\ Passing(s)
  BY <1>5, <1>7, ConcatPasses, Zenon
<1> QED
  BY <1>2, <1>3, <1>4, <1>8, Zenon

\* The artifacts and the gate of the step.
LEMMA EvaluatedPasses ==
  ASSUME NEW N, NEW in \in GateRecords(N), Gates!Evaluated(in) = "pass"
  PROVE  /\ \A a \in in.artifacts : Gates!Present(a)
         /\ in.step = "blueprint" => Passing(Gates!BlueprintGateChecks(in))
         /\ in.step = "crates" => Passing(Gates!CrateBuildChecks(in))
         /\ in.step = "couple" => Passing(Gates!CoupleChecks(in))
         /\ in.step = "test" => Passing(Gates!BuildTestChecks(in))
         /\ in.step = "launch" => Passing(Gates!LaunchChecks(in))
<1> DEFINE c == Gates!Check(\A a \in in.artifacts : Gates!Present(a), "evidence_invalid")
           g == CASE in.step = "intake" -> Gates!IntakeChecks(in)
                  [] in.step = "blueprint" -> Gates!BlueprintGateChecks(in)
                  [] in.step = "crates" -> Gates!CrateBuildChecks(in)
                  [] in.step = "couple" -> Gates!CoupleChecks(in)
                  [] in.step = "test" -> Gates!BuildTestChecks(in)
                  [] in.step = "launch" -> Gates!LaunchChecks(in)
<1>1. c \in Results /\ (c = "pass" => \A a \in in.artifacts : Gates!Present(a))
  BY Zenon DEF Gates!Check, Results
<1>2. Gates!Evaluated(in) = Gates!Outcome(<< c >> \o g)
  BY Zenon DEF Gates!Evaluated
<1>3. /\ in.step = "intake" => g = Gates!IntakeChecks(in)
      /\ in.step = "blueprint" => g = Gates!BlueprintGateChecks(in)
      /\ in.step = "crates" => g = Gates!CrateBuildChecks(in)
      /\ in.step = "couple" => g = Gates!CoupleChecks(in)
      /\ in.step = "test" => g = Gates!BuildTestChecks(in)
      /\ in.step = "launch" => g = Gates!LaunchChecks(in)
  OBVIOUS
<1>4. in.step \in Steps
  BY DEF GateRecords
<1> HIDE DEF c, g
<1>5. g \in Seq(Results)
  <2>1. /\ Gates!IntakeChecks(in) \in Seq(Results) /\ Gates!BlueprintGateChecks(in) \in Seq(Results)
        /\ Gates!CrateBuildChecks(in) \in Seq(Results) /\ Gates!CoupleChecks(in) \in Seq(Results)
        /\ Gates!BuildTestChecks(in) \in Seq(Results) /\ Gates!LaunchChecks(in) \in Seq(Results)
    BY IntakeType, BlueprintGatePasses, CrateBuildPasses, CouplePasses, BuildTestPasses,
       LaunchPasses, Zenon
  <2> QED
    BY <1>3, <1>4, <2>1, Zenon DEF Steps
<1>6. << c >> \in Seq(Results) /\ (Passing(<< c >>) => c = "pass")
  BY <1>1, OnePass, Zenon
<1>7. << c >> \o g \in Seq(Results) /\ (Passing(<< c >> \o g) => Passing(<< c >>) /\ Passing(g))
  BY <1>5, <1>6, ConcatPasses, Zenon
<1>8. Passing(<< c >> \o g)
  BY <1>2, <1>7, OutcomePasses, Zenon
<1>9. c = "pass" /\ Passing(g)
  BY <1>6, <1>7, <1>8, Zenon
<1> QED
  BY <1>1, <1>3, <1>9, Zenon


(***************************************************************************)
(* What a pass shows.                                                      *)
(***************************************************************************)
LEMMA LaterGatesCheckBlueprints ==
  ASSUME NEW N, NEW in \in GateRecords(N), Gates!Evaluated(in) = "pass", in.step # "intake"
  PROVE  Passing(Gates!BlueprintChecks(in.blueprint))
<1>1. in.step \in {"blueprint", "crates", "couple", "test", "launch"}
  <2>1. in.step \in Steps
    BY DEF GateRecords
  <2> QED
    BY <2>1, Zenon DEF Steps
<1> QED
  BY <1>1, EvaluatedPasses, BlueprintGatePasses, CrateBuildPasses, CouplePasses, BuildTestPasses,
     LaunchPasses, Zenon

\* Places are numbers, and every edge goes up in them.
LEMMA EdgesGoUp ==
  ASSUME NEW N, NEW b \in BlueprintRecords(N), Passing(Gates!BlueprintChecks(b))
  PROVE  /\ \A c \in Gates!Range(b.crates) : Gates!Place(b.order, c) \in Nat
         /\ \A e \in b.edges : /\ Gates!Place(b.order, e[1]) \in Nat
                               /\ Gates!Place(b.order, e[2]) \in Nat
                               /\ Gates!Place(b.order, e[1]) < Gates!Place(b.order, e[2])
<1>1. Gates!OrderHolds(b) /\ \A e \in b.edges : Gates!EdgeHolds(b, e)
  BY BlueprintPasses, Zenon
<1>2. ASSUME NEW c \in Gates!Range(b.order) PROVE Gates!Place(b.order, c) \in Nat
  <2>1. \E i \in DOMAIN b.order : b.order[i] = c
    BY DEF Gates!Range
  <2>2. Gates!Place(b.order, c) \in DOMAIN b.order
    BY <2>1, Zenon DEF Gates!Place
  <2>3. DOMAIN b.order \subseteq Nat
    BY DEF BlueprintRecords
  <2> QED
    BY <2>2, <2>3
<1>3. Gates!Range(b.order) = Gates!Range(b.crates)
  BY <1>1, Zenon DEF Gates!OrderHolds
<1>4. \A e \in b.edges : /\ e[1] \in Gates!Range(b.order) /\ e[2] \in Gates!Range(b.order)
                         /\ Gates!Place(b.order, e[1]) < Gates!Place(b.order, e[2])
  BY <1>1 DEF Gates!EdgeHolds
<1> QED
  BY <1>2, <1>3, <1>4, Zenon

LEMMA OrdersHold ==
  ASSUME NEW N, NEW in \in GateRecords(N)
  PROVE  Gates!OrdersAreTopological(in)
<1> DEFINE b == in.blueprint
           at(c) == Gates!Place(b.order, c)
<1> SUFFICES ASSUME in.step # "intake", Gates!Evaluated(in) = "pass",
                    NEW c \in Gates!Range(b.crates), NEW d \in Gates!Range(b.crates),
                    Gates!Reaches(b.edges, c, d)
             PROVE  c # d /\ at(c) < at(d)
  BY Zenon DEF Gates!OrdersAreTopological
<1>1. Passing(Gates!BlueprintChecks(b))
  BY LaterGatesCheckBlueprints, Zenon
<1>2. b \in BlueprintRecords(N)
  BY DEF GateRecords
<1>3. /\ at(c) \in Nat
      /\ \A e \in b.edges : at(e[1]) \in Nat /\ at(e[2]) \in Nat /\ at(e[1]) < at(e[2])
  BY <1>1, <1>2, EdgesGoUp, Zenon
<1> DEFINE S == {x \in {e[2] : e \in b.edges} : at(c) < at(x)}
<1> HIDE DEF b, at
<1>4. ASSUME NEW e \in b.edges, e[1] \in {c} \cup S PROVE e[2] \in S
  <2>1. at(c) < at(e[2])
    BY <1>3, <1>4
  <2> QED
    BY <2>1
<1>5. S \in SUBSET {e[2] : e \in b.edges}
  OBVIOUS
<1> HIDE DEF S
<1>6. d \in S
  BY <1>4, <1>5, Zenon DEF Gates!Reaches
<1>7. at(c) < at(d)
  BY <1>6 DEF S
<1> QED
  BY <1>3, <1>7

\* Contracts of one id are one contract.
LEMMA IdsAreDistinct ==
  ASSUME NEW N, NEW b \in BlueprintRecords(N), Gates!Cardinality(Gates!Ids(b)) = Len(b.contracts)
  PROVE  \A x, y \in Gates!Range(b.contracts) : x.id = y.id => x = y
<1> DEFINE n == Len(b.contracts)
           f == [i \in 1..n |-> b.contracts[i].id]
<1>1. n \in Nat /\ DOMAIN b.contracts = 1..n
  BY DEF BlueprintRecords
<1> HIDE DEF n
<1>2. Gates!Range(b.contracts) = {b.contracts[i] : i \in 1..n}
  BY <1>1 DEF Gates!Range
<1>3. Gates!Ids(b) = {b.contracts[i].id : i \in 1..n}
  BY <1>2 DEF Gates!Ids
<1>4. f \in Surjection(1..n, Gates!Ids(b))
  BY <1>3 DEF Surjection
<1>5. IsFiniteSet(1..n) /\ Cardinality(1..n) = n
  BY <1>1, FS_Interval
<1>6. Cardinality(Gates!Ids(b)) = Cardinality(1..n)
  BY <1>5, SameCardinality, Zenon DEF n
<1> HIDE DEF f
<1>7. f \in Injection(1..n, Gates!Ids(b))
  BY <1>4, <1>5, <1>6, FS_Surjection, Zenon
<1>8. \A i, j \in 1..n : f[i] = f[j] => i = j
  BY <1>7 DEF Injection, IsInjective
<1>9. \A i, j \in 1..n : b.contracts[i].id = b.contracts[j].id => i = j
  BY <1>8 DEF f
<1> QED
  BY <1>2, <1>9

LEMMA ContractsHold ==
  ASSUME NEW N, NEW in \in GateRecords(N)
  PROVE  Gates!ContractsAreResolved(in)
<1> DEFINE b == in.blueprint
<1> SUFFICES ASSUME in.step = "couple", Gates!Evaluated(in) = "pass",
                    NEW c \in Gates!Range(b.contracts)
             PROVE  \E w \in Gates!Range(in.wirings) :
                      /\ w.contract = c.id /\ w.producer = c.producer
                      /\ w.consumer \in c.consumers /\ ~w.direct
                      /\ (w.status = "pass" /\ w.observed) \/ c.id \in in.debt
  BY Zenon DEF Gates!ContractsAreResolved
<1>1. Passing(Gates!CoupleChecks(in))
  BY EvaluatedPasses, Zenon
<1>2. /\ Passing(Gates!BlueprintChecks(b))
      /\ Len(in.wirings) = Len(b.coupling)
      /\ \A i \in DOMAIN in.wirings : Passing(Gates!WiringChecks(in, i))
      /\ Gates!Deferrals(in) = in.debt
  BY <1>1, CouplePasses, Zenon
<1>3. b \in BlueprintRecords(N)
  BY DEF GateRecords
<1>4. /\ Gates!Cardinality(Gates!Ids(b)) = Len(b.contracts)
      /\ Gates!Range(b.coupling) = Gates!Ids(b)
  BY <1>2, BlueprintPasses, Zenon
<1>5. c.id \in Gates!Ids(b)
  BY DEF Gates!Ids
<1>6. PICK i \in DOMAIN b.coupling : b.coupling[i] = c.id
  BY <1>4, <1>5, Zenon DEF Gates!Range
<1>7. i \in DOMAIN in.wirings /\ in.wirings[i] \in Gates!WiringRecords(N, N)
  <2>1. /\ DOMAIN b.coupling = 1..Len(b.coupling) /\ DOMAIN in.wirings = 1..Len(in.wirings)
        /\ in.wirings \in Seq(Gates!WiringRecords(N, N))
    BY <1>3 DEF BlueprintRecords, GateRecords
  <2> QED
    BY <1>2, <1>6, <2>1
<1> DEFINE w == in.wirings[i]
<1>8. w \in Gates!Range(in.wirings)
  BY <1>7, Zenon DEF Gates!Range
<1>9. Gates!Contract(b, c.id) = c
  <2>1. \A x \in Gates!Range(b.contracts) : x.id = c.id => x = c
    BY <1>3, <1>4, IdsAreDistinct, Zenon
  <2> QED
    BY <2>1, Zenon DEF Gates!Contract
<1>10. /\ w.contract = c.id /\ w.producer = c.producer /\ w.consumer \in c.consumers
       /\ ~w.direct /\ (w.status = "pass" => w.observed) /\ w.status # "fail"
  <2>1. Passing(Gates!WiringChecks(in, i))
    BY <1>2, <1>7, Zenon
  <2>2. /\ in.wirings[i].contract = in.blueprint.coupling[i]
        /\ in.blueprint.coupling[i] \in Gates!Ids(in.blueprint) =>
             /\ in.wirings[i].producer
                  = Gates!Contract(in.blueprint, in.blueprint.coupling[i]).producer
             /\ in.wirings[i].consumer
                  \in Gates!Contract(in.blueprint, in.blueprint.coupling[i]).consumers
        /\ ~in.wirings[i].direct
        /\ in.wirings[i].status = "pass" => in.wirings[i].observed
        /\ in.wirings[i].status # "fail"
    BY <2>1, WiringPasses, Zenon
  <2> QED
    BY <2>2, <1>5, <1>6, <1>9
<1>11. w.status \in {"pass", "fail", "deferred"}
  BY <1>7 DEF Gates!WiringRecords
<1>12. w.status = "deferred" => c.id \in in.debt
  BY <1>2, <1>8, <1>10 DEF Gates!Deferrals
<1> HIDE DEF w
<1> QED
  BY <1>8, <1>10, <1>11, <1>12, Zenon

LEMMA MarkersHold ==
  ASSUME NEW N, NEW in \in GateRecords(N)
  PROVE  Gates!MarkersAreTracked(in)
<1> SUFFICES ASSUME Gates!Evaluated(in) = "pass"
             PROVE  /\ in.step = "crates" => Gates!MarkersOf(Gates!SourcesOf(in)) = in.markers
                    /\ in.step \in {"couple", "test", "launch"} =>
                         Gates!MarkersOf(Gates!SourcesOf(in)) = {}
  BY Zenon DEF Gates!MarkersAreTracked
<1>1. in.step = "crates" => Gates!MarkersOf(Gates!SourcesOf(in)) = in.markers
  BY EvaluatedPasses, CrateBuildPasses, Zenon
<1>2. in.step = "couple" => Gates!MarkersOf(Gates!SourcesOf(in)) = {}
  BY EvaluatedPasses, CouplePasses, Zenon
<1>3. in.step = "test" => Gates!MarkersOf(Gates!SourcesOf(in)) = {}
  BY EvaluatedPasses, BuildTestPasses, Zenon
<1>4. in.step = "launch" => Gates!MarkersOf(Gates!SourcesOf(in)) = {}
  BY EvaluatedPasses, LaunchPasses, Zenon
<1> QED
  BY <1>1, <1>2, <1>3, <1>4, Zenon

LEMMA PassesHold ==
  ASSUME NEW N, NEW in \in GateRecords(N)
  PROVE  Gates!PassesAreTaken(in)
<1> SUFFICES ASSUME Gates!Evaluated(in) = "pass",
                    Gates!Cardinality(in.artifacts) <= MaxArtifacts
             PROVE  Gates!ValidResult("build", in.step, FALSE, in.artifacts)
  BY Zenon DEF Gates!PassesAreTaken
<1>1. \A a \in in.artifacts : Gates!ValidArtifact(a)
  BY EvaluatedPasses, Zenon DEF Gates!Present
<1>2. Gates!ValidEvidence(in.artifacts)
  BY <1>1, Zenon DEF Gates!ValidEvidence
<1>3. Gates!ValidIdentifier("build")
  BY BlankAssumption, Zenon DEF Gates!ValidIdentifier
<1> QED
  BY <1>2, <1>3, Zenon DEF Gates!ValidResult

\* A gate that passes has shown what the next ones rely on (evaluate_gate): whatever the
\* sizes of its input, the blueprint's order is a topological one, every
\* contract is wired or on record as debt, markers are tracked until none is
\* left, and the planner takes the evidence.
THEOREM GatesShowWhatTheyPass ==
  \A N : \A in \in GateRecords(N) : Gates!GatesHold(in)
<1> SUFFICES ASSUME NEW N, NEW in \in GateRecords(N) PROVE Gates!GatesHold(in)
  OBVIOUS
<1> QED
  BY OrdersHold, ContractsHold, MarkersHold, PassesHold, Zenon DEF Gates!GatesHold

(***************************************************************************)
(* The inputs of the runs are such inputs.                                 *)
(***************************************************************************)
Names ==
  {"a", "b", "c", "d", "e", "m", "n", "p", "q", "x", "y", "z", "h1", "h2", "log",
   "evidence/a.txt", "src/lib.rs", "../up", "L0", "L1", "L2", "L3", Blank}


Sources == SourceRecords(Names)

LEMMA SourcesTyped ==
  /\ Clean \in Sources
  /\ \A m \in Names : Marked(m) \in Sources
  /\ Source(TRUE, FALSE, {}) \in Sources /\ Source(FALSE, TRUE, {}) \in Sources
BY DEF Sources, SourceRecords, Clean, Marked, Source

LEMMA CrateTyped ==
  ASSUME NEW n \in Names, NEW s \in Seq(Sources), NEW c \in Gates!CommandRecords,
         NEW t \in Gates!CommandRecords
  PROVE  Gates!CrateRecord(n, s, c, t) \in CrateRecords(Names)
BY DEF CrateRecords, Gates!CrateRecord, Sources

LEMMA CratesTyped ==
  ASSUME NEW s \in Sources
  PROVE  Crates(s) \in Seq(CrateRecords(Names)) /\ DOMAIN Crates(s) = 1..3
<1> DEFINE a == Gates!CrateRecord("a", <<s>>, "clean", "clean")
           b == Gates!CrateRecord("b", <<Clean>>, "clean", "clean")
           c == Gates!CrateRecord("c", <<Clean>>, "clean", "clean")
<1>1. <<s>> \in Seq(Sources) /\ <<Clean>> \in Seq(Sources)
  BY SourcesTyped
<1>2. "a" \in Names /\ "b" \in Names /\ "c" \in Names /\ "clean" \in Gates!CommandRecords
  BY Zenon DEF Names, Gates!CommandRecords
<1>3. a \in CrateRecords(Names) /\ b \in CrateRecords(Names) /\ c \in CrateRecords(Names)
  BY <1>1, <1>2, CrateTyped, Zenon
<1>4. Crates(s) = << a, b, c >>
  BY Zenon DEF Crates
<1> HIDE DEF a, b, c
<1> QED
  BY <1>3, <1>4

LEMMA ReviewTyped ==
  /\ Reviewed \in Gates!ReviewRecords(Names)
  /\ Gates!ReviewRecords({"x", "y", Blank}) \subseteq Gates!ReviewRecords(Names)
BY DEF Reviewed, Gates!ReviewRecords, Names

LEMMA PlanTyped ==
  /\ ContractM \in ContractRecords(Names) /\ ContractN \in ContractRecords(Names)
  /\ [ContractM EXCEPT !.consumers = {"z"}] \in ContractRecords(Names)
  /\ Plan \in BlueprintRecords(Names)
<1>1. /\ ContractM \in ContractRecords(Names) /\ ContractN \in ContractRecords(Names)
      /\ [ContractM EXCEPT !.consumers = {"z"}] \in ContractRecords(Names)
  BY DEF ContractM, ContractN, ContractRecords, Names
<1>2. <<ContractM, ContractN>> \in Seq(ContractRecords(Names))
  BY <1>1
<1>3. /\ <<"a", "b", "c">> \in Seq(Names) /\ <<"m", "n">> \in Seq(Names)
      /\ {<<"a", "b">>} \subseteq Names \X Names
  BY DEF Names
<1> QED
  BY <1>1, <1>2, <1>3, ReviewTyped DEF Plan, BlueprintRecords

LEMMA ArtifactsTyped == ArtifactSets \subseteq SUBSET ArtifactRecords(Names)
<1>1. /\ Artifact("src/lib.rs", TRUE) \in ArtifactRecords(Names)
      /\ Artifact("../up", TRUE) \in ArtifactRecords(Names)
      /\ Artifact("src/lib.rs", FALSE) \in ArtifactRecords(Names)
      /\ Artifact("evidence/a.txt", TRUE) \in ArtifactRecords(Names)
  BY DEF Artifact, ArtifactRecords, Names
<1> QED
  BY <1>1 DEF ArtifactSets

LEMMA WiringsTyped ==
  /\ WiringsTold \subseteq Gates!WiringRecords(Names, Names)
  /\ \A id, p, c \in Names : \A s \in {"pass", "fail", "deferred"} :
       Wiring(id, p, c, s) \in Gates!WiringRecords(Names, Names)
<1>1. {"m", "n"} \subseteq Names /\ CrateNames \subseteq Names
  BY DEF Names, CrateNames
<1>2. WiringsTold \subseteq Gates!WiringRecords({"m", "n"}, CrateNames)
  BY DEF WiringsTold
<1>3. WiringsTold \subseteq Gates!WiringRecords(Names, Names)
  BY <1>1, <1>2 DEF Gates!WiringRecords
<1> QED
  BY <1>3 DEF Wiring, Gates!WiringRecords

LEMMA CasesTyped ==
  /\ Case("d") \in Gates!CaseRecords(Names) /\ Case("e") \in Gates!CaseRecords(Names)
  /\ Gates!CaseRecords({"d"}) \subseteq Gates!CaseRecords(Names)
BY DEF Case, Gates!CaseRecords, Names

Starts == Gates!LaunchRecords(Gates!TripRecords(SUBSET Names, Names))

LEMMA LaunchesTyped == LaunchesTold \subseteq Starts /\ Launched \in Starts
<1> DEFINE trips == Gates!TripRecords({Gates!Layers, {"L0"}}, {"h1", "h2", Blank})
<1>1. Gates!Layers \in SUBSET Names /\ {"L0"} \in SUBSET Names /\ {"h1", "h2", Blank} \subseteq Names
  BY DEF Gates!Layers, Names
<1>2. trips \subseteq Gates!TripRecords(SUBSET Names, Names)
  BY <1>1 DEF Gates!TripRecords
<1>3. LaunchesTold \subseteq Gates!LaunchRecords(trips)
  BY DEF LaunchesTold
<1>4. Gates!LaunchRecords(trips) \subseteq Starts
  BY <1>2 DEF Starts, Gates!LaunchRecords
<1>5. Launched \in Starts
  BY <1>1 DEF Launched, Starts, Gates!LaunchRecords, Gates!TripRecords
<1> QED
  BY <1>3, <1>4, <1>5

LEMMA NewInputTyped ==
  ASSUME NEW step \in Steps
  PROVE  Gates!NewInput(step) \in GateRecords(Names)
<1> DEFINE trip == [ids |-> FALSE, evidence |-> FALSE, layers |-> {}, before |-> Blank, after |-> Blank]
           review == [author |-> Blank, reviewer |-> Blank, passed |-> FALSE, evidence |-> FALSE]
           start == [alive |-> FALSE, calm |-> FALSE, screenshot |-> "other", done |-> FALSE, trip |-> trip]
           plan == [given |-> FALSE, version |-> 0, crates |-> <<>>, order |-> <<>>, edges |-> {},
                    contracts |-> <<>>, coupling |-> <<>>, review |-> review]
<1>1. review \in Gates!ReviewRecords(Names)
  BY DEF Gates!ReviewRecords, Names
<1>2. start \in Starts
  BY DEF Starts, Gates!LaunchRecords, Gates!TripRecords, Names
<1>3. plan \in BlueprintRecords(Names)
  BY <1>1 DEF BlueprintRecords
<1>4. Gates!NewInput(step) =
        [step |-> step, artifacts |-> {}, crates |-> <<>>, wirings |-> <<>>, cases |-> <<>>,
         markers |-> {}, debt |-> {},
         requirements |-> [given |-> FALSE, fields |-> FALSE, done |-> <<>>],
         blueprint |-> plan, commands |-> [i \in 1..3 |-> "absent"], review |-> review,
         launch |-> start]
  BY DEF Gates!NewInput
<1> HIDE DEF review, plan, start
<1> QED
  BY <1>1, <1>2, <1>3, <1>4 DEF GateRecords, Starts

LEMMA FullTyped ==
  ASSUME NEW step \in Steps
  PROVE  Full(step) \in GateRecords(Names)
<1> DEFINE in == Gates!NewInput(step)
           r == [given |-> TRUE, fields |-> TRUE, done |-> <<"d", "e">>]
           k == [j \in 1..3 |-> "clean"]
           s == <<Case("d"), Case("e")>>
           c == Crates(Clean)
<1>1. r \in [given : BOOLEAN, fields : BOOLEAN, done : Seq(Names)]
  BY DEF Names
<1>2. k \in [1..3 -> Gates!CommandRecords \cup {"absent"}]
  BY DEF Gates!CommandRecords
<1>3. s \in Seq(Gates!CaseRecords(Names))
  BY CasesTyped
<1>4. c \in Seq(CrateRecords(Names))
  BY SourcesTyped, CratesTyped
<1>5. in \in GateRecords(Names)
  BY NewInputTyped
<1>6. Full(step) =
        [in EXCEPT !.requirements = r, !.blueprint = Plan, !.crates = c, !.commands = k,
                   !.cases = s, !.review = Reviewed, !.launch = Launched]
  BY DEF Full
<1>7. Plan \in BlueprintRecords(Names) /\ Reviewed \in Gates!ReviewRecords(Names)
      /\ Launched \in Gates!LaunchRecords(Gates!TripRecords(SUBSET Names, Names))
  BY PlanTyped, ReviewTyped, LaunchesTyped DEF Starts
<1> HIDE DEF in, r, k, s, c
<1> QED
  BY <1>1, <1>2, <1>3, <1>4, <1>5, <1>6, <1>7 DEF GateRecords

LEMMA ThreeInSequence ==
  ASSUME NEW S, NEW f \in [1..3 -> S]
  PROVE  f \in Seq(S)
<1> DEFINE g == [i \in 1..3 |-> f[i]]
<1>1. f = g
  OBVIOUS
<1>2. g \in Seq(S)
  OBVIOUS
<1> QED
  BY <1>1, <1>2

LEMMA IntakesTyped == Intakes \subseteq GateRecords(Names)
<1> SUFFICES ASSUME NEW g \in BOOLEAN, NEW f \in BOOLEAN, NEW d \in {<<>>, <<"d">>, <<"d", Blank>>},
                    NEW b \in BOOLEAN, NEW k \in {<<>>, Crates(Clean)}, NEW a \in ArtifactSets
             PROVE  Intake(g, f, d, b, k, a) \in GateRecords(Names)
  BY DEF Intakes
<1> DEFINE in == Gates!NewInput("intake")
           r == [given |-> g, fields |-> f, done |-> d]
<1>1. in \in GateRecords(Names)
  BY NewInputTyped DEF Steps
<1>2. d \in Seq(Names)
  <2>1. "d" \in Names /\ Blank \in Names
    BY DEF Names
  <2>2. <<>> \in Seq(Names) /\ <<"d">> \in Seq(Names) /\ <<"d", Blank>> \in Seq(Names)
    BY <2>1
  <2> QED
    BY <2>2, Zenon
<1>3. r \in [given : BOOLEAN, fields : BOOLEAN, done : Seq(Names)]
  BY <1>2
<1>4. k \in Seq(CrateRecords(Names))
  <2>1. <<>> \in Seq(CrateRecords(Names)) /\ Crates(Clean) \in Seq(CrateRecords(Names))
    BY SourcesTyped, CratesTyped
  <2> QED
    BY <2>1, Zenon
<1>5. a \in SUBSET ArtifactRecords(Names)
  BY ArtifactsTyped
<1> HIDE DEF in, r
<1>6. [in EXCEPT !.requirements = r, !.blueprint.given = b, !.crates = k, !.artifacts = a]
        \in GateRecords(Names)
  BY <1>1, <1>3, <1>4, <1>5 DEF GateRecords, BlueprintRecords
<1> QED
  BY <1>6 DEF in, r, Intake

LEMMA BlueprintsTyped == Blueprints \subseteq GateRecords(Names)
<1> DEFINE in == Full("blueprint")
<1>1. in \in GateRecords(Names)
  BY FullTyped DEF Steps
<1>2. /\ {"a", "b", "c", "m", "n"} \subseteq Names /\ CrateNames \subseteq Names
      /\ CrateNames = {"a", "b", "c"}
  BY DEF Names, CrateNames
<1>3. ASSUME NEW c \in {<<"a", "b", "c">>, <<"a", "b", "b">>},
             NEW o \in [1..3 -> CrateNames] \cup {<<"a", "b">>},
             NEW e \in SUBSET (CrateNames \X CrateNames)
      PROVE  Ordered(c, o, e) \in GateRecords(Names)
  <2>1. /\ <<"a", "b", "c">> \in Seq(Names) /\ <<"a", "b", "b">> \in Seq(Names)
        /\ <<"a", "b">> \in Seq(Names)
    BY <1>2
  <2>2. c \in Seq(Names) /\ e \in SUBSET (Names \X Names)
    <3>1. e \in SUBSET (Names \X Names)
      BY <1>2
    <3> QED
      BY <2>1, <3>1, Zenon
  <2>3. o \in Seq(Names)
    <3>1. CASE o \in [1..3 -> CrateNames]
      <4>1. o \in [1..3 -> Names]
        BY <1>2, <3>1
      <4> QED
        BY <4>1, ThreeInSequence
    <3> QED
      BY <2>1, <3>1, Zenon
  <2> HIDE DEF in
  <2>4. [in EXCEPT !.blueprint.crates = c, !.blueprint.order = o, !.blueprint.edges = e]
          \in GateRecords(Names)
    BY <1>1, <2>2, <2>3 DEF GateRecords, BlueprintRecords
  <2> QED
    BY <2>4 DEF in, Ordered
<1>4. ASSUME NEW v \in {0, 1}, NEW o \in {<<"m">>, <<"n", "m">>, <<"m", "n">>, <<"m", "m">>},
             NEW c \in {<<>>, <<ContractM>>, <<ContractM, ContractN>>, <<ContractM, ContractM>>,
                        <<[ContractM EXCEPT !.consumers = {"z"}]>>},
             NEW r \in Gates!ReviewRecords({"x", "y", Blank})
      PROVE  Contracted(v, c, o, r) \in GateRecords(Names)
  <2>1. o \in Seq(Names)
    <3>1. /\ <<"m">> \in Seq(Names) /\ <<"n", "m">> \in Seq(Names)
          /\ <<"m", "n">> \in Seq(Names) /\ <<"m", "m">> \in Seq(Names)
      BY <1>2
    <3> QED
      BY <3>1, Zenon
  <2>2. c \in Seq(ContractRecords(Names))
    <3> DEFINE z == [ContractM EXCEPT !.consumers = {"z"}]
    <3>1. z \in ContractRecords(Names) /\ ContractM \in ContractRecords(Names)
          /\ ContractN \in ContractRecords(Names)
      BY PlanTyped
    <3>2. c \in {<<>>, <<ContractM>>, <<ContractM, ContractN>>, <<ContractM, ContractM>>, <<z>>}
      OBVIOUS
    <3> HIDE DEF z
    <3>3. /\ <<>> \in Seq(ContractRecords(Names)) /\ <<ContractM>> \in Seq(ContractRecords(Names))
          /\ <<ContractM, ContractN>> \in Seq(ContractRecords(Names))
          /\ <<ContractM, ContractM>> \in Seq(ContractRecords(Names))
          /\ <<z>> \in Seq(ContractRecords(Names))
      BY <3>1
    <3> QED
      BY <3>2, <3>3, Zenon
  <2>3. r \in Gates!ReviewRecords(Names) /\ v \in Nat
    <3>1. r \in Gates!ReviewRecords(Names)
      BY ReviewTyped, Zenon
    <3> QED
      BY <3>1
  <2> HIDE DEF in
  <2>4. [in EXCEPT !.blueprint.version = v, !.blueprint.contracts = c,
                   !.blueprint.coupling = o, !.blueprint.review = r] \in GateRecords(Names)
    BY <1>1, <2>1, <2>2, <2>3 DEF GateRecords, BlueprintRecords
  <2> QED
    BY <2>4 DEF in, Contracted
<1> DEFINE C1 == {<<"a", "b", "c">>, <<"a", "b", "b">>}
           O1 == [1..3 -> CrateNames] \cup {<<"a", "b">>}
           E1 == {s \in SUBSET (CrateNames \X CrateNames) : Cardinality(s) <= 2}
           O2 == {<<"m">>, <<"n", "m">>, <<"m", "n">>, <<"m", "m">>}
           C2 == {<<>>, <<ContractM>>, <<ContractM, ContractN>>, <<ContractM, ContractM>>,
                  <<[ContractM EXCEPT !.consumers = {"z"}]>>}
           R2 == {q \in Gates!ReviewRecords({"x", "y", Blank}) : q.author = "x"}
           First == {Ordered(c, o, e) : c \in C1, o \in O1, e \in E1}
           Second == {Contracted(v, c, o, r) : v \in {0, 1}, o \in O2, c \in C2, r \in R2}
<1>5. Blueprints = First \cup Second
  BY DEF Blueprints
<1>6. \A c \in C1, o \in O1, e \in E1 : Ordered(c, o, e) \in GateRecords(Names)
  BY <1>3, Zenon
<1>7. \A v \in {0, 1}, o \in O2, c \in C2, r \in R2 : Contracted(v, c, o, r) \in GateRecords(Names)
  BY <1>4, Zenon
<1> HIDE DEF C1, O1, E1, C2, O2, R2
<1>8. First \subseteq GateRecords(Names) /\ Second \subseteq GateRecords(Names)
  BY <1>6, <1>7
<1> HIDE DEF First, Second
<1> QED
  BY <1>5, <1>8, Zenon

LEMMA CrateBuildsTyped == CrateBuilds \subseteq GateRecords(Names)
<1> DEFINE One(x) == <<x>>
           Two(x, y) == <<x, y>>
           Firsts == {<<>>, One(Clean), One(Source(TRUE, FALSE, {})), One(Marked("p")),
                      Two(Clean, Source(FALSE, TRUE, {}))}
           Wired == {<<>>, One(Wiring("m", "a", "b", "pass"))}
<1>1. CrateBuilds =
        {CrateBuild(n, t, m, s, c, w) :
           n \in {"a", "b"}, t \in {Clean, Marked("q")}, m \in SUBSET {"p", "q"},
           s \in Firsts, c \in Gates!CommandRecords, w \in Wired}
  BY DEF CrateBuilds
<1>2. "a" \in Names /\ "b" \in Names /\ "c" \in Names /\ "m" \in Names /\ {"p", "q"} \subseteq Names
  BY DEF Names
<1>3. \A S : \A x, y \in S : <<>> \in Seq(S) /\ One(x) \in Seq(S) /\ Two(x, y) \in Seq(S)
  OBVIOUS
<1> HIDE DEF One, Two
<1>4. /\ Clean \in Sources /\ Marked("p") \in Sources /\ Marked("q") \in Sources
      /\ Source(TRUE, FALSE, {}) \in Sources /\ Source(FALSE, TRUE, {}) \in Sources
  BY <1>2, SourcesTyped
<1>5. Firsts \subseteq Seq(Sources)
  BY <1>3, <1>4, Zenon
<1>6. Wired \subseteq Seq(Gates!WiringRecords(Names, Names))
  <2>1. Wiring("m", "a", "b", "pass") \in Gates!WiringRecords(Names, Names)
    BY <1>2, WiringsTyped
  <2> QED
    BY <1>3, <2>1, Zenon
<1> HIDE DEF Firsts, Wired
<1>7. ASSUME NEW n \in {"a", "b"}, NEW t \in {Clean, Marked("q")}, NEW m \in SUBSET {"p", "q"},
             NEW s \in Firsts, NEW c \in Gates!CommandRecords, NEW w \in Wired
      PROVE  CrateBuild(n, t, m, s, c, w) \in GateRecords(Names)
  <2> DEFINE in == Full("crates")
             k1 == Gates!CrateRecord(n, s, c, "clean")
             k2 == Gates!CrateRecord("b", <<Clean>>, "clean", "clean")
             k3 == Gates!CrateRecord("c", <<t>>, "clean", "clean")
             k == << k1, k2, k3 >>
  <2>1. in \in GateRecords(Names)
    BY FullTyped DEF Steps
  <2>2. /\ s \in Seq(Sources) /\ <<Clean>> \in Seq(Sources) /\ <<t>> \in Seq(Sources)
        /\ n \in Names /\ "clean" \in Gates!CommandRecords
    <3>1. <<Clean>> \in Seq(Sources) /\ <<t>> \in Seq(Sources)
      BY <1>4
    <3>2. n \in Names
      BY <1>2, Zenon
    <3>3. "clean" \in Gates!CommandRecords
      BY DEF Gates!CommandRecords
    <3> QED
      BY <1>5, <3>1, <3>2, <3>3, Zenon
  <2>3. k1 \in CrateRecords(Names) /\ k2 \in CrateRecords(Names) /\ k3 \in CrateRecords(Names)
    BY <1>2, <2>2, CrateTyped, Zenon
  <2> HIDE DEF k1, k2, k3
  <2>4. k \in Seq(CrateRecords(Names))
    BY <2>3
  <2>5. m \in SUBSET Names /\ w \in Seq(Gates!WiringRecords(Names, Names))
    BY <1>2, <1>6, Zenon
  <2> HIDE DEF in, k
  <2>6. [in EXCEPT !.crates = k, !.markers = m, !.wirings = w] \in GateRecords(Names)
    BY <2>1, <2>4, <2>5 DEF GateRecords
  <2> QED
    BY <2>6 DEF in, k, k1, k2, k3, CrateBuild
<1> QED
  BY <1>1, <1>7

LEMMA CouplesTyped == Couples \subseteq GateRecords(Names)
<1> SUFFICES ASSUME NEW v \in WiringsTold, NEW d \in SUBSET {"m", "n"}, NEW s \in {Clean, Marked("p")},
                    NEW w \in {Wiring("n", "b", "c", "pass"), Wiring("n", "b", "c", "deferred"),
                               Wiring("n", "b", "b", "pass"), Wiring("m", "a", "b", "pass")}
             PROVE  Couple(v, w, d, s) \in GateRecords(Names)
  BY DEF Couples
<1> DEFINE in == Full("couple")
           x == <<v, w>>
           c == Crates(s)
<1>1. in \in GateRecords(Names)
  BY FullTyped DEF Steps
<1>2. /\ "a" \in Names /\ "b" \in Names /\ "c" \in Names /\ "m" \in Names /\ "n" \in Names
      /\ "p" \in Names /\ d \in SUBSET Names
  BY DEF Names
<1>3. x \in Seq(Gates!WiringRecords(Names, Names))
  <2>1. w \in Gates!WiringRecords(Names, Names) /\ v \in Gates!WiringRecords(Names, Names)
    BY <1>2, WiringsTyped
  <2> QED
    BY <2>1
<1>4. c \in Seq(CrateRecords(Names))
  BY <1>2, SourcesTyped, CratesTyped
<1> HIDE DEF in, x, c
<1>5. [in EXCEPT !.wirings = x, !.debt = d, !.crates = c] \in GateRecords(Names)
  BY <1>1, <1>2, <1>3, <1>4 DEF GateRecords
<1> QED
  BY <1>5 DEF in, x, c, Couple

LEMMA BuildTestsTyped == BuildTests \subseteq GateRecords(Names)
<1> DEFINE All == {<<>>, <<Case("d")>>, <<Case("d"), Case("e")>>, <<Case("d"), Case("d")>>}
                    \cup {<<Case("e"), x>> : x \in Gates!CaseRecords({"d"})}
<1> SUFFICES ASSUME NEW c \in All, NEW d \in SUBSET {"m"}, NEW k \in {"clean", "absent", "warned"},
                    NEW s \in {Clean, Marked("p")}
             PROVE  BuildTest(c, d, k, s) \in GateRecords(Names)
  BY DEF BuildTests
<1> DEFINE in == Full("test")
           r == Crates(s)
<1>1. in \in GateRecords(Names)
  BY FullTyped DEF Steps
<1>2. "p" \in Names /\ d \in SUBSET Names
  BY DEF Names
<1>3. c \in Seq(Gates!CaseRecords(Names))
  <2>1. CASE c \in {<<>>, <<Case("d")>>, <<Case("d"), Case("e")>>, <<Case("d"), Case("d")>>}
    <3>1. /\ <<>> \in Seq(Gates!CaseRecords(Names)) /\ <<Case("d")>> \in Seq(Gates!CaseRecords(Names))
          /\ <<Case("d"), Case("e")>> \in Seq(Gates!CaseRecords(Names))
          /\ <<Case("d"), Case("d")>> \in Seq(Gates!CaseRecords(Names))
      BY CasesTyped
    <3> QED
      BY <2>1, <3>1, Zenon
  <2>2. ASSUME NEW x \in Gates!CaseRecords({"d"}), c = <<Case("e"), x>>
        PROVE  c \in Seq(Gates!CaseRecords(Names))
    BY <2>2, CasesTyped
  <2> QED
    BY <2>1, <2>2
<1>4. r \in Seq(CrateRecords(Names))
  BY <1>2, SourcesTyped, CratesTyped
<1>5. k \in Gates!CommandRecords \cup {"absent"}
  BY DEF Gates!CommandRecords
<1> HIDE DEF in, r, All
<1>6. [in EXCEPT !.cases = c, !.debt = d, !.commands[1] = k, !.crates = r] \in GateRecords(Names)
  BY <1>1, <1>2, <1>3, <1>4, <1>5 DEF GateRecords
<1> QED
  BY <1>6 DEF in, r, BuildTest

LEMMA LaunchInputsTyped == Launches \subseteq GateRecords(Names)
<1> SUFFICES ASSUME NEW l \in LaunchesTold, NEW m \in SUBSET {"p"}, NEW a \in ArtifactSets
             PROVE  Launch(l, m, a) \in GateRecords(Names)
  BY DEF Launches
<1> DEFINE in == Full("launch")
<1>1. in \in GateRecords(Names)
  BY FullTyped DEF Steps
<1>2. /\ l \in Gates!LaunchRecords(Gates!TripRecords(SUBSET Names, Names))
      /\ m \in SUBSET Names /\ a \in SUBSET ArtifactRecords(Names)
  BY LaunchesTyped, ArtifactsTyped DEF Starts, Names
<1> HIDE DEF in
<1>3. [in EXCEPT !.launch = l, !.markers = m, !.artifacts = a] \in GateRecords(Names)
  BY <1>1, <1>2 DEF GateRecords
<1> QED
  BY <1>3 DEF in, Launch

(***************************************************************************)
(* What a behaviour has chosen is an input of its part.                    *)
(***************************************************************************)
InputInv ==
  /\ Chosen("records") => input.of \in RecordInputs
  /\ Chosen("projection") => input.of \in ProjectionInputs
  /\ Chosen("prompt") => input.of \in PromptInputs
  /\ Chosen("context") => input.of \in ContextInputs
  /\ Chosen("gate") => input.of \in GateInputs

LEMMA InputsAreOfTheirPart == RuntimeSpec => []InputInv
<1>1. RuntimeInit => InputInv
  BY Zenon DEF RuntimeInit, InputInv, Chosen
<1>2. InputInv /\ [RuntimeNext]_<<part, input, vars>> => InputInv'
  <2> SUFFICES ASSUME InputInv, [RuntimeNext]_<<part, input, vars>> PROVE InputInv'
    OBVIOUS
  <2>1. ASSUME UNCHANGED <<part, input>> PROVE InputInv'
    BY <2>1 DEF InputInv, Chosen
  <2>2. ASSUME NEW k, NEW S, Choose(k, S)
        PROVE  part' = k /\ input'.of \in S
    BY <2>2 DEF Choose
  <2>3. CASE Choose("records", RecordInputs)
    <3>1. part' = "records" /\ input'.of \in RecordInputs
      BY <2>2, <2>3
    <3> QED
      BY <3>1 DEF InputInv, Chosen
  <2>4. CASE Choose("projection", ProjectionInputs)
    <3>1. part' = "projection" /\ input'.of \in ProjectionInputs
      BY <2>2, <2>4
    <3> QED
      BY <3>1 DEF InputInv, Chosen
  <2>5. CASE Choose("prompt", PromptInputs)
    <3>1. part' = "prompt" /\ input'.of \in PromptInputs
      BY <2>2, <2>5
    <3> QED
      BY <3>1 DEF InputInv, Chosen
  <2>6. CASE Choose("context", ContextInputs)
    <3>1. part' = "context" /\ input'.of \in ContextInputs
      BY <2>2, <2>6
    <3> QED
      BY <3>1 DEF InputInv, Chosen
  <2>7. CASE Choose("gate", GateInputs)
    <3>1. part' = "gate" /\ input'.of \in GateInputs
      BY <2>2, <2>7
    <3> QED
      BY <3>1 DEF InputInv, Chosen
  <2> QED
    BY <2>1, <2>3, <2>4, <2>5, <2>6, <2>7, Zenon DEF RuntimeNext
<1> QED
  BY <1>1, <1>2, PTL DEF RuntimeSpec

\* Every gate of every behaviour shows what it passes.
THEOREM GatesAlwaysHold == RuntimeSpec => []GatesHold
<1>1. GateInputs \subseteq GateRecords(Names)
  BY IntakesTyped, BlueprintsTyped, CrateBuildsTyped, CouplesTyped, BuildTestsTyped,
     LaunchInputsTyped, Zenon DEF GateInputs
<1>2. InputInv => GatesHold
  BY <1>1, GatesShowWhatTheyPass, Zenon DEF InputInv, GatesHold
<1> QED
  BY <1>2, InputsAreOfTheirPart, PTL

(***************************************************************************)
(* The records of the stores (VibeRecords), for any number of them and any *)
(* texts.                                                                  *)
(***************************************************************************)
\* The writer of a record and its reader mean the same fields in the same forms.
LEMMA FieldsAreRead ==
  /\ DOMAIN Files!Writes = DOMAIN Files!Reads
  /\ \A record \in DOMAIN Files!Writes : Files!Writes[record] = Files!Reads[record]
<1>1. Files!LedgerToJson = Files!LedgerFromJson
  BY DEF Files!LedgerToJson, Files!LedgerFromJson, Files!As, Files!AsList, Files!AsText,
         Files!OrNull, Files!StringField, Files!NumberField, Files!BoolField,
         Files!StringArrayField, Files!Parsed, Files!ObjectArray, Files!OptionalObject,
         Files!RunStatus
<1>2. Files!RequirementsJson = Files!RequirementsFromJson
  BY DEF Files!RequirementsJson, Files!RequirementsFromJson, Files!As, Files!AsList,
         Files!StringField, Files!StringArrayField, Files!ObjectField
<1>3. Files!BlueprintJson = Files!BlueprintFromJson
  BY DEF Files!BlueprintJson, Files!BlueprintFromJson, Files!As, Files!AsList,
         Files!NumberField, Files!StringArrayField, Files!ObjectField, Files!ObjectArray
<1>4. Files!CrateJson = Files!CrateFromJson
  BY DEF Files!CrateJson, Files!CrateFromJson, Files!As, Files!StringField
<1>5. Files!EdgeJson = Files!EdgeFromJson
  BY DEF Files!EdgeJson, Files!EdgeFromJson, Files!As, Files!StringField
<1>6. Files!ContractJson = Files!ContractFromJson
  BY DEF Files!ContractJson, Files!ContractFromJson, Files!As, Files!AsList, Files!StringField,
         Files!StringArrayField
<1>7. Files!ReviewJson = Files!ReviewFromJson
  BY DEF Files!ReviewJson, Files!ReviewFromJson, Files!As, Files!AsList, Files!StringField,
         Files!BoolField, Files!StringArrayField, Files!ObjectArray
<1>8. Files!StepOutputJson = Files!StepOutputFromJson
  BY DEF Files!StepOutputJson, Files!StepOutputFromJson, Files!As, Files!AsList,
         Files!StringField, Files!NumberField, Files!StringArrayField, Files!Parsed,
         Files!ObjectArray
<1>9. Files!WiringJson = Files!WiringFromJson
  BY DEF Files!WiringJson, Files!WiringFromJson, Files!As, Files!AsList, Files!AsText,
         Files!StringField, Files!ObjectArray, Files!WiringStatus
<1>10. Files!DebtJson = Files!DebtFromJson
  BY DEF Files!DebtJson, Files!DebtFromJson, Files!As, Files!StringField, Files!NumberField,
         Files!Parsed
<1>11. Files!RetryJson = Files!RetryFromJson
  BY DEF Files!RetryJson, Files!RetryFromJson, Files!As, Files!AsList, Files!StringField,
         Files!NumberField, Files!Parsed, Files!ObjectArray
<1>12. Files!LaunchJson = Files!LaunchFromJson
  BY DEF Files!LaunchJson, Files!LaunchFromJson, Files!As, Files!AsList, Files!BoolField,
         Files!ObjectField, Files!ObjectArray
<1>13. Files!TripJson = Files!TripFromJson
  BY DEF Files!TripJson, Files!TripFromJson, Files!As, Files!AsList, Files!StringField,
         Files!ObjectArray, Files!BusLayers
<1>14. Files!ArtifactJson = Files!ArtifactFromJson
  BY DEF Files!ArtifactJson, Files!ArtifactFromJson, Files!As, Files!StringField
<1>15. Files!RecordJson = Files!ParseRecord
  BY DEF Files!RecordJson, Files!ParseRecord, Files!As, Files!AsList, Files!OrNull,
         Files!StringField, Files!NumberField, Files!StringArrayField, Files!U64Array,
         Files!OptionalNumber, Files!Parsed
<1>16. Files!ManifestJson = Files!ParseManifest
  BY DEF Files!ManifestJson, Files!ParseManifest, Files!As, Files!StringField,
         Files!NumberField
<1>17. Files!EntryToJson = Files!ParseEntry
  BY DEF Files!EntryToJson, Files!ParseEntry, Files!As, Files!AsList, Files!OrNull,
         Files!StringField, Files!NumberField, Files!StringArrayField, Files!Parsed,
         Files!OptionalObject
<1> DEFINE R == {"ledger", "requirements", "blueprint", "crate", "edge", "contract", "review",
                 "step_output", "wiring", "debt", "retry", "launch", "trip", "artifact", "turn",
                 "session", "entry"}
<1>18. DOMAIN Files!Writes = R /\ DOMAIN Files!Reads = R
  BY DEF Files!Writes, Files!Reads
<1>19. /\ Files!Writes["ledger"] = Files!LedgerToJson /\ Files!Reads["ledger"] = Files!LedgerFromJson
       /\ Files!Writes["requirements"] = Files!RequirementsJson /\ Files!Reads["requirements"] = Files!RequirementsFromJson
       /\ Files!Writes["blueprint"] = Files!BlueprintJson /\ Files!Reads["blueprint"] = Files!BlueprintFromJson
       /\ Files!Writes["crate"] = Files!CrateJson /\ Files!Reads["crate"] = Files!CrateFromJson
       /\ Files!Writes["edge"] = Files!EdgeJson /\ Files!Reads["edge"] = Files!EdgeFromJson
       /\ Files!Writes["contract"] = Files!ContractJson /\ Files!Reads["contract"] = Files!ContractFromJson
       /\ Files!Writes["review"] = Files!ReviewJson /\ Files!Reads["review"] = Files!ReviewFromJson
       /\ Files!Writes["step_output"] = Files!StepOutputJson /\ Files!Reads["step_output"] = Files!StepOutputFromJson
       /\ Files!Writes["wiring"] = Files!WiringJson /\ Files!Reads["wiring"] = Files!WiringFromJson
       /\ Files!Writes["debt"] = Files!DebtJson /\ Files!Reads["debt"] = Files!DebtFromJson
       /\ Files!Writes["retry"] = Files!RetryJson /\ Files!Reads["retry"] = Files!RetryFromJson
       /\ Files!Writes["launch"] = Files!LaunchJson /\ Files!Reads["launch"] = Files!LaunchFromJson
       /\ Files!Writes["trip"] = Files!TripJson /\ Files!Reads["trip"] = Files!TripFromJson
       /\ Files!Writes["artifact"] = Files!ArtifactJson /\ Files!Reads["artifact"] = Files!ArtifactFromJson
       /\ Files!Writes["turn"] = Files!RecordJson /\ Files!Reads["turn"] = Files!ParseRecord
       /\ Files!Writes["session"] = Files!ManifestJson /\ Files!Reads["session"] = Files!ParseManifest
       /\ Files!Writes["entry"] = Files!EntryToJson /\ Files!Reads["entry"] = Files!ParseEntry
  BY DEF Files!Writes, Files!Reads
<1> QED
  BY <1>1, <1>2, <1>3, <1>4, <1>5, <1>6, <1>7, <1>8, <1>9, <1>10, <1>11, <1>12, <1>13, <1>14,
     <1>15, <1>16, <1>17, <1>18, <1>19, Zenon

\* A sequence of n files, whatever the files are.
Listed(files, n) == n \in Nat /\ files = [i \in 1..n |-> files[i]]

LEMMA ListedTyped ==
  ASSUME NEW files, NEW n, Listed(files, n), NEW e
  PROVE  /\ Len(files) = n /\ DOMAIN files = 1..n /\ n \in Nat
         /\ \E S : files \in Seq(S) /\ e \in S
<1> DEFINE S == {files[i] : i \in 1..n} \cup {e}
           g == [i \in 1..n |-> files[i]]
<1>1. files = g /\ n \in Nat
  BY DEF Listed
<1>2. g \in Seq(S) /\ Len(g) = n /\ DOMAIN g = 1..n
  BY <1>1
<1>3. e \in S
  OBVIOUS
<1> HIDE DEF g, S
<1> QED
  BY <1>1, <1>2, <1>3

LEMMA ListAppended ==
  ASSUME NEW files, NEW n, Listed(files, n), NEW e
  PROVE  /\ Listed(Append(files, e), n + 1)
         /\ Append(files, e)[n + 1] = e
         /\ \A i \in 1..n : Append(files, e)[i] = files[i]
<1>1. PICK S : files \in Seq(S) /\ e \in S
  BY ListedTyped
<1>2. Len(files) = n /\ n \in Nat
  BY ListedTyped
<1>3. /\ Append(files, e) \in Seq(S) /\ Len(Append(files, e)) = n + 1
      /\ Append(files, e)[n + 1] = e
      /\ \A i \in 1..n : Append(files, e)[i] = files[i]
  BY <1>1, <1>2
<1> DEFINE g == Append(files, e)
<1> HIDE DEF g
<1>4. g \in Seq(S) /\ Len(g) = n + 1 => g = [i \in 1..(n + 1) |-> g[i]]
  BY <1>2
<1> QED
  BY <1>2, <1>3, <1>4 DEF g, Listed

\* What the next file is linked to, and what a file must be linked to.
LEMMA LinksBefore ==
  ASSUME NEW files, NEW n, Listed(files, n)
  PROVE  /\ Files!LinkOf(files) = IF n = 0 THEN <<>> ELSE files[n].link
         /\ \A i \in 1..n : Files!LinkOf(SubSeq(files, 1, i - 1))
                              = IF i = 1 THEN <<>> ELSE files[i - 1].link
<1>1. PICK S : files \in Seq(S)
  BY ListedTyped
<1>2. Len(files) = n /\ n \in Nat
  BY ListedTyped
<1>3. \A s \in Seq(S) : Files!LinkOf(s) = IF Len(s) = 0 THEN <<>> ELSE s[Len(s)].link
  BY DEF Files!LinkOf
<1>4. ASSUME NEW i \in 1..n
      PROVE  Files!LinkOf(SubSeq(files, 1, i - 1)) = IF i = 1 THEN <<>> ELSE files[i - 1].link
  <2> DEFINE s == SubSeq(files, 1, i - 1)
  <2>1. s \in Seq(S) /\ Len(s) = i - 1 /\ (i # 1 => s[i - 1] = files[i - 1])
    BY <1>1, <1>2
  <2> HIDE DEF s
  <2>2. Files!LinkOf(s) = IF i = 1 THEN <<>> ELSE files[i - 1].link
    BY <1>3, <2>1
  <2> QED
    BY <2>2 DEF s
<1> QED
  BY <1>1, <1>2, <1>3, <1>4

(***************************************************************************)
(* The files of a store after its texts.                                   *)
(***************************************************************************)
IsBuilt(f, store, texts, n) ==
  f = [k \in 0..n |->
         IF k = 0 THEN <<>> ELSE Files!WithRecord(store, f[k - 1], texts[k]).files]

LEMMA BuiltExists ==
  ASSUME NEW store, NEW texts, NEW n \in Nat
  PROVE  \E f : IsBuilt(f, store, texts, n)
<1> DEFINE Made(f, k) == Files!WithRecord(store, f[k - 1], texts[k]).files
           T == {k \in Nat : \E f : IsBuilt(f, store, texts, k)}
<1>1. 0 \in T
  <2> DEFINE f == [k \in 0..0 |-> <<>>]
  <2>1. IsBuilt(f, store, texts, 0)
    BY DEF IsBuilt
  <2> QED
    BY <2>1
<1>2. ASSUME NEW k \in 0..n, k < n, k \in T PROVE k + 1 \in T
  <2>1. PICK f : IsBuilt(f, store, texts, k)
    BY <1>2
  <2> DEFINE e == Files!WithRecord(store, f[k], texts[k + 1]).files
             g == [j \in 0..(k + 1) |-> IF j = k + 1 THEN e ELSE f[j]]
  <2>2. \A j \in 0..k : f[j] = IF j = 0 THEN <<>> ELSE Made(f, j)
    BY <2>1, Zenon DEF IsBuilt
  <2>3. \A j \in 0..(k + 1) : g[j] = IF j = 0 THEN <<>> ELSE Made(g, j)
    <3> SUFFICES ASSUME NEW j \in 0..(k + 1)
                 PROVE  g[j] = IF j = 0 THEN <<>> ELSE Made(g, j)
      OBVIOUS
    <3>1. CASE j = k + 1
      <4>1. j # 0 /\ g[j] = e /\ j - 1 = k /\ g[k] = f[k]
        BY <3>1 DEF g
      <4>2. Made(g, j) = e
        BY <3>1, <4>1 DEF e
      <4> HIDE DEF e, g, Made
      <4> QED
        BY <4>1, <4>2
    <3>2. CASE j # k + 1
      <4>1. j \in 0..k /\ g[j] = f[j]
        BY <3>2
      <4>2. j # 0 => g[j - 1] = f[j - 1]
        BY <3>2
      <4>3. j # 0 => Made(g, j) = Made(f, j)
        BY <4>2, Zenon
      <4> HIDE DEF e, g, Made
      <4> QED
        BY <2>2, <4>1, <4>3
    <3> QED
      BY <3>1, <3>2
  <2>4. IsBuilt(g, store, texts, k + 1)
    <3>1. g = [j \in 0..(k + 1) |-> g[j]]
      BY DEF g
    <3> HIDE DEF g
    <3>2. [j \in 0..(k + 1) |-> g[j]] = [j \in 0..(k + 1) |-> IF j = 0 THEN <<>> ELSE Made(g, j)]
      BY <2>3, Zenon
    <3> QED
      BY <3>1, <3>2, Zenon DEF IsBuilt
  <2> HIDE DEF g
  <2> QED
    BY <2>4
<1> HIDE DEF T
<1>3. n \in T
  BY <1>1, <1>2, UpTo
<1> QED
  BY <1>3 DEF T

LEMMA FilesBuilt ==
  ASSUME NEW store, NEW texts, Len(texts) \in Nat
  PROVE  \E f : /\ IsBuilt(f, store, texts, Len(texts))
                /\ Files!FilesOf(store, texts) = f[Len(texts)]
<1> DEFINE f == CHOOSE g : IsBuilt(g, store, texts, Len(texts))
<1>1. IsBuilt(f, store, texts, Len(texts))
  BY BuiltExists, Zenon
<1>2. Files!FilesOf(store, texts) = f[Len(texts)]
  BY DEF Files!FilesOf, IsBuilt
<1> QED
  BY <1>1, <1>2, Zenon

\* A text that the JSON of its record keeps, or that its hash is taken from.
Faithful(store, text) == Files!Hashed(store, text) = Files!Kept(text)

\* The files of the first m texts: each with the hash of its place, of the file
\* before it and of its text.
Chain(store, texts, files, m) ==
  /\ Listed(files, m)
  /\ \A i \in 1..m :
       LET previous == IF i = 1 THEN <<>> ELSE files[i - 1].link
           hash     == <<i, previous, Files!Kept(texts[i])>>
       IN  files[i] = [name |-> <<i, hash>>, ordinal |-> i, previous |-> previous,
                       text |-> Files!Kept(texts[i]), hash |-> hash, link |-> hash]

LEMMA ChainLoads ==
  ASSUME NEW store, NEW texts, NEW files, NEW m, Chain(store, texts, files, m)
  PROVE  Files!Loads(store, files)
<1>1. Listed(files, m) /\ DOMAIN files = 1..m /\ m \in Nat
  BY ListedTyped, Zenon DEF Chain
<1>2. ASSUME NEW i \in 1..m PROVE Files!Holds(store, files, i)
  <2>1. Files!LinkOf(SubSeq(files, 1, i - 1)) = IF i = 1 THEN <<>> ELSE files[i - 1].link
    BY <1>1, LinksBefore
  <2> DEFINE previous == IF i = 1 THEN <<>> ELSE files[i - 1].link
             text == Files!Kept(texts[i])
             hash == <<i, previous, text>>
  <2>2. files[i] = [name |-> <<i, hash>>, ordinal |-> i, previous |-> previous,
                    text |-> text, hash |-> hash, link |-> hash]
    BY DEF Chain
  <2> HIDE DEF previous, text
  <2>3. /\ files[i].ordinal = i /\ files[i].previous = previous
        /\ files[i].hash = <<files[i].ordinal, files[i].previous, files[i].text>>
        /\ files[i].name = <<files[i].ordinal, files[i].hash>>
    BY <2>2
  <2>4. Files!LinkOf(SubSeq(files, 1, i - 1)) = previous
    BY <2>1 DEF previous
  <2> QED
    BY <2>3, <2>4, Zenon DEF Files!Holds
<1> QED
  BY <1>1, <1>2, Zenon DEF Files!Loads

LEMMA ChainGrows ==
  ASSUME NEW store, NEW texts, NEW files, NEW m, Chain(store, texts, files, m),
         Faithful(store, texts[m + 1])
  PROVE  Chain(store, texts, Append(files, Files!NewFile(store, files, texts[m + 1])), m + 1)
<1> DEFINE e == Files!NewFile(store, files, texts[m + 1])
           next == Append(files, e)
<1>1. Listed(files, m) /\ Len(files) = m /\ m \in Nat
  BY ListedTyped, Zenon DEF Chain
<1>2. /\ Listed(next, m + 1) /\ next[m + 1] = e
      /\ \A i \in 1..m : next[i] = files[i]
  BY <1>1, ListAppended
<1> DEFINE Before(i) == IF i = 1 THEN <<>> ELSE next[i - 1].link
           Hash(i) == <<i, Before(i), Files!Kept(texts[i])>>
           File(i) == [name |-> <<i, Hash(i)>>, ordinal |-> i, previous |-> Before(i),
                       text |-> Files!Kept(texts[i]), hash |-> Hash(i), link |-> Hash(i)]
<1>3. next[m + 1] = File(m + 1)
  <2>1. Files!LinkOf(files) = IF m = 0 THEN <<>> ELSE files[m].link
    BY <1>1, LinksBefore
  <2>2. Files!LinkOf(files) = Before(m + 1)
    <3>1. m = 0 <=> m + 1 = 1
      BY <1>1
    <3>2. m # 0 => next[(m + 1) - 1] = files[m]
      BY <1>1, <1>2
    <3> HIDE DEF next
    <3> QED
      BY <2>1, <3>1, <3>2
  <2>3. e = [name |-> <<m + 1, <<m + 1, Before(m + 1), Files!Kept(texts[m + 1])>>>>,
             ordinal |-> m + 1, previous |-> Before(m + 1), text |-> Files!Kept(texts[m + 1]),
             hash |-> <<m + 1, Before(m + 1), Files!Kept(texts[m + 1])>>,
             link |-> <<m + 1, Before(m + 1), Files!Kept(texts[m + 1])>>]
    <3> HIDE DEF Before, next
    <3> QED
      BY <1>1, <2>2, Zenon DEF Files!NewFile, Faithful
  <2> QED
    BY <1>2, <2>3, Zenon
<1>4. ASSUME NEW i \in 1..m PROVE next[i] = File(i)
  <2>1. i # 1 => i - 1 \in 1..m
    BY <1>1
  <2>2. Before(i) = IF i = 1 THEN <<>> ELSE files[i - 1].link
    BY <1>2, <2>1, Zenon
  <2>3. files[i] = [name |-> <<i, <<i, Before(i), Files!Kept(texts[i])>>>>, ordinal |-> i,
                    previous |-> Before(i), text |-> Files!Kept(texts[i]),
                    hash |-> <<i, Before(i), Files!Kept(texts[i])>>,
                    link |-> <<i, Before(i), Files!Kept(texts[i])>>]
    <3> HIDE DEF Before, next
    <3> QED
      BY <2>2, Zenon DEF Chain
  <2> QED
    BY <1>2, <2>3, Zenon
<1>5. \A i \in 1..(m + 1) : next[i] = File(i)
  <2>1. \A i \in 1..(m + 1) : i \in 1..m \/ i = m + 1
    BY <1>1
  <2> HIDE DEF next, File
  <2> QED
    BY <1>3, <1>4, <2>1, Zenon
<1>6. Chain(store, texts, next, m + 1)
  <2> HIDE DEF next
  <2> QED
    BY <1>2, <1>5, Zenon DEF Chain
<1> QED
  BY <1>6

\* A session has one record, any other store one for each text.
Size(store, n) == IF store = "session" /\ n # 0 THEN 1 ELSE n

LEMMA FilesChained ==
  ASSUME NEW store, NEW T, NEW texts \in Seq(T), \A i \in 1..Len(texts) : Faithful(store, texts[i])
  PROVE  Chain(store, texts, Files!FilesOf(store, texts), Size(store, Len(texts)))
<1> DEFINE n == Len(texts)
<1>1. n \in Nat
  OBVIOUS
<1>2. PICK f : IsBuilt(f, store, texts, n) /\ Files!FilesOf(store, texts) = f[n]
  BY <1>1, FilesBuilt, Zenon
<1>3. \A k \in 0..n : f[k] = IF k = 0 THEN <<>>
                             ELSE Files!WithRecord(store, f[k - 1], texts[k]).files
  BY <1>2, Zenon DEF IsBuilt
<1> DEFINE Done == {k \in Nat : k <= n => Chain(store, texts, f[k], Size(store, k))}
<1>4. 0 \in Done
  <2>1. f[0] = <<>> /\ Size(store, 0) = 0
    BY <1>1, <1>3 DEF Size
  <2>2. Chain(store, texts, <<>>, 0)
    BY DEF Chain, Listed
  <2> QED
    BY <2>1, <2>2
<1>5. ASSUME NEW k \in 0..n, k < n, k \in Done PROVE k + 1 \in Done
  <2>1. Chain(store, texts, f[k], Size(store, k))
    BY <1>1, <1>5
  <2>2. f[k + 1] = Files!WithRecord(store, f[k], texts[k + 1]).files
    <3>1. k + 1 \in 0..n /\ k + 1 # 0 /\ (k + 1) - 1 = k
      BY <1>1, <1>5
    <3> QED
      BY <1>3, <3>1, Zenon
  <2>3. Files!Loads(store, f[k])
    BY <2>1, ChainLoads
  <2>4. (f[k] = <<>>) <=> (k = 0)
    <3>1. Len(f[k]) = Size(store, k) /\ Listed(f[k], Size(store, k))
      BY <2>1, ListedTyped, Zenon DEF Chain
    <3>2. Size(store, k) = 0 <=> k = 0
      BY <1>1 DEF Size
    <3>3. k = 0 => f[k] = <<>>
      BY <1>1, <1>3
    <3> QED
      BY <3>1, <3>2, <3>3
  <2>5. CASE store = "session" /\ k # 0
    <3>1. f[k + 1] = f[k]
      BY <2>2, <2>4, <2>5 DEF Files!WithRecord
    <3>2. Size(store, k + 1) = Size(store, k)
      BY <1>1, <2>5 DEF Size
    <3> QED
      BY <2>1, <3>1, <3>2
  <2>6. CASE ~(store = "session" /\ k # 0)
    <3>1. f[k + 1] = Append(f[k], Files!NewFile(store, f[k], texts[k + 1]))
      BY <2>2, <2>3, <2>4, <2>6 DEF Files!WithRecord
    <3>2. Size(store, k) = k /\ Size(store, k + 1) = k + 1
      BY <1>1, <2>6 DEF Size
    <3>3. Faithful(store, texts[k + 1])
      BY <1>1, <1>5
    <3>4. Chain(store, texts, f[k], k)
      BY <2>1, <3>2
    <3>5. Chain(store, texts, Append(f[k], Files!NewFile(store, f[k], texts[k + 1])), k + 1)
      BY <3>3, <3>4, ChainGrows, Zenon
    <3>6. Chain(store, texts, f[k + 1], Size(store, k + 1))
      BY <3>1, <3>2, <3>5
    <3> QED
      BY <3>6
  <2> QED
    BY <2>5, <2>6
<1> HIDE DEF Done, n
<1>6. n \in Done
  <2>1. \A k \in 0..n : k \in Done
    BY <1>1, <1>4, <1>5, UpTo, Zenon
  <2> QED
    BY <1>1, <2>1
<1>7. Chain(store, texts, f[n], Size(store, n))
  BY <1>1, <1>6 DEF Done
<1> QED
  BY <1>2, <1>7 DEF n

LEMMA Untouched ==
  ASSUME NEW store, NEW T, NEW texts \in Seq(T), Files!NoEscapes(texts) \/ store = "ledger"
  PROVE  /\ Chain(store, texts, Files!FilesOf(store, texts), Size(store, Len(texts)))
         /\ store # "ledger" => \A i \in 1..Len(texts) : Files!Kept(texts[i]) = texts[i]
<1>1. DOMAIN texts = 1..Len(texts)
  OBVIOUS
<1>2. \A i \in 1..Len(texts) : Faithful(store, texts[i])
  BY <1>1, Zenon DEF Faithful, Files!Hashed, Files!NoEscapes
<1>3. store # "ledger" => \A i \in 1..Len(texts) : Files!Kept(texts[i]) = texts[i]
  BY <1>1, Zenon DEF Files!NoEscapes
<1> QED
  BY <1>2, <1>3, FilesChained

\* What a store was given is what it gives back (append, create and save, and
\* the load of each store): for any number of records with any texts, every
\* form a field is written in is one its reader takes, no reader asks for a
\* field that is not written, and records without
\* control characters, and the snapshots of a ledger whatever is in them, load
\* with their chain and with their texts.
THEOREM RecordsAreReadBack ==
  \A store, T : \A texts \in Seq(T) : Files!RecordsReadBack(store, texts)
<1> SUFFICES ASSUME NEW store, NEW T, NEW texts \in Seq(T),
                    Files!NoEscapes(texts) \/ store = "ledger"
             PROVE  LET files == Files!FilesOf(store, texts) IN
                      /\ Files!Loads(store, files)
                      /\ Len(files) = IF store = "session" /\ texts # <<>> THEN 1 ELSE Len(texts)
                      /\ \A i \in DOMAIN files : files[i].text = Files!Kept(texts[i])
  <2>1. \A record \in DOMAIN Files!Writes :
          /\ Files!Writes[record] \subseteq Files!Reads[record]
          /\ Files!Names(Files!Reads[record]) \subseteq Files!Names(Files!Writes[record])
    BY FieldsAreRead, Zenon
  <2> QED
    BY <2>1, Zenon DEF Files!RecordsReadBack
<1> DEFINE files == Files!FilesOf(store, texts)
           m == Size(store, Len(texts))
<1>1. Chain(store, texts, files, m)
  BY Untouched, Zenon
<1> HIDE DEF files, m
<1>2. Files!Loads(store, files)
  BY <1>1, ChainLoads
<1>3. Len(files) = m /\ DOMAIN files = 1..m
  BY <1>1, ListedTyped, Zenon DEF Chain
<1>4. m = IF store = "session" /\ texts # <<>> THEN 1 ELSE Len(texts)
  BY DEF m, Size
<1>5. \A i \in DOMAIN files : files[i].text = Files!Kept(texts[i])
  BY <1>1, <1>3 DEF Chain
<1> QED
  BY <1>2, <1>3, <1>4, <1>5 DEF files

(***************************************************************************)
(* Damage.                                                                 *)
(***************************************************************************)
\* A file of a chain, and what it holds.
LEMMA FileOfChain ==
  ASSUME NEW store, NEW texts, NEW files, NEW m, Chain(store, texts, files, m), NEW i \in 1..m
  PROVE  /\ files[i].ordinal = i
         /\ files[i].previous = IF i = 1 THEN <<>> ELSE files[i - 1].link
         /\ files[i].hash = <<i, files[i].previous, files[i].text>>
         /\ files[i].link = files[i].hash
         /\ files[i].text = Files!Kept(texts[i])
         /\ DOMAIN files[i] = {"name", "ordinal", "previous", "text", "hash", "link"}
<1> DEFINE previous == IF i = 1 THEN <<>> ELSE files[i - 1].link
           hash == <<i, previous, Files!Kept(texts[i])>>
<1>1. files[i] = [name |-> <<i, hash>>, ordinal |-> i, previous |-> previous,
                  text |-> Files!Kept(texts[i]), hash |-> hash, link |-> hash]
  BY DEF Chain
<1> HIDE DEF previous
<1>2. /\ files[i].ordinal = i /\ files[i].previous = previous /\ files[i].text = Files!Kept(texts[i])
      /\ files[i].hash = hash /\ files[i].link = hash
      /\ DOMAIN files[i] = {"name", "ordinal", "previous", "text", "hash", "link"}
  BY <1>1
<1> QED
  BY <1>2 DEF previous

\* A file of a sequence that does not hold keeps the store from loading.
LEMMA Refused ==
  ASSUME NEW store, NEW files, NEW n, Listed(files, n), NEW i \in 1..n,
         \/ files[i].ordinal # i
         \/ files[i].hash # <<files[i].ordinal, files[i].previous, files[i].text>>
         \/ i # 1 /\ files[i].previous # files[i - 1].link
  PROVE  ~Files!Loads(store, files)
<1>1. DOMAIN files = 1..n
  BY ListedTyped
<1>2. i # 1 => Files!LinkOf(SubSeq(files, 1, i - 1)) = files[i - 1].link
  BY LinksBefore
<1>3. ~Files!Holds(store, files, i)
  BY <1>2, Zenon DEF Files!Holds
<1> QED
  BY <1>1, <1>3, Zenon DEF Files!Loads

Forgery == <<"x", "x", "x">>
Foreign == <<0, <<>>, Forgery>>

LEMMA OneFileChanged ==
  ASSUME NEW store, NEW texts, NEW files, NEW m, Chain(store, texts, files, m),
         NEW i \in 1..m, Files!Kept(texts[i]) # Forgery
  PROVE  /\ ~Files!Loads(store, [files EXCEPT ![i].text = Forgery])
         /\ ~Files!Loads(store, [files EXCEPT ![i].hash = Foreign, ![i].link = Foreign])
         /\ ~Files!Loads(store, [files EXCEPT ![i].previous = Foreign])
         /\ ~Files!Loads(store, [files EXCEPT ![i].ordinal = @ + 1])
<1>1. Listed(files, m) /\ DOMAIN files = 1..m /\ m \in Nat
  BY ListedTyped, Zenon DEF Chain
<1>2. /\ files[i].ordinal = i /\ files[i].previous = IF i = 1 THEN <<>> ELSE files[i - 1].link
      /\ files[i].hash = <<i, files[i].previous, files[i].text>>
      /\ files[i].text # Forgery
      /\ DOMAIN files[i] = {"name", "ordinal", "previous", "text", "hash", "link"}
  BY FileOfChain
<1>3. files[i].previous # Foreign
  <2>1. CASE i = 1
    BY <1>2, <2>1 DEF Foreign
  <2>2. CASE i # 1
    <3>1. i - 1 \in 1..m
      BY <1>1, <2>2
    <3>2. files[i - 1].link = <<i - 1, files[i - 1].previous, files[i - 1].text>>
      BY <3>1, FileOfChain
    <3>3. i - 1 # 0
      BY <2>2
    <3> QED
      BY <1>2, <2>2, <3>2, <3>3 DEF Foreign
  <2> QED
    BY <2>1, <2>2
<1>4. ASSUME NEW d, DOMAIN d = 1..m, d = [j \in 1..m |-> d[j]] PROVE Listed(d, m)
  BY <1>1, <1>4 DEF Listed
<1>5. ~Files!Loads(store, [files EXCEPT ![i].text = Forgery])
  <2> DEFINE d == [files EXCEPT ![i].text = Forgery]
  <2>1. Listed(d, m)
    BY <1>1 DEF Listed
  <2>2. d[i].text = Forgery /\ d[i].ordinal = i /\ d[i].previous = files[i].previous
        /\ d[i].hash = files[i].hash
    BY <1>1, <1>2
  <2> HIDE DEF d
  <2>3. d[i].hash # <<d[i].ordinal, d[i].previous, d[i].text>>
    BY <1>2, <2>2
  <2> QED
    BY <2>1, <2>3, Refused DEF d
<1>6. ~Files!Loads(store, [files EXCEPT ![i].hash = Foreign, ![i].link = Foreign])
  <2> DEFINE d == [files EXCEPT ![i].hash = Foreign, ![i].link = Foreign]
  <2>1. Listed(d, m)
    BY <1>1 DEF Listed
  <2>2. d[i].hash = Foreign /\ d[i].ordinal = i
    BY <1>1, <1>2
  <2> HIDE DEF d
  <2>3. d[i].hash # <<d[i].ordinal, d[i].previous, d[i].text>>
    BY <2>2 DEF Foreign
  <2> QED
    BY <2>1, <2>3, Refused DEF d
<1>7. ~Files!Loads(store, [files EXCEPT ![i].previous = Foreign])
  <2> DEFINE d == [files EXCEPT ![i].previous = Foreign]
  <2>1. Listed(d, m)
    BY <1>1 DEF Listed
  <2>2. /\ d[i].hash = files[i].hash /\ d[i].ordinal = i /\ d[i].previous = Foreign
        /\ d[i].text = files[i].text
    BY <1>1, <1>2
  <2> HIDE DEF d
  <2>3. d[i].hash # <<d[i].ordinal, d[i].previous, d[i].text>>
    BY <1>2, <1>3, <2>2
  <2> QED
    BY <2>1, <2>3, Refused DEF d
<1>8. ~Files!Loads(store, [files EXCEPT ![i].ordinal = @ + 1])
  <2> DEFINE d == [files EXCEPT ![i].ordinal = @ + 1]
  <2>1. Listed(d, m)
    BY <1>1 DEF Listed
  <2>2. d[i].ordinal = i + 1
    BY <1>1, <1>2
  <2> HIDE DEF d
  <2>3. d[i].ordinal # i
    BY <2>2
  <2> QED
    BY <2>1, <2>3, Refused DEF d
<1> QED
  BY <1>5, <1>6, <1>7, <1>8

\* A file that is not the last, forged with its hashes and its name, or gone.
Forged(files, i) ==
  LET h == <<files[i].ordinal, files[i].previous, Forgery>>
  IN  [files EXCEPT ![i] = [files[i] EXCEPT !.text = Forgery, !.hash = h, !.link = h,
                                            !.name = <<i, h>>]]

LEMMA FileBeforeAnother ==
  ASSUME NEW store, NEW texts, NEW files, NEW m, Chain(store, texts, files, m),
         NEW i \in 1..(m - 1), Files!Kept(texts[i]) # Forgery
  PROVE  /\ ~Files!Loads(store, Forged(files, i))
         /\ ~Files!Loads(store, SubSeq(files, 1, i - 1) \o SubSeq(files, i + 1, m))
<1>1. /\ Listed(files, m) /\ DOMAIN files = 1..m /\ Len(files) = m /\ m \in Nat
      /\ \E S : files \in Seq(S)
  BY ListedTyped, Zenon DEF Chain
<1>2. i \in 1..m /\ i + 1 \in 1..m /\ i + 1 # 1 /\ (i + 1) - 1 = i
  BY <1>1
<1>3. /\ files[i].link = <<i, files[i].previous, files[i].text>> /\ files[i].text # Forgery
      /\ files[i].ordinal = i
      /\ DOMAIN files[i] = {"name", "ordinal", "previous", "text", "hash", "link"}
  BY <1>2, FileOfChain
<1>4. files[i + 1].previous = files[i].link /\ files[i + 1].ordinal = i + 1
  <2> DEFINE k == i + 1
  <2>1. k \in 1..m /\ k # 1 /\ k - 1 = i
    BY <1>2
  <2> HIDE DEF k
  <2>2. files[k].ordinal = k /\ files[k].previous = IF k = 1 THEN <<>> ELSE files[k - 1].link
    BY <2>1, FileOfChain
  <2>3. files[k].ordinal = k /\ files[k].previous = files[i].link
    BY <2>1, <2>2
  <2> QED
    BY <2>3 DEF k
<1>5. ~Files!Loads(store, Forged(files, i))
  <2> DEFINE h == <<files[i].ordinal, files[i].previous, Forgery>>
             file == [files[i] EXCEPT !.text = Forgery, !.hash = h, !.link = h, !.name = <<i, h>>]
             d == Forged(files, i)
  <2>1. d = [files EXCEPT ![i] = file]
    BY Zenon DEF Forged
  <2>2. file.link = h
    BY <1>3
  <2> HIDE DEF d, file
  <2>3. Listed(d, m) /\ d[i] = file /\ d[i + 1] = files[i + 1]
    BY <1>1, <1>2, <2>1 DEF Listed
  <2>4. d[i + 1].previous # d[i].link
    BY <1>3, <1>4, <2>2, <2>3
  <2>5. d[i + 1].previous # d[(i + 1) - 1].link
    BY <1>2, <2>4
  <2>6. ~Files!Loads(store, d)
    BY <1>2, <2>3, <2>5, Refused, Zenon
  <2> QED
    BY <2>6 DEF d
<1>6. ~Files!Loads(store, SubSeq(files, 1, i - 1) \o SubSeq(files, i + 1, m))
  <2> DEFINE d == SubSeq(files, 1, i - 1) \o SubSeq(files, i + 1, m)
  <2>1. PICK S : files \in Seq(S)
    BY <1>1
  <2>2. /\ SubSeq(files, 1, i - 1) \in Seq(S) /\ Len(SubSeq(files, 1, i - 1)) = i - 1
        /\ SubSeq(files, i + 1, m) \in Seq(S) /\ Len(SubSeq(files, i + 1, m)) = m - i
        /\ SubSeq(files, i + 1, m)[1] = files[i + 1]
    BY <1>1, <1>2, <2>1
  <2>3. d \in Seq(S) /\ Len(d) = m - 1 /\ d[i] = files[i + 1]
    <3> DEFINE a == SubSeq(files, 1, i - 1)
               b == SubSeq(files, i + 1, m)
    <3>1. a \in Seq(S) /\ b \in Seq(S) /\ Len(a) = i - 1 /\ Len(b) = m - i /\ b[1] = files[i + 1]
      BY <2>2
    <3> HIDE DEF a, b
    <3>2. /\ a \o b \in Seq(S) /\ Len(a \o b) = Len(a) + Len(b)
          /\ \A j \in 1..(Len(a) + Len(b)) :
               (a \o b)[j] = IF j <= Len(a) THEN a[j] ELSE b[j - Len(a)]
      BY <3>1, ConcatProperties
    <3>3. i \in 1..(Len(a) + Len(b)) /\ i - Len(a) = 1 /\ ~(i <= Len(a)) /\ Len(a) + Len(b) = m - 1
      BY <1>1, <1>2, <3>1
    <3> QED
      BY <3>1, <3>2, <3>3 DEF a, b
  <2> HIDE DEF d
  <2>4. Listed(d, m - 1)
    <3>1. d = [j \in 1..Len(d) |-> d[j]]
      BY <2>3
    <3> QED
      BY <1>1, <1>2, <2>3, <3>1 DEF Listed
  <2>5. d[i].ordinal # i
    BY <1>2, <1>4, <2>3
  <2> QED
    BY <2>4, <2>5, Refused DEF d
<1> QED
  BY <1>5, <1>6

\* No change of one record of a store and no loss of one but the last goes unnoticed
\* (load_unlocked), and a sealed scratchpad notices the loss of the last ones
\* (verify_seal), however many records there are and whatever their texts
\* are, when the change is one: no record has the text it is changed to.
THEOREM DamageIsRefused ==
  \A store, T : Forgery \notin T =>
    \A texts \in Seq(T) : Files!ChainDamageIsRefused(store, texts)
<1> SUFFICES ASSUME NEW store, NEW T, Forgery \notin T, NEW texts \in Seq(T),
                    Files!NoEscapes(texts), store # "session"
             PROVE  LET files == Files!FilesOf(store, texts) IN
                      /\ \A d \in Files!DamagedFiles(files) : ~Files!Loads(store, d)
                      /\ \A n \in 0..(Len(files) - 1) :
                           ~Files!SealHolds(Files!Seal(files), SubSeq(files, 1, n))
  BY Zenon DEF Files!ChainDamageIsRefused
<1> DEFINE files == Files!FilesOf(store, texts)
           m == Len(texts)
<1>1. Chain(store, texts, files, m)
  BY Untouched, Zenon DEF Size
<1>2. \A i \in 1..m : Files!Kept(texts[i]) # Forgery
  <2>1. DOMAIN texts = 1..m /\ \A i \in 1..m : texts[i] \in T
    OBVIOUS
  <2> QED
    BY <2>1, Zenon DEF Files!NoEscapes
<1> HIDE DEF files, m
<1>3. Len(files) = m /\ m \in Nat /\ \E S : files \in Seq(S)
  BY <1>1, ListedTyped, Zenon DEF Chain
<1>4. ASSUME NEW d \in Files!DamagedFiles(files) PROVE ~Files!Loads(store, d)
  <2>1. \/ \E i \in 1..m : \/ d = [files EXCEPT ![i].text = Forgery]
                           \/ d = [files EXCEPT ![i].hash = Foreign, ![i].link = Foreign]
                           \/ d = [files EXCEPT ![i].previous = Foreign]
                           \/ d = [files EXCEPT ![i].ordinal = @ + 1]
        \/ \E i \in 1..(m - 1) : \/ d = Forged(files, i)
                                 \/ d = SubSeq(files, 1, i - 1) \o SubSeq(files, i + 1, m)
    BY <1>3 DEF Files!DamagedFiles, Forgery, Foreign, Forged
  <2>2. CASE \E i \in 1..m : \/ d = [files EXCEPT ![i].text = Forgery]
                             \/ d = [files EXCEPT ![i].hash = Foreign, ![i].link = Foreign]
                             \/ d = [files EXCEPT ![i].previous = Foreign]
                             \/ d = [files EXCEPT ![i].ordinal = @ + 1]
    <3>1. PICK i \in 1..m : \/ d = [files EXCEPT ![i].text = Forgery]
                            \/ d = [files EXCEPT ![i].hash = Foreign, ![i].link = Foreign]
                            \/ d = [files EXCEPT ![i].previous = Foreign]
                            \/ d = [files EXCEPT ![i].ordinal = @ + 1]
      BY <2>2
    <3>2. Files!Kept(texts[i]) # Forgery
      BY <1>2
    <3>3. /\ ~Files!Loads(store, [files EXCEPT ![i].text = Forgery])
          /\ ~Files!Loads(store, [files EXCEPT ![i].hash = Foreign, ![i].link = Foreign])
          /\ ~Files!Loads(store, [files EXCEPT ![i].previous = Foreign])
          /\ ~Files!Loads(store, [files EXCEPT ![i].ordinal = @ + 1])
      BY <1>1, <3>2, OneFileChanged
    <3> QED
      BY <3>1, <3>3
  <2>3. CASE \E i \in 1..(m - 1) :
               \/ d = Forged(files, i)
               \/ d = SubSeq(files, 1, i - 1) \o SubSeq(files, i + 1, m)
    <3>1. PICK i \in 1..(m - 1) : \/ d = Forged(files, i)
                                  \/ d = SubSeq(files, 1, i - 1) \o SubSeq(files, i + 1, m)
      BY <2>3
    <3>2. Files!Kept(texts[i]) # Forgery
      BY <1>2, <1>3
    <3>3. /\ ~Files!Loads(store, Forged(files, i))
          /\ ~Files!Loads(store, SubSeq(files, 1, i - 1) \o SubSeq(files, i + 1, m))
      BY <1>1, <3>2, FileBeforeAnother
    <3> QED
      BY <3>1, <3>3
  <2> QED
    BY <2>1, <2>2, <2>3
<1>5. ASSUME NEW n \in 0..(Len(files) - 1)
      PROVE  ~Files!SealHolds(Files!Seal(files), SubSeq(files, 1, n))
  <2>1. Len(SubSeq(files, 1, n)) = n /\ n # Len(files)
    BY <1>3
  <2> QED
    BY <2>1 DEF Files!SealHolds, Files!Seal
<1> QED
  BY <1>4, <1>5 DEF files

(***************************************************************************)
(* The projection of a scratchpad.                                         *)
(***************************************************************************)
\* A function that each step makes from its value before.
IsIteration(f, x, G, n) == f = [k \in 0..n |-> IF k = 0 THEN x ELSE G[<<f[k - 1], k>>]]

LEMMA Iterates ==
  ASSUME NEW n \in Nat, NEW X, NEW x \in X, NEW G, \A y \in X, k \in 1..n : G[<<y, k>>] \in X
  PROVE  \E f \in [0..n -> X] : IsIteration(f, x, G, n)
<1> DEFINE Is(f, m) == IsIteration(f, x, G, m)
           T == {m \in Nat : m <= n => \E f \in [0..m -> X] : Is(f, m)}
<1>1. 0 \in T
  <2> DEFINE f == [k \in 0..0 |-> x]
  <2>1. f \in [0..0 -> X] /\ Is(f, 0)
    BY DEF IsIteration
  <2> QED
    BY <2>1
<1>2. ASSUME NEW m \in 0..n, m < n, m \in T PROVE m + 1 \in T
  <2>1. PICK f \in [0..m -> X] : Is(f, m)
    BY <1>2
  <2> DEFINE e == G[<<f[m], m + 1>>]
             g == [k \in 0..(m + 1) |-> IF k = m + 1 THEN e ELSE f[k]]
  <2>2. \A k \in 0..m : f[k] = IF k = 0 THEN x ELSE G[<<f[k - 1], k>>]
    BY <2>1, Zenon DEF IsIteration
  <2>3. e \in X
    <3>1. f[m] \in X /\ m + 1 \in 1..n
      BY <1>2
    <3> QED
      BY <3>1, Zenon
  <2> HIDE DEF e
  <2>4. g \in [0..(m + 1) -> X]
    BY <2>3
  <2>5. \A k \in 0..(m + 1) : g[k] = IF k = 0 THEN x ELSE G[<<g[k - 1], k>>]
    <3> SUFFICES ASSUME NEW k \in 0..(m + 1)
                 PROVE  g[k] = IF k = 0 THEN x ELSE G[<<g[k - 1], k>>]
      OBVIOUS
    <3>1. CASE k = m + 1
      <4>1. k # 0 /\ g[k] = e /\ g[k - 1] = f[m]
        BY <3>1
      <4> HIDE DEF g
      <4> QED
        BY <3>1, <4>1 DEF e
    <3>2. CASE k # m + 1
      <4>1. k \in 0..m /\ g[k] = f[k] /\ (k # 0 => g[k - 1] = f[k - 1])
        BY <3>2
      <4> HIDE DEF g
      <4> QED
        BY <2>2, <4>1
    <3> QED
      BY <3>1, <3>2
  <2>6. Is(g, m + 1)
    <3>1. g = [k \in 0..(m + 1) |-> g[k]]
      BY <2>4
    <3> HIDE DEF g
    <3> QED
      BY <2>5, <3>1 DEF IsIteration
  <2>7. m + 1 \in Nat
    BY <1>2
  <2> HIDE DEF g, Is
  <2> QED
    BY <2>4, <2>6, <2>7, Zenon
<1> HIDE DEF T
<1>3. n \in T
  BY <1>1, <1>2, UpTo
<1> QED
  BY <1>3 DEF T

\* What a concatenation with one element in front holds.
LEMMA Prepended ==
  ASSUME NEW S, NEW s \in Seq(S), NEW x \in S
  PROVE  /\ <<x>> \o s \in Seq(S) /\ Len(<<x>> \o s) = Len(s) + 1 /\ <<x>> \o s # <<>>
         /\ (<<x>> \o s)[1] = x
         /\ \A j \in 1..Len(s) : (<<x>> \o s)[j + 1] = s[j]
         /\ \A j \in 2..(Len(s) + 1) : (<<x>> \o s)[j] = s[j - 1]
<1> DEFINE a == <<x>>
<1>1. a \in Seq(S) /\ Len(a) = 1 /\ a[1] = x
  OBVIOUS
<1> HIDE DEF a
<1>2. /\ a \o s \in Seq(S) /\ Len(a \o s) = Len(a) + Len(s)
      /\ \A j \in 1..(Len(a) + Len(s)) : (a \o s)[j] = IF j <= Len(a) THEN a[j] ELSE s[j - Len(a)]
  BY <1>1, ConcatProperties
<1> DEFINE t == a \o s
<1> HIDE DEF t
<1>3. /\ t \in Seq(S) /\ Len(t) = Len(s) + 1 /\ t # <<>> /\ t[1] = x
      /\ \A j \in 1..Len(s) : t[j + 1] = s[j]
      /\ \A j \in 2..(Len(s) + 1) : t[j] = s[j - 1]
  BY <1>1, <1>2 DEF t
<1> QED
  BY <1>3 DEF t, a

\* The bytes of a header and of the first k blocks.
IsSum(u, header, shown, n) ==
  u = [k \in 0..n |-> IF k = 0 THEN header ELSE u[k - 1] + shown[k].bytes]

\* All sums of the blocks come to the total.
Totals(header, shown, total) ==
  \A u : IsSum(u, header, shown, Len(shown)) => u[Len(shown)] = total

Blocks == [at : Nat, bytes : Nat]

LEMMA SumExists ==
  ASSUME NEW header \in Nat, NEW shown \in Seq(Blocks)
  PROVE  \E u : IsSum(u, header, shown, Len(shown))
<1> DEFINE n == Len(shown)
           G == [p \in Nat \X (1..n) |-> p[1] + shown[p[2]].bytes]
<1>1. n \in Nat /\ \A k \in 1..n : shown[k].bytes \in Nat
  <2>1. n \in Nat /\ \A k \in 1..n : shown[k] \in Blocks
    OBVIOUS
  <2> QED
    BY <2>1, Zenon DEF Blocks
<1>2. \A y \in Nat, k \in 1..n : G[<<y, k>>] = y + shown[k].bytes /\ G[<<y, k>>] \in Nat
  BY <1>1
<1> HIDE DEF n, G
<1>3. PICK u \in [0..n -> Nat] : IsIteration(u, header, G, n)
  <2>1. /\ n \in Nat /\ header \in Nat
        /\ \A y \in Nat, k \in 1..n : G[<<y, k>>] \in Nat
    BY <1>1, <1>2
  <2> QED
    BY <2>1, Iterates, Zenon
<1>4. \A k \in 1..n : u[k - 1] \in Nat
  BY <1>1
<1>5. u = [k \in 0..n |-> IF k = 0 THEN header ELSE u[k - 1] + shown[k].bytes]
  <2>1. \A k \in 0..n : k # 0 => k \in 1..n
    BY <1>1
  <2>2. \A k \in 0..n : (IF k = 0 THEN header ELSE G[<<u[k - 1], k>>])
                         = (IF k = 0 THEN header ELSE u[k - 1] + shown[k].bytes)
    BY <1>2, <1>4, <2>1, Zenon
  <2> QED
    BY <1>3, <2>2 DEF IsIteration
<1> QED
  BY <1>5, Zenon DEF IsSum, n

LEMMA EmptyTotal ==
  ASSUME NEW header
  PROVE  Totals(header, <<>>, header)
<1>1. ASSUME NEW u, IsSum(u, header, <<>>, 0) PROVE u[0] = header
  BY <1>1 DEF IsSum
<1> QED
  BY <1>1 DEF Totals

LEMMA TotalGrows ==
  ASSUME NEW header \in Nat, NEW shown \in Seq(Blocks), NEW total \in Nat,
         Totals(header, shown, total), NEW b \in Blocks
  PROVE  Totals(header, <<b>> \o shown, total + b.bytes)
<1> DEFINE n == Len(shown)
           t == <<b>> \o shown
<1>1. n \in Nat /\ b.bytes \in Nat /\ \A k \in 1..n : shown[k].bytes \in Nat
  <2>1. n \in Nat /\ \A k \in 1..n : shown[k] \in Blocks
    OBVIOUS
  <2> QED
    BY <2>1, Zenon DEF Blocks
<1>2. Len(t) = n + 1 /\ t[1] = b /\ \A k \in 1..n : t[k + 1] = shown[k]
  BY Prepended
<1> HIDE DEF t
<1> SUFFICES ASSUME NEW u, IsSum(u, header, t, n + 1) PROVE u[n + 1] = total + b.bytes
  BY <1>2 DEF Totals, t
<1>3. /\ u[0] = header
      /\ \A k \in 1..(n + 1) : u[k] = u[k - 1] + t[k].bytes
  <2>1. \A k \in 0..(n + 1) : u[k] = IF k = 0 THEN header ELSE u[k - 1] + t[k].bytes
    BY Zenon DEF IsSum
  <2> HIDE DEF n
  <2> QED
    BY <1>1, <2>1
<1> HIDE DEF n
<1>4. \A k \in 0..(n + 1) : u[k] \in Nat
  <2> DEFINE T == {k \in Nat : k <= n + 1 => u[k] \in Nat}
  <2>1. 0 \in T
    BY <1>3
  <2>2. ASSUME NEW k \in 0..(n + 1), k < n + 1, k \in T PROVE k + 1 \in T
    <3>1. k + 1 \in 1..(n + 1) /\ (k + 1) - 1 = k /\ u[k] \in Nat
      BY <1>1, <2>2
    <3>2. u[k + 1] = u[k] + t[k + 1].bytes
      BY <1>3, <3>1
    <3>3. t[k + 1].bytes \in Nat
      <4>1. CASE k = 0
        BY <1>1, <1>2, <4>1
      <4>2. CASE k # 0
        <5>1. k \in 1..n
          BY <1>1, <2>2, <4>2
        <5> QED
          BY <1>1, <1>2, <5>1
      <4> QED
        BY <4>1, <4>2
    <3> QED
      BY <3>1, <3>2, <3>3
  <2> HIDE DEF T
  <2>3. \A k \in 0..(n + 1) : k \in T
    BY <1>1, <2>1, <2>2, UpTo, n + 1 \in Nat
  <2> QED
    BY <2>3 DEF T
<1> DEFINE v == [k \in 0..n |-> u[k + 1] - b.bytes]
<1>5. \A k \in 0..n : v[k] = IF k = 0 THEN header ELSE v[k - 1] + shown[k].bytes
  <2>1. v[0] = header
    <3>1. u[1] = u[0] + t[1].bytes
      BY <1>1, <1>3
    <3> QED
      BY <1>1, <1>2, <1>3, <3>1
  <2>2. ASSUME NEW k \in 1..n PROVE v[k] = v[k - 1] + shown[k].bytes
    <3>1. u[k + 1] = u[k] + shown[k].bytes
      <4>1. k + 1 \in 1..(n + 1) /\ (k + 1) - 1 = k
        BY <1>1
      <4> QED
        BY <1>2, <1>3, <4>1
    <3>2. v[k] = u[k + 1] - b.bytes /\ v[k - 1] = u[k] - b.bytes
      BY <1>1
    <3>3. u[k] \in Nat /\ u[k + 1] \in Nat /\ shown[k].bytes \in Nat /\ b.bytes \in Nat
      BY <1>1, <1>4
    <3> HIDE DEF v
    <3> QED
      BY <3>1, <3>2, <3>3
  <2> HIDE DEF v
  <2> QED
    BY <2>1, <2>2
<1>6. v = [k \in 0..n |-> v[k]]
  OBVIOUS
<1> HIDE DEF v
<1>7. IsSum(v, header, shown, n)
  BY <1>5, <1>6 DEF IsSum
<1>8. v[n] = total
  BY <1>7, Zenon DEF Totals, n
<1>9. v[n] = u[n + 1] - b.bytes /\ u[n + 1] \in Nat
  BY <1>1, <1>4 DEF v
<1> QED
  BY <1>1, <1>8, <1>9

PadEntries(N) == [step : N, bytes : Nat]
Walks == [used : Nat, shown : Seq(Blocks), ended : BOOLEAN]

\* One step of project: entry i, with what the newer ones have left.
Shown(w, i, bytes) == <<[at |-> i, bytes |-> bytes]>> \o w.shown
Walked(w, entries, step, budget, i) ==
  IF w.ended \/ i \notin Files!Eligible(entries, step) THEN w
  ELSE IF w.used + Files!Block(entries[i]) <= budget
       THEN [w EXCEPT !.used = @ + Files!Block(entries[i]),
                      !.shown = Shown(w, i, Files!Block(entries[i]))]
  ELSE IF w.shown = <<>> /\ w.used < budget
       THEN [w EXCEPT !.ended = TRUE,
               !.shown = IF budget - w.used >= Files!MinCut THEN Shown(w, i, budget - w.used) ELSE @]
  ELSE w

\* What the entries after the first i have left: their blocks keep the budget,
\* in order, the last of them is the newest entry, whole if it fits, and none
\* is there only if none was eligible.
WalkInv(w, entries, step, header, budget, i) ==
  LET eligible == Files!Eligible(entries, step)
      last == w.shown[Len(w.shown)]
  IN  /\ \E total \in Nat : /\ Totals(header, w.shown, total) /\ total <= budget
                            /\ ~w.ended => total = w.used
      /\ w.shown = <<>> => ~w.ended /\ w.used = header /\ \A e \in eligible : e <= i
      /\ \A j \in 1..Len(w.shown) : w.shown[j].at \in eligible /\ w.shown[j].at > i
      /\ \A j, l \in 1..Len(w.shown) : j < l => w.shown[j].at < w.shown[l].at
      /\ w.shown # <<>> =>
           /\ last.at \in eligible /\ \A e \in eligible : e > i => e <= last.at
           /\ header + Files!Block(entries[last.at]) <= budget
                => last.bytes = Files!Block(entries[last.at])

LEMMA WalkStep ==
  ASSUME NEW N, NEW entries \in Seq(PadEntries(N)), NEW step, NEW header \in Nat, NEW budget \in Nat,
         header + Files!MinCut <= budget, NEW w \in Walks, NEW i \in 1..Len(entries),
         WalkInv(w, entries, step, header, budget, i)
  PROVE  /\ Walked(w, entries, step, budget, i) \in Walks
         /\ WalkInv(Walked(w, entries, step, budget, i), entries, step, header, budget, i - 1)
<1> DEFINE eligible == Files!Eligible(entries, step)
           shown == w.shown
           m == Len(shown)
           b == Files!Block(entries[i])
           after == Walked(w, entries, step, budget, i)
<1> SUFFICES after \in Walks /\ WalkInv(after, entries, step, header, budget, i - 1)
  OBVIOUS
<1>1. eligible \subseteq Nat /\ i \in Nat /\ \A e \in eligible : e \in 1..Len(entries)
  BY DEF Files!Eligible
<1>2. \A e \in 1..Len(entries) : Files!Block(entries[e]) \in Nat
  <2>1. \A e \in 1..Len(entries) : entries[e].bytes \in Nat
    <3>1. \A e \in 1..Len(entries) : entries[e] \in PadEntries(N)
      OBVIOUS
    <3> QED
      BY <3>1, Zenon DEF PadEntries
  <2> QED
    BY <2>1 DEF Files!Block, Files!Frame, Files!BlockContent
<1>3. /\ w.used \in Nat /\ shown \in Seq(Blocks) /\ w.ended \in BOOLEAN /\ m \in Nat
      /\ DOMAIN w = {"used", "shown", "ended"} /\ (shown = <<>> <=> m = 0)
  <2>1. w.used \in Nat /\ shown \in Seq(Blocks) /\ w.ended \in BOOLEAN
        /\ DOMAIN w = {"used", "shown", "ended"}
    BY DEF Walks
  <2> HIDE DEF shown
  <2> QED
    BY <2>1
<1>4. /\ shown = <<>> => ~w.ended /\ w.used = header /\ \A e \in eligible : e <= i
      /\ \A j \in 1..m : shown[j].at \in eligible /\ shown[j].at > i
      /\ \A j, l \in 1..m : j < l => shown[j].at < shown[l].at
      /\ shown # <<>> =>
           /\ shown[m].at \in eligible /\ \A e \in eligible : e > i => e <= shown[m].at
           /\ header + Files!Block(entries[shown[m].at]) <= budget
                => shown[m].bytes = Files!Block(entries[shown[m].at])
  BY DEF WalkInv
<1>5. PICK total \in Nat : /\ Totals(header, shown, total) /\ total <= budget
                           /\ ~w.ended => total = w.used
  BY DEF WalkInv
<1> HIDE DEF eligible, shown, m, b
\* What is left when nothing is shown of entry i.
<1>6. ASSUME after = w, i \in eligible => shown # <<>>
      PROVE  after \in Walks /\ WalkInv(after, entries, step, header, budget, i - 1)
  <2>1. shown = <<>> => ~w.ended /\ w.used = header /\ \A e \in eligible : e <= i - 1
    <3>1. shown = <<>> => \A e \in eligible : e # i /\ e <= i
      BY <1>4, <1>6
    <3>2. \A e \in eligible : e # i /\ e <= i => e <= i - 1
      BY <1>1
    <3> QED
      BY <1>4, <3>1, <3>2, Zenon
  <2>2. \A j \in 1..m : shown[j].at \in eligible /\ shown[j].at > i - 1
    <3>1. \A e \in eligible : e > i => e > i - 1
      BY <1>1
    <3> QED
      BY <1>4, <3>1, Zenon
  <2>3. shown # <<>> => \A e \in eligible : e > i - 1 => e <= shown[m].at
    <3>1. shown # <<>> => shown[m].at \in eligible /\ shown[m].at > i
      BY <1>3, <1>4
    <3>2. \A e, x \in eligible : e > i - 1 /\ x > i => e <= x \/ e > i
      BY <1>1
    <3> QED
      BY <1>4, <3>1, <3>2, Zenon
  <2>4. WalkInv(w, entries, step, header, budget, i - 1)
    BY <1>4, <1>5, <2>1, <2>2, <2>3 DEF WalkInv, shown, m, eligible
  <2> QED
    BY <1>6, <2>4
\* What is left when `bytes` of it are shown.
<1>7. ASSUME NEW bytes \in Nat, NEW used \in Nat, NEW ended \in BOOLEAN,
             after = [used |-> used, shown |-> Shown(w, i, bytes), ended |-> ended],
             i \in eligible, ~w.ended, w.used + bytes <= budget,
             ~ended => used = w.used + bytes,
             shown = <<>> /\ header + b <= budget => bytes = b
      PROVE  after \in Walks /\ WalkInv(after, entries, step, header, budget, i - 1)
  <2> DEFINE x == [at |-> i, bytes |-> bytes]
             next == <<x>> \o shown
  <2>1. x \in Blocks /\ x.at = i /\ x.bytes = bytes
    BY <1>1 DEF Blocks
  <2>2. /\ next \in Seq(Blocks) /\ Len(next) = m + 1 /\ next # <<>> /\ next[1] = x
        /\ \A j \in 1..m : next[j + 1] = shown[j]
        /\ \A j \in 2..(m + 1) : next[j] = shown[j - 1]
    <3> HIDE DEF x
    <3> QED
      BY <1>3, <2>1, Prepended DEF m
  <2>3. after = [used |-> used, shown |-> next, ended |-> ended]
    BY <1>7 DEF Shown, shown
  <2>4. Totals(header, next, total + bytes) /\ total = w.used
    <3>1. Totals(header, next, total + x.bytes)
      <4> HIDE DEF x
      <4> QED
        BY <1>3, <1>5, <2>1, TotalGrows, Zenon
    <3> QED
      BY <1>5, <1>7, <2>1, <3>1
  <2> HIDE DEF x, next
  <2>5. \A j \in 1..(m + 1) : /\ next[j].at \in eligible /\ next[j].at > i - 1
                              /\ j # 1 => next[j].at > i
    <3> SUFFICES ASSUME NEW j \in 1..(m + 1)
                 PROVE  next[j].at \in eligible /\ next[j].at > i - 1 /\ (j # 1 => next[j].at > i)
      OBVIOUS
    <3>1. CASE j = 1
      BY <1>1, <1>7, <2>1, <2>2, <3>1
    <3>2. CASE j # 1
      <4>1. j \in 2..(m + 1) /\ j - 1 \in 1..m
        BY <1>3, <3>2
      <4>2. next[j].at \in eligible /\ next[j].at > i
        BY <1>4, <2>2, <4>1
      <4>3. next[j].at \in Nat
        BY <1>1, <4>2
      <4> QED
        BY <1>1, <3>2, <4>2, <4>3
    <3> QED
      BY <3>1, <3>2
  <2>6. \A j, l \in 1..(m + 1) : j < l => next[j].at < next[l].at
    <3> SUFFICES ASSUME NEW j \in 1..(m + 1), NEW l \in 1..(m + 1), j < l
                 PROVE  next[j].at < next[l].at
      OBVIOUS
    <3>1. CASE j = 1
      <4>1. l # 1 /\ next[l].at > i /\ next[l].at \in eligible
        BY <1>3, <2>5, <3>1
      <4> QED
        BY <1>1, <2>1, <2>2, <3>1, <4>1
    <3>2. CASE j # 1
      <4>1. /\ j \in 2..(m + 1) /\ l \in 2..(m + 1) /\ j - 1 \in 1..m /\ l - 1 \in 1..m
            /\ j - 1 < l - 1
        BY <1>3, <3>2
      <4>2. next[j] = shown[j - 1] /\ next[l] = shown[l - 1]
        BY <2>2, <4>1
      <4>3. shown[j - 1].at < shown[l - 1].at
        BY <1>4, <4>1
      <4> QED
        BY <4>2, <4>3
    <3> QED
      BY <3>1, <3>2
  <2>7. /\ next[m + 1].at \in eligible /\ \A e \in eligible : e > i - 1 => e <= next[m + 1].at
        /\ header + Files!Block(entries[next[m + 1].at]) <= budget
             => next[m + 1].bytes = Files!Block(entries[next[m + 1].at])
    <3>1. CASE shown = <<>>
      <4>1. next[m + 1] = x
        BY <1>3, <2>2, <3>1
      <4>2. next[m + 1].at = i /\ next[m + 1].bytes = bytes
        BY <2>1, <4>1
      <4>3. \A e \in eligible : e > i - 1 => e <= i
        BY <1>4, <3>1
      <4> QED
        BY <1>7, <3>1, <4>2, <4>3 DEF b
    <3>2. CASE shown # <<>>
      <4>1. m + 1 \in 2..(m + 1) /\ (m + 1) - 1 = m /\ m \in 1..m
        BY <1>3, <3>2
      <4>2. next[m + 1] = shown[m]
        <5>1. next[m + 1] = shown[(m + 1) - 1]
          BY <2>2, <4>1, Zenon
        <5> QED
          BY <4>1, <5>1
      <4>3. \A e, y \in eligible : e > i - 1 /\ y > i => e <= y \/ e > i
        BY <1>1
      <4>4. shown[m].at \in eligible /\ shown[m].at > i
        BY <1>4, <4>1
      <4> QED
        BY <1>4, <3>2, <4>2, <4>3, <4>4, Zenon
    <3> QED
      BY <3>1, <3>2
  <2>8. after \in Walks
    BY <1>7, <2>2, <2>3 DEF Walks
  <2>9. after.shown = next /\ after.ended = ended /\ after.used = used
    BY <2>3
  <2>10. total + bytes \in Nat /\ total + bytes <= budget /\ (~ended => total + bytes = used)
    BY <1>5, <1>7, <2>4
  <2>11. /\ after.shown # <<>> /\ Len(after.shown) = m + 1
         /\ Totals(header, after.shown, total + bytes) /\ (~after.ended => total + bytes = after.used)
    BY <2>2, <2>4, <2>9, <2>10
  <2> HIDE DEF after
  <2>12. WalkInv(after, entries, step, header, budget, i - 1)
    BY <2>5, <2>6, <2>7, <2>9, <2>10, <2>11 DEF WalkInv, eligible
  <2> QED
    BY <2>8, <2>12
<1>8. CASE w.ended \/ i \notin eligible
  <2>1. after = w
    BY <1>8, Zenon DEF Walked, eligible
  <2>2. i \in eligible => shown # <<>>
    BY <1>4, <1>8
  <2> QED
    BY <1>6, <2>1, <2>2
<1>9. CASE ~w.ended /\ i \in eligible /\ w.used + b <= budget
  <2>1. after = [w EXCEPT !.used = @ + b, !.shown = Shown(w, i, b)]
    BY <1>9, Zenon DEF Walked, eligible, b
  <2>2. b \in Nat
    BY <1>2 DEF b
  <2>3. w = [used |-> w.used, shown |-> w.shown, ended |-> w.ended]
    BY DEF Walks
  <2>4. after = [used |-> w.used + b, shown |-> Shown(w, i, b), ended |-> w.ended]
    <3> HIDE DEF after
    <3> QED
      BY <2>1, <2>3
  <2>5. w.used + b \in Nat /\ w.ended \in BOOLEAN
    BY <1>3, <2>2
  <2> HIDE DEF after
  <2> QED
    BY <1>7, <1>9, <2>2, <2>4, <2>5
<1>10. CASE ~w.ended /\ i \in eligible /\ ~(w.used + b <= budget) /\ shown = <<>>
  <2>1. w.used = header /\ budget - w.used >= Files!MinCut /\ w.used < budget /\ budget - w.used \in Nat
    BY <1>4, <1>10 DEF Files!MinCut
  <2>2. after = [w EXCEPT !.ended = TRUE, !.shown = Shown(w, i, budget - w.used)]
    BY <1>10, <2>1 DEF Walked, eligible, b, shown
  <2>3. w = [used |-> w.used, shown |-> w.shown, ended |-> w.ended]
    BY DEF Walks
  <2>4. after = [used |-> w.used, shown |-> Shown(w, i, budget - w.used), ended |-> TRUE]
    <3> HIDE DEF after
    <3> QED
      BY <2>2, <2>3
  <2>5. w.used + (budget - w.used) <= budget /\ ~(header + b <= budget)
    BY <1>3, <1>10, <2>1
  <2> HIDE DEF after
  <2> QED
    BY <1>3, <1>7, <1>10, <2>1, <2>4, <2>5
<1>11. CASE ~w.ended /\ i \in eligible /\ ~(w.used + b <= budget) /\ shown # <<>>
  <2>1. after = w
    BY <1>11, Zenon DEF Walked, eligible, b, shown
  <2> QED
    BY <1>6, <1>11, <2>1
<1> QED
  BY <1>8, <1>9, <1>10, <1>11

LEMMA WalkedTyped ==
  ASSUME NEW N, NEW entries \in Seq(PadEntries(N)), NEW step, NEW budget \in Nat,
         NEW w \in Walks, NEW i \in 1..Len(entries)
  PROVE  Walked(w, entries, step, budget, i) \in Walks
<1> DEFINE b == Files!Block(entries[i])
<1>1. b \in Nat
  <2>1. entries[i] \in PadEntries(N)
    OBVIOUS
  <2>2. entries[i].bytes \in Nat
    BY <2>1, Zenon DEF PadEntries
  <2> QED
    BY <2>2 DEF Files!Block, Files!Frame, Files!BlockContent
<1>2. ASSUME NEW bytes \in Nat PROVE Shown(w, i, bytes) \in Seq(Blocks)
  <2> DEFINE x == [at |-> i, bytes |-> bytes]
  <2>1. x \in Blocks /\ w.shown \in Seq(Blocks)
    BY DEF Blocks, Walks
  <2> HIDE DEF x
  <2>2. <<x>> \o w.shown \in Seq(Blocks)
    BY <2>1, Prepended
  <2> QED
    BY <2>2 DEF Shown, x
<1>3. w.used \in Nat /\ DOMAIN w = {"used", "shown", "ended"} /\ w.ended \in BOOLEAN
  BY DEF Walks
<1>4. [w EXCEPT !.used = @ + b, !.shown = Shown(w, i, b)] \in Walks
  <2> DEFINE s == Shown(w, i, b)
  <2>1. s \in Seq(Blocks)
    BY <1>1, <1>2
  <2> HIDE DEF b, s
  <2>2. w.used + b \in Nat
    BY <1>1, <1>3
  <2>3. [w EXCEPT !.used = @ + b, !.shown = s] \in Walks
    BY <2>1, <2>2 DEF Walks
  <2> QED
    BY <2>3 DEF s
<1>5. ASSUME w.used < budget
      PROVE  [w EXCEPT !.ended = TRUE,
               !.shown = IF budget - w.used >= Files!MinCut THEN Shown(w, i, budget - w.used) ELSE @]
               \in Walks
  <2>1. budget - w.used \in Nat
    BY <1>3, <1>5
  <2> DEFINE s == IF budget - w.used >= Files!MinCut THEN Shown(w, i, budget - w.used) ELSE w.shown
  <2>2. Shown(w, i, budget - w.used) \in Seq(Blocks) /\ w.shown \in Seq(Blocks)
    BY <1>2, <2>1 DEF Walks
  <2>3. s \in Seq(Blocks)
    BY <2>2, Zenon
  <2> HIDE DEF s
  <2>4. [w EXCEPT !.ended = TRUE, !.shown = s] \in Walks
    BY <2>3 DEF Walks
  <2> QED
    BY <2>4 DEF s
<1> QED
  BY <1>4, <1>5, Zenon DEF Walked

\* The states project goes through, one entry at a time.
Start(header) == [used |-> header, shown |-> <<>>, ended |-> FALSE]
IsWalk(f, entries, step, header, budget, n) ==
  f = [k \in 0..n |-> IF k = 0 THEN Start(header)
                      ELSE Walked(f[k - 1], entries, step, budget, (n + 1) - k)]

LEMMA WalkExists ==
  ASSUME NEW N, NEW entries \in Seq(PadEntries(N)), NEW step, NEW header \in Nat,
         NEW budget \in Nat
  PROVE  \E f : IsWalk(f, entries, step, header, budget, Len(entries))
<1> DEFINE n == Len(entries)
           G == [p \in Walks \X (1..n) |-> Walked(p[1], entries, step, budget, (n + 1) - p[2])]
           x == Start(header)
<1>1. n \in Nat /\ x \in Walks
  BY DEF Walks, Start
<1>2. \A y \in Walks, k \in 1..n :
        /\ G[<<y, k>>] = Walked(y, entries, step, budget, (n + 1) - k)
        /\ G[<<y, k>>] \in Walks
  <2> SUFFICES ASSUME NEW y \in Walks, NEW k \in 1..n
               PROVE  /\ G[<<y, k>>] = Walked(y, entries, step, budget, (n + 1) - k)
                      /\ G[<<y, k>>] \in Walks
    OBVIOUS
  <2>1. (n + 1) - k \in 1..Len(entries)
    BY <1>1
  <2>2. G[<<y, k>>] = Walked(y, entries, step, budget, (n + 1) - k)
    OBVIOUS
  <2> QED
    BY <2>1, <2>2, WalkedTyped
<1> HIDE DEF n, G, x
<1>3. PICK f \in [0..n -> Walks] : IsIteration(f, x, G, n)
  <2>1. /\ n \in Nat /\ x \in Walks
        /\ \A y \in Walks, k \in 1..n : G[<<y, k>>] \in Walks
    BY <1>1, <1>2
  <2> QED
    BY <2>1, Iterates, Zenon
<1>4. f = [k \in 0..n |-> IF k = 0 THEN x ELSE Walked(f[k - 1], entries, step, budget, (n + 1) - k)]
  <2>1. \A k \in 0..n : k # 0 => k \in 1..n /\ f[k - 1] \in Walks
    BY <1>1
  <2>2. \A k \in 0..n : (IF k = 0 THEN x ELSE G[<<f[k - 1], k>>])
                         = (IF k = 0 THEN x ELSE Walked(f[k - 1], entries, step, budget, (n + 1) - k))
    BY <1>2, <2>1, Zenon
  <2> QED
    BY <1>3, <2>2 DEF IsIteration
<1> QED
  BY <1>4, Zenon DEF IsWalk, n, x

\* A projection keeps what a prompt may hold (project): for any scratchpad, step
\* and budget that leaves room for the header and the least cut, its blocks
\* fit, show entries of the step in their order, and end with the newest of
\* them, whole if it fits.
THEOREM ProjectionsAlwaysFit ==
  \A N : \A entries \in Seq(PadEntries(N)) : \A step : \A header, budget \in Nat :
    header + Files!MinCut <= budget => Files!ProjectionsFit(entries, step, header, budget)
<1> SUFFICES ASSUME NEW N, NEW entries \in Seq(PadEntries(N)), NEW step, NEW header \in Nat,
                    NEW budget \in Nat, header + Files!MinCut <= budget
             PROVE  Files!ProjectionsFit(entries, step, header, budget)
  OBVIOUS
<1> DEFINE n == Len(entries)
           f == CHOOSE g : IsWalk(g, entries, step, header, budget, n)
<1>1. IsWalk(f, entries, step, header, budget, n)
  BY WalkExists, Zenon
<1>2. Files!Projection(entries, step, header, budget) = f[n]
  BY DEF Files!Projection, IsWalk, Walked, Shown, Start
<1>3. n \in Nat
  OBVIOUS
<1> HIDE DEF f
<1>4. \A k \in 0..n : f[k] = IF k = 0 THEN Start(header)
                             ELSE Walked(f[k - 1], entries, step, budget, (n + 1) - k)
  BY <1>1, Zenon DEF IsWalk
<1> DEFINE T == {k \in Nat : k <= n => /\ f[k] \in Walks
                                       /\ WalkInv(f[k], entries, step, header, budget, n - k)}
<1>5. 0 \in T
  <2>1. f[0] = Start(header)
    BY <1>3, <1>4
  <2>2. Start(header) \in Walks
    BY DEF Walks, Start
  <2>3. WalkInv(Start(header), entries, step, header, budget, n - 0)
    <3> DEFINE w == Start(header)
    <3>1. w.used = header /\ w.shown = <<>> /\ ~w.ended
      BY DEF Start
    <3>2. Totals(header, w.shown, header) /\ header \in Nat /\ header <= budget
      BY <3>1, EmptyTotal DEF Files!MinCut
    <3>3. \A e \in Files!Eligible(entries, step) : e <= n - 0
      BY DEF Files!Eligible
    <3> HIDE DEF w
    <3>4. w.used = header /\ Len(w.shown) = 0
      BY <3>1
    <3> QED
      BY <3>1, <3>2, <3>3, <3>4 DEF WalkInv, w
  <2> QED
    BY <2>1, <2>2, <2>3
<1>6. ASSUME NEW k \in 0..n, k < n, k \in T PROVE k + 1 \in T
  <2>1. f[k] \in Walks /\ WalkInv(f[k], entries, step, header, budget, n - k)
    BY <1>3, <1>6
  <2>2. n - k \in 1..Len(entries) /\ (n - k) - 1 = n - (k + 1) /\ k + 1 \in Nat
    BY <1>3, <1>6
  <2>3. f[k + 1] = Walked(f[k], entries, step, budget, n - k)
    <3>1. k + 1 \in 0..n /\ k + 1 # 0 /\ (k + 1) - 1 = k /\ (n + 1) - (k + 1) = n - k
      BY <1>3, <1>6
    <3>2. f[k + 1] = Walked(f[(k + 1) - 1], entries, step, budget, (n + 1) - (k + 1))
      BY <1>4, <3>1, Zenon
    <3> QED
      BY <3>1, <3>2
  <2>4. /\ Walked(f[k], entries, step, budget, n - k) \in Walks
        /\ WalkInv(Walked(f[k], entries, step, budget, n - k), entries, step, header, budget,
                   (n - k) - 1)
    <3> DEFINE i == n - k
    <3>1. i \in 1..Len(entries) /\ WalkInv(f[k], entries, step, header, budget, i)
      BY <2>1, <2>2
    <3> HIDE DEF i
    <3>2. /\ Walked(f[k], entries, step, budget, i) \in Walks
          /\ WalkInv(Walked(f[k], entries, step, budget, i), entries, step, header, budget, i - 1)
      BY <2>1, <3>1, WalkStep
    <3> QED
      BY <3>2 DEF i
  <2>5. f[k + 1] \in Walks /\ WalkInv(f[k + 1], entries, step, header, budget, n - (k + 1))
    BY <2>2, <2>3, <2>4
  <2> QED
    BY <2>2, <2>5
<1> HIDE DEF T
<1>7. \A k \in 0..n : k \in T
  <2> HIDE DEF n
  <2> QED
    BY <1>3, <1>5, <1>6, UpTo
<1>8. f[n] \in Walks /\ WalkInv(f[n], entries, step, header, budget, 0)
  <2>1. n \in T /\ n - n = 0
    BY <1>3, <1>7
  <2> QED
    BY <1>3, <2>1 DEF T
<1> DEFINE shown == f[n].shown
           m == Len(shown)
           eligible == Files!Eligible(entries, step)
           u == CHOOSE g : IsSum(g, header, shown, m)
<1>9. shown \in Seq(Blocks) /\ DOMAIN shown = 1..m
  <2>1. shown \in Seq(Blocks)
    BY <1>8, Zenon DEF Walks
  <2> HIDE DEF shown
  <2> QED
    BY <2>1
<1>10. IsSum(u, header, shown, m)
  BY <1>9, SumExists, Zenon
<1>11. u[m] <= budget
  <2>1. PICK total \in Nat : Totals(header, shown, total) /\ total <= budget
    BY <1>8 DEF WalkInv
  <2>2. u[m] = total
    BY <1>10, <2>1, Zenon DEF Totals
  <2> QED
    BY <2>1, <2>2
<1>12. /\ \A i \in 1..m : shown[i].at \in eligible
       /\ \A i, j \in 1..m : i < j => shown[i].at < shown[j].at
  BY <1>8 DEF WalkInv
<1>13. ASSUME NEW e \in eligible, \A i \in eligible : i <= e
       PROVE  /\ shown # <<>> /\ shown[m].at = e
              /\ header + Files!Block(entries[e]) <= budget => shown[m].bytes = Files!Block(entries[e])
  <2>1. \A i \in eligible : i \in Nat /\ i > 0
    BY DEF Files!Eligible
  <2>2. /\ shown = <<>> => \A i \in eligible : i <= 0
        /\ shown # <<>> =>
             /\ shown[m].at \in eligible /\ \A i \in eligible : i > 0 => i <= shown[m].at
             /\ header + Files!Block(entries[shown[m].at]) <= budget
                  => shown[m].bytes = Files!Block(entries[shown[m].at])
    BY <1>8 DEF WalkInv
  <2> HIDE DEF shown, m, eligible
  <2>3. shown # <<>>
    BY <1>13, <2>1, <2>2
  <2>4. shown[m].at = e
    <3>1. shown[m].at \in eligible /\ shown[m].at <= e /\ e <= shown[m].at
      BY <1>13, <2>1, <2>2, <2>3
    <3>2. shown[m].at \in Nat /\ e \in Nat
      BY <1>13, <2>1, <3>1
    <3> QED
      BY <3>1, <3>2
  <2> QED
    BY <2>2, <2>3, <2>4
<1>14. Files!ProjectionsFit(entries, step, header, budget) <=>
         /\ u[m] <= budget
         /\ \A i \in DOMAIN shown : shown[i].at \in eligible
         /\ \A i, j \in DOMAIN shown : i < j => shown[i].at < shown[j].at
         /\ \A e \in eligible : (\A i \in eligible : i <= e) =>
              /\ shown # <<>> /\ shown[m].at = e
              /\ header + Files!Block(entries[e]) <= budget
                   => shown[m].bytes = Files!Block(entries[e])
  BY <1>2, Zenon DEF Files!ProjectionsFit, IsSum
<1> HIDE DEF shown, m, eligible, u
<1> QED
  BY <1>9, <1>11, <1>12, <1>13, <1>14, Zenon

(***************************************************************************)
(* The sections of a prompt.                                               *)
(***************************************************************************)
IsAdded(g, f, n) == g = [k \in 0..n |-> IF k = 0 THEN 0 ELSE g[k - 1] + f[k]]

Counts(f, n) == \A k \in 1..n : f[k] \in Nat

LEMMA SumIs ==
  ASSUME NEW n \in Nat, NEW f, Counts(f, n)
  PROVE  \E g \in [0..n -> Nat] :
           /\ g[0] = 0 /\ \A k \in 1..n : g[k] = g[k - 1] + f[k]
           /\ Prompt!SumOf(f, n) = g[n]
<1> DEFINE G == [p \in Nat \X (1..n) |-> p[1] + f[p[2]]]
           g == CHOOSE h : IsAdded(h, f, n)
<1>1. \A k \in 1..n : f[k] \in Nat
  BY Zenon DEF Counts
<1>2. \A y \in Nat, k \in 1..n : G[<<y, k>>] = y + f[k] /\ G[<<y, k>>] \in Nat
  BY <1>1
<1> HIDE DEF G
<1>3. PICK u \in [0..n -> Nat] : IsIteration(u, 0, G, n)
  <2>1. 0 \in Nat /\ \A y \in Nat, k \in 1..n : G[<<y, k>>] \in Nat
    BY <1>2
  <2> QED
    BY <2>1, Iterates, Zenon
<1>4. IsAdded(u, f, n)
  <2>1. \A k \in 0..n : k # 0 => k \in 1..n /\ u[k - 1] \in Nat
    OBVIOUS
  <2>2. \A k \in 0..n : (IF k = 0 THEN 0 ELSE G[<<u[k - 1], k>>])
                         = (IF k = 0 THEN 0 ELSE u[k - 1] + f[k])
    BY <1>2, <2>1, Zenon
  <2> QED
    BY <1>3, <2>2 DEF IsIteration, IsAdded
<1>5. IsAdded(g, f, n)
  BY <1>4, Zenon
<1>6. Prompt!SumOf(f, n) = g[n]
  BY DEF Prompt!SumOf, IsAdded
<1> HIDE DEF g
<1>7. \A k \in 0..n : g[k] = IF k = 0 THEN 0 ELSE g[k - 1] + f[k]
  BY <1>5, Zenon DEF IsAdded
<1>8. g[0] = 0 /\ \A k \in 1..n : g[k] = g[k - 1] + f[k]
  BY <1>7
<1> DEFINE T == {k \in Nat : k <= n => g[k] \in Nat}
<1>9. 0 \in T
  BY <1>8
<1>10. ASSUME NEW k \in 0..n, k < n, k \in T PROVE k + 1 \in T
  <2>1. k + 1 \in 1..n /\ (k + 1) - 1 = k /\ g[k] \in Nat
    BY <1>10
  <2>2. g[k + 1] = g[k] + f[k + 1] /\ f[k + 1] \in Nat
    BY <1>1, <1>8, <2>1
  <2> QED
    BY <2>1, <2>2
<1> HIDE DEF T
<1>11. \A k \in 0..n : k \in T
  BY <1>9, <1>10, UpTo
<1>12. \A k \in 0..n : g[k] \in Nat
  BY <1>11 DEF T
<1>13. g = [k \in 0..n |-> g[k]]
  BY <1>5, Zenon DEF IsAdded
<1>14. g \in [0..n -> Nat]
  BY <1>12, <1>13
<1> QED
  BY <1>6, <1>8, <1>14, Zenon

\* A sum exceeds another by no more than its terms do.
LEMMA SumsCompare ==
  ASSUME NEW n \in Nat, NEW f, NEW h, Counts(f, n), Counts(h, n), NEW j \in 1..n, NEW d \in Int,
         \A k \in 1..n : k # j => f[k] <= h[k], f[j] <= h[j] + d
  PROVE  /\ Prompt!SumOf(f, n) \in Nat /\ Prompt!SumOf(h, n) \in Nat
         /\ Prompt!SumOf(f, n) <= Prompt!SumOf(h, n) + d
<1>1. PICK u \in [0..n -> Nat] : /\ u[0] = 0 /\ \A k \in 1..n : u[k] = u[k - 1] + f[k]
                                 /\ Prompt!SumOf(f, n) = u[n]
  BY SumIs, Zenon
<1>2. PICK v \in [0..n -> Nat] : /\ v[0] = 0 /\ \A k \in 1..n : v[k] = v[k - 1] + h[k]
                                 /\ Prompt!SumOf(h, n) = v[n]
  BY SumIs, Zenon
<1>3. \A k \in 1..n : f[k] \in Nat /\ h[k] \in Nat
  BY Zenon DEF Counts
<1> DEFINE T == {k \in Nat : k <= n => u[k] <= v[k] + (IF j <= k THEN d ELSE 0)}
<1>4. 0 \in T
  BY <1>1, <1>2
<1>5. ASSUME NEW k \in 0..n, k < n, k \in T PROVE k + 1 \in T
  <2>1. k + 1 \in 1..n /\ (k + 1) - 1 = k
    BY <1>5
  <2>2. u[k + 1] = u[k] + f[k + 1] /\ v[k + 1] = v[k] + h[k + 1]
    BY <1>1, <1>2, <2>1
  <2>3. /\ u[k] \in Nat /\ v[k] \in Nat /\ f[k + 1] \in Nat /\ h[k + 1] \in Nat
        /\ u[k] <= v[k] + (IF j <= k THEN d ELSE 0)
    BY <1>3, <1>5, <2>1
  <2>4. f[k + 1] <= h[k + 1] + (IF k + 1 = j THEN d ELSE 0)
    BY <1>3, <2>1
  <2>5. u[k + 1] <= v[k + 1] + (IF j <= k + 1 THEN d ELSE 0)
    <3>1. CASE j <= k
      <4>1. j <= k + 1 /\ k + 1 # j /\ u[k] <= v[k] + d /\ f[k + 1] <= h[k + 1]
        BY <2>3, <2>4, <3>1
      <4>2. u[k] + f[k + 1] <= v[k] + h[k + 1] + d
        BY <2>3, <4>1
      <4> QED
        BY <2>2, <2>3, <4>1, <4>2
    <3>2. CASE k + 1 = j
      <4>1. j <= k + 1 /\ ~(j <= k) /\ u[k] <= v[k] /\ f[k + 1] <= h[k + 1] + d
        BY <2>3, <2>4, <3>2
      <4>2. u[k] + f[k + 1] <= v[k] + h[k + 1] + d
        <5> DEFINE a == u[k]
                   b == v[k]
                   c == f[k + 1]
                   e == h[k + 1]
        <5>1. a \in Nat /\ b \in Nat /\ c \in Nat /\ e \in Nat /\ a <= b /\ c <= e + d
          BY <2>3, <4>1
        <5> SUFFICES a + c <= b + e + d
          OBVIOUS
        <5> HIDE DEF a, b, c, e
        <5> QED
          BY <5>1
      <4> QED
        BY <2>2, <2>3, <4>1, <4>2
    <3>3. CASE ~(j <= k) /\ k + 1 # j
      <4>1. ~(j <= k + 1) /\ u[k] <= v[k] /\ f[k + 1] <= h[k + 1]
        BY <2>3, <2>4, <3>3
      <4>2. u[k] + f[k + 1] <= v[k] + h[k + 1]
        BY <2>3, <4>1
      <4> QED
        BY <2>2, <2>3, <4>1, <4>2
    <3> QED
      BY <3>1, <3>2, <3>3
  <2> QED
    BY <2>1, <2>5
<1> HIDE DEF T
<1>6. \A k \in 0..n : k \in T
  BY <1>4, <1>5, UpTo
<1>7. n \in T
  BY <1>6
<1>8. u[n] <= v[n] + d
  BY <1>7 DEF T
<1> QED
  BY <1>1, <1>2, <1>8

LEMMA NothingAdded ==
  ASSUME NEW n \in Nat, NEW f, \A k \in 1..n : f[k] = 0
  PROVE  Prompt!SumOf(f, n) = 0
<1>1. Counts(f, n)
  BY DEF Counts
<1>2. PICK u \in [0..n -> Nat] : /\ u[0] = 0 /\ \A k \in 1..n : u[k] = u[k - 1] + f[k]
                                 /\ Prompt!SumOf(f, n) = u[n]
  BY <1>1, SumIs, Zenon
<1> DEFINE T == {k \in Nat : k <= n => u[k] = 0}
<1>3. 0 \in T
  BY <1>2
<1>4. ASSUME NEW k \in 0..n, k < n, k \in T PROVE k + 1 \in T
  <2>1. k + 1 \in 1..n /\ (k + 1) - 1 = k /\ u[k] = 0
    BY <1>4
  <2>2. u[k + 1] = u[k] + f[k + 1] /\ f[k + 1] = 0
    BY <1>2, <2>1
  <2> QED
    BY <2>1, <2>2
<1> HIDE DEF T
<1>5. \A k \in 0..n : k \in T
  BY <1>3, <1>4, UpTo
<1>6. n \in T
  BY <1>5
<1> QED
  BY <1>2, <1>6 DEF T

(***************************************************************************)
(* Sections as build_fast_plan pushes them: each label once, the blueprint *)
(* and the memory with the priorities only they have.                      *)
(***************************************************************************)
SectionRecords ==
  {r \in [label : {"blueprint", "scratchpad", "recipe", "wiki", "pattern-reference"},
          priority : {8, 7, 5, 4, 2}, length : Nat] :
     (r.label = "blueprint" <=> r.priority = 8) /\ (r.label = "scratchpad" <=> r.priority = 7)}

Named(s, names) ==
  /\ s \in Seq(SectionRecords)
  /\ \A i \in 1..Len(s) : s[i].label \in names
  /\ \A i, j \in 1..Len(s) : s[i].label = s[j].label => i = j

LEMMA PushedNamed ==
  ASSUME NEW names, NEW s, Named(s, names), NEW x \in SectionRecords, x.label \notin names
  PROVE  Named(s \o Prompt!Pushed(x), names \cup {x.label})
<1> DEFINE b == Prompt!Pushed(x)
           t == s \o b
<1>1. b = <<x>> \/ b = <<>>
  BY DEF Prompt!Pushed
<1>2. b \in Seq(SectionRecords) /\ Len(b) \in {0, 1} /\ (Len(b) = 1 => b[1] = x)
  <2>1. /\ <<x>> \in Seq(SectionRecords) /\ Len(<<x>>) = 1 /\ <<x>>[1] = x
        /\ <<>> \in Seq(SectionRecords) /\ Len(<<>>) = 0 /\ 0 # 1
    OBVIOUS
  <2> HIDE DEF b
  <2>2. CASE b = <<x>>
    BY <2>1, <2>2
  <2>3. CASE b = <<>>
    BY <2>1, <2>3
  <2> QED
    BY <1>1, <2>2, <2>3
<1>3. /\ s \in Seq(SectionRecords) /\ \A i \in 1..Len(s) : s[i].label \in names
      /\ \A i, j \in 1..Len(s) : s[i].label = s[j].label => i = j
  BY Zenon DEF Named
<1> HIDE DEF b
<1>4. /\ t \in Seq(SectionRecords) /\ Len(t) = Len(s) + Len(b)
      /\ \A i \in 1..(Len(s) + Len(b)) : t[i] = IF i <= Len(s) THEN s[i] ELSE b[i - Len(s)]
  BY <1>2, <1>3, ConcatProperties
<1> HIDE DEF t
<1> DEFINE n == Len(s)
<1>5. n \in Nat
  BY <1>3
<1>6. \A i \in 1..Len(t) : \/ i \in 1..n /\ t[i] = s[i]
                           \/ i = n + 1 /\ t[i] = x
  <2> SUFFICES ASSUME NEW i \in 1..Len(t) PROVE (i \in 1..n /\ t[i] = s[i]) \/ (i = n + 1 /\ t[i] = x)
    OBVIOUS
  <2>1. CASE i <= n
    BY <1>4, <1>5, <2>1, <1>2
  <2>2. CASE ~(i <= n)
    <3>1. Len(b) = 1 /\ i = n + 1 /\ i - Len(s) = 1
      BY <1>2, <1>4, <1>5, <2>2
    <3>2. t[i] = b[i - Len(s)]
      BY <1>4, <1>5, <2>2, <3>1
    <3> QED
      BY <1>2, <3>1, <3>2
  <2> QED
    BY <2>1, <2>2
<1> HIDE DEF n
<1>7. \A i \in 1..Len(t) : t[i].label \in names \cup {x.label}
  BY <1>3, <1>6, Zenon DEF n
<1>8. \A i, j \in 1..Len(t) : t[i].label = t[j].label => i = j
  BY <1>3, <1>6, Zenon DEF n
<1> QED
  BY <1>4, <1>7, <1>8, Zenon DEF Named, t, b

PromptLengths ==
  [blueprint : Nat, scratchpad : Nat, recipe : Nat, wiki : Seq(Nat), patterns : Nat]

LEMMA SectionsNamed ==
  ASSUME NEW lengths \in PromptLengths
  PROVE  Named(Prompt!Sections(lengths),
               {"blueprint", "scratchpad", "recipe", "wiki", "pattern-reference"})
<1> DEFINE w == Prompt!SumOf(lengths.wiki, Prompt!Least(Prompt!EvidenceTaken, Len(lengths.wiki)))
           x1 == Prompt!Section("blueprint", 8, lengths.blueprint)
           x2 == Prompt!Section("scratchpad", 7, lengths.scratchpad)
           x3 == Prompt!Section("recipe", 4, lengths.recipe)
           x4 == Prompt!Section("wiki", 2, w)
           x5 == Prompt!Section("pattern-reference", 5, lengths.patterns)
<1>1. w \in Nat
  <2> DEFINE f == lengths.wiki
             n == Prompt!Least(Prompt!EvidenceTaken, Len(f))
  <2>1. f \in Seq(Nat)
    BY DEF PromptLengths
  <2>2. n \in Nat /\ n <= Len(f)
    BY <2>1 DEF Prompt!Least, Prompt!EvidenceTaken
  <2>3. Counts(f, n)
    BY <2>1, <2>2 DEF Counts
  <2> HIDE DEF f, n
  <2>4. PICK g \in [0..n -> Nat] : Prompt!SumOf(f, n) = g[n]
    BY <2>2, <2>3, SumIs, Zenon
  <2>5. Prompt!SumOf(f, n) \in Nat
    BY <2>2, <2>4
  <2> QED
    BY <2>5 DEF f, n
<1> HIDE DEF w
<1>2. /\ x1 \in SectionRecords /\ x1.label = "blueprint"
      /\ x2 \in SectionRecords /\ x2.label = "scratchpad"
      /\ x3 \in SectionRecords /\ x3.label = "recipe"
      /\ x4 \in SectionRecords /\ x4.label = "wiki"
      /\ x5 \in SectionRecords /\ x5.label = "pattern-reference"
  BY <1>1 DEF SectionRecords, Prompt!Section, PromptLengths
<1>3. Prompt!Sections(lengths)
        = Prompt!Pushed(x1) \o Prompt!Pushed(x2) \o Prompt!Pushed(x3) \o Prompt!Pushed(x4)
            \o Prompt!Pushed(x5)
  BY Zenon DEF Prompt!Sections, w
<1> HIDE DEF x1, x2, x3, x4, x5
<1> DEFINE s1 == Prompt!Pushed(x1)
           s2 == s1 \o Prompt!Pushed(x2)
           s3 == s2 \o Prompt!Pushed(x3)
           s4 == s3 \o Prompt!Pushed(x4)
           s5 == s4 \o Prompt!Pushed(x5)
           n1 == {"blueprint"}
           n2 == n1 \cup {"scratchpad"}
           n3 == n2 \cup {"recipe"}
           n4 == n3 \cup {"wiki"}
           n5 == n4 \cup {"pattern-reference"}
<1>4. /\ "scratchpad" \notin n1 /\ "recipe" \notin n2 /\ "wiki" \notin n3
      /\ "pattern-reference" \notin n4
      /\ n5 = {"blueprint", "scratchpad", "recipe", "wiki", "pattern-reference"}
  OBVIOUS
<1>5. Named(s1, n1)
  <2>1. s1 = <<x1>> \/ s1 = <<>>
    BY DEF Prompt!Pushed
  <2> HIDE DEF s1
  <2>2. CASE s1 = <<x1>>
    <3>1. s1 \in Seq(SectionRecords) /\ Len(s1) = 1 /\ s1[1].label = "blueprint"
      BY <1>2, <2>2
    <3> QED
      BY <3>1 DEF Named
  <2>3. CASE s1 = <<>>
    <3>1. s1 \in Seq(SectionRecords) /\ Len(s1) = 0
      BY <2>3
    <3> QED
      BY <3>1 DEF Named
  <2> QED
    BY <2>1, <2>2, <2>3
<1>6. s5 = Prompt!Sections(lengths)
  BY <1>3, Zenon
<1> HIDE DEF s1, n1
<1>7. Named(s2, n2)
  <2>1. x2 \in SectionRecords /\ x2.label \notin n1 /\ n2 = n1 \cup {x2.label}
    BY <1>2, <1>4
  <2> QED
    BY <1>5, <2>1, PushedNamed, Zenon
<1> HIDE DEF s2, n2
<1>8. Named(s3, n3)
  <2>1. x3 \in SectionRecords /\ x3.label \notin n2 /\ n3 = n2 \cup {x3.label}
    BY <1>2, <1>4
  <2> QED
    BY <1>7, <2>1, PushedNamed, Zenon
<1> HIDE DEF s3, n3
<1>9. Named(s4, n4)
  <2>1. x4 \in SectionRecords /\ x4.label \notin n3 /\ n4 = n3 \cup {x4.label}
    BY <1>2, <1>4
  <2> QED
    BY <1>8, <2>1, PushedNamed, Zenon
<1> HIDE DEF s4, n4
<1>10. Named(s5, n5)
  <2>1. x5 \in SectionRecords /\ x5.label \notin n4 /\ n5 = n4 \cup {x5.label}
    BY <1>2, <1>4
  <2> QED
    BY <1>9, <2>1, PushedNamed, Zenon
<1> QED
  BY <1>4, <1>6, <1>10, Zenon

(***************************************************************************)
(* What is taken of the sections.                                          *)
(***************************************************************************)
AheadOf(s, i) ==
  [j \in 1..Len(s) |->
     IF j \in {k \in 1..Len(s) : Prompt!Before(s, k, i)} THEN s[j].length ELSE 0]
UsedBefore(s, i) == Prompt!SumOf(AheadOf(s, i), Len(s))

LEMMA AheadCounts ==
  ASSUME NEW s \in Seq(SectionRecords), NEW i
  PROVE  /\ Len(s) \in Nat /\ Counts(AheadOf(s, i), Len(s))
         /\ \A j \in 1..Len(s) : /\ s[j].length \in Nat /\ s[j].priority \in Nat
                                 /\ AheadOf(s, i)[j] \in Nat
                                 /\ Prompt!Before(s, j, i) => AheadOf(s, i)[j] = s[j].length
                                 /\ ~Prompt!Before(s, j, i) => AheadOf(s, i)[j] = 0
<1>1. Len(s) \in Nat /\ \A j \in 1..Len(s) : s[j] \in SectionRecords
  OBVIOUS
<1>2. \A r \in SectionRecords : r.length \in Nat /\ r.priority \in Nat
  BY DEF SectionRecords
<1>3. \A j \in 1..Len(s) : s[j].length \in Nat /\ s[j].priority \in Nat
  BY <1>1, <1>2, Zenon
<1>4. \A j \in 1..Len(s) : /\ Prompt!Before(s, j, i) => AheadOf(s, i)[j] = s[j].length
                           /\ ~Prompt!Before(s, j, i) => AheadOf(s, i)[j] = 0
  BY DEF AheadOf
<1>5. \A j \in 1..Len(s) : AheadOf(s, i)[j] \in Nat
  BY <1>3, <1>4
<1> QED
  BY <1>1, <1>3, <1>4, <1>5 DEF Counts

LEMMA TakenBounds ==
  ASSUME NEW s \in Seq(SectionRecords), NEW i \in 1..Len(s), NEW budget \in Nat
  PROVE  LET taken == Prompt!Taken(s, budget, i)
         IN  /\ taken \in Nat /\ UsedBefore(s, i) \in Nat /\ s[i].length \in Nat
             /\ taken <= s[i].length
             /\ budget > 0 /\ taken > 0 => UsedBefore(s, i) + taken <= budget
             /\ taken < s[i].length => budget > 0 /\ UsedBefore(s, i) + s[i].length > budget
             /\ budget > 0 /\ UsedBefore(s, i) > budget => taken = 0
<1> DEFINE used == UsedBefore(s, i)
           length == s[i].length
           taken == Prompt!Taken(s, budget, i)
<1>1. used \in Nat /\ length \in Nat
  <2>1. PICK g \in [0..Len(s) -> Nat] : Prompt!SumOf(AheadOf(s, i), Len(s)) = g[Len(s)]
    BY AheadCounts, SumIs, Zenon
  <2>2. Len(s) \in Nat /\ length \in Nat
    BY AheadCounts, Zenon
  <2> QED
    BY <2>1, <2>2 DEF UsedBefore
<1>2. taken = IF budget = 0 \/ length <= budget - used THEN length
              ELSE IF budget - used >= 200 THEN budget - used ELSE 0
  BY Zenon DEF Prompt!Taken, Prompt!MinTruncated, UsedBefore, AheadOf
<1> HIDE DEF used, length, taken
<1>3. /\ taken \in Nat
      /\ taken <= length
      /\ budget > 0 /\ taken > 0 => used + taken <= budget
      /\ taken < length => budget > 0 /\ used + length > budget
      /\ budget > 0 /\ used > budget => taken = 0
  <2>1. CASE budget = 0 \/ length <= budget - used
    BY <1>1, <1>2, <2>1
  <2>2. CASE ~(budget = 0 \/ length <= budget - used) /\ budget - used >= 200
    BY <1>1, <1>2, <2>2
  <2>3. CASE ~(budget = 0 \/ length <= budget - used) /\ ~(budget - used >= 200)
    BY <1>1, <1>2, <2>3
  <2> QED
    BY <2>1, <2>2, <2>3
<1> QED
  BY <1>1, <1>3 DEF used, length, taken

\* The order of the sections.
LEMMA Ranked ==
  ASSUME NEW s \in Seq(SectionRecords), NEW i \in 1..Len(s), NEW j \in 1..Len(s)
  PROVE  /\ ~Prompt!Before(s, i, i)
         /\ i # j => Prompt!Before(s, i, j) \/ Prompt!Before(s, j, i)
         /\ Prompt!Before(s, i, j) =>
              /\ i # j
              /\ \A k \in 1..Len(s) : Prompt!Before(s, k, i) => Prompt!Before(s, k, j)
<1>1. Len(s) \in Nat /\ \A k \in 1..Len(s) : s[k].priority \in Nat
  BY AheadCounts, Zenon
<1> QED
  BY <1>1 DEF Prompt!Before

LEMMA Outranked ==
  ASSUME NEW s \in Seq(SectionRecords), NEW i \in 1..Len(s), NEW j \in 1..Len(s),
         Prompt!Before(s, i, j)
  PROVE  UsedBefore(s, i) + s[i].length <= UsedBefore(s, j)
<1> DEFINE f == AheadOf(s, i)
           h == AheadOf(s, j)
           n == Len(s)
           d == 0 - s[i].length
<1>1. Counts(f, n) /\ Counts(h, n) /\ n \in Nat /\ s[i].length \in Nat
  BY AheadCounts, Zenon
<1>2. /\ \A k \in 1..n : Prompt!Before(s, k, i) => Prompt!Before(s, k, j)
      /\ ~Prompt!Before(s, i, i)
  BY Ranked, Zenon
<1>3. ASSUME NEW k \in 1..n PROVE f[k] <= h[k]
  <2>1. /\ s[k].length \in Nat
        /\ Prompt!Before(s, k, i) => f[k] = s[k].length
        /\ ~Prompt!Before(s, k, i) => f[k] = 0
        /\ Prompt!Before(s, k, j) => h[k] = s[k].length
        /\ h[k] \in Nat
    BY AheadCounts, Zenon
  <2> HIDE DEF f, h
  <2> QED
    BY <1>2, <2>1
<1>4. f[i] <= h[i] + d /\ d \in Int
  <2>1. f[i] = 0 /\ h[i] = s[i].length
    BY <1>2, AheadCounts, Zenon
  <2> HIDE DEF f, h
  <2> QED
    BY <1>1, <2>1
<1>5. i \in 1..n /\ \A k \in 1..n : k # i => f[k] <= h[k]
  BY <1>3
<1> HIDE DEF f, h, n, d
<1>6. /\ Prompt!SumOf(f, n) \in Nat /\ Prompt!SumOf(h, n) \in Nat
      /\ Prompt!SumOf(f, n) <= Prompt!SumOf(h, n) + d
  BY <1>1, <1>4, <1>5, SumsCompare
<1>7. UsedBefore(s, i) = Prompt!SumOf(f, n) /\ UsedBefore(s, j) = Prompt!SumOf(h, n)
  BY Zenon DEF UsedBefore, f, h, n
<1> QED
  BY <1>1, <1>6, <1>7 DEF d

\* Among some sections there is one that all the others are before.
LEMMA LastOfSome ==
  ASSUME NEW s \in Seq(SectionRecords), NEW P \in SUBSET (1..Len(s)), P # {}
  PROVE  \E m \in P : \A i \in P : i # m => Prompt!Before(s, i, m)
<1> DEFINE n == Len(s)
           Q == {s[i].priority : i \in P}
<1>1. n \in Nat /\ \A k \in 1..n : s[k].priority \in Nat
  BY AheadCounts, Zenon
<1>2. PICK q \in Q : \A r \in Q : q <= r
  <2>1. Q \in SUBSET Nat /\ Q # {}
    BY <1>1
  <2> HIDE DEF Q
  <2> QED
    BY <2>1, LeastNumber, Zenon
<1> HIDE DEF n
<1> DEFINE R == {n - i : i \in {k \in P : s[k].priority = q}}
<1>3. PICK r \in R : \A t \in R : r <= t
  <2>1. R \in SUBSET Nat /\ R # {}
    BY <1>1, <1>2 DEF n
  <2> HIDE DEF R
  <2> QED
    BY <2>1, LeastNumber, Zenon
<1>4. PICK m \in P : s[m].priority = q /\ r = n - m
  BY <1>3
<1>5. ASSUME NEW i \in P, i # m PROVE Prompt!Before(s, i, m)
  <2>1. q <= s[i].priority /\ (s[i].priority = q => n - m <= n - i)
    BY <1>2, <1>3, <1>4
  <2>2. i \in 1..n /\ m \in 1..n /\ s[i].priority \in Nat /\ q \in Nat
    BY <1>1, <1>4 DEF n
  <2>3. s[i].priority = q => i < m
    BY <1>1, <1>5, <2>1, <2>2
  <2>4. s[i].priority > s[m].priority \/ (s[i].priority = s[m].priority /\ i < m)
    BY <1>4, <2>1, <2>2, <2>3
  <2> QED
    BY <2>4 DEF Prompt!Before
<1> QED
  BY <1>5

\* The sections of a prompt (compact_sections) come to no more than the budget,
\* and one is cut or left out only if all it outranks are left out; nothing
\* but the blueprint is kept ahead of the memory.
THEOREM PromptsAlwaysFit ==
  \A lengths \in PromptLengths : \A budget \in Nat : Prompt!PromptsFit(lengths, budget)
<1> SUFFICES ASSUME NEW lengths \in PromptLengths, NEW budget \in Nat
             PROVE  Prompt!PromptsFit(lengths, budget)
  OBVIOUS
<1> DEFINE s == Prompt!Sections(lengths)
           n == Len(s)
           taken == [i \in 1..n |-> Prompt!Taken(s, budget, i)]
<1>1. Named(s, {"blueprint", "scratchpad", "recipe", "wiki", "pattern-reference"})
  BY SectionsNamed, Zenon
<1> SUFFICES /\ budget > 0 => Prompt!SumOf(taken, n) <= budget
             /\ \A i, j \in 1..n :
                  taken[i] < s[i].length /\ Prompt!Before(s, i, j) => taken[j] = 0
             /\ \A i, j \in 1..n :
                  /\ s[i].label = "scratchpad" /\ s[j].label # "blueprint"
                  /\ taken[i] < s[i].length /\ i # j
                  => taken[j] = 0
  BY Zenon DEF Prompt!PromptsFit
<1> HIDE DEF s
<1>2. /\ s \in Seq(SectionRecords)
      /\ \A i, j \in 1..n : s[i].label = s[j].label => i = j
  BY <1>1, Zenon DEF Named
<1>3. n \in Nat
  BY <1>2
<1>4. \A i \in 1..n :
        /\ taken[i] \in Nat /\ UsedBefore(s, i) \in Nat /\ s[i].length \in Nat
        /\ taken[i] <= s[i].length
        /\ budget > 0 /\ taken[i] > 0 => UsedBefore(s, i) + taken[i] <= budget
        /\ taken[i] < s[i].length => budget > 0 /\ UsedBefore(s, i) + s[i].length > budget
        /\ budget > 0 /\ UsedBefore(s, i) > budget => taken[i] = 0
  <2> SUFFICES ASSUME NEW i \in 1..n
               PROVE  /\ taken[i] \in Nat /\ UsedBefore(s, i) \in Nat /\ s[i].length \in Nat
                      /\ taken[i] <= s[i].length
                      /\ budget > 0 /\ taken[i] > 0 => UsedBefore(s, i) + taken[i] <= budget
                      /\ taken[i] < s[i].length
                           => budget > 0 /\ UsedBefore(s, i) + s[i].length > budget
                      /\ budget > 0 /\ UsedBefore(s, i) > budget => taken[i] = 0
    OBVIOUS
  <2>1. taken[i] = Prompt!Taken(s, budget, i)
    OBVIOUS
  <2> HIDE DEF taken
  <2> QED
    BY <1>2, <2>1, TakenBounds
<1> HIDE DEF taken
<1>5. ASSUME budget > 0 PROVE Prompt!SumOf(taken, n) <= budget
  <2> DEFINE P == {i \in 1..n : taken[i] > 0}
  <2>1. CASE P = {}
    <3>1. \A i \in 1..n : taken[i] = 0
      BY <1>4, <2>1
    <3>2. Prompt!SumOf(taken, n) = 0
      BY <1>3, <3>1, NothingAdded
    <3> QED
      BY <3>2
  <2>2. CASE P # {}
    <3>1. PICK m \in P : \A i \in P : i # m => Prompt!Before(s, i, m)
      BY <1>2, <2>2, LastOfSome
    <3> DEFINE h == AheadOf(s, m)
               d == taken[m]
    <3>2. m \in 1..n /\ d \in Nat /\ UsedBefore(s, m) + d <= budget /\ UsedBefore(s, m) \in Nat
      BY <1>4, <1>5
    <3>3. Counts(h, n) /\ Counts(taken, n)
      <4>1. Counts(h, n)
        BY <1>2, AheadCounts, Zenon
      <4> QED
        BY <1>4, <4>1 DEF Counts
    <3>4. ASSUME NEW k \in 1..n, k # m PROVE taken[k] <= h[k]
      <4>1. h[k] \in Nat /\ (Prompt!Before(s, k, m) => h[k] = s[k].length)
        BY <1>2, AheadCounts, Zenon
      <4> HIDE DEF h
      <4>2. CASE k \in P
        BY <1>4, <3>1, <3>4, <4>1, <4>2
      <4>3. CASE k \notin P
        BY <1>4, <4>1, <4>3
      <4> QED
        BY <4>2, <4>3
    <3>5. taken[m] <= h[m] + d
      <4>1. h[m] \in Nat
        BY <1>2, <3>2, AheadCounts, Zenon
      <4> HIDE DEF h
      <4> QED
        BY <3>2, <4>1
    <3>6. d \in Int
      BY <3>2
    <3>7. Prompt!SumOf(h, n) = UsedBefore(s, m)
      BY Zenon DEF UsedBefore
    <3> HIDE DEF h, d, P, n
    <3>8. Prompt!SumOf(taken, n) <= Prompt!SumOf(h, n) + d /\ Prompt!SumOf(taken, n) \in Nat
      BY <1>3, <3>2, <3>3, <3>4, <3>5, <3>6, SumsCompare
    <3> QED
      BY <3>2, <3>7, <3>8
  <2> QED
    BY <2>1, <2>2
<1>6. ASSUME NEW i \in 1..n, NEW j \in 1..n, taken[i] < s[i].length, Prompt!Before(s, i, j)
      PROVE  taken[j] = 0
  <2>1. UsedBefore(s, i) + s[i].length <= UsedBefore(s, j)
    BY <1>2, <1>6, Outranked
  <2>2. budget > 0 /\ UsedBefore(s, j) > budget
    BY <1>4, <1>6, <2>1
  <2> QED
    BY <1>4, <2>2
<1>7. ASSUME NEW i \in 1..n, NEW j \in 1..n, s[i].label = "scratchpad", s[j].label # "blueprint",
             taken[i] < s[i].length, i # j
      PROVE  taken[j] = 0
  <2>1. s[i] \in SectionRecords /\ s[j] \in SectionRecords /\ s[j].label # "scratchpad"
    BY <1>2, <1>7
  <2>2. s[i].priority = 7 /\ s[j].priority \in {5, 4, 2}
    BY <1>7, <2>1 DEF SectionRecords
  <2>3. Prompt!Before(s, i, j)
    BY <2>2 DEF Prompt!Before
  <2> QED
    BY <1>6, <1>7, <2>3
<1> QED
  BY <1>5, <1>6, <1>7

(***************************************************************************)
(* The evidence of a step.                                                 *)
(***************************************************************************)
LEMMA PromptCardinality == \A S : Prompt!Cardinality(S) = Cardinality(S)
<1>1. \A S : Prompt!IsFiniteSet(S) <=> IsFiniteSet(S)
  BY Zenon DEF Prompt!IsFiniteSet, IsFiniteSet
<1> QED
  BY <1>1, Zenon DEF Prompt!Cardinality, Cardinality

\* What a graph holds: nodes of their own, one of them the mission.
Nodes(U) ==
  /\ IsFiniteSet(U)
  /\ \A e \in U : e.node \in Nat /\ e.score \in Nat
  /\ \A d, e \in U : d.node = e.node => d = e
  /\ \A d, e \in U : d.topic = "mission" /\ e.topic = "mission" => d = e
GraphOf(U, graph) ==
  DOMAIN graph \subseteq Prompt!Topics /\ \A t \in DOMAIN graph : graph[t] \in U /\ graph[t].topic = t

Order(U) ==
  /\ \A d \in U : ~Prompt!Ahead(d, d)
  /\ \A d, e \in U : d # e => Prompt!Ahead(d, e) \/ Prompt!Ahead(e, d)
  /\ \A c, d, e \in U : Prompt!Ahead(c, d) /\ Prompt!Ahead(d, e) => Prompt!Ahead(c, e)

LEMMA NodesOrdered ==
  ASSUME NEW U, Nodes(U)
  PROVE  Order(U)
<1>1. \A e \in U : e.node \in Nat /\ e.score \in Nat
  BY Zenon DEF Nodes
<1>2. \A d, e \in U : d.node = e.node => d = e
  BY Zenon DEF Nodes
<1>3. ASSUME NEW d \in U PROVE ~Prompt!Ahead(d, d)
  BY <1>1 DEF Prompt!Ahead
<1>4. ASSUME NEW d \in U, NEW e \in U, d # e PROVE Prompt!Ahead(d, e) \/ Prompt!Ahead(e, d)
  <2>1. d.node \in Nat /\ d.score \in Nat /\ e.node \in Nat /\ e.score \in Nat /\ d.node # e.node
    BY <1>1, <1>2, <1>4, Zenon
  <2> QED
    BY <2>1 DEF Prompt!Ahead
<1>5. ASSUME NEW c \in U, NEW d \in U, NEW e \in U, Prompt!Ahead(c, d), Prompt!Ahead(d, e)
      PROVE  Prompt!Ahead(c, e)
  <2>1. /\ c.node \in Nat /\ c.score \in Nat /\ d.node \in Nat /\ d.score \in Nat
        /\ e.node \in Nat /\ e.score \in Nat
    BY <1>1, Zenon
  <2> QED
    BY <1>5, <2>1 DEF Prompt!Ahead
<1> QED
  BY <1>3, <1>4, <1>5, Zenon DEF Order

\* Of an ordered set, the elements with fewer than room ahead of them.
AheadIn(R, e) == {d \in R : Prompt!Ahead(d, e)}
First(R, room) == {e \in R : Cardinality(AheadIn(R, e)) < room}

LEMMA AheadCounted ==
  ASSUME NEW R, IsFiniteSet(R), NEW e \in R
  PROVE  IsFiniteSet(AheadIn(R, e)) /\ Cardinality(AheadIn(R, e)) \in Nat
<1>1. AheadIn(R, e) \in SUBSET R
  BY DEF AheadIn
<1>2. IsFiniteSet(AheadIn(R, e))
  BY <1>1, FS_Subset
<1> QED
  BY <1>2, FS_CardinalityType

LEMMA AheadOfAnother ==
  ASSUME NEW R, IsFiniteSet(R), Order(R), NEW d \in R, NEW e \in R, Prompt!Ahead(d, e)
  PROVE  Cardinality(AheadIn(R, d)) < Cardinality(AheadIn(R, e))
<1> DEFINE A == AheadIn(R, d)
           B == AheadIn(R, e)
<1>1. A \in SUBSET B /\ d \in B /\ d \notin A
  BY Zenon DEF AheadIn, Order
<1>2. IsFiniteSet(A) /\ IsFiniteSet(B) /\ Cardinality(A) \in Nat /\ Cardinality(B) \in Nat
  BY AheadCounted
<1> HIDE DEF A, B
<1>3. Cardinality(A) <= Cardinality(B) /\ (Cardinality(A) = Cardinality(B) => B = A)
  BY <1>1, <1>2, FS_Subset
<1>4. Cardinality(A) < Cardinality(B)
  BY <1>1, <1>2, <1>3
<1> QED
  BY <1>4 DEF A, B

LEMMA FirstFew ==
  ASSUME NEW R, IsFiniteSet(R), Order(R), NEW room \in Nat
  PROVE  IsFiniteSet(First(R, room)) /\ Cardinality(First(R, room)) <= room
<1> DEFINE K == First(R, room)
           rank(e) == Cardinality(AheadIn(R, e))
<1>1. K \in SUBSET R /\ \A e \in K : rank(e) < room
  BY DEF First
<1>2. IsFiniteSet(K)
  BY <1>1, FS_Subset
<1>3. \A e \in R : rank(e) \in Nat
  BY AheadCounted
<1>4. CASE K = {}
  BY <1>2, <1>4, FS_EmptySet
<1>5. CASE K # {}
  <2> DEFINE Q == {room - rank(e) : e \in K}
  <2>1. Q \in SUBSET Nat /\ Q # {}
    BY <1>1, <1>3, <1>5
  <2>2. PICK q \in Q : \A r \in Q : q <= r
    <3> HIDE DEF Q
    <3> QED
      BY <2>1, LeastNumber, Zenon
  <2>3. PICK m \in K : q = room - rank(m)
    BY <2>2
  <2>4. ASSUME NEW e \in K PROVE rank(e) <= rank(m)
    <3>1. room - rank(m) <= room - rank(e)
      BY <2>2, <2>3
    <3>2. rank(m) \in Nat /\ rank(e) \in Nat
      BY <1>1, <1>3
    <3> HIDE DEF rank
    <3> QED
      BY <3>1, <3>2
  <2> DEFINE A == AheadIn(R, m)
  <2>5. ASSUME NEW e \in K, e # m PROVE e \in A
    <3>1. e \in R /\ m \in R
      BY <1>1
    <3>2. Prompt!Ahead(e, m) \/ Prompt!Ahead(m, e)
      BY <2>5, <3>1, Zenon DEF Order
    <3>3. ~Prompt!Ahead(m, e)
      <4>1. SUFFICES ASSUME Prompt!Ahead(m, e) PROVE FALSE
        OBVIOUS
      <4>2. rank(m) < rank(e)
        BY <3>1, <4>1, AheadOfAnother
      <4>3. rank(m) \in Nat /\ rank(e) \in Nat /\ rank(e) <= rank(m)
        BY <1>3, <2>4, <3>1
      <4> HIDE DEF rank
      <4> QED
        BY <4>2, <4>3
    <3> QED
      BY <3>1, <3>2, <3>3, Zenon DEF AheadIn
  <2>6. IsFiniteSet(A) /\ Cardinality(A) \in Nat /\ Cardinality(A) < room
    BY <1>1, AheadCounted
  <2> HIDE DEF A, K
  <2>7. IsFiniteSet(A \cup {m}) /\ Cardinality(A \cup {m}) <= Cardinality(A) + 1
    <3>1. /\ IsFiniteSet(A \cup {m})
          /\ Cardinality(A \cup {m}) = Cardinality(A) \/ Cardinality(A \cup {m}) = Cardinality(A) + 1
      BY <2>6, FS_AddElement, Zenon
    <3> QED
      BY <2>6, <3>1
  <2>8. K \in SUBSET (A \cup {m})
    BY <2>5
  <2>9. Cardinality(K) <= Cardinality(A \cup {m})
    BY <2>7, <2>8, FS_Subset
  <2>10. Cardinality(K) \in Nat /\ Cardinality(A \cup {m}) \in Nat
    BY <1>2, <2>7, FS_CardinalityType
  <2>11. Cardinality(K) <= room
    BY <2>6, <2>7, <2>9, <2>10
  <2> QED
    BY <1>2, <2>11 DEF K
<1> QED
  BY <1>4, <1>5

\* What pin_required_graph_evidence works with.
Missing(evidence) == {t \in Prompt!Topics : \A e \in evidence : e.topic # t}
AllOf(evidence, graph) == evidence \cup {graph[t] : t \in Missing(evidence)}
FixedOf(evidence, graph) ==
  {e \in AllOf(evidence, graph) : e.topic \in Prompt!Topics \cup {"mission"}}
RestOf(evidence, graph) == AllOf(evidence, graph) \ FixedOf(evidence, graph)
RoomOf(evidence, graph, limit) == limit - Cardinality(FixedOf(evidence, graph))

LEMMA PinnedIs ==
  ASSUME NEW evidence, NEW graph, NEW limit
  PROVE  Prompt!Pinned(evidence, graph, limit) =
           IF ~(Missing(evidence) \subseteq DOMAIN graph) THEN {}
           ELSE IF Cardinality(AllOf(evidence, graph)) <= limit THEN AllOf(evidence, graph)
           ELSE IF Cardinality(FixedOf(evidence, graph)) > limit THEN {}
           ELSE FixedOf(evidence, graph)
                  \cup First(RestOf(evidence, graph), RoomOf(evidence, graph, limit))
<1> DEFINE missing == {t \in Prompt!Topics : \A e \in evidence : e.topic # t}
           all == evidence \cup {graph[t] : t \in missing}
           fixed == {e \in all : e.topic \in Prompt!Topics \cup {"mission"}}
           ahead(e) == {d \in all \ fixed : Prompt!Ahead(d, e)}
           kept == {e \in all \ fixed :
                      Prompt!Cardinality(ahead(e)) < limit - Prompt!Cardinality(fixed)}
<1>1. Prompt!Pinned(evidence, graph, limit) =
        IF ~(missing \subseteq DOMAIN graph) THEN {}
        ELSE IF Prompt!Cardinality(all) <= limit THEN all
        ELSE IF Prompt!Cardinality(fixed) > limit THEN {} ELSE fixed \cup kept
  BY Zenon DEF Prompt!Pinned
<1>2. missing = Missing(evidence)
  BY Zenon DEF Missing
<1>3. all = AllOf(evidence, graph)
  BY Zenon DEF Missing, AllOf
<1>4. fixed = FixedOf(evidence, graph)
  BY <1>3, Zenon DEF FixedOf
<1>5. kept = First(RestOf(evidence, graph), RoomOf(evidence, graph, limit))
  <2> HIDE DEF all, fixed
  <2>1. \A e : ahead(e) = AheadIn(RestOf(evidence, graph), e)
    BY <1>3, <1>4, Zenon DEF AheadIn, RestOf
  <2>2. \A e : (Prompt!Cardinality(ahead(e)) < limit - Prompt!Cardinality(fixed))
                 <=> (Cardinality(AheadIn(RestOf(evidence, graph), e))
                        < RoomOf(evidence, graph, limit))
    <3> SUFFICES ASSUME NEW e
                 PROVE  (Prompt!Cardinality(ahead(e)) < limit - Prompt!Cardinality(fixed))
                          <=> (Cardinality(AheadIn(RestOf(evidence, graph), e))
                                 < RoomOf(evidence, graph, limit))
      OBVIOUS
    <3>1. Prompt!Cardinality(ahead(e)) = Cardinality(AheadIn(RestOf(evidence, graph), e))
      BY <2>1, PromptCardinality, Zenon
    <3>2. Prompt!Cardinality(fixed) = Cardinality(FixedOf(evidence, graph))
      BY <1>4, PromptCardinality, Zenon
    <3> HIDE DEF ahead
    <3> QED
      BY <3>1, <3>2 DEF RoomOf
  <2>3. all \ fixed = RestOf(evidence, graph)
    BY <1>3, <1>4, Zenon DEF RestOf
  <2> HIDE DEF ahead
  <2> QED
    BY <2>2, <2>3 DEF First
<1> HIDE DEF missing, all, fixed, kept
<1>6. Prompt!Cardinality(all) = Cardinality(AllOf(evidence, graph))
  BY <1>3, PromptCardinality, Zenon
<1>7. Prompt!Cardinality(fixed) = Cardinality(FixedOf(evidence, graph))
  BY <1>4, PromptCardinality, Zenon
<1> QED
  BY <1>1, <1>2, <1>3, <1>4, <1>5, <1>6, <1>7

\* The pieces of a step: the graph's nodes, those of its topics pinned.
LEMMA PiecesHeld ==
  ASSUME NEW U, Nodes(U), NEW evidence \in SUBSET U, NEW graph, GraphOf(U, graph),
         Missing(evidence) \subseteq DOMAIN graph
  PROVE  /\ AllOf(evidence, graph) \in SUBSET U /\ evidence \subseteq AllOf(evidence, graph)
         /\ IsFiniteSet(AllOf(evidence, graph)) /\ Cardinality(AllOf(evidence, graph)) \in Nat
         /\ FixedOf(evidence, graph) \in SUBSET AllOf(evidence, graph)
         /\ IsFiniteSet(FixedOf(evidence, graph)) /\ Cardinality(FixedOf(evidence, graph)) \in Nat
         /\ IsFiniteSet(RestOf(evidence, graph)) /\ Order(RestOf(evidence, graph))
         /\ \A t \in Prompt!Topics : \E e \in FixedOf(evidence, graph) : e.topic = t
<1> DEFINE all == AllOf(evidence, graph)
           fixed == FixedOf(evidence, graph)
           rest == RestOf(evidence, graph)
<1>1. \A t \in Missing(evidence) : graph[t] \in U /\ graph[t].topic = t
  BY Zenon DEF GraphOf
<1>2. all \in SUBSET U /\ evidence \subseteq all
  BY <1>1 DEF AllOf
<1>3. fixed \in SUBSET all /\ rest \in SUBSET all
  BY DEF FixedOf, RestOf
<1>4. IsFiniteSet(U) /\ Order(U)
  BY NodesOrdered, Zenon DEF Nodes
<1> HIDE DEF all, fixed, rest
<1>5. IsFiniteSet(all) /\ Cardinality(all) \in Nat
  BY <1>2, <1>4, FS_Subset, FS_CardinalityType
<1>6. IsFiniteSet(fixed) /\ Cardinality(fixed) \in Nat /\ IsFiniteSet(rest)
  BY <1>3, <1>5, FS_Subset, FS_CardinalityType
<1>7. Order(rest)
  <2>1. \A e \in rest : e \in U
    BY <1>2, <1>3
  <2> QED
    BY <1>4, <2>1, Zenon DEF Order
<1>8. ASSUME NEW t \in Prompt!Topics PROVE \E e \in fixed : e.topic = t
  <2>1. \E e \in all : e.topic = t
    <3>1. CASE t \in Missing(evidence)
      <4>1. graph[t] \in all
        BY <3>1 DEF AllOf, all
      <4> QED
        BY <1>1, <3>1, <4>1
    <3>2. CASE t \notin Missing(evidence)
      <4>1. \E e \in evidence : e.topic = t
        BY <3>2, Zenon DEF Missing
      <4> QED
        BY <1>2, <4>1
    <3> QED
      BY <3>1, <3>2
  <2> QED
    BY <2>1, Zenon DEF all, fixed, FixedOf
<1> QED
  BY <1>2, <1>3, <1>5, <1>6, <1>7, <1>8 DEF all, fixed, rest

\* With one node of each required topic, what must stay is four pieces at most.
LEMMA FixedFew ==
  ASSUME NEW U, Nodes(U), NEW evidence \in SUBSET U, NEW graph, GraphOf(U, graph),
         Missing(evidence) \subseteq DOMAIN graph,
         \A t \in Prompt!Topics : Cardinality({e \in evidence : e.topic = t}) <= 1
  PROVE  Cardinality(FixedOf(evidence, graph)) <= 4
<1> DEFINE fixed == FixedOf(evidence, graph)
           T == Prompt!Topics \cup {"mission"}
           f == [e \in fixed |-> e.topic]
<1>1. IsFiniteSet(T) /\ Cardinality(T) = 4
  <2> DEFINE A == {"build-spine"}
             B == A \cup {"model-scratchpad"}
             C == B \cup {"thinking-model"}
             D == C \cup {"mission"}
  <2>1. IsFiniteSet(A) /\ Cardinality(A) = 1
    BY FS_Singleton
  <2>2. "model-scratchpad" \notin A /\ "thinking-model" \notin B /\ "mission" \notin C
    OBVIOUS
  <2>3. T = D
    BY DEF Prompt!Topics
  <2> HIDE DEF A
  <2>4. IsFiniteSet(B) /\ Cardinality(B) = 2
    BY <2>1, <2>2, FS_AddElement
  <2> HIDE DEF B
  <2>5. IsFiniteSet(C) /\ Cardinality(C) = 3
    BY <2>2, <2>4, FS_AddElement
  <2> HIDE DEF C
  <2>6. IsFiniteSet(D) /\ Cardinality(D) = 4
    BY <2>2, <2>5, FS_AddElement
  <2> QED
    BY <2>3, <2>6
<1>2. \A e \in fixed : e \in AllOf(evidence, graph) /\ e.topic \in T
  BY Zenon DEF FixedOf
<1>3. \A t \in Missing(evidence) : graph[t] \in U /\ graph[t].topic = t
  BY Zenon DEF GraphOf
<1>4. \A e \in AllOf(evidence, graph) :
        e \in U /\ (e \in evidence \/ (e.topic \in Missing(evidence) /\ e = graph[e.topic]))
  BY <1>3 DEF AllOf
<1>5. \A d, e \in U : d.topic = "mission" /\ e.topic = "mission" => d = e
  BY Zenon DEF Nodes
<1>6. ASSUME NEW d \in evidence, NEW e \in evidence, d.topic = e.topic, d.topic \in Prompt!Topics
      PROVE  d = e
  <2> DEFINE S == {x \in evidence : x.topic = d.topic}
  <2>1. d \in S /\ e \in S /\ S \in SUBSET U
    BY <1>6
  <2>2. Cardinality(S) <= 1
    BY <1>6
  <2> HIDE DEF S
  <2>3. IsFiniteSet(S) /\ Cardinality(S) \in Nat
    <3>1. IsFiniteSet(U)
      BY Zenon DEF Nodes
    <3> QED
      BY <2>1, <3>1, FS_Subset, FS_CardinalityType
  <2>4. Cardinality(S) = 1
    <3>1. Cardinality(S) # 0
      BY <2>1, <2>3, FS_EmptySet
    <3> QED
      BY <2>2, <2>3, <3>1
  <2>5. \E x : S = {x}
    BY <2>3, <2>4, FS_Singleton, Zenon
  <2> QED
    BY <2>1, <2>5
<1>7. \A e \in evidence : e.topic \notin Missing(evidence)
  BY Zenon DEF Missing
<1>8. ASSUME NEW d \in fixed, NEW e \in fixed, d.topic = e.topic PROVE d = e
  <2>1. /\ d \in AllOf(evidence, graph) /\ e \in AllOf(evidence, graph) /\ d \in U /\ e \in U
        /\ d.topic \in Prompt!Topics \/ d.topic = "mission"
    BY <1>2, <1>4
  <2>2. CASE d.topic = "mission"
    BY <1>5, <1>8, <2>1, <2>2, Zenon
  <2>3. CASE d.topic \in Prompt!Topics /\ d \in evidence
    <3>1. e \in evidence
      BY <1>4, <1>7, <1>8, <2>1, <2>3, Zenon
    <3> QED
      BY <1>6, <1>8, <2>3, <3>1
  <2>4. CASE d.topic \in Prompt!Topics /\ d \notin evidence
    <3>1. d.topic \in Missing(evidence) /\ d = graph[d.topic]
      BY <1>4, <2>1, <2>4, Zenon
    <3>2. e \notin evidence
      BY <1>7, <1>8, <3>1, Zenon
    <3>3. e = graph[e.topic]
      BY <1>4, <2>1, <3>2, Zenon
    <3> QED
      BY <1>8, <3>1, <3>3
  <2> QED
    BY <2>1, <2>2, <2>3, <2>4
<1> HIDE DEF T, fixed
<1>9. f \in Injection(fixed, T)
  <2>1. f \in [fixed -> T]
    BY <1>2
  <2>2. \A d, e \in fixed : f[d] = f[e] => d = e
    BY <1>8
  <2> QED
    BY <2>1, <2>2 DEF Injection, IsInjective
<1> HIDE DEF f
<1>10. Cardinality(fixed) <= Cardinality(T)
  BY <1>1, <1>9, FS_Injection
<1> QED
  BY <1>1, <1>10 DEF fixed

\* A step that is prepared (pin_required_graph_evidence) has its topics and its
\* mission, no more pieces than its limit, and has given up only what scores
\* less; a step whose graph has a node of each topic is prepared.
THEOREM ContextsAreAlwaysGrounded ==
  \A U : Nodes(U) =>
    \A evidence \in SUBSET U : \A graph, limit :
      GraphOf(U, graph) => Prompt!ContextsAreGrounded(evidence, graph, limit)
<1> SUFFICES ASSUME NEW U, Nodes(U), NEW evidence \in SUBSET U, NEW graph, NEW limit,
                    GraphOf(U, graph)
             PROVE  Prompt!ContextsAreGrounded(evidence, graph, limit)
  OBVIOUS
<1> DEFINE p == Prompt!Prepared(evidence, graph, limit)
           all == AllOf(evidence, graph)
           fixed == FixedOf(evidence, graph)
           rest == RestOf(evidence, graph)
           room == RoomOf(evidence, graph, limit)
           kept == First(rest, room)
<1>1. p = IF limit \notin 4..64 \/ evidence = {} THEN {}
          ELSE IF ~(Missing(evidence) \subseteq DOMAIN graph) THEN {}
          ELSE IF Cardinality(all) <= limit THEN all
          ELSE IF Cardinality(fixed) > limit THEN {} ELSE fixed \cup kept
  BY PinnedIs, Zenon DEF Prompt!Prepared
<1>2. Missing(evidence) \subseteq DOMAIN graph =>
        /\ all \in SUBSET U /\ evidence \subseteq all
        /\ IsFiniteSet(all) /\ Cardinality(all) \in Nat
        /\ fixed \in SUBSET all
        /\ IsFiniteSet(fixed) /\ Cardinality(fixed) \in Nat
        /\ IsFiniteSet(rest) /\ Order(rest)
        /\ \A t \in Prompt!Topics : \E e \in fixed : e.topic = t
  BY PiecesHeld
<1>3. /\ \A e \in all : e \in fixed <=> e.topic \in Prompt!Topics \cup {"mission"}
      /\ rest = all \ fixed
  BY Zenon DEF FixedOf, RestOf
<1>4. room = limit - Cardinality(fixed)
  BY Zenon DEF RoomOf
<1>5. kept \subseteq rest /\ \A e \in rest : e \in kept <=> Cardinality(AheadIn(rest, e)) < room
  BY Zenon DEF First
<1>6. (\A t \in Prompt!Topics : Cardinality({e \in evidence : e.topic = t}) <= 1)
        /\ Missing(evidence) \subseteq DOMAIN graph => Cardinality(fixed) <= 4
  BY FixedFew
<1>7. Missing(evidence) \subseteq DOMAIN graph /\ room \in Nat =>
        IsFiniteSet(kept) /\ Cardinality(kept) <= room
  BY <1>2, FirstFew
<1>8. Missing(evidence) \subseteq Prompt!Topics
  BY Zenon DEF Missing
<1> HIDE DEF all, fixed, rest, room, kept, p
<1>9. ASSUME p # {}
      PROVE  /\ Missing(evidence) \subseteq DOMAIN graph /\ limit \in 4..64
             /\ \/ Cardinality(all) <= limit /\ p = all
                \/ /\ Cardinality(fixed) <= limit /\ p = fixed \cup kept
                   /\ room \in Nat
  <2>1. Missing(evidence) \subseteq DOMAIN graph /\ limit \in 4..64
    BY <1>1, <1>9, Zenon
  <2>2. CASE Cardinality(all) <= limit
    BY <1>1, <1>9, <2>1, <2>2
  <2>3. CASE ~(Cardinality(all) <= limit)
    <3>1. p = fixed \cup kept /\ ~(Cardinality(fixed) > limit)
      BY <1>1, <1>9, <2>1, <2>3, Zenon
    <3> QED
      BY <1>2, <1>4, <2>1, <3>1
  <2> QED
    BY <2>2, <2>3
<1>10. ASSUME p # {}, NEW t \in Prompt!Topics PROVE \E e \in p : e.topic = t
  <2>1. PICK e \in fixed : e.topic = t
    BY <1>2, <1>9, <1>10, Zenon
  <2>2. e \in all
    BY <1>2, <1>9, <1>10, <2>1
  <2> QED
    BY <1>9, <1>10, <2>1, <2>2
<1>11. ASSUME p # {} PROVE Cardinality(p) <= limit
  <2>1. CASE Cardinality(all) <= limit /\ p = all
    BY <2>1
  <2>2. CASE p = fixed \cup kept /\ Cardinality(fixed) <= limit /\ room \in Nat
    <3>1. IsFiniteSet(kept) /\ Cardinality(kept) <= room /\ IsFiniteSet(fixed)
      BY <1>2, <1>7, <1>9, <1>11, <2>2
    <3>2. fixed \cap kept \in SUBSET fixed
      OBVIOUS
    <3>3. IsFiniteSet(fixed \cap kept)
      BY <3>1, <3>2, FS_Subset
    <3>4. Cardinality(p) = Cardinality(fixed) + Cardinality(kept) - Cardinality(fixed \cap kept)
      BY <2>2, <3>1, FS_Union
    <3>5. /\ Cardinality(fixed) \in Nat /\ Cardinality(kept) \in Nat
          /\ Cardinality(fixed \cap kept) \in Nat /\ limit \in Nat
      <4>1. /\ Cardinality(fixed) \in Nat /\ Cardinality(kept) \in Nat
            /\ Cardinality(fixed \cap kept) \in Nat
        BY <3>1, <3>3, FS_CardinalityType
      <4>2. limit \in 4..64
        BY <1>9, <1>11
      <4> QED
        BY <4>1, <4>2
    <3> QED
      BY <1>4, <3>1, <3>4, <3>5
  <2> QED
    BY <1>9, <1>11, <2>1, <2>2
<1>12. ASSUME p # {}, NEW e \in evidence, e.topic = "mission" PROVE e \in p
  <2>1. e \in all /\ e \in fixed
    BY <1>2, <1>3, <1>9, <1>12
  <2> QED
    BY <1>9, <1>12, <2>1
<1>13. ASSUME p # {}, NEW e \in evidence \ p, NEW d \in p, d.topic = "other" PROVE Prompt!Ahead(d, e)
  <2>1. /\ Missing(evidence) \subseteq DOMAIN graph /\ e \in all /\ e \notin p
        /\ p = fixed \cup kept /\ room \in Nat
    BY <1>2, <1>9, <1>13
  <2>2. e \in rest /\ e \notin kept
    BY <1>3, <2>1
  <2>3. d \in kept /\ d \in rest
    <3>1. d \notin fixed
      <4>1. "other" \notin Prompt!Topics \cup {"mission"}
        BY DEF Prompt!Topics
      <4>2. d \in all
        BY <1>2, <1>3, <1>5, <1>13, <2>1
      <4> QED
        BY <1>3, <1>13, <4>1, <4>2, Zenon
    <3> QED
      BY <1>5, <1>13, <2>1, <3>1
  <2>4. Cardinality(AheadIn(rest, d)) < room /\ ~(Cardinality(AheadIn(rest, e)) < room)
    BY <1>5, <2>2, <2>3
  <2>5. /\ Cardinality(AheadIn(rest, d)) \in Nat /\ Cardinality(AheadIn(rest, e)) \in Nat
        /\ Prompt!Ahead(e, d) => Cardinality(AheadIn(rest, e)) < Cardinality(AheadIn(rest, d))
    BY <1>2, <2>1, <2>2, <2>3, AheadCounted, AheadOfAnother
  <2>6. ~Prompt!Ahead(e, d)
    BY <2>1, <2>4, <2>5
  <2>7. d # e
    BY <2>1, <1>13
  <2> QED
    BY <1>2, <2>1, <2>2, <2>3, <2>6, <2>7, Zenon DEF Order
<1>14. ASSUME NEW m \in evidence, m.topic = "mission", DOMAIN graph = Prompt!Topics, limit \in 4..64,
              \A t \in Prompt!Topics : Cardinality({e \in evidence : e.topic = t}) <= 1
       PROVE  p # {}
  <2>1. Missing(evidence) \subseteq DOMAIN graph /\ evidence # {}
    BY <1>8, <1>14
  <2>2. m \in all /\ m \in fixed
    BY <1>2, <1>3, <1>14, <2>1
  <2>3. Cardinality(fixed) <= 4 /\ Cardinality(fixed) \in Nat
    BY <1>2, <1>6, <1>14, <2>1
  <2>4. ~(Cardinality(fixed) > limit)
    BY <1>14, <2>3
  <2> QED
    BY <1>1, <1>14, <2>1, <2>2, <2>4
<1>15. Prompt!ContextsAreGrounded(evidence, graph, limit) <=>
         /\ p # {} =>
              /\ Prompt!Topics \subseteq {e.topic : e \in p} /\ Cardinality(p) <= limit
              /\ \A e \in evidence : e.topic = "mission" => e \in p
              /\ \A e \in evidence \ p, d \in p : d.topic = "other" => Prompt!Ahead(d, e)
         /\ (\E e \in evidence : e.topic = "mission") /\ DOMAIN graph = Prompt!Topics
            /\ limit \in 4..64
            /\ (\A t \in Prompt!Topics : Cardinality({e \in evidence : e.topic = t}) <= 1)
            => p # {}
  BY PromptCardinality, Zenon DEF Prompt!ContextsAreGrounded, p
<1>16. p # {} => Prompt!Topics \subseteq {e.topic : e \in p}
  BY <1>10
<1> QED
  BY <1>11, <1>12, <1>13, <1>14, <1>15, <1>16, Zenon

(***************************************************************************)
(* The runs: behaviours of the runtimes, or one of the inputs.             *)
(***************************************************************************)
LEMMA RuntimesRun == RuntimeSpec => Spec
<1>1. RuntimeInit => Init
  BY Zenon DEF RuntimeInit
<1>2. [RuntimeNext]_<<part, input, vars>> => [Next]_vars
  <2> SUFFICES ASSUME [RuntimeNext]_<<part, input, vars>> PROVE [Next]_vars
    OBVIOUS
  <2>1. ASSUME NEW k, NEW S, Choose(k, S) PROVE UNCHANGED vars
    BY <2>1 DEF Choose
  <2>2. CASE UNCHANGED <<part, input, vars>>
    BY <2>2
  <2> QED
    BY <2>1, <2>2, Zenon DEF RuntimeNext
<1> QED
  BY <1>1, <1>2, PTL DEF RuntimeSpec, Spec

ShortTexts == {<<"x">>, <<"quote", "x">>, <<"x", "escape">>, <<"newline">>}

LEMMA RecordInputsHold ==
  ASSUME NEW of \in RecordInputs
  PROVE  Files!RecordsReadBack(of.store, of.texts) /\ Files!ChainDamageIsRefused(of.store, of.texts)
<1>1. of.texts \in Seq(ShortTexts)
  <2>1. of.texts \in Texts
    BY DEF RecordInputs
  <2>2. PICK n \in 0..3 : of.texts \in [1..n -> ShortTexts]
    BY <2>1, Zenon DEF Texts, ShortTexts
  <2> QED
    BY <2>2
<1>2. Forgery \notin ShortTexts
  BY DEF Forgery, ShortTexts
<1> QED
  BY <1>1, <1>2, RecordsAreReadBack, DamageIsRefused, Zenon

LEMMA ProjectionInputsHold ==
  ASSUME NEW of \in ProjectionInputs
  PROVE  Files!ProjectionsFit(of.entries, 1, of.header, of.budget)
<1> DEFINE N == {0, 1, 2}
           E == [step : N, bytes : {1, 300, 5000}]
<1>1. of.entries \in Seq(PadEntries(N))
  <2>1. of.entries \in EntryLists
    BY DEF ProjectionInputs
  <2>2. PICK n \in 0..3 : of.entries \in [1..n -> E]
    <3>1. EntryLists = UNION {[1..k -> E] : k \in 0..3}
      BY DEF EntryLists
    <3> HIDE DEF E
    <3> QED
      BY <2>1, <3>1
  <2>3. E \subseteq PadEntries(N)
    BY DEF PadEntries
  <2> HIDE DEF E, N
  <2>4. of.entries \in [1..n -> PadEntries(N)]
    BY <2>2, <2>3
  <2> QED
    BY <2>4
<1>2. of.header \in Nat /\ of.budget \in Nat /\ of.header + Files!MinCut <= of.budget
  <2>1. of.header \in {170, 300} /\ of.budget \in {512, 1024, 6000}
    BY DEF ProjectionInputs
  <2> QED
    BY <2>1 DEF Files!MinCut
<1> QED
  BY <1>1, <1>2, ProjectionsAlwaysFit, Zenon

LEMMA PromptInputsHold ==
  ASSUME NEW of \in PromptInputs
  PROVE  Prompt!PromptsFit(of.lengths, of.budget)
<1> DEFINE l == of.lengths
           S == {<<>>, <<300>>, [k \in 1..7 |-> 50]}
<1>1. /\ l \in [blueprint : {0, 300}, scratchpad : {0, 300, 900}, recipe : {0, 300},
                wiki : S, patterns : {0, 300, 900}]
      /\ of.budget \in {0, 150, 350, 500, 650, 1000, 2000}
  BY DEF PromptInputs
<1>2. S \subseteq Seq(Nat)
  <2>1. <<>> \in Seq(Nat) /\ <<300>> \in Seq(Nat)
    OBVIOUS
  <2>2. [k \in 1..7 |-> 50] \in [1..7 -> Nat]
    OBVIOUS
  <2>3. [k \in 1..7 |-> 50] \in Seq(Nat)
    BY <2>2
  <2> QED
    BY <2>1, <2>3, Zenon
<1> HIDE DEF l, S
<1>3. l \in PromptLengths /\ of.budget \in Nat
  BY <1>1, <1>2 DEF PromptLengths
<1> QED
  BY <1>3, PromptsAlwaysFit, Zenon DEF l

\* The pieces of the run are nodes of a graph.
LEMMA PiecesAreNodes == Nodes(Pieces)
<1>1. \A e \in Pieces :
        /\ e.node \in 1..8 /\ e.score \in Nat
        /\ e.node = 1 => e = Piece(1, "mission", 50)
        /\ e.node = 2 => e = Piece(2, "build-spine", 8)
        /\ e.node = 3 => e = Piece(3, "model-scratchpad", 6)
        /\ e.node = 4 => e = Piece(4, "thinking-model", 1)
        /\ e.node = 5 => e = Piece(5, "other", 9)
        /\ e.node = 6 => e = Piece(6, "other", 5)
        /\ e.node = 7 => e = Piece(7, "other", 5)
        /\ e.node = 8 => e = Piece(8, "build-spine", 3)
        /\ e.topic = "mission" => e.node = 1
  BY DEF Pieces, Piece
<1>2. \A d, e \in Pieces : d.node = e.node => d = e
  <2> SUFFICES ASSUME NEW d \in Pieces, NEW e \in Pieces, d.node = e.node PROVE d = e
    OBVIOUS
  <2>1. d.node \in {1, 2, 3, 4, 5, 6, 7, 8}
    BY <1>1
  <2> QED
    BY <1>1, <2>1, Zenon
<1>3. \A d, e \in Pieces : d.topic = "mission" /\ e.topic = "mission" => d = e
  BY <1>1, <1>2, Zenon
<1>4. IsFiniteSet(Pieces)
  <2> DEFINE f == [e \in Pieces |-> e.node]
  <2>1. f \in [Pieces -> 1..8]
    BY <1>1
  <2>2. \A d, e \in Pieces : f[d] = f[e] => d = e
    BY <1>2
  <2> HIDE DEF f
  <2>3. f \in Injection(Pieces, 1..8)
    BY <2>1, <2>2 DEF Injection, IsInjective
  <2>4. IsFiniteSet(1..8)
    BY FS_Interval, 1 \in Int, 8 \in Int, Zenon
  <2> QED
    BY <2>3, <2>4, FS_Injection
<1>5. \A e \in Pieces : e.node \in Nat /\ e.score \in Nat
  BY <1>1
<1> QED
  BY <1>2, <1>3, <1>4, <1>5, Zenon DEF Nodes

LEMMA TopicNodes ==
  \A t \in Prompt!Topics : TopicNode(t) \in Pieces /\ TopicNode(t).topic = t
<1> SUFFICES ASSUME NEW t \in Prompt!Topics
             PROVE  \E p \in Pieces : p.topic = t /\ \A q \in Pieces : q.topic = t => p.node <= q.node
  BY Zenon DEF TopicNode
<1>1. \A q \in Pieces : /\ q.topic = "build-spine" => 2 <= q.node
                        /\ q.topic = "model-scratchpad" => 3 <= q.node
                        /\ q.topic = "thinking-model" => 4 <= q.node
  BY DEF Pieces, Piece
<1> DEFINE p2 == Piece(2, "build-spine", 8)
           p3 == Piece(3, "model-scratchpad", 6)
           p4 == Piece(4, "thinking-model", 1)
<1>2. /\ p2 \in Pieces /\ p2.topic = "build-spine" /\ p2.node = 2
      /\ p3 \in Pieces /\ p3.topic = "model-scratchpad" /\ p3.node = 3
      /\ p4 \in Pieces /\ p4.topic = "thinking-model" /\ p4.node = 4
  BY DEF Pieces, Piece
<1> HIDE DEF p2, p3, p4
<1>3. t = "build-spine" \/ t = "model-scratchpad" \/ t = "thinking-model"
  BY DEF Prompt!Topics
<1> QED
  BY <1>1, <1>2, <1>3, Zenon

LEMMA ContextInputsHold ==
  ASSUME NEW of \in ContextInputs
  PROVE  Prompt!ContextsAreGrounded(of.evidence, of.graph, of.limit)
<1> DEFINE g == of.graph
<1>1. /\ of.evidence \in SUBSET Pieces
      /\ g \in {[t \in topics |-> TopicNode(t)] : topics \in SUBSET Prompt!Topics}
  BY DEF ContextInputs
<1>2. PICK topics \in SUBSET Prompt!Topics : g = [t \in topics |-> TopicNode(t)]
  BY <1>1
<1> HIDE DEF g
<1>3. GraphOf(Pieces, g)
  BY <1>2, TopicNodes DEF GraphOf
<1> QED
  BY <1>1, <1>3, PiecesAreNodes, ContextsAreAlwaysGrounded, Zenon DEF g

\* What a step resumes from: every record of every store is read back as it was
\* written and no damage to its chain goes unnoticed, every projection, prompt
\* and context keeps its limits and what it must, and no build moves that has
\* no session.
THEOREM RecordsAlwaysReadBack == RuntimeSpec => []RecordsReadBack
<1>1. InputInv /\ TypeOK /\ SessionsPrecedeProgress => RecordsReadBack
  BY RecordInputsHold, ProjectionInputsHold, PromptInputsHold, ContextInputsHold, Zenon
     DEF InputInv, RecordsReadBack
<1>2. Typing => TypeOK
  BY DEF Typing
<1> QED
  BY <1>1, <1>2, RuntimesRun, RuntimeTyping, ProgressFollowsSession, InputsAreOfTheirPart, PTL

===============================================================================
