------------------------ MODULE BuildCoordinator_proofs ------------------------
(***************************************************************************)
(* The ledger store under racing and dying coordinators, for any number of *)
(* builds, coordinators, blueprints, markers, wirings and any retry limit. *)
(*                                                                         *)
(* First what one evaluation does to one ledger (EvaluatedSound), then the *)
(* inductive invariant of the store: every snapshot is a sound ledger with *)
(* the revision of its place (ChainInv), every cached planner is one of    *)
(* them (CacheIsDurable), every candidate being saved is one evaluation    *)
(* away from a snapshot (JobInv), and whoever is about to rename holds the *)
(* lease and the next revision (SaveInv).                                  *)
(***************************************************************************)
EXTENDS BuildCoordinator, TLAPS

(***************************************************************************)
(* One ledger.                                                             *)
(***************************************************************************)
Sound(l) ==
  /\ l \in Ledgers
  /\ SpineInOrder(l)
  /\ CorrectionsBounded(l)
  /\ DebtOnlyBetweenGates(l)

\* m is what some accepted evaluation of l leaves.
Follow(l, m) ==
  \E in \in Inputs(l.current_step) : Accepts(l, in) /\ m = Evaluated(l, in)

LEMMA StepsAreOrdinals == Steps = {1, 2, 3, 4, 5, 6}
  BY DEF Steps, Intake, LaunchProof

\* The first ledger of a build is sound and has revision 1.
LEMMA NewLedgerSound == Sound(NewLedger) /\ NewLedger.revision = 1
<1> USE RetryLimitAssumption
<1>1. NewLedger \in Ledgers
  BY DEF NewLedger, Ledgers, MaybeBlueprint, Statuses, Steps, Intake, LaunchProof
<1> QED
  BY <1>1 DEF Sound, NewLedger, SpineInOrder, CorrectionsBounded,
     DebtOnlyBetweenGates, Intake, Steps, LaunchProof

\* An input's fields.
LEMMA InputTyped ==
  ASSUME NEW step \in Steps, NEW in \in Inputs(step)
  PROVE  /\ in.step = step
         /\ in.blueprint \in MaybeBlueprint
         /\ in.couple_markers \in SUBSET Markers
         /\ in.deferred_debt \in SUBSET Wirings
         /\ in.verdict = "pass" => GatePasses(in)
<1>1. CASE in \in InputsFor(step, GateFailures(step))
  <2>1. in.verdict \in GateFailures(step)
    BY <1>1 DEF InputsFor
  <2>2. in.verdict # "pass"
    BY <2>1, StepsAreOrdinals DEF GateFailures, BlueprintFailures, SourceFailures,
       CommandFailures, IntakeGateFailures, BlueprintGateFailures,
       CrateBuildGateFailures, CrateCoupleGateFailures, BuildTestGateFailures,
       LaunchGateFailures, Intake, Blueprint, CrateBuild, CrateCouple, BuildTest,
       LaunchProof
  <2> QED
    BY <1>1, <2>2 DEF InputsFor
<1>2. CASE in \in InputsFor(step, {"pass"}) /\ GatePasses(in)
  BY <1>2 DEF InputsFor
<1> QED
  BY <1>1, <1>2 DEF Inputs

\* The fields of a ledger have their types.
LEMMA LedgerFields ==
  ASSUME NEW l \in Ledgers
  PROVE  /\ l.revision \in Nat /\ l.status \in Statuses /\ l.current_step \in Steps
         /\ l.blueprint \in MaybeBlueprint /\ l.step_outputs \in Seq(Steps)
         /\ l.crate_statuses \in MaybeBlueprint
         /\ l.wiring_statuses \in MaybeBlueprint
         /\ l.deferred_debt \in SUBSET Wirings
         /\ l.couple_markers \in SUBSET Markers
         /\ l.retries \in [Steps -> Nat] /\ l.launch_proof \in BOOLEAN
  BY DEF Ledgers

\* A correction keeps a ledger sound, because it is only granted below the limit.
LEMMA RetriedSound ==
  ASSUME NEW l, Sound(l), NEW in, in.step = l.current_step, RetryEligible(l, in)
  PROVE  Sound(Retried(l, in)) /\ Retried(l, in).revision = l.revision + 1
<1> USE StepsAreOrdinals, RetryLimitAssumption
<1>1. Retried(l, in) \in Ledgers
  <2> DEFINE r  == l.revision + 1
             re == [l.retries EXCEPT ![in.step] = @ + 1]
  <2>1. /\ l \in Ledgers /\ r \in Nat
        /\ l.retries \in [Steps -> Nat] /\ in.step \in Steps
    BY LedgerFields DEF Sound
  <2>2. re \in [Steps -> Nat]
    BY <2>1
  <2>3. Retried(l, in) = [l EXCEPT !.revision = r, !.retries = re]
    BY Zenon DEF Retried
  <2> HIDE DEF r, re
  <2>4. [l EXCEPT !.revision = r, !.retries = re] \in Ledgers
    BY <2>1, <2>2, ZenonT(60) DEF Ledgers
  <2> QED
    BY <2>3, <2>4
<1>2. SpineInOrder(Retried(l, in))
  BY DEF Sound, Ledgers, Retried, SpineInOrder
<1>3. CorrectionsBounded(Retried(l, in))
  BY DEF Sound, Ledgers, Retried, CorrectionsBounded, RetryEligible
<1>4. DebtOnlyBetweenGates(Retried(l, in))
  BY DEF Sound, Ledgers, Retried, DebtOnlyBetweenGates
<1> QED
  BY <1>1, <1>2, <1>3, <1>4 DEF Sound, Ledgers, Retried

\* A halt keeps an active ledger sound.
LEMMA HaltedSound ==
  ASSUME NEW l, Sound(l), l.status = "active"
  PROVE  Sound(Halted(l)) /\ Halted(l).revision = l.revision + 1
<1>1. Halted(l) \in Ledgers
  <2> DEFINE r  == l.revision + 1
             st == "halted"
  <2>1. l \in Ledgers /\ r \in Nat /\ st \in Statuses
    BY LedgerFields DEF Sound, Statuses
  <2>2. Halted(l) = [l EXCEPT !.revision = r, !.status = st]
    BY Zenon DEF Halted
  <2> HIDE DEF r, st
  <2>3. [l EXCEPT !.revision = r, !.status = st] \in Ledgers
    BY <2>1, ZenonT(60) DEF Ledgers
  <2> QED
    BY <2>2, <2>3
<1>2. SpineInOrder(Halted(l))
  BY DEF Sound, Ledgers, Halted, SpineInOrder
<1>3. CorrectionsBounded(Halted(l))
  BY DEF Sound, Ledgers, Halted, CorrectionsBounded
<1>4. DebtOnlyBetweenGates(Halted(l))
  BY DEF Sound, Ledgers, Halted, DebtOnlyBetweenGates
<1> QED
  BY <1>1, <1>2, <1>3, <1>4 DEF Sound, Ledgers, Halted

\* A pass of the current step keeps an active ledger sound.
LEMMA PassedSound ==
  ASSUME NEW l, Sound(l), l.status = "active",
         NEW in \in Inputs(l.current_step)
  PROVE  Sound(Passed(l, in)) /\ Passed(l, in).revision = l.revision + 1
<1> DEFINE m == Passed(l, in)
<1> USE StepsAreOrdinals DEF Intake, Blueprint, CrateBuild, CrateCouple,
        BuildTest, LaunchProof
<1>1. /\ l \in Ledgers
      /\ l.current_step \in Steps
      /\ in.step = l.current_step
      /\ in.blueprint \in MaybeBlueprint
      /\ in.couple_markers \in SUBSET Markers
      /\ in.deferred_debt \in SUBSET Wirings
  BY InputTyped DEF Sound, Ledgers
<1>2. /\ DebtAfter(l, in) \in SUBSET Wirings
      /\ MarkersAfter(l, in) \in SUBSET Markers
  BY <1>1 DEF DebtAfter, MarkersAfter, Ledgers
<1>3. m \in Ledgers
  <2> DEFINE r  == l.revision + 1
             bp == IF in.step = Blueprint THEN in.blueprint ELSE l.blueprint
             cr == IF in.step = CrateBuild THEN in.blueprint ELSE l.crate_statuses
             wi == IF in.step = CrateCouple THEN in.blueprint ELSE l.wiring_statuses
             lp == l.launch_proof \/ in.step = LaunchProof
             dd == DebtAfter(l, in)
             cm == MarkersAfter(l, in)
             so == Append(l.step_outputs, in.step)
             cs == IF HasNext(in.step) THEN NextStep(in.step) ELSE l.current_step
             st == IF HasNext(in.step) THEN l.status ELSE "complete"
             n  == [l EXCEPT !.revision = r, !.blueprint = bp,
                     !.crate_statuses = cr, !.wiring_statuses = wi,
                     !.launch_proof = lp, !.deferred_debt = dd,
                     !.couple_markers = cm, !.step_outputs = so,
                     !.current_step = cs, !.status = st]
  <2>1. bp \in MaybeBlueprint /\ cr \in MaybeBlueprint /\ wi \in MaybeBlueprint
    BY <1>1, LedgerFields
  <2>2. lp \in BOOLEAN /\ so \in Seq(Steps) /\ dd \in SUBSET Wirings /\ cm \in SUBSET Markers
    BY <1>1, <1>2, LedgerFields
  <2>3. cs \in Steps /\ st \in Statuses /\ r \in Nat
    BY <1>1, LedgerFields DEF HasNext, NextStep, Statuses
  <2>4. m = n
    BY Zenon DEF Passed
  <2> HIDE DEF m, bp, cr, wi, lp, so, cs, st, dd, cm, r
  <2>5. n \in Ledgers
    BY <1>1, <2>1, <2>2, <2>3, ZenonT(90) DEF Ledgers
  <2> QED
    BY <2>4, <2>5
<1>4. /\ m.step_outputs = Append(l.step_outputs, l.current_step)
      /\ m.current_step = IF l.current_step # 6 THEN l.current_step + 1
                                                ELSE l.current_step
      /\ m.status = IF l.current_step # 6 THEN "active" ELSE "complete"
      /\ m.launch_proof = (l.launch_proof \/ l.current_step = 6)
      /\ m.retries = l.retries
      /\ m.revision = l.revision + 1
      /\ m.deferred_debt = DebtAfter(l, in)
      /\ m.couple_markers = MarkersAfter(l, in)
  BY <1>1 DEF Passed, Ledgers, HasNext, NextStep
<1>5. SpineInOrder(m)
  <2>1. /\ l.step_outputs \in Seq(Steps)
        /\ Len(l.step_outputs) = l.current_step - 1
        /\ \A i \in 1..Len(l.step_outputs) : l.step_outputs[i] = i
    BY DEF Sound, SpineInOrder, Ledgers
  <2>2. /\ Len(m.step_outputs) = l.current_step
        /\ \A i \in 1..Len(m.step_outputs) : m.step_outputs[i] = i
    BY <1>1, <1>4, <2>1
  <2>3. l.current_step = 6 => m.launch_proof
    BY <1>4
  <2>4. m.status = "complete" <=> l.current_step = 6
    BY <1>4
  <2>5. Len(m.step_outputs) =
          IF m.status = "complete" THEN LaunchProof ELSE m.current_step - 1
    <3>1. CASE l.current_step = 6
      BY <1>4, <2>2, <3>1
    <3>2. CASE l.current_step # 6
      <4>1. m.current_step = l.current_step + 1 /\ m.status = "active"
        BY <1>4, <3>2
      <4> QED
        BY <1>1, <2>2, <4>1
    <3> QED
      BY <3>1, <3>2
  <2>6. m.status = "complete" => m.current_step = LaunchProof /\ m.launch_proof
    BY <1>4, <2>3, <2>4
  <2> HIDE DEF m
  <2> QED
    BY <2>2, <2>5, <2>6, Zenon DEF SpineInOrder
<1>6. CorrectionsBounded(m)
  <2>1. CorrectionsBounded(l)
    BY DEF Sound
  <2>2. m.current_step \in Steps /\ m.current_step >= l.current_step
    BY <1>1, <1>4
  <2>3. m.retries = l.retries
    BY <1>4
  <2> HIDE DEF m
  <2>4. ASSUME NEW s \in Steps, s > m.current_step PROVE s > l.current_step
    BY <1>1, <2>2, <2>4
  <2> QED
    BY <2>1, <2>3, <2>4 DEF CorrectionsBounded
<1>7. DebtOnlyBetweenGates(m)
  BY <1>1, <1>4 DEF Sound, DebtOnlyBetweenGates, DebtAfter, MarkersAfter, Ledgers
<1> QED
  BY <1>3, <1>4, <1>5, <1>6, <1>7 DEF Sound

\* One accepted evaluation keeps a ledger sound and takes the next revision.
LEMMA EvaluatedSound ==
  ASSUME NEW l, Sound(l), NEW m, Follow(l, m)
  PROVE  Sound(m) /\ m.revision = l.revision + 1
<1>1. PICK in \in Inputs(l.current_step) : Accepts(l, in) /\ m = Evaluated(l, in)
  BY DEF Follow
<1>2. l.status = "active" /\ in.step = l.current_step
  BY <1>1 DEF Accepts
<1> QED
  BY <1>1, <1>2, PassedSound, RetriedSound, HaltedSound DEF Evaluated

\* A sound ledger passes BuildLedger::validate once it has a revision.
LEMMA SoundIsValid ==
  ASSUME NEW l, Sound(l), l.revision # 0 PROVE Valid(l)
  BY StepsAreOrdinals DEF Sound, Valid, SpineInOrder, Ledgers, Intake, LaunchProof

(***************************************************************************)
(* The store.                                                              *)
(***************************************************************************)
ChainInv ==
  \A b \in Builds : \A i \in 1..Len(chain[b]) :
    chain[b][i].revision = i /\ Sound(chain[b][i])

\* A candidate is a first ledger or one evaluation after a durable snapshot.
Derived(b, l) ==
  \/ l = NewLedger
  \/ \E i \in 1..Len(chain[b]) : Follow(chain[b][i], l)

JobInv ==
  \A c \in Coordinators : pc[c] \in Saving =>
    /\ job[c] \in Jobs
    /\ Derived(job[c].build, job[c].ledger)

LeaseInv ==
  \A c \in Coordinators : pc[c] \in InLease => lease[job[c].build] = c

\* About to rename: the revision is next.  Reading back: it is the last.
SaveInv ==
  \A c \in Coordinators :
    /\ pc[c] = "rename" => Follows(job[c].ledger, job[c].build)
    /\ pc[c] = "readback" =>
         /\ Persisted(job[c].build)
         /\ job[c].ledger = Latest(job[c].build)

IInv == TypeOK /\ ChainInv /\ CacheIsDurable /\ JobInv /\ LeaseInv /\ SaveInv

\* A derived candidate is sound and its revision says which snapshot it follows.
LEMMA DerivedSound ==
  ASSUME ChainInv, NEW b \in Builds, NEW l, Derived(b, l)
  PROVE  /\ Sound(l)
         /\ l.revision \in Nat
         /\ \/ l = NewLedger /\ l.revision = 1
            \/ /\ l.revision - 1 \in 1..Len(chain[b])
               /\ Follow(chain[b][l.revision - 1], l)
<1>1. CASE l = NewLedger
  BY <1>1, NewLedgerSound
<1>2. CASE \E i \in 1..Len(chain[b]) : Follow(chain[b][i], l)
  <2>1. PICK i \in 1..Len(chain[b]) : Follow(chain[b][i], l)
    BY <1>2
  <2>2. Sound(chain[b][i]) /\ chain[b][i].revision = i
    BY DEF ChainInv
  <2>3. Sound(l) /\ l.revision = i + 1
    BY <2>1, <2>2, EvaluatedSound
  <2> QED
    BY <2>1, <2>3
<1> QED
  BY <1>1, <1>2 DEF Derived

\* The candidate that follows a non-empty chain was evaluated on its last
\* snapshot; the one that starts a chain is a first ledger.
LEMMA NextSnapshot ==
  ASSUME TypeOK, ChainInv, NEW b \in Builds, NEW l, Derived(b, l), Follows(l, b)
  PROVE  /\ Sound(l)
         /\ Persisted(b) => Follow(Latest(b), l)
         /\ ~Persisted(b) => l = NewLedger
<1>1. chain[b] \in Seq(Ledgers) /\ Len(chain[b]) \in Nat
  BY DEF TypeOK
<1>2. l.revision = Len(chain[b]) + 1
  BY DEF Follows
<1>3. Persisted(b) <=> Len(chain[b]) # 0
  BY <1>1 DEF Persisted
<1> QED
  BY <1>1, <1>2, <1>3, DerivedSound DEF Latest

\* Appending a snapshot leaves the earlier ones where they were.
LEMMA AppendKeeps ==
  ASSUME NEW s \in Seq(Ledgers), NEW l \in Ledgers
  PROVE  /\ Append(s, l) \in Seq(Ledgers)
         /\ Len(Append(s, l)) = Len(s) + 1
         /\ \A i \in 1..Len(s) : Append(s, l)[i] = s[i]
         /\ Append(s, l)[Len(s) + 1] = l
         /\ Append(s, l) # <<>>
  OBVIOUS

LEMMA InitIInv == Init => IInv
<1> SUFFICES ASSUME Init PROVE IInv
  OBVIOUS
<1> USE DEF Init
<1>1. TypeOK
  BY DEF TypeOK, NothingCached, Saving, InLease, Failed
<1>2. ChainInv
  BY DEF ChainInv
<1>3. CacheIsDurable
  BY DEF CacheIsDurable, NothingCached
<1>4. JobInv /\ LeaseInv /\ SaveInv
  BY DEF JobInv, LeaseInv, SaveInv, Saving, InLease
<1> QED
  BY <1>1, <1>2, <1>3, <1>4 DEF IInv

\* Steps that write no snapshot keep the chain's part of the invariant.
LEMMA ChainUnchanged ==
  ASSUME ChainInv, chain' = chain
  PROVE  /\ ChainInv'
         /\ \A b \in Builds : \A l : Derived(b, l) => Derived(b, l)'
  BY DEF ChainInv, Derived

\* Opening a store: what is cached is the latest snapshot.
LEMMA OpenIInv ==
  ASSUME IInv, NEW c \in Coordinators, Open(c) \/ Listing(c) PROVE IInv'
<1> USE DEF IInv, TypeOK, Goto, Saving, InLease, Failed
<1>1. CASE Open(c)
  <2>1. chain' = chain
    BY <1>1 DEF Open
  <2>2. ChainInv'
    BY <2>1, ChainUnchanged
  <2>3. TypeOK'
    BY <1>1 DEF Open, NothingCached
  <2>4. CacheIsDurable'
    BY <1>1 DEF Open, NothingCached, CacheIsDurable
  <2>5. JobInv' /\ LeaseInv' /\ SaveInv'
    BY <1>1 DEF Open, JobInv, LeaseInv, SaveInv, Derived, Follows, Persisted, Latest
  <2> QED
    BY <2>2, <2>3, <2>4, <2>5
<1>2. CASE LoadOne(c)
  <2>1. chain' = chain
    BY <1>2 DEF LoadOne
  <2>2. ChainInv'
    BY <2>1, ChainUnchanged
  <2>3. PICK b \in todo[c] :
          /\ Persisted(b)
          /\ planners' = [planners EXCEPT ![c][b] = Latest(b)]
          /\ todo' = [todo EXCEPT ![c] = @ \ {b}]
    BY <1>2 DEF LoadOne
  <2>4. b \in Builds /\ Len(chain[b]) \in 1..Len(chain[b])
    BY <2>3 DEF Persisted
  <2>5. Latest(b) \in Ledgers /\ Latest(b).revision = Len(chain[b])
    BY <2>4 DEF Latest, ChainInv
  <2>6. TypeOK'
    BY <1>2, <2>3, <2>4, <2>5 DEF LoadOne
  <2>7. CacheIsDurable'
    BY <2>1, <2>3, <2>4, <2>5 DEF CacheIsDurable, Latest
  <2>8. JobInv' /\ LeaseInv' /\ SaveInv'
    BY <1>2 DEF LoadOne, JobInv, LeaseInv, SaveInv, Derived, Follows, Persisted, Latest
  <2> QED
    BY <2>2, <2>6, <2>7, <2>8
<1>3. CASE LoadNotFound(c) \/ LoadTimesOut(c)
  <2>1. chain' = chain
    BY <1>3 DEF LoadNotFound, LoadTimesOut
  <2>2. ChainInv'
    BY <2>1, ChainUnchanged
  <2>3. /\ planners' = [planners EXCEPT ![c] = NothingCached]
        /\ todo' = [todo EXCEPT ![c] = {}]
        /\ UNCHANGED <<job, lease, dirs, chain>>
        /\ \E st \in Failed : pc' = [pc EXCEPT ![c] = st]
    BY <1>3 DEF LoadNotFound, LoadTimesOut
  <2>4. TypeOK'
    BY <2>3 DEF NothingCached
  <2>5. CacheIsDurable'
    BY <2>3 DEF NothingCached, CacheIsDurable
  <2>6. JobInv' /\ LeaseInv' /\ SaveInv'
    BY <2>3 DEF JobInv, LeaseInv, SaveInv, Derived, Follows, Persisted, Latest
  <2> QED
    BY <2>2, <2>4, <2>5, <2>6
<1>4. CASE Opened(c)
  BY <1>4 DEF Opened, ChainInv, CacheIsDurable, JobInv, LeaseInv, SaveInv,
     Derived, Follows, Persisted, Latest
<1> QED
  BY <1>1, <1>2, <1>3, <1>4 DEF Listing

\* Producing a candidate: a first ledger, or one evaluation of a durable one.
LEMMA CandidateIInv ==
  ASSUME IInv, NEW c \in Coordinators, StartBuild(c) \/ Evaluate(c) PROVE IInv'
<1> USE DEF IInv, Goto
<1>1. PICK b \in Builds, l \in Ledgers :
        /\ Derived(b, l)
        /\ job' = [job EXCEPT ![c] = [build |-> b, ledger |-> l]]
  <2>1. CASE StartBuild(c)
    <3>1. NewLedger \in Ledgers
      BY NewLedgerSound DEF Sound
    <3> QED
      BY <2>1, <3>1 DEF StartBuild, Derived
  <2>2. CASE Evaluate(c)
    <3>1. PICK b \in Builds :
            /\ planners[c][b] # NoLedger
            /\ \E in \in Inputs(planners[c][b].current_step) :
                 /\ Accepts(planners[c][b], in)
                 /\ job' = [job EXCEPT ![c] =
                       [build |-> b, ledger |-> Evaluated(planners[c][b], in)]]
      BY <2>2 DEF Evaluate
    <3>2. PICK in \in Inputs(planners[c][b].current_step) :
            /\ Accepts(planners[c][b], in)
            /\ job' = [job EXCEPT ![c] =
                  [build |-> b, ledger |-> Evaluated(planners[c][b], in)]]
      BY <3>1
    <3> DEFINE k == planners[c][b]
               m == Evaluated(k, in)
    <3>3. k.revision \in 1..Len(chain[b]) /\ k = chain[b][k.revision]
      BY <3>1 DEF CacheIsDurable
    <3>4. Follow(k, m)
      BY <3>2 DEF Follow
    <3>5. Derived(b, m)
      BY <3>3, <3>4 DEF Derived
    <3>6. m \in Ledgers
      BY <3>5, DerivedSound DEF Sound
    <3> QED
      BY <3>2, <3>5, <3>6
  <2> QED
    BY <2>1, <2>2
<1>2. /\ pc[c] = "ready" /\ pc' = [pc EXCEPT ![c] = "mkdir"]
      /\ UNCHANGED <<planners, todo, lease, dirs, chain>>
  BY DEF StartBuild, Evaluate
<1>3. TypeOK'
  BY <1>1, <1>2 DEF TypeOK, Jobs, Saving
<1>4. ChainInv' /\ CacheIsDurable'
  BY <1>2 DEF ChainInv, CacheIsDurable
<1>5. JobInv'
  BY <1>1, <1>2 DEF JobInv, Jobs, Saving, InLease, Derived, TypeOK
<1>6. LeaseInv' /\ SaveInv'
  BY <1>1, <1>2 DEF LeaseInv, SaveInv, InLease, TypeOK, Follows, Persisted, Latest
<1> QED
  BY <1>3, <1>4, <1>5, <1>6

\* The steps of save that write no snapshot.
LEMMA SaveIInv ==
  ASSUME IInv, NEW c \in Coordinators, Save(c), ~RenameSnapshot(c) PROVE IInv'
<1> USE DEF IInv, Goto, Return, Saving, InLease
<1> DEFINE b == job[c].build
<1>0. chain' = chain /\ ChainInv'
  <2>1. chain' = chain
    BY DEF Save, CreateDirectory, AcquireLease, LeaseTimesOut, LoadAndCheck,
       Conflict, AlreadySaved, WriteFails, Saved, ReadbackFails
  <2> QED
    BY <2>1, ChainUnchanged
<1>1. pc[c] \in Saving /\ job[c] \in Jobs /\ b \in Builds /\ job[c].ledger \in Ledgers
  <2>1. pc[c] \in Saving
    BY DEF Save, CreateDirectory, AcquireLease, LeaseTimesOut, LoadAndCheck,
       Conflict, AlreadySaved, WriteFails, Saved, ReadbackFails
  <2> QED
    BY <2>1 DEF JobInv, Jobs
<1>2. CASE CreateDirectory(c)
  <2>1. TypeOK'
    BY <1>1, <1>2 DEF CreateDirectory, TypeOK
  <2>2. CacheIsDurable' /\ JobInv'
    BY <1>1, <1>2 DEF CreateDirectory, TypeOK, CacheIsDurable, JobInv, Derived
  <2>3. LeaseInv' /\ SaveInv'
    BY <1>1, <1>2 DEF CreateDirectory, TypeOK, LeaseInv, SaveInv, Follows, Persisted, Latest
  <2> QED
    BY <1>0, <2>1, <2>2, <2>3
<1>3. CASE AcquireLease(c)
  <2>1. TypeOK'
    BY <1>1, <1>3 DEF AcquireLease, TypeOK
  <2>2. CacheIsDurable' /\ JobInv'
    BY <1>3 DEF AcquireLease, TypeOK, CacheIsDurable, JobInv, Derived
  <2>3. LeaseInv' /\ SaveInv'
    BY <1>1, <1>3, NoOneAssumption DEF AcquireLease, TypeOK, LeaseInv, SaveInv,
       Follows, Persisted, Latest
  <2> QED
    BY <1>0, <2>1, <2>2, <2>3
<1>4. CASE LeaseTimesOut(c)
  <2>1. TypeOK'
    BY <1>1, <1>4 DEF LeaseTimesOut, TypeOK
  <2>2. CacheIsDurable' /\ JobInv'
    BY <1>1, <1>4 DEF LeaseTimesOut, TypeOK, CacheIsDurable, JobInv, Derived
  <2>3. LeaseInv' /\ SaveInv'
    BY <1>1, <1>4 DEF LeaseTimesOut, TypeOK, LeaseInv, SaveInv, Follows, Persisted, Latest
  <2> QED
    BY <1>0, <2>1, <2>2, <2>3
<1>5. CASE LoadAndCheck(c)
  <2>1. TypeOK'
    BY <1>1, <1>5 DEF LoadAndCheck, TypeOK
  <2>2. CacheIsDurable' /\ JobInv'
    BY <1>1, <1>5 DEF LoadAndCheck, TypeOK, CacheIsDurable, JobInv, Derived
  <2>3. LeaseInv' /\ SaveInv'
    BY <1>1, <1>5 DEF LoadAndCheck, TypeOK, LeaseInv, SaveInv, Follows, Persisted, Latest
  <2> QED
    BY <1>0, <2>1, <2>2, <2>3
<1>6. ASSUME pc[c] \in InLease, Return(c), UNCHANGED <<todo, dirs, chain>>,
             \/ planners' = planners
             \/ /\ Persisted(b) /\ job[c].ledger = Latest(b)
                /\ planners' = [planners EXCEPT ![c][b] = job[c].ledger]
      PROVE  IInv'
  <2>1. TypeOK'
    <3>1. pc' \in [Coordinators -> {"down", "list", "ready"} \cup Saving \cup Failed]
      BY <1>6 DEF TypeOK
    <3>2. job' \in [Coordinators -> Jobs \cup {NoJob}]
      BY <1>6 DEF TypeOK
    <3>3. lease' \in [Builds -> Coordinators \cup {NoOne}]
      BY <1>6 DEF TypeOK
    <3>4. planners' \in [Coordinators -> [Builds -> Ledgers \cup {NoLedger}]]
      <4>1. planners \in [Coordinators -> [Builds -> Ledgers \cup {NoLedger}]]
        BY DEF TypeOK
      <4>2. b \in Builds /\ job[c].ledger \in Ledgers \cup {NoLedger}
        BY <1>1
      <4>3. \/ planners' = planners
            \/ planners' = [planners EXCEPT ![c][b] = job[c].ledger]
        BY <1>6
      <4> HIDE DEF b, IInv
      <4> QED
        BY <4>1, <4>2, <4>3
    <3> QED
      BY <1>6, <3>1, <3>2, <3>3, <3>4 DEF TypeOK
  <2>2. CacheIsDurable'
    <3>1. CASE planners' = planners
      BY <1>0, <3>1 DEF CacheIsDurable
    <3>2. CASE /\ Persisted(b) /\ job[c].ledger = Latest(b)
               /\ planners' = [planners EXCEPT ![c][b] = job[c].ledger]
      <4>1. Len(chain[b]) \in 1..Len(chain[b])
        BY <1>1, <3>2 DEF Persisted, TypeOK
      <4>2. /\ job[c].ledger = chain[b][Len(chain[b])]
            /\ job[c].ledger.revision = Len(chain[b])
        BY <1>1, <3>2, <4>1 DEF Latest, ChainInv
      <4>3. /\ planners'[c][b] = job[c].ledger
            /\ \A a \in Coordinators : \A d \in Builds :
                 planners'[a][d] = planners[a][d] \/ (a = c /\ d = b)
        BY <1>1, <3>2 DEF TypeOK
      <4> HIDE DEF b
      <4> QED
        BY <1>0, <4>1, <4>2, <4>3 DEF CacheIsDurable
    <3> QED
      BY <1>6, <3>1, <3>2
  <2>3. JobInv' /\ SaveInv'
    BY <1>0, <1>6 DEF TypeOK, JobInv, SaveInv, Derived, Follows, Persisted, Latest
  <2>4. LeaseInv'
    BY <1>1, <1>6 DEF TypeOK, LeaseInv, JobInv, Jobs
  <2> QED
    BY <1>0, <2>1, <2>2, <2>3, <2>4
<1>7. CASE Conflict(c) \/ WriteFails(c) \/ ReadbackFails(c)
  <2>1. /\ pc[c] \in InLease /\ Return(c)
        /\ UNCHANGED <<planners, todo, dirs, chain>>
    BY <1>7 DEF Conflict, WriteFails, ReadbackFails
  <2> QED
    BY <1>6, <2>1
<1>8. CASE AlreadySaved(c) \/ Saved(c)
  <2>1. /\ pc[c] \in InLease /\ Return(c)
        /\ UNCHANGED <<todo, dirs, chain>>
        /\ Persisted(b) /\ job[c].ledger = Latest(b)
        /\ planners' = [planners EXCEPT ![c][b] = job[c].ledger]
    BY <1>8 DEF AlreadySaved, Saved, SaveInv
  <2> QED
    BY <1>6, <2>1
<1> QED
  BY <1>2, <1>3, <1>4, <1>5, <1>7, <1>8 DEF Save

\* The one step that writes: under the lease no other coordinator can be
\* about to write, or reading back, the same build.
LEMMA RenameIInv ==
  ASSUME IInv, NEW c \in Coordinators, RenameSnapshot(c) PROVE IInv'
<1> USE DEF IInv, Saving, InLease
<1> DEFINE b == job[c].build
           l == job[c].ledger
           s == chain[b]
<1>1. /\ pc[c] = "rename" /\ pc' = [pc EXCEPT ![c] = "readback"]
      /\ chain' = [chain EXCEPT ![b] = Append(s, l)]
      /\ UNCHANGED <<planners, todo, job, lease, dirs>>
  BY DEF RenameSnapshot, Goto
<1>2. b \in Builds /\ l \in Ledgers /\ Derived(b, l) /\ Follows(l, b)
  BY <1>1 DEF JobInv, Jobs, SaveInv
<1>3. s \in Seq(Ledgers) /\ Len(s) \in Nat
  BY <1>2 DEF TypeOK
<1>4. Sound(l) /\ l.revision = Len(s) + 1
  BY <1>2, NextSnapshot DEF Follows
<1>5. /\ chain'[b] = Append(s, l)
      /\ \A d \in Builds : d # b => chain'[d] = chain[d]
  BY <1>1, <1>2 DEF TypeOK
<1>6. /\ Append(s, l) \in Seq(Ledgers)
      /\ Len(Append(s, l)) = Len(s) + 1
      /\ \A i \in 1..Len(s) : Append(s, l)[i] = s[i]
      /\ Append(s, l)[Len(s) + 1] = l
      /\ Append(s, l) # <<>>
  BY <1>2, <1>3, AppendKeeps
<1> HIDE DEF b, l, s
<1>7. TypeOK'
  BY <1>1, <1>2, <1>6 DEF TypeOK
<1>8. /\ \A d \in Builds : Len(chain'[d]) >= Len(chain[d])
      /\ \A d \in Builds : \A i \in 1..Len(chain[d]) :
           i \in 1..Len(chain'[d]) /\ chain'[d][i] = chain[d][i]
  <2> SUFFICES ASSUME NEW d \in Builds
               PROVE  /\ Len(chain'[d]) >= Len(chain[d])
                      /\ \A i \in 1..Len(chain[d]) :
                           i \in 1..Len(chain'[d]) /\ chain'[d][i] = chain[d][i]
    OBVIOUS
  <2>1. CASE d = b
    <3>1. chain[d] = s /\ chain'[d] = Append(s, l)
      BY <1>5, <2>1 DEF s
    <3> QED
      BY <1>3, <1>6, <3>1
  <2>2. CASE d # b
    <3>1. chain'[d] = chain[d] /\ Len(chain[d]) \in Nat
      BY <1>5, <2>2 DEF TypeOK
    <3> QED
      BY <3>1
  <2> QED
    BY <2>1, <2>2
<1>9. ChainInv'
  <2> SUFFICES ASSUME NEW d \in Builds, NEW i \in 1..Len(chain'[d])
               PROVE  chain'[d][i].revision = i /\ Sound(chain'[d][i])
    BY DEF ChainInv
  <2>1. CASE i \in 1..Len(chain[d])
    BY <1>8, <2>1 DEF ChainInv
  <2>2. CASE i \notin 1..Len(chain[d])
    <3>1. d = b
      BY <1>5, <2>2
    <3>2. i = Len(s) + 1
      BY <1>3, <1>5, <1>6, <2>2, <3>1 DEF s
    <3> QED
      BY <1>4, <1>5, <1>6, <3>1, <3>2
  <2> QED
    BY <2>1, <2>2
<1>10. CacheIsDurable'
  BY <1>1, <1>8 DEF CacheIsDurable
<1>11. JobInv'
  <2>1. \A d \in Builds : \A m : Derived(d, m) => Derived(d, m)'
    BY <1>8 DEF Derived
  <2> QED
    BY <1>1, <2>1 DEF JobInv, TypeOK, Jobs
<1>12. LeaseInv'
  BY <1>1 DEF LeaseInv, TypeOK
<1>13. SaveInv'
  <2> SUFFICES ASSUME NEW a \in Coordinators
               PROVE  /\ pc'[a] = "rename" => Follows(job[a].ledger, job[a].build)'
                      /\ pc'[a] = "readback" =>
                           /\ Persisted(job[a].build)'
                           /\ job'[a].ledger = Latest(job[a].build)'
    BY <1>1 DEF SaveInv
  <2>1. CASE a = c
    <3>1. pc'[a] = "readback"
      BY <1>1, <2>1 DEF TypeOK
    <3>2. Persisted(b)' /\ l = Latest(b)'
      BY <1>1, <1>3, <1>5, <1>6 DEF Persisted, Latest, b, l
    <3> QED
      BY <1>1, <2>1, <3>1, <3>2 DEF b, l
  <2>2. CASE a # c
    <3>1. pc'[a] = pc[a]
      BY <1>1, <2>2 DEF TypeOK
    <3>2. pc[a] \in {"rename", "readback"} =>
            job[a].build \in Builds /\ job[a].build # b
      BY <1>1, <2>2 DEF LeaseInv, JobInv, Jobs, b
    <3>3. pc[a] \in {"rename", "readback"} =>
            chain'[job[a].build] = chain[job[a].build]
      BY <1>5, <3>2
    <3> QED
      BY <1>1, <3>1, <3>3 DEF SaveInv, Follows, Persisted, Latest
  <2> QED
    BY <2>1, <2>2
<1> QED
  BY <1>7, <1>9, <1>10, <1>11, <1>12, <1>13

\* A crash takes away only what the dead coordinator had.
LEMMA CrashIInv ==
  ASSUME IInv, NEW c \in Coordinators, Crash(c) PROVE IInv'
<1> USE DEF IInv, Crash, Goto
<1>1. ChainInv'
  BY ChainUnchanged
<1>2. TypeOK'
  BY DEF TypeOK, NothingCached
<1>3. CacheIsDurable'
  BY DEF CacheIsDurable, NothingCached, TypeOK
<1>4. JobInv' /\ SaveInv'
  BY DEF TypeOK, JobInv, SaveInv, Saving, InLease, Derived, Follows, Persisted, Latest
<1>5. LeaseInv'
  <2> SUFFICES ASSUME NEW a \in Coordinators, pc'[a] \in InLease
               PROVE  lease'[job'[a].build] = a
    BY DEF LeaseInv
  <2>1. a # c /\ pc[a] \in InLease /\ job'[a] = job[a]
    BY DEF TypeOK, InLease
  <2>2. job[a].build \in Builds /\ lease[job[a].build] = a
    BY <2>1 DEF LeaseInv, JobInv, Jobs, Saving
  <2> QED
    BY <2>1, <2>2
<1> QED
  BY <1>1, <1>2, <1>3, <1>4, <1>5

LEMMA NextIInv == IInv /\ [Next]_vars => IInv'
<1> SUFFICES ASSUME IInv, [Next]_vars PROVE IInv'
  OBVIOUS
<1>1. CASE UNCHANGED vars
  BY <1>1 DEF vars, IInv, TypeOK, ChainInv, CacheIsDurable, JobInv, LeaseInv,
     SaveInv, Derived, Follows, Persisted, Latest
<1>2. CASE Next
  BY <1>2, OpenIInv, CandidateIInv, SaveIInv, RenameIInv, CrashIInv DEF Next
<1> QED
  BY <1>1, <1>2

\* In every reachable state the store, the caches, the candidates and the
\* leases agree as the inductive invariant says.
THEOREM StoreInvariant == Spec => []IInv
<1>1. Init => IInv
  BY InitIInv
<1>2. IInv /\ [Next]_vars => IInv'
  BY NextIInv
<1> QED
  BY <1>1, <1>2, PTL DEF Spec

\* The variables keep their types.
THEOREM Typing == Spec => []TypeOK
<1>1. IInv => TypeOK
  BY DEF IInv
<1> QED
  BY <1>1, StoreInvariant, PTL

\* No interleaving of coordinators, timeouts and crashes leaves a chain that
\* load would refuse.
THEOREM ChainsStayLoadable == Spec => []ChainLoadable
<1>1. IInv => ChainLoadable
  <2> SUFFICES ASSUME IInv, NEW b \in Builds, NEW i \in 1..Len(chain[b])
               PROVE  chain[b][i].revision = i /\ Valid(chain[b][i])
    BY DEF ChainLoadable
  <2>1. chain[b][i].revision = i /\ Sound(chain[b][i])
    BY DEF IInv, ChainInv
  <2> QED
    BY <2>1, SoundIsValid
<1> QED
  BY <1>1, StoreInvariant, PTL

\* A coordinator never acts on a ledger that is not on disk.
THEOREM CachesAreDurable == Spec => []CacheIsDurable
<1>1. IInv => CacheIsDurable
  BY DEF IInv
<1> QED
  BY <1>1, StoreInvariant, PTL

\* Every snapshot ever written has the spine in order, the corrections within
\* the limit and debt only between its gates.
THEOREM LedgersStaySound == Spec => []LedgersSound
<1>1. IInv => LedgersSound
  BY DEF IInv, ChainInv, LedgersSound, Sound
<1> QED
  BY <1>1, StoreInvariant, PTL

(***************************************************************************)
(* What one write means for its build.                                     *)
(***************************************************************************)
\* Nothing but the rename in save changes a chain.
LEMMA OnlyRenameWrites ==
  ASSUME [Next]_vars
  PROVE  chain' = chain \/ \E c \in Coordinators : RenameSnapshot(c)
  BY DEF Next, vars, Open, Listing, LoadOne, LoadNotFound, LoadTimesOut, Opened,
     StartBuild, Evaluate, Save, CreateDirectory, AcquireLease, LeaseTimesOut,
     LoadAndCheck, Conflict, AlreadySaved, WriteFails, Saved, ReadbackFails,
     Return, Crash

\* What is written starts its build, or follows its latest snapshot by one
\* evaluation.
LEMMA WriteFollows ==
  ASSUME IInv, NEW c \in Coordinators, RenameSnapshot(c)
  PROVE  \E b \in Builds : \E l \in Ledgers :
           /\ \A d \in Builds : d # b => chain'[d] = chain[d]
           /\ Persisted(b)' /\ Latest(b)' = l
           /\ Sound(l)
           /\ Persisted(b) => Sound(Latest(b)) /\ Follow(Latest(b), l)
           /\ ~Persisted(b) => l = NewLedger
<1>1. PICK b \in Builds, l \in Ledgers :
        b = job[c].build /\ l = job[c].ledger /\ Derived(b, l) /\ Follows(l, b)
  BY DEF RenameSnapshot, IInv, JobInv, Jobs, SaveInv, Saving, InLease
<1>2. chain' = [chain EXCEPT ![b] = Append(chain[b], l)]
  BY <1>1 DEF RenameSnapshot
<1>3. /\ Sound(l)
      /\ Persisted(b) => Follow(Latest(b), l)
      /\ ~Persisted(b) => l = NewLedger
  BY <1>1, NextSnapshot DEF IInv
<1>4. /\ chain'[b] = Append(chain[b], l)
      /\ \A d \in Builds : d # b => chain'[d] = chain[d]
      /\ chain[b] \in Seq(Ledgers)
  BY <1>2 DEF IInv, TypeOK
<1>5. Persisted(b)' /\ Latest(b)' = l
  <2>1. chain'[b] # <<>> /\ chain'[b][Len(chain'[b])] = l
    BY <1>4, AppendKeeps
  <2> QED
    BY <2>1 DEF Persisted, Latest
<1>6. ASSUME Persisted(b) PROVE Sound(Latest(b))
  <2>1. Len(chain[b]) \in 1..Len(chain[b])
    BY <1>4, <1>6 DEF Persisted
  <2> QED
    BY <2>1 DEF Latest, IInv, ChainInv
<1>7. /\ \A d \in Builds : d # b => chain'[d] = chain[d]
      /\ Persisted(b)' /\ Latest(b)' = l
      /\ Sound(l)
      /\ Persisted(b) => Sound(Latest(b)) /\ Follow(Latest(b), l)
      /\ ~Persisted(b) => l = NewLedger
  BY <1>3, <1>4, <1>5, <1>6
<1> QED
  BY <1>7

\* An evaluation is an advance, the completion, a correction within the limit
\* or a halt, and only of an active build.
LEMMA FollowIsSpineStep ==
  ASSUME NEW k, Sound(k), NEW m, Follow(k, m)
  PROVE  /\ k.status = "active"
         /\ \/ /\ HasNext(k.current_step)
               /\ m.current_step = NextStep(k.current_step)
               /\ m.status = "active"
               /\ m.retries[m.current_step] = 0
            \/ /\ ~HasNext(k.current_step)
               /\ m.current_step = k.current_step
               /\ m.status = "complete"
               /\ m.retries[m.current_step] = k.retries[k.current_step]
            \/ /\ Autonomous
               /\ k.retries[k.current_step] < RetryLimit
               /\ m.current_step = k.current_step
               /\ m.status = "active"
               /\ m.retries[m.current_step] = k.retries[k.current_step] + 1
            \/ /\ m.current_step = k.current_step
               /\ m.status = "halted"
               /\ m.retries[m.current_step] = k.retries[k.current_step]
<1>1. PICK in \in Inputs(k.current_step) : Accepts(k, in) /\ m = Evaluated(k, in)
  BY DEF Follow
<1>2. /\ k \in Ledgers /\ k.status = "active" /\ in.step = k.current_step
      /\ k.current_step \in Steps /\ k.retries \in [Steps -> Nat]
  BY <1>1, LedgerFields DEF Accepts, Sound
<1>3. RetryLimit \in Nat
  BY RetryLimitAssumption
<1>4. CASE m = Passed(k, in)
  <2>1. /\ m.retries = k.retries
        /\ m.current_step = IF HasNext(k.current_step)
                            THEN NextStep(k.current_step) ELSE k.current_step
        /\ m.status = IF HasNext(k.current_step) THEN k.status ELSE "complete"
    BY <1>2, <1>4 DEF Passed, Ledgers
  <2>2. HasNext(k.current_step) => k.retries[NextStep(k.current_step)] = 0
    BY <1>2, StepsAreOrdinals DEF Sound, CorrectionsBounded, HasNext, NextStep,
       LaunchProof
  <2> QED
    BY <1>2, <2>1, <2>2
<1>5. CASE RetryEligible(k, in) /\ m = Retried(k, in)
  BY <1>2, <1>3, <1>5 DEF RetryEligible, Retried, Ledgers
<1>6. CASE m = Halted(k)
  BY <1>2, <1>6 DEF Halted, Ledgers
<1> QED
  BY <1>1, <1>2, <1>4, <1>5, <1>6 DEF Evaluated

\* A build that has halted or completed gets no further snapshot from anyone.
THEOREM ClosedBuilds == Spec => ClosedBuildsStayClosed
<1>1. IInv /\ [Next]_vars =>
        [\A b \in Builds :
           Persisted(b) /\ Latest(b).status # "active" => chain'[b] = chain[b]]_vars
  <2> SUFFICES ASSUME IInv, [Next]_vars, NEW b \in Builds,
                      Persisted(b), Latest(b).status # "active"
               PROVE  chain'[b] = chain[b]
    OBVIOUS
  <2>1. CASE chain' = chain
    BY <2>1
  <2>2. CASE \E c \in Coordinators : RenameSnapshot(c)
    BY <2>2, WriteFollows, FollowIsSpineStep
  <2> QED
    BY <2>1, <2>2, OnlyRenameWrites
<1> QED
  BY <1>1, StoreInvariant, PTL DEF Spec, ClosedBuildsStayClosed

(***************************************************************************)
(* Refinement of the build spine.                                          *)
(***************************************************************************)
\* A write of build b moves the abstract state of b alone.
LEMMA AbstractOf ==
  ASSUME NEW b \in Builds,
         \A d \in Builds : d # b => chain'[d] = chain[d]
  PROVE  /\ stage'  = [stage EXCEPT ![b] = stage'[b]]
         /\ status' = [status EXCEPT ![b] = status'[b]]
         /\ corrections' = [corrections EXCEPT ![b] = corrections'[b]]
  BY DEF stage, status, corrections, Persisted, Latest

LEMMA StepRefinesSpine == IInv /\ [Next]_vars => [Spine!Next]_(Spine!vars)
<1> SUFFICES ASSUME IInv, [Next]_vars PROVE [Spine!Next]_(Spine!vars)
  OBVIOUS
<1>1. CASE chain' = chain
  BY <1>1 DEF Spine!vars, stage, status, corrections, Persisted, Latest
<1>2. CASE \E c \in Coordinators : RenameSnapshot(c)
  <2>1. PICK c \in Coordinators : RenameSnapshot(c)
    BY <1>2
  <2>2. PICK b \in Builds, l \in Ledgers :
           /\ \A d \in Builds : d # b => chain'[d] = chain[d]
           /\ Persisted(b)' /\ Latest(b)' = l
           /\ Sound(l)
           /\ Persisted(b) => Sound(Latest(b)) /\ Follow(Latest(b), l)
           /\ ~Persisted(b) => l = NewLedger
    BY <2>1, WriteFollows
  <2>3. /\ stage'[b] = l.current_step
        /\ status'[b] = l.status
        /\ corrections'[b] = l.retries[l.current_step]
    BY <2>2 DEF stage, status, corrections
  <2>4. /\ stage'  = [stage EXCEPT ![b] = stage'[b]]
        /\ status' = [status EXCEPT ![b] = status'[b]]
        /\ corrections' = [corrections EXCEPT ![b] = corrections'[b]]
    BY <2>2, AbstractOf
  <2>5. CASE ~Persisted(b)
    <3>1. stage[b] = 0 /\ status[b] = "active" /\ corrections[b] = 0
      BY <2>5 DEF stage, status, corrections
    <3>2. stage'[b] = Intake /\ status'[b] = "active" /\ corrections'[b] = 0
      <4>1. /\ NewLedger.current_step = Intake
            /\ NewLedger.status = "active"
            /\ NewLedger.retries = [s \in Steps |-> 0]
        BY DEF NewLedger
      <4>2. NewLedger.retries[Intake] = 0
        BY <4>1 DEF Steps, Intake, LaunchProof
      <4> QED
        BY <2>2, <2>3, <2>5, <4>1, <4>2
    <3>3. status' = status /\ corrections' = corrections
      <4>1. /\ status'[b] = status[b] => status' = status
            /\ corrections'[b] = corrections[b] => corrections' = corrections
        BY <2>4 DEF status, corrections
      <4> QED
        BY <3>1, <3>2, <4>1
    <3>4. Spine!Start(b)
      BY <2>4, <3>1, <3>2, <3>3 DEF Spine!Start, Spine!Intake, Intake
    <3> QED
      BY <3>4 DEF Spine!Next
  <2>6. CASE Persisted(b)
    <3> DEFINE k == Latest(b)
    <3>1. /\ stage[b] = k.current_step /\ status[b] = k.status
          /\ corrections[b] = k.retries[k.current_step]
      BY <2>6 DEF stage, status, corrections
    <3>2. k.current_step \in Steps
      BY <2>2, <2>6, LedgerFields DEF Sound
    <3>3. Spine!Running(b)
      BY <2>2, <2>6, <3>1, <3>2, FollowIsSpineStep, StepsAreOrdinals
         DEF Spine!Running
    <3>4. /\ stage'[b] = stage[b] => stage' = stage
          /\ status'[b] = status[b] => status' = status
          /\ corrections'[b] = corrections[b] => corrections' = corrections
      BY <2>4 DEF stage, status, corrections
    <3> HIDE DEF k
    <3>5. CASE /\ HasNext(k.current_step)
               /\ l.current_step = NextStep(k.current_step)
               /\ l.status = "active"
               /\ l.retries[l.current_step] = 0
      <4>1. Spine!Advance(b)
        BY <2>3, <2>4, <3>1, <3>2, <3>3, <3>4, <3>5
           DEF Spine!Advance, Spine!Running, HasNext, NextStep, LaunchProof,
               Spine!LaunchProof, Steps, Intake
      <4> QED
        BY <4>1 DEF Spine!Next
    <3>6. CASE /\ ~HasNext(k.current_step)
               /\ l.current_step = k.current_step
               /\ l.status = "complete"
               /\ l.retries[l.current_step] = k.retries[k.current_step]
      <4>1. Spine!Complete(b)
        BY <2>3, <2>4, <3>1, <3>3, <3>4, <3>6
           DEF Spine!Complete, HasNext, LaunchProof, Spine!LaunchProof
      <4> QED
        BY <4>1 DEF Spine!Next
    <3>7. CASE /\ Autonomous
               /\ k.retries[k.current_step] < RetryLimit
               /\ l.current_step = k.current_step
               /\ l.status = "active"
               /\ l.retries[l.current_step] = k.retries[k.current_step] + 1
      <4>1. Spine!Correct(b)
        BY <2>3, <2>4, <3>1, <3>3, <3>4, <3>7 DEF Spine!Correct, Spine!Running
      <4> QED
        BY <4>1 DEF Spine!Next
    <3>8. CASE /\ l.current_step = k.current_step
               /\ l.status = "halted"
               /\ l.retries[l.current_step] = k.retries[k.current_step]
      <4>1. Spine!Halt(b)
        BY <2>3, <2>4, <3>1, <3>3, <3>4, <3>8 DEF Spine!Halt
      <4> QED
        BY <4>1 DEF Spine!Next
    <3> QED
      BY <2>2, <2>6, <3>5, <3>6, <3>7, <3>8, FollowIsSpineStep DEF k
  <2> QED
    BY <2>5, <2>6
<1> QED
  BY <1>1, <1>2, OnlyRenameWrites

\* However coordinators race, time out and die, every build moves along the
\* six-step spine and nowhere else.
THEOREM CoordinatorsImplementSpine == Spec => SpineSpec
<1>1. Init => Spine!Init
  BY DEF Init, Spine!Init, stage, status, corrections, Persisted
<1>2. IInv /\ [Next]_vars => [Spine!Next]_(Spine!vars)
  BY StepRefinesSpine
<1> QED
  BY <1>1, <1>2, StoreInvariant, PTL DEF Spec, SpineSpec, Spine!Spec
==============================================================================
