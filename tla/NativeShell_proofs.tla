--------------------------- MODULE NativeShell_proofs ---------------------------
(***************************************************************************)
(* Proofs about the native shell, for any intents and providers, any       *)
(* number of runs and faults.                                              *)
(*                                                                         *)
(* The argument needs the types of the runtime, of the bridge and of the   *)
(* work under way, and of what feeds them: a prepared call carries the     *)
(* number of lessons remembered, which is counted over the ledger's lines. *)
(* What the lessons say enters no step of that.  The second part is about  *)
(* them: what a shell remembers is what the ledger file would teach it.    *)
(***************************************************************************)
EXTENDS NativeShell, TLAPS, FiniteSetTheorems, SequenceTheorems

(***************************************************************************)
(* The types the argument needs.                                           *)
(***************************************************************************)
MemTyped(m) ==
  /\ m = [records |-> m.records, nodes |-> m.nodes, attempts |-> m.attempts,
          summary |-> m.summary]
  /\ m.summary \in [Outcomes -> Nat]

FileTyped(f) ==
  /\ f = [lines |-> f.lines, torn |-> f.torn]
  /\ f.lines \in Seq(Range(f.lines))
  /\ f.torn \in BOOLEAN

DiskTyped(d) ==
  /\ d = [proofs |-> d.proofs, learning |-> d.learning]
  /\ d.proofs \in BOOLEAN
  /\ FileTyped(d.learning)

ShellTyped ==
  /\ up \in BOOLEAN
  /\ rt \in Runtimes
  /\ MemTyped(mem)
  /\ vibe \in Vibes
  /\ lastIntent \in Intents \cup {NoIntent}
  /\ rx \in [Kinds -> {NoWorker} \cup Calls]
  /\ running \in [Kinds \ {"vibe"} -> BOOLEAN]
  /\ timer \in [Kinds -> BOOLEAN]
  /\ DiskTyped(disk)
  /\ clean \in BOOLEAN
  /\ runs \in 0..MaxRuns
  /\ faults \in 0..MaxFaults

BooksTyped(b) ==
  /\ b = [rt |-> b.rt, mem |-> b.mem, disk |-> b.disk, clean |-> b.clean]
  /\ b.rt \in Runtimes
  /\ MemTyped(b.mem)
  /\ DiskTyped(b.disk)
  /\ b.clean \in BOOLEAN

\* A process that is down has lent nothing.
DownIsIdle == ~up => vibe.state # "running"

ShellInv == ShellTyped /\ WorkersArePolled /\ ReportsMatchTheirCall /\ DownIsIdle
(***************************************************************************)
(* Ledgers and memory.                                                     *)
(***************************************************************************)
\* A line more is still a sequence of lines.
LEMMA LinesGrow ==
  ASSUME NEW s, s \in Seq(Range(s)), NEW e
  PROVE  Append(s, e) \in Seq(Range(Append(s, e)))
<1> DEFINE S == Range(s) \cup {e}
           t == Append(s, e)
<1>1. s \in Seq(S)
  OBVIOUS
<1>2. e \in S
  OBVIOUS
<1> HIDE DEF S
<1>3. t \in Seq(S)
  BY <1>1, <1>2
<1> HIDE DEF t
<1>4. DOMAIN t = 1..Len(t) /\ Len(t) \in Nat
  BY <1>3
<1>5. t \in [1..Len(t) -> Range(t)]
  BY <1>3, <1>4 DEF Range
<1>6. t \in Seq(Range(t))
  BY <1>4, <1>5
<1> QED
  BY <1>6 DEF t

LEMMA AppendLineTyped ==
  ASSUME NEW f, FileTyped(f), NEW record, NEW end
  PROVE  FileTyped(AppendLine(f, record, end))
<1> DEFINE e == IF f.torn THEN Garbled ELSE record
           grown == Append(f.lines, e)
<1>1. grown \in Seq(Range(grown))
  BY LinesGrow DEF FileTyped
<1> HIDE DEF grown
<1>2. FileTyped([lines |-> grown, torn |-> FALSE])
  BY <1>1 DEF FileTyped
<1>3. FileTyped([f EXCEPT !.torn = TRUE])
  <2> DEFINE x == f.lines
             y == f.torn
  <2>1. f = [lines |-> x, torn |-> y] /\ x \in Seq(Range(x))
    BY DEF FileTyped
  <2> HIDE DEF x, y
  <2>2. f \in [lines : {x}, torn : BOOLEAN]
    BY <2>1 DEF FileTyped, y
  <2> DEFINE g == [f EXCEPT !.torn = TRUE]
  <2>3. g \in [lines : {x}, torn : BOOLEAN]
    BY <2>2
  <2> HIDE DEF g
  <2>4. g = [lines |-> g.lines, torn |-> g.torn] /\ g.lines = x /\ g.torn \in BOOLEAN
    BY <2>3
  <2>5. FileTyped(g)
    BY <2>1, <2>4 DEF FileTyped
  <2> QED
    BY <2>5 DEF g
<1> QED
  BY <1>2, <1>3 DEF AppendLine, grown

\* Lessons are counted.
LEMMA SummaryTyped ==
  ASSUME NEW s, s \in Seq(Range(s))
  PROVE  Summary(s) \in [Outcomes -> Nat]
<1>1. ASSUME NEW o PROVE Cardinality({i \in DOMAIN s : s[i].outcome = o}) \in Nat
  <2>1. IsFiniteSet(1..Len(s))
    BY FS_Interval
  <2>2. DOMAIN s = 1..Len(s)
    OBVIOUS
  <2>3. IsFiniteSet({i \in DOMAIN s : s[i].outcome = o})
    BY <2>1, <2>2, FS_Subset
  <2> QED
    BY <2>3, FS_CardinalityType
<1> QED
  BY <1>1 DEF Summary

LEMMA RecallTyped ==
  ASSUME NEW f, FileTyped(f)
  PROVE  MemTyped(Recall(f))
<1> DEFINE records == ReadRecords(f)
<1>1. records \in Seq(Range(records))
  <2>1. <<>> \in Seq(Range(<<>>))
    OBVIOUS
  <2>2. f.lines \in Seq(Range(f.lines))
    BY DEF FileTyped
  <2>3. records = f.lines \/ records = <<>>
    BY DEF ReadRecords
  <2>4. CASE records = f.lines
    BY <2>2, <2>4
  <2>5. CASE records = <<>>
    BY <2>1, <2>5
  <2> QED
    BY <2>3, <2>4, <2>5
<1> HIDE DEF records
<1>2. Summary(records) \in [Outcomes -> Nat]
  BY <1>1, SummaryTyped
<1> QED
  BY <1>2 DEF Recall, MemTyped, records

LEMMA LearnTyped ==
  ASSUME NEW m, MemTyped(m), NEW lesson, lesson.outcome \in Outcomes
  PROVE  MemTyped(Learn(m, lesson))
BY DEF MemTyped, Learn
(***************************************************************************)
(* The books: what an operation does to the runtime, the memory and the    *)
(* ledgers together.                                                       *)
(***************************************************************************)
LEMMA BlockTyped ==
  ASSUME NEW r \in Runtimes, NEW reason \in Reasons
  PROVE  BlockRuntime(r, reason) \in Runtimes
BY DEF BlockRuntime, Runtimes, Statuses

LEMMA RouteTyped ==
  ASSUME NEW r \in Runtimes
  PROVE  RouteLesson(r) \in Runtimes
BY DEF RouteLesson, Runtimes

\* Appending keeps the types; of the runtime it changes the route at most.
LEMMA AppendLessonTyped ==
  ASSUME NEW b, BooksTyped(b), NEW lesson, lesson.outcome \in Outcomes, NEW end
  PROVE  /\ BooksTyped(AppendLesson(b, lesson, end))
         /\ AppendLesson(b, lesson, end).rt \in {b.rt, RouteLesson(b.rt)}
<1> DEFINE d == [proofs |-> b.disk.proofs,
                 learning |-> AppendLine(b.disk.learning, lesson, end)]
           w == [rt |-> b.rt, mem |-> b.mem, disk |-> d, clean |-> b.clean]
<1>1. FileTyped(AppendLine(b.disk.learning, lesson, end))
  BY AppendLineTyped DEF BooksTyped, DiskTyped
<1>2. DiskTyped(d)
  BY <1>1 DEF BooksTyped, DiskTyped
<1>3. [b EXCEPT !.disk.learning = AppendLine(@, lesson, end)] = w
  BY DEF BooksTyped, DiskTyped
<1>4. MemTyped(Learn(b.mem, lesson))
  BY LearnTyped DEF BooksTyped
<1> HIDE DEF d
<1>5. [w EXCEPT !.mem = Learn(@, lesson), !.rt = RouteLesson(@)]
        = [rt |-> RouteLesson(b.rt), mem |-> Learn(b.mem, lesson), disk |-> d,
           clean |-> b.clean]
  <2>1. /\ w.mem = b.mem /\ w.rt = b.rt
        /\ w \in [rt : {b.rt}, mem : {b.mem}, disk : {d}, clean : {b.clean}]
    OBVIOUS
  <2> HIDE DEF w
  <2>2. [w EXCEPT !.mem = Learn(@, lesson), !.rt = RouteLesson(@)]
          = [w EXCEPT !.mem = Learn(b.mem, lesson), !.rt = RouteLesson(b.rt)]
    BY <2>1
  <2>3. \A m, q : [w EXCEPT !.mem = m, !.rt = q]
                    \in [rt : {q}, mem : {m}, disk : {d}, clean : {b.clean}]
    BY <2>1
  <2> DEFINE x == RouteLesson(b.rt)
             m == Learn(b.mem, lesson)
             z == [w EXCEPT !.mem = m, !.rt = x]
  <2>4. z \in [rt : {x}, mem : {m}, disk : {d}, clean : {b.clean}]
    <3> HIDE DEF m, x
    <3> QED
      BY <2>3, Zenon DEF z
  <2>5. [w EXCEPT !.mem = Learn(@, lesson), !.rt = RouteLesson(@)] = z
    BY <2>2
  <2>6. z = [rt |-> x, mem |-> m, disk |-> d, clean |-> b.clean]
    <3> HIDE DEF m, x, z
    <3> QED
      BY <2>4
  <2> HIDE DEF z
  <2> QED
    BY <2>5, <2>6
<1>6. ASSUME NEW u, u = [w EXCEPT !.clean = FALSE]
      PROVE  /\ u = [rt |-> u.rt, mem |-> u.mem, disk |-> u.disk, clean |-> u.clean]
             /\ u.rt = b.rt /\ u.mem = b.mem /\ u.disk = d /\ u.clean \in BOOLEAN
  <2>1. w \in [rt : {b.rt}, mem : {b.mem}, disk : {d}, clean : BOOLEAN]
    BY DEF BooksTyped
  <2> HIDE DEF w
  <2>2. u \in [rt : {b.rt}, mem : {b.mem}, disk : {d}, clean : BOOLEAN]
    BY <1>6, <2>1
  <2> QED
    BY <2>2
<1>7. AppendLesson(b, lesson, end) =
        IF end = "written" THEN [w EXCEPT !.mem = Learn(@, lesson), !.rt = RouteLesson(@)]
                           ELSE [w EXCEPT !.clean = FALSE]
  BY <1>3 DEF AppendLesson
<1> HIDE DEF w
<1>8. CASE end = "written"
  <2>1. RouteLesson(b.rt) \in Runtimes
    BY RouteTyped DEF BooksTyped
  <2> QED
    BY <1>2, <1>4, <1>5, <1>7, <1>8, <2>1 DEF BooksTyped
<1>9. CASE end # "written"
  <2> DEFINE u == AppendLesson(b, lesson, end)
  <2>1. u = [w EXCEPT !.clean = FALSE]
    BY <1>7, <1>9
  <2> HIDE DEF u
  <2>2. BooksTyped(u) /\ u.rt = b.rt
    BY <1>2, <1>6, <2>1 DEF BooksTyped
  <2> QED
    BY <2>2 DEF u
<1> QED
  BY <1>8, <1>9

\* The runtime after appends: as it was or with the route of a lesson, and
\* perhaps blocked by the store.
Stored(r, s) == \E q \in {r, RouteLesson(r)} : s = q \/ s = BlockRuntime(q, "store")

LEMMA AppendProofTyped ==
  ASSUME NEW b, BooksTyped(b), NEW end
  PROVE  /\ BooksTyped(AppendProof(b, end))
         /\ AppendProof(b, end).rt =
              IF end = "written" THEN b.rt ELSE BlockRuntime(b.rt, "store")
<1> DEFINE d == [proofs |-> b.disk.proofs /\ end # "torn",
                 learning |-> b.disk.learning]
           w == [rt |-> b.rt, mem |-> b.mem, disk |-> d, clean |-> b.clean]
<1>1. DiskTyped(d)
  BY DEF BooksTyped, DiskTyped
<1>2. [b EXCEPT !.disk.proofs = @ /\ end # "torn"] = w
  BY DEF BooksTyped, DiskTyped
<1>3. BlockRuntime(b.rt, "store") \in Runtimes
  BY BlockTyped DEF BooksTyped, Reasons
<1> HIDE DEF d
<1>4. [w EXCEPT !.rt = BlockRuntime(@, "store")]
        = [rt |-> BlockRuntime(b.rt, "store"), mem |-> b.mem, disk |-> d,
           clean |-> b.clean]
  OBVIOUS
<1>5. AppendProof(b, end) = IF end = "written" THEN w
                            ELSE [w EXCEPT !.rt = BlockRuntime(@, "store")]
  BY <1>2 DEF AppendProof
<1>6. CASE end = "written"
  BY <1>1, <1>5, <1>6 DEF BooksTyped
<1>7. CASE end # "written"
  BY <1>1, <1>3, <1>4, <1>5, <1>7 DEF BooksTyped
<1> QED
  BY <1>6, <1>7

LEMMA AppendProofRecordTyped ==
  ASSUME NEW b, BooksTyped(b), NEW learn, NEW intent, NEW about, NEW ends
  PROVE  /\ BooksTyped(AppendProofRecord(b, learn, intent, about, ends))
         /\ Stored(b.rt, AppendProofRecord(b, learn, intent, about, ends).rt)
<1> DEFINE proved == AppendProof(b, ends.proof)
           lesson == LessonOf(proved.rt, proved.mem, intent, about)
           taught == AppendLesson(proved, lesson, ends.lesson)
           result == AppendProofRecord(b, learn, intent, about, ends)
<1>1. /\ BooksTyped(proved)
      /\ proved.rt = IF ends.proof = "written" THEN b.rt
                     ELSE BlockRuntime(b.rt, "store")
  BY AppendProofTyped
<1> HIDE DEF proved
<1>2. lesson.outcome \in Outcomes
  BY DEF LessonOf, Outcomes
<1> HIDE DEF lesson
<1>3. BooksTyped(taught) /\ taught.rt \in {proved.rt, RouteLesson(proved.rt)}
  BY <1>1, <1>2, AppendLessonTyped
<1>4. result =
        IF ends.proof # "written" \/ ~learn \/ proved.rt.status \notin {"proven", "blocked"}
          THEN proved
        ELSE IF ends.lesson = "written" THEN taught
             ELSE [taught EXCEPT !.rt = BlockRuntime(@, "store")]
  BY DEF AppendProofRecord, proved, lesson
<1> HIDE DEF taught
<1>5. BlockRuntime(taught.rt, "store") \in Runtimes
  BY <1>3, BlockTyped DEF BooksTyped, Reasons
<1>6. [taught EXCEPT !.rt = BlockRuntime(@, "store")]
        = [rt |-> BlockRuntime(taught.rt, "store"), mem |-> taught.mem,
           disk |-> taught.disk, clean |-> taught.clean]
  BY <1>3 DEF BooksTyped
<1>7. BooksTyped([taught EXCEPT !.rt = BlockRuntime(@, "store")])
  BY <1>3, <1>5, <1>6 DEF BooksTyped
<1> HIDE DEF result
<1>8. CASE result = proved
  BY <1>1, <1>8 DEF Stored, result
<1>9. CASE result = taught /\ ends.proof = "written"
  BY <1>1, <1>3, <1>9 DEF Stored, result
<1>10. CASE /\ result = [taught EXCEPT !.rt = BlockRuntime(@, "store")]
            /\ ends.proof = "written"
  BY <1>1, <1>3, <1>6, <1>7, <1>10 DEF Stored, result
<1> QED
  BY <1>4, <1>8, <1>9, <1>10
(***************************************************************************)
(* The runtime and the bridge, function by function.                       *)
(***************************************************************************)
RuntimeSound(r) ==
  /\ r.status = "verification" => r.output # NoCall
  /\ r.output # NoCall => r.output = r.call
  /\ r.status # "proven"

LEMMA RunSound ==
  ASSUME NEW r \in Runtimes, NEW i \in Intents, NEW n \in Nat
  PROVE  /\ RunCoderIntent(r, i, n) \in Runtimes
         /\ RuntimeSound(RunCoderIntent(r, i, n))
<1> DEFINE c == [intent |-> i, provider |-> r.provider, lessons |-> n]
<1>1. c \in Calls
  BY DEF Calls, Runtimes
<1> HIDE DEF c
<1>2. CASE r.provider \in Ready
  <2>1. RunCoderIntent(r, i, n)
          = [r EXCEPT !.status = "pending", !.call = c, !.output = NoCall,
                      !.blockers = {}, !.routed = TRUE]
    BY <1>2 DEF RunCoderIntent, c
  <2> QED
    BY <1>1, <2>1 DEF Runtimes, Statuses, RuntimeSound
<1>3. CASE r.provider \notin Ready
  <2>1. RunCoderIntent(r, i, n)
          = [r EXCEPT !.status = "blocked", !.call = NoCall, !.output = NoCall,
                      !.blockers = {"credential"}, !.routed = TRUE]
    BY <1>3 DEF RunCoderIntent
  <2> QED
    BY <2>1 DEF Runtimes, Statuses, RuntimeSound, Reasons
<1> QED
  BY <1>2, <1>3

LEMMA BlockSound ==
  ASSUME NEW r \in Runtimes, RuntimeSound(r), NEW reason \in Reasons
  PROVE  BlockRuntime(r, reason) \in Runtimes /\ RuntimeSound(BlockRuntime(r, reason))
BY BlockTyped DEF BlockRuntime, Runtimes, RuntimeSound

LEMMA StoredSound ==
  ASSUME NEW r \in Runtimes, RuntimeSound(r), NEW s, Stored(r, s)
  PROVE  RuntimeSound(s)
<1>1. RouteLesson(r) \in Runtimes /\ RuntimeSound(RouteLesson(r))
  BY DEF RouteLesson, Runtimes, RuntimeSound
<1> QED
  BY <1>1, BlockSound DEF Stored, Reasons

LEMMA DriftSound ==
  ASSUME NEW r \in Runtimes, RuntimeSound(r)
  PROVE  FlagDrift(r) \in Runtimes /\ RuntimeSound(FlagDrift(r))
BY DEF FlagDrift, Runtimes, Statuses, RuntimeSound

LEMMA ApplySound ==
  ASSUME NEW r, NEW p \in Providers
  PROVE  ApplyProvider(r, p) \in Runtimes /\ RuntimeSound(ApplyProvider(r, p))
BY DEF ApplyProvider, Runtimes, Statuses, RuntimeSound

LEMMA OpenSound ==
  ASSUME NEW p \in Providers
  PROVE  OpenRuntime(p) \in Runtimes /\ RuntimeSound(OpenRuntime(p))
BY DEF OpenRuntime, Runtimes, Statuses, Reasons, RuntimeSound

\* The report of another plan than the one prepared for the run blocks the run.
LEMMA ReportSound ==
  ASSUME NEW r \in Runtimes, RuntimeSound(r), NEW task \in Calls, NEW intact \in BOOLEAN
  PROVE  /\ MarkReport(r, task, intact) \in Runtimes
         /\ RuntimeSound(MarkReport(r, task, intact))
<1>1. CASE intact /\ VerifiesReport(r, task)
  <2>1. r.call = task /\ task # NoCall
    BY <1>1, WorkerAssumption DEF VerifiesReport
  <2>2. MarkReport(r, task, intact) = [r EXCEPT !.status = "verification", !.output = task]
    BY <1>1 DEF MarkReport
  <2> QED
    BY <2>1, <2>2 DEF Runtimes, Statuses, RuntimeSound
<1>2. CASE ~(intact /\ VerifiesReport(r, task))
  BY <1>2, BlockSound DEF MarkReport, Reasons
<1> QED
  BY <1>1, <1>2

\* The bridge's runtime is lent exactly while a step runs.
VibeSound(v) == v \in Vibes /\ (v.runtime = "lent" <=> v.state = "running")

LEMMA VibeFunctions ==
  ASSUME NEW v, VibeSound(v)
  PROVE  /\ \A turn \in Calls : \A start :
              /\ VibeSound(StartBuild(v, turn, start))
              /\ StartBuild(v, turn, start).state = "running" <=> v.state = "running"
         /\ MayStep(v) => /\ VibeSound(LendRuntime(v))
                          /\ LendRuntime(v).state = "running"
                          /\ v.state # "running"
                          /\ v.prepared \in Calls
         /\ VibeSound(RefuseStep(v))
         /\ RefuseStep(v).state = "running" <=> v.state = "running"
         /\ \A ok \in BOOLEAN : /\ VibeSound(ReturnRuntime(v, ok))
                                 /\ ReturnRuntime(v, ok).state # "running"
         /\ VibeSound(LoseRuntime(v)) /\ LoseRuntime(v).state # "running"
         /\ \A p \in Providers :
              /\ VibeSound(SwitchVibe(v, p))
              /\ SwitchVibe(v, p).state = "running" <=> v.state = "running"
<1>1. ASSUME NEW turn \in Calls, NEW start
      PROVE  /\ VibeSound(StartBuild(v, turn, start))
             /\ StartBuild(v, turn, start).state = "running" <=> v.state = "running"
  <2> DEFINE t == [turn EXCEPT !.provider = v.provider]
  <2>1. t \in Calls
    BY DEF Calls, VibeSound, Vibes
  <2> HIDE DEF t
  <2>2. \/ StartBuild(v, turn, start) = v
        \/ /\ v.runtime = "held"
           /\ StartBuild(v, turn, start)
                = [v EXCEPT !.state = "prepared", !.prepared = t]
    BY DEF StartBuild, t
  <2> QED
    BY <2>1, <2>2 DEF VibeSound, Vibes
<1>2. ASSUME MayStep(v)
      PROVE  /\ VibeSound(LendRuntime(v)) /\ LendRuntime(v).state = "running"
             /\ v.state # "running" /\ v.prepared \in Calls
  BY <1>2 DEF MayStep, LendRuntime, VibeSound, Vibes
<1>3. VibeSound(RefuseStep(v)) /\ (RefuseStep(v).state = "running" <=> v.state = "running")
  BY DEF RefuseStep, VibeSound, Vibes
<1>4. ASSUME NEW ok \in BOOLEAN
      PROVE  VibeSound(ReturnRuntime(v, ok)) /\ ReturnRuntime(v, ok).state # "running"
  BY DEF ReturnRuntime, VibeSound, Vibes
<1>5. VibeSound(LoseRuntime(v)) /\ LoseRuntime(v).state # "running"
  BY DEF LoseRuntime, VibeSound, Vibes
<1>6. ASSUME NEW p \in Providers
      PROVE  /\ VibeSound(SwitchVibe(v, p))
             /\ SwitchVibe(v, p).state = "running" <=> v.state = "running"
  BY DEF SwitchVibe, VibeSound, Vibes
<1> QED
  BY <1>1, <1>2, <1>3, <1>4, <1>5, <1>6

LEMMA OpenVibeSound ==
  ASSUME NEW p \in Providers
  PROVE  VibeSound(OpenVibe(p)) /\ OpenVibe(p).state # "running"
BY DEF OpenVibe, VibeSound, Vibes
(***************************************************************************)
(* The work under way.                                                     *)
(***************************************************************************)
WorkTyped ==
  /\ rx \in [Kinds -> {NoWorker} \cup Calls]
  /\ running \in [Kinds \ {"vibe"} -> BOOLEAN]
  /\ timer \in [Kinds -> BOOLEAN]

PolledKind(k) == /\ IsRunning(k) <=> rx[k] # NoWorker
                 /\ timer[k] <=> rx[k] # NoWorker

\* Starting work of a kind makes that kind polled, and leaves the others so.
LEMMA LaunchEffect ==
  ASSUME WorkTyped, NEW k \in Kinds, NEW task \in Calls, Launch(k, task),
         \A j \in Kinds \ {k} : PolledKind(j),
         (vibe'.state = "running") <=> (k = "vibe" \/ vibe.state = "running")
  PROVE  /\ WorkTyped'
         /\ \A j \in Kinds : PolledKind(j)'
         /\ \A j \in Kinds : rx'[j] = IF j = k THEN task ELSE rx[j]
<1>1. /\ rx' \in [Kinds -> {NoWorker} \cup Calls]
      /\ rx'[k] = task /\ task # NoWorker
      /\ \A j \in Kinds : j # k => rx'[j] = rx[j]
  BY WorkerAssumption DEF WorkTyped, Launch
<1>2. /\ timer' \in [Kinds -> BOOLEAN]
      /\ timer'[k]
      /\ \A j \in Kinds : j # k => (timer'[j] <=> timer[j])
  BY DEF WorkTyped, Launch
<1>3. /\ running' \in [Kinds \ {"vibe"} -> BOOLEAN]
      /\ \A j \in Kinds \ {"vibe"} : running'[j] <=> (j = k \/ running[j])
  BY DEF WorkTyped, Launch
<1>4. ASSUME NEW j \in Kinds PROVE PolledKind(j)'
  BY <1>1, <1>2, <1>3 DEF PolledKind, IsRunning
<1> QED
  BY <1>1, <1>2, <1>3, <1>4 DEF WorkTyped

\* Ending it makes the kind idle, and leaves the others as they were.
LEMMA CollectEffect ==
  ASSUME WorkTyped, NEW k \in Kinds, Collect(k),
         \A j \in Kinds \ {k} : PolledKind(j),
         (vibe'.state = "running") <=> (k # "vibe" /\ vibe.state = "running")
  PROVE  /\ WorkTyped'
         /\ \A j \in Kinds : PolledKind(j)'
         /\ \A j \in Kinds : rx'[j] = IF j = k THEN NoWorker ELSE rx[j]
<1>1. /\ rx' \in [Kinds -> {NoWorker} \cup Calls]
      /\ rx'[k] = NoWorker
      /\ \A j \in Kinds : j # k => rx'[j] = rx[j]
  BY DEF WorkTyped, Collect
<1>2. /\ timer' \in [Kinds -> BOOLEAN]
      /\ ~timer'[k]
      /\ \A j \in Kinds : j # k => (timer'[j] <=> timer[j])
  BY DEF WorkTyped, Collect
<1>3. /\ running' \in [Kinds \ {"vibe"} -> BOOLEAN]
      /\ \A j \in Kinds \ {"vibe"} : running'[j] <=> (j # k /\ running[j])
  BY DEF WorkTyped, Collect
<1>4. ASSUME NEW j \in Kinds PROVE PolledKind(j)'
  BY <1>1, <1>2, <1>3 DEF PolledKind, IsRunning
<1> QED
  BY <1>1, <1>2, <1>3, <1>4 DEF WorkTyped

\* Work that a step does not touch stays polled.
LEMMA WorkKept ==
  ASSUME WorkTyped, \A j \in Kinds : PolledKind(j), UNCHANGED work,
         (vibe'.state = "running") <=> (vibe.state = "running")
  PROVE  WorkTyped' /\ \A j \in Kinds : PolledKind(j)'
BY DEF work, WorkTyped, PolledKind, IsRunning

LEMMA IdleEffect ==
  ASSUME vibe.state # "running", Idle
  PROVE  WorkTyped /\ \A j \in Kinds : PolledKind(j)
BY DEF Idle, WorkTyped, PolledKind, IsRunning
(***************************************************************************)
(* The steps.                                                              *)
(***************************************************************************)
\* The invariant, in the terms of the lemmas.
Parts ==
  /\ up \in BOOLEAN
  /\ BooksTyped(Books)
  /\ RuntimeSound(rt)
  /\ VibeSound(vibe)
  /\ WorkTyped
  /\ \A k \in Kinds : PolledKind(k)
  /\ lastIntent \in Intents \cup {NoIntent}
  /\ runs \in 0..MaxRuns /\ faults \in 0..MaxFaults
  /\ DownIsIdle

LEMMA InvIsParts == ShellInv <=> Parts
BY DEF ShellInv, ShellTyped, WorkersArePolled, ReportsMatchTheirCall, Parts,
   BooksTyped, Books, RuntimeSound, VibeSound, WorkTyped, PolledKind

\* Books kept are the books of the next state.
LEMMA KeepBooks ==
  ASSUME NEW b, BooksTyped(b), RuntimeSound(b.rt), Keep(b)
  PROVE  BooksTyped(Books)' /\ RuntimeSound(rt)'
<1>1. rt' = b.rt /\ mem' = b.mem /\ disk' = b.disk /\ clean' = b.clean
  BY DEF Keep
<1> QED
  BY <1>1 DEF BooksTyped, Books, RuntimeSound

\* Books in which only the runtime has changed.
LEMMA BooksOf ==
  ASSUME BooksTyped(Books), NEW r \in Runtimes
  PROVE  BooksTyped([Books EXCEPT !.rt = r]) /\ [Books EXCEPT !.rt = r].rt = r
<1>1. [Books EXCEPT !.rt = r] = [rt |-> r, mem |-> mem, disk |-> disk, clean |-> clean]
  BY DEF Books
<1> QED
  BY <1>1 DEF BooksTyped, Books

LEMMA FaultTyped ==
  ASSUME faults \in 0..MaxFaults, NEW ends \in Ends, Fault(ends)
  PROVE  faults' \in 0..MaxFaults
BY BoundAssumption DEF Ends, Fault

\* A message that writes the ledgers after changing the runtime to r.
LEMMA RecordKept ==
  ASSUME BooksTyped(Books), NEW r \in Runtimes, RuntimeSound(r),
         NEW learn, NEW intent, NEW about, NEW ends,
         Keep(AppendProofRecord([Books EXCEPT !.rt = r], learn, intent, about, ends))
  PROVE  BooksTyped(Books)' /\ RuntimeSound(rt)'
<1> DEFINE b == [Books EXCEPT !.rt = r]
           c == AppendProofRecord(b, learn, intent, about, ends)
<1>1. BooksTyped(b) /\ b.rt = r
  BY BooksOf
<1> HIDE DEF b
<1>2. BooksTyped(c) /\ Stored(r, c.rt)
  BY <1>1, AppendProofRecordTyped
<1>3. RuntimeSound(c.rt)
  BY <1>2, StoredSound
<1>4. Keep(c)
  BY DEF b
<1> HIDE DEF c
<1> QED
  BY <1>2, <1>3, <1>4, KeepBooks

LEMMA RunStep ==
  ASSUME Parts, NEW i \in Intents, Run(i)
  PROVE  Parts'
<1>1. PICK ends \in Ends :
        /\ Fault(ends)
        /\ Keep(AppendProofRecord(
              [Books EXCEPT !.rt = RunCoderIntent(@, i, mem.summary["failed"]
                                                         + mem.summary["succeeded"])],
              TRUE, i, i, ends))
        /\ vibe' = StartBuild(vibe, [intent |-> i, provider |-> rt.provider, lessons |-> 0],
                              ends.start)
        /\ IF running["fast"] \/ rt.provider \notin FastReady
             THEN UNCHANGED work
             ELSE Launch("fast", [intent |-> i, provider |-> rt.provider, lessons |-> 0])
  BY DEF Run
<1> DEFINE n == mem.summary["failed"] + mem.summary["succeeded"]
           r == RunCoderIntent(rt, i, n)
           turn == [intent |-> i, provider |-> rt.provider, lessons |-> 0]
<1>2. /\ rt \in Runtimes /\ rt.provider \in Providers /\ n \in Nat
      /\ up /\ up' = up /\ lastIntent' = i /\ runs' = runs + 1 /\ runs < MaxRuns
  BY DEF Run, Parts, BooksTyped, Books, MemTyped, Outcomes, Runtimes
<1>3. turn \in Calls
  BY <1>2 DEF Calls
<1> HIDE DEF n, turn
<1>4. r \in Runtimes /\ RuntimeSound(r)
  BY <1>2, RunSound
<1>5. [Books EXCEPT !.rt = RunCoderIntent(@, i, n)] = [Books EXCEPT !.rt = r]
  BY DEF Books
<1>kept. Keep(AppendProofRecord([Books EXCEPT !.rt = RunCoderIntent(@, i, n)], TRUE, i, i, ends))
  BY <1>1, Zenon DEF n
<1> HIDE DEF r
<1>same. Keep(AppendProofRecord([Books EXCEPT !.rt = r], TRUE, i, i, ends))
  BY <1>5, <1>kept, Zenon
<1>6. BooksTyped(Books)' /\ RuntimeSound(rt)'
  <2>1. BooksTyped(Books)
    BY DEF Parts
  <2> QED
    BY <1>4, <1>same, <2>1, RecordKept, Zenon
<1>7. VibeSound(vibe') /\ (vibe'.state = "running" <=> vibe.state = "running")
  <2>1. vibe' = StartBuild(vibe, turn, ends.start)
    BY <1>1, Zenon DEF turn
  <2>2. VibeSound(vibe)
    BY DEF Parts
  <2>3. /\ VibeSound(StartBuild(vibe, turn, ends.start))
        /\ StartBuild(vibe, turn, ends.start).state = "running" <=> vibe.state = "running"
    BY <1>3, <2>2, VibeFunctions, Zenon
  <2> QED
    BY <2>1, <2>3, Zenon
<1>8. WorkTyped' /\ \A k \in Kinds : PolledKind(k)'
  <2>1. CASE UNCHANGED work
    BY <1>7, <2>1, WorkKept DEF Parts
  <2>2. CASE Launch("fast", turn)
    BY <1>3, <1>7, <2>2, LaunchEffect DEF Parts, Kinds
  <2> QED
    BY <1>1, <2>1, <2>2 DEF turn
<1>9. faults' \in 0..MaxFaults /\ runs' \in 0..MaxRuns
  BY <1>1, <1>2, FaultTyped, BoundAssumption DEF Parts
<1> QED
  BY <1>2, <1>6, <1>7, <1>8, <1>9 DEF Parts, DownIsIdle

\* Commands that neither write a ledger nor fail.
LEMMA CommandStep ==
  ASSUME Parts,
         \/ ExecProvider \/ ExecVibeStep \/ MarkDrift
         \/ \E p \in Providers : Apply(p)
  PROVE  Parts'
<1>1. /\ rt \in Runtimes /\ RuntimeSound(rt) /\ VibeSound(vibe)
      /\ up /\ UNCHANGED <<up, mem, lastIntent, disk, clean, runs, faults>>
  BY DEF Parts, BooksTyped, Books, ExecProvider, ExecVibeStep, MarkDrift, Apply
<1>2. ASSUME rt' \in Runtimes PROVE BooksTyped(Books)'
  BY <1>1, <1>2 DEF Parts, BooksTyped, Books
<1>3. CASE ExecProvider
  <2>1. CASE MaySchedule(rt)
    <3>1. rt.call \in Calls
      BY <1>1, <2>1 DEF MaySchedule, Runtimes
    <3>2. UNCHANGED <<rt, vibe>> /\ Launch("provider", rt.call)
      BY <1>3, <2>1 DEF ExecProvider
    <3>3. WorkTyped' /\ \A k \in Kinds : PolledKind(k)'
      BY <3>1, <3>2, LaunchEffect DEF Parts, Kinds
    <3> QED
      BY <1>1, <1>2, <3>2, <3>3 DEF Parts, DownIsIdle
  <2>2. CASE ~MaySchedule(rt)
    <3>1. /\ rt' = BlockRuntime(rt, "schedule") /\ UNCHANGED work /\ UNCHANGED vibe
      BY <1>3, <2>2 DEF ExecProvider
    <3>2. rt' \in Runtimes /\ RuntimeSound(rt')
      BY <1>1, <3>1, BlockSound DEF Reasons
    <3>3. WorkTyped' /\ \A k \in Kinds : PolledKind(k)'
      BY <3>1, WorkKept DEF Parts
    <3> QED
      BY <1>1, <1>2, <3>1, <3>2, <3>3 DEF Parts, DownIsIdle, RuntimeSound
  <2> QED
    BY <2>1, <2>2
<1>4. CASE ExecVibeStep
  <2>1. UNCHANGED rt /\ RuntimeSound(rt)'
    BY <1>1, <1>4 DEF ExecVibeStep, RuntimeSound
  <2>2. CASE MayStep(vibe)
    <3>1. Launch("vibe", vibe.prepared) /\ vibe' = LendRuntime(vibe)
      BY <1>4, <2>2 DEF ExecVibeStep
    <3>2. /\ VibeSound(vibe') /\ vibe'.state = "running" /\ vibe.prepared \in Calls
      BY <1>1, <2>2, <3>1, VibeFunctions
    <3>3. WorkTyped' /\ \A k \in Kinds : PolledKind(k)'
      BY <3>1, <3>2, LaunchEffect DEF Parts, Kinds
    <3> QED
      BY <1>1, <1>2, <2>1, <3>2, <3>3 DEF Parts, DownIsIdle
  <2>3. CASE ~MayStep(vibe)
    <3>1. UNCHANGED work /\ vibe' = RefuseStep(vibe)
      BY <1>4, <2>3 DEF ExecVibeStep
    <3>2. VibeSound(vibe') /\ (vibe'.state = "running" <=> vibe.state = "running")
      BY <1>1, <3>1, VibeFunctions
    <3>3. WorkTyped' /\ \A k \in Kinds : PolledKind(k)'
      BY <3>1, <3>2, WorkKept DEF Parts
    <3> QED
      BY <1>1, <1>2, <2>1, <3>2, <3>3 DEF Parts, DownIsIdle
  <2> QED
    BY <2>2, <2>3
<1>5. CASE MarkDrift
  <2>1. rt' = FlagDrift(rt) /\ UNCHANGED work /\ UNCHANGED vibe
    BY <1>5 DEF MarkDrift
  <2>2. rt' \in Runtimes /\ RuntimeSound(rt')
    BY <1>1, <2>1, DriftSound
  <2>3. WorkTyped' /\ \A k \in Kinds : PolledKind(k)'
    BY <2>1, WorkKept DEF Parts
  <2> QED
    BY <1>1, <1>2, <2>1, <2>2, <2>3 DEF Parts, DownIsIdle, RuntimeSound
<1>6. ASSUME NEW p \in Providers, Apply(p) PROVE Parts'
  <2>1. /\ rt' = ApplyProvider(rt, p) /\ vibe' = SwitchVibe(vibe, p)
        /\ Collect("provider")
    BY <1>6 DEF Apply
  <2>2. rt' \in Runtimes /\ RuntimeSound(rt')
    BY <2>1, ApplySound
  <2>3. VibeSound(vibe') /\ (vibe'.state = "running" <=> vibe.state = "running")
    BY <1>1, <2>1, VibeFunctions
  <2>4. WorkTyped' /\ \A k \in Kinds : PolledKind(k)'
    BY <2>1, <2>3, CollectEffect DEF Parts, Kinds
  <2> QED
    BY <1>1, <1>2, <2>2, <2>3, <2>4 DEF Parts, DownIsIdle, RuntimeSound
<1> QED
  BY <1>3, <1>4, <1>5, <1>6
LEMMA CaptureStep ==
  ASSUME Parts, CaptureProof
  PROVE  Parts'
<1>1. PICK ends \in Ends :
        Fault(ends) /\ Keep(AppendProofRecord(Books, FALSE, lastIntent, lastIntent, ends))
  BY DEF CaptureProof
<1>2. /\ rt \in Runtimes /\ RuntimeSound(rt)
      /\ UNCHANGED <<up, vibe, lastIntent, work, runs>>
  BY DEF CaptureProof, Parts, BooksTyped, Books
<1>3. [Books EXCEPT !.rt = rt] = Books
  BY DEF Books
<1>4. BooksTyped(Books)' /\ RuntimeSound(rt)'
  BY <1>1, <1>2, <1>3, RecordKept DEF Parts
<1>5. WorkTyped' /\ \A k \in Kinds : PolledKind(k)'
  BY <1>2, WorkKept DEF Parts
<1>6. faults' \in 0..MaxFaults
  BY <1>1, FaultTyped DEF Parts
<1> QED
  BY <1>2, <1>4, <1>5, <1>6 DEF Parts, DownIsIdle

LEMMA PollStep ==
  ASSUME Parts, NEW k \in Kinds, Poll(k)
  PROVE  Parts'
<1>1. /\ rt \in Runtimes /\ RuntimeSound(rt) /\ VibeSound(vibe)
      /\ BooksTyped(Books)
      /\ \/ k = "provider" /\ PollProvider
         \/ k = "fast" /\ PollFast
         \/ k = "vibe" /\ PollVibe
  BY DEF Parts, BooksTyped, Books, Poll, Kinds
<1>2. /\ up /\ rx[k] # NoWorker /\ rx[k] \in Calls /\ Collect(k)
      /\ UNCHANGED <<up, lastIntent, runs>>
  BY <1>1 DEF PollProvider, PollFast, PollVibe, Polled, Parts, WorkTyped
<1>3. CASE k = "provider" /\ PollProvider
  <2>1. PICK result \in {"report", "spoiled", "error"}, ends \in Ends :
          LET done == IF result = "error" THEN BlockRuntime(rt, "execution")
                      ELSE MarkReport(rt, rx["provider"], result = "report")
          IN  /\ Fault(ends)
              /\ Keep(AppendProofRecord([Books EXCEPT !.rt = done], TRUE,
                                        lastIntent, rx["provider"].intent, ends))
    BY <1>3 DEF PollProvider
  <2> DEFINE done == IF result = "error" THEN BlockRuntime(rt, "execution")
                     ELSE MarkReport(rt, rx["provider"], result = "report")
  <2>2. done \in Runtimes /\ RuntimeSound(done)
    <3>1. CASE result = "error"
      BY <1>1, <3>1, BlockSound DEF Reasons
    <3>2. CASE result # "error"
      BY <1>1, <1>2, <1>3, <3>2, ReportSound
    <3> QED
      BY <3>1, <3>2
  <2> HIDE DEF done
  <2>3. /\ Fault(ends)
        /\ Keep(AppendProofRecord([Books EXCEPT !.rt = done], TRUE,
                                  lastIntent, rx["provider"].intent, ends))
    BY <2>1 DEF done
  <2>4. BooksTyped(Books)' /\ RuntimeSound(rt)'
    BY <1>1, <2>2, <2>3, RecordKept
  <2>5. faults' \in 0..MaxFaults
    BY <2>3, FaultTyped DEF Parts
  <2>6. UNCHANGED vibe
    BY <1>3 DEF PollProvider
  <2>7. WorkTyped' /\ \A j \in Kinds : PolledKind(j)'
    BY <1>2, <1>3, <2>6, CollectEffect DEF Parts
  <2> QED
    BY <1>1, <1>2, <2>4, <2>5, <2>6, <2>7 DEF Parts, DownIsIdle
<1>4. CASE k = "fast" /\ PollFast
  <2>1. UNCHANGED vibe
    BY <1>4 DEF PollFast
  <2>2. WorkTyped' /\ \A j \in Kinds : PolledKind(j)'
    BY <1>2, <1>4, <2>1, CollectEffect DEF Parts
  <2>3. BooksTyped(Books)' /\ RuntimeSound(rt)' /\ faults' \in 0..MaxFaults
    <3>1. CASE UNCHANGED <<rt, mem, disk, clean, faults>>
      BY <1>1, <3>1 DEF BooksTyped, Books, RuntimeSound, Parts
    <3>2. ASSUME NEW compiled, NEW ends \in Ends, Fault(ends),
                 Keep(AppendLesson(Books, FastLesson(mem, lastIntent, compiled,
                                                     rx["fast"].intent), ends.lesson))
          PROVE  BooksTyped(Books)' /\ RuntimeSound(rt)' /\ faults' \in 0..MaxFaults
      <4> DEFINE lesson == FastLesson(mem, lastIntent, compiled, rx["fast"].intent)
                 b == AppendLesson(Books, lesson, ends.lesson)
      <4>1. lesson.outcome \in Outcomes
        BY DEF FastLesson, Outcomes
      <4>2. Keep(b)
        BY <3>2
      <4> HIDE DEF lesson
      <4>3. BooksTyped(b) /\ Stored(rt, b.rt)
        BY <1>1, <4>1, AppendLessonTyped DEF Books, Stored
      <4> HIDE DEF b
      <4>4. BooksTyped(Books)' /\ RuntimeSound(rt)'
        <5>1. rt \in Runtimes /\ RuntimeSound(rt)
          BY <1>1 DEF Parts, BooksTyped, Books
        <5>2. RuntimeSound(b.rt)
          BY <4>3, <5>1, StoredSound
        <5> QED
          BY <4>2, <4>3, <5>2, KeepBooks
      <4> QED
        BY <3>2, <4>4, FaultTyped DEF Parts
    <3> QED
      BY <1>4, <3>1, <3>2 DEF PollFast
  <2> QED
    BY <1>1, <1>2, <2>1, <2>2, <2>3 DEF Parts, DownIsIdle
<1>5. CASE k = "vibe" /\ PollVibe
  <2>1. /\ UNCHANGED <<rt, mem, disk, clean, faults>>
        /\ \/ \E ok \in BOOLEAN : vibe' = ReturnRuntime(vibe, ok)
           \/ vibe' = LoseRuntime(vibe)
    BY <1>5 DEF PollVibe
  <2>2. VibeSound(vibe') /\ vibe'.state # "running"
    BY <1>1, <2>1, VibeFunctions
  <2>3. WorkTyped' /\ \A j \in Kinds : PolledKind(j)'
    BY <1>2, <1>5, <2>2, CollectEffect DEF Parts
  <2>4. BooksTyped(Books)' /\ RuntimeSound(rt)'
    BY <1>1, <2>1 DEF BooksTyped, Books, RuntimeSound
  <2> QED
    BY <1>1, <1>2, <2>1, <2>2, <2>3, <2>4 DEF Parts, DownIsIdle
<1> QED
  BY <1>1, <1>3, <1>4, <1>5

LEMMA CrashStep ==
  ASSUME Parts, Crash
  PROVE  Parts'
<1>1. /\ rt \in Runtimes /\ rt.provider \in Providers /\ RuntimeSound(rt)
      /\ MemTyped(mem) /\ DiskTyped(disk) /\ clean \in BOOLEAN
      /\ UNCHANGED <<rt, mem, clean, runs>> /\ up' = FALSE
  BY DEF Parts, BooksTyped, Books, Runtimes, Crash
<1>2. VibeSound(vibe') /\ vibe'.state # "running"
  BY <1>1, OpenVibeSound DEF Crash
<1>3. WorkTyped' /\ \A j \in Kinds : PolledKind(j)'
  BY <1>2 DEF Crash, Parts, WorkTyped, PolledKind, IsRunning
<1>4. DiskTyped(disk')
  <2>1. PICK torn \in BOOLEAN : disk' = [disk EXCEPT !.learning.torn = @ \/ torn]
    BY DEF Crash
  <2> DEFINE f == disk.learning
             x == f.lines
             g == [f EXCEPT !.torn = @ \/ torn]
  <2>2. /\ f \in [lines : {x}, torn : BOOLEAN] /\ x \in Seq(Range(x))
        /\ disk = [proofs |-> disk.proofs, learning |-> f]
    BY <1>1 DEF DiskTyped, FileTyped
  <2>3. disk' = [proofs |-> disk.proofs, learning |-> g]
    BY <2>1, <2>2
  <2> HIDE DEF x
  <2>4. g \in [lines : {x}, torn : BOOLEAN]
    BY <2>2
  <2> HIDE DEF g
  <2>5. FileTyped(g)
    BY <2>2, <2>4 DEF FileTyped
  <2> QED
    BY <1>1, <2>3, <2>5 DEF DiskTyped
<1>5. BooksTyped(Books)' /\ RuntimeSound(rt)'
  BY <1>1, <1>4 DEF BooksTyped, Books, RuntimeSound
<1>6. /\ faults' \in 0..MaxFaults /\ runs' \in 0..MaxRuns
      /\ lastIntent' \in Intents \cup {NoIntent}
  BY BoundAssumption DEF Crash, Parts
<1> QED
  BY <1>1, <1>2, <1>3, <1>5, <1>6 DEF Parts, DownIsIdle

LEMMA ReopenStep ==
  ASSUME Parts, NEW p \in Providers, Reopen(p)
  PROVE  Parts'
<1>1. rt' \in Runtimes /\ RuntimeSound(rt') /\ VibeSound(vibe') /\ vibe'.state # "running"
  BY OpenSound, OpenVibeSound DEF Reopen
<1>2. DiskTyped(disk) /\ MemTyped(mem')
  BY RecallTyped DEF Reopen, Parts, BooksTyped, Books, DiskTyped
<1>3. BooksTyped(Books)' /\ RuntimeSound(rt)'
  BY <1>1, <1>2 DEF Reopen, Readable, BooksTyped, Books, RuntimeSound
<1>4. WorkTyped' /\ \A j \in Kinds : PolledKind(j)'
  BY <1>1, WorkKept DEF Reopen, Parts, DownIsIdle
<1> QED
  BY <1>1, <1>3, <1>4 DEF Parts, Reopen, DownIsIdle

LEMMA InitParts == Init => Parts
<1> SUFFICES ASSUME Init PROVE Parts
  OBVIOUS
<1>1. PICK p \in Providers : rt = OpenRuntime(p) /\ vibe = OpenVibe(p)
  BY DEF Init
<1>2. rt \in Runtimes /\ RuntimeSound(rt) /\ VibeSound(vibe) /\ vibe.state # "running"
  BY <1>1, OpenSound, OpenVibeSound
<1>3. FileTyped(EmptyFile)
  <2>1. <<>> \in Seq(Range(<<>>))
    OBVIOUS
  <2> QED
    BY <2>1 DEF FileTyped, EmptyFile
<1>4. DiskTyped(disk) /\ MemTyped(mem)
  BY <1>3, RecallTyped DEF Init, DiskTyped
<1>5. BooksTyped(Books)
  BY <1>2, <1>4 DEF Init, BooksTyped, Books
<1>6. WorkTyped /\ \A j \in Kinds : PolledKind(j)
  BY <1>2, IdleEffect DEF Init
<1> QED
  BY <1>2, <1>5, <1>6, BoundAssumption DEF Init, Parts, DownIsIdle

(***************************************************************************)
(* The theorems.                                                           *)
(***************************************************************************)
\* The types of the runtime, the bridge, the ledgers and the work under way,
\* with the two properties below.
THEOREM ShellInvariant == Spec => []ShellInv
<1>1. Init => Parts
  BY InitParts
<1>2. Parts /\ [Next]_vars => Parts'
  <2> SUFFICES ASSUME Parts, [Next]_vars PROVE Parts'
    OBVIOUS
  <2>1. CASE UNCHANGED vars
    BY <2>1 DEF vars, Parts, BooksTyped, Books, RuntimeSound, VibeSound,
       WorkTyped, PolledKind, IsRunning, DownIsIdle
  <2> QED
    BY <2>1, RunStep, CommandStep, CaptureStep, PollStep, CrashStep, ReopenStep
    DEF Next
<1> QED
  BY <1>1, <1>2, InvIsParts, PTL DEF Spec

\* A worker is never started over another: a receiver is dropped before its
\* kind of work gets a new one, so no answer is left behind in a channel.
THEOREM WorkersAreNotReplaced ==
  Spec => [][\A k \in Kinds :
               rx[k] # NoWorker /\ rx'[k] # NoWorker => rx'[k] = rx[k]]_vars
<1> DEFINE Kept == \A k \in Kinds :
                     rx[k] # NoWorker /\ rx'[k] # NoWorker => rx'[k] = rx[k]
<1>1. ShellInv /\ [Next]_vars => [Kept]_vars
  <2> SUFFICES ASSUME ShellInv, Next PROVE Kept
    OBVIOUS
  <2>1. WorkTyped /\ \A k \in Kinds : IsRunning(k) <=> rx[k] # NoWorker
    BY DEF ShellInv, ShellTyped, WorkTyped, WorkersArePolled
  <2>2. ASSUME UNCHANGED rx PROVE Kept
    BY <2>2
  <2>3. ASSUME NEW k \in Kinds, NEW task, Launch(k, task), ~IsRunning(k) PROVE Kept
    BY <2>1, <2>3 DEF Launch, WorkTyped
  <2>4. ASSUME NEW k \in Kinds, Collect(k) PROVE Kept
    BY <2>1, <2>4 DEF Collect, WorkTyped
  <2>5. ASSUME NEW i \in Intents, Run(i) PROVE Kept
    BY <2>2, <2>3, <2>5 DEF Run, work, IsRunning, Kinds
  <2>6. CASE ExecProvider
    BY <2>2, <2>3, <2>6 DEF ExecProvider, work, IsRunning, Kinds
  <2>7. CASE ExecVibeStep
    BY <2>2, <2>3, <2>7 DEF ExecVibeStep, MayStep, work, IsRunning, Kinds
  <2>8. CASE CaptureProof \/ MarkDrift \/ \E p \in Providers : Reopen(p)
    BY <2>2, <2>8 DEF CaptureProof, MarkDrift, Reopen, work
  <2>9. ASSUME NEW p \in Providers, Apply(p) PROVE Kept
    BY <2>4, <2>9 DEF Apply, Kinds
  <2>10. ASSUME NEW k \in Kinds, Poll(k) PROVE Kept
    BY <2>4, <2>10 DEF Poll, PollProvider, PollFast, PollVibe, Kinds
  <2>11. CASE Crash
    BY <2>11 DEF Crash
  <2> QED
    BY <2>5, <2>6, <2>7, <2>8, <2>9, <2>10, <2>11 DEF Next
<1> QED
  BY <1>1, ShellInvariant, PTL DEF Spec

\* A result is always fetched: flag, receiver and timer of each kind of work go
\* together, and the durable build's runtime is away exactly while a step runs.
THEOREM WorkersStayPolled == Spec => []WorkersArePolled
<1>1. ShellInv => WorkersArePolled
  BY DEF ShellInv
<1> QED
  BY <1>1, ShellInvariant, PTL

\* Whatever was pressed since the call, its report makes a run verification-
\* pending only if the run prepared that very call; no report proves a run.
THEOREM ReportsKeepToTheirCall == Spec => []ReportsMatchTheirCall
<1>1. ShellInv => ReportsMatchTheirCall
  BY DEF ShellInv
<1> QED
  BY <1>1, ShellInvariant, PTL

(***************************************************************************)
(* Induction over numbers.                                                 *)
(***************************************************************************)
\* Every set of numbers that is not empty has a least one.
LEMMA LeastNumber ==
  \A T \in SUBSET Nat : T # {} => \E m \in T : \A k \in T : m <= k
<1> SUFFICES ASSUME NEW T \in SUBSET Nat, T # {}
             PROVE  \E m \in T : \A k \in T : m <= k
  OBVIOUS
<1> DEFINE U == {0..k : k \in T}
<1>1. U \subseteq FiniteSubsetsOf(Nat) /\ U # {}
  <2>1. ASSUME NEW k \in T PROVE 0..k \in FiniteSubsetsOf(Nat)
    <3>1. IsFiniteSet(0..k)
      BY FS_Interval
    <3> QED
      BY <3>1 DEF FiniteSubsetsOf
  <2> QED
    BY <2>1
<1>2. \E x \in U : \A y \in U : ~(<<y, x>> \in StrictSubsetOrdering(Nat))
  BY <1>1, WFMin, FS_StrictSubsetOrderingWellFounded, Zenon
<1>3. PICK m \in T : \A k \in T : <<0..k, 0..m>> \notin StrictSubsetOrdering(Nat)
  BY <1>2
<1>4. ASSUME NEW k \in T PROVE m <= k
  <2>1. CASE k < m
    <3>1. 0..k \subseteq 0..m /\ m \in 0..m /\ m \notin 0..k
      BY <2>1
    <3>2. 0..k \in SUBSET Nat /\ 0..m \in SUBSET Nat /\ 0..k # 0..m
      BY <3>1
    <3> QED
      BY <1>3, <3>1, <3>2 DEF StrictSubsetOrdering
  <2> QED
    BY <2>1
<1> QED
  BY <1>4

LEMMA LeastOf ==
  ASSUME NEW T \in SUBSET Nat, T # {}
  PROVE  Min(T) \in T /\ \A k \in T : Min(T) <= k
<1>1. \E m \in T : \A k \in T : m <= k
  BY LeastNumber
<1> QED
  BY <1>1, Zenon DEF Min

\* What is true of 0 and passes from each number to the next is true up to n.
LEMMA UpTo ==
  ASSUME NEW n \in Nat, NEW T, 0 \in T, \A k \in 0..n : k < n /\ k \in T => k + 1 \in T
  PROVE  \A k \in 0..n : k \in T
<1> DEFINE U == {k \in 0..n : k \notin T}
<1> SUFFICES ASSUME U # {} PROVE FALSE
  OBVIOUS
<1>1. PICK m \in U : \A k \in U : m <= k
  <2>1. U \in SUBSET Nat
    OBVIOUS
  <2> HIDE DEF U
  <2> QED
    BY <2>1, LeastNumber
<1>2. m # 0 /\ m - 1 \in 0..n /\ m - 1 < n
  BY <1>1
<1>3. m - 1 \in T
  BY <1>1, <1>2
<1>4. m - 1 + 1 = m
  BY <1>1
<1>5. m \in T
  BY <1>2, <1>3, <1>4
<1> QED
  BY <1>1, <1>5

(***************************************************************************)
(* The bounded memory of lessons.                                          *)
(***************************************************************************)
\* s lists elements of L, those at the places e, in their order.
Lists(N, L, s, e) ==
  /\ e \in [1..Len(s) -> N]
  /\ \A m, n \in 1..Len(s) : m < n => e[m] < e[n]
  /\ \A n \in 1..Len(s) : s[n] = L[e[n]]

\* A place of N is listed or, in a full list, before all that are.
ListsNewest(N, s, e) ==
  \A i \in N : \/ \E n \in 1..Len(s) : e[n] = i
               \/ Len(s) = MemoryLimit /\ \A n \in 1..Len(s) : i < e[n]

\* s is the memory of the records L.
Memory(L, s, e) ==
  /\ Len(s) <= MemoryLimit
  /\ Lists(NewestOfKeys(L), L, s, e)
  /\ ListsNewest(NewestOfKeys(L), s, e)

\* As many places are listed as there are numbers of them.
LEMMA ListedCount ==
  ASSUME NEW a \in Nat, NEW b \in Nat, NEW e, NEW N,
         \A n \in a..b : e[n] \in N,
         \A m, n \in a..b : m < n => e[m] < e[n],
         N \in SUBSET Nat
  PROVE  /\ IsFiniteSet({e[n] : n \in a..b})
         /\ Cardinality({e[n] : n \in a..b}) = IF a > b THEN 0 ELSE b - a + 1
<1> DEFINE T == {e[n] : n \in a..b}
           f == [n \in a..b |-> e[n]]
<1>1. f \in [a..b -> T] /\ \A t \in T : \E n \in a..b : f[n] = t
  OBVIOUS
<1>2. \A m, n \in a..b : f[m] = f[n] => m = n
  <2>1. \A m, n \in a..b : m = n \/ m < n \/ n < m
    OBVIOUS
  <2>2. \A m, n \in a..b : m < n => f[m] # f[n]
    <3>1. \A n \in a..b : f[n] \in Nat
      OBVIOUS
    <3>2. \A m, n \in a..b : m < n => f[m] < f[n]
      OBVIOUS
    <3> QED
      BY <3>1, <3>2
  <2> QED
    BY <2>1, <2>2
<1> HIDE DEF f, T
<1>3. f \in Bijection(a..b, T)
  BY <1>1, <1>2 DEF Bijection, Injection, Surjection, IsInjective
<1>4. ExistsBijection(a..b, T)
  BY <1>3 DEF ExistsBijection
<1>5. /\ IsFiniteSet(a..b)
      /\ Cardinality(a..b) = IF a > b THEN 0 ELSE b - a + 1
  BY FS_Interval
<1>6. IsFiniteSet(T) /\ Cardinality(T) = Cardinality(a..b)
  BY <1>4, <1>5, FS_Bijection
<1> QED
  BY <1>5, <1>6 DEF T

\* What is listed that way is what effective_records selects.
LEMMA MemoryIsEffective ==
  ASSUME NEW T, NEW L \in Seq(T), NEW s \in Seq(T), NEW e, Memory(L, s, e)
  PROVE  EffectiveRecords(L) = s
<1> DEFINE N == NewestOfKeys(L)
           kept == {i \in N : Cardinality({j \in N : j > i}) < MemoryLimit}
           listed == {e[n] : n \in 1..Len(s)}
<1>0. /\ N \in SUBSET Nat /\ IsFiniteSet(N) /\ Len(s) \in Nat /\ MemoryLimit \in Nat \ {0}
  <2>1. N \subseteq 1..Len(L)
    BY DEF NewestOfKeys
  <2>2. IsFiniteSet(1..Len(L))
    BY FS_Interval
  <2> QED
    BY <2>1, <2>2, FS_Subset, MemoryAssumption
<1>1. \A n \in 1..Len(s) : e[n] \in N /\ e[n] \in Nat
  <2>1. e \in [1..Len(s) -> N]
    BY DEF Memory, Lists
  <2> HIDE DEF N
  <2> QED
    BY <1>0, <2>1
<1>2. \A m, n \in 1..Len(s) : m < n => e[m] < e[n]
  BY DEF Memory, Lists
<1>3. \A n \in 1..Len(s) : s[n] = L[e[n]]
  BY DEF Memory, Lists
<1>4. \A i \in N : \/ i \in listed
                   \/ Len(s) = MemoryLimit /\ \A n \in 1..Len(s) : i < e[n]
  BY DEF Memory, ListsNewest
<1>5. Len(s) <= MemoryLimit
  BY DEF Memory
<1> HIDE DEF N
<1>6. IsFiniteSet(listed) /\ Cardinality(listed) = Len(s)
  <2>1. 1 \in Nat /\ Len(s) \in Nat /\ N \in SUBSET Nat
    BY <1>0
  <2>2. \A n \in 1..Len(s) : e[n] \in N
    BY <1>1
  <2>3. /\ IsFiniteSet(listed)
        /\ Cardinality(listed) = IF 1 > Len(s) THEN 0 ELSE Len(s) - 1 + 1
    BY <1>2, <2>1, <2>2, ListedCount, Zenon
  <2> HIDE DEF listed
  <2> QED
    BY <1>0, <2>3
<1>7. ASSUME NEW n \in 1..Len(s) PROVE e[n] \in kept
  <2>1. {j \in N : j > e[n]} = {e[m] : m \in n+1..Len(s)}
    <3>1. ASSUME NEW j \in N, j > e[n] PROVE \E m \in n+1..Len(s) : e[m] = j
      <4>1. PICK m \in 1..Len(s) : e[m] = j
        BY <1>0, <1>1, <1>4, <3>1
      <4>2. ~(m <= n)
        BY <1>0, <1>1, <1>2, <3>1, <4>1
      <4> QED
        BY <1>0, <4>1, <4>2
    <3>2. ASSUME NEW m \in n+1..Len(s) PROVE e[m] \in N /\ e[m] > e[n]
      BY <1>0, <1>1, <1>2
    <3> QED
      BY <3>1, <3>2
  <2>2. Cardinality({e[m] : m \in n+1..Len(s)}) = IF n+1 > Len(s) THEN 0 ELSE Len(s) - (n+1) + 1
    <3>1. \A m \in n+1..Len(s) : e[m] \in N
      BY <1>0, <1>1
    <3>2. \A m, k \in n+1..Len(s) : m < k => e[m] < e[k]
      BY <1>0, <1>2
    <3>3. n + 1 \in Nat /\ Len(s) \in Nat /\ N \in SUBSET Nat
      BY <1>0
    <3> QED
      BY <3>1, <3>2, <3>3, ListedCount, Zenon
  <2>3. Cardinality({e[m] : m \in n+1..Len(s)}) < MemoryLimit
    BY <1>0, <1>5, <2>2
  <2> QED
    BY <1>1, <2>1, <2>3
<1>8. ASSUME NEW i \in N, i \notin listed PROVE i \notin kept
  <2>1. Len(s) = MemoryLimit /\ \A n \in 1..Len(s) : i < e[n]
    BY <1>4, <1>8
  <2>2. listed \subseteq {j \in N : j > i}
    BY <1>0, <1>1, <2>1
  <2>3. IsFiniteSet({j \in N : j > i})
    BY <1>0, FS_Subset
  <2>4. Cardinality(listed) <= Cardinality({j \in N : j > i})
    BY <2>2, <2>3, FS_Subset
  <2>5. Cardinality({j \in N : j > i}) \in Nat
    BY <2>3, FS_CardinalityType
  <2> QED
    BY <1>0, <1>6, <2>1, <2>4, <2>5
<1>9. kept = listed
  BY <1>1, <1>7, <1>8
<1>10. ASSUME NEW n \in 1..Len(s)
       PROVE  (CHOOSE i \in listed : Cardinality({j \in listed : j < i}) = n - 1) = e[n]
  <2>1. ASSUME NEW m \in 1..Len(s)
        PROVE  Cardinality({j \in listed : j < e[m]}) = m - 1
    <3>1. {j \in listed : j < e[m]} = {e[k] : k \in 1..m-1}
      <4>1. ASSUME NEW k \in 1..Len(s), e[k] < e[m] PROVE k \in 1..m-1
        <5>1. ~(k >= m)
          BY <1>0, <1>1, <1>2, <4>1
        <5> QED
          BY <1>0, <5>1
      <4>2. ASSUME NEW k \in 1..m-1 PROVE k \in 1..Len(s) /\ e[k] < e[m]
        BY <1>0, <1>2
      <4> QED
        BY <4>1, <4>2
    <3>2. \A k \in 1..m-1 : e[k] \in N
      BY <1>0, <1>1
    <3>3. \A k, l \in 1..m-1 : k < l => e[k] < e[l]
      BY <1>0, <1>2
    <3>4. m - 1 \in Nat /\ 1 \in Nat /\ N \in SUBSET Nat
      BY <1>0
    <3>5. Cardinality({e[k] : k \in 1..m-1}) = IF 1 > m - 1 THEN 0 ELSE m - 1 - 1 + 1
      BY <3>2, <3>3, <3>4, ListedCount, Zenon
    <3>6. Cardinality({e[k] : k \in 1..m-1}) = m - 1
      <4> DEFINE c == Cardinality({e[k] : k \in 1..m-1})
      <4>1. c = IF 1 > m - 1 THEN 0 ELSE m - 1 - 1 + 1
        BY <3>5
      <4> HIDE DEF c
      <4>2. c = m - 1
        BY <3>4, <4>1
      <4> QED
        BY <4>2 DEF c
    <3> HIDE DEF listed
    <3> QED
      BY <3>1, <3>6, Zenon
  <2>2. e[n] \in listed /\ Cardinality({j \in listed : j < e[n]}) = n - 1
    BY <2>1
  <2>3. ASSUME NEW i \in listed, Cardinality({j \in listed : j < i}) = n - 1
        PROVE  i = e[n]
    <3>1. PICK m \in 1..Len(s) : i = e[m]
      OBVIOUS
    <3>2. m - 1 = n - 1
      BY <2>1, <2>3, <3>1
    <3>3. m = n
      BY <1>0, <3>2
    <3> QED
      BY <3>1, <3>3
  <2> HIDE DEF listed
  <2> QED
    BY <2>2, <2>3
<1>11. EffectiveRecords(L)
        = [n \in 1..Cardinality(listed) |->
             L[CHOOSE i \in listed : Cardinality({j \in listed : j < i}) = n - 1]]
  <2>1. EffectiveRecords(L)
        = [n \in 1..Cardinality(kept) |->
             L[CHOOSE i \in kept : Cardinality({j \in kept : j < i}) = n - 1]]
    BY Zenon DEF EffectiveRecords, N
  <2> HIDE DEF kept, listed
  <2> QED
    BY <1>9, <2>1
<1>12. [n \in 1..Cardinality(listed) |->
             L[CHOOSE i \in listed : Cardinality({j \in listed : j < i}) = n - 1]]
       = [n \in 1..Len(s) |-> s[n]]
  <2> HIDE DEF listed
  <2> QED
    BY <1>3, <1>6, <1>10, Zenon
<1>13. s = [n \in 1..Len(s) |-> s[n]]
  OBVIOUS
<1> QED
  BY <1>11, <1>12, <1>13

\* The newest places after one record more.
LEMMA NewestGrow ==
  ASSUME NEW T, NEW L \in Seq(T), NEW x \in T
  PROVE  NewestOfKeys(Append(L, x))
           = {i \in NewestOfKeys(L) : MemoryKey(L[i]) # MemoryKey(x)} \cup {Len(L) + 1}
<1> DEFINE M == Append(L, x)
<1>1. /\ DOMAIN M = 1..Len(L) + 1 /\ DOMAIN L = 1..Len(L) /\ Len(L) \in Nat
      /\ M[Len(L) + 1] = x
      /\ \A i \in 1..Len(L) : M[i] = L[i]
  OBVIOUS
<1> HIDE DEF M
<1>2. ASSUME NEW i \in NewestOfKeys(M), i # Len(L) + 1
      PROVE  i \in NewestOfKeys(L) /\ MemoryKey(L[i]) # MemoryKey(x)
  <2>1. i \in 1..Len(L) + 1
    BY <1>1 DEF NewestOfKeys
  <2>2. i \in 1..Len(L) /\ Len(L) + 1 \in DOMAIN M /\ Len(L) + 1 > i
    BY <1>1, <1>2, <2>1
  <2>3. \A j \in DOMAIN M : j > i => MemoryKey(M[j]) # MemoryKey(M[i])
    BY DEF NewestOfKeys
  <2>4. MemoryKey(x) # MemoryKey(L[i])
    BY <1>1, <2>2, <2>3
  <2>5. \A j \in DOMAIN L : j > i => MemoryKey(L[j]) # MemoryKey(L[i])
    BY <1>1, <2>2, <2>3
  <2> QED
    BY <1>1, <2>2, <2>4, <2>5 DEF NewestOfKeys
<1>3. ASSUME NEW i \in NewestOfKeys(L), MemoryKey(L[i]) # MemoryKey(x)
      PROVE  i \in NewestOfKeys(M)
  <2>1. /\ i \in 1..Len(L)
        /\ \A j \in DOMAIN L : j > i => MemoryKey(L[j]) # MemoryKey(L[i])
    BY <1>1 DEF NewestOfKeys
  <2>2. ASSUME NEW j \in DOMAIN M, j > i PROVE MemoryKey(M[j]) # MemoryKey(M[i])
    <3>1. CASE j = Len(L) + 1
      BY <1>1, <1>3, <2>1, <3>1
    <3>2. CASE j \in DOMAIN L
      BY <1>1, <2>1, <2>2, <3>2
    <3> QED
      BY <1>1, <3>1, <3>2
  <2> QED
    BY <1>1, <2>1, <2>2 DEF NewestOfKeys
<1>4. Len(L) + 1 \in NewestOfKeys(M)
  BY <1>1 DEF NewestOfKeys
<1> QED
  BY <1>2, <1>3, <1>4 DEF M

\* The node of the record's key is taken out of the memory.
Others(s, x) ==
  LET known == {i \in DOMAIN s : MemoryKey(s[i]) = MemoryKey(x)}
  IN  IF known = {} THEN s ELSE RemoveAt(s, Min(known))

\* o lists the newest records of the other keys, at the places d.
OthersListed(L, x, s, o, d) ==
  LET N == {i \in NewestOfKeys(L) : MemoryKey(L[i]) # MemoryKey(x)}
  IN  /\ Lists(N, L, o, d)
      /\ \A i \in N : \/ \E n \in 1..Len(o) : d[n] = i
                      \/ Len(s) = MemoryLimit /\ \A n \in 1..Len(o) : i < d[n]

LEMMA KeyIsDropped ==
  ASSUME NEW T, NEW L \in Seq(T), NEW x \in T, NEW s \in Seq(T), NEW e, Memory(L, s, e)
  PROVE  /\ Others(s, x) \in Seq(T)
         /\ Others(s, x) = s \/ Len(Others(s, x)) + 1 = Len(s)
         /\ \E d : OthersListed(L, x, s, Others(s, x), d)
<1> DEFINE K == NewestOfKeys(L)
           N == {i \in K : MemoryKey(L[i]) # MemoryKey(x)}
           known == {i \in DOMAIN s : MemoryKey(s[i]) = MemoryKey(x)}
           o == Others(s, x)
<1>0. DOMAIN L = 1..Len(L) /\ DOMAIN s = 1..Len(s) /\ Len(s) \in Nat /\ Len(L) \in Nat
  OBVIOUS
<1>1. K \in SUBSET (1..Len(L))
  BY <1>0 DEF NewestOfKeys
<1>2. \A i, j \in K : MemoryKey(L[i]) = MemoryKey(L[j]) => i = j
  <2>1. \A i, j \in K : j > i => MemoryKey(L[j]) # MemoryKey(L[i])
    BY DEF NewestOfKeys
  <2>2. \A i, j \in K : i = j \/ i > j \/ j > i
    BY <1>0, <1>1
  <2> HIDE DEF K
  <2> QED
    BY <2>1, <2>2
<1>3. /\ e \in [1..Len(s) -> K]
      /\ \A m, n \in 1..Len(s) : m < n => e[m] < e[n]
      /\ \A n \in 1..Len(s) : s[n] = L[e[n]]
  BY DEF Memory, Lists
<1>4. \A i \in K : \/ \E n \in 1..Len(s) : e[n] = i
                   \/ Len(s) = MemoryLimit /\ \A n \in 1..Len(s) : i < e[n]
  BY DEF Memory, ListsNewest
<1>5. o = IF known = {} THEN s ELSE RemoveAt(s, Min(known))
  BY DEF Others
<1> HIDE DEF K, o
<1>6. CASE known = {}
  <2>1. o = s
    BY <1>5, <1>6
  <2>2. \A n \in 1..Len(s) : e[n] \in N
    BY <1>0, <1>3, <1>6
  <2>3. Lists(N, L, o, e)
    BY <1>3, <2>1, <2>2 DEF Lists
  <2> QED
    BY <1>4, <2>1, <2>3 DEF K, o, OthersListed
<1>7. CASE known # {}
  <2> DEFINE k == Min(known)
             d == [n \in 1..Len(s) - 1 |-> IF n < k THEN e[n] ELSE e[n + 1]]
  <2>1. k \in known
    <3>1. known \in SUBSET Nat
      BY <1>0
    <3> HIDE DEF known
    <3> QED
      BY <1>7, <3>1, LeastOf
  <2> HIDE DEF k
  <2>2. k \in 1..Len(s) /\ MemoryKey(s[k]) = MemoryKey(x)
    BY <1>0, <2>1
  <2>3. o = SubSeq(s, 1, k - 1) \o SubSeq(s, k + 1, Len(s))
    BY <1>5, <1>7 DEF RemoveAt, k
  <2>4. /\ o \in Seq(T) /\ Len(o) = Len(s) - 1
        /\ \A n \in 1..Len(s) - 1 : o[n] = IF n < k THEN s[n] ELSE s[n + 1]
    <3> DEFINE a == SubSeq(s, 1, k - 1)
               b == SubSeq(s, k + 1, Len(s))
    <3>1. /\ a \in Seq(T) /\ Len(a) = k - 1
          /\ \A n \in 1..k - 1 : a[n] = s[n]
      BY <1>0, <2>2
    <3>2. /\ b \in Seq(T) /\ Len(b) = Len(s) - k
          /\ \A n \in 1..Len(s) - k : b[n] = s[n + k]
      <4>0. /\ k + 1 \in Int /\ Len(s) \in Int
            /\ \A i \in k + 1..Len(s) : s[i] \in T
        BY <1>0, <2>2
      <4>1. /\ b \in Seq(T)
            /\ Len(b) = IF k + 1 <= Len(s) THEN Len(s) - (k + 1) + 1 ELSE 0
            /\ \A i \in 1..Len(s) - (k + 1) + 1 : b[i] = s[k + 1 + i - 1]
        BY <4>0, SubSeqProperties
      <4>2. Len(s) - (k + 1) + 1 = Len(s) - k
        BY <1>0, <2>2
      <4>3. \A n \in Nat : k + 1 + n - 1 = n + k
        BY <2>2
      <4> HIDE DEF b
      <4>4. Len(b) = Len(s) - k
        <5>1. Len(b) = IF k + 1 <= Len(s) THEN Len(s) - (k + 1) + 1 ELSE 0
          BY <4>1
        <5>2. k \in Nat /\ k <= Len(s)
          BY <1>0, <2>2
        <5> DEFINE lb == Len(b)
                   ls == Len(s)
        <5>3. lb = IF k + 1 <= ls THEN ls - (k + 1) + 1 ELSE 0
          BY <5>1
        <5>4. ls \in Nat
          BY <1>0
        <5>5. k <= ls
          BY <5>2
        <5> HIDE DEF lb, ls
        <5>6. lb = ls - k
          BY <5>2, <5>3, <5>4, <5>5
        <5> QED
          BY <5>6 DEF lb, ls
      <4>5. \A n \in 1..Len(s) - k : b[n] = s[n + k]
        BY <4>1, <4>2, <4>3
      <4> QED
        BY <4>1, <4>4, <4>5
    <3> HIDE DEF a, b
    <3>3. o = a \o b
      BY <2>3 DEF a, b
    <3>4. o \in Seq(T) /\ Len(o) = Len(a) + Len(b)
      <4>1. a \in Seq(T) /\ b \in Seq(T)
        BY <3>1, <3>2
      <4>2. o \in Seq(T)
        BY <3>3, <4>1
      <4>3. Len(o) = Len(a) + Len(b)
        BY <3>3, <4>1
      <4> QED
        BY <4>2, <4>3
    <3>5. \A n \in 1..Len(a) + Len(b) : o[n] = IF n <= Len(a) THEN a[n] ELSE b[n - Len(a)]
      <4>1. a \in Seq(T) /\ b \in Seq(T)
        BY <3>1, <3>2
      <4> QED
        BY <3>3, <4>1
    <3>6. ASSUME NEW n \in 1..Len(s) - 1 PROVE o[n] = IF n < k THEN s[n] ELSE s[n + 1]
      <4>1. CASE n < k
        <5>1. n \in 1..Len(a) + Len(b) /\ n <= Len(a) /\ n \in 1..k - 1
          BY <1>0, <2>2, <3>1, <3>2, <4>1
        <5> QED
          BY <3>1, <3>5, <4>1, <5>1
      <4>2. CASE ~(n < k)
        <5>1. /\ n \in 1..Len(a) + Len(b) /\ ~(n <= Len(a))
              /\ n - Len(a) \in 1..Len(s) - k /\ n - Len(a) + k = n + 1
          BY <1>0, <2>2, <3>1, <3>2, <4>2
        <5> QED
          BY <3>2, <3>5, <4>2, <5>1
      <4> QED
        BY <4>1, <4>2
    <3> QED
      BY <1>0, <2>2, <3>1, <3>2, <3>4, <3>6
  <2>5. ASSUME NEW n \in 1..Len(s), n # k PROVE e[n] \in N
    <3>1. e[n] \in K /\ e[k] \in K /\ e[n] # e[k]
      <4>1. n < k \/ k < n
        BY <2>2, <2>5
      <4>2. e[n] \in K /\ e[k] \in K
        BY <1>3, <2>2
      <4>3. e[n] < e[k] \/ e[k] < e[n]
        BY <1>3, <2>2, <4>1
      <4>4. e[n] \in Nat /\ e[k] \in Nat
        <5>1. e[n] \in 1..Len(L) /\ e[k] \in 1..Len(L)
          BY <1>1, <4>2
        <5> QED
          BY <1>0, <5>1
      <4> QED
        BY <4>2, <4>3, <4>4
    <3>2. MemoryKey(L[e[k]]) = MemoryKey(x)
      BY <1>3, <2>2
    <3> QED
      BY <1>2, <3>1, <3>2
  <2>6. \A n \in 1..Len(s) - 1 : /\ n \in 1..Len(s) /\ n + 1 \in 1..Len(s)
                                 /\ n < k => n # k
                                 /\ ~(n < k) => n + 1 # k
    BY <1>0, <2>2
  <2>7. Lists(N, L, o, d)
    <3> HIDE DEF N, known
    <3>1. d \in [1..Len(s) - 1 -> N]
      BY <2>5, <2>6
    <3>2. ASSUME NEW m \in 1..Len(s) - 1, NEW n \in 1..Len(s) - 1, m < n
          PROVE  d[m] < d[n]
      <4> DEFINE p(j) == IF j < k THEN j ELSE j + 1
      <4>1. p(m) \in 1..Len(s) /\ p(n) \in 1..Len(s) /\ p(m) < p(n)
        BY <1>0, <2>2, <3>2
      <4>2. d[m] = e[p(m)] /\ d[n] = e[p(n)]
        OBVIOUS
      <4> HIDE DEF p, d
      <4> QED
        BY <1>3, <4>1, <4>2
    <3>3. ASSUME NEW n \in 1..Len(s) - 1 PROVE o[n] = L[d[n]]
      <4>1. d[n] = IF n < k THEN e[n] ELSE e[n + 1]
        OBVIOUS
      <4> HIDE DEF d
      <4> QED
        BY <1>3, <2>4, <2>6, <4>1
    <3> HIDE DEF d
    <3> QED
      BY <2>4, <3>1, <3>2, <3>3 DEF Lists
  <2>8. ASSUME NEW i \in N
        PROVE  \/ \E n \in 1..Len(o) : d[n] = i
               \/ Len(s) = MemoryLimit /\ \A n \in 1..Len(o) : i < d[n]
    <3>1. i \in K
      OBVIOUS
    <3>2. CASE \E n \in 1..Len(s) : e[n] = i
      <4>1. PICK n \in 1..Len(s) : e[n] = i
        BY <3>2
      <4>2. n # k
        <5>1. MemoryKey(L[e[k]]) = MemoryKey(x)
          BY <1>3, <2>2
        <5> QED
          BY <4>1, <5>1
      <4>3. CASE n < k
        <5>1. n \in 1..Len(s) - 1
          BY <1>0, <2>2, <4>3
        <5>2. d[n] = e[n]
          BY <4>3, <5>1
        <5> QED
          BY <2>4, <4>1, <5>1, <5>2
      <4>4. CASE k < n
        <5>1. n - 1 \in 1..Len(s) - 1 /\ ~(n - 1 < k) /\ n - 1 + 1 = n
          BY <1>0, <2>2, <4>4
        <5>2. d[n - 1] = e[n]
          BY <5>1
        <5> QED
          BY <2>4, <4>1, <5>1, <5>2
      <4> QED
        <5>1. n < k \/ k < n
          BY <1>0, <2>2, <4>2
        <5> QED
          BY <4>3, <4>4, <5>1
    <3>3. CASE Len(s) = MemoryLimit /\ \A n \in 1..Len(s) : i < e[n]
      <4>1. \A n \in 1..Len(s) - 1 : i < d[n]
        BY <2>6, <3>3
      <4> QED
        BY <2>4, <3>3, <4>1
    <3> QED
      BY <1>4, <3>1, <3>2, <3>3
  <2>9. Len(o) + 1 = Len(s)
    BY <1>0, <2>4
  <2> HIDE DEF d, N
  <2>10. /\ o \in Seq(T)
         /\ o = s \/ Len(o) + 1 = Len(s)
         /\ OthersListed(L, x, s, o, d)
    BY <2>4, <2>7, <2>8, <2>9 DEF OthersListed, N, K
  <2> QED
    BY <2>10 DEF o
<1> QED
  BY <1>6, <1>7
\* One record more: the memory of the longer list is the node remembered.
LEMMA MemoryGrows ==
  ASSUME NEW T, NEW L \in Seq(T), NEW x \in T, NEW s \in Seq(T), NEW e, Memory(L, s, e)
  PROVE  /\ RememberNode(s, x) \in Seq(T)
         /\ \E d : Memory(Append(L, x), RememberNode(s, x), d)
<1> DEFINE K == NewestOfKeys(L)
           N == {i \in K : MemoryKey(L[i]) # MemoryKey(x)}
           o == Others(s, x)
           M == Append(L, x)
           grown == Append(o, x)
           z == Len(L) + 1
<1>0. Len(s) \in Nat /\ Len(L) \in Nat /\ MemoryLimit \in Nat \ {0} /\ Len(s) <= MemoryLimit
  BY MemoryAssumption DEF Memory
<1>1. /\ o \in Seq(T)
      /\ o = s \/ Len(o) + 1 = Len(s)
      /\ \E d : OthersListed(L, x, s, o, d)
  BY KeyIsDropped
<1>2. PICK d : /\ Lists(N, L, o, d)
               /\ \A i \in N : \/ \E n \in 1..Len(o) : d[n] = i
                               \/ Len(s) = MemoryLimit /\ \A n \in 1..Len(o) : i < d[n]
  BY <1>1 DEF OthersListed
<1>3. RememberNode(s, x) = IF Len(grown) > MemoryLimit THEN Tail(grown) ELSE grown
  BY DEF RememberNode, Others
<1>4. NewestOfKeys(M) = N \cup {z}
  BY NewestGrow
<1>5. K \subseteq 1..Len(L)
  BY DEF NewestOfKeys
<1>6. N \subseteq 1..Len(L)
  BY <1>5
<1>7. /\ d \in [1..Len(o) -> N]
      /\ \A m, n \in 1..Len(o) : m < n => d[m] < d[n]
      /\ \A n \in 1..Len(o) : o[n] = L[d[n]]
  BY <1>2 DEF Lists
<1>8. M[z] = x /\ \A i \in 1..Len(L) : M[i] = L[i]
  OBVIOUS
<1> DEFINE g == [n \in 1..Len(o) + 1 |-> IF n = Len(o) + 1 THEN z ELSE d[n]]
<1> HIDE DEF N, K, o, M
<1>9. /\ grown \in Seq(T) /\ Len(grown) = Len(o) + 1 /\ Len(o) \in Nat
      /\ grown[Len(o) + 1] = x
      /\ \A n \in 1..Len(o) : grown[n] = o[n]
  BY <1>1
<1> HIDE DEF grown
<1>10. /\ g \in [1..Len(grown) -> N \cup {z}]
       /\ \A m, n \in 1..Len(grown) : m < n => g[m] < g[n]
       /\ \A n \in 1..Len(grown) : grown[n] = M[g[n]]
  <2>1. g \in [1..Len(grown) -> N \cup {z}]
    BY <1>7, <1>9
  <2>2. ASSUME NEW m \in 1..Len(grown), NEW n \in 1..Len(grown), m < n
        PROVE  g[m] < g[n]
    <3>1. m \in 1..Len(o) /\ g[m] = d[m]
      BY <1>9, <2>2
    <3>2. CASE n = Len(o) + 1
      <4>1. g[n] = z /\ d[m] \in 1..Len(L)
        BY <1>6, <1>7, <1>9, <3>1, <3>2
      <4> HIDE DEF g
      <4>2. d[m] < Len(L) + 1
        BY <1>0, <4>1
      <4> QED
        BY <3>1, <4>1, <4>2
    <3>3. CASE n # Len(o) + 1
      <4>1. n \in 1..Len(o) /\ g[n] = d[n]
        BY <1>9, <3>3
      <4> HIDE DEF g
      <4> QED
        BY <1>7, <2>2, <3>1, <4>1
    <3> QED
      BY <3>2, <3>3
  <2>3. ASSUME NEW n \in 1..Len(grown) PROVE grown[n] = M[g[n]]
    <3>1. CASE n = Len(o) + 1
      BY <1>8, <1>9, <3>1
    <3>2. CASE n # Len(o) + 1
      <4>1. n \in 1..Len(o) /\ g[n] = d[n]
        BY <1>9, <3>2
      <4>2. d[n] \in 1..Len(L)
        BY <1>6, <1>7, <4>1
      <4> HIDE DEF g
      <4> QED
        BY <1>7, <1>8, <1>9, <4>1, <4>2
    <3> QED
      BY <3>1, <3>2
  <2> QED
    BY <2>1, <2>2, <2>3
<1>11. ASSUME NEW i \in N \cup {z}
       PROVE  \/ \E n \in 1..Len(grown) : g[n] = i
              \/ Len(s) = MemoryLimit /\ \A n \in 1..Len(grown) : i < g[n]
  <2>1. CASE i = z
    <3>1. Len(o) + 1 \in 1..Len(grown) /\ g[Len(o) + 1] = z
      BY <1>9
    <3> QED
      BY <2>1, <3>1
  <2>2. CASE i \in N /\ \E n \in 1..Len(o) : d[n] = i
    <3>1. PICK n \in 1..Len(o) : d[n] = i
      BY <2>2
    <3>2. n \in 1..Len(grown) /\ n # Len(o) + 1
      BY <1>9
    <3>3. g[n] = i
      BY <1>9, <3>1, <3>2
    <3> QED
      BY <3>2, <3>3
  <2>3. CASE i \in N /\ Len(s) = MemoryLimit /\ \A n \in 1..Len(o) : i < d[n]
    <3>1. ASSUME NEW n \in 1..Len(grown) PROVE i < g[n]
      <4>1. CASE n = Len(o) + 1
        <5>1. i \in 1..Len(L) /\ g[n] = z
          BY <1>6, <1>9, <2>3, <4>1
        <5> HIDE DEF g
        <5> QED
          BY <1>0, <5>1
      <4>2. CASE n # Len(o) + 1
        <5>1. n \in 1..Len(o) /\ g[n] = d[n]
          BY <1>9, <4>2
        <5> HIDE DEF g
        <5> QED
          BY <2>3, <5>1
      <4> QED
        BY <4>1, <4>2
    <3> HIDE DEF g
    <3> QED
      BY <2>3, <3>1
  <2> QED
    BY <1>2, <2>1, <2>2, <2>3
<1> HIDE DEF g, z
<1>12. CASE Len(grown) > MemoryLimit
  <2> DEFINE t == Tail(grown)
             h == [n \in 1..Len(grown) - 1 |-> g[n + 1]]
  <2>1. Len(s) = MemoryLimit /\ o = s /\ Len(grown) = MemoryLimit + 1
    BY <1>0, <1>1, <1>9, <1>12
  <2>2. grown # <<>>
    BY <1>0, <2>1
  <2>3. /\ t \in Seq(T) /\ Len(t) = Len(grown) - 1
        /\ \A n \in 1..Len(grown) - 1 : t[n] = grown[n + 1]
    BY <1>9, <2>2
  <2> HIDE DEF t
  <2>4. Len(t) = MemoryLimit
    BY <1>0, <2>1, <2>3
  <2>5. \A n \in 1..MemoryLimit : n + 1 \in 1..Len(grown) /\ h[n] = g[n + 1]
    BY <1>0, <2>1
  <2>6. h \in [1..Len(t) -> N \cup {z}]
    BY <1>0, <1>10, <2>1, <2>4
  <2> HIDE DEF h
  <2>7. ASSUME NEW m \in 1..Len(t), NEW n \in 1..Len(t), m < n PROVE h[m] < h[n]
    <3>1. m + 1 \in 1..Len(grown) /\ n + 1 \in 1..Len(grown) /\ m + 1 < n + 1
      BY <1>0, <2>1, <2>4, <2>7
    <3> QED
      BY <1>10, <2>4, <2>5, <3>1
  <2>8. ASSUME NEW n \in 1..Len(t) PROVE t[n] = M[h[n]]
    <3>1. n + 1 \in 1..Len(grown) /\ t[n] = grown[n + 1] /\ h[n] = g[n + 1]
      BY <2>3, <2>4, <2>5
    <3> QED
      BY <1>10, <3>1
  <2>9. ASSUME NEW i \in N \cup {z}
        PROVE  \/ \E n \in 1..Len(t) : h[n] = i
               \/ Len(t) = MemoryLimit /\ \A n \in 1..Len(t) : i < h[n]
    <3>1. CASE \A n \in 1..Len(grown) : i < g[n]
      BY <2>4, <2>5, <3>1
    <3>2. CASE \E n \in 1..Len(grown) : g[n] = i
      <4>1. PICK n \in 1..Len(grown) : g[n] = i
        BY <3>2
      <4>2. CASE n = 1
        <5>1. ASSUME NEW k \in 1..Len(t) PROVE i < h[k]
          <6>1. k + 1 \in 1..Len(grown) /\ n < k + 1 /\ h[k] = g[k + 1]
            BY <1>0, <2>1, <2>4, <2>5, <4>2
          <6> QED
            BY <1>10, <4>1, <6>1
        <5> QED
          BY <2>4, <5>1
      <4>3. CASE n # 1
        <5>1. n - 1 \in 1..MemoryLimit /\ n - 1 + 1 = n
          BY <1>0, <2>1, <4>3
        <5>2. h[n - 1] = i
          BY <2>5, <4>1, <5>1
        <5> QED
          BY <2>4, <5>1, <5>2
      <4> QED
        BY <4>2, <4>3
    <3> QED
      BY <1>11, <3>1, <3>2
  <2>10. Memory(M, t, h)
    BY <1>0, <1>4, <2>4, <2>6, <2>7, <2>8, <2>9 DEF Memory, Lists, ListsNewest, z
  <2> QED
    BY <1>3, <1>12, <2>3, <2>10 DEF t, M
<1>13. CASE ~(Len(grown) > MemoryLimit)
  <2>1. Len(grown) <= MemoryLimit
    BY <1>0, <1>9, <1>13
  <2>2. Len(s) = MemoryLimit => Len(grown) = MemoryLimit
    BY <1>0, <1>1, <1>9, <2>1
  <2>3. \A i \in N \cup {z} : \/ \E n \in 1..Len(grown) : g[n] = i
                              \/ /\ Len(grown) = MemoryLimit
                                 /\ \A n \in 1..Len(grown) : i < g[n]
    BY <1>11, <2>2
  <2>4. Memory(M, grown, g)
    BY <1>4, <1>10, <2>1, <2>3 DEF Memory, Lists, ListsNewest, z
  <2> QED
    BY <1>3, <1>9, <1>13, <2>4 DEF M
<1> QED
  BY <1>12, <1>13
LEMMA MemoryOfNone ==
  ASSUME NEW T
  PROVE  <<>> \in Seq(T) /\ Memory(<<>>, <<>>, <<>>)
<1>1. <<>> \in Seq(T) /\ Len(<<>>) = 0 /\ 1..0 = {} /\ DOMAIN <<>> = {}
  OBVIOUS
<1>2. NewestOfKeys(<<>>) = {}
  BY <1>1 DEF NewestOfKeys
<1>3. <<>> \in [{} -> {}]
  OBVIOUS
<1> QED
  BY <1>1, <1>2, <1>3, MemoryAssumption DEF Memory, Lists, ListsNewest

\* Every sequence of records has a memory.
LEMMA MemoryExists ==
  ASSUME NEW T, NEW L \in Seq(T)
  PROVE  EffectiveRecords(L) \in Seq(T) /\ \E e : Memory(L, EffectiveRecords(L), e)
<1> DEFINE Remembered == {n \in 0..Len(L) :
                            \E s \in Seq(T) : \E e : Memory(SubSeq(L, 1, n), s, e)}
<1>0. Len(L) \in Nat
  OBVIOUS
<1>1. 0 \in Remembered
  <2>1. SubSeq(L, 1, 0) = <<>>
    OBVIOUS
  <2>2. <<>> \in Seq(T) /\ Memory(SubSeq(L, 1, 0), <<>>, <<>>)
    BY <2>1, MemoryOfNone
  <2>3. \E s \in Seq(T) : \E e : Memory(SubSeq(L, 1, 0), s, e)
    BY <2>2, Zenon
  <2> QED
    BY <1>0, <2>3
<1>2. ASSUME NEW n \in 0..Len(L), n < Len(L), n \in Remembered
      PROVE  n + 1 \in Remembered
  <2> DEFINE P == SubSeq(L, 1, n)
  <2>1. PICK s \in Seq(T) : \E e : Memory(P, s, e)
    BY <1>2
  <2>2. PICK e : Memory(P, s, e)
    BY <2>1
  <2>3. P \in Seq(T) /\ L[n + 1] \in T
    BY <1>0, <1>2
  <2>4. SubSeq(L, 1, n + 1) = Append(P, L[n + 1])
    BY <1>0, <1>2
  <2> HIDE DEF P
  <2>5. /\ RememberNode(s, L[n + 1]) \in Seq(T)
        /\ \E d : Memory(Append(P, L[n + 1]), RememberNode(s, L[n + 1]), d)
    BY <2>2, <2>3, MemoryGrows
  <2>6. \E t \in Seq(T) : \E d : Memory(SubSeq(L, 1, n + 1), t, d)
    BY <2>4, <2>5, Zenon
  <2>7. n + 1 \in 0..Len(L)
    BY <1>0, <1>2
  <2> QED
    BY <2>6, <2>7
<1> HIDE DEF Remembered
<1>3. \A n \in 0..Len(L) : n \in Remembered
  BY <1>0, <1>1, <1>2, UpTo
<1>4. PICK s \in Seq(T) : \E e : Memory(SubSeq(L, 1, Len(L)), s, e)
  BY <1>0, <1>3 DEF Remembered
<1>5. SubSeq(L, 1, Len(L)) = L
  OBVIOUS
<1>6. PICK e : Memory(L, s, e)
  BY <1>4, <1>5
<1>7. EffectiveRecords(L) = s
  BY <1>6, MemoryIsEffective
<1> QED
  BY <1>6, <1>7

\* Replay, record by record: what is remembered after one record more is what
\* effective_records selects of the ledger with that record.
LEMMA ReplayStep ==
  ASSUME NEW T, NEW L \in Seq(T), NEW x \in T
  PROVE  EffectiveRecords(Append(L, x)) = RememberNode(EffectiveRecords(L), x)
<1>1. EffectiveRecords(L) \in Seq(T) /\ \E e : Memory(L, EffectiveRecords(L), e)
  BY MemoryExists
<1>2. PICK e : Memory(L, EffectiveRecords(L), e)
  BY <1>1
<1>3. /\ RememberNode(EffectiveRecords(L), x) \in Seq(T)
      /\ \E d : Memory(Append(L, x), RememberNode(EffectiveRecords(L), x), d)
  BY <1>1, <1>2, MemoryGrows
<1>4. Append(L, x) \in Seq(T)
  OBVIOUS
<1> QED
  BY <1>3, <1>4, MemoryIsEffective

\* A memory is its own memory.
LEMMA EffectiveTwice ==
  ASSUME NEW T, NEW L \in Seq(T)
  PROVE  EffectiveRecords(EffectiveRecords(L)) = EffectiveRecords(L)
<1> DEFINE s == EffectiveRecords(L)
           K == NewestOfKeys(L)
<1>1. s \in Seq(T) /\ \E e : Memory(L, s, e)
  BY MemoryExists
<1> HIDE DEF s
<1>2. PICK e : Memory(L, s, e)
  BY <1>1
<1>3. /\ e \in [1..Len(s) -> K] /\ Len(s) <= MemoryLimit
      /\ \A m, n \in 1..Len(s) : m < n => e[m] < e[n]
      /\ \A n \in 1..Len(s) : s[n] = L[e[n]]
  BY <1>2 DEF Memory, Lists
<1>4. \A i \in K : \A j \in 1..Len(L) : j > i => MemoryKey(L[j]) # MemoryKey(L[i])
  BY DEF NewestOfKeys
<1>5. K \subseteq 1..Len(L)
  BY DEF NewestOfKeys
<1>6. Len(s) \in Nat /\ Len(L) \in Nat /\ DOMAIN s = 1..Len(s)
  BY <1>1
<1> HIDE DEF K
<1>7. ASSUME NEW i \in 1..Len(s), NEW j \in 1..Len(s), j > i
      PROVE  MemoryKey(s[j]) # MemoryKey(s[i])
  <2>1. e[i] < e[j] /\ e[i] \in K /\ e[j] \in 1..Len(L) /\ e[i] \in 1..Len(L)
    BY <1>3, <1>5, <1>7
  <2>2. e[j] > e[i]
    BY <1>6, <2>1
  <2> QED
    BY <1>3, <1>4, <2>1, <2>2
<1>8. NewestOfKeys(s) = 1..Len(s)
  BY <1>6, <1>7 DEF NewestOfKeys
<1> DEFINE id == [n \in 1..Len(s) |-> n]
<1>9. Memory(s, s, id)
  <2>1. id \in [1..Len(s) -> 1..Len(s)] /\ \A n \in 1..Len(s) : id[n] = n
    OBVIOUS
  <2> HIDE DEF id
  <2> QED
    BY <1>3, <1>6, <1>8, <2>1 DEF Memory, Lists, ListsNewest
<1>10. EffectiveRecords(s) = s
  BY <1>1, <1>9, MemoryIsEffective
<1> QED
  BY <1>10 DEF s
\* add_learning_records builds what effective_records selects.
LEMMA NodesAreEffective ==
  ASSUME NEW T, NEW R \in Seq(T)
  PROVE  RememberNodes(R) = EffectiveRecords(R)
<1> DEFINE F(g, n) == IF n = 0 THEN <<>> ELSE RememberNode(g[n - 1], R[n])
           Solves(g) == g = [n \in 0..Len(R) |-> F(g, n)]
           h == [n \in 0..Len(R) |-> EffectiveRecords(SubSeq(R, 1, n))]
           f == CHOOSE g : Solves(g)
<1>0. Len(R) \in Nat
  OBVIOUS
<1>1. ASSUME NEW n \in 0..Len(R) PROVE h[n] = F(h, n)
  <2>1. CASE n = 0
    <3>1. SubSeq(R, 1, 0) = <<>>
      OBVIOUS
    <3>2. EffectiveRecords(<<>>) = <<>>
      BY MemoryOfNone, MemoryIsEffective
    <3> QED
      BY <2>1, <3>1, <3>2
  <2>2. CASE n # 0
    <3> DEFINE P == SubSeq(R, 1, n - 1)
    <3>1. P \in Seq(T) /\ R[n] \in T /\ n - 1 \in 0..Len(R)
      BY <1>0, <2>2
    <3>2. SubSeq(R, 1, n) = Append(P, R[n])
      BY <1>0, <2>2
    <3>3. h[n - 1] = EffectiveRecords(P) /\ h[n] = EffectiveRecords(Append(P, R[n]))
      BY <3>1, <3>2
    <3> HIDE DEF P, h
    <3>4. h[n] = RememberNode(h[n - 1], R[n])
      BY <3>1, <3>3, ReplayStep
    <3> QED
      BY <2>2, <3>4
  <2> QED
    BY <2>1, <2>2
<1>2. Solves(h)
  <2>1. h = [n \in 0..Len(R) |-> h[n]]
    OBVIOUS
  <2> HIDE DEF h, F
  <2> QED
    BY <1>1, <2>1
<1>3. Solves(f)
  <2> HIDE DEF Solves, h
  <2> QED
    BY <1>2
<1>4. ASSUME NEW n \in 0..Len(R) PROVE f[n] = F(f, n)
  <2> HIDE DEF f, F
  <2> QED
    BY <1>3
<1> HIDE DEF f, h
<1> DEFINE Same == {n \in 0..Len(R) : f[n] = h[n]}
<1>5. 0 \in Same
  BY <1>0, <1>1, <1>4
<1>6. ASSUME NEW n \in 0..Len(R), n < Len(R), n \in Same PROVE n + 1 \in Same
  <2>1. n + 1 \in 0..Len(R) /\ n + 1 # 0 /\ n + 1 - 1 = n
    BY <1>0, <1>6
  <2>2. f[n + 1] = RememberNode(f[n], R[n + 1]) /\ h[n + 1] = RememberNode(h[n], R[n + 1])
    BY <1>1, <1>4, <2>1
  <2> QED
    BY <1>6, <2>1, <2>2
<1> HIDE DEF Same
<1>7. Len(R) \in Same
  <2>1. \A n \in 0..Len(R) : n < Len(R) /\ n \in Same => n + 1 \in Same
    BY <1>6
  <2>2. \A n \in 0..Len(R) : n \in Same
    BY <1>0, <1>5, <2>1, UpTo, Zenon
  <2> QED
    BY <1>0, <2>2
<1>8. f[Len(R)] = EffectiveRecords(SubSeq(R, 1, Len(R)))
  BY <1>0, <1>7 DEF Same, h
<1>9. RememberNodes(R) = f[Len(R)]
  BY DEF RememberNodes, f
<1>10. SubSeq(R, 1, Len(R)) = R
  OBVIOUS
<1> QED
  BY <1>8, <1>9, <1>10
(***************************************************************************)
(* The memory is a replay.                                                 *)
(***************************************************************************)
\* Every finite set of numbers that is not empty has a greatest one.
LEMMA GreatestOf ==
  ASSUME NEW S \in SUBSET Nat, IsFiniteSet(S), S # {}
  PROVE  Max(S) \in S /\ \A k \in S : k <= Max(S)
<1> DEFINE above(k) == {j \in S : j >= k}
           U == {above(k) : k \in S}
<1>1. U \subseteq FiniteSubsetsOf(Nat) /\ U # {}
  <2>1. ASSUME NEW k \in S PROVE above(k) \in FiniteSubsetsOf(Nat)
    <3>1. IsFiniteSet(above(k))
      BY FS_Subset
    <3> QED
      BY <3>1 DEF FiniteSubsetsOf
  <2> QED
    BY <2>1
<1>2. \E x \in U : \A y \in U : ~(<<y, x>> \in StrictSubsetOrdering(Nat))
  BY <1>1, WFMin, FS_StrictSubsetOrderingWellFounded, Zenon
<1>3. PICK m \in S : \A k \in S : <<above(k), above(m)>> \notin StrictSubsetOrdering(Nat)
  BY <1>2
<1>4. ASSUME NEW k \in S PROVE m >= k
  <2>1. CASE k > m
    <3>0. k \in Nat /\ m \in Nat /\ \A j \in S : j \in Nat
      OBVIOUS
    <3>1. above(k) \subseteq above(m)
      <4>1. ASSUME NEW j \in S, j >= k PROVE j >= m
        BY <2>1, <3>0, <4>1
      <4> QED
        BY <4>1
    <3>3. m \in above(m) /\ m \notin above(k)
      BY <2>1, <3>0
    <3>2. above(k) \in SUBSET Nat /\ above(m) \in SUBSET Nat /\ above(k) # above(m)
      BY <3>3
    <3> HIDE DEF above
    <3> QED
      BY <1>3, <3>1, <3>2 DEF StrictSubsetOrdering
  <2>2. k \in Nat /\ m \in Nat
    OBVIOUS
  <2> QED
    BY <2>1, <2>2
<1>5. Max(S) \in S /\ \A k \in S : Max(S) >= k
  <2>1. \E n \in S : \A k \in S : n >= k
    BY <1>4
  <2> QED
    BY <2>1, Zenon DEF Max
<1> QED
  BY <1>5

\* What current_learning_record counts from: the attempts under an intent and
\* a gate.
AttemptsUnder(L, i, g) ==
  {0} \cup {L[n].attempt : n \in {m \in DOMAIN L : L[m].intent = i /\ L[m].gate = g}}

LEMMA AttemptsCounted ==
  ASSUME NEW L \in Seq(Lessons), NEW i, NEW g
  PROVE  /\ AttemptsOf(L, i, g) \in AttemptsUnder(L, i, g)
         /\ AttemptsOf(L, i, g) \in Nat
         /\ \A k \in AttemptsUnder(L, i, g) : k \in Nat /\ k <= AttemptsOf(L, i, g)
<1> DEFINE D == {m \in DOMAIN L : L[m].intent = i /\ L[m].gate = g}
           V == {L[n].attempt : n \in D}
           f == [n \in D |-> L[n].attempt]
<1>1. D \subseteq 1..Len(L) /\ \A n \in D : L[n].attempt \in Nat
  <2>1. \A r \in Lessons : r.attempt \in Nat
    BY DEF Lessons
  <2>2. D \subseteq 1..Len(L) /\ \A n \in 1..Len(L) : L[n] \in Lessons
    OBVIOUS
  <2> HIDE DEF D
  <2> QED
    BY <2>1, <2>2
<1>2. IsFiniteSet(D)
  <2>1. IsFiniteSet(1..Len(L))
    BY FS_Interval
  <2> QED
    BY <1>1, <2>1, FS_Subset
<1>3. f \in Surjection(D, V)
  BY DEF Surjection
<1> HIDE DEF f, D
<1>4. IsFiniteSet(V)
  BY <1>2, <1>3, FS_Surjection
<1>5. IsFiniteSet(V \cup {0})
  BY <1>4, FS_AddElement
<1>6. AttemptsUnder(L, i, g) = V \cup {0} /\ V \cup {0} \in SUBSET Nat /\ 0 \in V \cup {0}
  BY <1>1 DEF AttemptsUnder, D
<1>7. AttemptsOf(L, i, g) = Max(AttemptsUnder(L, i, g))
  BY DEF AttemptsOf, AttemptsUnder
<1> HIDE DEF V
<1>8. /\ AttemptsUnder(L, i, g) \in SUBSET Nat /\ IsFiniteSet(AttemptsUnder(L, i, g))
      /\ AttemptsUnder(L, i, g) # {}
  BY <1>5, <1>6
<1>9. /\ Max(AttemptsUnder(L, i, g)) \in AttemptsUnder(L, i, g)
      /\ \A k \in AttemptsUnder(L, i, g) : k <= Max(AttemptsUnder(L, i, g))
  BY <1>8, GreatestOf
<1> QED
  BY <1>7, <1>8, <1>9

\* A lesson with the next number is the latest attempt under its intent and
\* gate, and changes no other count.
LEMMA AttemptsGrow ==
  ASSUME NEW L \in Seq(Lessons), NEW x \in Lessons,
         x.attempt = AttemptsOf(L, x.intent, x.gate) + 1,
         NEW i, NEW g
  PROVE  AttemptsOf(Append(L, x), i, g)
           = IF i = x.intent /\ g = x.gate THEN x.attempt ELSE AttemptsOf(L, i, g)
<1> DEFINE M == Append(L, x)
           S == AttemptsUnder(L, i, g)
           S2 == AttemptsUnder(M, i, g)
           a == AttemptsOf(L, i, g)
           b == AttemptsOf(M, i, g)
<1>1. /\ M \in Seq(Lessons) /\ DOMAIN M = 1..Len(L) + 1 /\ DOMAIN L = 1..Len(L)
      /\ Len(L) \in Nat
      /\ M[Len(L) + 1] = x
      /\ \A n \in 1..Len(L) : M[n] = L[n]
  OBVIOUS
<1>2. a \in S /\ a \in Nat /\ \A k \in S : k \in Nat /\ k <= a
  BY AttemptsCounted
<1> HIDE DEF M
<1>3. b \in S2 /\ b \in Nat /\ \A k \in S2 : k \in Nat /\ k <= b
  BY <1>1, AttemptsCounted
<1>4. S2 = IF i = x.intent /\ g = x.gate THEN S \cup {x.attempt} ELSE S
  <2> DEFINE D == {m \in DOMAIN L : L[m].intent = i /\ L[m].gate = g}
             D2 == {m \in DOMAIN M : M[m].intent = i /\ M[m].gate = g}
  <2>1. D2 = IF i = x.intent /\ g = x.gate THEN D \cup {Len(L) + 1} ELSE D
    BY <1>1
  <2>2. \A n \in D : M[n] = L[n]
    BY <1>1
  <2>3. S = {0} \cup {L[n].attempt : n \in D} /\ S2 = {0} \cup {M[n].attempt : n \in D2}
    BY DEF AttemptsUnder
  <2> HIDE DEF D, D2, S, S2
  <2>4. CASE i = x.intent /\ g = x.gate
    <3>1. D2 = D \cup {Len(L) + 1}
      BY <2>1, <2>4
    <3>2. {M[n].attempt : n \in D2} = {L[n].attempt : n \in D} \cup {x.attempt}
      BY <1>1, <2>2, <3>1
    <3> QED
      BY <2>3, <2>4, <3>2
  <2>5. CASE ~(i = x.intent /\ g = x.gate)
    <3>1. D2 = D
      BY <2>1, <2>5
    <3>2. {M[n].attempt : n \in D2} = {L[n].attempt : n \in D}
      BY <2>2, <3>1
    <3> QED
      BY <2>3, <2>5, <3>2
  <2> QED
    BY <2>4, <2>5
<1>5. i = x.intent /\ g = x.gate => x.attempt = a + 1
  OBVIOUS
<1> HIDE DEF S, S2, a, b
<1>6. b = IF i = x.intent /\ g = x.gate THEN x.attempt ELSE a
  <2>1. CASE i = x.intent /\ g = x.gate
    BY <1>2, <1>3, <1>4, <1>5, <2>1
  <2>2. CASE ~(i = x.intent /\ g = x.gate)
    BY <1>2, <1>3, <1>4, <2>2
  <2> QED
    BY <2>1, <2>2
<1> QED
  BY <1>6 DEF a, b, M

LEMMA SummaryGrows ==
  ASSUME NEW L \in Seq(Lessons), NEW x \in Lessons
  PROVE  /\ Summary(L) \in [Outcomes -> Nat]
         /\ Summary(Append(L, x)) = [Summary(L) EXCEPT ![x.outcome] = @ + 1]
<1> DEFINE M == Append(L, x)
           D(o) == {i \in DOMAIN L : L[i].outcome = o}
           D2(o) == {i \in DOMAIN M : M[i].outcome = o}
<1>1. /\ DOMAIN M = 1..Len(L) + 1 /\ DOMAIN L = 1..Len(L) /\ Len(L) \in Nat
      /\ M[Len(L) + 1] = x
      /\ \A n \in 1..Len(L) : M[n] = L[n]
  OBVIOUS
<1>2. ASSUME NEW o PROVE IsFiniteSet(D(o)) /\ Len(L) + 1 \notin D(o)
  <2>1. IsFiniteSet(1..Len(L))
    BY FS_Interval
  <2>2. D(o) \in SUBSET (1..Len(L))
    BY <1>1
  <2> QED
    BY <1>1, <2>1, <2>2, FS_Subset
<1> HIDE DEF M
<1>3. ASSUME NEW o PROVE D2(o) = IF o = x.outcome THEN D(o) \cup {Len(L) + 1} ELSE D(o)
  BY <1>1
<1> HIDE DEF D, D2
<1>4. ASSUME NEW o
      PROVE  /\ Cardinality(D(o)) \in Nat
             /\ Cardinality(D2(o)) = IF o = x.outcome THEN Cardinality(D(o)) + 1
                                     ELSE Cardinality(D(o))
  BY <1>2, <1>3, FS_CardinalityType, FS_AddElement
<1>5. Summary(L) = [o \in Outcomes |-> Cardinality(D(o))]
  BY DEF Summary, D
<1>6. Summary(M) = [o \in Outcomes |-> Cardinality(D2(o))]
  BY DEF Summary, D2
<1>7. x.outcome \in Outcomes
  BY DEF Lessons
<1>8. [Summary(L) EXCEPT ![x.outcome] = @ + 1]
        = [o \in Outcomes |-> IF o = x.outcome THEN Cardinality(D(o)) + 1
                              ELSE Cardinality(D(o))]
  BY <1>4, <1>5, <1>7
<1> QED
  BY <1>4, <1>5, <1>6, <1>8 DEF M
\* One cell of a table is replaced.
LEMMA OneCell ==
  ASSUME NEW A, NEW B, NEW a, a = [i \in A |-> [k \in B |-> a[i][k]]],
         NEW j \in A, NEW l \in B, NEW v
  PROVE  [a EXCEPT ![j][l] = v]
           = [i \in A |-> [k \in B |-> IF i = j /\ k = l THEN v ELSE a[i][k]]]
OBVIOUS

\* A lesson is learned as the ledger with that lesson would teach it.
LEMMA LearnedIsRecalled ==
  ASSUME NEW f, NEW g, NEW x \in Lessons,
         f.lines \in Seq(Lessons), Readable(f), Readable(g),
         g.lines = Append(f.lines, x),
         x.attempt = AttemptsOf(f.lines, x.intent, x.gate) + 1
  PROVE  Recall(g) = Learn(Recall(f), x)
<1> DEFINE L == f.lines
           M == Append(L, x)
           m == Recall(f)
<1>1. ReadRecords(f) = L /\ ReadRecords(g) = M
  BY DEF ReadRecords
<1>2. m = [records |-> EffectiveRecords(L),
           nodes |-> RememberNodes(EffectiveRecords(L)),
           attempts |-> [i \in Intents |-> [k \in Gates |-> AttemptsOf(L, i, k)]],
           summary |-> Summary(L)]
  BY <1>1 DEF Recall
<1>3. Recall(g) = [records |-> EffectiveRecords(M),
           nodes |-> RememberNodes(EffectiveRecords(M)),
           attempts |-> [i \in Intents |-> [k \in Gates |-> AttemptsOf(M, i, k)]],
           summary |-> Summary(M)]
  BY <1>1 DEF Recall
<1>4. L \in Seq(Lessons) /\ M \in Seq(Lessons)
  OBVIOUS
<1> HIDE DEF m, L
<1>5. EffectiveRecords(L) \in Seq(Lessons) /\ EffectiveRecords(M) \in Seq(Lessons)
  <2> HIDE DEF M
  <2> QED
    BY <1>4, MemoryExists
<1>6. EffectiveRecords(Append(m.records, x)) = EffectiveRecords(M)
  <2>1. m.records = EffectiveRecords(L)
    BY <1>2
  <2>2. EffectiveRecords(Append(m.records, x)) = RememberNode(EffectiveRecords(m.records), x)
    BY <1>5, <2>1, ReplayStep
  <2>3. EffectiveRecords(m.records) = EffectiveRecords(L)
    BY <1>4, <2>1, EffectiveTwice
  <2>4. EffectiveRecords(M) = RememberNode(EffectiveRecords(L), x)
    BY <1>4, ReplayStep
  <2> QED
    BY <2>2, <2>3, <2>4
<1>7. RememberNode(m.nodes, x) = RememberNodes(EffectiveRecords(M))
  <2>1. m.nodes = RememberNodes(EffectiveRecords(L))
    BY <1>2
  <2>2. m.nodes = EffectiveRecords(L)
    BY <1>4, <1>5, <2>1, NodesAreEffective, EffectiveTwice
  <2>3. EffectiveRecords(M) = RememberNode(EffectiveRecords(L), x)
    BY <1>4, ReplayStep
  <2> HIDE DEF M
  <2>4. RememberNodes(EffectiveRecords(M)) = EffectiveRecords(M)
    BY <1>4, <1>5, NodesAreEffective, EffectiveTwice
  <2> QED
    BY <2>2, <2>3, <2>4
<1>8. [m.attempts EXCEPT ![x.intent][x.gate] = x.attempt]
        = [i \in Intents |-> [k \in Gates |-> AttemptsOf(M, i, k)]]
  <2>1. m.attempts = [i \in Intents |-> [k \in Gates |-> AttemptsOf(L, i, k)]]
    BY <1>2
  <2>2. x.intent \in Intents /\ x.gate \in Gates
    BY DEF Lessons
  <2>3. ASSUME NEW i \in Intents, NEW k \in Gates
        PROVE  AttemptsOf(M, i, k) = IF i = x.intent /\ k = x.gate THEN x.attempt
                                     ELSE AttemptsOf(L, i, k)
    BY <1>4, AttemptsGrow DEF L
  <2> HIDE DEF M
  <2>4. [m.attempts EXCEPT ![x.intent][x.gate] = x.attempt]
          = [i \in Intents |-> [k \in Gates |->
               IF i = x.intent /\ k = x.gate THEN x.attempt ELSE AttemptsOf(L, i, k)]]
    <3> DEFINE a == [i \in Intents |-> [k \in Gates |-> AttemptsOf(L, i, k)]]
    <3>1. a = [i \in Intents |-> [k \in Gates |-> a[i][k]]]
      OBVIOUS
    <3>2. \A i \in Intents, k \in Gates : a[i][k] = AttemptsOf(L, i, k)
      OBVIOUS
    <3>3. m.attempts = a
      BY <2>1
    <3> HIDE DEF a
    <3>4. [a EXCEPT ![x.intent][x.gate] = x.attempt]
            = [i \in Intents |-> [k \in Gates |->
                 IF i = x.intent /\ k = x.gate THEN x.attempt ELSE a[i][k]]]
      BY <2>2, <3>1, OneCell
    <3> QED
      BY <3>2, <3>3, <3>4
  <2> QED
    BY <2>3, <2>4
<1>9. [m.summary EXCEPT ![x.outcome] = @ + 1] = Summary(M)
  <2>1. m.summary = Summary(L)
    BY <1>2
  <2> QED
    BY <1>4, <2>1, SummaryGrows
<1>10. Learn(m, x)
         = [records |-> EffectiveRecords(Append(m.records, x)),
            nodes |-> RememberNode(m.nodes, x),
            attempts |-> [m.attempts EXCEPT ![x.intent][x.gate] = x.attempt],
            summary |-> [m.summary EXCEPT ![x.outcome] = @ + 1]]
  BY Zenon DEF Learn
<1> HIDE DEF M
<1> QED
  BY <1>3, <1>6, <1>7, <1>8, <1>9, <1>10 DEF m

\* The types of lessons and memory.
MemoryTyped(m) ==
  /\ m.records \in Seq(Lessons)
  /\ m.nodes \in Seq(Lessons)
  /\ m.attempts \in [Intents -> [Gates -> Nat]]
  /\ m.summary \in [Outcomes -> Nat]

LEMMA RecallMemoryTyped ==
  ASSUME NEW f, f.lines \in Seq(Lessons \cup {Garbled})
  PROVE  MemoryTyped(Recall(f)) /\ (Readable(f) => f.lines \in Seq(Lessons))
<1> DEFINE L == ReadRecords(f)
<1>1. L \in Seq(Lessons) /\ (Readable(f) => f.lines \in Seq(Lessons))
  <2>1. CASE Readable(f)
    <3>1. \A i \in 1..Len(f.lines) : f.lines[i] \in Lessons
      BY <2>1 DEF Readable
    <3>2. f.lines \in [1..Len(f.lines) -> Lessons] /\ Len(f.lines) \in Nat
      BY <3>1
    <3>3. f.lines \in Seq(Lessons)
      BY <3>2
    <3> QED
      BY <2>1, <3>3 DEF ReadRecords
  <2>2. CASE ~Readable(f)
    BY <2>2 DEF ReadRecords
  <2> QED
    BY <2>1, <2>2
<1> HIDE DEF L
<1>2. EffectiveRecords(L) \in Seq(Lessons)
  BY <1>1, MemoryExists
<1>3. RememberNodes(EffectiveRecords(L)) \in Seq(Lessons)
  BY <1>1, <1>2, NodesAreEffective, EffectiveTwice
<1>4. \A i, k : AttemptsOf(L, i, k) \in Nat
  BY <1>1, AttemptsCounted
<1>5. Summary(L) \in [Outcomes -> Nat]
  <2>1. L \in [1..Len(L) -> Range(L)] /\ Len(L) \in Nat
    BY <1>1 DEF Range
  <2>2. L \in Seq(Range(L))
    BY <2>1
  <2> QED
    BY <2>2, SummaryTyped
<1>6. Recall(f) = [records |-> EffectiveRecords(L),
           nodes |-> RememberNodes(EffectiveRecords(L)),
           attempts |-> [i \in Intents |-> [k \in Gates |-> AttemptsOf(L, i, k)]],
           summary |-> Summary(L)]
  BY DEF Recall, L
<1> QED
  BY <1>1, <1>2, <1>3, <1>4, <1>5, <1>6 DEF MemoryTyped
\* What is learned next: its types and its number.
LEMMA CorrectionTyped ==
  ASSUME NEW records \in Seq(Lessons), NEW intent, NEW gate
  PROVE  CorrectedFailure(records, intent, gate) \in SUBSET Reasons
<1> DEFINE failures == {i \in DOMAIN records : /\ records[i].intent = intent
                                               /\ records[i].gate = gate
                                               /\ records[i].outcome = "failed"}
<1>1. failures \in SUBSET (1..Len(records)) /\ failures \in SUBSET Nat
  OBVIOUS
<1>2. IsFiniteSet(failures)
  <2>1. IsFiniteSet(1..Len(records))
    BY FS_Interval
  <2> HIDE DEF failures
  <2> QED
    BY <1>1, <2>1, FS_Subset
<1>3. CorrectedFailure(records, intent, gate)
        = IF failures = {} THEN {} ELSE records[Max(failures)].failure
  BY DEF CorrectedFailure
<1> HIDE DEF failures
<1>4. ASSUME failures # {} PROVE records[Max(failures)] \in Lessons
  <2>1. Max(failures) \in failures
    BY <1>1, <1>2, <1>4, GreatestOf
  <2>2. Max(failures) \in 1..Len(records)
    BY <1>1, <2>1
  <2> QED
    BY <2>2
<1>5. \A r \in Lessons : r.failure \in SUBSET Reasons
  BY DEF Lessons
<1> QED
  BY <1>3, <1>4, <1>5

LEMMA LessonTyped ==
  ASSUME NEW r \in Runtimes, NEW m, MemoryTyped(m),
         NEW intent \in Intents, NEW about \in Intents
  PROVE  /\ LessonOf(r, m, intent, about) \in Lessons
         /\ LessonOf(r, m, intent, about).intent = intent
         /\ LessonOf(r, m, intent, about).attempt
              = m.attempts[intent][LessonOf(r, m, intent, about).gate] + 1
<1> DEFINE gate == IF r.call # NoCall \/ r.blockers \cap (Reasons \ {"store"}) # {}
                     THEN "native-provider-execution" ELSE "native-proof-route"
           fix == CorrectedFailure(m.records, intent, gate)
<1>1. gate \in Gates /\ r.blockers \in SUBSET Reasons
  BY DEF Gates, Runtimes
<1>2. LessonOf(r, m, intent, about)
        = [intent |-> intent, gate |-> gate,
           outcome |-> IF r.status = "proven" THEN "succeeded" ELSE "failed",
           attempt |-> m.attempts[intent][gate] + 1,
           failure |-> IF r.status = "proven" THEN {} ELSE r.blockers,
           correction |-> IF r.status = "proven" THEN fix ELSE {},
           about |-> about]
  BY DEF LessonOf
<1> HIDE DEF gate
<1>3. fix \in SUBSET Reasons
  BY CorrectionTyped DEF MemoryTyped
<1>4. m.attempts[intent][gate] + 1 \in Nat \ {0}
  <2>1. m.attempts[intent][gate] \in Nat
    BY <1>1 DEF MemoryTyped
  <2> QED
    BY <2>1
<1> HIDE DEF fix
<1> QED
  BY <1>1, <1>2, <1>3, <1>4 DEF Lessons, Outcomes

LEMMA FastLessonTyped ==
  ASSUME NEW m, MemoryTyped(m), NEW intent \in Intents, NEW about \in Intents,
         NEW compiled \in BOOLEAN
  PROVE  /\ FastLesson(m, intent, compiled, about) \in Lessons
         /\ FastLesson(m, intent, compiled, about).intent = intent
         /\ FastLesson(m, intent, compiled, about).attempt
              = m.attempts[intent][FastLesson(m, intent, compiled, about).gate] + 1
<1> DEFINE gate == "native-fast-build"
           fix == CorrectedFailure(m.records, intent, gate)
<1>1. gate \in Gates
  BY DEF Gates
<1>2. FastLesson(m, intent, compiled, about)
        = [intent |-> intent, gate |-> gate,
           outcome |-> IF compiled THEN "succeeded" ELSE "failed",
           attempt |-> m.attempts[intent][gate] + 1,
           failure |-> IF compiled THEN {} ELSE {"typecheck"},
           correction |-> IF compiled THEN fix ELSE {},
           about |-> about]
  BY DEF FastLesson
<1> HIDE DEF gate
<1>3. fix \in SUBSET Reasons
  BY CorrectionTyped DEF MemoryTyped
<1>4. m.attempts[intent][gate] + 1 \in Nat \ {0}
  <2>1. m.attempts[intent][gate] \in Nat
    BY <1>1 DEF MemoryTyped
  <2> QED
    BY <2>1
<1> HIDE DEF fix
<1> QED
  BY <1>1, <1>2, <1>3, <1>4 DEF Lessons, Outcomes, Reasons

(***************************************************************************)
(* The books and the replay.                                               *)
(***************************************************************************)
\* c is what an append of the lesson that ends so makes of b.
Appended(b, lesson, end, c) ==
  /\ c.disk.learning = AppendLine(b.disk.learning, lesson, end)
  /\ c.mem = IF end = "written" THEN Learn(b.mem, lesson) ELSE b.mem
  /\ c.clean = IF end = "written" THEN b.clean ELSE FALSE

LEMMA AppendLessonEffect ==
  ASSUME NEW b, BooksTyped(b), NEW lesson, NEW end
  PROVE  Appended(b, lesson, end, AppendLesson(b, lesson, end))
<1> DEFINE d == [proofs |-> b.disk.proofs,
                 learning |-> AppendLine(b.disk.learning, lesson, end)]
           w == [rt |-> b.rt, mem |-> b.mem, disk |-> d, clean |-> b.clean]
<1>1. [b EXCEPT !.disk.learning = AppendLine(@, lesson, end)] = w
  BY DEF BooksTyped, DiskTyped
<1>2. AppendLesson(b, lesson, end) =
        IF end = "written" THEN [w EXCEPT !.mem = Learn(@, lesson), !.rt = RouteLesson(@)]
                           ELSE [w EXCEPT !.clean = FALSE]
  BY <1>1 DEF AppendLesson
<1>3. d.learning = AppendLine(b.disk.learning, lesson, end)
  OBVIOUS
<1> HIDE DEF d
<1>4. ASSUME NEW u, u = [w EXCEPT !.mem = Learn(@, lesson), !.rt = RouteLesson(@)]
      PROVE  u.disk = d /\ u.mem = Learn(b.mem, lesson) /\ u.clean = b.clean
  BY <1>4
<1>5. /\ [w EXCEPT !.clean = FALSE].disk = d
      /\ [w EXCEPT !.clean = FALSE].mem = b.mem
      /\ [w EXCEPT !.clean = FALSE].clean = FALSE
  OBVIOUS
<1> HIDE DEF w
<1> QED
  BY <1>2, <1>3, <1>4, <1>5 DEF Appended

LEMMA AppendProofEffect ==
  ASSUME NEW b, BooksTyped(b), NEW end
  PROVE  /\ AppendProof(b, end).disk.learning = b.disk.learning
         /\ AppendProof(b, end).mem = b.mem
         /\ AppendProof(b, end).clean = b.clean
<1> DEFINE d == [proofs |-> b.disk.proofs /\ end # "torn",
                 learning |-> b.disk.learning]
           w == [rt |-> b.rt, mem |-> b.mem, disk |-> d, clean |-> b.clean]
<1>1. [b EXCEPT !.disk.proofs = @ /\ end # "torn"] = w
  BY DEF BooksTyped, DiskTyped
<1>2. AppendProof(b, end) = IF end = "written" THEN w
                            ELSE [w EXCEPT !.rt = BlockRuntime(@, "store")]
  BY <1>1 DEF AppendProof
<1>3. d.learning = b.disk.learning
  OBVIOUS
<1> HIDE DEF d
<1>4. /\ w.disk = d /\ w.mem = b.mem /\ w.clean = b.clean
      /\ [w EXCEPT !.rt = BlockRuntime(@, "store")].disk = d
      /\ [w EXCEPT !.rt = BlockRuntime(@, "store")].mem = b.mem
      /\ [w EXCEPT !.rt = BlockRuntime(@, "store")].clean = b.clean
  OBVIOUS
<1> HIDE DEF w
<1> QED
  BY <1>2, <1>3, <1>4

\* As long as every append was confirmed, the memory is what the ledger
\* teaches; and every line is a lesson or garbled.
Replayed(b) ==
  /\ b.disk.learning.lines \in Seq(Lessons \cup {Garbled})
  /\ MemoryTyped(b.mem)
  /\ b.clean /\ Readable(b.disk.learning) => b.mem = Recall(b.disk.learning)

\* A confirmed append to a file that reads afterwards was one to a file that
\* read before.
LEMMA LineAppended ==
  ASSUME NEW f, f.lines \in Seq(Lessons \cup {Garbled}), f.torn \in BOOLEAN,
         NEW x \in Lessons, NEW end, FileTyped(f)
  PROVE  /\ AppendLine(f, x, end).lines \in Seq(Lessons \cup {Garbled})
         /\ end = "written" /\ Readable(AppendLine(f, x, end))
              => Readable(f) /\ AppendLine(f, x, end).lines = Append(f.lines, x)
<1> DEFINE g == AppendLine(f, x, end)
           line == IF f.torn THEN Garbled ELSE x
           grown == Append(f.lines, line)
<1>1. grown \in Seq(Lessons \cup {Garbled})
  OBVIOUS
<1>2. CASE end \in {"refused", "torn"}
  <2>1. g.lines = f.lines
    <3>1. CASE end = "refused"
      BY <3>1 DEF AppendLine
    <3>2. CASE end = "torn"
      <4>1. g = [f EXCEPT !.torn = TRUE]
        BY <3>2 DEF AppendLine
      <4>2. f = [lines |-> f.lines, torn |-> f.torn]
        BY DEF FileTyped
      <4> HIDE DEF g
      <4> QED
        BY <4>1, <4>2
    <3> QED
      BY <1>2, <3>1, <3>2
  <2>2. end # "written"
    BY <1>2
  <2> HIDE DEF g
  <2>3. g.lines \in Seq(Lessons \cup {Garbled})
    BY <2>1
  <2> QED
    BY <2>2, <2>3 DEF g
<1>3. CASE end \notin {"refused", "torn"}
  <2>1. g = [lines |-> grown, torn |-> FALSE]
    BY <1>3 DEF AppendLine
  <2>2. /\ Len(f.lines) \in Nat /\ DOMAIN f.lines = 1..Len(f.lines)
        /\ DOMAIN grown = 1..Len(f.lines) + 1 /\ grown[Len(f.lines) + 1] = line
        /\ \A i \in 1..Len(f.lines) : grown[i] = f.lines[i]
    OBVIOUS
  <2> HIDE DEF grown, g
  <2>3. g.lines = grown
    BY <2>1
  <2>4. ASSUME Readable(g) PROVE Readable(f) /\ line = x
    <3>1. \A i \in 1..Len(f.lines) + 1 : grown[i] # Garbled
      BY <2>2, <2>3, <2>4 DEF Readable
    <3>2. line # Garbled
      BY <2>2, <3>1
    <3>3. ~f.torn /\ line = x
      BY <3>2
    <3>4. \A i \in DOMAIN f.lines : f.lines[i] # Garbled
      BY <2>2, <3>1
    <3> QED
      BY <3>3, <3>4 DEF Readable
  <2> QED
    BY <1>1, <2>3, <2>4 DEF grown, g
<1> QED
  BY <1>2, <1>3

LEMMA LessonReplayed ==
  ASSUME NEW b, BooksTyped(b), Replayed(b), NEW x \in Lessons,
         x.attempt = b.mem.attempts[x.intent][x.gate] + 1, NEW end
  PROVE  Replayed(AppendLesson(b, x, end))
<1> DEFINE c == AppendLesson(b, x, end)
           f == b.disk.learning
           g == AppendLine(f, x, end)
<1>1. /\ c.disk.learning = g
      /\ c.mem = IF end = "written" THEN Learn(b.mem, x) ELSE b.mem
      /\ c.clean = IF end = "written" THEN b.clean ELSE FALSE
  <2>1. Appended(b, x, end, AppendLesson(b, x, end))
    BY AppendLessonEffect
  <2> QED
    BY <2>1, Zenon DEF Appended
<1>2. f.lines \in Seq(Lessons \cup {Garbled}) /\ f.torn \in BOOLEAN /\ FileTyped(f)
  BY DEF Replayed, BooksTyped, DiskTyped, FileTyped
<1>3. /\ g.lines \in Seq(Lessons \cup {Garbled})
      /\ end = "written" /\ Readable(g) => Readable(f) /\ g.lines = Append(f.lines, x)
  BY <1>2, LineAppended
<1>4. MemoryTyped(b.mem) /\ (b.clean /\ Readable(f) => b.mem = Recall(f))
  BY DEF Replayed
<1> HIDE DEF c, f, g
<1>5. MemoryTyped(Learn(b.mem, x))
  <2> DEFINE m == b.mem
             longer == Append(m.records, x)
             records == EffectiveRecords(longer)
             known == {i \in DOMAIN m.nodes : MemoryKey(m.nodes[i]) = MemoryKey(x)}
  <2>1. longer \in Seq(Lessons)
    BY <1>4 DEF MemoryTyped
  <2> HIDE DEF longer
  <2>2. records \in Seq(Lessons)
    BY <2>1, MemoryExists
  <2>3. RememberNode(m.nodes, x) \in Seq(Lessons)
    <3>1. Others(m.nodes, x) \in Seq(Lessons)
      <4>1. CASE known = {}
        BY <1>4, <4>1 DEF Others, MemoryTyped
      <4>2. CASE known # {}
        <5> DEFINE k == Min(known)
        <5>1. known \in SUBSET Nat /\ m.nodes \in Seq(Lessons)
          BY <1>4 DEF MemoryTyped
        <5>2. k \in known
          <6> HIDE DEF known
          <6> QED
            BY <4>2, <5>1, LeastOf
        <5> HIDE DEF k
        <5>3. k \in 1..Len(m.nodes) /\ Len(m.nodes) \in Nat
          BY <5>1, <5>2
        <5>4. SubSeq(m.nodes, 1, k - 1) \in Seq(Lessons)
          BY <5>1, <5>3
        <5>5. SubSeq(m.nodes, k + 1, Len(m.nodes)) \in Seq(Lessons)
          <6>1. /\ k + 1 \in Int /\ Len(m.nodes) \in Int
                /\ \A i \in k + 1..Len(m.nodes) : m.nodes[i] \in Lessons
            BY <5>1, <5>3
          <6> QED
            BY <6>1, SubSeqProperties
        <5>6. Others(m.nodes, x)
                = SubSeq(m.nodes, 1, k - 1) \o SubSeq(m.nodes, k + 1, Len(m.nodes))
          BY <4>2 DEF Others, RemoveAt, k
        <5> QED
          BY <5>4, <5>5, <5>6
      <4> QED
        BY <4>1, <4>2
    <3> DEFINE grown == Append(Others(m.nodes, x), x)
    <3>2. RememberNode(m.nodes, x) = IF Len(grown) > MemoryLimit THEN Tail(grown) ELSE grown
      BY DEF RememberNode, Others
    <3>3. grown \in Seq(Lessons) /\ grown # <<>>
      BY <3>1
    <3> HIDE DEF grown
    <3>4. Tail(grown) \in Seq(Lessons)
      BY <3>3
    <3> QED
      BY <3>2, <3>3, <3>4
  <2>4. /\ x.intent \in Intents /\ x.gate \in Gates /\ x.outcome \in Outcomes
        /\ x.attempt \in Nat
    BY DEF Lessons
  <2>5. [m.attempts EXCEPT ![x.intent][x.gate] = x.attempt] \in [Intents -> [Gates -> Nat]]
    BY <1>4, <2>4 DEF MemoryTyped
  <2>6. [m.summary EXCEPT ![x.outcome] = @ + 1] \in [Outcomes -> Nat]
    BY <1>4, <2>4 DEF MemoryTyped
  <2>7. Learn(m, x)
         = [records |-> records,
            nodes |-> RememberNode(m.nodes, x),
            attempts |-> [m.attempts EXCEPT ![x.intent][x.gate] = x.attempt],
            summary |-> [m.summary EXCEPT ![x.outcome] = @ + 1]]
    BY Zenon DEF Learn, longer
  <2> HIDE DEF m, records
  <2> QED
    BY <2>2, <2>3, <2>5, <2>6, <2>7 DEF MemoryTyped, m
<1>6. ASSUME c.clean, Readable(g) PROVE c.mem = Recall(g)
  <2>1. end = "written" /\ b.clean /\ c.mem = Learn(b.mem, x)
    BY <1>1, <1>6
  <2>2. Readable(f) /\ g.lines = Append(f.lines, x) /\ b.mem = Recall(f)
    BY <1>3, <1>4, <1>6, <2>1
  <2>3. f.lines \in Seq(Lessons)
    BY <1>2, <2>2, RecallMemoryTyped
  <2>4. x.attempt = AttemptsOf(f.lines, x.intent, x.gate) + 1
    <3>1. ReadRecords(f) = f.lines
      BY <2>2 DEF ReadRecords
    <3>2. b.mem.attempts = [i \in Intents |-> [k \in Gates |-> AttemptsOf(f.lines, i, k)]]
      BY <2>2, <3>1 DEF Recall
    <3>3. x.intent \in Intents /\ x.gate \in Gates
      BY DEF Lessons
    <3> QED
      BY <3>2, <3>3
  <2>5. Recall(g) = Learn(Recall(f), x)
    BY <1>6, <2>2, <2>3, <2>4, LearnedIsRecalled
  <2> QED
    BY <2>1, <2>2, <2>5
<1>7. MemoryTyped(c.mem)
  BY <1>1, <1>4, <1>5
<1> QED
  BY <1>1, <1>3, <1>6, <1>7 DEF Replayed, c

LEMMA RecordReplayed ==
  ASSUME NEW b, BooksTyped(b), Replayed(b), NEW learn, NEW intent, NEW about, NEW ends,
         learn => intent \in Intents /\ about \in Intents
  PROVE  Replayed(AppendProofRecord(b, learn, intent, about, ends))
<1> DEFINE proved == AppendProof(b, ends.proof)
           lesson == LessonOf(proved.rt, proved.mem, intent, about)
           taught == AppendLesson(proved, lesson, ends.lesson)
           result == AppendProofRecord(b, learn, intent, about, ends)
<1>1. BooksTyped(proved)
  BY AppendProofTyped
<1>2. /\ proved.disk.learning = b.disk.learning
      /\ proved.mem = b.mem /\ proved.clean = b.clean
  BY AppendProofEffect
<1> HIDE DEF proved
<1>3. Replayed(proved)
  BY <1>2 DEF Replayed
<1>4. result =
        IF ends.proof # "written" \/ ~learn \/ proved.rt.status \notin {"proven", "blocked"}
          THEN proved
        ELSE IF ends.lesson = "written" THEN taught
             ELSE [taught EXCEPT !.rt = BlockRuntime(@, "store")]
  BY DEF AppendProofRecord, proved, lesson
<1> HIDE DEF taught, result
<1>5. CASE result = proved
  BY <1>3, <1>5 DEF result
<1>6. CASE learn /\ result # proved
  <2>1. /\ lesson \in Lessons /\ lesson.intent = intent
        /\ lesson.attempt = proved.mem.attempts[intent][lesson.gate] + 1
    BY <1>1, <1>3, <1>6, LessonTyped DEF BooksTyped, Replayed
  <2> HIDE DEF lesson
  <2>2. Replayed(taught)
    BY <1>1, <1>3, <2>1, LessonReplayed DEF taught
  <2>3. BooksTyped(taught)
    <3>1. lesson.outcome \in Outcomes
      BY <2>1 DEF Lessons
    <3> QED
      BY <1>1, <3>1, AppendLessonTyped DEF taught
  <2> DEFINE blocked == [taught EXCEPT !.rt = BlockRuntime(@, "store")]
  <2>4. blocked.disk = taught.disk /\ blocked.mem = taught.mem /\ blocked.clean = taught.clean
    BY <2>3 DEF BooksTyped
  <2>5. Replayed(blocked)
    <3> HIDE DEF blocked
    <3> QED
      BY <2>2, <2>4 DEF Replayed
  <2>6. result = taught \/ result = blocked
    BY <1>4, <1>6
  <2> HIDE DEF blocked
  <2> QED
    BY <2>2, <2>5, <2>6 DEF result
<1> QED
  BY <1>4, <1>5, <1>6

\* What a lesson is filed under is known while a run is prepared or under way,
\* and nothing is under way while the process is down.
FiledUnderIntent ==
  IF up
    THEN rt.call # NoCall \/ rx["provider"] # NoWorker \/ rx["fast"] # NoWorker
           => lastIntent \in Intents
    ELSE rx["provider"] = NoWorker /\ rx["fast"] = NoWorker

MemoryInv == Replayed(Books) /\ FiledUnderIntent

LEMMA RtOnly ==
  ASSUME BooksTyped(Books), Replayed(Books), NEW r \in Runtimes
  PROVE  BooksTyped([Books EXCEPT !.rt = r]) /\ Replayed([Books EXCEPT !.rt = r])
<1>1. [Books EXCEPT !.rt = r] = [rt |-> r, mem |-> mem, disk |-> disk, clean |-> clean]
  BY DEF Books
<1>2. BooksTyped([Books EXCEPT !.rt = r])
  BY BooksOf
<1> QED
  BY <1>1, <1>2 DEF Replayed, Books

LEMMA KeepReplayed ==
  ASSUME NEW b, Replayed(b), Keep(b)
  PROVE  Replayed(Books)'
<1>1. mem' = b.mem /\ disk' = b.disk /\ clean' = b.clean
  BY DEF Keep
<1>2. Readable(disk'.learning) <=> Readable(b.disk.learning)
  BY <1>1
<1>3. Recall(disk'.learning) = Recall(b.disk.learning)
  BY <1>1
<1> QED
  BY <1>1, <1>2, <1>3 DEF Replayed, Books, MemoryTyped

\* The books as they were.
LEMMA SameReplayed ==
  ASSUME Replayed(Books), UNCHANGED <<mem, disk, clean>>
  PROVE  Replayed(Books)'
BY DEF Replayed, Books, MemoryTyped

LEMMA RunRemembers ==
  ASSUME Parts, MemoryInv, NEW i \in Intents, Run(i)
  PROVE  MemoryInv'
<1> DEFINE n == mem.summary["failed"] + mem.summary["succeeded"]
           r == RunCoderIntent(rt, i, n)
           b == [Books EXCEPT !.rt = r]
<1>1. PICK ends \in Ends :
        Keep(AppendProofRecord(
              [Books EXCEPT !.rt = RunCoderIntent(@, i, mem.summary["failed"]
                                                         + mem.summary["succeeded"])],
              TRUE, i, i, ends))
  BY DEF Run
<1>2. /\ rt \in Runtimes /\ rt.provider \in Providers /\ n \in Nat /\ lastIntent' = i
      /\ up /\ up' = up
  BY DEF Run, Parts, BooksTyped, Books, MemTyped, Outcomes, Runtimes
<1> HIDE DEF n
<1>3. r \in Runtimes
  BY <1>2, RunSound
<1>4. [Books EXCEPT !.rt = RunCoderIntent(@, i, n)] = b
  BY DEF Books
<1> HIDE DEF r
<1>5. BooksTyped(b) /\ Replayed(b)
  BY <1>3, RtOnly DEF Parts, MemoryInv
<1> HIDE DEF b
<1>6. Replayed(AppendProofRecord(b, TRUE, i, i, ends))
  BY <1>5, RecordReplayed
<1>7. Keep(AppendProofRecord(b, TRUE, i, i, ends))
  BY <1>1, <1>4 DEF n
<1>8. Replayed(Books)'
  BY <1>6, <1>7, KeepReplayed
<1> QED
  BY <1>2, <1>8 DEF MemoryInv, FiledUnderIntent

\* Neither a block, drift nor a report changes the call that was prepared.
LEMMA CallKept ==
  ASSUME NEW r \in Runtimes
  PROVE  /\ \A reason : BlockRuntime(r, reason).call = r.call
         /\ FlagDrift(r).call = r.call
         /\ \A task, intact : MarkReport(r, task, intact).call = r.call
         /\ \A s : Stored(r, s) => s.call = r.call
<1>1. \A reason : BlockRuntime(r, reason).call = r.call
  BY DEF BlockRuntime, Runtimes
<1>4. /\ RouteLesson(r).call = r.call
      /\ BlockRuntime(RouteLesson(r), "store").call = r.call
  BY DEF RouteLesson, BlockRuntime, Runtimes
<1>2. FlagDrift(r).call = r.call
  BY DEF FlagDrift, Runtimes
<1>3. ASSUME NEW task, NEW intact PROVE MarkReport(r, task, intact).call = r.call
  <2>1. [r EXCEPT !.status = "verification", !.output = task].call = r.call
    BY DEF Runtimes
  <2> QED
    BY <1>1, <2>1 DEF MarkReport
<1> QED
  BY <1>1, <1>2, <1>3, <1>4 DEF Stored

LEMMA CommandRemembers ==
  ASSUME Parts, MemoryInv,
         \/ ExecProvider \/ ExecVibeStep \/ MarkDrift
         \/ \E p \in Providers : Apply(p)
  PROVE  MemoryInv'
<1>1. /\ rt \in Runtimes /\ up /\ UNCHANGED <<up, mem, lastIntent, disk, clean>>
      /\ WorkTyped
  BY DEF Parts, BooksTyped, Books, ExecProvider, ExecVibeStep, MarkDrift, Apply
<1>2. Replayed(Books)'
  BY <1>1, SameReplayed DEF MemoryInv
<1>3. CASE ExecProvider
  <2>1. CASE MaySchedule(rt)
    <3>1. lastIntent \in Intents
      BY <1>1, <2>1 DEF MaySchedule, MemoryInv, FiledUnderIntent
    <3> QED
      BY <1>1, <1>2, <3>1 DEF MemoryInv, FiledUnderIntent
  <2>2. CASE ~MaySchedule(rt)
    <3>1. rt' = BlockRuntime(rt, "schedule") /\ UNCHANGED rx
      BY <1>3, <2>2 DEF ExecProvider, work
    <3>2. rt'.call = rt.call
      BY <1>1, <3>1, CallKept
    <3> QED
      BY <1>1, <1>2, <3>1, <3>2 DEF MemoryInv, FiledUnderIntent
  <2> QED
    BY <2>1, <2>2
<1>4. CASE ExecVibeStep
  <2>1. UNCHANGED rt /\ rx'["provider"] = rx["provider"] /\ rx'["fast"] = rx["fast"]
    BY <1>1, <1>4 DEF ExecVibeStep, Launch, work, WorkTyped, Kinds
  <2> QED
    BY <1>1, <1>2, <2>1 DEF MemoryInv, FiledUnderIntent
<1>5. CASE MarkDrift
  <2>1. rt' = FlagDrift(rt) /\ UNCHANGED rx
    BY <1>5 DEF MarkDrift, work
  <2>2. rt'.call = rt.call
    BY <1>1, <2>1, CallKept
  <2> QED
    BY <1>1, <1>2, <2>1, <2>2 DEF MemoryInv, FiledUnderIntent
<1>6. ASSUME NEW p \in Providers, Apply(p) PROVE MemoryInv'
  <2>1. rt' = ApplyProvider(rt, p) /\ Collect("provider")
    BY <1>6 DEF Apply
  <2>2. rt'.call = NoCall
    BY <2>1 DEF ApplyProvider
  <2>3. rx'["provider"] = NoWorker /\ rx'["fast"] = rx["fast"]
    BY <1>1, <2>1 DEF Collect, WorkTyped, Kinds
  <2> QED
    BY <1>1, <1>2, <2>2, <2>3 DEF MemoryInv, FiledUnderIntent
<1> QED
  BY <1>3, <1>4, <1>5, <1>6

LEMMA CaptureRemembers ==
  ASSUME Parts, MemoryInv, CaptureProof
  PROVE  MemoryInv'
<1>1. PICK ends \in Ends :
        Keep(AppendProofRecord(Books, FALSE, lastIntent, lastIntent, ends))
  BY DEF CaptureProof
<1> DEFINE c == AppendProofRecord(Books, FALSE, lastIntent, lastIntent, ends)
<1>2. BooksTyped(Books) /\ Replayed(Books) /\ rt \in Runtimes /\ Books.rt = rt
  BY DEF Parts, MemoryInv, BooksTyped, Books
<1>3. Replayed(c)
  BY <1>2, RecordReplayed
<1>4. Stored(rt, c.rt)
  BY <1>2, AppendProofRecordTyped
<1>5. c.rt.call = rt.call
  BY <1>2, <1>4, CallKept
<1>6. Keep(c)
  BY <1>1
<1> HIDE DEF c
<1>7. Replayed(Books)'
  BY <1>3, <1>6, KeepReplayed
<1>8. rt'.call = rt.call /\ up /\ UNCHANGED <<up, lastIntent, rx>>
  BY <1>5, <1>6 DEF Keep, CaptureProof, work
<1> QED
  BY <1>7, <1>8 DEF MemoryInv, FiledUnderIntent

LEMMA PollRemembers ==
  ASSUME Parts, MemoryInv, NEW k \in Kinds, Poll(k)
  PROVE  MemoryInv'
<1>1. /\ rt \in Runtimes /\ BooksTyped(Books) /\ Replayed(Books) /\ WorkTyped
      /\ MemoryTyped(mem) /\ Books.mem = mem /\ Books.rt = rt
      /\ \/ k = "provider" /\ PollProvider
         \/ k = "fast" /\ PollFast
         \/ k = "vibe" /\ PollVibe
  BY DEF Parts, BooksTyped, Books, Poll, Kinds, MemoryInv, Replayed
<1>2. /\ up /\ rx[k] # NoWorker /\ rx[k] \in Calls /\ Collect(k)
      /\ UNCHANGED <<up, lastIntent>>
  BY <1>1 DEF PollProvider, PollFast, PollVibe, Polled, WorkTyped
<1>3. rx[k].intent \in Intents
  BY <1>2 DEF Calls
<1>4. \A j \in Kinds : rx'[j] = IF j = k THEN NoWorker ELSE rx[j]
  BY <1>1, <1>2 DEF Collect, WorkTyped
<1>5. ASSUME Replayed(Books)', rt'.call = rt.call PROVE MemoryInv'
  BY <1>2, <1>4, <1>5 DEF MemoryInv, FiledUnderIntent, Kinds
<1>6. CASE k = "provider" /\ PollProvider
  <2>1. lastIntent \in Intents
    BY <1>2, <1>6 DEF MemoryInv, FiledUnderIntent
  <2>2. PICK result \in {"report", "spoiled", "error"}, ends \in Ends :
          LET done == IF result = "error" THEN BlockRuntime(rt, "execution")
                      ELSE MarkReport(rt, rx["provider"], result = "report")
          IN  Keep(AppendProofRecord([Books EXCEPT !.rt = done], TRUE,
                                     lastIntent, rx["provider"].intent, ends))
    BY <1>6 DEF PollProvider
  <2> DEFINE done == IF result = "error" THEN BlockRuntime(rt, "execution")
                     ELSE MarkReport(rt, rx["provider"], result = "report")
             b == [Books EXCEPT !.rt = done]
             c == AppendProofRecord(b, TRUE, lastIntent, rx["provider"].intent, ends)
  <2>3. done \in Runtimes /\ done.call = rt.call
    <3>1. CASE result = "error"
      BY <1>1, <3>1, BlockTyped, CallKept DEF Reasons
    <3>2. CASE result # "error"
      <4>1. RuntimeSound(rt)
        BY DEF Parts
      <4> QED
        <5>1. rx["provider"] \in Calls /\ (result = "report") \in BOOLEAN
          BY <1>2, <1>6
        <5>2. done = MarkReport(rt, rx["provider"], result = "report")
          BY <3>2
        <5>3. MarkReport(rt, rx["provider"], result = "report") \in Runtimes
          BY <1>1, <4>1, <5>1, ReportSound
        <5>4. \A task, intact : MarkReport(rt, task, intact).call = rt.call
          BY <1>1, CallKept
        <5>5. MarkReport(rt, rx["provider"], result = "report").call = rt.call
          BY <5>4
        <5> HIDE DEF done
        <5> QED
          BY <5>2, <5>3, <5>5
    <3> QED
      BY <3>1, <3>2
  <2>4. Keep(c)
    BY <2>2
  <2> HIDE DEF done
  <2>5. BooksTyped(b) /\ Replayed(b) /\ b.rt = done
    BY <1>1, <2>3, RtOnly, BooksOf
  <2> HIDE DEF b
  <2>6. Replayed(c) /\ Stored(done, c.rt)
    BY <1>3, <1>6, <2>1, <2>5, RecordReplayed, AppendProofRecordTyped
  <2>7. c.rt.call = rt.call
    BY <2>3, <2>6, CallKept
  <2> HIDE DEF c
  <2>8. Replayed(Books)' /\ rt' = c.rt
    BY <2>4, <2>6, KeepReplayed DEF Keep
  <2> QED
    BY <1>5, <2>7, <2>8
<1>7. CASE k = "fast" /\ PollFast
  <2>1. lastIntent \in Intents
    BY <1>2, <1>7 DEF MemoryInv, FiledUnderIntent
  <2>2. CASE UNCHANGED <<rt, mem, disk, clean, faults>>
    BY <1>1, <1>5, <2>2, SameReplayed
  <2>3. ASSUME NEW compiled \in BOOLEAN, NEW ends \in Ends,
               Keep(AppendLesson(Books, FastLesson(mem, lastIntent, compiled,
                                                   rx["fast"].intent), ends.lesson))
        PROVE  MemoryInv'
    <3> DEFINE lesson == FastLesson(mem, lastIntent, compiled, rx["fast"].intent)
               b == AppendLesson(Books, lesson, ends.lesson)
    <3>1. /\ lesson \in Lessons /\ lesson.intent = lastIntent
          /\ lesson.attempt = mem.attempts[lastIntent][lesson.gate] + 1
      BY <1>1, <1>3, <1>7, <2>1, FastLessonTyped
    <3>2. Keep(b)
      BY <2>3
    <3> HIDE DEF lesson
    <3>3. lesson.outcome \in Outcomes
      BY <3>1 DEF Lessons
    <3>4. Replayed(b)
      BY <1>1, <3>1, LessonReplayed
    <3>5. Stored(rt, b.rt)
      BY <1>1, <3>3, AppendLessonTyped DEF Stored
    <3> HIDE DEF b
    <3>6. Replayed(Books)' /\ rt'.call = rt.call
      BY <1>1, <3>2, <3>4, <3>5, CallKept, KeepReplayed DEF Keep
    <3> QED
      BY <1>5, <3>6
  <2>4. \/ UNCHANGED <<rt, mem, disk, clean, faults>>
        \/ \E compiled \in BOOLEAN, ends \in Ends :
             Keep(AppendLesson(Books, FastLesson(mem, lastIntent, compiled,
                                                 rx["fast"].intent), ends.lesson))
    BY <1>7 DEF PollFast
  <2> QED
    BY <2>2, <2>3, <2>4
<1>8. CASE k = "vibe" /\ PollVibe
  BY <1>1, <1>5, <1>8, SameReplayed DEF PollVibe
<1> QED
  BY <1>1, <1>6, <1>7, <1>8

LEMMA CrashRemembers ==
  ASSUME Parts, MemoryInv, Crash
  PROVE  MemoryInv'
<1>1. PICK torn \in BOOLEAN : disk' = [disk EXCEPT !.learning.torn = @ \/ torn]
  BY DEF Crash
<1>2. /\ disk = [proofs |-> disk.proofs, learning |-> disk.learning]
      /\ disk.learning = [lines |-> disk.learning.lines, torn |-> disk.learning.torn]
      /\ disk.learning.torn \in BOOLEAN
  BY DEF Parts, BooksTyped, Books, DiskTyped, FileTyped
<1> DEFINE g == [lines |-> disk.learning.lines, torn |-> disk.learning.torn \/ torn]
<1>3. disk' = [proofs |-> disk.proofs, learning |-> g]
  BY <1>1, <1>2
<1>4. g.lines = disk.learning.lines /\ (Readable(g) => g = disk.learning)
  BY <1>2 DEF Readable
<1> HIDE DEF g
<1>5. disk'.learning = g
  BY <1>3
<1>6. /\ UNCHANGED <<mem, clean>> /\ up' = FALSE
      /\ rx'["provider"] = NoWorker /\ rx'["fast"] = NoWorker
  BY DEF Crash, Kinds
<1>7. disk'.learning.lines \in Seq(Lessons \cup {Garbled})
  BY <1>4, <1>5 DEF MemoryInv, Replayed, Books
<1>8. MemoryTyped(mem)'
  BY <1>6 DEF MemoryInv, Replayed, Books, MemoryTyped
<1>9. ASSUME clean', Readable(g) PROVE mem' = Recall(g)
  BY <1>4, <1>6, <1>9 DEF MemoryInv, Replayed, Books
<1>10. Readable(disk.learning)' <=> Readable(g)
  BY <1>5
<1>11. Recall(disk.learning)' = Recall(g)
  BY <1>5
<1> QED
  BY <1>6, <1>7, <1>8, <1>9, <1>10, <1>11 DEF MemoryInv, FiledUnderIntent, Replayed, Books

LEMMA ReopenRemembers ==
  ASSUME Parts, MemoryInv, NEW p \in Providers, Reopen(p)
  PROVE  MemoryInv'
<1>1. /\ mem' = Recall(disk.learning) /\ rt' = OpenRuntime(p) /\ ~up /\ up' = TRUE
      /\ UNCHANGED <<disk, rx>>
  BY DEF Reopen, work
<1>2. Replayed(Books)'
  <2>1. disk.learning.lines \in Seq(Lessons \cup {Garbled})
    BY DEF MemoryInv, Replayed, Books
  <2>2. MemoryTyped(Recall(disk.learning))
    BY <2>1, RecallMemoryTyped
  <2>3. MemoryTyped(mem)'
    BY <1>1, <2>2 DEF MemoryTyped
  <2>4. Recall(disk.learning)' = Recall(disk.learning)
    BY <1>1
  <2> QED
    BY <1>1, <2>1, <2>3, <2>4 DEF Replayed, Books
<1>3. rt'.call = NoCall
  BY <1>1 DEF OpenRuntime
<1>4. rx["provider"] = NoWorker /\ rx["fast"] = NoWorker
  BY <1>1 DEF MemoryInv, FiledUnderIntent
<1> QED
  BY <1>1, <1>2, <1>3, <1>4 DEF MemoryInv, FiledUnderIntent

LEMMA MemoryInit == Init => MemoryInv
<1> SUFFICES ASSUME Init PROVE MemoryInv
  OBVIOUS
<1>1. /\ disk.learning = EmptyFile /\ mem = Recall(EmptyFile) /\ up
      /\ \E p \in Providers : rt = OpenRuntime(p)
      /\ rx = [k \in Kinds |-> NoWorker]
  BY DEF Init, Idle
<1>2. EmptyFile.lines \in Seq(Lessons \cup {Garbled})
  BY DEF EmptyFile
<1>3. MemoryTyped(mem)
  BY <1>1, <1>2, RecallMemoryTyped
<1>4. rt.call = NoCall
  BY <1>1 DEF OpenRuntime
<1>5. rx["provider"] = NoWorker /\ rx["fast"] = NoWorker
  BY <1>1 DEF Kinds
<1> QED
  BY <1>1, <1>2, <1>3, <1>4, <1>5 DEF MemoryInv, Replayed, Books, FiledUnderIntent

\* The memory as a replay, with the types of the lessons and what each is
\* filed under.
THEOREM MemoryInvariant == Spec => [](ShellInv /\ MemoryInv)
<1>1. Init => Parts /\ MemoryInv
  BY InitParts, MemoryInit
<1>2. Parts /\ MemoryInv /\ [Next]_vars => MemoryInv'
  <2> SUFFICES ASSUME Parts, MemoryInv, [Next]_vars PROVE MemoryInv'
    OBVIOUS
  <2>1. CASE UNCHANGED vars
    <3>1. Replayed(Books)'
      BY <2>1, SameReplayed DEF MemoryInv, vars
    <3> QED
      BY <2>1, <3>1 DEF vars, MemoryInv, FiledUnderIntent
  <2> QED
    BY <2>1, RunRemembers, CommandRemembers, CaptureRemembers, PollRemembers,
       CrashRemembers, ReopenRemembers DEF Next
<1>3. Parts <=> ShellInv
  BY InvIsParts
<1> QED
  BY <1>1, <1>2, <1>3, ShellInvariant, PTL DEF Spec

\* While every append was confirmed, the process remembers what it would read
\* back if it were opened again, for any number of lessons and any bound of the
\* memory: the list effective_records selects, the nodes add_learning_record
\* kept one by one, the attempts and the counts.
THEOREM MemoryStaysReplay == Spec => []MemoryIsReplay
<1>1. MemoryInv => MemoryIsReplay
  BY DEF MemoryInv, Replayed, Books, MemoryIsReplay
<1> QED
  BY <1>1, MemoryInvariant, PTL

\* The full types of the shell: what it writes is a lesson, filed under an
\* intent the operator gave, with the next number of its kind.
THEOREM ShellTypes == Spec => []TypeOK
<1>1. ShellInv /\ MemoryInv => TypeOK
  BY DEF ShellInv, ShellTyped, DiskTyped, FileTyped, MemoryInv, Replayed, Books,
     MemoryTyped, TypeOK
<1> QED
  BY <1>1, MemoryInvariant, PTL
===============================================================================
