---------------------------- MODULE LearningLedger ----------------------------
(***************************************************************************)
(* The append-only ledgers of lessons and proofs (math-atoms-learning,     *)
(* math-atoms-proof) and the two memories kept of the lessons: the bounded *)
(* list the native shell keeps and the learning nodes of the wiki graph    *)
(* (math-atoms-graph).                                                     *)
(*                                                                         *)
(* A ledger file is a sequence of lines.  A write that stops half-way      *)
(* leaves an unterminated line, and the next record is appended to that    *)
(* same line: a Garbled line, which no reader accepts.                     *)
(***************************************************************************)
EXTENDS Naturals, Sequences, FiniteSets, SequencesExt, FiniteSetsExt

CONSTANTS
  MemoryLimit,  (* DEFAULT_GRAPH_MEMORY_LIMIT, 256 in the code            *)
  Garbled       (* a line that is no record                               *)

ASSUME MemoryAssumption == MemoryLimit \in Nat \ {0}

Outcomes == {"failed", "succeeded"}
Gates    == {"native-provider-execution", "native-proof-route", "native-fast-build"}

(***************************************************************************)
(* Memory.                                                                 *)
(***************************************************************************)
\* The recipe follows from the intent; attempts and corrections are not part
\* of the key, so a repeated lesson takes the place of the one before.
MemoryKey(r) == <<r.gate, r.outcome, r.intent, r.failure>>

NewestOfKeys(records) ==
  {i \in DOMAIN records :
     \A j \in DOMAIN records : j > i => MemoryKey(records[j]) # MemoryKey(records[i])}

\* The newest record of each key, the newest MemoryLimit of them, oldest first.
EffectiveRecords(records) ==
  LET newest == NewestOfKeys(records)
      kept   == {i \in newest : Cardinality({j \in newest : j > i}) < MemoryLimit}
  IN  [n \in 1..Cardinality(kept) |->
         records[CHOOSE i \in kept : Cardinality({j \in kept : j < i}) = n - 1]]

\* Variant: a lesson of a known key is kept beside the new one.
RememberTwice(nodes, r) ==
  LET grown == Append(nodes, r)
  IN  IF Len(grown) > MemoryLimit THEN Tail(grown) ELSE grown

\* The learning node of the same key, if there is one, gives way to the new
\* node, then the oldest node goes if there are too many.
RememberNode(nodes, r) ==
  LET known  == {i \in DOMAIN nodes : MemoryKey(nodes[i]) = MemoryKey(r)}
      others == IF known = {} THEN nodes ELSE RemoveAt(nodes, Min(known))
      grown  == Append(others, r)
  IN  IF Len(grown) > MemoryLimit THEN Tail(grown) ELSE grown

\* add_learning_records: one record after the other.
RememberNodes(records) ==
  LET remembered[n \in 0..Len(records)] ==
        IF n = 0 THEN <<>> ELSE RememberNode(remembered[n - 1], records[n])
  IN  remembered[Len(records)]

AttemptsOf(records, intent, gate) ==
  Max({0} \cup {records[i].attempt : i \in {j \in DOMAIN records :
                  records[j].intent = intent /\ records[j].gate = gate}})

Summary(records) ==
  [o \in Outcomes |-> Cardinality({i \in DOMAIN records : records[i].outcome = o})]

\* The failure a later success of the same gate corrects: the newest one.
CorrectedFailure(records, intent, gate) ==
  LET failures == {i \in DOMAIN records : /\ records[i].intent = intent
                                          /\ records[i].gate = gate
                                          /\ records[i].outcome = "failed"}
  IN  IF failures = {} THEN {} ELSE records[Max(failures)].failure

(***************************************************************************)
(* Files.                                                                  *)
(***************************************************************************)
EmptyFile == [lines |-> <<>>, torn |-> FALSE]

\* How an append may end: a refused one wrote nothing, a torn one part of its
\* line, an unconfirmed one all of it without being able to read it back.
\* All but the first return an error.
AppendEnds == {"written", "refused", "torn", "unconfirmed"}

AppendLine(file, record, end) ==
  CASE end = "refused" -> file
    [] end = "torn"    -> [file EXCEPT !.torn = TRUE]
    [] OTHER           -> [lines |-> Append(file.lines,
                                            IF file.torn THEN Garbled ELSE record),
                           torn  |-> FALSE]

\* read_records accepts the file as a whole or not at all.
Readable(file) == ~file.torn /\ \A i \in DOMAIN file.lines : file.lines[i] # Garbled

ReadRecords(file) == IF Readable(file) THEN file.lines ELSE <<>>
==============================================================================
