----------------------------- MODULE RowDispatch -----------------------------
(***************************************************************************)
(* The row passes of the bloom filter over the worker threads              *)
(* (pmre-kit: fair_queue, post::par_rows, bloom_sweep).                    *)
(*                                                                         *)
(* A frame goes through three passes - bright, horizontal blur, vertical   *)
(* blur - each of which writes every row of its own buffer and reads the   *)
(* buffer of the pass before.  Rows are written through raw pointers, so   *)
(* nothing but the dispatch keeps two workers off one row.  A dispatch is  *)
(*   queue  a FairQueue filled and sealed before the workers of the pass   *)
(*          start;                                                         *)
(*   cursor an atomic counter from which workers claim Chunk rows;         *)
(*   pool   the same counters, the workers kept over all passes with a     *)
(*          barrier between two of them;                                   *)
(*   band   one contiguous band of rows per worker;                        *)
(*   open   a FairQueue whose producer still pushes while the workers pop: *)
(*          what its documentation promises, one pass, no caller in the    *)
(*          filter.                                                        *)
(***************************************************************************)
EXTENDS FrameParts, Sequences, SequencesExt

CONSTANTS
  Workers,  (* thread_count() threads                                     *)
  Rows,     (* rows of the frame                                          *)
  Chunk     (* rows claimed at once from a counter                        *)

ASSUME WorkersAssumption ==
  IsFiniteSet(Workers) /\ Workers = 1..Cardinality(Workers) /\ Workers # {}
ASSUME RowsAssumption == Rows \in Nat \ {0} /\ Chunk \in Nat \ {0}

VARIABLES
  dispatch,  (* how rows are handed out                                   *)
  pass,      (* the pass each worker is in                                *)
  items,     (* FairQueue: items                                          *)
  sealed,    (* FairQueue: sealed                                         *)
  unpushed,  (* what the producer of an open queue still has to push      *)
  woken,     (* the producer has called notify_all                        *)
  cursor,    (* the counter of each pass                                  *)
  hand,      (* rows a worker has claimed and not finished                *)
  state,     (* where a worker is                                         *)
  written    (* how often each row of each buffer has been written        *)

rowVars == <<dispatch, pass, items, sealed, unpushed, woken, cursor, hand, state, written>>

Passes    == 1..3
Dispatches == {"queue", "cursor", "pool", "band", "open"}
LastPass  == IF dispatch = "open" THEN 1 ELSE 3

\* The rows from a to b, rows counted from 1: none when b is not beyond a.
RowSpan(a, b) == [i \in 1..(b - a) |-> a + i]
AllRows == RowSpan(0, Rows)

\* The band of worker t: div_ceil rows each, the last band shorter or empty.
Band(t) ==
  LET size == CeilDiv(Rows, Cardinality(Workers))
  IN  RowSpan((t - 1) * size, Lesser(t * size, Rows))

RowInit ==
  /\ dispatch \in Dispatches
  /\ pass = [t \in Workers |-> 1]
  /\ items = IF dispatch = "queue" THEN AllRows ELSE <<>>
  /\ sealed = (dispatch # "open")
  /\ woken = (dispatch # "open")
  /\ unpushed = IF dispatch = "open" THEN AllRows ELSE <<>>
  /\ cursor = [p \in Passes |-> 0]
  /\ hand = [t \in Workers |-> IF dispatch = "band" THEN Band(t) ELSE <<>>]
  /\ state = [t \in Workers |-> "running"]
  /\ written = [p \in Passes |-> [r \in 1..Rows |-> 0]]

(***************************************************************************)
(* The producer of an open queue.                                          *)
(***************************************************************************)
Waiting == {t \in Workers : state[t] = "waiting"}

\* push: the item, then notify_one.
Push ==
  /\ unpushed # <<>>
  /\ items' = Append(items, Head(unpushed))
  /\ unpushed' = Tail(unpushed)
  /\ IF Waiting = {} THEN UNCHANGED state
                     ELSE \E t \in Waiting : state' = [state EXCEPT ![t] = "running"]
  /\ UNCHANGED <<dispatch, pass, sealed, woken, cursor, hand, written>>

\* seal: the flag under the lock ...
SetSealed ==
  /\ unpushed = <<>> /\ ~sealed
  /\ sealed' = TRUE
  /\ UNCHANGED <<dispatch, pass, items, unpushed, woken, cursor, hand, state, written>>

\* Variant: seal wakes one waiter.
WakeOne ==
  /\ sealed /\ ~woken
  /\ woken' = TRUE
  /\ IF Waiting = {} THEN UNCHANGED state
                     ELSE \E t \in Waiting : state' = [state EXCEPT ![t] = "running"]
  /\ UNCHANGED <<dispatch, pass, items, sealed, unpushed, cursor, hand, written>>

\* ... then notify_all.
WakeAll ==
  /\ sealed /\ ~woken
  /\ woken' = TRUE
  /\ state' = [t \in Workers |-> IF t \in Waiting THEN "running" ELSE state[t]]
  /\ UNCHANGED <<dispatch, pass, items, sealed, unpushed, cursor, hand, written>>

(***************************************************************************)
(* Workers.                                                                *)
(***************************************************************************)
Idle(t) == state[t] = "running" /\ hand[t] = <<>>

\* pop, under the lock: the first item, or None, or wait.
Pop(t) ==
  /\ dispatch \in {"queue", "open"} /\ Idle(t)
  /\ IF items # <<>>
       THEN /\ hand' = [hand EXCEPT ![t] = <<Head(items)>>]
            /\ items' = Tail(items)
            /\ UNCHANGED state
       ELSE /\ state' = [state EXCEPT ![t] = IF sealed THEN "done" ELSE "waiting"]
            /\ UNCHANGED <<items, hand>>
  /\ UNCHANGED <<dispatch, pass, sealed, unpushed, woken, cursor, written>>

\* A condition variable may wake without a notification.
WakeSpuriously(t) ==
  /\ state[t] = "waiting"
  /\ state' = [state EXCEPT ![t] = "running"]
  /\ UNCHANGED <<dispatch, pass, items, sealed, unpushed, woken, cursor, hand, written>>

\* claim_rows: fetch_add, then the rows it returned, up to the last.
Claim(t) ==
  /\ dispatch \in {"cursor", "pool"} /\ Idle(t)
  /\ LET p     == pass[t]
         start == cursor[p]
     IN  /\ cursor' = [cursor EXCEPT ![p] = @ + Chunk]
         /\ IF start >= Rows
              THEN state' = [state EXCEPT ![t] = "done"] /\ UNCHANGED hand
              ELSE /\ hand' = [hand EXCEPT ![t] = RowSpan(start, Lesser(start + Chunk, Rows))]
                   /\ UNCHANGED state
  /\ UNCHANGED <<dispatch, pass, items, sealed, unpushed, woken, written>>

\* A worker has finished its band.
EndBand(t) ==
  /\ dispatch = "band" /\ Idle(t)
  /\ state' = [state EXCEPT ![t] = "done"]
  /\ UNCHANGED <<dispatch, pass, items, sealed, unpushed, woken, cursor, hand, written>>

\* bright_row, hblur_row, vblur_row.
WriteRow(t) ==
  /\ state[t] = "running" /\ hand[t] # <<>>
  /\ written' = [written EXCEPT ![pass[t]][Head(hand[t])] = @ + 1]
  /\ hand' = [hand EXCEPT ![t] = Tail(@)]
  /\ UNCHANGED <<dispatch, pass, items, sealed, unpushed, woken, cursor, state>>

\* Variant: a worker goes on without waiting for the others.
PassAlone ==
  \E t \in Workers :
    /\ state[t] = "done" /\ pass[t] < LastPass
    /\ pass' = [pass EXCEPT ![t] = @ + 1]
    /\ items' = IF dispatch = "queue" THEN AllRows ELSE items
    /\ hand' = [hand EXCEPT ![t] = IF dispatch = "band" THEN Band(t) ELSE <<>>]
    /\ state' = [state EXCEPT ![t] = "running"]
    /\ UNCHANGED <<dispatch, sealed, unpushed, woken, cursor, written>>

\* The next pass: the scope has joined every worker, or the barrier has let
\* them all through.
NextPass ==
  /\ \A t \in Workers : state[t] = "done" /\ pass[t] < LastPass
  /\ pass' = [t \in Workers |-> pass[t] + 1]
  /\ items' = IF dispatch = "queue" THEN AllRows ELSE items
  /\ hand' = [t \in Workers |-> IF dispatch = "band" THEN Band(t) ELSE <<>>]
  /\ state' = [t \in Workers |-> "running"]
  /\ UNCHANGED <<dispatch, sealed, unpushed, woken, cursor, written>>

WorkerStep(t) == Pop(t) \/ Claim(t) \/ EndBand(t) \/ WriteRow(t)

RowNext ==
  \/ Push \/ SetSealed \/ WakeAll \/ NextPass
  \/ \E t \in Workers : WorkerStep(t) \/ WakeSpuriously(t)

\* Threads are scheduled; nothing wakes a waiter but a notification.
RowFairness ==
  /\ WF_rowVars(Push \/ SetSealed \/ WakeAll)
  /\ WF_rowVars(NextPass)
  /\ \A t \in Workers : WF_rowVars(WorkerStep(t))

(***************************************************************************)
(* Properties.                                                             *)
(***************************************************************************)
\* "Each row is processed by exactly one thread, so writes to buf are
\* non-overlapping" (par_rows, and the SAFETY comments of run_rows): no row of
\* a buffer is in two hands or written again, and a worker reads the buffer of
\* the pass before only when every row of it is written ("reads the
\* now-complete bright buffer").
RowsAreExclusive ==
  \A t \in Workers :
    \A i \in DOMAIN hand[t] :
      LET row == hand[t][i] IN
        /\ written[pass[t]][row] = 0
        /\ \A u \in Workers \ {t} : pass[u] = pass[t] => row \notin ToSet(hand[u])
        /\ pass[t] > 1 => \A r \in 1..Rows : written[pass[t] - 1][r] = 1

\* Every worker comes back from its last pop, and every row of the last pass
\* is written: "Wakes all blocked pop() callers so they can drain and exit"
\* (FairQueue::seal).
RowsFinished ==
  /\ \A t \in Workers : state[t] = "done" /\ pass[t] = LastPass
  /\ \A r \in 1..Rows : written[LastPass][r] = 1
FrameIsFinished == <>RowsFinished
==============================================================================
