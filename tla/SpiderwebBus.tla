----------------------------- MODULE SpiderwebBus -----------------------------
(***************************************************************************)
(* The in-memory message bus of math-atoms-bus.  Every message becomes an  *)
(* envelope on a thread - its parent's, or a new one - and the fabric of   *)
(* threads, intersections and backpressure is recorded as messages flow.   *)
(*                                                                         *)
(* Envelope and thread ids are handed out from 1 and nothing is ever       *)
(* removed, so an id is a position.  Parent 0 stands for no parent and for *)
(* an id the bus does not know, which the code treats alike.  A kind is    *)
(* kept as whether it blocks; bodies and evidence ids are left out, and    *)
(* with them the targets of a preload plan.                                *)
(***************************************************************************)
EXTENDS Naturals, Sequences, FiniteSets

CONSTANTS
  Nodes,         (* names of message sources and targets                  *)
  MaxEnvelopes   (* bound: messages emitted                               *)

ASSUME MaxEnvelopesAssumption == MaxEnvelopes \in Nat

VARIABLES
  envelopes,     (* the messages emitted, in order                        *)
  threads,       (* the threads, each with what has flowed over it        *)
  intersections, (* transfer policy of each recorded intersection         *)
  preloads,      (* envelopes with a preload plan                         *)
  backpressure   (* envelopes that signalled backpressure                 *)

vars == <<envelopes, threads, intersections, preloads, backpressure>>

Layers == 0..3   \* L0 transport, L1 message, L2 flow, L3 orchestration

Envelopes ==
  [parent : Nat, thread : Nat \ {0}, layer : Layers, blocked : BOOLEAN,
   ends : SUBSET Nodes]          \* source and target

Threads ==
  [envelopes : Seq(Nat \ {0}), nodes : SUBSET Nodes, layers : SUBSET Layers]

\* An intersection is found again by its node and its threads.
Crossings == [node : Nodes, threads : SUBSET (Nat \ {0})]
Policies  == {"shared_node", "backpressure"}

EnvelopeIds == 1..Len(envelopes)
ThreadIds   == 1..Len(threads)

TypeOK ==
  /\ envelopes \in Seq(Envelopes)
  /\ threads \in Seq(Threads)
  /\ DOMAIN intersections \subseteq Crossings
  /\ intersections \in [DOMAIN intersections -> Policies]
  /\ preloads \subseteq EnvelopeIds
  /\ backpressure \subseteq EnvelopeIds

Init ==
  /\ envelopes     = <<>>
  /\ threads       = <<>>
  /\ intersections = [x \in {} |-> "shared_node"]
  /\ preloads      = {}
  /\ backpressure  = {}

\* Variant: every message on a new thread.
ThreadAlone(parent) == Len(threads) + 1

\* thread_for_parent, or the thread create_thread is about to make
ThreadFor(parent) ==
  IF parent \in EnvelopeIds THEN envelopes[parent].thread ELSE Len(threads) + 1

\* Variant: every other thread.
CrossedByAll(t, ends) == ThreadIds \ {t}

\* The other threads that have already been at one of the endpoints.
CrossedBy(t, ends) == {u \in ThreadIds : u # t /\ threads[u].nodes \cap ends # {}}

\* Variants: intersections of blocked messages only; the policy of the last
\* message replaces the earlier one.
CrossedIfBlocked(t, ends, blocked) ==
  LET others == CrossedBy(t, ends)
      found  == IF others = {} \/ ~blocked THEN {}
                ELSE {[node |-> n, threads |-> others \cup {t}] : n \in ends}
  IN  [x \in DOMAIN intersections \cup found |->
         IF x \in found THEN "backpressure" ELSE intersections[x]]

CrossedReplacing(t, ends, blocked) ==
  LET others == CrossedBy(t, ends)
      found  == IF others = {} THEN {}
                ELSE {[node |-> n, threads |-> others \cup {t}] : n \in ends}
      policy == IF blocked THEN "backpressure" ELSE "shared_node"
  IN  [x \in DOMAIN intersections \cup found |->
         IF x \in found THEN policy ELSE intersections[x]]

\* add_intersection for both endpoints, with all the crossing threads at each;
\* backpressure is set and never taken back.
Crossed(t, ends, blocked) ==
  LET others == CrossedBy(t, ends)
      found  == IF others = {} THEN {}
                ELSE {[node |-> n, threads |-> others \cup {t}] : n \in ends}
  IN  [x \in DOMAIN intersections \cup found |->
         IF x \in found /\ blocked THEN "backpressure"
         ELSE IF x \in DOMAIN intersections THEN intersections[x]
         ELSE "shared_node"]

\* Variants: newest first; the layers are forgotten.
CarriedFirst(th, id, layer, ends) ==
  [envelopes |-> <<id>> \o th.envelopes,
   nodes     |-> th.nodes \cup ends,
   layers    |-> th.layers \cup {layer}]

CarriedLast(th, id, layer, ends) ==
  [envelopes |-> Append(th.envelopes, id),
   nodes     |-> th.nodes \cup ends,
   layers    |-> {layer}]

\* The thread's record of one more envelope (push_unique of layer and nodes).
Carried(th, id, layer, ends) ==
  [envelopes |-> Append(th.envelopes, id),
   nodes     |-> th.nodes \cup ends,
   layers    |-> th.layers \cup {layer}]

NewThread == [envelopes |-> <<>>, nodes |-> {}, layers |-> {}]

ThreadsAfter(t, id, layer, ends) ==
  IF t \in ThreadIds THEN [threads EXCEPT ![t] = Carried(@, id, layer, ends)]
  ELSE Append(threads, Carried(NewThread, id, layer, ends))

\* l0_transport .. l3_orchestrate: emit and record_fabric.
Emit(parent, layer, blocked, ends) ==
  LET id == Len(envelopes) + 1
      t  == ThreadFor(parent)
  IN  /\ envelopes' = Append(envelopes,
           [parent |-> parent, thread |-> t, layer |-> layer,
            blocked |-> blocked, ends |-> ends])
      /\ threads' = ThreadsAfter(t, id, layer, ends)
      /\ intersections' = Crossed(t, ends, blocked)
      /\ preloads' = IF layer >= 2 THEN preloads \cup {id} ELSE preloads
      /\ backpressure' = IF blocked THEN backpressure \cup {id} ELSE backpressure

\* Callers pass on ids that emit returned.
Next ==
  /\ Len(envelopes) < MaxEnvelopes
  /\ \E parent \in {0} \cup EnvelopeIds, layer \in Layers, blocked \in BOOLEAN,
        source, target \in Nodes :
       Emit(parent, layer, blocked, {source, target})

Spec == Init /\ [][Next]_vars

\* route_for: the parents of an envelope up to the first one.
Route(id) ==
  LET up[n \in {0} \cup EnvelopeIds] ==
        IF n = 0 THEN <<>> ELSE Append(up[envelopes[n].parent], n)
  IN  up[id]

(***************************************************************************)
(* Properties.                                                             *)
(***************************************************************************)
\* A parent was emitted before its child and on the same thread, so walking
\* from child to parent (route_for) ends and never leaves the thread.
ParentsPrecede ==
  \A id \in EnvelopeIds :
    LET p == envelopes[id].parent
    IN  p # 0 => p < id /\ envelopes[p].thread = envelopes[id].thread

\* A route ends at its envelope and runs along one thread, in the order that
\* thread carried it (route_for against FabricThread.envelopes).
RoutesFollowThreads ==
  \A id \in EnvelopeIds :
    LET r     == Route(id)
        along == threads[envelopes[id].thread].envelopes
    IN  /\ r # <<>> /\ r[Len(r)] = id
        /\ \A i, j \in 1..Len(r) : \E k, l \in 1..Len(along) :
             /\ along[k] = r[i] /\ along[l] = r[j]
             /\ i < j => k < l

\* What a thread has recorded is what its envelopes say: each envelope is on
\* one thread only, and the thread's nodes and layers are theirs.
ThreadsRecordTheirTraffic ==
  /\ \A t \in ThreadIds :
       LET mine == {id \in EnvelopeIds : envelopes[id].thread = t}
       IN  /\ {threads[t].envelopes[i] : i \in 1..Len(threads[t].envelopes)} = mine
           /\ Len(threads[t].envelopes) = Cardinality(mine)
           /\ threads[t].nodes  = UNION {envelopes[id].ends : id \in mine}
           /\ threads[t].layers = {envelopes[id].layer : id \in mine}
  /\ \A id \in EnvelopeIds : envelopes[id].thread \in ThreadIds

\* "Shared nodes become intersections" (spiderweb-bus.md): wherever two
\* threads have been at one node, an intersection there lists them both.
SharedNodesIntersect ==
  \A t, u \in ThreadIds : \A n \in threads[t].nodes \cap threads[u].nodes :
    t # u => \E x \in DOMAIN intersections : x.node = n /\ {t, u} \subseteq x.threads

\* An intersection always joins threads that have met: one of them shares a
\* node with each of the others.
IntersectionsJoinMeetingThreads ==
  \A x \in DOMAIN intersections :
    /\ Cardinality(x.threads) >= 2
    /\ \E t \in x.threads : \A u \in x.threads :
         threads[t].nodes \cap threads[u].nodes # {}

\* What the bus keeps about its messages in three places agrees
\* (record_fabric): a route follows its thread, a thread has recorded its own
\* traffic and nothing else, an intersection joins threads that have met.
FabricAgrees ==
  RoutesFollowThreads /\ ThreadsRecordTheirTraffic /\ IntersectionsJoinMeetingThreads

\* A blocked message puts every intersection it crosses under backpressure,
\* and an intersection under backpressure stays so.
BackpressureSticks ==
  [][\A x \in DOMAIN intersections' :
       LET last == envelopes'[Len(envelopes')]
           held == x \in DOMAIN intersections /\ intersections[x] = "backpressure"
           hit  == /\ last.blocked
                   /\ x.node \in last.ends
                   /\ x.threads = CrossedBy(last.thread, last.ends) \cup {last.thread}
       IN  intersections'[x] = "backpressure" <=> held \/ hit]_vars
==============================================================================
