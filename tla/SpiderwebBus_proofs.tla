-------------------------- MODULE SpiderwebBus_proofs --------------------------
(***************************************************************************)
(* Proofs about the message bus, for any nodes and any number of messages, *)
(* and about the evidence rules of what it carries, for any lesson and any *)
(* proof record.                                                           *)
(***************************************************************************)
EXTENDS MCSpiderwebBus, FiniteSetTheorems, TLAPS

\* Appending keeps what was there and puts the new element last.
LEMMA AppendProperties ==
  ASSUME NEW S, NEW s \in Seq(S), NEW e \in S
  PROVE  /\ Append(s, e) \in Seq(S)
         /\ Len(Append(s, e)) = Len(s) + 1
         /\ \A i \in 1..Len(s) : Append(s, e)[i] = s[i]
         /\ Append(s, e)[Len(s) + 1] = e
  OBVIOUS

\* The thread of an envelope is one the bus has made.
ThreadsKnown == \A id \in EnvelopeIds : envelopes[id].thread \in ThreadIds

IInv == TypeOK /\ ThreadsKnown /\ ParentsPrecede /\ SharedNodesIntersect

\* One message, in the terms the invariants are about: it is appended on its
\* parent's thread or on a new one, the thread gains its endpoints, and every
\* endpoint becomes an intersection with the threads that were there.
Effect(parent, layer, blocked, ends) ==
  LET id == Len(envelopes) + 1
      t  == ThreadFor(parent)
  IN  /\ EnvelopeIds' = EnvelopeIds \cup {id} /\ id \notin EnvelopeIds
      /\ \A i \in EnvelopeIds : envelopes'[i] = envelopes[i] /\ i < id
      /\ envelopes'[id].parent = parent
      /\ envelopes'[id].thread = t
      /\ envelopes' \in Seq(Envelopes)
      /\ threads' \in Seq(Threads)
      /\ t \in Nat \ {0}
      /\ ThreadIds' = ThreadIds \cup {t}
      /\ \A u \in ThreadIds : u # t => threads'[u] = threads[u]
      /\ t \in ThreadIds => threads'[t].nodes = threads[t].nodes \cup ends
      /\ t \notin ThreadIds => threads'[t].nodes = ends

LEMMA EmitEffect ==
  ASSUME TypeOK, ThreadsKnown,
         NEW parent \in {0} \cup EnvelopeIds, NEW layer \in Layers,
         NEW blocked \in BOOLEAN, NEW ends \in SUBSET Nodes,
         Emit(parent, layer, blocked, ends)
  PROVE  Effect(parent, layer, blocked, ends)
<1> DEFINE id == Len(envelopes) + 1
           t  == ThreadFor(parent)
           e  == [parent |-> parent, thread |-> t, layer |-> layer,
                  blocked |-> blocked, ends |-> ends]
<1>1. /\ envelopes \in Seq(Envelopes) /\ threads \in Seq(Threads)
      /\ envelopes' = Append(envelopes, e)
      /\ threads' = ThreadsAfter(t, id, layer, ends)
  BY DEF Emit, TypeOK
<1>2. /\ t \in Nat \ {0}
      /\ t \in ThreadIds \/ t = Len(threads) + 1
  BY <1>1 DEF ThreadFor, ThreadsKnown, ThreadIds
<1>3. e \in Envelopes
  BY <1>2, <1>1 DEF Envelopes, EnvelopeIds
<1> HIDE DEF e
<1>4. /\ EnvelopeIds' = EnvelopeIds \cup {id} /\ id \notin EnvelopeIds
      /\ \A i \in EnvelopeIds : envelopes'[i] = envelopes[i] /\ i < id
      /\ envelopes'[id] = e
      /\ envelopes' \in Seq(Envelopes)
  BY <1>1, <1>3, AppendProperties DEF EnvelopeIds
<1>5. ASSUME NEW th \in Threads
      PROVE  /\ Carried(th, id, layer, ends) \in Threads
             /\ Carried(th, id, layer, ends).nodes = th.nodes \cup ends
  <2>1. id \in Nat \ {0}
    BY <1>1
  <2>2. Append(th.envelopes, id) \in Seq(Nat \ {0})
    BY <2>1, AppendProperties DEF Threads
  <2> QED
    BY <2>2 DEF Carried, Threads, Layers
<1>6. NewThread \in Threads /\ NewThread.nodes = {}
  BY DEF NewThread, Threads
<1> HIDE DEF t, id
<1>7. CASE t \in ThreadIds
  <2>1. threads' = [threads EXCEPT ![t] = Carried(threads[t], id, layer, ends)]
    BY <1>1, <1>7 DEF ThreadsAfter
  <2>2. threads[t] \in Threads
    BY <1>1, <1>7 DEF ThreadIds
  <2>3. /\ threads' \in Seq(Threads) /\ Len(threads') = Len(threads)
        /\ threads'[t] = Carried(threads[t], id, layer, ends)
        /\ \A u \in ThreadIds : u # t => threads'[u] = threads[u]
    BY <1>1, <1>5, <1>7, <2>1, <2>2 DEF ThreadIds
  <2>4. ThreadIds' = ThreadIds \cup {t}
    BY <1>7, <2>3 DEF ThreadIds
  <2> QED
    BY <1>2, <1>4, <1>5, <1>7, <2>2, <2>3, <2>4 DEF Effect, e, t, id
<1>8. CASE t \notin ThreadIds
  <2> DEFINE new == Carried(NewThread, id, layer, ends)
  <2>1. new \in Threads /\ new.nodes = ends
    BY <1>5, <1>6
  <2>2. threads' = Append(threads, new) /\ t = Len(threads) + 1
    BY <1>1, <1>2, <1>8 DEF ThreadsAfter
  <2> HIDE DEF new
  <2>3. /\ threads' \in Seq(Threads) /\ Len(threads') = Len(threads) + 1
        /\ threads'[t] = new
        /\ \A u \in ThreadIds : threads'[u] = threads[u]
    BY <1>1, <2>1, <2>2, AppendProperties DEF ThreadIds
  <2>4. ThreadIds' = ThreadIds \cup {t}
    BY <1>1, <2>2, <2>3 DEF ThreadIds
  <2> QED
    BY <1>2, <1>4, <1>8, <2>1, <2>3, <2>4 DEF Effect, e, t, id
<1> QED
  BY <1>7, <1>8

\* The recorded intersections of one message, with what was recorded before.
LEMMA CrossedEffect ==
  ASSUME NEW t, NEW ends, NEW blocked
  PROVE  /\ DOMAIN intersections \subseteq DOMAIN Crossed(t, ends, blocked)
         /\ \A u \in CrossedBy(t, ends), n \in ends :
              \E x \in DOMAIN Crossed(t, ends, blocked) :
                x.node = n /\ {t, u} \subseteq x.threads
<1> DEFINE others == CrossedBy(t, ends)
           found  == IF others = {} THEN {}
                     ELSE {[node |-> n, threads |-> others \cup {t}] : n \in ends}
<1>1. DOMAIN Crossed(t, ends, blocked) = DOMAIN intersections \cup found
  BY DEF Crossed
<1>2. ASSUME NEW u \in others, NEW n \in ends
      PROVE  \E x \in found : x.node = n /\ {t, u} \subseteq x.threads
  <2> DEFINE x == [node |-> n, threads |-> others \cup {t}]
  <2>1. x \in found /\ x.node = n /\ {t, u} \subseteq x.threads
    BY <1>2
  <2> QED
    BY <2>1
<1> QED
  BY <1>1, <1>2

LEMMA TypeStep ==
  ASSUME TypeOK, ThreadsKnown,
         NEW parent \in {0} \cup EnvelopeIds, NEW layer \in Layers,
         NEW blocked \in BOOLEAN, NEW ends \in SUBSET Nodes,
         Emit(parent, layer, blocked, ends)
  PROVE  TypeOK' /\ ThreadsKnown'
<1> DEFINE id == Len(envelopes) + 1
           t  == ThreadFor(parent)
<1>1. /\ EnvelopeIds' = EnvelopeIds \cup {id}
      /\ \A i \in EnvelopeIds : envelopes'[i] = envelopes[i]
      /\ envelopes'[id].thread = t
      /\ envelopes' \in Seq(Envelopes)
      /\ threads' \in Seq(Threads)
      /\ t \in Nat \ {0}
      /\ ThreadIds' = ThreadIds \cup {t}
  <2>1. Effect(parent, layer, blocked, ends)
    BY EmitEffect
  <2> QED
    BY <2>1 DEF Effect
<1>2. ThreadsKnown'
  BY <1>1 DEF ThreadsKnown
<1>3. preloads' \subseteq EnvelopeIds' /\ backpressure' \subseteq EnvelopeIds'
  BY <1>1 DEF Emit, TypeOK
<1>4. /\ DOMAIN intersections' \subseteq Crossings
      /\ intersections' \in [DOMAIN intersections' -> Policies]
  <2> DEFINE others == CrossedBy(t, ends)
             found  == IF others = {} THEN {}
                       ELSE {[node |-> n, threads |-> others \cup {t}] : n \in ends}
  <2>1. others \subseteq Nat \ {0}
    BY DEF CrossedBy, ThreadIds, TypeOK
  <2>2. found \subseteq Crossings
    BY <1>1, <2>1 DEF Crossings
  <2>3. intersections' = [x \in DOMAIN intersections \cup found |->
           IF x \in found /\ blocked THEN "backpressure"
           ELSE IF x \in DOMAIN intersections THEN intersections[x]
           ELSE "shared_node"]
    BY DEF Emit, Crossed
  <2> HIDE DEF found
  <2> QED
    BY <2>2, <2>3 DEF TypeOK, Policies
<1> QED
  BY <1>1, <1>2, <1>3, <1>4 DEF TypeOK

LEMMA ParentsStep ==
  ASSUME IInv,
         NEW parent \in {0} \cup EnvelopeIds, NEW layer \in Layers,
         NEW blocked \in BOOLEAN, NEW ends \in SUBSET Nodes,
         Emit(parent, layer, blocked, ends)
  PROVE  ParentsPrecede'
<1> DEFINE id == Len(envelopes) + 1
<1>1. /\ EnvelopeIds' = EnvelopeIds \cup {id}
      /\ \A i \in EnvelopeIds : envelopes'[i] = envelopes[i] /\ i < id
      /\ envelopes'[id].parent = parent
      /\ envelopes'[id].thread = ThreadFor(parent)
  <2>1. Effect(parent, layer, blocked, ends)
    BY EmitEffect DEF IInv
  <2> QED
    BY <2>1 DEF Effect
<1>2. ASSUME NEW i \in EnvelopeIds, envelopes[i].parent # 0
      PROVE  envelopes[i].parent \in EnvelopeIds
  <2>1. envelopes[i].parent < i
    BY <1>2 DEF IInv, ParentsPrecede
  <2>2. envelopes[i] \in Envelopes
    BY DEF IInv, TypeOK, EnvelopeIds
  <2>3. envelopes[i].parent \in Nat
    BY <2>2 DEF Envelopes
  <2> QED
    BY <1>2, <2>1, <2>3 DEF EnvelopeIds
<1>3. parent # 0 => ThreadFor(parent) = envelopes[parent].thread
  BY DEF ThreadFor
<1> HIDE DEF id
<1> QED
  BY <1>1, <1>2, <1>3 DEF IInv, ParentsPrecede

\* Two threads that meet at a node met there before, or meet there now because
\* one of them carries the new message and the other is crossed by it.
LEMMA SharedStep ==
  ASSUME IInv,
         NEW parent \in {0} \cup EnvelopeIds, NEW layer \in Layers,
         NEW blocked \in BOOLEAN, NEW ends \in SUBSET Nodes,
         Emit(parent, layer, blocked, ends)
  PROVE  SharedNodesIntersect'
<1> DEFINE T == ThreadFor(parent)
<1>1. /\ ThreadIds' = ThreadIds \cup {T}
      /\ \A u \in ThreadIds : u # T => threads'[u] = threads[u]
      /\ T \in ThreadIds => threads'[T].nodes = threads[T].nodes \cup ends
      /\ T \notin ThreadIds => threads'[T].nodes = ends
  <2>1. Effect(parent, layer, blocked, ends)
    BY EmitEffect DEF IInv
  <2> QED
    BY <2>1 DEF Effect
<1>2. intersections' = Crossed(T, ends, blocked)
  BY DEF Emit
<1>3. DOMAIN intersections \subseteq DOMAIN intersections'
  BY <1>2, CrossedEffect
<1> HIDE DEF T
<1>4. ASSUME NEW u \in ThreadIds, u # T, NEW n \in threads[u].nodes,
             n \in threads'[T].nodes
      PROVE  \E x \in DOMAIN intersections' :
               x.node = n /\ T \in x.threads /\ u \in x.threads
  <2>1. CASE n \in ends
    <3>1. u \in CrossedBy(T, ends)
      BY <1>4, <2>1 DEF CrossedBy
    <3> QED
      BY <1>2, <2>1, <3>1, CrossedEffect
  <2>2. CASE n \notin ends
    <3>1. T \in ThreadIds /\ n \in threads[T].nodes
      BY <1>1, <1>4, <2>2
    <3> QED
      BY <1>3, <1>4, <3>1 DEF IInv, SharedNodesIntersect
  <2> QED
    BY <2>1, <2>2
<1>5. ASSUME NEW t \in ThreadIds', NEW u \in ThreadIds', t # u,
             NEW n \in threads'[t].nodes \cap threads'[u].nodes
      PROVE  \E x \in DOMAIN intersections' :
               x.node = n /\ {t, u} \subseteq x.threads
  <2>1. CASE t # T /\ u # T
    <3>1. /\ t \in ThreadIds /\ u \in ThreadIds
          /\ n \in threads[t].nodes \cap threads[u].nodes
      BY <1>1, <1>5, <2>1
    <3> QED
      BY <1>3, <1>5, <3>1 DEF IInv, SharedNodesIntersect
  <2>2. CASE t = T
    BY <1>1, <1>4, <1>5, <2>2
  <2>3. CASE u = T
    BY <1>1, <1>4, <1>5, <2>3
  <2> QED
    BY <2>1, <2>2, <2>3
<1> QED
  BY <1>5 DEF SharedNodesIntersect

LEMMA FabricInvariant == Spec => []IInv
<1>1. Init => IInv
  BY DEF Init, IInv, TypeOK, ThreadsKnown, ParentsPrecede, SharedNodesIntersect,
     EnvelopeIds, ThreadIds, Policies, Crossings
<1>2. IInv /\ [Next]_vars => IInv'
  <2> SUFFICES ASSUME IInv, [Next]_vars PROVE IInv'
    OBVIOUS
  <2>1. CASE UNCHANGED vars
    BY <2>1 DEF vars, IInv, TypeOK, ThreadsKnown, ParentsPrecede,
       SharedNodesIntersect, EnvelopeIds, ThreadIds
  <2>2. CASE Next
    <3>1. PICK parent \in {0} \cup EnvelopeIds, layer \in Layers,
               blocked \in BOOLEAN, source \in Nodes, target \in Nodes :
            Emit(parent, layer, blocked, {source, target})
      BY <2>2 DEF Next
    <3> DEFINE ends == {source, target}
    <3>2. ends \in SUBSET Nodes /\ Emit(parent, layer, blocked, ends)
      BY <3>1
    <3> HIDE DEF ends
    <3>3. TypeOK' /\ ThreadsKnown'
      BY <3>2, TypeStep DEF IInv
    <3>4. ParentsPrecede' /\ SharedNodesIntersect'
      BY <3>2, ParentsStep, SharedStep
    <3> QED
      BY <3>3, <3>4 DEF IInv
  <2> QED
    BY <2>1, <2>2
<1> QED
  BY <1>1, <1>2, PTL DEF Spec

(***************************************************************************)
(* What threads and intersections record.                                  *)
(***************************************************************************)
Mine(t) == {id \in EnvelopeIds : envelopes[id].thread = t}

\* An intersection is of threads the bus has made.
CrossingsKnown == \A x \in DOMAIN intersections : x.threads \subseteq ThreadIds

FabricInv ==
  IInv /\ CrossingsKnown /\ ThreadsRecordTheirTraffic /\ IntersectionsJoinMeetingThreads

\* What the thread of a message has recorded before it: nothing, if it is new.
Before(t) == IF t \in ThreadIds THEN threads[t] ELSE NewThread

\* The thread of a message, with its record after it.
Recorded(parent, layer, ends) ==
  LET id == Len(envelopes) + 1
      t  == ThreadFor(parent)
  IN  /\ Before(t) \in Threads
      /\ threads'[t] = Carried(Before(t), id, layer, ends)
      /\ envelopes'[id].layer = layer /\ envelopes'[id].ends = ends

LEMMA ThreadEffect ==
  ASSUME TypeOK, ThreadsKnown,
         NEW parent \in {0} \cup EnvelopeIds, NEW layer \in Layers,
         NEW blocked \in BOOLEAN, NEW ends \in SUBSET Nodes,
         Emit(parent, layer, blocked, ends)
  PROVE  Recorded(parent, layer, ends)
<1> DEFINE id == Len(envelopes) + 1
           t  == ThreadFor(parent)
           e  == [parent |-> parent, thread |-> t, layer |-> layer,
                  blocked |-> blocked, ends |-> ends]
<1>1. /\ envelopes \in Seq(Envelopes) /\ threads \in Seq(Threads)
      /\ envelopes' = Append(envelopes, e)
      /\ threads' = ThreadsAfter(t, id, layer, ends)
  BY DEF Emit, TypeOK
<1>2. t \in ThreadIds \/ t = Len(threads) + 1
  BY <1>1 DEF ThreadFor, ThreadsKnown, ThreadIds
<1>3. NewThread \in Threads
  BY DEF NewThread, Threads
<1>4. envelopes'[id] = e
  BY <1>1
<1>5. Before(t) \in Threads
  BY <1>1, <1>3 DEF Before, ThreadIds
<1> HIDE DEF t, id
<1>6. CASE t \in ThreadIds
  BY <1>1, <1>4, <1>5, <1>6 DEF Recorded, ThreadsAfter, Before, ThreadIds, t, id
<1>7. CASE t \notin ThreadIds
  <2>1. threads' = Append(threads, Carried(NewThread, id, layer, ends))
    BY <1>1, <1>7 DEF ThreadsAfter
  <2>2. threads'[t] = Carried(NewThread, id, layer, ends)
    BY <1>1, <1>2, <1>7, <2>1
  <2> QED
    BY <1>4, <1>5, <1>7, <2>2 DEF Recorded, Before, t, id
<1> QED
  BY <1>6, <1>7

\* One more set in a union.
LEMMA UnionWithOne ==
  ASSUME NEW S, NEW e
  PROVE  UNION (S \cup {e}) = (UNION S) \cup e
<1>1. \A x : x \in UNION (S \cup {e}) <=> x \in UNION S \/ x \in e
  OBVIOUS
<1> QED
  BY <1>1

\* Each envelope is recorded by its thread, and by no other.
LEMMA TrafficStep ==
  ASSUME TypeOK, ThreadsKnown, ThreadsRecordTheirTraffic,
         NEW parent \in {0} \cup EnvelopeIds, NEW layer \in Layers,
         NEW blocked \in BOOLEAN, NEW ends \in SUBSET Nodes,
         Emit(parent, layer, blocked, ends)
  PROVE  ThreadsRecordTheirTraffic'
<1> DEFINE id == Len(envelopes) + 1
           T  == ThreadFor(parent)
<1>1. /\ EnvelopeIds' = EnvelopeIds \cup {id} /\ id \notin EnvelopeIds
      /\ \A i \in EnvelopeIds : envelopes'[i] = envelopes[i]
      /\ envelopes'[id].thread = T
      /\ ThreadIds' = ThreadIds \cup {T}
      /\ \A u \in ThreadIds : u # T => threads'[u] = threads[u]
  <2>1. Effect(parent, layer, blocked, ends)
    BY EmitEffect
  <2> QED
    BY <2>1 DEF Effect
<1>2. /\ Before(T) \in Threads
      /\ threads'[T] = Carried(Before(T), id, layer, ends)
      /\ envelopes'[id].layer = layer /\ envelopes'[id].ends = ends
  <2>1. Recorded(parent, layer, ends)
    BY ThreadEffect
  <2> QED
    BY <2>1 DEF Recorded
<1>3. id \in Nat /\ Len(envelopes) \in Nat
  BY DEF TypeOK
<1>4. TypeOK' /\ ThreadsKnown'
  BY TypeStep
<1> HIDE DEF id, T
<1>5. \A u : Mine(u)' = IF u = T THEN Mine(u) \cup {id} ELSE Mine(u)
  BY <1>1 DEF Mine
<1>6. \A u : id \notin Mine(u) /\ IsFiniteSet(Mine(u))
  <2>1. IsFiniteSet(EnvelopeIds)
    BY <1>3, FS_Interval DEF EnvelopeIds
  <2>2. \A u : Mine(u) \subseteq EnvelopeIds
    BY DEF Mine
  <2> QED
    BY <1>1, <2>1, <2>2, FS_Subset
<1>7. \A u \in ThreadIds :
        /\ {threads[u].envelopes[i] : i \in 1..Len(threads[u].envelopes)} = Mine(u)
        /\ Len(threads[u].envelopes) = Cardinality(Mine(u))
        /\ threads[u].nodes  = UNION {envelopes[i].ends : i \in Mine(u)}
        /\ threads[u].layers = {envelopes[i].layer : i \in Mine(u)}
  BY DEF ThreadsRecordTheirTraffic, Mine
<1>8. LET b == Before(T) IN
        /\ {b.envelopes[i] : i \in 1..Len(b.envelopes)} = Mine(T)
        /\ Len(b.envelopes) = Cardinality(Mine(T))
        /\ b.nodes  = UNION {envelopes[i].ends : i \in Mine(T)}
        /\ b.layers = {envelopes[i].layer : i \in Mine(T)}
  <2>1. CASE T \in ThreadIds
    BY <1>7, <2>1 DEF Before
  <2>2. CASE T \notin ThreadIds
    <3>1. Mine(T) = {}
      BY <2>2 DEF Mine, ThreadsKnown
    <3>2. Before(T) = NewThread
      BY <2>2 DEF Before
    <3>3. Cardinality({}) = 0
      BY FS_EmptySet
    <3> QED
      BY <3>1, <3>2, <3>3 DEF NewThread
  <2> QED
    BY <2>1, <2>2
<1>9. LET c == threads'[T] IN
        /\ {c.envelopes[i] : i \in 1..Len(c.envelopes)} = Mine(T) \cup {id}
        /\ Len(c.envelopes) = Cardinality(Mine(T) \cup {id})
        /\ c.nodes  = UNION {envelopes'[i].ends : i \in Mine(T) \cup {id}}
        /\ c.layers = {envelopes'[i].layer : i \in Mine(T) \cup {id}}
  <2> DEFINE b == Before(T)
             l == threads'[T].envelopes
  <2>1. /\ l = Append(b.envelopes, id)
        /\ threads'[T].nodes = b.nodes \cup ends
        /\ threads'[T].layers = b.layers \cup {layer}
    BY <1>2 DEF Carried
  <2>2. b.envelopes \in Seq(Nat \ {0})
    BY <1>2 DEF Threads
  <2>3. /\ Len(l) = Len(b.envelopes) + 1 /\ Len(b.envelopes) \in Nat
        /\ \A i \in 1..Len(b.envelopes) : l[i] = b.envelopes[i]
        /\ l[Len(b.envelopes) + 1] = id
    BY <2>1, <2>2
  <2>4. \A i \in Mine(T) : envelopes'[i] = envelopes[i]
    BY <1>1 DEF Mine
  <2>5. Cardinality(Mine(T) \cup {id}) = Cardinality(Mine(T)) + 1
    BY <1>6, FS_AddElement
  <2> HIDE DEF b, l
  <2>6. {l[i] : i \in 1..Len(l)} = {b.envelopes[i] : i \in 1..Len(b.envelopes)} \cup {id}
    <3>1. 1..Len(l) = 1..Len(b.envelopes) \cup {Len(b.envelopes) + 1}
      BY <2>3
    <3> QED
      BY <2>3, <3>1
  <2>7. UNION {envelopes'[i].ends : i \in Mine(T) \cup {id}}
          = (UNION {envelopes[i].ends : i \in Mine(T)}) \cup ends
    <3>1. {envelopes'[i].ends : i \in Mine(T) \cup {id}}
            = {envelopes[i].ends : i \in Mine(T)} \cup {ends}
      BY <1>2, <2>4
    <3> QED
      BY <3>1, UnionWithOne
  <2>8. {envelopes'[i].layer : i \in Mine(T) \cup {id}}
          = {envelopes[i].layer : i \in Mine(T)} \cup {layer}
    BY <1>2, <2>4
  <2>9. /\ {b.envelopes[i] : i \in 1..Len(b.envelopes)} = Mine(T)
        /\ Len(b.envelopes) = Cardinality(Mine(T))
        /\ b.nodes  = UNION {envelopes[i].ends : i \in Mine(T)}
        /\ b.layers = {envelopes[i].layer : i \in Mine(T)}
    BY <1>8 DEF b
  <2>10. {l[i] : i \in 1..Len(l)} = Mine(T) \cup {id}
    BY <2>6, <2>9
  <2>11. Len(l) = Cardinality(Mine(T) \cup {id})
    BY <2>3, <2>5, <2>9
  <2>12. threads'[T].nodes = UNION {envelopes'[i].ends : i \in Mine(T) \cup {id}}
    BY <2>1, <2>7, <2>9
  <2>13. threads'[T].layers = {envelopes'[i].layer : i \in Mine(T) \cup {id}}
    BY <2>1, <2>8, <2>9
  <2> QED
    BY <2>10, <2>11, <2>12, <2>13 DEF l
<1>10. ASSUME NEW u \in ThreadIds'
       PROVE  /\ {threads'[u].envelopes[i] : i \in 1..Len(threads'[u].envelopes)} = Mine(u)'
              /\ Len(threads'[u].envelopes) = Cardinality(Mine(u)')
              /\ threads'[u].nodes  = UNION {envelopes'[i].ends : i \in Mine(u)'}
              /\ threads'[u].layers = {envelopes'[i].layer : i \in Mine(u)'}
  <2>1. CASE u = T
    BY <1>5, <1>9, <2>1
  <2>2. CASE u # T
    <3>1. u \in ThreadIds /\ threads'[u] = threads[u] /\ Mine(u)' = Mine(u)
      BY <1>1, <1>5, <2>2
    <3>2. \A i \in Mine(u) : envelopes'[i] = envelopes[i]
      BY <1>1 DEF Mine
    <3> QED
      BY <1>7, <3>1, <3>2
  <2> QED
    BY <2>1, <2>2
<1> QED
  BY <1>4, <1>10 DEF ThreadsRecordTheirTraffic, ThreadsKnown, Mine

(***************************************************************************)
(* Intersections and backpressure.                                         *)
(***************************************************************************)
\* The intersections one message finds: at each end, those who crossed there.
Found(t, ends) ==
  IF CrossedBy(t, ends) = {} THEN {}
  ELSE {[node |-> n, threads |-> CrossedBy(t, ends) \cup {t}] : n \in ends}

LEMMA CrossedByFound ==
  ASSUME NEW t, NEW ends, NEW blocked
  PROVE  Crossed(t, ends, blocked)
           = [x \in DOMAIN intersections \cup Found(t, ends) |->
                IF x \in Found(t, ends) /\ blocked THEN "backpressure"
                ELSE IF x \in DOMAIN intersections THEN intersections[x]
                ELSE "shared_node"]
  BY DEF Crossed, Found

\* Two different members make a finite set of at least two.
LEMMA TwoMembers ==
  ASSUME NEW S, IsFiniteSet(S), NEW a \in S, NEW b \in S, a # b
  PROVE  Cardinality(S) >= 2
<1>1. Cardinality({a, b}) = 2
  <2>1. IsFiniteSet({a}) /\ Cardinality({a}) = 1
    BY FS_Singleton
  <2>2. Cardinality({a} \cup {b}) = Cardinality({a}) + 1
    BY <2>1, FS_AddElement
  <2>3. {a} \cup {b} = {a, b}
    OBVIOUS
  <2> QED
    BY <2>1, <2>2, <2>3
<1>2. Cardinality({a, b}) <= Cardinality(S)
  BY FS_Subset
<1>3. Cardinality(S) \in Nat
  BY FS_CardinalityType
<1> QED
  BY <1>1, <1>2, <1>3

\* An intersection found now is of threads that meet the thread of the message
\* at one of its ends; one found before is of threads that met before, and
\* threads forget no node.
LEMMA CrossingsStep ==
  ASSUME TypeOK, ThreadsKnown, CrossingsKnown, IntersectionsJoinMeetingThreads,
         NEW parent \in {0} \cup EnvelopeIds, NEW layer \in Layers,
         NEW blocked \in BOOLEAN, NEW ends \in SUBSET Nodes, ends # {},
         Emit(parent, layer, blocked, ends)
  PROVE  CrossingsKnown' /\ IntersectionsJoinMeetingThreads'
<1> DEFINE T == ThreadFor(parent)
<1>1. /\ ThreadIds' = ThreadIds \cup {T}
      /\ \A u \in ThreadIds : u # T => threads'[u] = threads[u]
      /\ T \in ThreadIds => threads'[T].nodes = threads[T].nodes \cup ends
      /\ T \notin ThreadIds => threads'[T].nodes = ends
  <2>1. Effect(parent, layer, blocked, ends)
    BY EmitEffect
  <2> QED
    BY <2>1 DEF Effect
<1>2. DOMAIN intersections' = DOMAIN intersections \cup Found(T, ends)
  BY CrossedByFound DEF Emit
<1>3. CrossedBy(T, ends) \subseteq ThreadIds \ {T}
  BY DEF CrossedBy
<1>4. \A u \in CrossedBy(T, ends) : threads[u].nodes \cap ends # {}
  BY DEF CrossedBy
<1>5. IsFiniteSet(CrossedBy(T, ends) \cup {T})
  <2>1. Len(threads) \in Nat
    BY DEF TypeOK
  <2>2. IsFiniteSet(ThreadIds)
    BY <2>1, FS_Interval DEF ThreadIds
  <2>3. IsFiniteSet(CrossedBy(T, ends))
    BY <1>3, <2>2, FS_Subset
  <2> QED
    BY <2>3, FS_AddElement
<1> HIDE DEF T
<1>6. \A u \in ThreadIds : threads[u].nodes \subseteq threads'[u].nodes
  BY <1>1
<1>7. ends \subseteq threads'[T].nodes
  BY <1>1
<1>8. ASSUME NEW x \in Found(T, ends)
      PROVE  /\ x.threads \subseteq ThreadIds'
             /\ Cardinality(x.threads) >= 2
             /\ \E t \in x.threads : \A u \in x.threads :
                  threads'[t].nodes \cap threads'[u].nodes # {}
  <2>1. CrossedBy(T, ends) # {} /\ x.threads = CrossedBy(T, ends) \cup {T}
    BY <1>8 DEF Found
  <2>2. x.threads \subseteq ThreadIds'
    BY <1>1, <1>3, <2>1
  <2>3. Cardinality(x.threads) >= 2
    <3>1. PICK u \in CrossedBy(T, ends) : TRUE
      BY <2>1
    <3>2. u # T
      BY <1>3, <3>1
    <3> QED
      BY <1>5, <2>1, <3>1, <3>2, TwoMembers
  <2>4. \A u \in x.threads : threads'[T].nodes \cap threads'[u].nodes # {}
    <3>1. \A u \in CrossedBy(T, ends) : threads'[T].nodes \cap threads'[u].nodes # {}
      BY <1>3, <1>4, <1>6, <1>7
    <3>2. threads'[T].nodes \cap threads'[T].nodes # {}
      BY <1>7
    <3> QED
      BY <2>1, <3>1, <3>2
  <2> QED
    BY <2>1, <2>2, <2>3, <2>4
<1>9. ASSUME NEW x \in DOMAIN intersections
      PROVE  /\ x.threads \subseteq ThreadIds'
             /\ Cardinality(x.threads) >= 2
             /\ \E t \in x.threads : \A u \in x.threads :
                  threads'[t].nodes \cap threads'[u].nodes # {}
  <2>1. x.threads \subseteq ThreadIds /\ Cardinality(x.threads) >= 2
    BY DEF CrossingsKnown, IntersectionsJoinMeetingThreads
  <2>2. PICK t \in x.threads : \A u \in x.threads :
          threads[t].nodes \cap threads[u].nodes # {}
    BY DEF IntersectionsJoinMeetingThreads
  <2>3. \A u \in x.threads : threads'[t].nodes \cap threads'[u].nodes # {}
    BY <1>6, <2>1, <2>2
  <2> QED
    BY <1>1, <2>1, <2>3
<1> QED
  BY <1>2, <1>8, <1>9 DEF CrossingsKnown, IntersectionsJoinMeetingThreads

\* Only a blocked message sets backpressure, on what it crosses, and no message
\* takes it back.  An intersection of the message's thread alone cannot be
\* meant: an intersection is of two threads at least.
LEMMA BackpressureStep ==
  ASSUME TypeOK, ThreadsKnown, IntersectionsJoinMeetingThreads,
         NEW parent \in {0} \cup EnvelopeIds, NEW layer \in Layers,
         NEW blocked \in BOOLEAN, NEW ends \in SUBSET Nodes,
         Emit(parent, layer, blocked, ends),
         NEW x \in DOMAIN intersections'
  PROVE  LET last == envelopes'[Len(envelopes')]
             held == x \in DOMAIN intersections /\ intersections[x] = "backpressure"
             hit  == /\ last.blocked
                     /\ x.node \in last.ends
                     /\ x.threads = CrossedBy(last.thread, last.ends) \cup {last.thread}
         IN  intersections'[x] = "backpressure" <=> held \/ hit
<1> DEFINE T == ThreadFor(parent)
           F == Found(T, ends)
           e == [parent |-> parent, thread |-> T, layer |-> layer,
                 blocked |-> blocked, ends |-> ends]
<1>1. envelopes'[Len(envelopes')] = e
  <2>1. envelopes' = Append(envelopes, e) /\ envelopes \in Seq(Envelopes)
    BY DEF Emit, TypeOK
  <2> HIDE DEF e
  <2> QED
    BY <2>1
<1>2. e.blocked = blocked /\ e.ends = ends /\ e.thread = T
  OBVIOUS
<1>3. intersections' = [y \in DOMAIN intersections \cup F |->
         IF y \in F /\ blocked THEN "backpressure"
         ELSE IF y \in DOMAIN intersections THEN intersections[y] ELSE "shared_node"]
  BY CrossedByFound DEF Emit
<1>4. x \in DOMAIN intersections \cup F
  BY <1>3
<1>5. x \in F <=> x.node \in ends /\ x.threads = CrossedBy(T, ends) \cup {T}
  <2>1. x \in F => x.node \in ends /\ x.threads = CrossedBy(T, ends) \cup {T}
    BY DEF Found
  <2>2. ASSUME x.node \in ends, x.threads = CrossedBy(T, ends) \cup {T}, x \notin F
        PROVE  FALSE
    <3>1. x \in DOMAIN intersections
      BY <1>4, <2>2
    <3>2. x = [node |-> x.node, threads |-> x.threads]
      BY <3>1 DEF TypeOK, Crossings
    <3>3. CrossedBy(T, ends) = {}
      BY <2>2, <3>2 DEF Found
    <3>4. Cardinality(x.threads) = 1
      BY <2>2, <3>3, FS_Singleton
    <3>5. Cardinality(x.threads) >= 2
      BY <3>1 DEF IntersectionsJoinMeetingThreads
    <3> QED
      BY <3>4, <3>5
  <2> QED
    BY <2>1, <2>2
<1> HIDE DEF T, F, e
<1>6. intersections'[x] = "backpressure"
        <=> (x \in DOMAIN intersections /\ intersections[x] = "backpressure") \/ (x \in F /\ blocked)
  BY <1>3, <1>4
<1> QED
  BY <1>1, <1>2, <1>5, <1>6

\* The invariant of the bus with all it records.
LEMMA RecordInvariant == Spec => []FabricInv
<1>1. Init => FabricInv
  <2> SUFFICES ASSUME Init PROVE FabricInv
    OBVIOUS
  <2>1. IInv
    BY DEF Init, IInv, TypeOK, ThreadsKnown, ParentsPrecede, SharedNodesIntersect,
       EnvelopeIds, ThreadIds, Policies, Crossings
  <2>2. EnvelopeIds = {} /\ ThreadIds = {} /\ DOMAIN intersections = {}
    BY DEF Init, EnvelopeIds, ThreadIds
  <2> QED
    BY <2>1, <2>2 DEF FabricInv, CrossingsKnown, ThreadsRecordTheirTraffic,
       IntersectionsJoinMeetingThreads
<1>2. FabricInv /\ IInv' /\ [Next]_vars => FabricInv'
  <2> SUFFICES ASSUME FabricInv, IInv', [Next]_vars PROVE FabricInv'
    OBVIOUS
  <2>1. CASE UNCHANGED vars
    <3>1. UNCHANGED <<envelopes, threads, intersections, EnvelopeIds, ThreadIds>>
      BY <2>1 DEF vars, EnvelopeIds, ThreadIds
    <3>2. CrossingsKnown' /\ IntersectionsJoinMeetingThreads'
      BY <3>1 DEF FabricInv, CrossingsKnown, IntersectionsJoinMeetingThreads
    <3>3. ThreadsRecordTheirTraffic'
      <4>1. \A u : Mine(u)' = Mine(u)
        BY <3>1 DEF Mine
      <4>2. ASSUME NEW u \in ThreadIds
            PROVE  /\ {threads'[u].envelopes[i] : i \in 1..Len(threads'[u].envelopes)} = Mine(u)'
                   /\ Len(threads'[u].envelopes) = Cardinality(Mine(u)')
                   /\ threads'[u].nodes  = UNION {envelopes'[i].ends : i \in Mine(u)'}
                   /\ threads'[u].layers = {envelopes'[i].layer : i \in Mine(u)'}
        <5>1. /\ {threads[u].envelopes[i] : i \in 1..Len(threads[u].envelopes)} = Mine(u)
              /\ Len(threads[u].envelopes) = Cardinality(Mine(u))
              /\ threads[u].nodes  = UNION {envelopes[i].ends : i \in Mine(u)}
              /\ threads[u].layers = {envelopes[i].layer : i \in Mine(u)}
          BY DEF FabricInv, ThreadsRecordTheirTraffic, Mine
        <5>2. threads'[u] = threads[u] /\ \A i \in Mine(u) : envelopes'[i] = envelopes[i]
          BY <3>1
        <5> QED
          BY <4>1, <5>1, <5>2
      <4> QED
        BY <3>1, <4>2 DEF FabricInv, ThreadsRecordTheirTraffic, Mine
    <3> QED
      BY <3>2, <3>3 DEF FabricInv
  <2>2. CASE Next
    <3>1. PICK parent \in {0} \cup EnvelopeIds, layer \in Layers,
               blocked \in BOOLEAN, source \in Nodes, target \in Nodes :
            Emit(parent, layer, blocked, {source, target})
      BY <2>2 DEF Next
    <3> DEFINE ends == {source, target}
    <3>2. ends \in SUBSET Nodes /\ ends # {} /\ Emit(parent, layer, blocked, ends)
      BY <3>1
    <3> HIDE DEF ends
    <3>3. TypeOK /\ ThreadsKnown
      BY DEF FabricInv, IInv
    <3>4. ThreadsRecordTheirTraffic'
      BY <3>2, <3>3, TrafficStep DEF FabricInv
    <3>5. CrossingsKnown' /\ IntersectionsJoinMeetingThreads'
      BY <3>2, <3>3, CrossingsStep DEF FabricInv
    <3> QED
      BY <3>4, <3>5 DEF FabricInv
  <2> QED
    BY <2>1, <2>2
<1> QED
  BY <1>1, <1>2, FabricInvariant, PTL DEF Spec

\* What a thread has recorded is what its envelopes say: their ids, each once,
\* their nodes and their layers (record_fabric, push_unique).
THEOREM ThreadsKeepRecord == Spec => []ThreadsRecordTheirTraffic
<1>1. FabricInv => ThreadsRecordTheirTraffic
  BY DEF FabricInv
<1> QED
  BY <1>1, RecordInvariant, PTL

\* An intersection joins two threads or more, one of which shares a node with
\* each of the others (add_intersection).
THEOREM IntersectionsAreMeetings == Spec => []IntersectionsJoinMeetingThreads
<1>1. FabricInv => IntersectionsJoinMeetingThreads
  BY DEF FabricInv
<1> QED
  BY <1>1, RecordInvariant, PTL

\* Backpressure is set by a blocked message on what it crosses, by nothing else,
\* and never taken back.
THEOREM BackpressureIsKept == Spec => BackpressureSticks
<1> DEFINE Sticks(x) ==
      LET last == envelopes'[Len(envelopes')]
          held == x \in DOMAIN intersections /\ intersections[x] = "backpressure"
          hit  == /\ last.blocked
                  /\ x.node \in last.ends
                  /\ x.threads = CrossedBy(last.thread, last.ends) \cup {last.thread}
      IN  intersections'[x] = "backpressure" <=> held \/ hit
<1>1. FabricInv /\ [Next]_vars => [\A x \in DOMAIN intersections' : Sticks(x)]_vars
  <2> SUFFICES ASSUME FabricInv, Next, NEW x \in DOMAIN intersections'
               PROVE  Sticks(x)
    OBVIOUS
  <2>1. PICK parent \in {0} \cup EnvelopeIds, layer \in Layers,
             blocked \in BOOLEAN, source \in Nodes, target \in Nodes :
          Emit(parent, layer, blocked, {source, target})
    BY DEF Next
  <2>2. TypeOK /\ ThreadsKnown /\ IntersectionsJoinMeetingThreads
    BY DEF FabricInv, IInv
  <2>3. {source, target} \in SUBSET Nodes
    BY <2>1
  <2> QED
    BY <2>1, <2>2, <2>3, BackpressureStep
<1> QED
  BY <1>1, RecordInvariant, PTL DEF Spec, BackpressureSticks

\* Walking from an envelope to its parents ends and never leaves its thread.
THEOREM RoutesEnd == Spec => []ParentsPrecede
<1>1. IInv => ParentsPrecede
  BY DEF IInv
<1> QED
  BY <1>1, FabricInvariant, PTL

\* No meeting of two threads goes unrecorded.
THEOREM MeetingsAreRecorded == Spec => []SharedNodesIntersect
<1>1. IInv => SharedNodesIntersect
  BY DEF IInv
<1> QED
  BY <1>1, FabricInvariant, PTL

\* The bus keeps to its types.
THEOREM BusTyping == Spec => []TypeOK
<1>1. IInv => TypeOK
  BY DEF IInv
<1> QED
  BY <1>1, FabricInvariant, PTL

(***************************************************************************)
(* Routes.  A route is walked by a recursive function over the parents.    *)
(* That the function exists, and what it gives, is shown along the         *)
(* messages: the next message adds one value to it and leaves the others.  *)
(***************************************************************************)
WalksUp(up, e) ==
  up = [n \in {0} \cup 1..Len(e) |->
          IF n = 0 THEN <<>> ELSE Append(up[e[n].parent], n)]

Follows(r, id, e) ==
  /\ r \in Seq(1..Len(e)) /\ r # <<>> /\ r[Len(r)] = id
  /\ \A i \in 1..Len(r) : e[r[i]].thread = e[id].thread
  /\ \A i, j \in 1..Len(r) : i < j => r[i] < r[j]

RoutesExist == \E up : WalksUp(up, envelopes)

RoutesAreWalked ==
  \A up : WalksUp(up, envelopes) =>
    \A id \in EnvelopeIds : Follows(up[id], id, envelopes)

ThreadsInOrder ==
  \A t \in ThreadIds : \A k, l \in 1..Len(threads[t].envelopes) :
    k < l => threads[t].envelopes[k] < threads[t].envelopes[l]

RouteInv == FabricInv /\ ThreadsInOrder /\ RoutesExist /\ RoutesAreWalked

\* Route is the value of a function that walks up.
LEMMA RouteIsWalked ==
  ASSUME RoutesExist, NEW id \in EnvelopeIds
  PROVE  \E up : WalksUp(up, envelopes) /\ Route(id) = up[id]
<1> DEFINE w == CHOOSE up : WalksUp(up, envelopes)
<1>1. WalksUp(w, envelopes)
  BY DEF RoutesExist
<1>2. Route(id) = w[id]
  BY DEF Route, WalksUp, EnvelopeIds
<1> QED
  BY <1>1, <1>2


\* One message more: the same routes, and one that goes on from its parent's.
LEMMA WalkGrows ==
  ASSUME NEW e \in Seq(Envelopes), NEW f \in Envelopes,
         f.parent \in {0} \cup 1..Len(e),
         \A n \in 1..Len(e) : e[n].parent \in {0} \cup 1..Len(e)
  PROVE  LET id == Len(e) + 1 IN
         /\ \A up : WalksUp(up, e) =>
              WalksUp([n \in {0} \cup 1..id |->
                         IF n = id THEN Append(up[f.parent], id) ELSE up[n]], Append(e, f))
         /\ \A up : WalksUp(up, Append(e, f)) =>
              /\ WalksUp([n \in {0} \cup 1..Len(e) |-> up[n]], e)
              /\ up[0] = <<>> /\ up[id] = Append(up[f.parent], id)
<1> DEFINE id == Len(e) + 1
           g  == Append(e, f)
<1>1. /\ Len(g) = id /\ g[id] = f /\ id \in Nat /\ Len(e) \in Nat
      /\ \A n \in 1..Len(e) : g[n] = e[n]
      /\ 1..id = 1..Len(e) \cup {id}
  OBVIOUS
<1>2. ASSUME NEW up, WalksUp(up, e)
      PROVE  WalksUp([n \in {0} \cup 1..id |->
                        IF n = id THEN Append(up[f.parent], id) ELSE up[n]], g)
  <2> DEFINE more == [n \in {0} \cup 1..id |->
                        IF n = id THEN Append(up[f.parent], id) ELSE up[n]]
  <2>1. more[0] = <<>>
    BY <1>1, <1>2 DEF WalksUp
  <2>2. ASSUME NEW n \in 1..Len(e)
        PROVE  more[n] = Append(more[g[n].parent], n)
    <3>1. g[n].parent \in {0} \cup 1..Len(e) /\ g[n] = e[n]
      BY <1>1
    <3>2. more[g[n].parent] = up[e[n].parent] /\ more[n] = up[n]
      BY <1>1, <3>1
    <3>3. n # 0 /\ n \in {0} \cup 1..Len(e)
      BY <1>1
    <3> HIDE DEF more
    <3>4. up[n] = IF n = 0 THEN <<>> ELSE Append(up[e[n].parent], n)
      BY <1>2, <3>3 DEF WalksUp
    <3> QED
      BY <3>2, <3>3, <3>4
  <2>3. more[id] = Append(more[g[id].parent], id)
    <3>1. more[f.parent] = up[f.parent]
      BY <1>1
    <3> QED
      BY <1>1, <3>1
  <2>4. \A n \in {0} \cup 1..id :
          more[n] = IF n = 0 THEN <<>> ELSE Append(more[g[n].parent], n)
    BY <1>1, <2>1, <2>2, <2>3
  <2>5. more = [n \in {0} \cup 1..id |-> more[n]]
    OBVIOUS
  <2> HIDE DEF more
  <2>6. more = [n \in {0} \cup 1..id |->
                  IF n = 0 THEN <<>> ELSE Append(more[g[n].parent], n)]
    BY <2>4, <2>5
  <2>7. WalksUp(more, g)
    BY <1>1, <2>6 DEF WalksUp
  <2> QED
    BY <2>7 DEF more
<1>3. ASSUME NEW up, WalksUp(up, g)
      PROVE  /\ WalksUp([n \in {0} \cup 1..Len(e) |-> up[n]], e)
             /\ up[0] = <<>> /\ up[id] = Append(up[f.parent], id)
  <2> DEFINE less == [n \in {0} \cup 1..Len(e) |-> up[n]]
  <2>1. \A n \in {0} \cup 1..id :
          up[n] = IF n = 0 THEN <<>> ELSE Append(up[g[n].parent], n)
    BY <1>1, <1>3 DEF WalksUp
  <2>2. ASSUME NEW n \in 1..Len(e)
        PROVE  less[n] = Append(less[e[n].parent], n)
    <3>1. g[n] = e[n] /\ less[e[n].parent] = up[e[n].parent]
      BY <1>1
    <3>2. n # 0 /\ n \in {0} \cup 1..id
      BY <1>1
    <3> HIDE DEF less, g, id
    <3>3. up[n] = IF n = 0 THEN <<>> ELSE Append(up[g[n].parent], n)
      BY <2>1, <3>2
    <3>4. less[n] = up[n]
      BY DEF less
    <3> QED
      BY <3>1, <3>2, <3>3, <3>4
  <2>3. less[0] = <<>> /\ up[0] = <<>>
    BY <1>1, <2>1
  <2>4. up[id] = Append(up[f.parent], id)
    <3>1. id # 0 /\ id \in {0} \cup 1..id
      BY <1>1
    <3> HIDE DEF less, g, id
    <3>2. up[id] = IF id = 0 THEN <<>> ELSE Append(up[g[id].parent], id)
      BY <2>1, <3>1
    <3> QED
      BY <1>1, <3>1, <3>2
  <2>5. less = [n \in {0} \cup 1..Len(e) |-> less[n]]
    OBVIOUS
  <2> HIDE DEF less
  <2>6. \A n \in {0} \cup 1..Len(e) :
          less[n] = IF n = 0 THEN <<>> ELSE Append(less[e[n].parent], n)
    BY <1>1, <2>2, <2>3
  <2>7. WalksUp(less, e)
    BY <2>5, <2>6 DEF WalksUp
  <2> QED
    BY <2>3, <2>4, <2>7 DEF less
<1> QED
  BY <1>2, <1>3

\* What follows a thread goes on doing so, and goes on by one.
LEMMA FollowsGrows ==
  ASSUME NEW e \in Seq(Envelopes), NEW f \in Envelopes,
         NEW p \in 1..Len(e), NEW r, Follows(r, p, e)
  PROVE  LET id == Len(e) + 1 IN
         /\ Follows(r, p, Append(e, f))
         /\ f.thread = e[p].thread => Follows(Append(r, id), id, Append(e, f))
<1> DEFINE id == Len(e) + 1
           g  == Append(e, f)
           s  == Append(r, id)
<1>1. /\ Len(g) = id /\ g[id] = f /\ id \in Nat /\ Len(e) \in Nat
      /\ \A n \in 1..Len(e) : g[n] = e[n]
  OBVIOUS
<1>2. /\ r \in Seq(1..Len(e)) /\ r # <<>> /\ r[Len(r)] = p
      /\ \A i \in 1..Len(r) : e[r[i]].thread = e[p].thread
      /\ \A i, j \in 1..Len(r) : i < j => r[i] < r[j]
  BY DEF Follows
<1>3. \A i \in 1..Len(r) : r[i] \in 1..Len(e) /\ r[i] < id /\ g[r[i]] = e[r[i]]
  BY <1>1, <1>2
<1>4. r \in Seq(1..id) /\ Len(r) \in Nat
  BY <1>1, <1>2
<1>5. Follows(r, p, g)
  <2>1. \A i \in 1..Len(r) : g[r[i]].thread = g[p].thread
    BY <1>1, <1>2, <1>3
  <2> QED
    BY <1>1, <1>2, <1>4, <2>1 DEF Follows
<1>6. ASSUME f.thread = e[p].thread
      PROVE  Follows(s, id, g)
  <2>1. /\ s \in Seq(1..id) /\ Len(s) = Len(r) + 1 /\ s[Len(s)] = id /\ s # <<>>
        /\ \A i \in 1..Len(r) : s[i] = r[i]
    BY <1>1, <1>4
  <2> HIDE DEF s, g, id
  <2>2. ASSUME NEW i \in 1..Len(s) PROVE g[s[i]].thread = g[id].thread
    <3>1. CASE i = Len(s)
      BY <2>1, <3>1
    <3>2. CASE i \in 1..Len(r)
      <4>1. s[i] = r[i] /\ g[r[i]] = e[r[i]]
        BY <1>3, <2>1, <3>2
      <4>2. e[r[i]].thread = e[p].thread
        BY <1>2, <3>2
      <4> QED
        BY <1>1, <1>6, <4>1, <4>2
    <3> QED
      BY <1>4, <2>1, <3>1, <3>2
  <2>3. ASSUME NEW i \in 1..Len(s), NEW j \in 1..Len(s), i < j
        PROVE  s[i] < s[j]
    <3>1. i \in 1..Len(r)
      BY <1>4, <2>1, <2>3
    <3>2. CASE j = Len(s)
      BY <1>3, <2>1, <3>1, <3>2
    <3>3. CASE j \in 1..Len(r)
      BY <1>2, <2>1, <2>3, <3>1, <3>3
    <3> QED
      BY <1>4, <2>1, <3>2, <3>3
  <2> QED
    BY <1>1, <2>1, <2>2, <2>3 DEF Follows
<1> QED
  BY <1>5, <1>6


\* What a thread has recorded are messages of its own.
LEMMA RecordsAreEnvelopes ==
  ASSUME ThreadsRecordTheirTraffic, NEW t \in ThreadIds
  PROVE  /\ \A k \in 1..Len(threads[t].envelopes) :
              threads[t].envelopes[k] \in EnvelopeIds
         /\ \A n \in EnvelopeIds : envelopes[n].thread = t =>
              \E k \in 1..Len(threads[t].envelopes) : threads[t].envelopes[k] = n
<1> DEFINE s == threads[t].envelopes
<1>1. {s[i] : i \in 1..Len(s)} = Mine(t)
  BY DEF ThreadsRecordTheirTraffic, Mine
<1> HIDE DEF s
<1>2. Mine(t) = {n \in EnvelopeIds : envelopes[n].thread = t}
  BY DEF Mine
<1>3. \A k \in 1..Len(s) : s[k] \in EnvelopeIds
  <2>1. \A k \in 1..Len(s) : s[k] \in {s[i] : i \in 1..Len(s)}
    OBVIOUS
  <2> QED
    BY <1>1, <1>2, <2>1
<1>4. \A n \in Mine(t) : \E k \in 1..Len(s) : s[k] = n
  <2>1. \A n \in {s[i] : i \in 1..Len(s)} : \E k \in 1..Len(s) : s[k] = n
    OBVIOUS
  <2> QED
    BY <1>1, <2>1
<1> QED
  BY <1>2, <1>3, <1>4 DEF s

\* A message has the highest id so far, and is put last on its thread.
LEMMA OrderStep ==
  ASSUME TypeOK, ThreadsKnown, ThreadsRecordTheirTraffic, ThreadsInOrder,
         NEW parent \in {0} \cup EnvelopeIds, NEW layer \in Layers,
         NEW blocked \in BOOLEAN, NEW ends \in SUBSET Nodes,
         Emit(parent, layer, blocked, ends)
  PROVE  ThreadsInOrder'
<1> DEFINE id == Len(envelopes) + 1
           T  == ThreadFor(parent)
           before == Before(T).envelopes
<1>1. /\ ThreadIds' = ThreadIds \cup {T}
      /\ \A u \in ThreadIds : u # T => threads'[u] = threads[u]
      /\ \A i \in EnvelopeIds : i < id
  BY EmitEffect DEF Effect
<1>2. /\ Before(T) \in Threads
      /\ threads'[T] = Carried(Before(T), id, layer, ends)
      /\ envelopes'[id].layer = layer /\ envelopes'[id].ends = ends
  <2>1. Recorded(parent, layer, ends)
    BY ThreadEffect
  <2> QED
    BY <2>1 DEF Recorded
<1>3. /\ before \in Seq(Nat \ {0}) /\ id \in Nat
      /\ threads'[T].envelopes = Append(before, id)
  BY <1>2 DEF Threads, Carried, TypeOK
<1>4. \A k \in 1..Len(before) : before[k] < id
  <2> HIDE DEF T, id
  <2>1. CASE T \in ThreadIds
    <3>1. Before(T) = threads[T]
      BY <2>1 DEF Before
    <3>2. \A k \in 1..Len(before) : before[k] \in EnvelopeIds
      BY <2>1, <3>1, RecordsAreEnvelopes
    <3> QED
      BY <1>1, <3>2
  <2>2. CASE T \notin ThreadIds
    BY <2>2 DEF Before, NewThread
  <2> QED
    BY <2>1, <2>2
<1>5. \A k, l \in 1..Len(before) : k < l => before[k] < before[l]
  BY DEF Before, NewThread, ThreadsInOrder
<1> HIDE DEF id, before, T
<1>6. \A k, l \in 1..Len(Append(before, id)) :
        k < l => Append(before, id)[k] < Append(before, id)[l]
  <2>1. /\ Len(Append(before, id)) = Len(before) + 1 /\ Len(before) \in Nat
        /\ Append(before, id)[Len(before) + 1] = id
        /\ \A k \in 1..Len(before) : Append(before, id)[k] = before[k]
    BY <1>3
  <2> SUFFICES ASSUME NEW k \in 1..(Len(before) + 1), NEW l \in 1..(Len(before) + 1), k < l
               PROVE  Append(before, id)[k] < Append(before, id)[l]
    BY <2>1
  <2>2. k \in 1..Len(before)
    BY <2>1
  <2>3. CASE l = Len(before) + 1
    BY <1>4, <2>1, <2>2, <2>3
  <2>4. CASE l \in 1..Len(before)
    BY <1>5, <2>1, <2>2, <2>4
  <2> QED
    BY <2>1, <2>3, <2>4
<1> QED
  BY <1>1, <1>3, <1>6 DEF ThreadsInOrder

\* A message leaves the routes as they are and has one of its own.
LEMMA RoutesStep ==
  ASSUME IInv, RoutesExist, RoutesAreWalked,
         NEW parent \in {0} \cup EnvelopeIds, NEW layer \in Layers,
         NEW blocked \in BOOLEAN, NEW ends \in SUBSET Nodes,
         Emit(parent, layer, blocked, ends)
  PROVE  RoutesExist' /\ RoutesAreWalked'
<1> DEFINE e  == envelopes
           id == Len(envelopes) + 1
           f  == [parent |-> parent, thread |-> ThreadFor(parent), layer |-> layer,
                  blocked |-> blocked, ends |-> ends]
<1>1. /\ e \in Seq(Envelopes) /\ envelopes' = Append(e, f)
      /\ id \in Nat /\ EnvelopeIds' = EnvelopeIds \cup {id} /\ EnvelopeIds = 1..Len(e)
  <2>1. e \in Seq(Envelopes) /\ envelopes' = Append(e, f)
    BY DEF IInv, TypeOK, Emit
  <2>2. EnvelopeIds' = EnvelopeIds \cup {id}
    BY EmitEffect DEF IInv, Effect
  <2> QED
    BY <2>1, <2>2 DEF EnvelopeIds
<1>2. f \in Envelopes /\ f.parent = parent
  <2>1. ThreadFor(parent) \in Nat \ {0}
    BY EmitEffect DEF IInv, Effect
  <2>2. parent \in Nat
    BY <1>1
  <2> QED
    BY <2>1, <2>2 DEF Envelopes
<1>3. \A n \in 1..Len(e) : e[n].parent \in {0} \cup 1..Len(e)
  <2> SUFFICES ASSUME NEW n \in 1..Len(e) PROVE e[n].parent \in {0} \cup 1..Len(e)
    OBVIOUS
  <2>1. e[n].parent \in Nat
    <3>1. e[n] \in Envelopes
      BY <1>1
    <3> QED
      BY <3>1 DEF Envelopes
  <2>2. e[n].parent # 0 => e[n].parent < n
    BY <1>1 DEF IInv, ParentsPrecede
  <2> QED
    BY <1>1, <2>1, <2>2
<1>4. parent # 0 => f.thread = e[parent].thread
  BY DEF ThreadFor
<1>5. id = Len(e) + 1
  OBVIOUS
<1> HIDE DEF e, f, id
<1>6. RoutesExist'
  <2>1. PICK up : WalksUp(up, e)
    BY DEF RoutesExist, e
  <2>2. \E more : WalksUp(more, Append(e, f))
    BY <1>1, <1>2, <1>3, <2>1, WalkGrows
  <2> QED
    BY <1>1, <2>2 DEF RoutesExist
<1>7. RoutesAreWalked'
  <2> SUFFICES ASSUME NEW up, WalksUp(up, Append(e, f)), NEW n \in 1..Len(e) \cup {id}
               PROVE  Follows(up[n], n, Append(e, f))
    BY <1>1 DEF RoutesAreWalked
  <2> DEFINE less == [m \in {0} \cup 1..Len(e) |-> up[m]]
  <2>1. /\ WalksUp(less, e) /\ up[0] = <<>>
        /\ up[id] = Append(up[f.parent], id)
    <3>1. f.parent \in {0} \cup 1..Len(e)
      BY <1>1, <1>2
    <3>2. \A w : WalksUp(w, Append(e, f)) =>
            /\ WalksUp([m \in {0} \cup 1..Len(e) |-> w[m]], e)
            /\ w[0] = <<>> /\ w[id] = Append(w[f.parent], id)
      BY <1>1, <1>2, <1>3, <1>5, <3>1, WalkGrows
    <3> QED
      BY <3>2
  <2>2. \A m \in 1..Len(e) : less[m] = up[m] /\ Follows(up[m], m, e)
    <3>1. \A m \in 1..Len(e) : less[m] = up[m]
      OBVIOUS
    <3> HIDE DEF less
    <3> QED
      BY <1>1, <2>1, <3>1 DEF RoutesAreWalked, e
  <2>3. CASE n \in 1..Len(e)
    BY <1>1, <1>2, <2>2, <2>3, FollowsGrows
  <2>4. CASE n = id /\ parent # 0
    <3>1. parent \in 1..Len(e)
      BY <1>1, <2>4
    <3>2. Follows(up[parent], parent, e) /\ f.thread = e[parent].thread
      BY <1>4, <2>2, <2>4, <3>1
    <3>3. Follows(Append(up[parent], id), id, Append(e, f))
      BY <1>1, <1>2, <1>5, <3>1, <3>2, FollowsGrows
    <3> QED
      BY <1>2, <2>1, <2>4, <3>3
  <2>5. CASE n = id /\ parent = 0
    <3>1. up[id] = <<id>>
      <4>1. up[f.parent] = <<>>
        BY <1>2, <2>1, <2>5
      <4> QED
        BY <2>1, <4>1
    <3>2. Len(Append(e, f)) = id /\ id \in Nat \ {0}
      <4>1. e \in Seq(Envelopes)
        BY <1>1
      <4> QED
        BY <1>2, <1>5, <4>1
    <3> QED
      BY <2>5, <3>1, <3>2 DEF Follows
  <2> QED
    BY <2>3, <2>4, <2>5
<1> QED
  BY <1>6, <1>7

\* The invariant of the bus with its routes.
LEMMA RouteInvariant == Spec => []RouteInv
<1> DEFINE Walked == ThreadsInOrder /\ RoutesExist /\ RoutesAreWalked
<1>1. Init => Walked
  <2> SUFFICES ASSUME Init PROVE Walked
    OBVIOUS
  <2>1. Len(envelopes) = 0 /\ EnvelopeIds = {} /\ ThreadIds = {}
    BY DEF Init, EnvelopeIds, ThreadIds
  <2>2. WalksUp([n \in {0} |-> <<>>], envelopes)
    <3>1. {0} \cup 1..Len(envelopes) = {0}
      BY <2>1
    <3> QED
      BY <3>1 DEF WalksUp
  <2> QED
    BY <2>1, <2>2 DEF ThreadsInOrder, RoutesExist, RoutesAreWalked
<1>2. FabricInv /\ Walked /\ [Next]_vars => Walked'
  <2> SUFFICES ASSUME FabricInv, Walked, [Next]_vars PROVE Walked'
    OBVIOUS
  <2>1. CASE UNCHANGED vars
    BY <2>1 DEF vars, ThreadsInOrder, RoutesExist, RoutesAreWalked, EnvelopeIds, ThreadIds
  <2>2. CASE Next
    <3>1. PICK parent \in {0} \cup EnvelopeIds, layer \in Layers,
               blocked \in BOOLEAN, source \in Nodes, target \in Nodes :
            Emit(parent, layer, blocked, {source, target})
      BY <2>2 DEF Next
    <3> DEFINE ends == {source, target}
    <3>2. ends \in SUBSET Nodes /\ Emit(parent, layer, blocked, ends)
      BY <3>1
    <3> HIDE DEF ends
    <3>3. IInv /\ TypeOK /\ ThreadsKnown /\ ThreadsRecordTheirTraffic
      BY DEF FabricInv, IInv
    <3> QED
      BY <3>2, <3>3, OrderStep, RoutesStep
  <2> QED
    BY <2>1, <2>2
<1>3. RouteInv <=> FabricInv /\ Walked
  BY DEF RouteInv
<1> QED
  BY <1>1, <1>2, <1>3, RecordInvariant, PTL DEF Spec

\* What the bus keeps in three places agrees: a route ends at its envelope and
\* runs along its thread in the order that thread carried it, a thread has
\* recorded its own traffic, an intersection joins threads that have met
\* (route_for, record_fabric).
THEOREM FabricStaysConsistent == Spec => []FabricAgrees
<1>1. RouteInv => FabricAgrees
  <2> SUFFICES ASSUME RouteInv PROVE RoutesFollowThreads
    BY DEF RouteInv, FabricInv, FabricAgrees
  <2> SUFFICES ASSUME NEW id \in EnvelopeIds
               PROVE  LET r     == Route(id)
                          along == threads[envelopes[id].thread].envelopes
                      IN  /\ r # <<>> /\ r[Len(r)] = id
                          /\ \A i, j \in 1..Len(r) : \E k, l \in 1..Len(along) :
                               /\ along[k] = r[i] /\ along[l] = r[j]
                               /\ i < j => k < l
    BY DEF RoutesFollowThreads
  <2> DEFINE r     == Route(id)
             T     == envelopes[id].thread
             along == threads[T].envelopes
  <2>1. /\ r \in Seq(EnvelopeIds) /\ r # <<>> /\ r[Len(r)] = id
        /\ \A i \in 1..Len(r) : envelopes[r[i]].thread = T
        /\ \A i, j \in 1..Len(r) : i < j => r[i] < r[j]
    <3>1. PICK up : WalksUp(up, envelopes) /\ r = up[id]
      BY RouteIsWalked DEF RouteInv
    <3> HIDE DEF r
    <3>2. Follows(r, id, envelopes)
      BY <3>1 DEF RouteInv, RoutesAreWalked
    <3> QED
      BY <3>2 DEF Follows, EnvelopeIds
  <2>2. /\ T \in ThreadIds /\ along \in Seq(Nat \ {0})
        /\ \A n \in EnvelopeIds : envelopes[n].thread = T =>
             \E k \in 1..Len(along) : along[k] = n
        /\ \A k, l \in 1..Len(along) : k < l => along[k] < along[l]
    <3>1. T \in ThreadIds
      BY DEF RouteInv, FabricInv, IInv, ThreadsKnown
    <3> HIDE DEF T
    <3>2. along \in Seq(Nat \ {0})
      <4>1. threads[T] \in Threads
        BY <3>1 DEF RouteInv, FabricInv, IInv, TypeOK, ThreadIds
      <4> QED
        BY <4>1 DEF Threads
    <3>3. \A n \in EnvelopeIds : envelopes[n].thread = T =>
            \E k \in 1..Len(along) : along[k] = n
      BY <3>1, RecordsAreEnvelopes DEF RouteInv, FabricInv
    <3>4. \A k, l \in 1..Len(along) : k < l => along[k] < along[l]
      BY <3>1 DEF RouteInv, ThreadsInOrder
    <3> QED
      BY <3>1, <3>2, <3>3, <3>4
  <2> HIDE DEF r, T, along
  <2>3. ASSUME NEW i \in 1..Len(r), NEW j \in 1..Len(r)
        PROVE  \E k, l \in 1..Len(along) :
                 along[k] = r[i] /\ along[l] = r[j] /\ (i < j => k < l)
    <3>1. r[i] \in EnvelopeIds /\ r[j] \in EnvelopeIds
      BY <2>1
    <3>2. PICK k \in 1..Len(along), l \in 1..Len(along) : along[k] = r[i] /\ along[l] = r[j]
      BY <2>1, <2>2, <3>1
    <3>3. i < j => k < l
      <4> SUFFICES ASSUME i < j, ~(k < l) PROVE FALSE
        OBVIOUS
      <4>1. along[k] < along[l]
        BY <2>1, <3>2
      <4>2. along[k] \in Nat /\ along[l] \in Nat /\ (l = k \/ l < k)
        BY <2>2
      <4>3. CASE l = k
        BY <4>1, <4>2, <4>3
      <4>4. CASE l < k
        BY <2>2, <4>1, <4>2, <4>4
      <4> QED
        BY <4>2, <4>3, <4>4
    <3> QED
      BY <3>2, <3>3
  <2> QED
    BY <2>1, <2>3 DEF r, T, along
<1> QED
  BY <1>1, RouteInvariant, PTL

(***************************************************************************)
(* Lessons (LearningRules), of any schema, source, route, model and        *)
(* number of packets and attempts.                                         *)
(***************************************************************************)
\* The records whose texts are of some set.
LessonRecords(T) ==
  [schema : Nat, outcome : T, gate : T, source : T, route : Nat,
   model : T, failure : BOOLEAN, path : BOOLEAN, hash : T, packets : Nat,
   attested : BOOLEAN, candidate : [given : BOOLEAN, attempts : Nat, repairs : Nat]]

LEMMA Schemas ==
  /\ Rules!Current >= Rules!LegacyWork /\ Rules!Current >= Rules!LegacyHarness
  /\ Rules!Current # Rules!Legacy
  /\ \A s \in Rules!Legacy..Rules!Current :
       Rules!Written(s) = Rules!Read(s)
  /\ \A s \in Nat : s = Rules!Legacy => ~(s >= Rules!LegacyWork) /\ ~(s >= Rules!LegacyHarness)
                                          /\ s # Rules!Current
  /\ \A s \in Nat : ~(s >= Rules!LegacyWork) => s # Rules!Current /\ ~(s >= Rules!LegacyHarness)
  /\ \A s \in Nat : ~(s >= Rules!LegacyHarness) => s # Rules!Current
BY DEF Rules!Legacy, Rules!LegacySha, Rules!LegacyWork, Rules!LegacyHarness, Rules!Current,
       Rules!Written, Rules!Read

LEMMA PromotionNeedsEvidence ==
  ASSUME NEW r, NEW disk
  PROVE  Rules!EvidenceBacksSuccess(r, disk)
<1> SUFFICES ASSUME Rules!Promotable(r, disk), ~Rules!FastBuild(r),
                    ~(Rules!FullRoute(r) /\ r.model = "" /\ r.source = "native-app")
             PROVE  /\ r.schema = Rules!Current /\ disk.artifact /\ disk.harness
                    /\ r.source = "provider-plan" \/ r.model # "" =>
                         /\ disk.work /\ r.packets >= 19 /\ r.model \in {"", disk.model}
                         /\ disk.candidate /\ disk.attempts = r.candidate.attempts
  BY Zenon DEF Rules!EvidenceBacksSuccess
<1>1. Rules!Valid(r, disk) /\ Rules!Succeeded(r) /\ r.gate # "native-fast-build"
  BY Zenon DEF Rules!Promotable, Rules!FastBuild
<1>2. ~(Rules!FullRoute(r) /\ r.model = "")
  BY Zenon DEF Rules!FullRoute
<1>3. /\ r.schema = Rules!Current /\ r.hash = "sha256" /\ disk.artifact
      /\ Rules!RequiresHarness(r) => Rules!HarnessVerifies(r, disk)
      /\ Rules!RequiresWork(r) =>
           Rules!WorkVerifies(r, disk) /\ Rules!CandidateVerifies(r, disk)
  BY <1>1, <1>2, Zenon DEF Rules!Promotable
<1>4. Rules!RequiresHarness(r) /\ disk.harness
  BY <1>2, <1>3, Zenon DEF Rules!RequiresHarness, Rules!HarnessVerifies
<1>5. Rules!SuccessShows(r)
  BY <1>1, Zenon DEF Rules!Valid, Rules!Structure, Rules!FastBuild
<1>6. ASSUME r.source = "provider-plan" \/ r.model # ""
      PROVE  /\ disk.work /\ r.packets >= 19 /\ r.model \in {"", disk.model}
             /\ disk.candidate /\ disk.attempts = r.candidate.attempts
  <2>1. Rules!RequiresWork(r)
    BY <1>6, Zenon DEF Rules!RequiresWork
  <2>2. disk.work /\ (r.model = "" \/ disk.model = r.model)
        /\ disk.candidate /\ disk.attempts = r.candidate.attempts
    BY <1>3, <2>1, Zenon DEF Rules!WorkVerifies, Rules!CandidateVerifies
  <2>3. r.schema >= Rules!LegacyWork /\ r.schema >= Rules!LegacyHarness
        /\ r.schema # Rules!Legacy
    BY <1>3, Schemas, Zenon
  <2>4. r.packets >= 19
    BY <1>5, <2>1, <2>3, Zenon DEF Rules!SuccessShows
  <2>5. r.model \in {"", disk.model}
    BY <2>2, Zenon
  <2> QED  BY <2>2, <2>4, <2>5, Zenon
<1> QED  BY <1>3, <1>4, <1>6, Zenon

LEMMA LessonsReadBack ==
  ASSUME NEW T, NEW r \in LessonRecords(T), NEW disk
  PROVE  Rules!HistoryStaysReadable(r, disk)
<1> SUFFICES ASSUME Rules!Valid(r, disk)
             PROVE  /\ Rules!ReadsBack(r)
                    /\ LET once == Rules!FromJson(r, Rules!Read(r.schema)) IN
                         /\ Rules!ReadsBack(once)
                         /\ Rules!FromJson(once, Rules!Read(r.schema)) = once
                         /\ r.schema = Rules!Current => once = r
  BY Zenon DEF Rules!HistoryStaysReadable
<1> DEFINE F == Rules!Read(r.schema)
           p == Rules!FromJson(r, F)
<1>1. Rules!Structure(r) /\ r.schema \in Rules!Legacy..Rules!Current /\ r.schema \in Nat
  BY DEF Rules!Valid, Rules!Structure, LessonRecords
<1>2. /\ "work" \in F <=> r.schema >= Rules!LegacyWork
      /\ "harness" \in F <=> r.schema >= Rules!LegacyHarness
      /\ "candidate" \in F <=> r.schema = Rules!Current
  BY DEF Rules!Read
<1> HIDE DEF F
<1>3. /\ p.schema = r.schema /\ p.outcome = r.outcome /\ p.gate = r.gate
      /\ p.source = r.source /\ p.route = r.route /\ p.model = r.model
      /\ p.failure = r.failure /\ p.path = r.path /\ p.hash = r.hash
      /\ p.packets = (IF "work" \in F THEN r.packets ELSE 0)
      /\ p.attested = (IF "harness" \in F THEN r.attested ELSE FALSE)
      /\ p.candidate = (IF "candidate" \in F THEN r.candidate ELSE Rules!NoCandidate)
  BY DEF LessonRecords, Rules!FromJson
<1>4. Rules!FromJson(p, F) = p
  BY <1>3 DEF LessonRecords, Rules!FromJson
<1>5. r.schema = Rules!Current => p = r
  <2> SUFFICES ASSUME r.schema = Rules!Current PROVE p = r
    OBVIOUS
  <2>1. "work" \in F /\ "harness" \in F /\ "candidate" \in F
    BY <1>2, Schemas, Zenon
  <2> QED  BY <2>1 DEF LessonRecords, Rules!FromJson
<1> HIDE DEF p
<1>6. /\ Rules!FullRoute(p) <=> Rules!FullRoute(r)
      /\ Rules!Succeeded(p) <=> Rules!Succeeded(r)
      /\ Rules!FastBuild(p) <=> Rules!FastBuild(r)
      /\ Rules!RequiresWork(p) <=> Rules!RequiresWork(r)
      /\ Rules!RequiresHarness(p) <=> Rules!RequiresHarness(r)
  BY <1>3, Zenon DEF Rules!FullRoute, Rules!Succeeded, Rules!FastBuild, Rules!RequiresWork,
                     Rules!RequiresHarness
<1>7. Rules!SuccessShows(r) => Rules!SuccessShows(p)
  <2> SUFFICES ASSUME Rules!SuccessShows(r) PROVE Rules!SuccessShows(p)
    OBVIOUS
  <2>1. CASE r.schema = Rules!Legacy
    BY <1>3, <1>6, <2>1, Zenon DEF Rules!SuccessShows
  <2>2. CASE r.schema # Rules!Legacy
    <3>1. (Rules!FullRoute(p) /\ p.model = "") \/ (p.path /\ p.hash # "")
      BY <1>3, <1>6, <2>2, Zenon DEF Rules!SuccessShows
    <3>2. p.schema >= Rules!LegacyWork /\ Rules!RequiresWork(p)
            => p.packets >= (IF p.schema >= Rules!LegacyHarness THEN 19 ELSE 13)
      BY <1>2, <1>3, <1>6, <2>2, Zenon DEF Rules!SuccessShows
    <3>3. p.schema >= Rules!LegacyHarness /\ Rules!RequiresHarness(p) => p.attested
      BY <1>2, <1>3, <1>6, <2>2, Zenon DEF Rules!SuccessShows
    <3>4. p.schema = Rules!Current /\ Rules!RequiresWork(p)
            => Rules!CandidateHolds(p.candidate)
      BY <1>2, <1>3, <1>6, <2>2, Zenon DEF Rules!SuccessShows
    <3> QED  BY <1>3, <2>2, <3>1, <3>2, <3>3, <3>4, Zenon DEF Rules!SuccessShows
  <2> QED  BY <2>1, <2>2
<1>8. Rules!Structure(p)
  BY <1>1, <1>3, <1>6, <1>7, Zenon DEF Rules!Structure
<1>9. Rules!Written(r.schema) = Rules!Read(r.schema)
  BY <1>1, Schemas, Zenon
<1>10. Rules!ReadsBack(r)
  BY <1>8, <1>9, Zenon DEF Rules!ReadsBack, p, F
<1>11. Rules!ReadsBack(p)
  <2>1. Rules!FromJson(p, Rules!Read(p.schema)) = p
    BY <1>3, <1>4, Zenon DEF F
  <2>2. Rules!Written(p.schema) = Rules!Read(p.schema)
    BY <1>3, <1>9, Zenon
  <2> QED  BY <1>8, <2>1, <2>2, Zenon DEF Rules!ReadsBack
<1> QED  BY <1>4, <1>5, <1>10, <1>11, Zenon DEF p, F

(***************************************************************************)
(* Proof records (ProofRules), of any recipe, model and counts.            *)
(***************************************************************************)
ProofFields == Proofs!Required \cup Proofs!Optional
StoredProofs(T) ==
  [recipe : T, status : T, atoms : SUBSET T, evidence : Nat, blocked : BOOLEAN,
   route : Nat, state : T, model : T, endpoint : T, artifact : T,
   hash : T, length : Nat, plan : T, packets : Nat,
   candidate : [given : BOOLEAN, bundle : T, attempts : Nat]]

LEMMA ProofFieldsOf ==
  ASSUME NEW T, NEW r \in StoredProofs(T)
  PROVE  /\ DOMAIN r = ProofFields
         /\ r = [f \in ProofFields |-> r[f]]
<1>1. DOMAIN r = ProofFields
  BY DEF StoredProofs, ProofFields, Proofs!Required, Proofs!Optional
<1>2. r = [f \in DOMAIN r |-> r[f]]
  BY DEF StoredProofs
<1> QED  BY <1>1, <1>2, Zenon

LEMMA LineOf ==
  ASSUME NEW T, NEW r \in StoredProofs(T)
  PROVE  /\ DOMAIN Proofs!ToJson(r) = ProofFields
         /\ \A f \in ProofFields :
              Proofs!ToJson(r)[f] = IF f \in {"endpoint", "artifact"} THEN Proofs!Redacted(r[f])
                                    ELSE r[f]
<1> DEFINE line == Proofs!ToJson(r)
<1>1. line = [r EXCEPT !.endpoint = Proofs!Redacted(@), !.artifact = Proofs!Redacted(@)]
  BY DEF Proofs!ToJson
<1>2. DOMAIN r = ProofFields /\ {"endpoint", "artifact"} \subseteq ProofFields
  BY ProofFieldsOf DEF ProofFields, Proofs!Optional
<1> HIDE DEF line
<1>3. DOMAIN line = ProofFields
  BY <1>1, <1>2, ProofFieldsOf
<1>4. \A f \in ProofFields :
        line[f] = IF f \in {"endpoint", "artifact"} THEN Proofs!Redacted(r[f]) ELSE r[f]
  BY <1>1, <1>2, ProofFieldsOf
<1> QED  BY <1>3, <1>4 DEF line

\* What is read of a line that lacks some fields.
LEMMA LineRead ==
  ASSUME NEW T, NEW r \in StoredProofs(T), NEW fields \in SUBSET ProofFields
  PROVE  LET line == Proofs!ToJson(r)
             read == Proofs!FromJson(Proofs!Older(line, fields))
         IN  /\ fields \cap Proofs!Required # {} => read = <<>>
             /\ fields \cap Proofs!Required = {} =>
                  read = << [f \in ProofFields |->
                               IF f \notin fields THEN line[f]
                               ELSE IF f = "candidate" THEN Proofs!NoCandidate
                               ELSE Proofs!Default(f)] >>
<1> DEFINE line == Proofs!ToJson(r)
           older == Proofs!Older(line, fields)
           read == Proofs!FromJson(older)
<1>1. DOMAIN line = ProofFields
  BY LineOf
<1> HIDE DEF line
<1>2. older = [f \in ProofFields \ fields |-> line[f]]
  BY <1>1 DEF Proofs!Older
<1>3. DOMAIN older = ProofFields \ fields /\ \A f \in ProofFields \ fields : older[f] = line[f]
  BY <1>2
<1>4. Proofs!Required \subseteq DOMAIN older <=> fields \cap Proofs!Required = {}
  BY <1>3 DEF ProofFields
<1>5. DOMAIN older \subseteq Proofs!Required \cup Proofs!Optional
  BY <1>3 DEF ProofFields
<1> HIDE DEF older
<1>6. fields \cap Proofs!Required # {} => read = <<>>
  BY <1>4, Zenon DEF Proofs!FromJson
<1>7. fields \cap Proofs!Required = {} =>
        read = << [f \in ProofFields |->
                     IF f \in DOMAIN older THEN older[f]
                     ELSE IF f = "candidate" THEN Proofs!NoCandidate ELSE Proofs!Default(f)] >>
  BY <1>4, <1>5, Zenon DEF Proofs!FromJson, ProofFields
<1>8. \A f \in ProofFields :
        (IF f \in DOMAIN older THEN older[f]
         ELSE IF f = "candidate" THEN Proofs!NoCandidate ELSE Proofs!Default(f))
        = (IF f \notin fields THEN line[f]
           ELSE IF f = "candidate" THEN Proofs!NoCandidate ELSE Proofs!Default(f))
  BY <1>3
<1>9. [f \in ProofFields |->
         IF f \in DOMAIN older THEN older[f]
         ELSE IF f = "candidate" THEN Proofs!NoCandidate ELSE Proofs!Default(f)]
      = [f \in ProofFields |->
           IF f \notin fields THEN line[f]
           ELSE IF f = "candidate" THEN Proofs!NoCandidate ELSE Proofs!Default(f)]
  BY <1>8
<1> HIDE DEF read
<1> QED  BY <1>6, <1>7, <1>9, Zenon DEF read, older, line

LEMMA Redaction ==
  \A text : /\ Proofs!Redacted(text) # Proofs!Secret
            /\ text # Proofs!Secret => Proofs!Redacted(text) = text
            /\ text = Proofs!Secret => Proofs!Redacted(text) = "redacted"
BY DEF Proofs!Redacted, Proofs!Secret

\* What is read of it is evidence only if it was, and of a provider only if
\* nothing is missing.
LEMMA ReadingEarnsNothing ==
  ASSUME NEW T, NEW r \in StoredProofs(T), NEW fields \in SUBSET ProofFields, NEW disk, NEW q,
         fields \cap Proofs!Required = {},
         q = [f \in ProofFields |->
                IF f \notin fields THEN Proofs!ToJson(r)[f]
                ELSE IF f = "candidate" THEN Proofs!NoCandidate ELSE Proofs!Default(f)],
         Proofs!IsPositive(q, disk)
  PROVE  Proofs!IsPositive(r, disk) /\ (r.recipe = "provider" => fields = {})
<1>1. \A f \in ProofFields :
        q[f] = IF f \notin fields
               THEN IF f \in {"endpoint", "artifact"} THEN Proofs!Redacted(r[f]) ELSE r[f]
               ELSE IF f = "candidate" THEN Proofs!NoCandidate ELSE Proofs!Default(f)
  BY LineOf
<1>2. /\ q.recipe = r.recipe /\ q.status = r.status /\ q.evidence = r.evidence
      /\ q.blocked = r.blocked /\ q.state = r.state /\ q.route = r.route
  <2>1. \A f \in Proofs!Required : f \notin fields /\ f \in ProofFields
                                     /\ f \notin {"endpoint", "artifact"}
    BY DEF ProofFields, Proofs!Required
  <2>2. \A f \in Proofs!Required : q[f] = r[f]
    BY <1>1, <2>1
  <2> QED  BY <2>2 DEF Proofs!Required
<1>3. /\ r.status = "proven" /\ ~r.blocked /\ r.evidence > 0 /\ r.route >= 4
      /\ r.recipe # "unknown"
  BY <1>2, Zenon DEF Proofs!IsPositive
<1>4. CASE r.recipe # "provider"
  BY <1>3, <1>4, Zenon DEF Proofs!IsPositive
<1>5. CASE r.recipe = "provider"
  <2>1. /\ q.state = "provider:ran" /\ q.model # "" /\ q.endpoint # ""
        /\ Proofs!ArtifactVerifies(q, disk) /\ Proofs!PlanVerifies(q, disk)
        /\ Proofs!CandidateVerifies(q, disk)
    BY <1>2, <1>5, Zenon DEF Proofs!IsPositive
  <2>2. /\ Proofs!Default("length") = 0 /\ Proofs!Default("packets") = 0
        /\ ~(0 > 0) /\ ~(0 >= 19)
        /\ Proofs!NoCandidate.given = FALSE
        /\ "h" # "" /\ "work-1" # "" /\ "file" # "" /\ Proofs!Secret # ""
    <3>1. ~(0 > 0) /\ ~(0 >= 19)
      OBVIOUS
    <3>2. Proofs!Default("length") = 0 /\ Proofs!Default("packets") = 0
      BY Zenon DEF Proofs!Default
    <3>3. Proofs!NoCandidate.given = FALSE
      BY DEF Proofs!NoCandidate
    <3>4. "h" # "" /\ "work-1" # "" /\ "file" # "" /\ Proofs!Secret # ""
      BY Zenon DEF Proofs!Secret
    <3> QED  BY <3>1, <3>2, <3>3, <3>4, Zenon
  <2>3. \A f \in {"model", "endpoint", "artifact", "hash", "plan"} : Proofs!Default(f) = ""
    BY Zenon DEF Proofs!Default
  <2>4. \A f \in {"model", "endpoint", "artifact", "hash", "plan", "length", "packets"} :
          f \in ProofFields /\ (f \in fields => q[f] = Proofs!Default(f))
    <3>1. \A f \in {"model", "endpoint", "artifact", "hash", "plan", "length", "packets"} :
            f \in ProofFields /\ f # "candidate"
      BY DEF ProofFields, Proofs!Optional
    <3> QED  BY <1>1, <3>1, Zenon
  <2>5. "candidate" \in ProofFields /\ ("candidate" \in fields => q.candidate = Proofs!NoCandidate)
    <3>1. "candidate" \in ProofFields
      BY DEF ProofFields, Proofs!Optional
    <3> QED  BY <1>1, <3>1, Zenon
  <2>6. /\ "model" \notin fields /\ "endpoint" \notin fields
    BY <2>1, <2>3, <2>4, Zenon
  <2>7. /\ "artifact" \notin fields /\ "hash" \notin fields /\ "length" \notin fields
    BY <2>1, <2>2, <2>3, <2>4, Zenon DEF Proofs!ArtifactVerifies
  <2>8. "plan" \notin fields /\ "packets" \notin fields
    BY <2>1, <2>2, <2>3, <2>4, Zenon DEF Proofs!PlanVerifies
  <2>9. "candidate" \notin fields
    BY <2>1, <2>2, <2>5, Zenon DEF Proofs!CandidateVerifies
  <2>10. fields = {}
    <3>1. \A f \in Proofs!Optional : f \notin fields
      BY <2>6, <2>7, <2>8, <2>9, Zenon DEF Proofs!Optional
    <3> QED  BY <3>1 DEF ProofFields
  <2>11. /\ q.model = r.model /\ q.hash = r.hash /\ q.length = r.length /\ q.plan = r.plan
         /\ q.packets = r.packets /\ q.candidate = r.candidate
         /\ q.endpoint = Proofs!Redacted(r.endpoint) /\ q.artifact = Proofs!Redacted(r.artifact)
    <3>1. \A f \in ProofFields :
            q[f] = IF f \in {"endpoint", "artifact"} THEN Proofs!Redacted(r[f]) ELSE r[f]
      BY <1>1, <2>10, Zenon
    <3> QED  BY <2>4, <2>5, <3>1, Zenon
  <2>12. r.endpoint # "" /\ r.artifact = "file"
    <3>1. q.artifact = "file" /\ q.artifact # Proofs!Secret
      BY <2>1, <2>11, Redaction, Zenon DEF Proofs!ArtifactVerifies
    <3>2. "redacted" # "file"
      BY Zenon
    <3>3. r.artifact = "file"
      BY <2>11, <3>1, <3>2, Redaction, Zenon
    <3>4. r.endpoint # ""
      BY <2>1, <2>2, <2>11, Redaction, Zenon
    <3> QED  BY <3>3, <3>4
  <2>13. Proofs!ArtifactVerifies(r, disk)
    BY <2>1, <2>11, <2>12, Zenon DEF Proofs!ArtifactVerifies
  <2>14. Proofs!PlanVerifies(r, disk) /\ Proofs!CandidateVerifies(r, disk)
    BY <2>1, <2>11, Zenon DEF Proofs!PlanVerifies, Proofs!CandidateVerifies
  <2>15. Proofs!IsPositive(r, disk)
    BY <1>2, <1>3, <2>1, <2>11, <2>12, <2>13, <2>14, Zenon DEF Proofs!IsPositive
  <2> QED  BY <2>10, <2>15
<1> QED  BY <1>4, <1>5

LEMMA ProofsStayEarned ==
  ASSUME NEW T, NEW r \in StoredProofs(T), NEW fields \in SUBSET ProofFields, NEW disk
  PROVE  Proofs!ProofsAreEarned(r, fields, disk)
<1> DEFINE read == Proofs!FromJson(Proofs!Older(Proofs!ToJson(r), fields))
           q == [f \in ProofFields |->
                   IF f \notin fields THEN Proofs!ToJson(r)[f]
                   ELSE IF f = "candidate" THEN Proofs!NoCandidate ELSE Proofs!Default(f)]
<1>1. /\ fields \cap Proofs!Required # {} => read = <<>>
      /\ fields \cap Proofs!Required = {} => read = <<q>>
  BY LineRead, Zenon
<1>2. fields \cap Proofs!Required # {} <=> read = <<>>
  <2> HIDE DEF q, read
  <2>1. <<q>> # <<>>
    OBVIOUS
  <2> QED  BY <1>1, <2>1
<1>3. ASSUME fields \cap Proofs!Required = {}
      PROVE  /\ Proofs!IsPositive(q, disk) =>
                  Proofs!IsPositive(r, disk) /\ (r.recipe = "provider" => fields = {})
             /\ fields = {} /\ Proofs!Secret \notin {r.endpoint, r.artifact} => q = r
  <2>1. Proofs!IsPositive(q, disk) =>
          Proofs!IsPositive(r, disk) /\ (r.recipe = "provider" => fields = {})
    <3> SUFFICES ASSUME Proofs!IsPositive(q, disk)
                 PROVE  Proofs!IsPositive(r, disk) /\ (r.recipe = "provider" => fields = {})
      OBVIOUS
    <3> DEFINE p == q
    <3>1. p = q /\ Proofs!IsPositive(p, disk)
      OBVIOUS
    <3> HIDE DEF p
    <3> QED  BY <1>3, <3>1, ReadingEarnsNothing, Zenon
  <2>2. ASSUME fields = {}, Proofs!Secret \notin {r.endpoint, r.artifact}
        PROVE  q = r
    <3>1. \A f \in ProofFields : Proofs!ToJson(r)[f] = r[f]
      <4>1. \A f \in {"endpoint", "artifact"} : Proofs!Redacted(r[f]) = r[f]
        BY <2>2, Redaction, Zenon
      <4> QED  BY <4>1, LineOf, Zenon
    <3>2. \A f \in ProofFields :
            (IF f \notin fields THEN Proofs!ToJson(r)[f]
             ELSE IF f = "candidate" THEN Proofs!NoCandidate ELSE Proofs!Default(f)) = r[f]
      BY <2>2, <3>1
    <3>3. q = [f \in ProofFields |-> r[f]]
      BY <3>2
    <3> HIDE DEF q
    <3> QED  BY <3>3, ProofFieldsOf, Zenon
  <2> QED  BY <2>1, <2>2
<1>4. read # <<>> => fields \cap Proofs!Required = {} /\ read[1] = q
  <2> HIDE DEF q, read
  <2> QED  BY <1>1
<1> HIDE DEF q, read
<1>5. ASSUME read # <<>>, fields = {}, Proofs!Secret \notin {r.endpoint, r.artifact}
      PROVE  /\ Proofs!NodeOf(read[1]) = Proofs!NodeOf(r)
             /\ Proofs!Learned(Proofs!Learned({}, r, disk).nodes, read[1], disk).nodes
                  = Proofs!Learned({}, r, disk).nodes
  <2>1. read[1] = r
    BY <1>3, <1>4, <1>5
  <2>2. \A nodes : Proofs!Learned(nodes, r, disk).nodes =
          IF Proofs!IsPositive(r, disk) THEN nodes \cup {Proofs!NodeOf(r)} ELSE nodes
    BY DEF Proofs!Learned
  <2> QED  BY <2>1, <2>2
<1>6. read # <<>> =>
        /\ Proofs!IsPositive(read[1], disk) =>
             Proofs!IsPositive(r, disk) /\ (r.recipe = "provider" => fields = {})
        /\ fields = {} /\ Proofs!Secret \notin {r.endpoint, r.artifact} =>
             Proofs!NodeOf(read[1]) = Proofs!NodeOf(r)
               /\ Proofs!Learned(Proofs!Learned({}, r, disk).nodes, read[1], disk).nodes
                    = Proofs!Learned({}, r, disk).nodes
  BY <1>3, <1>4, <1>5
<1> QED  BY <1>2, <1>6, Zenon DEF Proofs!ProofsAreEarned, read

\* A provider's success promotes a recipe only with its artifact, work plan,
\* harness and candidate verified under the current schema, and what was valid
\* when it was appended is read back (is_promotable_success, from_json), for any
\* lesson; what is read of a proof's line earns nothing the proof had not
\* (add_proof_record), for any proof and any fields its line lacks.
THEOREM EvidenceIsNeeded ==
  /\ \A T : \A r \in LessonRecords(T) : \A disk :
       Rules!EvidenceBacksSuccess(r, disk) /\ Rules!HistoryStaysReadable(r, disk)
  /\ \A T : \A r \in StoredProofs(T), fields \in SUBSET ProofFields : \A disk :
       Proofs!ProofsAreEarned(r, fields, disk)
<1>1. ASSUME NEW T, NEW r \in LessonRecords(T), NEW disk
      PROVE  Rules!EvidenceBacksSuccess(r, disk) /\ Rules!HistoryStaysReadable(r, disk)
  BY PromotionNeedsEvidence, LessonsReadBack, Zenon
<1>2. ASSUME NEW T, NEW r \in StoredProofs(T), NEW fields \in SUBSET ProofFields, NEW disk
      PROVE  Proofs!ProofsAreEarned(r, fields, disk)
  BY ProofsStayEarned, Zenon
<1> QED  BY <1>1, <1>2

\* The inputs of the runs are among them.
Words ==
  {"failed", "succeeded", "native-fast-build", "provider-review", "native-app",
   "provider-plan", "harness", "", "m", "fnv", "sha256", "provider", "local", "unknown",
   "proven", "blocked", "provider:ran", "provider:ready", "e", "file", "h", "text",
   "work-1", "a", "other", Proofs!Secret}

LEMMA LessonsTyped == Lessons \subseteq LessonRecords(Words)
<1>1. ASSUME NEW r \in Rules!Records PROVE r \in LessonRecords(Words)
  <2>1. ASSUME NEW c \in Rules!Candidates
        PROVE  c \in [given : BOOLEAN, attempts : Nat, repairs : Nat]
    <3>1. CASE c \in [given : {TRUE}, attempts : {0, 2}, repairs : {1, 2}]
      <4>1. c.given \in BOOLEAN /\ c.attempts \in Nat /\ c.repairs \in Nat
        <5>1. c.given \in {TRUE} /\ c.attempts \in {0, 2} /\ c.repairs \in {1, 2}
          BY <3>1, Zenon
        <5>2. {0, 2} \subseteq Nat /\ {1, 2} \subseteq Nat
          OBVIOUS
        <5>3. {TRUE} \subseteq BOOLEAN
          BY Zenon
        <5> QED  BY <5>1, <5>2, <5>3, Zenon
      <4>2. c = [given |-> c.given, attempts |-> c.attempts, repairs |-> c.repairs]
        BY <3>1, Zenon
      <4> HIDE <3>1
      <4> QED  BY <4>1, <4>2
    <3>2. CASE c = Rules!NoCandidate
      BY <3>2 DEF Rules!NoCandidate
    <3> QED  BY <3>1, <3>2, Zenon DEF Rules!Candidates
  <2>2. /\ "failed" \in Words /\ "succeeded" \in Words /\ "native-fast-build" \in Words
        /\ "provider-review" \in Words /\ "native-app" \in Words /\ "provider-plan" \in Words
        /\ "harness" \in Words /\ "" \in Words /\ "m" \in Words /\ "fnv" \in Words
        /\ "sha256" \in Words
    BY Zenon DEF Words
  <2> DEFINE outcomes == {"failed", "succeeded"}
             gates == {"native-fast-build", "provider-review"}
             sources == {"native-app", "provider-plan", "harness"}
             models == {"", "m"}
             hashes == {"", "fnv", "sha256"}
             routes == {3, 4}
             counts == {0, 13, 19}
  <2>3. r \in [schema : 1..6, outcome : outcomes, gate : gates, source : sources,
               route : routes, model : models, failure : BOOLEAN, path : BOOLEAN,
               hash : hashes, packets : counts, attested : BOOLEAN,
               candidate : Rules!Candidates]
    BY <1>1, Zenon DEF Rules!Records
  <2>4. outcomes \subseteq Words /\ gates \subseteq Words /\ sources \subseteq Words
    BY <2>2, Zenon
  <2>5. models \subseteq Words /\ hashes \subseteq Words
    BY <2>2, Zenon
  <2>6. routes \subseteq Nat /\ counts \subseteq Nat /\ 1..6 \subseteq Nat
    OBVIOUS
  <2> HIDE DEF outcomes, gates, sources, models, hashes, routes, counts
  <2> QED  BY <2>1, <2>3, <2>4, <2>5, <2>6 DEF LessonRecords
<1> QED  BY <1>1 DEF Lessons

\* The values a field of a proof may have.
FieldType(f) ==
  CASE f = "atoms" -> SUBSET Words
    [] f \in {"evidence", "route", "length", "packets"} -> Nat
    [] f = "blocked" -> BOOLEAN
    [] f = "candidate" -> [given : BOOLEAN, bundle : Words, attempts : Nat]
    [] OTHER -> Words

Texts   == {"recipe", "status", "state", "model", "endpoint", "artifact", "hash", "plan"}
Numbers == {"evidence", "route", "length", "packets"}

LEMMA FieldTypes ==
  /\ FieldType("atoms") = SUBSET Words /\ FieldType("blocked") = BOOLEAN
  /\ FieldType("candidate") = [given : BOOLEAN, bundle : Words, attempts : Nat]
  /\ \A f \in Numbers : FieldType(f) = Nat
  /\ \A f \in Texts : FieldType(f) = Words
<1>1. FieldType("atoms") = SUBSET Words /\ FieldType("blocked") = BOOLEAN
  BY DEF FieldType
<1>2. FieldType("candidate") = [given : BOOLEAN, bundle : Words, attempts : Nat]
  BY DEF FieldType
<1>3. \A f \in Numbers : FieldType(f) = Nat
  BY DEF FieldType, Numbers
<1>4. \A f \in Texts : FieldType(f) = Words
  BY DEF FieldType, Texts
<1> QED  BY <1>1, <1>2, <1>3, <1>4

LEMMA ProofOfFields ==
  ASSUME NEW p, p = [f \in ProofFields |-> p[f]], \A f \in ProofFields : p[f] \in FieldType(f)
  PROVE  p \in StoredProofs(Words)
<1>1. /\ Texts \subseteq ProofFields /\ Numbers \subseteq ProofFields
      /\ "atoms" \in ProofFields /\ "blocked" \in ProofFields /\ "candidate" \in ProofFields
  BY DEF ProofFields, Proofs!Required, Proofs!Optional, Texts, Numbers
<1>2. /\ \A f \in Texts : p[f] \in Words
      /\ \A f \in Numbers : p[f] \in Nat
      /\ p["atoms"] \in SUBSET Words /\ p["blocked"] \in BOOLEAN
      /\ p["candidate"] \in [given : BOOLEAN, bundle : Words, attempts : Nat]
  <2>1. \A f \in Texts : p[f] \in Words
    <3>1. \A f \in Texts : p[f] \in FieldType(f)
      BY <1>1, Zenon
    <3>2. \A f \in Texts : FieldType(f) = Words
      BY FieldTypes, Zenon
    <3> QED  BY <3>1, <3>2
  <2>2. \A f \in Numbers : p[f] \in Nat
    BY <1>1, FieldTypes, Zenon
  <2>3. p["atoms"] \in SUBSET Words
    BY <1>1, FieldTypes, Zenon
  <2>4. p["blocked"] \in BOOLEAN
    <3>1. p["blocked"] \in FieldType("blocked")
      BY <1>1, Zenon
    <3> QED  BY <3>1, FieldTypes, Zenon
  <2>5. p["candidate"] \in [given : BOOLEAN, bundle : Words, attempts : Nat]
    BY <1>1, FieldTypes, Zenon
  <2> QED  BY <2>1, <2>2, <2>3, <2>4, <2>5, Zenon
<1>3. DOMAIN p = {"recipe", "status", "atoms", "evidence", "blocked", "state", "route", "model",
                  "endpoint", "artifact", "hash", "length", "plan", "packets", "candidate"}
  BY DEF ProofFields, Proofs!Required, Proofs!Optional
<1> QED  BY <1>2, <1>3 DEF StoredProofs, Texts, Numbers

LEMMA ProofInputsTyped == ProofInputs \subseteq StoredProofs(Words)
<1>1. /\ "provider" \in Words /\ "local" \in Words /\ "unknown" \in Words
      /\ "proven" \in Words /\ "blocked" \in Words /\ "provider:ran" \in Words
      /\ "provider:ready" \in Words /\ "" \in Words /\ "m" \in Words /\ "e" \in Words
      /\ "file" \in Words /\ "h" \in Words /\ "text" \in Words /\ "work-1" \in Words
      /\ "a" \in Words /\ "other" \in Words /\ Proofs!Secret \in Words
  BY Zenon DEF Words
<1>2. ASSUME NEW f \in ProofFields, NEW v \in ProofValues(f)
      PROVE  v \in FieldType(f)
  <2>1. CASE f = "atoms"
    <3>1. v \in SUBSET {"a", "other"}
      BY <1>2, <2>1, Zenon DEF ProofValues
    <3>2. v \in SUBSET Words
      BY <1>1, <3>1, Zenon
    <3> QED  BY <2>1, <3>2, FieldTypes, Zenon
  <2>2. CASE f \in Numbers
    <3>1. {0, 1} \subseteq Nat /\ {3, 4} \subseteq Nat /\ {0, 19} \subseteq Nat
      OBVIOUS
    <3>2. ProofValues(f) \in {{0, 1}, {3, 4}, {0, 19}}
      BY <2>2 DEF ProofValues, Numbers
    <3>3. v \in Nat
      BY <1>2, <3>1, <3>2, Zenon
    <3> QED  BY <2>2, <3>3, FieldTypes, Zenon
  <2>3. CASE f = "blocked"
    BY <1>2, <2>3, FieldTypes, Zenon DEF ProofValues
  <2>4. CASE f = "candidate"
    <3> DEFINE e == ""
    <3>1. Proofs!NoCandidate = [given |-> FALSE, bundle |-> e, attempts |-> 0]
      BY DEF Proofs!NoCandidate
    <3>2. v \in {Proofs!NoCandidate, Proofs!Candidate("h", 1), Proofs!Candidate("other", 1),
                 Proofs!Candidate("h", 2)}
      BY <1>2, <2>4, Zenon DEF ProofValues
    <3>3. e \in Words
      BY <1>1
    <3> HIDE DEF e
    <3>4. v = Proofs!NoCandidate \/ v = Proofs!Candidate("h", 1)
            \/ v = Proofs!Candidate("other", 1) \/ v = Proofs!Candidate("h", 2)
      BY <3>2, Zenon
    <3>5. \A b \in Words, n \in Nat : 
            Proofs!Candidate(b, n) \in [given : BOOLEAN, bundle : Words, attempts : Nat]
      BY DEF Proofs!Candidate
    <3>6. Proofs!NoCandidate \in [given : BOOLEAN, bundle : Words, attempts : Nat]
      BY <3>1, <3>3
    <3>7. 1 \in Nat /\ 2 \in Nat
      OBVIOUS
    <3>8. v \in [given : BOOLEAN, bundle : Words, attempts : Nat]
      <4>1. Proofs!Candidate("h", 1) \in [given : BOOLEAN, bundle : Words, attempts : Nat]
        BY <1>1, <3>5, <3>7, Zenon
      <4>2. Proofs!Candidate("other", 1) \in [given : BOOLEAN, bundle : Words, attempts : Nat]
        BY <1>1, <3>5, <3>7, Zenon
      <4>3. Proofs!Candidate("h", 2) \in [given : BOOLEAN, bundle : Words, attempts : Nat]
        BY <1>1, <3>5, <3>7, Zenon
      <4> QED  BY <3>4, <3>6, <4>1, <4>2, <4>3, Zenon
    <3> QED  BY <2>4, <3>8, FieldTypes, Zenon
  <2>5. CASE f \in Texts
    <3>1. v \in Words
      BY <1>1, <1>2, <2>5, Zenon DEF ProofValues, Texts
    <3> QED  BY <2>5, <3>1, FieldTypes, Zenon
  <2>6. f \in Texts \cup Numbers \cup {"atoms", "blocked", "candidate"}
    BY DEF ProofFields, Proofs!Required, Proofs!Optional, Texts, Numbers
  <2> QED  BY <2>1, <2>2, <2>3, <2>4, <2>5, <2>6
<1>3. DOMAIN SoundProof = ProofFields /\ SoundProof = [f \in ProofFields |-> SoundProof[f]]
  <2>1. DOMAIN SoundProof = ProofFields
    BY Zenon DEF SoundProof, ProofFields, Proofs!Required, Proofs!Optional
  <2> QED  BY <2>1, Zenon DEF SoundProof
<1>4. \A f \in ProofFields : SoundProof[f] \in ProofValues(f)
  <2>1. \A f \in Texts : SoundProof[f] \in ProofValues(f)
    <3>1. /\ SoundProof.recipe = "provider" /\ SoundProof.status = "proven"
          /\ SoundProof.state = "provider:ran" /\ SoundProof.model = "m"
          /\ SoundProof.endpoint = "e" /\ SoundProof.artifact = "file"
          /\ SoundProof.hash = "h" /\ SoundProof.plan = "work-1"
      BY Zenon DEF SoundProof
    <3>2. /\ "provider" \in ProofValues("recipe") /\ "proven" \in ProofValues("status")
          /\ "provider:ran" \in ProofValues("state") /\ "m" \in ProofValues("model")
          /\ "e" \in ProofValues("endpoint") /\ "file" \in ProofValues("artifact")
          /\ "h" \in ProofValues("hash") /\ "work-1" \in ProofValues("plan")
      BY Zenon DEF ProofValues
    <3> QED  BY <3>1, <3>2, Zenon DEF Texts
  <2>2. \A f \in Numbers : SoundProof[f] \in ProofValues(f)
    <3>1. /\ SoundProof.evidence = 1 /\ SoundProof.route = 4 /\ SoundProof.length = 1
          /\ SoundProof.packets = 19
      BY Zenon DEF SoundProof
    <3>2. /\ 1 \in ProofValues("evidence") /\ 4 \in ProofValues("route")
          /\ 1 \in ProofValues("length") /\ 19 \in ProofValues("packets")
      BY Zenon DEF ProofValues
    <3> QED  BY <3>1, <3>2, Zenon DEF Numbers
  <2>3. SoundProof["atoms"] \in ProofValues("atoms")
    BY Zenon DEF SoundProof, ProofValues
  <2>4. SoundProof["blocked"] \in ProofValues("blocked")
    BY Zenon DEF SoundProof, ProofValues
  <2>5. SoundProof["candidate"] \in ProofValues("candidate")
    BY Zenon DEF SoundProof, ProofValues
  <2> QED  BY <2>1, <2>2, <2>3, <2>4, <2>5
              DEF ProofFields, Proofs!Required, Proofs!Optional, Texts, Numbers
<1>5. ASSUME NEW f \in ProofFields, NEW g \in ProofFields,
             NEW v \in ProofValues(f), NEW w \in ProofValues(g)
      PROVE  [SoundProof EXCEPT ![f] = v, ![g] = w] \in StoredProofs(Words)
  <2> DEFINE p == [SoundProof EXCEPT ![f] = v, ![g] = w]
  <2>1. DOMAIN p = ProofFields /\ p = [h \in ProofFields |-> p[h]]
    BY <1>3
  <2>2. \A h \in ProofFields : p[h] = IF h = g THEN w ELSE IF h = f THEN v ELSE SoundProof[h]
    BY <1>3
  <2>3. v \in FieldType(f) /\ w \in FieldType(g)
    BY <1>2
  <2> HIDE DEF p
  <2>4. \A h \in ProofFields : p[h] \in FieldType(h)
    BY <1>2, <1>4, <2>2, <2>3, Zenon
  <2>5. p \in StoredProofs(Words)
    BY <2>1, <2>4, ProofOfFields, Zenon
  <2> QED  BY <2>5 DEF p
<1>6. \A x \in ProofInputs : \E f, g \in DOMAIN SoundProof :
        \E v \in ProofValues(f), w \in ProofValues(g) : x = [SoundProof EXCEPT ![f] = v, ![g] = w]
  BY DEF ProofInputs
<1> QED  BY <1>3, <1>5, <1>6

\* The input of a behaviour is one of its kind.
InputsAreOfTheirKind ==
  \/ input = NoInput
  \/ \E i : /\ input = [kind |-> part, of |-> i]
            /\ part = "lesson" => i \in Lessons
            /\ part = "proof" => i \in ProofInputs

LEMMA InputsInvariant == KnowledgeSpec => []InputsAreOfTheirKind
<1>1. KnowledgeInit => InputsAreOfTheirKind
  BY Zenon DEF KnowledgeInit, InputsAreOfTheirKind
<1>2. InputsAreOfTheirKind /\ [KnowledgeNext]_knowledgeVars => InputsAreOfTheirKind'
  <2> SUFFICES ASSUME InputsAreOfTheirKind, [KnowledgeNext]_knowledgeVars
               PROVE  InputsAreOfTheirKind'
    OBVIOUS
  <2>1. CASE part' = part /\ input' = input
    BY <2>1, Zenon DEF InputsAreOfTheirKind
  <2>2. ASSUME NEW kind, NEW inputs, Choose(kind, inputs),
               kind = "lesson" => inputs = Lessons, kind = "proof" => inputs = ProofInputs
        PROVE  InputsAreOfTheirKind'
    <3>1. part = kind /\ part' = part
      BY <2>2, Zenon DEF Choose
    <3>2. PICK i \in inputs : input' = [kind |-> part', of |-> i]
      BY <2>2, <3>1, Zenon DEF Choose
    <3>3. (part' = "lesson" => i \in Lessons) /\ (part' = "proof" => i \in ProofInputs)
      BY <2>2, <3>1, <3>2, Zenon
    <3> QED  BY <3>2, <3>3, Zenon DEF InputsAreOfTheirKind
  <2>3. "intent" \notin {"lesson", "proof"} /\ "wiki" \notin {"lesson", "proof"}
        /\ "lesson" # "proof"
    BY Zenon
  <2>4. CASE Choose("intent", Intents)
    BY <2>2, <2>3, <2>4, Zenon
  <2>5. CASE Choose("wiki", Wikis)
    BY <2>2, <2>3, <2>5, Zenon
  <2>6. CASE Choose("lesson", Lessons)
    BY <2>2, <2>3, <2>6, Zenon
  <2>7. CASE Choose("proof", ProofInputs)
    BY <2>2, <2>3, <2>7, Zenon
  <2>8. \/ part' = part /\ input' = input
        \/ Choose("intent", Intents) \/ Choose("wiki", Wikis)
        \/ Choose("lesson", Lessons) \/ Choose("proof", ProofInputs)
    BY DEF KnowledgeNext, knowledgeVars
  <2> QED  BY <2>1, <2>4, <2>5, <2>6, <2>7, <2>8, Zenon
<1> QED  BY <1>1, <1>2, PTL DEF KnowledgeSpec

\* A lesson promotes a recipe, and a proof enters the graph, only on evidence
\* that verifies now, and both are read back from their lines
\* (is_promotable_success, from_json, add_proof_record).
THEOREM EvidenceIsAlwaysNeeded == KnowledgeSpec => []EvidenceBacksSuccess
<1>1. InputsAreOfTheirKind => EvidenceBacksSuccess
  <2> SUFFICES ASSUME InputsAreOfTheirKind PROVE EvidenceBacksSuccess
    OBVIOUS
  <2> SUFFICES ASSUME input # NoInput PROVE EvidenceBacksSuccess
    BY Zenon DEF EvidenceBacksSuccess, Chosen
  <2>1. PICK i : /\ input = [kind |-> part, of |-> i]
                 /\ part = "lesson" => i \in Lessons
                 /\ part = "proof" => i \in ProofInputs
    BY Zenon DEF InputsAreOfTheirKind
  <2>2. input.of = i
    BY <2>1
  <2>3. ASSUME part = "lesson"
        PROVE  \A disk : Rules!EvidenceBacksSuccess(i, disk) /\ Rules!HistoryStaysReadable(i, disk)
    BY <2>1, <2>3, LessonsTyped, EvidenceIsNeeded, Zenon
  <2>4. LeftOut \subseteq SUBSET ProofFields
    BY DEF LeftOut, ProofFields, Proofs!Optional
  <2>5. ASSUME part = "proof"
        PROVE  \A fields \in LeftOut : \A disk : Proofs!ProofsAreEarned(i, fields, disk)
    BY <2>1, <2>4, <2>5, ProofInputsTyped, EvidenceIsNeeded, Zenon
  <2> QED  BY <2>2, <2>3, <2>5, Zenon DEF EvidenceBacksSuccess, Chosen
<1> QED  BY <1>1, InputsInvariant, PTL
==============================================================================
