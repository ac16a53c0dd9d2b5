---------------------------- MODULE WorkPlan_proofs ----------------------------
(***************************************************************************)
(* Proofs about the expansion of a work plan, for any number of files: its *)
(* packets depend on packets before them, and the plan expand_files builds *)
(* by reducing groups of three is row by row the one                       *)
(* validate_packet_schedule counts out.                                    *)
(*                                                                         *)
(* Both count the same reductions from different ends.  The invariant says *)
(* at each round how many groups were made and how many the count still    *)
(* expects of the inputs left; that they end, and in numbers, is shown     *)
(* first (CountsEnd).  Then what flows through the plan: no finding is     *)
(* lost, and no prompt leaves out a dependency.                            *)
(***************************************************************************)
EXTENDS WorkPlan, FiniteSetTheorems, TLAPS

(***************************************************************************)
(* The invariant.                                                          *)
(***************************************************************************)
\* The rows of a plan, as its evidence lists them.
RowsIn(s) == [i \in 1..Len(s) |-> Row(s[i].stage, s[i].file)]

FileRows(k) ==
  [i \in 1..4 * k |-> Row(FileStages[((i - 1) % 4) + 1], ((i - 1) \div 4) + 1)]

BaseRows == [i \in 1..5 |-> Row(BaseStages[i], 0)]

\* The schedule of n files as far as each phase starts with.
Shown(n)  == BaseRows \o FileRows(n)
Summed(n) == Shown(n) \o Repeated("integration-group", IntegrationGroupCount[n])
               \o <<Row("integration", 0)>> \o PerFile("integration-correction", n)
Closed(n) == Summed(n) \o Repeated("closure-group", ReductionToOneCount[n])
Gated(n)  == Closed(n) \o <<Row("integration-closure", 0), Row("verification", 0),
                            Row("adversarial-review", 0)>>
               \o PerFile("final-correction", n)
Shipped(n) == Gated(n) \o Repeated("release-group", ReductionToOneCount[n])

\* A reduction of n inputs to one that has made some packets and has others yet
\* to make.
Reducing(rows, stage, n, m) ==
  \E made \in Nat :
    /\ RowsIn(packets) = rows \o Repeated(stage, made)
    /\ made + ReductionToOneCount[m] = ReductionToOneCount[n]

RowsInv ==
  LET rows == RowsIn(packets)  n == files  m == Len(inputs)  IN
    /\ phase = "files" => Len(contracts) < n /\ rows = Shown(Len(contracts))
    /\ phase = "integration" =>
         /\ m \in 1..n
         /\ \E made \in Nat :
              /\ rows = Shown(n) \o Repeated("integration-group", made)
              /\ made + IntegrationGroupCount[m] = IntegrationGroupCount[n]
    /\ phase = "closure" => m \in 1..n /\ Reducing(Summed(n), "closure-group", n, m)
    /\ phase = "gates" => m = 1 /\ rows = Closed(n)
    /\ phase = "release" => m \in 1..n /\ Reducing(Gated(n), "release-group", n, m)
    /\ phase = "finish" => m = 1 /\ rows = Shipped(n)
    /\ phase = "done" => rows = Schedule(n)

FilesInv ==
  /\ Len(packets) >= 5
  /\ phase = "files" => Len(corrections) = Len(contracts)
  /\ phase # "files" => Len(contracts) = files /\ Len(corrections) = files

PlanInv == TypeOK /\ DependenciesPrecede /\ FilesInv /\ RowsInv

(***************************************************************************)
(* Induction over numbers, and the counts of a reduction.                  *)
(***************************************************************************)
\* A non-empty set of numbers has a least one.
LEMMA LeastNumber ==
  \A T \in SUBSET Nat : T # {} => \E m \in T : \A k \in T : m <= k
<1> SUFFICES ASSUME NEW T \in SUBSET Nat, T # {}
             PROVE  \E m \in T : \A k \in T : m <= k
  OBVIOUS
<1> DEFINE U == {0..k : k \in T}
<1>1. U \subseteq FiniteSubsetsOf(Nat) /\ U # {}
  <2>1. ASSUME NEW k \in T PROVE 0..k \in FiniteSubsetsOf(Nat)
    <3>1. IsFiniteSet(0..k)
      BY FS_Interval
    <3> QED
      BY <3>1 DEF FiniteSubsetsOf
  <2> QED
    BY <2>1
<1>2. \E x \in U : \A y \in U : ~(<<y, x>> \in StrictSubsetOrdering(Nat))
  BY <1>1, WFMin, FS_StrictSubsetOrderingWellFounded, Zenon
<1>3. PICK m \in T : \A k \in T : <<0..k, 0..m>> \notin StrictSubsetOrdering(Nat)
  BY <1>2
<1>4. ASSUME NEW k \in T PROVE m <= k
  <2>1. CASE k < m
    <3>1. 0..k \subseteq 0..m /\ m \in 0..m /\ m \notin 0..k
      BY <2>1
    <3>2. 0..k \in SUBSET Nat /\ 0..m \in SUBSET Nat /\ 0..k # 0..m
      BY <3>1
    <3> QED
      BY <1>3, <3>1, <3>2 DEF StrictSubsetOrdering
  <2> QED
    BY <2>1
<1> QED
  BY <1>4

\* What is true of 0 and passes from each number to the next is true up to n.
LEMMA UpTo ==
  ASSUME NEW n \in Nat, NEW T, 0 \in T, \A k \in 0..n : k < n /\ k \in T => k + 1 \in T
  PROVE  \A k \in 0..n : k \in T
<1> DEFINE U == {k \in 0..n : k \notin T}
<1> SUFFICES ASSUME U # {} PROVE FALSE
  OBVIOUS
<1>1. PICK m \in U : \A k \in U : m <= k
  <2>1. U \in SUBSET Nat
    OBVIOUS
  <2> HIDE DEF U
  <2> QED
    BY <2>1, LeastNumber
<1>2. m # 0 /\ m - 1 \in 0..n /\ m - 1 < n
  BY <1>1
<1>3. m - 1 \in T
  BY <1>1, <1>2
<1>4. m - 1 + 1 = m
  BY <1>1
<1>5. m \in T
  BY <1>2, <1>3, <1>4
<1> QED
  BY <1>1, <1>5

\* f counts, for 0 to n inputs, the groups of a reduction that ends in base.
CountsTo(f, base, n) ==
  /\ f \in [0..n -> Nat]
  /\ \A k \in 0..n : f[k] = IF k > 3 THEN Thirds(k) + f[Thirds(k)] ELSE base

LEMMA FewerThirds ==
  ASSUME NEW m \in Nat
  PROVE  /\ Thirds(m) \in Nat
         /\ m > 3 => Thirds(m) \in 2..(m - 1)
         /\ m >= 1 => Thirds(m) >= 1 /\ (Thirds(m) = 1 <=> m <= 3)
BY DEF Thirds

LEMMA CountGrows ==
  ASSUME NEW base \in Nat, NEW k \in Nat, NEW f, CountsTo(f, base, k)
  PROVE  \E g : CountsTo(g, base, k + 1)
<1> DEFINE last == IF k + 1 > 3 THEN Thirds(k + 1) + f[Thirds(k + 1)] ELSE base
           g == [i \in 0..(k + 1) |-> IF i <= k THEN f[i] ELSE last]
<1>1. f \in [0..k -> Nat]
  BY DEF CountsTo
<1>2. /\ \A i \in 0..(k + 1) : Thirds(i) \in Nat
      /\ \A i \in 0..(k + 1) : i > 3 => Thirds(i) \in 0..k /\ Thirds(i) < i
  BY FewerThirds
<1>3. last \in Nat
  BY <1>1, <1>2
<1>4. g \in [0..(k + 1) -> Nat]
  BY <1>1, <1>3
<1>5. ASSUME NEW i \in 0..(k + 1)
      PROVE  g[i] = IF i > 3 THEN Thirds(i) + g[Thirds(i)] ELSE base
  <2>1. i > 3 => g[Thirds(i)] = f[Thirds(i)]
    BY <1>2
  <2>2. CASE i <= k
    <3>1. g[i] = f[i] /\ i \in 0..k
      BY <2>2
    <3>2. f[i] = IF i > 3 THEN Thirds(i) + f[Thirds(i)] ELSE base
      BY <3>1 DEF CountsTo
    <3> HIDE DEF g
    <3> QED  BY <2>1, <3>1, <3>2
  <2>3. CASE i = k + 1
    <3>1. g[i] = last
      BY <2>3
    <3> HIDE DEF g
    <3> QED  BY <2>1, <2>3, <3>1
  <2> QED  BY <2>2, <2>3
<1> HIDE DEF g
<1>6. CountsTo(g, base, k + 1)
  BY <1>4, <1>5 DEF CountsTo
<1> QED  BY <1>6

LEMMA CountExists ==
  ASSUME NEW base \in Nat, NEW n \in Nat
  PROVE  \E f : CountsTo(f, base, n)
<1> DEFINE T == {k \in Nat : \E f : CountsTo(f, base, k)}
<1>1. 0 \in T
  <2> DEFINE f == [i \in 0..0 |-> base]
  <2>1. CountsTo(f, base, 0)
    BY DEF CountsTo
  <2> HIDE DEF f
  <2> QED  BY <2>1
<1>2. \A k \in 0..n : k < n /\ k \in T => k + 1 \in T
  BY CountGrows
<1>3. \A k \in 0..n : k \in T
  <2> HIDE DEF T
  <2> QED  BY <1>1, <1>2, UpTo
<1> QED  BY <1>3

LEMMA CountsAgree ==
  ASSUME NEW base \in Nat, NEW m \in Nat, NEW n \in Nat, m <= n, NEW f, NEW g,
         CountsTo(f, base, m), CountsTo(g, base, n)
  PROVE  \A k \in 0..m : f[k] = g[k]
<1> DEFINE T == {k \in Nat : \A i \in 0..k : i <= m => f[i] = g[i]}
<1>1. 0 \in T
  <2>1. 0 \in 0..m /\ 0 \in 0..n
    OBVIOUS
  <2>2. f[0] = base /\ g[0] = base
    BY <2>1 DEF CountsTo
  <2> QED  BY <2>2
<1>2. ASSUME NEW k \in 0..m, k < m, k \in T PROVE k + 1 \in T
  <2>1. k + 1 \in 0..m /\ k + 1 \in 0..n /\ k + 1 \in Nat
    BY <1>2
  <2>2. k + 1 > 3 => Thirds(k + 1) \in 0..k
    BY <2>1, FewerThirds
  <2>3. k + 1 > 3 => f[Thirds(k + 1)] = g[Thirds(k + 1)]
    BY <1>2, <2>2
  <2>4. /\ f[k + 1] = IF k + 1 > 3 THEN Thirds(k + 1) + f[Thirds(k + 1)] ELSE base
        /\ g[k + 1] = IF k + 1 > 3 THEN Thirds(k + 1) + g[Thirds(k + 1)] ELSE base
    BY <2>1 DEF CountsTo
  <2>5. f[k + 1] = g[k + 1]
    BY <2>3, <2>4
  <2>6. \A i \in 0..(k + 1) : i \in 0..k \/ i = k + 1
    BY <1>2
  <2> QED  BY <1>2, <2>1, <2>5, <2>6
<1>3. \A k \in 0..m : k \in T
  <2>1. \A k \in 0..m : k < m /\ k \in T => k + 1 \in T
    BY <1>2
  <2> HIDE DEF T
  <2> QED  BY <1>1, <2>1, UpTo
<1> QED  BY <1>3

\* The recursion of the counts has a solution for every number of inputs.
LEMMA CountOfAll ==
  ASSUME NEW base \in Nat
  PROVE  \E g : g = [n \in Nat |-> IF n > 3 THEN Thirds(n) + g[Thirds(n)] ELSE base]
<1> DEFINE F(n) == CHOOSE f : CountsTo(f, base, n)
           g == [n \in Nat |-> F(n)[n]]
<1>1. \A n \in Nat : CountsTo(F(n), base, n)
  BY CountExists
<1> HIDE DEF F
<1>2. ASSUME NEW n \in Nat
      PROVE  g[n] = IF n > 3 THEN Thirds(n) + g[Thirds(n)] ELSE base
  <2>1. g[n] = F(n)[n]
    OBVIOUS
  <2>2. F(n)[n] = IF n > 3 THEN Thirds(n) + F(n)[Thirds(n)] ELSE base
    BY <1>1 DEF CountsTo
  <2>3. ASSUME n > 3 PROVE F(n)[Thirds(n)] = g[Thirds(n)]
    <3>1. Thirds(n) \in Nat /\ Thirds(n) <= n
      BY <2>3, FewerThirds
    <3> DEFINE t == Thirds(n)
    <3>2. g[t] = F(t)[t]
      BY <3>1
    <3>3. F(t)[t] = F(n)[t]
      <4>1. t \in Nat /\ t <= n /\ t \in 0..t
        BY <3>1
      <4> HIDE DEF t
      <4> QED  BY <1>1, <4>1, CountsAgree
    <3> QED  BY <3>2, <3>3
  <2> HIDE DEF g
  <2> QED  BY <2>1, <2>2, <2>3
<1>3. g = [n \in Nat |-> IF n > 3 THEN Thirds(n) + g[Thirds(n)] ELSE base]
  <2>1. g = [n \in Nat |-> g[n]]
    OBVIOUS
  <2> HIDE DEF g
  <2> QED  BY <1>2, <2>1
<1> HIDE DEF g
<1> QED  BY <1>3

\* Such a solution is a number of each number of inputs.
LEMMA CountIsNumber ==
  ASSUME NEW base \in Nat, NEW g,
         \A n \in Nat \ {0} : g[n] = IF n > 3 THEN Thirds(n) + g[Thirds(n)] ELSE base
  PROVE  \A n \in Nat \ {0} : g[n] \in Nat
<1> SUFFICES ASSUME NEW n \in Nat \ {0} PROVE g[n] \in Nat
  OBVIOUS
<1> DEFINE T == {k \in Nat : \A i \in 1..k : g[i] \in Nat}
<1>1. 0 \in T
  OBVIOUS
<1>2. ASSUME NEW k \in 0..n, k < n, k \in T PROVE k + 1 \in T
  <2>1. k + 1 \in Nat \ {0}
    OBVIOUS
  <2>2. k + 1 > 3 => Thirds(k + 1) \in 1..k /\ Thirds(k + 1) \in Nat
    BY <2>1, FewerThirds
  <2>3. k + 1 > 3 => g[Thirds(k + 1)] \in Nat
    BY <1>2, <2>2
  <2>4. g[k + 1] = IF k + 1 > 3 THEN Thirds(k + 1) + g[Thirds(k + 1)] ELSE base
    BY <2>1
  <2>5. g[k + 1] \in Nat
    BY <2>2, <2>3, <2>4
  <2>6. \A i \in 1..(k + 1) : i \in 1..k \/ i = k + 1
    OBVIOUS
  <2> QED  BY <1>2, <2>1, <2>5, <2>6
<1>3. n \in T
  <2>1. \A k \in 0..n : k < n /\ k \in T => k + 1 \in T
    BY <1>2
  <2>2. n \in 0..n /\ n \in Nat
    OBVIOUS
  <2> HIDE DEF T
  <2> QED  BY <1>1, <2>1, <2>2, UpTo
<1>4. n \in 1..n
  OBVIOUS
<1> QED  BY <1>3, <1>4

\* integration_group_count and reduction_to_one_count end, in a number.
LEMMA CountsEnd ==
  \A n \in Nat \ {0} :
    /\ IntegrationGroupCount[n] \in Nat
    /\ IntegrationGroupCount[n] =
         IF n > 3 THEN Thirds(n) + IntegrationGroupCount[Thirds(n)] ELSE 0
    /\ ReductionToOneCount[n] \in Nat
    /\ ReductionToOneCount[n] =
         IF Thirds(n) = 1 THEN 1 ELSE Thirds(n) + ReductionToOneCount[Thirds(n)]
<1>1. IntegrationGroupCount =
        [n \in Nat |-> IF n > 3 THEN Thirds(n) + IntegrationGroupCount[Thirds(n)] ELSE 0]
  <2>1. \E g : g = [n \in Nat |-> IF n > 3 THEN Thirds(n) + g[Thirds(n)] ELSE 0]
    BY CountOfAll
  <2> QED  BY <2>1 DEF IntegrationGroupCount
<1>2. \A n \in Nat : IntegrationGroupCount[n] =
        IF n > 3 THEN Thirds(n) + IntegrationGroupCount[Thirds(n)] ELSE 0
  <2> DEFINE c == IntegrationGroupCount
  <2>1. c = [n \in Nat |-> IF n > 3 THEN Thirds(n) + c[Thirds(n)] ELSE 0]
    BY <1>1
  <2> HIDE DEF c
  <2>2. \A n \in Nat : c[n] = IF n > 3 THEN Thirds(n) + c[Thirds(n)] ELSE 0
    BY <2>1
  <2> QED  BY <2>2 DEF c
<1>3. \A n \in Nat \ {0} : IntegrationGroupCount[n] \in Nat
  BY <1>2, CountIsNumber
<1>4. ReductionToOneCount =
        [n \in Nat \ {0} |-> IF Thirds(n) = 1 THEN 1
                             ELSE Thirds(n) + ReductionToOneCount[Thirds(n)]]
  <2>1. PICK g : g = [n \in Nat |-> IF n > 3 THEN Thirds(n) + g[Thirds(n)] ELSE 1]
    BY CountOfAll
  <2> DEFINE h == [n \in Nat \ {0} |-> g[n]]
  <2>2. ASSUME NEW n \in Nat \ {0}
        PROVE  h[n] = IF Thirds(n) = 1 THEN 1 ELSE Thirds(n) + h[Thirds(n)]
    <3>1. Thirds(n) \in Nat \ {0} /\ (Thirds(n) = 1 <=> n <= 3) /\ n \in Nat
      BY FewerThirds
    <3>2. h[n] = g[n] /\ h[Thirds(n)] = g[Thirds(n)]
      BY <3>1
    <3>3. g[n] = IF n > 3 THEN Thirds(n) + g[Thirds(n)] ELSE 1
      BY <2>1, <3>1
    <3> HIDE DEF h
    <3> QED  BY <3>1, <3>2, <3>3
  <2>3. h = [n \in Nat \ {0} |-> h[n]]
    OBVIOUS
  <2> HIDE DEF h
  <2>4. h = [n \in Nat \ {0} |-> IF Thirds(n) = 1 THEN 1 ELSE Thirds(n) + h[Thirds(n)]]
    BY <2>2, <2>3
  <2>5. \E f : f = [n \in Nat \ {0} |-> IF Thirds(n) = 1 THEN 1
                                        ELSE Thirds(n) + f[Thirds(n)]]
    BY <2>4
  <2> QED  BY <2>5 DEF ReductionToOneCount
<1>5. \A n \in Nat \ {0} : ReductionToOneCount[n] =
        IF Thirds(n) = 1 THEN 1 ELSE Thirds(n) + ReductionToOneCount[Thirds(n)]
  <2> DEFINE c == ReductionToOneCount
  <2>1. c = [n \in Nat \ {0} |-> IF Thirds(n) = 1 THEN 1 ELSE Thirds(n) + c[Thirds(n)]]
    BY <1>4
  <2> HIDE DEF c
  <2>2. \A n \in Nat \ {0} :
          c[n] = IF Thirds(n) = 1 THEN 1 ELSE Thirds(n) + c[Thirds(n)]
    BY <2>1
  <2> QED  BY <2>2 DEF c
<1>6. \A n \in Nat \ {0} : ReductionToOneCount[n] \in Nat
  <2> DEFINE c == ReductionToOneCount
  <2>1. \A n \in Nat \ {0} : c[n] = IF n > 3 THEN Thirds(n) + c[Thirds(n)] ELSE 1
    <3> HIDE DEF c
    <3>1. \A n \in Nat \ {0} :
            c[n] = IF Thirds(n) = 1 THEN 1 ELSE Thirds(n) + c[Thirds(n)]
      BY <1>5 DEF c
    <3>2. \A n \in Nat \ {0} : Thirds(n) = 1 <=> ~(n > 3)
      BY FewerThirds
    <3> QED  BY <3>1, <3>2
  <2> HIDE DEF c
  <2>2. \A n \in Nat \ {0} : c[n] \in Nat
    BY <2>1, CountIsNumber
  <2> QED  BY <2>2 DEF c
<1>7. \A n \in Nat \ {0} : n \in Nat
  OBVIOUS
<1> QED  BY <1>2, <1>3, <1>5, <1>6, <1>7

(***************************************************************************)
(* Sequences.                                                              *)
(***************************************************************************)
LEMMA ConcatIsSeq ==
  \A S : \A a, b \in Seq(S) :
    /\ a \o b \in Seq(S) /\ Len(a \o b) = Len(a) + Len(b)
    /\ \A i \in 1..Len(a) : (a \o b)[i] = a[i]
    /\ \A i \in 1..Len(b) : (a \o b)[Len(a) + i] = b[i]
OBVIOUS

LEMMA OnlyPlace ==
  ASSUME NEW S, NEW s \in Seq(S), Len(s) = 1
  PROVE  s[1] \in S
OBVIOUS

LEMMA ConcatLength ==
  \A S : \A a, b \in Seq(S) : a \o b \in Seq(S) /\ Len(a \o b) = Len(a) + Len(b)
OBVIOUS

LEMMA ConcatIsGrouped ==
  ASSUME NEW S
  PROVE  \A a, b, c \in Seq(S) : a \o b \o c = a \o (b \o c)
OBVIOUS

\* Sequences are equal that are equal at each place.
LEMMA SameSequence ==
  ASSUME NEW S, NEW a \in Seq(S), NEW b \in Seq(S), Len(a) = Len(b),
         \A i \in 1..Len(a) : a[i] = b[i]
  PROVE  a = b
OBVIOUS

LEMMA NoneMore ==
  ASSUME NEW S, NEW s \in Seq(S), NEW e \in Seq(S), Len(e) = 0
  PROVE  s \o e = s
<1>1. s \o e \in Seq(S) /\ Len(s \o e) = Len(s) /\ \A i \in 1..Len(s) : (s \o e)[i] = s[i]
  BY ConcatIsSeq
<1> QED  BY <1>1, SameSequence

LEMMA FourPlaces ==
  ASSUME NEW S, NEW a \in S, NEW b \in S, NEW c \in S, NEW d \in S
  PROVE  <<a, b, c, d>> \in Seq(S) /\ Len(<<a, b, c, d>>) = 4
OBVIOUS

LEMMA ThreePlaces ==
  ASSUME NEW S, NEW a \in S, NEW b \in S, NEW c \in S
  PROVE  /\ <<a, b, c>> \in Seq(S) /\ \A d \in 1..Len(<<a, b, c>>) : <<a, b, c>>[d] \in S
         /\ <<a, b>> \in Seq(S) /\ <<a>> \in Seq(S) /\ <<>> \in Seq(S)
<1>1. /\ <<a, b, c>> \in Seq(S) /\ Len(<<a, b, c>>) = 3
      /\ <<a, b, c>>[1] = a /\ <<a, b, c>>[2] = b /\ <<a, b, c>>[3] = c
  OBVIOUS
<1>2. \A d \in 1..Len(<<a, b, c>>) : <<a, b, c>>[d] \in S
  BY <1>1
<1>3. <<a, b>> \in Seq(S) /\ <<a>> \in Seq(S) /\ <<>> \in Seq(S)
  OBVIOUS
<1> QED  BY <1>1, <1>2, <1>3

Holds(s, x) == \E i \in 1..Len(s) : s[i] = x

LEMMA HoldsOn ==
  ASSUME NEW S, NEW a \in Seq(S), NEW b \in Seq(S), NEW x, Holds(a, x) \/ Holds(b, x)
  PROVE  Holds(a \o b, x)
<1>1. CASE Holds(a, x)
  <2>1. PICK i \in 1..Len(a) : a[i] = x
    BY <1>1 DEF Holds
  <2> QED  BY <2>1, ConcatIsSeq DEF Holds
<1>2. CASE Holds(b, x)
  <2>1. PICK i \in 1..Len(b) : b[i] = x
    BY <1>2 DEF Holds
  <2>2. Len(a) + i \in 1..Len(a \o b) /\ (a \o b)[Len(a) + i] = x
    BY <2>1, ConcatIsSeq
  <2> QED  BY <2>2 DEF Holds
<1> QED  BY <1>1, <1>2

(***************************************************************************)
(* Rows.                                                                   *)
(***************************************************************************)
SomeRows == [stage : Stages, file : Nat]

LEMMA RowsGrouped ==
  \A a, b, c \in Seq(SomeRows) : a \o b \o c = a \o (b \o c)
BY ConcatIsGrouped

LEMMA RowsLength ==
  \A a, b \in Seq(SomeRows) : a \o b \in Seq(SomeRows) /\ Len(a \o b) = Len(a) + Len(b)
BY ConcatLength

LEMMA RowTyped ==
  ASSUME NEW stage \in Stages, NEW file \in Nat
  PROVE  Row(stage, file) \in SomeRows
BY DEF Row, SomeRows

LEMMA RepeatedRows ==
  ASSUME NEW stage \in Stages, NEW k \in Nat
  PROVE  /\ Repeated(stage, k) \in Seq(SomeRows) /\ Len(Repeated(stage, k)) = k
         /\ \A i \in 1..k : Repeated(stage, k)[i] = Row(stage, 0)
<1>1. Row(stage, 0) \in SomeRows
  BY RowTyped
<1> QED  BY <1>1 DEF Repeated

LEMMA RepeatedMore ==
  ASSUME NEW stage \in Stages, NEW j \in Nat, NEW k \in Nat
  PROVE  Repeated(stage, j) \o Repeated(stage, k) = Repeated(stage, j + k)
<1>1. /\ Repeated(stage, j) \in Seq(SomeRows) /\ Len(Repeated(stage, j)) = j
      /\ Repeated(stage, k) \in Seq(SomeRows) /\ Len(Repeated(stage, k)) = k
      /\ Repeated(stage, j + k) \in Seq(SomeRows) /\ Len(Repeated(stage, j + k)) = j + k
  BY RepeatedRows
<1>2. \A i \in 1..(j + k) : (Repeated(stage, j) \o Repeated(stage, k))[i] = Row(stage, 0)
  <2> SUFFICES ASSUME NEW i \in 1..(j + k)
               PROVE  (Repeated(stage, j) \o Repeated(stage, k))[i] = Row(stage, 0)
    OBVIOUS
  <2>1. CASE i \in 1..j
    BY <1>1, <2>1, RepeatedRows, ConcatIsSeq
  <2>2. CASE i \notin 1..j
    <3>1. i - j \in 1..k /\ i = j + (i - j)
      BY <2>2
    <3>2. (Repeated(stage, j) \o Repeated(stage, k))[j + (i - j)] = Repeated(stage, k)[i - j]
      BY <1>1, <3>1, ConcatIsSeq
    <3> QED  BY <3>1, <3>2, RepeatedRows
  <2> QED  BY <2>1, <2>2
<1>3. /\ Repeated(stage, j) \o Repeated(stage, k) \in Seq(SomeRows)
      /\ Len(Repeated(stage, j) \o Repeated(stage, k)) = j + k
  BY <1>1, ConcatIsSeq
<1>4. \A i \in 1..(j + k) :
        (Repeated(stage, j) \o Repeated(stage, k))[i] = Repeated(stage, j + k)[i]
  <2>1. \A i \in 1..(j + k) : Repeated(stage, j + k)[i] = Row(stage, 0)
    BY DEF Repeated
  <2> QED  BY <1>2, <2>1
<1> QED  BY <1>1, <1>3, <1>4, SameSequence

LEMMA PerFileRows ==
  ASSUME NEW stage \in Stages, NEW n \in Nat
  PROVE  PerFile(stage, n) \in Seq(SomeRows) /\ Len(PerFile(stage, n)) = n
<1>1. \A f \in 1..n : Row(stage, f) \in SomeRows
  BY RowTyped
<1> QED  BY <1>1 DEF PerFile

LEMMA BaseRowsTyped == BaseRows \in Seq(SomeRows) /\ Len(BaseRows) = 5
<1>1. \A i \in 1..5 : BaseStages[i] \in Stages
  BY DEF Stages
<1>2. \A i \in 1..5 : Row(BaseStages[i], 0) \in SomeRows
  BY <1>1, RowTyped
<1> QED  BY <1>2 DEF BaseRows

FourRows(f) ==
  <<Row("file-contract", f), Row("file-implementation", f), Row("file-review", f),
    Row("file-correction", f)>>

LEMMA FileStagesKnown ==
  /\ FileStages[1] = "file-contract" /\ FileStages[2] = "file-implementation"
  /\ FileStages[3] = "file-review" /\ FileStages[4] = "file-correction"
  /\ \A i \in 1..4 : FileStages[i] \in Stages
BY DEF FileStages, Stages

LEMMA FileRowsTyped ==
  ASSUME NEW k \in Nat
  PROVE  FileRows(k) \in Seq(SomeRows) /\ Len(FileRows(k)) = 4 * k
<1>1. ASSUME NEW i \in 1..4 * k
      PROVE  Row(FileStages[((i - 1) % 4) + 1], ((i - 1) \div 4) + 1) \in SomeRows
  <2>1. ((i - 1) % 4) + 1 \in 1..4 /\ ((i - 1) \div 4) + 1 \in Nat
    OBVIOUS
  <2> QED  BY <2>1, FileStagesKnown, RowTyped
<1>2. 4 * k \in Nat
  OBVIOUS
<1> QED  BY <1>1, <1>2 DEF FileRows

\* The rows of one file more.
LEMMA FileRowsGrow ==
  ASSUME NEW k \in Nat
  PROVE  FileRows(k) \o FourRows(k + 1) = FileRows(k + 1)
<1> DEFINE a == FileRows(k)
           b == FourRows(k + 1)
           c == FileRows(k + 1)
<1>1. /\ a \in Seq(SomeRows) /\ Len(a) = 4 * k
      /\ c \in Seq(SomeRows) /\ Len(c) = 4 * k + 4
  BY FileRowsTyped
<1>2. b \in Seq(SomeRows) /\ Len(b) = 4
  <2>1. /\ Row("file-contract", k + 1) \in SomeRows
        /\ Row("file-implementation", k + 1) \in SomeRows
        /\ Row("file-review", k + 1) \in SomeRows
        /\ Row("file-correction", k + 1) \in SomeRows
    BY FileStagesKnown, RowTyped
  <2> QED  BY <2>1, FourPlaces DEF FourRows
<1>3. \A i \in 1..4 : b[i] = Row(FileStages[i], k + 1)
  BY FileStagesKnown DEF FourRows
<1>0. /\ Len(a \o b) = 4 * k + 4 /\ a \o b \in Seq(SomeRows)
      /\ \A j \in 1..4 : (a \o b)[4 * k + j] = b[j]
  <2>a. a \in Seq(SomeRows) /\ b \in Seq(SomeRows)
    BY <1>1, <1>2
  <2> HIDE DEF a, b
  <2>1. \A j \in 1..Len(b) : (a \o b)[Len(a) + j] = b[j]
    BY <2>a, ConcatIsSeq
  <2>2. a \o b \in Seq(SomeRows) /\ Len(a \o b) = Len(a) + Len(b)
    BY <1>1, <1>2, ConcatIsSeq
  <2> QED  BY <1>1, <1>2, <2>1, <2>2
<1>4. ASSUME NEW i \in 1..(4 * k + 4) PROVE (a \o b)[i] = c[i]
  <2>1. c[i] = Row(FileStages[((i - 1) % 4) + 1], ((i - 1) \div 4) + 1)
    BY DEF FileRows
  <2>2. CASE i \in 1..4 * k
    <3>1. a[i] = Row(FileStages[((i - 1) % 4) + 1], ((i - 1) \div 4) + 1)
      BY <2>2 DEF FileRows
    <3>2. (a \o b)[i] = a[i]
      BY <1>1, <1>2, <2>2, ConcatIsSeq
    <3> QED  BY <2>1, <3>1, <3>2
  <2>3. CASE i \notin 1..4 * k
    <3>1. PICK j \in 1..4 : i = 4 * k + j
      <4>1. i - 4 * k \in 1..4 /\ i = 4 * k + (i - 4 * k)
        BY <2>3
      <4> QED  BY <4>1
    <3>2. ((i - 1) % 4) + 1 = j /\ ((i - 1) \div 4) + 1 = k + 1
      BY <3>1
    <3>3. (a \o b)[4 * k + j] = b[j]
      BY <1>0
    <3> QED  BY <1>3, <2>1, <3>1, <3>2, <3>3
  <2> QED  BY <2>2, <2>3
<1> HIDE DEF a, b, c
<1>6. a \o b = c
  BY <1>0, <1>1, <1>4, SameSequence
<1> QED  BY <1>6 DEF a, b, c

(***************************************************************************)
(* A plan that grows.                                                      *)
(***************************************************************************)
LEMMA RowsTyped ==
  ASSUME NEW s \in Seq(Packets)
  PROVE  RowsIn(s) \in Seq(SomeRows) /\ Len(RowsIn(s)) = Len(s)
<1>1. \A i \in 1..Len(s) : s[i] \in Packets
  OBVIOUS
<1>2. ASSUME NEW i \in 1..Len(s) PROVE s[i].stage \in Stages /\ s[i].file \in Nat
  <2>1. \A q \in Packets : q.stage \in Stages /\ q.file \in 0..MaxFiles
    BY DEF Packets
  <2>2. s[i].stage \in Stages /\ s[i].file \in 0..MaxFiles
    BY <1>1, <2>1
  <2> QED  BY <2>2
<1>3. \A i \in 1..Len(s) : Row(s[i].stage, s[i].file) \in SomeRows
  BY <1>2, RowTyped
<1>4. Len(s) \in Nat
  OBVIOUS
<1> QED  BY <1>3, <1>4 DEF RowsIn

LEMMA RowsOn ==
  ASSUME NEW s \in Seq(Packets), NEW t \in Seq(Packets)
  PROVE  RowsIn(s \o t) = RowsIn(s) \o RowsIn(t)
<1> DEFINE a == RowsIn(s)
           b == RowsIn(t)
           c == RowsIn(s \o t)
<1>1. s \o t \in Seq(Packets) /\ Len(s \o t) = Len(s) + Len(t)
  BY ConcatIsSeq
<1>2. /\ a \in Seq(SomeRows) /\ Len(a) = Len(s)
      /\ b \in Seq(SomeRows) /\ Len(b) = Len(t)
      /\ c \in Seq(SomeRows) /\ Len(c) = Len(s) + Len(t)
  BY <1>1, RowsTyped
<1>3. ASSUME NEW i \in 1..(Len(s) + Len(t)) PROVE (a \o b)[i] = c[i]
  <2>1. c[i] = Row((s \o t)[i].stage, (s \o t)[i].file)
    BY <1>1 DEF RowsIn
  <2>2. CASE i \in 1..Len(s)
    <3>1. (s \o t)[i] = s[i] /\ a[i] = Row(s[i].stage, s[i].file)
      BY <2>2, ConcatIsSeq DEF RowsIn
    <3> HIDE DEF a, b
    <3>2. (a \o b)[i] = a[i]
      BY <1>2, <2>2, ConcatIsSeq
    <3> QED  BY <2>1, <3>1, <3>2
  <2>3. CASE i \notin 1..Len(s)
    <3>1. PICK j \in 1..Len(t) : i = Len(s) + j
      <4>1. i - Len(s) \in 1..Len(t) /\ i = Len(s) + (i - Len(s))
        BY <2>3
      <4> QED  BY <4>1
    <3>2. (s \o t)[i] = t[j] /\ b[j] = Row(t[j].stage, t[j].file)
      BY <3>1, ConcatIsSeq DEF RowsIn
    <3> HIDE DEF a, b
    <3>3. (a \o b)[Len(a) + j] = b[j]
      BY <1>2, ConcatIsSeq
    <3> QED  BY <1>2, <2>1, <3>1, <3>2, <3>3
  <2> QED  BY <2>2, <2>3
<1>4. a \o b \in Seq(SomeRows) /\ Len(a \o b) = Len(s) + Len(t)
  <2> HIDE DEF a, b, c
  <2> QED  BY <1>2, ConcatIsSeq
<1> HIDE DEF a, b, c
<1>5. a \o b = c
  BY <1>2, <1>3, <1>4, SameSequence
<1> QED  BY <1>5 DEF a, b, c

\* Packets appended with dependencies before them, among the plan's own and
\* among themselves.
Preceding(t, k) ==
  \A j \in 1..Len(t) : \A d \in 1..Len(t[j].dependencies) :
    t[j].dependencies[d] \in 1..(k + j - 1)

LEMMA GrowthSound ==
  ASSUME packets \in Seq(Packets), DependenciesPrecede,
         NEW t \in Seq(Packets), Preceding(t, Len(packets)), packets' = packets \o t
  PROVE  /\ packets' \in Seq(Packets) /\ Len(packets') = Len(packets) + Len(t)
         /\ DependenciesPrecede'
         /\ RowsIn(packets)' = RowsIn(packets) \o RowsIn(t)
<1>1. packets' \in Seq(Packets) /\ Len(packets') = Len(packets) + Len(t)
  BY ConcatIsSeq
<1>2. DependenciesPrecede'
  <2> SUFFICES ASSUME NEW i \in 1..Len(packets'),
                      NEW d \in 1..Len(packets'[i].dependencies)
               PROVE  packets'[i].dependencies[d] \in 1..(i - 1)
    BY DEF DependenciesPrecede, Ids
  <2>1. CASE i \in 1..Len(packets)
    <3>1. packets'[i] = packets[i]
      BY <2>1, ConcatIsSeq
    <3> QED  BY <2>1, <3>1 DEF DependenciesPrecede, Ids
  <2>2. CASE i \notin 1..Len(packets)
    <3>1. PICK j \in 1..Len(t) : i = Len(packets) + j
      <4>1. i - Len(packets) \in 1..Len(t) /\ i = Len(packets) + (i - Len(packets))
        BY <1>1, <2>2
      <4> QED  BY <4>1
    <3>2. packets'[i] = t[j]
      BY <3>1, ConcatIsSeq
    <3> QED  BY <3>1, <3>2 DEF Preceding
  <2> QED  BY <2>1, <2>2
<1>3. RowsIn(packets)' = RowsIn(packets \o t)
  BY DEF RowsIn
<1> QED  BY <1>1, <1>2, <1>3, RowsOn

\* Places in a plan are places in a longer one.
LEMMA PlacesStay ==
  ASSUME NEW m \in Nat, NEW n \in Nat, m <= n, NEW s \in Seq(1..m)
  PROVE  s \in Seq(1..n) /\ \A i \in 1..Len(s) : s[i] \in 1..n
OBVIOUS


(***************************************************************************)
(* Reductions.                                                             *)
(***************************************************************************)
LEMMA ThirdsOf ==
  ASSUME NEW m \in Nat
  PROVE  /\ Thirds(m) \in Nat
         /\ m >= 1 => Thirds(m) \in 1..m
         /\ m > 3 => Thirds(m) > 1
BY DEF Thirds

LEMMA ChunksOf ==
  ASSUME NEW S, NEW s \in Seq(S)
  PROVE  /\ Len(Chunks(s)) = Thirds(Len(s))
         /\ \A g \in 1..Thirds(Len(s)) : Chunks(s)[g] \in Seq(S)
<1>1. Len(s) \in Nat /\ Thirds(Len(s)) \in Nat
  BY ThirdsOf
<1>2. ASSUME NEW g \in 1..Thirds(Len(s))
      PROVE  SubSeq(s, 3 * g - 2, IF 3 * g < Len(s) THEN 3 * g ELSE Len(s)) \in Seq(S)
  <2>1. 3 * g - 2 \in 1..Len(s)
    BY <1>1 DEF Thirds
  <2>2. CASE 3 * g < Len(s)
    <3>1. \A i \in (3 * g - 2)..(3 * g) : s[i] \in S
      BY <2>1, <2>2
    <3> QED  BY <2>1, <2>2, <3>1
  <2>3. CASE ~(3 * g < Len(s))
    <3>1. \A i \in (3 * g - 2)..Len(s) : s[i] \in S
      BY <2>1
    <3> QED  BY <2>1, <2>3, <3>1
  <2> QED  BY <2>2, <2>3
<1> QED  BY <1>1, <1>2 DEF Chunks

LEMMA PacketTyped ==
  ASSUME NEW stage \in Stages, NEW file \in 0..MaxFiles, NEW d \in Seq(Nat)
  PROVE  Packet(stage, file, d) \in Packets
BY DEF Packet, Packets

LEMMA PacketParts ==
  ASSUME NEW stage, NEW file, NEW d
  PROVE  /\ Packet(stage, file, d).stage = stage /\ Packet(stage, file, d).file = file
         /\ Packet(stage, file, d).dependencies = d
BY DEF Packet

LEMMA NoFile == 0 \in 0..MaxFiles
BY FilesAssumption

\* One level of a reduction.
LEMMA GroupedSound ==
  ASSUME TypeOK, DependenciesPrecede, NEW stage \in Stages, Grouped(stage)
  PROVE  /\ packets' \in Seq(Packets) /\ DependenciesPrecede'
         /\ Len(packets') = Len(packets) + Thirds(Len(inputs))
         /\ RowsIn(packets)' = RowsIn(packets) \o Repeated(stage, Thirds(Len(inputs)))
         /\ inputs' \in Seq(1..Len(packets')) /\ Len(inputs') = Thirds(Len(inputs))
<1> DEFINE k == Len(packets)
           n == Thirds(Len(inputs))
           groups == Chunks(inputs)
           t == [g \in 1..n |-> Packet(stage, 0, groups[g])]
<1>1. /\ k \in Nat /\ Len(inputs) \in Nat /\ n \in Nat
      /\ inputs \in Seq(1..k) /\ packets \in Seq(Packets)
  <2>1. inputs \in Seq(1..Len(packets)) /\ packets \in Seq(Packets)
    BY DEF TypeOK, Ids
  <2>2. k \in Nat /\ Len(inputs) \in Nat
    BY <2>1
  <2> QED  BY <2>1, <2>2, ThirdsOf
<1>2. Len(groups) = n /\ \A g \in 1..n : groups[g] \in Seq(1..k)
  BY <1>1, ChunksOf
<1>3. packets' = packets \o t /\ inputs' = [i \in 1..n |-> k + i]
  BY <1>2 DEF Grouped, NextIds
<1>4. \A g \in 1..n : Packet(stage, 0, groups[g]) \in Packets
  <2>1. \A d \in Seq(1..k) : d \in Seq(Nat)
    BY <1>1
  <2> QED  BY <1>2, <2>1, NoFile, PacketTyped
<1>5. /\ t \in Seq(Packets) /\ Len(t) = n
      /\ \A g \in 1..n : t[g] = Packet(stage, 0, groups[g])
  BY <1>1, <1>4
<1>p. \A g \in 1..n : t[g].stage = stage /\ t[g].file = 0
                         /\ t[g].dependencies = groups[g]
  BY <1>5 DEF Packet
<1>6. Preceding(t, k)
  <2> SUFFICES ASSUME NEW j \in 1..n, NEW d \in 1..Len(groups[j])
               PROVE  groups[j][d] \in 1..(k + j - 1)
    <3> HIDE DEF t, groups, n, k
    <3> QED  BY <1>5, <1>p DEF Preceding
  <2>1. groups[j] \in Seq(1..k)
    BY <1>2
  <2>2. groups[j][d] \in 1..k
    BY <2>1
  <2> QED  BY <1>1, <2>2
<1>7. RowsIn(t) = Repeated(stage, n)
  <2> HIDE DEF t, n
  <2> QED  BY <1>5, <1>p DEF RowsIn, Repeated
<1>8. /\ packets' \in Seq(Packets) /\ Len(packets') = k + n
      /\ DependenciesPrecede' /\ RowsIn(packets)' = RowsIn(packets) \o RowsIn(t)
  <2> HIDE DEF t
  <2> QED  BY <1>1, <1>3, <1>5, <1>6, GrowthSound
<1>9. inputs' \in Seq(1..Len(packets')) /\ Len(inputs') = n
  <2> HIDE DEF n, k, t
  <2>1. \A i \in 1..n : k + i \in 1..(k + n)
    BY <1>1
  <2>2. [i \in 1..n |-> k + i] \in Seq(1..(k + n)) /\ Len([i \in 1..n |-> k + i]) = n
    BY <1>1, <2>1
  <2> QED  BY <1>3, <1>8, <2>2
<1> QED  BY <1>7, <1>8, <1>9

\* Shared packets and a correction of every file.
LEMMA CorrectSound ==
  ASSUME TypeOK, DependenciesPrecede, Len(contracts) = files, Len(corrections) = files,
         NEW stage \in Stages, NEW shared \in Seq(Packets), Len(shared) >= 1,
         Preceding(shared, Len(packets)), Correct(stage, shared)
  PROVE  /\ packets' \in Seq(Packets) /\ DependenciesPrecede'
         /\ Len(packets') = Len(packets) + Len(shared) + files
         /\ RowsIn(packets)' = RowsIn(packets) \o RowsIn(shared) \o PerFile(stage, files)
         /\ corrections' \in Seq(1..Len(packets')) /\ Len(corrections') = files
         /\ inputs' \in Seq(1..Len(packets')) /\ Len(inputs') = files
<1> DEFINE p == Len(packets)
           k == Len(packets) + Len(shared)
           own == [f \in 1..files |-> Packet(stage, f, <<corrections[f], contracts[f], k>>)]
           t == shared \o own
<1>1. /\ p \in Nat /\ k \in Nat /\ Len(shared) \in Nat /\ files \in Nat
      /\ packets \in Seq(Packets)
      /\ \A f \in 1..files : corrections[f] \in 1..p /\ contracts[f] \in 1..p
      /\ \A f \in 1..files : f \in 0..MaxFiles
  <2>1. /\ packets \in Seq(Packets) /\ files \in 1..MaxFiles
        /\ contracts \in Seq(1..Len(packets)) /\ corrections \in Seq(1..Len(packets))
    BY DEF TypeOK, Ids
  <2>2. p \in Nat /\ Len(shared) \in Nat
    BY <2>1
  <2>3. files \in Nat /\ \A f \in 1..files : f \in 0..MaxFiles
    BY <2>1, FilesAssumption
  <2>4. \A f \in 1..files : corrections[f] \in 1..p /\ contracts[f] \in 1..p
    BY <2>1, <2>3
  <2> QED  BY <2>1, <2>2, <2>3, <2>4
<1>2. \A f \in 1..files : <<corrections[f], contracts[f], k>> \in Seq(Nat)
  BY <1>1
<1>3. \A f \in 1..files : Packet(stage, f, <<corrections[f], contracts[f], k>>) \in Packets
  BY <1>1, <1>2, PacketTyped
<1>4. own \in Seq(Packets) /\ Len(own) = files
  BY <1>1, <1>3
<1>5. /\ t \in Seq(Packets) /\ Len(t) = Len(shared) + files
      /\ \A i \in 1..Len(shared) : t[i] = shared[i]
      /\ \A f \in 1..files : t[Len(shared) + f] = own[f]
  <2> HIDE DEF own
  <2> QED  BY <1>4, ConcatIsSeq
<1>6. Preceding(t, p)
  <2> SUFFICES ASSUME NEW j \in 1..Len(t), NEW d \in 1..Len(t[j].dependencies)
               PROVE  t[j].dependencies[d] \in 1..(p + j - 1)
    BY DEF Preceding
  <2> HIDE DEF t
  <2>1. CASE j \in 1..Len(shared)
    BY <1>5, <2>1 DEF Preceding
  <2>2. CASE j \notin 1..Len(shared)
    <3>1. PICK f \in 1..files : j = Len(shared) + f
      <4>1. j - Len(shared) \in 1..files /\ j = Len(shared) + (j - Len(shared))
        BY <1>1, <1>5, <2>2
      <4> QED  BY <4>1
    <3>2. t[j].dependencies = <<corrections[f], contracts[f], k>>
      <4>1. t[j] = Packet(stage, f, <<corrections[f], contracts[f], k>>)
        BY <1>5, <3>1
      <4> QED  BY <4>1, PacketParts
    <3>3. d \in 1..3 /\ t[j].dependencies[d] \in {corrections[f], contracts[f], k}
      <4> HIDE DEF k
      <4> QED  BY <3>2
    <3>4. p + j - 1 >= k /\ k >= p
      BY <1>1, <3>1
    <3>5. {corrections[f], contracts[f], k} \subseteq 1..k
      BY <1>1
    <3>6. t[j].dependencies[d] \in 1..k
      BY <3>3, <3>5
    <3>7. j \in Nat
      BY <1>1, <3>1
    <3> HIDE DEF k, p
    <3> QED  BY <1>1, <3>4, <3>6, <3>7
  <2> QED  BY <2>1, <2>2
<1>7. packets' = packets \o t
  <2>1. packets' = packets \o shared \o own
    BY DEF Correct
  <2> HIDE DEF own
  <2> QED  BY <1>1, <1>4, <2>1, ConcatIsGrouped, SMTT(30)
<1>8. RowsIn(own) = PerFile(stage, files)
  BY <1>4, PacketParts DEF RowsIn, PerFile
<1>9. RowsIn(t) = RowsIn(shared) \o RowsIn(own)
  <2> HIDE DEF own
  <2> QED  BY <1>4, RowsOn
<1>10. /\ packets' \in Seq(Packets) /\ Len(packets') = p + Len(t)
       /\ DependenciesPrecede' /\ RowsIn(packets)' = RowsIn(packets) \o RowsIn(t)
  <2> HIDE DEF t
  <2> QED  BY <1>1, <1>5, <1>6, <1>7, GrowthSound
<1>11. RowsIn(packets)' = RowsIn(packets) \o RowsIn(shared) \o PerFile(stage, files)
  <2>1. /\ RowsIn(packets) \in Seq(SomeRows) /\ RowsIn(shared) \in Seq(SomeRows)
        /\ PerFile(stage, files) \in Seq(SomeRows)
    BY <1>1, RowsTyped, PerFileRows
  <2>2. RowsIn(packets)' = RowsIn(packets) \o (RowsIn(shared) \o PerFile(stage, files))
    BY <1>8, <1>9, <1>10
  <2> DEFINE x == RowsIn(packets)
             y == RowsIn(shared)
             z == PerFile(stage, files)
  <2>3. x \in Seq(SomeRows) /\ y \in Seq(SomeRows) /\ z \in Seq(SomeRows)
    BY <2>1
  <2> HIDE DEF x, y, z
  <2>4. x \o y \o z = x \o (y \o z)
    BY <2>3, RowsGrouped
  <2> QED  BY <2>2, <2>4 DEF x, y, z
<1>12. /\ corrections' \in Seq(1..Len(packets')) /\ Len(corrections') = files
       /\ inputs' = corrections'
  <2>1. \A f \in 1..files : k + f \in 1..(k + files)
    BY <1>1
  <2>2. Len(packets') = k + files
    BY <1>1, <1>5, <1>10
  <2>3. corrections' = [f \in 1..files |-> k + f] /\ inputs' = corrections'
    BY DEF Correct
  <2> QED  BY <1>1, <2>1, <2>2, <2>3
<1>13. Len(packets') = Len(packets) + Len(shared) + files
  <2> HIDE DEF t
  <2> QED  BY <1>1, <1>5, <1>10
<1> QED  BY <1>10, <1>11, <1>12, <1>13


(***************************************************************************)
(* Steps.                                                                  *)
(***************************************************************************)
LEMMA KeptIds ==
  ASSUME TypeOK, packets' \in Seq(Packets), Len(packets') >= Len(packets)
  PROVE  contracts \in Seq(1..Len(packets')) /\ corrections \in Seq(1..Len(packets'))
<1>1. /\ contracts \in Seq(1..Len(packets)) /\ corrections \in Seq(1..Len(packets))
      /\ packets \in Seq(Packets)
  BY DEF TypeOK, Ids
<1>2. Len(packets) \in Nat /\ Len(packets') \in Nat
  BY <1>1
<1> QED  BY <1>1, <1>2, PlacesStay

\* A stage the rows of the plan hold has a packet.
LEMMA TheStage ==
  ASSUME TypeOK, NEW stage, NEW file, Holds(RowsIn(packets), Row(stage, file))
  PROVE  The(stage) \in 1..Len(packets)
<1>1. packets \in Seq(Packets)
  BY DEF TypeOK
<1>2. PICK i \in 1..Len(packets) : RowsIn(packets)[i] = Row(stage, file)
  BY <1>1, RowsTyped DEF Holds
<1>3. Row(packets[i].stage, packets[i].file) = Row(stage, file)
  BY <1>2 DEF RowsIn
<1>4. packets[i].stage = stage
  BY <1>3 DEF Row
<1> QED  BY <1>4 DEF The, Ids

\* The parts of a schedule are rows.
LEMMA SchedulesTyped ==
  ASSUME NEW n \in 1..MaxFiles
  PROVE  /\ Shown(n) \in Seq(SomeRows) /\ Summed(n) \in Seq(SomeRows)
         /\ Closed(n) \in Seq(SomeRows) /\ Gated(n) \in Seq(SomeRows)
         /\ Shipped(n) \in Seq(SomeRows)
<1>1. n \in Nat /\ IntegrationGroupCount[n] \in Nat /\ ReductionToOneCount[n] \in Nat
  BY CountsEnd, FilesAssumption
<1>2. /\ Row("integration", 0) \in SomeRows /\ Row("integration-closure", 0) \in SomeRows
      /\ Row("verification", 0) \in SomeRows /\ Row("adversarial-review", 0) \in SomeRows
  BY RowTyped DEF Stages
<1>3. /\ <<Row("integration", 0)>> \in Seq(SomeRows)
      /\ <<Row("integration-closure", 0), Row("verification", 0),
           Row("adversarial-review", 0)>> \in Seq(SomeRows)
  BY <1>2
<1>4. /\ "integration-group" \in Stages /\ "integration-correction" \in Stages
      /\ "closure-group" \in Stages /\ "final-correction" \in Stages
      /\ "release-group" \in Stages
  BY DEF Stages, GroupStages
<1>5. Shown(n) \in Seq(SomeRows)
  BY <1>1, BaseRowsTyped, FileRowsTyped, ConcatIsSeq DEF Shown
<1>6. Summed(n) \in Seq(SomeRows)
  BY <1>1, <1>3, <1>4, <1>5, RepeatedRows, PerFileRows, ConcatIsSeq DEF Summed
<1>7. Closed(n) \in Seq(SomeRows)
  BY <1>1, <1>4, <1>6, RepeatedRows, ConcatIsSeq DEF Closed
<1>8. Gated(n) \in Seq(SomeRows)
  BY <1>1, <1>3, <1>4, <1>7, PerFileRows, ConcatIsSeq DEF Gated
<1>9. Shipped(n) \in Seq(SomeRows)
  BY <1>1, <1>4, <1>8, RepeatedRows, ConcatIsSeq DEF Shipped
<1> QED  BY <1>5, <1>6, <1>7, <1>8, <1>9


LEMMA PlanStarts == Init => PlanInv
<1> SUFFICES ASSUME Init PROVE PlanInv
  OBVIOUS
<1> DEFINE deps(i) == IF i = 1 THEN <<>> ELSE <<i - 1>>
<1>1. packets = [i \in 1..5 |-> Packet(BaseStages[i], 0, deps(i))]
  BY DEF Init
<1>2. ASSUME NEW i \in 1..5 PROVE Packet(BaseStages[i], 0, deps(i)) \in Packets
  <2>1. BaseStages[i] \in Stages
    BY DEF Stages
  <2>2. deps(i) \in Seq(Nat)
    <3>1. CASE i = 1
      BY <3>1
    <3>2. CASE i # 1
      <4>1. i - 1 \in Nat
        BY <3>2
      <4> QED  BY <3>2, <4>1
    <3> QED  BY <3>1, <3>2
  <2> HIDE DEF deps
  <2> QED  BY <2>1, <2>2, NoFile, PacketTyped
<1>3. packets \in Seq(Packets) /\ Len(packets) = 5
  <2> HIDE DEF deps
  <2> QED  BY <1>1, <1>2
<1>4. \A i \in 1..5 : /\ packets[i].stage = BaseStages[i] /\ packets[i].file = 0
                      /\ packets[i].dependencies = deps(i)
  BY <1>1, PacketParts
<1>5. DependenciesPrecede
  <2> SUFFICES ASSUME NEW i \in 1..5, NEW k \in 1..Len(deps(i))
               PROVE  deps(i)[k] \in 1..(i - 1)
    <3> HIDE DEF deps
    <3> QED  BY <1>3, <1>4 DEF DependenciesPrecede, Ids
  <2> QED  OBVIOUS
<1>6. RowsIn(packets) = BaseRows
  <2> HIDE DEF deps
  <2> QED  BY <1>3, <1>4 DEF RowsIn, BaseRows
<1>7. Shown(0) = BaseRows
  <2>1. 0 \in Nat /\ 4 * 0 = 0
    OBVIOUS
  <2>2. FileRows(0) \in Seq(SomeRows) /\ Len(FileRows(0)) = 0
    BY <2>1, FileRowsTyped
  <2> QED  BY <2>2, BaseRowsTyped, NoneMore DEF Shown
<1>8. TypeOK
  <2>1. \A S : <<>> \in Seq(S)
    OBVIOUS
  <2>2. /\ files \in 1..MaxFiles /\ phase = "files"
        /\ contracts = <<>> /\ corrections = <<>> /\ inputs = <<>>
    BY DEF Init
  <2> QED  BY <1>3, <2>1, <2>2 DEF TypeOK
<1>9. FilesInv
  <2>1. phase = "files" /\ contracts = <<>> /\ corrections = <<>>
    BY DEF Init
  <2> QED  BY <1>3, <2>1 DEF FilesInv
<1>10. RowsInv
  <2>1. phase = "files" /\ contracts = <<>> /\ files \in 1..MaxFiles
    BY DEF Init
  <2>2. Len(contracts) = 0 /\ Len(contracts) < files
    BY <2>1
  <2> QED  BY <1>6, <1>7, <2>1, <2>2 DEF RowsInv
<1> QED  BY <1>5, <1>8, <1>9, <1>10 DEF PlanInv

\* A level of a reduction to one.
LEMMA ReduceStep ==
  ASSUME TypeOK, DependenciesPrecede, NEW n \in 1..MaxFiles, NEW rows \in Seq(SomeRows),
         Len(inputs) \in 1..n, NEW stage \in Stages,
         Reducing(rows, stage, n, Len(inputs)), Grouped(stage)
  PROVE  /\ Len(inputs') = 1 =>
              RowsIn(packets)' = rows \o Repeated(stage, ReductionToOneCount[n])
         /\ Len(inputs') # 1 =>
              \E made \in Nat :
                /\ RowsIn(packets)' = rows \o Repeated(stage, made)
                /\ made + ReductionToOneCount[Len(inputs')] = ReductionToOneCount[n]
         /\ Len(inputs') \in 1..n
<1> DEFINE m == Len(inputs)
           k == Thirds(m)
<1>1. PICK made \in Nat : /\ RowsIn(packets) = rows \o Repeated(stage, made)
                          /\ made + ReductionToOneCount[m] = ReductionToOneCount[n]
  BY DEF Reducing
<1>2. m \in 1..MaxFiles /\ k \in 1..m /\ k \in 1..n /\ k \in 1..MaxFiles
  <2>1. m \in Nat /\ m >= 1 /\ m <= n /\ n <= MaxFiles /\ n \in Nat /\ MaxFiles \in Nat
    BY FilesAssumption
  <2>2. k \in 1..m
    BY <2>1, ThirdsOf
  <2> QED  BY <2>1, <2>2
<1>3. Len(inputs') = k /\ RowsIn(packets)' = RowsIn(packets) \o Repeated(stage, k)
  BY GroupedSound
<1>4. RowsIn(packets)' = rows \o Repeated(stage, made + k)
  <2>1. /\ Repeated(stage, made) \in Seq(SomeRows) /\ Repeated(stage, k) \in Seq(SomeRows)
        /\ Repeated(stage, made) \o Repeated(stage, k) = Repeated(stage, made + k)
    <3>1. made \in Nat /\ k \in Nat
      BY <1>2
    <3> HIDE DEF k
    <3> QED  BY <3>1, RepeatedRows, RepeatedMore
  <2>2. rows \o Repeated(stage, made) \o Repeated(stage, k) =
          rows \o (Repeated(stage, made) \o Repeated(stage, k))
    <3> DEFINE x == Repeated(stage, made)
               y == Repeated(stage, k)
    <3>1. x \in Seq(SomeRows) /\ y \in Seq(SomeRows) /\ rows \in Seq(SomeRows)
      BY <2>1
    <3> HIDE DEF x, y
    <3>2. rows \o x \o y = rows \o (x \o y)
      BY <3>1, RowsGrouped
    <3> QED  BY <3>2 DEF x, y
  <2> QED  BY <1>1, <1>3, <2>1, <2>2
<1>5. /\ ReductionToOneCount[m] = IF k = 1 THEN 1 ELSE k + ReductionToOneCount[k]
      /\ ReductionToOneCount[k] \in Nat /\ ReductionToOneCount[m] \in Nat
      /\ ReductionToOneCount[n] \in Nat
  BY <1>2, CountsEnd
<1> HIDE DEF m, k
<1>6. CASE k = 1
  <2>1. made + k = ReductionToOneCount[n]
    BY <1>1, <1>5, <1>6
  <2> QED  BY <1>2, <1>3, <1>4, <1>6, <2>1
<1>7. CASE k # 1
  <2>1. made + k \in Nat /\ made + k + ReductionToOneCount[k] = ReductionToOneCount[n]
    BY <1>1, <1>2, <1>5, <1>7
  <2> QED  BY <1>2, <1>3, <1>4, <1>7, <2>1
<1> QED  BY <1>6, <1>7

\* The packets later ones look up by their stage.
LEMMA LandmarksHeld ==
  ASSUME NEW n \in 1..MaxFiles
  PROVE  /\ Holds(Closed(n), Row("integration", 0))
         /\ \A stage \in {"integration-closure", "verification", "adversarial-review"} :
              Holds(Shipped(n), Row(stage, 0))
<1>1. n \in Nat /\ IntegrationGroupCount[n] \in Nat /\ ReductionToOneCount[n] \in Nat
  BY CountsEnd, FilesAssumption
<1>2. /\ "integration-group" \in Stages /\ "integration-correction" \in Stages
      /\ "closure-group" \in Stages /\ "final-correction" \in Stages
      /\ "release-group" \in Stages
  BY DEF Stages, GroupStages
<1> DEFINE a == Shown(n) \o Repeated("integration-group", IntegrationGroupCount[n])
           b == <<Row("integration", 0)>>
           c == PerFile("integration-correction", n)
           d == Repeated("closure-group", ReductionToOneCount[n])
           e == <<Row("integration-closure", 0), Row("verification", 0),
                  Row("adversarial-review", 0)>>
           f == PerFile("final-correction", n)
           g == Repeated("release-group", ReductionToOneCount[n])
<1>3. /\ Row("integration", 0) \in SomeRows /\ Row("integration-closure", 0) \in SomeRows
      /\ Row("verification", 0) \in SomeRows /\ Row("adversarial-review", 0) \in SomeRows
  BY RowTyped DEF Stages
<1>4. /\ a \in Seq(SomeRows) /\ b \in Seq(SomeRows) /\ c \in Seq(SomeRows)
      /\ d \in Seq(SomeRows) /\ e \in Seq(SomeRows) /\ f \in Seq(SomeRows)
      /\ g \in Seq(SomeRows)
  <2>1. a \in Seq(SomeRows)
    BY <1>1, <1>2, SchedulesTyped, RepeatedRows, ConcatIsSeq
  <2>2. b \in Seq(SomeRows) /\ e \in Seq(SomeRows)
    BY <1>3
  <2>3. c \in Seq(SomeRows) /\ f \in Seq(SomeRows)
    BY <1>1, <1>2, PerFileRows
  <2>4. d \in Seq(SomeRows) /\ g \in Seq(SomeRows)
    BY <1>1, <1>2, RepeatedRows
  <2> QED  BY <2>1, <2>2, <2>3, <2>4
<1>5. Closed(n) = a \o b \o c \o d /\ Shipped(n) = Closed(n) \o e \o f \o g
  BY DEF Closed, Summed, Shipped, Gated
<1>6. Holds(b, Row("integration", 0))
  <2>1. b[1] = Row("integration", 0) /\ Len(b) = 1
    OBVIOUS
  <2> HIDE DEF b
  <2> QED  BY <2>1 DEF Holds
<1>7. \A stage \in {"integration-closure", "verification", "adversarial-review"} :
        Holds(e, Row(stage, 0))
  <2>1. /\ e[1] = Row("integration-closure", 0) /\ e[2] = Row("verification", 0)
        /\ e[3] = Row("adversarial-review", 0) /\ Len(e) = 3
    OBVIOUS
  <2> HIDE DEF e
  <2> QED  BY <2>1 DEF Holds
<1> HIDE DEF a, b, c, d, e, f, g
<1>8. /\ a \o b \in Seq(SomeRows) /\ a \o b \o c \in Seq(SomeRows)
      /\ Closed(n) \in Seq(SomeRows) /\ Closed(n) \o e \in Seq(SomeRows)
      /\ Closed(n) \o e \o f \in Seq(SomeRows)
  <2>1. a \o b \in Seq(SomeRows) /\ Closed(n) \in Seq(SomeRows)
    BY <1>4, SchedulesTyped, ConcatLength
  <2>2. a \o b \o c \in Seq(SomeRows) /\ Closed(n) \o e \in Seq(SomeRows)
    BY <1>4, <2>1, ConcatLength
  <2>3. Closed(n) \o e \o f \in Seq(SomeRows)
    BY <1>4, <2>2, ConcatLength
  <2> QED  BY <2>1, <2>2, <2>3
<1>9. Holds(Closed(n), Row("integration", 0))
  <2>1. Holds(a \o b, Row("integration", 0))
    BY <1>4, <1>6, HoldsOn
  <2>2. Holds(a \o b \o c, Row("integration", 0))
    BY <1>4, <1>8, <2>1, HoldsOn
  <2>3. Holds(a \o b \o c \o d, Row("integration", 0))
    BY <1>4, <1>8, <2>2, HoldsOn
  <2> QED  BY <1>5, <2>3
<1>10. ASSUME NEW stage \in {"integration-closure", "verification", "adversarial-review"}
       PROVE  Holds(Shipped(n), Row(stage, 0))
  <2>1. Holds(Closed(n) \o e, Row(stage, 0))
    BY <1>4, <1>7, <1>8, HoldsOn
  <2>2. Holds(Closed(n) \o e \o f, Row(stage, 0))
    BY <1>4, <1>8, <2>1, HoldsOn
  <2>3. Holds(Closed(n) \o e \o f \o g, Row(stage, 0))
    BY <1>4, <1>8, <2>2, HoldsOn
  <2> QED  BY <1>5, <2>3
<1> QED  BY <1>9, <1>10

(***************************************************************************)
(* Each round keeps the invariant.                                         *)
(***************************************************************************)
LEMMA FileFlowKeeps ==
  ASSUME PlanInv, FileFlow
  PROVE  PlanInv'
<1> DEFINE f == Len(contracts) + 1
           k == Len(packets)
           first == <<Manifest, Architecture>>
                      \o (IF f = 1 THEN <<>> ELSE <<corrections[f - 1]>>)
           p1 == Packet("file-contract", f, first)
           p2 == Packet("file-implementation", f, <<k + 1, Manifest, Architecture>>)
           p3 == Packet("file-review", f, <<k + 1, k + 2, Quality>>)
           p4 == Packet("file-correction", f, <<k + 1, k + 2, k + 3>>)
           t == <<p1, p2, p3, p4>>
<1>1. /\ phase = "files" /\ packets' = packets \o t
      /\ contracts' = Append(contracts, k + 1) /\ corrections' = Append(corrections, k + 4)
      /\ inputs' = corrections' /\ files' = files
      /\ phase' = IF f = files THEN "integration" ELSE phase
  BY DEF FileFlow
<1>2. /\ packets \in Seq(Packets) /\ contracts \in Seq(1..k) /\ corrections \in Seq(1..k)
      /\ k \in Nat /\ k >= 5 /\ DependenciesPrecede
      /\ files \in 1..MaxFiles /\ files \in Nat /\ f \in 1..files /\ f \in 0..MaxFiles
      /\ Len(corrections) = f - 1 /\ f - 1 = Len(contracts) /\ f - 1 \in Nat
      /\ RowsIn(packets) = Shown(f - 1)
  <2>1. /\ packets \in Seq(Packets) /\ contracts \in Seq(1..k) /\ corrections \in Seq(1..k)
        /\ files \in 1..MaxFiles
    BY DEF PlanInv, TypeOK, Ids
  <2>2. /\ Len(corrections) = Len(contracts) /\ k >= 5 /\ DependenciesPrecede
        /\ Len(contracts) < files /\ RowsIn(packets) = Shown(Len(contracts))
    BY <1>1 DEF PlanInv, FilesInv, RowsInv
  <2>3. Len(contracts) \in Nat /\ k \in Nat
    BY <2>1
  <2>4. f - 1 = Len(contracts)
    BY <2>3
  <2> QED  BY <2>1, <2>2, <2>3, <2>4, FilesAssumption
<1>3. first \in Seq(Nat) /\ \A d \in 1..Len(first) : first[d] \in 1..k
  <2>1. <<Manifest, Architecture>> \in Seq(1..k)
    <3>1. Manifest \in 1..k /\ Architecture \in 1..k
      BY <1>2 DEF Manifest, Architecture
    <3> HIDE DEF k
    <3> QED  BY <3>1, ThreePlaces
  <2>2. (IF f = 1 THEN <<>> ELSE <<corrections[f - 1]>>) \in Seq(1..k)
    <3>1. CASE f = 1
      BY <3>1
    <3>2. CASE f # 1
      <4>1. f - 1 \in 1..Len(corrections)
        BY <1>2, <3>2
      <4>2. corrections[f - 1] \in 1..k
        BY <1>2, <4>1
      <4> HIDE DEF k, f
      <4> QED  BY <3>2, <4>2
    <3> QED  BY <3>1, <3>2
  <2>3. first \in Seq(1..k)
    <3> HIDE DEF k, f
    <3> QED  BY <2>1, <2>2, ConcatLength
  <2>4. \A s \in Seq(1..k) : s \in Seq(Nat) /\ \A d \in 1..Len(s) : s[d] \in 1..k
    OBVIOUS
  <2> HIDE DEF first
  <2> QED  BY <2>3, <2>4
<1>4. t \in Seq(Packets) /\ Len(t) = 4
  <2>1. p1 \in Packets /\ p2 \in Packets /\ p3 \in Packets /\ p4 \in Packets
    <3>1. /\ "file-contract" \in Stages /\ "file-implementation" \in Stages
          /\ "file-review" \in Stages /\ "file-correction" \in Stages
      BY FileStagesKnown
    <3>2. /\ <<k + 1, Manifest, Architecture>> \in Seq(Nat)
          /\ <<k + 1, k + 2, Quality>> \in Seq(Nat)
          /\ <<k + 1, k + 2, k + 3>> \in Seq(Nat)
      BY <1>2 DEF Manifest, Architecture, Quality
    <3> HIDE DEF f, k, first
    <3> QED  BY <1>2, <1>3, <3>1, <3>2, PacketTyped
  <2> HIDE DEF p1, p2, p3, p4
  <2> QED  BY <2>1, FourPlaces
<1>5. /\ t[1] = p1 /\ t[2] = p2 /\ t[3] = p3 /\ t[4] = p4
  <2> HIDE DEF p1, p2, p3, p4
  <2> QED  OBVIOUS
<1>6. Preceding(t, k)
  <2> SUFFICES ASSUME NEW j \in 1..4, NEW d \in 1..Len(t[j].dependencies)
               PROVE  t[j].dependencies[d] \in 1..(k + j - 1)
    <3> HIDE DEF t
    <3> QED  BY <1>4 DEF Preceding
  <2>1. CASE j = 1
    <3>1. t[j].dependencies = first
      <4>1. t[j] = p1
        BY <1>5, <2>1
      <4> HIDE DEF first, f, t
      <4> QED  BY <4>1, PacketParts
    <3> HIDE DEF first
    <3> QED  BY <1>2, <1>3, <2>1, <3>1
  <2>2. CASE j = 2
    <3>1. t[j].dependencies = <<k + 1, 5, 4>>
      BY <1>5, <2>2, PacketParts DEF Manifest, Architecture
    <3>2. k + 1 \in 1..(k + j - 1) /\ 5 \in 1..(k + j - 1) /\ 4 \in 1..(k + j - 1)
      BY <1>2, <2>2
    <3> HIDE DEF k, t
    <3> QED  BY <3>1, <3>2, ThreePlaces
  <2>3. CASE j = 3
    <3>1. t[j].dependencies = <<k + 1, k + 2, 3>>
      BY <1>5, <2>3, PacketParts DEF Quality
    <3>2. k + 1 \in 1..(k + j - 1) /\ k + 2 \in 1..(k + j - 1) /\ 3 \in 1..(k + j - 1)
      BY <1>2, <2>3
    <3> HIDE DEF k, t
    <3> QED  BY <3>1, <3>2, ThreePlaces
  <2>4. CASE j = 4
    <3>1. t[j].dependencies = <<k + 1, k + 2, k + 3>>
      BY <1>5, <2>4, PacketParts
    <3>2. k + 1 \in 1..(k + j - 1) /\ k + 2 \in 1..(k + j - 1) /\ k + 3 \in 1..(k + j - 1)
      BY <1>2, <2>4
    <3> HIDE DEF k, t
    <3> QED  BY <3>1, <3>2, ThreePlaces
  <2> QED  BY <2>1, <2>2, <2>3, <2>4
<1>7. RowsIn(t) = FourRows(f)
  <2>1. /\ p1.stage = "file-contract" /\ p1.file = f
        /\ p2.stage = "file-implementation" /\ p2.file = f
        /\ p3.stage = "file-review" /\ p3.file = f
        /\ p4.stage = "file-correction" /\ p4.file = f
    BY PacketParts
  <2>2. RowsIn(t) = [i \in 1..4 |-> Row(t[i].stage, t[i].file)]
    BY <1>4 DEF RowsIn
  <2> HIDE DEF p1, p2, p3, p4, f
  <2>3. RowsIn(t) = <<Row(p1.stage, p1.file), Row(p2.stage, p2.file),
                      Row(p3.stage, p3.file), Row(p4.stage, p4.file)>>
    BY <1>5, <2>2
  <2> QED  BY <2>1, <2>3 DEF FourRows
<1>8. /\ packets' \in Seq(Packets) /\ Len(packets') = k + 4 /\ DependenciesPrecede'
      /\ RowsIn(packets)' = RowsIn(packets) \o FourRows(f)
  <2> HIDE DEF t, f
  <2> QED  BY <1>1, <1>2, <1>4, <1>6, <1>7, GrowthSound
<1>9. RowsIn(packets)' = Shown(f)
  <2>1. FileRows(f - 1) \o FourRows(f) = FileRows(f)
    <3>1. (f - 1) + 1 = f
      BY <1>2
    <3> HIDE DEF f
    <3> QED  BY <1>2, <3>1, FileRowsGrow
  <2>2. FourRows(f) \in Seq(SomeRows)
    <3> HIDE DEF t, f
    <3> QED  BY <1>4, <1>7, RowsTyped
  <2>3. FileRows(f - 1) \in Seq(SomeRows)
    BY <1>2, FileRowsTyped
  <2>4. BaseRows \o FileRows(f - 1) \o FourRows(f) = BaseRows \o (FileRows(f - 1) \o FourRows(f))
    <3> HIDE DEF f
    <3> QED  BY <2>2, <2>3, BaseRowsTyped, RowsGrouped
  <2> HIDE DEF f
  <2> QED  BY <1>2, <1>8, <2>1, <2>4 DEF Shown
<1>10. /\ contracts' \in Seq(1..Len(packets')) /\ corrections' \in Seq(1..Len(packets'))
       /\ Len(contracts') = f /\ Len(corrections') = f
  <2>1. contracts \in Seq(1..(k + 4)) /\ corrections \in Seq(1..(k + 4))
    <3> HIDE DEF k
    <3> QED  BY <1>2, PlacesStay
  <2>2. k + 1 \in 1..(k + 4) /\ k + 4 \in 1..(k + 4)
    BY <1>2
  <2> HIDE DEF k
  <2> QED  BY <1>1, <1>2, <1>8, <2>1, <2>2, SMTT(30)
<1> HIDE DEF f, k, t
<1>11. TypeOK'
  BY <1>1, <1>2, <1>8, <1>10 DEF TypeOK, Ids
<1>12. FilesInv'
  BY <1>1, <1>2, <1>8, <1>10 DEF FilesInv
<1>13. RowsInv'
  <2>1. CASE f = files
    <3>1. phase' = "integration" /\ Len(inputs') = files
      BY <1>1, <1>10, <2>1
    <3>2. Shown(files) = Shown(files) \o Repeated("integration-group", 0)
      <4>1. "integration-group" \in Stages /\ 0 \in Nat
        BY DEF Stages, GroupStages
      <4>2. Repeated("integration-group", 0) \in Seq(SomeRows)
              /\ Len(Repeated("integration-group", 0)) = 0
        BY <4>1, RepeatedRows
      <4> QED  BY <1>2, <4>2, NoneMore, SchedulesTyped
    <3>3. 0 + IntegrationGroupCount[files] = IntegrationGroupCount[files]
      BY <1>2, CountsEnd
    <3> QED  BY <1>1, <1>2, <1>9, <2>1, <3>1, <3>2, <3>3 DEF RowsInv
  <2>2. CASE f # files
    <3>1. phase' = "files" /\ Len(contracts') < files'
      BY <1>1, <1>2, <1>10, <2>2
    <3> QED  BY <1>9, <1>10, <3>1 DEF RowsInv
  <2> QED  BY <2>1, <2>2
<1> QED  BY <1>8, <1>11, <1>12, <1>13 DEF PlanInv


LEMMA IntegrateLevelKeeps ==
  ASSUME PlanInv, IntegrateLevel
  PROVE  PlanInv'
<1> DEFINE m == Len(inputs)
           k == Thirds(m)
           stage == "integration-group"
<1>1. /\ phase = "integration" /\ m > 3 /\ Grouped(stage)
      /\ files' = files /\ phase' = phase /\ contracts' = contracts
      /\ corrections' = corrections
  BY DEF IntegrateLevel, TooMany
<1>2. TypeOK /\ DependenciesPrecede /\ FilesInv /\ RowsInv
  BY DEF PlanInv
<1>3. files \in 1..MaxFiles /\ m \in 1..files /\ packets \in Seq(Packets)
  BY <1>1, <1>2 DEF TypeOK, RowsInv
<1>4. PICK made \in Nat :
        /\ RowsIn(packets) = Shown(files) \o Repeated(stage, made)
        /\ made + IntegrationGroupCount[m] = IntegrationGroupCount[files]
  BY <1>1, <1>2 DEF RowsInv
<1>5. k \in Nat /\ k \in 1..m /\ m \in 1..MaxFiles /\ k \in 1..MaxFiles /\ k \in 1..files
  <2>1. m \in Nat /\ m >= 1 /\ m <= files /\ files <= MaxFiles /\ files \in Nat /\ MaxFiles \in Nat
    BY <1>3, FilesAssumption
  <2>2. k \in 1..m
    BY <2>1, ThirdsOf
  <2> QED  BY <2>1, <2>2
<1>6. stage \in Stages
  BY DEF Stages, GroupStages
<1>7. /\ packets' \in Seq(Packets) /\ DependenciesPrecede' /\ Len(packets') = Len(packets) + k
      /\ RowsIn(packets)' = RowsIn(packets) \o Repeated(stage, k)
      /\ inputs' \in Seq(1..Len(packets')) /\ Len(inputs') = k
  BY <1>1, <1>2, <1>6, GroupedSound
<1>8. RowsIn(packets)' = Shown(files) \o Repeated(stage, made + k)
  <2> HIDE DEF k, stage
  <2>1. Shown(files) \in Seq(SomeRows)
    BY <1>3, SchedulesTyped
  <2>2. /\ Repeated(stage, made) \in Seq(SomeRows) /\ Repeated(stage, k) \in Seq(SomeRows)
        /\ Repeated(stage, made) \o Repeated(stage, k) = Repeated(stage, made + k)
    BY <1>5, <1>6, RepeatedRows, RepeatedMore
  <2>3. Shown(files) \o Repeated(stage, made) \o Repeated(stage, k) =
          Shown(files) \o (Repeated(stage, made) \o Repeated(stage, k))
    <3> DEFINE x == Repeated(stage, made)
               y == Repeated(stage, k)
    <3>1. x \in Seq(SomeRows) /\ y \in Seq(SomeRows)
      BY <2>2
    <3> HIDE DEF x, y
    <3>2. Shown(files) \o x \o y = Shown(files) \o (x \o y)
      BY <2>1, <3>1, RowsGrouped
    <3> QED  BY <3>2 DEF x, y
  <2> QED  BY <1>4, <1>7, <2>2, <2>3
<1>9. /\ made + k \in Nat
      /\ made + k + IntegrationGroupCount[k] = IntegrationGroupCount[files]
  <2>1. /\ IntegrationGroupCount[m] = IF m > 3 THEN k + IntegrationGroupCount[k] ELSE 0
        /\ IntegrationGroupCount[k] \in Nat
    BY <1>5, CountsEnd
  <2> HIDE DEF k, m
  <2> QED  BY <1>1, <1>4, <1>5, <2>1
<1>10. /\ contracts' \in Seq(1..Len(packets')) /\ corrections' \in Seq(1..Len(packets'))
       /\ Len(packets') >= Len(packets)
  <2>1. Len(packets') >= Len(packets)
    BY <1>3, <1>5, <1>7
  <2> QED  BY <1>1, <1>2, <1>7, <2>1, KeptIds
<1> HIDE DEF k
<1>11. TypeOK'
  BY <1>1, <1>3, <1>7, <1>10, <1>2 DEF TypeOK, Ids
<1>12. FilesInv'
  <2>1. Len(packets') >= 5
    BY <1>2, <1>3, <1>7, <1>10 DEF FilesInv
  <2> QED  BY <1>1, <1>2, <2>1 DEF FilesInv
<1>13. RowsInv'
  BY <1>1, <1>5, <1>7, <1>8, <1>9 DEF RowsInv
<1> QED  BY <1>7, <1>11, <1>12, <1>13 DEF PlanInv

LEMMA ReductionLevelKeeps ==
  ASSUME PlanInv, CloseLevel \/ ReleaseLevel
  PROVE  PlanInv'
<1>1. TypeOK /\ DependenciesPrecede /\ FilesInv /\ RowsInv
  BY DEF PlanInv
<1>2. PICK stage \in {"closure-group", "release-group"}, from \in {"closure", "release"},
           to \in {"gates", "finish"} :
        /\ from = "closure" => stage = "closure-group" /\ to = "gates"
        /\ from = "release" => stage = "release-group" /\ to = "finish"
        /\ Summarize(stage, from, to)
  BY DEF CloseLevel, ReleaseLevel
<1> DEFINE rows == IF from = "closure" THEN Summed(files) ELSE Gated(files)
<1>3. /\ phase = from /\ Grouped(stage) /\ phase' = IF Len(inputs') = 1 THEN to ELSE from
      /\ files' = files /\ contracts' = contracts /\ corrections' = corrections
  BY <1>2 DEF Summarize
<1>4. files \in 1..MaxFiles /\ packets \in Seq(Packets)
  BY <1>1 DEF TypeOK
<1>5. stage \in Stages
  BY DEF Stages, GroupStages
<1>6. Len(inputs) \in 1..files /\ Reducing(rows, stage, files, Len(inputs))
  BY <1>1, <1>2, <1>3 DEF RowsInv
<1>7. rows \in Seq(SomeRows)
  BY <1>4, SchedulesTyped
<1>8. /\ Len(inputs') = 1 =>
           RowsIn(packets)' = rows \o Repeated(stage, ReductionToOneCount[files])
      /\ Len(inputs') # 1 =>
           \E made \in Nat :
             /\ RowsIn(packets)' = rows \o Repeated(stage, made)
             /\ made + ReductionToOneCount[Len(inputs')] = ReductionToOneCount[files]
      /\ Len(inputs') \in 1..files
  <2> HIDE DEF rows
  <2> QED  BY <1>1, <1>3, <1>4, <1>5, <1>6, <1>7, ReduceStep
<1>9. /\ packets' \in Seq(Packets) /\ DependenciesPrecede'
      /\ Len(packets') = Len(packets) + Thirds(Len(inputs))
      /\ inputs' \in Seq(1..Len(packets'))
  BY <1>1, <1>3, <1>5, GroupedSound
<1>10. Len(packets') >= Len(packets)
  <2>1. Thirds(Len(inputs)) \in Nat
    BY <1>6, ThirdsOf, <1>1 DEF TypeOK
  <2> QED  BY <1>4, <1>9, <2>1
<1>11. contracts' \in Seq(1..Len(packets')) /\ corrections' \in Seq(1..Len(packets'))
  BY <1>1, <1>3, <1>9, <1>10, KeptIds
<1>12. TypeOK'
  <2>1. phase' \in {"files", "integration", "closure", "gates", "release", "finish", "done"}
    BY <1>3
  <2> QED  BY <1>3, <1>4, <1>9, <1>11, <2>1 DEF TypeOK, Ids
<1>13. FilesInv'
  <2>1. Len(packets') >= 5
    BY <1>1, <1>4, <1>9, <1>10 DEF FilesInv
  <2>2. phase # "files" /\ phase' # "files"
    BY <1>3
  <2> QED  BY <1>1, <1>3, <2>1, <2>2 DEF FilesInv
<1>14. RowsInv'
  <2>1. CASE Len(inputs') = 1
    BY <1>2, <1>3, <1>8, <2>1 DEF RowsInv, Closed, Shipped
  <2>2. CASE Len(inputs') # 1
    BY <1>2, <1>3, <1>8, <2>2 DEF RowsInv, Reducing
  <2> QED  BY <2>1, <2>2
<1> QED  BY <1>9, <1>12, <1>13, <1>14 DEF PlanInv


\* A correction of every file starts a reduction to one that has made nothing.
LEMMA ReductionStarts ==
  ASSUME NEW n \in 1..MaxFiles, NEW rows \in Seq(SomeRows), NEW stage \in Stages,
         RowsIn(packets)' = rows, Len(inputs') = n
  PROVE  /\ Len(inputs') \in 1..n
         /\ \E made \in Nat :
              /\ RowsIn(packets)' = rows \o Repeated(stage, made)
              /\ made + ReductionToOneCount[Len(inputs')] = ReductionToOneCount[n]
<1>1. rows \o Repeated(stage, 0) = rows
  BY RepeatedRows, NoneMore
<1>2. 0 + ReductionToOneCount[n] = ReductionToOneCount[n]
  BY CountsEnd
<1>3. n \in 1..n
  BY FilesAssumption
<1>4. 0 \in Nat
  OBVIOUS
<1> QED  BY <1>1, <1>2, <1>3, <1>4

LEMMA IntegrateKeeps ==
  ASSUME PlanInv, Integrate
  PROVE  PlanInv'
<1> DEFINE shared == <<Packet("integration", 0, inputs)>>
           stage == "integration-correction"
<1>1. /\ phase = "integration" /\ ~(Len(inputs) > 3) /\ Correct(stage, shared)
      /\ phase' = "closure" /\ files' = files /\ contracts' = contracts
  BY DEF Integrate, TooMany
<1>2. TypeOK /\ DependenciesPrecede /\ FilesInv /\ RowsInv
  BY DEF PlanInv
<1>3. /\ files \in 1..MaxFiles /\ files \in Nat /\ packets \in Seq(Packets)
      /\ Len(packets) \in Nat /\ inputs \in Seq(1..Len(packets))
      /\ Len(contracts) = files /\ Len(corrections) = files /\ Len(packets) >= 5
      /\ Len(inputs) \in 1..files /\ Len(inputs) \in 1..MaxFiles
  <2>1. /\ files \in 1..MaxFiles /\ packets \in Seq(Packets)
        /\ inputs \in Seq(1..Len(packets))
    BY <1>2 DEF TypeOK, Ids
  <2>2. /\ Len(contracts) = files /\ Len(corrections) = files /\ Len(packets) >= 5
        /\ Len(inputs) \in 1..files
    BY <1>1, <1>2 DEF FilesInv, RowsInv
  <2> QED  BY <2>1, <2>2, FilesAssumption
<1>4. PICK made \in Nat :
        /\ RowsIn(packets) = Shown(files) \o Repeated("integration-group", made)
        /\ made + IntegrationGroupCount[Len(inputs)] = IntegrationGroupCount[files]
  BY <1>1, <1>2 DEF RowsInv
<1>5. made = IntegrationGroupCount[files]
  <2>1. IntegrationGroupCount[Len(inputs)] = 0
    BY <1>1, <1>3, CountsEnd
  <2> QED  BY <1>4, <2>1
<1>6. /\ shared \in Seq(Packets) /\ Len(shared) = 1 /\ shared[1].dependencies = inputs
      /\ RowsIn(shared) = <<Row("integration", 0)>>
  <2>1. "integration" \in Stages /\ inputs \in Seq(Nat)
    BY <1>3 DEF Stages
  <2>2. Packet("integration", 0, inputs) \in Packets
    BY <2>1, NoFile, PacketTyped
  <2>3. shared \in Seq(Packets) /\ Len(shared) = 1 /\ shared[1] = Packet("integration", 0, inputs)
    BY <2>2
  <2>4. RowsIn(shared) = <<Row(shared[1].stage, shared[1].file)>>
    <3> HIDE DEF shared
    <3> QED  BY <2>3 DEF RowsIn
  <2> HIDE DEF shared
  <2> QED  BY <2>3, <2>4, PacketParts
<1>7. Preceding(shared, Len(packets))
  <2>1. \A d \in 1..Len(inputs) : inputs[d] \in 1..(Len(packets) + 1 - 1)
    BY <1>3
  <2> HIDE DEF shared
  <2> QED  BY <1>6, <2>1 DEF Preceding
<1>8. stage \in Stages
  BY DEF Stages
<1>9. /\ packets' \in Seq(Packets) /\ DependenciesPrecede'
      /\ Len(packets') = Len(packets) + 1 + files
      /\ RowsIn(packets)' = RowsIn(packets) \o RowsIn(shared) \o PerFile(stage, files)
      /\ corrections' \in Seq(1..Len(packets')) /\ Len(corrections') = files
      /\ inputs' \in Seq(1..Len(packets')) /\ Len(inputs') = files
  <2>1. Len(shared) >= 1
    BY <1>6
  <2> HIDE DEF shared, stage
  <2> QED  BY <1>1, <1>2, <1>3, <1>6, <1>7, <1>8, <2>1, CorrectSound
<1>10. RowsIn(packets)' = Summed(files)
  BY <1>4, <1>5, <1>6, <1>9 DEF Summed
<1>11. contracts' \in Seq(1..Len(packets'))
  BY <1>1, <1>2, <1>3, <1>9, KeptIds
<1>12. TypeOK'
  BY <1>1, <1>3, <1>9, <1>11 DEF TypeOK, Ids
<1>13. FilesInv'
  BY <1>1, <1>3, <1>9 DEF FilesInv
<1>14. RowsInv'
  <2>1. "closure-group" \in Stages /\ Summed(files) \in Seq(SomeRows)
    BY <1>3, SchedulesTyped DEF Stages, GroupStages
  <2>2. /\ Len(inputs') \in 1..files
        /\ \E j \in Nat :
             /\ RowsIn(packets)' = Summed(files) \o Repeated("closure-group", j)
             /\ j + ReductionToOneCount[Len(inputs')] = ReductionToOneCount[files]
    BY <1>3, <1>9, <1>10, <2>1, ReductionStarts
  <2> QED  BY <1>1, <2>2 DEF RowsInv, Reducing
<1> QED  BY <1>9, <1>12, <1>13, <1>14 DEF PlanInv

LEMMA GatesKeep ==
  ASSUME PlanInv, Gates
  PROVE  PlanInv'
<1> DEFINE k == Len(packets)
           p1 == Packet("integration-closure", 0, <<inputs[1], The("integration"), Quality>>)
           p2 == Packet("verification", 0, <<k + 1, Functional, Quality>>)
           p3 == Packet("adversarial-review", 0, <<k + 2, k + 1, Architecture>>)
           shared == <<p1, p2, p3>>
           stage == "final-correction"
<1>1. /\ phase = "gates" /\ Correct(stage, shared)
      /\ phase' = "release" /\ files' = files /\ contracts' = contracts
  BY DEF Gates
<1>2. TypeOK /\ DependenciesPrecede /\ FilesInv /\ RowsInv
  BY DEF PlanInv
<1>3. /\ files \in 1..MaxFiles /\ files \in Nat /\ packets \in Seq(Packets)
      /\ k \in Nat /\ inputs[1] \in 1..k /\ Len(contracts) = files
      /\ Len(corrections) = files /\ k >= 5 /\ RowsIn(packets) = Closed(files)
  <2>1. /\ files \in 1..MaxFiles /\ packets \in Seq(Packets)
        /\ inputs \in Seq(1..Len(packets))
    BY <1>2 DEF TypeOK, Ids
  <2>2. /\ Len(contracts) = files /\ Len(corrections) = files /\ k >= 5
        /\ Len(inputs) = 1 /\ RowsIn(packets) = Closed(files)
    BY <1>1, <1>2 DEF FilesInv, RowsInv
  <2>3. inputs[1] \in 1..Len(packets) /\ Len(packets) \in Nat
    <3>1. Len(inputs) = 1 /\ inputs \in Seq(1..Len(packets)) /\ packets \in Seq(Packets)
      BY <2>1, <2>2
    <3> HIDE DEF p1, p2
    <3> QED  BY <3>1, OnlyPlace
  <2> HIDE DEF p1, p2
  <2> QED  BY <2>1, <2>2, <2>3, FilesAssumption
<1>4. The("integration") \in 1..k
  BY <1>2, <1>3, LandmarksHeld, TheStage
<1>5. p1 \in Packets /\ p2 \in Packets /\ p3 \in Packets
  <2>1. /\ <<inputs[1], The("integration"), Quality>> \in Seq(Nat)
        /\ <<k + 1, Functional, Quality>> \in Seq(Nat)
        /\ <<k + 2, k + 1, Architecture>> \in Seq(Nat)
    <3>1. /\ inputs[1] \in Nat /\ The("integration") \in Nat /\ Quality \in Nat
          /\ Functional \in Nat /\ Architecture \in Nat /\ k + 1 \in Nat /\ k + 2 \in Nat
      BY <1>3, <1>4 DEF Quality, Functional, Architecture
    <3> HIDE DEF k
    <3> QED  BY <3>1, ThreePlaces
  <2>2. /\ "integration-closure" \in Stages /\ "verification" \in Stages
        /\ "adversarial-review" \in Stages
    BY DEF Stages
  <2> HIDE DEF k
  <2> QED  BY <2>1, <2>2, NoFile, PacketTyped
<1>6. /\ p1.dependencies = <<inputs[1], The("integration"), Quality>>
      /\ p2.dependencies = <<k + 1, Functional, Quality>>
      /\ p3.dependencies = <<k + 2, k + 1, Architecture>>
      /\ p1.stage = "integration-closure" /\ p1.file = 0
      /\ p2.stage = "verification" /\ p2.file = 0
      /\ p3.stage = "adversarial-review" /\ p3.file = 0
  BY PacketParts
<1> HIDE DEF p1, p2, p3
<1>7. /\ shared \in Seq(Packets) /\ Len(shared) = 3
      /\ shared[1] = p1 /\ shared[2] = p2 /\ shared[3] = p3
  BY <1>5
<1> HIDE DEF shared
<1>8. RowsIn(shared) = <<Row("integration-closure", 0), Row("verification", 0),
                         Row("adversarial-review", 0)>>
  <2>1. RowsIn(shared) = <<Row(p1.stage, p1.file), Row(p2.stage, p2.file),
                           Row(p3.stage, p3.file)>>
    BY <1>7 DEF RowsIn
  <2> QED  BY <1>6, <2>1
<1>9. Preceding(shared, k)
  <2> SUFFICES ASSUME NEW j \in 1..3, NEW d \in 1..Len(shared[j].dependencies)
               PROVE  shared[j].dependencies[d] \in 1..(k + j - 1)
    BY <1>7 DEF Preceding
  <2>1. CASE j = 1
    <3>1. shared[j].dependencies = <<inputs[1], The("integration"), Quality>>
      BY <1>6, <1>7, <2>1
    <3>2. /\ inputs[1] \in 1..(k + j - 1) /\ The("integration") \in 1..(k + j - 1)
          /\ Quality \in 1..(k + j - 1)
      BY <1>3, <1>4, <2>1 DEF Quality
    <3> HIDE DEF k
    <3> QED  BY <3>1, <3>2, ThreePlaces
  <2>2. CASE j = 2
    <3>1. shared[j].dependencies = <<k + 1, Functional, Quality>>
      BY <1>6, <1>7, <2>2
    <3>2. /\ k + 1 \in 1..(k + j - 1) /\ Functional \in 1..(k + j - 1)
          /\ Quality \in 1..(k + j - 1)
      BY <1>3, <2>2 DEF Functional, Quality
    <3> HIDE DEF k
    <3> QED  BY <3>1, <3>2, ThreePlaces
  <2>3. CASE j = 3
    <3>1. shared[j].dependencies = <<k + 2, k + 1, Architecture>>
      BY <1>6, <1>7, <2>3
    <3>2. /\ k + 2 \in 1..(k + j - 1) /\ k + 1 \in 1..(k + j - 1)
          /\ Architecture \in 1..(k + j - 1)
      BY <1>3, <2>3 DEF Architecture
    <3> HIDE DEF k
    <3> QED  BY <3>1, <3>2, ThreePlaces
  <2> QED  BY <2>1, <2>2, <2>3
<1>10. stage \in Stages
  BY DEF Stages
<1>11. /\ packets' \in Seq(Packets) /\ DependenciesPrecede'
       /\ Len(packets') = k + 3 + files
       /\ RowsIn(packets)' = RowsIn(packets) \o RowsIn(shared) \o PerFile(stage, files)
       /\ corrections' \in Seq(1..Len(packets')) /\ Len(corrections') = files
       /\ inputs' \in Seq(1..Len(packets')) /\ Len(inputs') = files
  <2>1. Len(shared) >= 1 /\ Correct(stage, shared)
    BY <1>1, <1>7 DEF shared, p1, p2, p3
  <2> HIDE DEF stage
  <2> QED  BY <1>2, <1>3, <1>7, <1>9, <1>10, <2>1, CorrectSound
<1>12. RowsIn(packets)' = Gated(files)
  BY <1>3, <1>8, <1>11 DEF Gated
<1>13. contracts' \in Seq(1..Len(packets'))
  BY <1>1, <1>2, <1>3, <1>11, KeptIds
<1>14. TypeOK'
  BY <1>1, <1>3, <1>11, <1>13 DEF TypeOK, Ids
<1>15. FilesInv'
  BY <1>1, <1>3, <1>11 DEF FilesInv
<1>16. RowsInv'
  <2>1. "release-group" \in Stages /\ Gated(files) \in Seq(SomeRows)
    BY <1>3, SchedulesTyped DEF Stages, GroupStages
  <2>2. /\ Len(inputs') \in 1..files
        /\ \E j \in Nat :
             /\ RowsIn(packets)' = Gated(files) \o Repeated("release-group", j)
             /\ j + ReductionToOneCount[Len(inputs')] = ReductionToOneCount[files]
    BY <1>3, <1>11, <1>12, <2>1, ReductionStarts
  <2> QED  BY <1>1, <2>2 DEF RowsInv, Reducing
<1> QED  BY <1>11, <1>14, <1>15, <1>16 DEF PlanInv

LEMMA FinishKeeps ==
  ASSUME PlanInv, Finish
  PROVE  PlanInv'
<1> DEFINE k == Len(packets)
           p1 == Packet("release-verification", 0,
                   <<inputs[1], The("verification"), The("adversarial-review")>>)
           p2 == Packet("finalization", 0, <<k + 1, The("integration-closure"), inputs[1]>>)
           t == <<p1, p2>>
<1>1. /\ phase = "finish" /\ packets' = packets \o t /\ phase' = "done"
      /\ files' = files /\ contracts' = contracts /\ corrections' = corrections
      /\ inputs' = inputs
  BY DEF Finish
<1>2. TypeOK /\ DependenciesPrecede /\ FilesInv /\ RowsInv
  BY DEF PlanInv
<1>3. /\ files \in 1..MaxFiles /\ packets \in Seq(Packets)
      /\ k \in Nat /\ inputs[1] \in 1..k /\ Len(contracts) = files
      /\ inputs \in Seq(1..k)
      /\ Len(corrections) = files /\ k >= 5 /\ RowsIn(packets) = Shipped(files)
  <2>1. /\ files \in 1..MaxFiles /\ packets \in Seq(Packets)
        /\ inputs \in Seq(1..Len(packets))
    BY <1>2 DEF TypeOK, Ids
  <2>2. /\ Len(contracts) = files /\ Len(corrections) = files /\ k >= 5
        /\ Len(inputs) = 1 /\ RowsIn(packets) = Shipped(files)
    BY <1>1, <1>2 DEF FilesInv, RowsInv
  <2>3. inputs[1] \in 1..Len(packets) /\ Len(packets) \in Nat
    <3>1. Len(inputs) = 1 /\ inputs \in Seq(1..Len(packets)) /\ packets \in Seq(Packets)
      BY <2>1, <2>2
    <3> HIDE DEF p1, p2
    <3> QED  BY <3>1, OnlyPlace
  <2> HIDE DEF p1, p2
  <2> QED  BY <2>1, <2>2, <2>3
<1>4. /\ The("verification") \in 1..k /\ The("adversarial-review") \in 1..k
      /\ The("integration-closure") \in 1..k
  BY <1>2, <1>3, LandmarksHeld, TheStage
<1>5. p1 \in Packets /\ p2 \in Packets
  <2>1. /\ <<inputs[1], The("verification"), The("adversarial-review")>> \in Seq(Nat)
        /\ <<k + 1, The("integration-closure"), inputs[1]>> \in Seq(Nat)
    <3>1. /\ inputs[1] \in Nat /\ The("verification") \in Nat /\ k + 1 \in Nat
          /\ The("adversarial-review") \in Nat /\ The("integration-closure") \in Nat
      BY <1>3, <1>4
    <3> HIDE DEF k
    <3> QED  BY <3>1, ThreePlaces
  <2>2. "release-verification" \in Stages /\ "finalization" \in Stages
    BY DEF Stages
  <2> HIDE DEF k
  <2> QED  BY <2>1, <2>2, NoFile, PacketTyped
<1>6. /\ p1.dependencies = <<inputs[1], The("verification"), The("adversarial-review")>>
      /\ p2.dependencies = <<k + 1, The("integration-closure"), inputs[1]>>
      /\ p1.stage = "release-verification" /\ p1.file = 0
      /\ p2.stage = "finalization" /\ p2.file = 0
  BY PacketParts
<1> HIDE DEF p1, p2
<1>7. t \in Seq(Packets) /\ Len(t) = 2 /\ t[1] = p1 /\ t[2] = p2
  BY <1>5
<1> HIDE DEF t
<1>8. RowsIn(t) = <<Row("release-verification", 0), Row("finalization", 0)>>
  <2>1. RowsIn(t) = <<Row(p1.stage, p1.file), Row(p2.stage, p2.file)>>
    BY <1>7 DEF RowsIn
  <2> QED  BY <1>6, <2>1
<1>9. Preceding(t, k)
  <2> SUFFICES ASSUME NEW j \in 1..2, NEW d \in 1..Len(t[j].dependencies)
               PROVE  t[j].dependencies[d] \in 1..(k + j - 1)
    BY <1>7 DEF Preceding
  <2>1. CASE j = 1
    <3>1. t[j].dependencies = <<inputs[1], The("verification"), The("adversarial-review")>>
      BY <1>6, <1>7, <2>1
    <3>2. /\ inputs[1] \in 1..(k + j - 1) /\ The("verification") \in 1..(k + j - 1)
          /\ The("adversarial-review") \in 1..(k + j - 1)
      BY <1>3, <1>4, <2>1
    <3> HIDE DEF k
    <3> QED  BY <3>1, <3>2, ThreePlaces
  <2>2. CASE j = 2
    <3>1. t[j].dependencies = <<k + 1, The("integration-closure"), inputs[1]>>
      BY <1>6, <1>7, <2>2
    <3>2. /\ k + 1 \in 1..(k + j - 1) /\ The("integration-closure") \in 1..(k + j - 1)
          /\ inputs[1] \in 1..(k + j - 1)
      BY <1>3, <1>4, <2>2
    <3> HIDE DEF k
    <3> QED  BY <3>1, <3>2, ThreePlaces
  <2> QED  BY <2>1, <2>2
<1>10. /\ packets' \in Seq(Packets) /\ Len(packets') = k + 2 /\ DependenciesPrecede'
       /\ RowsIn(packets)' = RowsIn(packets) \o RowsIn(t)
  BY <1>1, <1>2, <1>3, <1>7, <1>9, GrowthSound
<1>11. RowsIn(packets)' = Schedule(files)
  BY <1>3, <1>8, <1>10
     DEF Schedule, Shipped, Gated, Closed, Summed, Shown, BaseRows, FileRows
<1>12. /\ contracts' \in Seq(1..Len(packets')) /\ corrections' \in Seq(1..Len(packets'))
       /\ inputs' \in Seq(1..Len(packets'))
  <2>1. Len(packets') >= Len(packets) /\ Len(packets') \in Nat
    BY <1>3, <1>10
  <2> QED  BY <1>1, <1>2, <1>3, <1>10, <2>1, KeptIds, PlacesStay
<1>13. TypeOK'
  BY <1>1, <1>3, <1>10, <1>12 DEF TypeOK, Ids
<1>14. FilesInv'
  BY <1>1, <1>3, <1>10 DEF FilesInv
<1>15. RowsInv'
  BY <1>1, <1>11 DEF RowsInv
<1> QED  BY <1>10, <1>13, <1>14, <1>15 DEF PlanInv


LEMMA PlanStays == PlanInv /\ [Next]_vars => PlanInv'
<1> SUFFICES ASSUME PlanInv, [Next]_vars PROVE PlanInv'
  OBVIOUS
<1>1. CASE FileFlow
  BY <1>1, FileFlowKeeps
<1>2. CASE IntegrateLevel
  BY <1>2, IntegrateLevelKeeps
<1>3. CASE Integrate
  BY <1>3, IntegrateKeeps
<1>4. CASE CloseLevel
  BY <1>4, ReductionLevelKeeps
<1>5. CASE Gates
  BY <1>5, GatesKeep
<1>6. CASE ReleaseLevel
  BY <1>6, ReductionLevelKeeps
<1>7. CASE Finish
  BY <1>7, FinishKeeps
<1>8. CASE UNCHANGED vars
  BY <1>8 DEF vars, PlanInv, TypeOK, Ids, DependenciesPrecede, FilesInv, RowsInv,
              Reducing, RowsIn
<1> QED  BY <1>1, <1>2, <1>3, <1>4, <1>5, <1>6, <1>7, <1>8 DEF Next

(***************************************************************************)
(* Results.                                                                *)
(***************************************************************************)
\* The rounds of expand_files keep the plan between what it has grouped and
\* what its counts still expect.
THEOREM PlanInvariant == Spec => []PlanInv
BY PlanStarts, PlanStays, PTL DEF Spec

\* A packet only reads packets before it (WorkPlan::validate), whatever the
\* number of files: a plan executed in order has every output a prompt needs.
THEOREM PlansReadBackwards == Spec => []DependenciesPrecede
<1>1. PlanInv => DependenciesPrecede
  BY DEF PlanInv
<1> QED  BY PlanInvariant, <1>1, PTL

LEMMA ScheduleCounted ==
  ASSUME NEW n \in 1..MaxFiles
  PROVE  Len(Schedule(n)) = ExpectedCount(n)
<1> DEFINE j == IntegrationGroupCount[n]
           k == ReductionToOneCount[n]
<1>1. n \in Nat /\ j \in Nat /\ k \in Nat
  BY CountsEnd, FilesAssumption
<1>2. /\ "integration-group" \in Stages /\ "integration-correction" \in Stages
      /\ "closure-group" \in Stages /\ "final-correction" \in Stages
      /\ "release-group" \in Stages
  BY DEF Stages, GroupStages
<1>3. /\ Row("integration", 0) \in SomeRows /\ Row("integration-closure", 0) \in SomeRows
      /\ Row("verification", 0) \in SomeRows /\ Row("adversarial-review", 0) \in SomeRows
      /\ Row("release-verification", 0) \in SomeRows /\ Row("finalization", 0) \in SomeRows
  BY RowTyped DEF Stages
<1> DEFINE one   == <<Row("integration", 0)>>
           three == <<Row("integration-closure", 0), Row("verification", 0),
                      Row("adversarial-review", 0)>>
           two   == <<Row("release-verification", 0), Row("finalization", 0)>>
<1>4. /\ one \in Seq(SomeRows) /\ Len(one) = 1 /\ three \in Seq(SomeRows) /\ Len(three) = 3
      /\ two \in Seq(SomeRows) /\ Len(two) = 2
  BY <1>3
<1>5. Schedule(n) = Shipped(n) \o two
  BY DEF Schedule, Shipped, Gated, Closed, Summed, Shown, BaseRows, FileRows
<1>6. /\ Summed(n) = Shown(n) \o Repeated("integration-group", j) \o one
                       \o PerFile("integration-correction", n)
      /\ Closed(n) = Summed(n) \o Repeated("closure-group", k)
      /\ Gated(n) = Closed(n) \o three \o PerFile("final-correction", n)
      /\ Shipped(n) = Gated(n) \o Repeated("release-group", k)
  BY DEF Shipped, Gated, Closed, Summed
<1> HIDE DEF one, two, three, j, k
<1>7. Shown(n) \in Seq(SomeRows) /\ Len(Shown(n)) = 5 + 4 * n
  <2>1. FileRows(n) \in Seq(SomeRows) /\ Len(FileRows(n)) = 4 * n /\ 4 * n \in Nat
    BY <1>1, FileRowsTyped
  <2> QED  BY <2>1, BaseRowsTyped, RowsLength DEF Shown
<1>8. Summed(n) \in Seq(SomeRows) /\ Len(Summed(n)) = 5 + 4 * n + j + 1 + n
  <2> DEFINE a == Repeated("integration-group", j)
             b == PerFile("integration-correction", n)
  <2>1. /\ a \in Seq(SomeRows) /\ Len(a) = j /\ b \in Seq(SomeRows) /\ Len(b) = n
    BY <1>1, <1>2, RepeatedRows, PerFileRows
  <2>2. /\ 5 + 4 * n \in Nat /\ 5 + 4 * n + j \in Nat /\ 5 + 4 * n + j + 1 \in Nat
    BY <1>1
  <2>3. Summed(n) = Shown(n) \o a \o one \o b
    BY <1>6
  <2> HIDE DEF a, b
  <2>4. Shown(n) \o a \in Seq(SomeRows) /\ Len(Shown(n) \o a) = 5 + 4 * n + j
    BY <1>1, <1>7, <2>1, <2>2, RowsLength
  <2>5. /\ Shown(n) \o a \o one \in Seq(SomeRows)
        /\ Len(Shown(n) \o a \o one) = 5 + 4 * n + j + 1
    <3> DEFINE x == Shown(n) \o a
    <3>1. x \in Seq(SomeRows) /\ Len(x) = 5 + 4 * n + j
      BY <2>4
    <3> HIDE DEF x
    <3>2. x \o one \in Seq(SomeRows) /\ Len(x \o one) = Len(x) + Len(one)
      BY <1>4, <3>1, RowsLength
    <3>3. Len(x \o one) = 5 + 4 * n + j + 1
      BY <1>4, <3>1, <3>2
    <3> QED  BY <3>2, <3>3 DEF x
  <2> DEFINE x == Shown(n) \o a \o one
  <2>6. x \in Seq(SomeRows) /\ Len(x) = 5 + 4 * n + j + 1 /\ Summed(n) = x \o b
    BY <2>3, <2>5
  <2> HIDE DEF x
  <2>7. x \o b \in Seq(SomeRows) /\ Len(x \o b) = Len(x) + Len(b)
    BY <2>1, <2>6, RowsLength
  <2> QED  BY <1>1, <2>1, <2>2, <2>6, <2>7
<1>9. Closed(n) \in Seq(SomeRows) /\ Len(Closed(n)) = 6 + 5 * n + j + k
  <2>1. /\ Repeated("closure-group", k) \in Seq(SomeRows)
        /\ Len(Repeated("closure-group", k)) = k
    BY <1>1, <1>2, RepeatedRows
  <2>2. 6 + 5 * n + j \in Nat /\ Len(Summed(n)) = 6 + 5 * n + j
    BY <1>1, <1>8
  <2>3. /\ Closed(n) \in Seq(SomeRows)
        /\ Len(Closed(n)) = Len(Summed(n)) + Len(Repeated("closure-group", k))
    BY <1>6, <1>8, <2>1, RowsLength
  <2> QED  BY <1>1, <2>1, <2>2, <2>3
<1>10. Gated(n) \in Seq(SomeRows) /\ Len(Gated(n)) = 9 + 6 * n + j + k
  <2> DEFINE b == PerFile("final-correction", n)
  <2>1. b \in Seq(SomeRows) /\ Len(b) = n /\ Gated(n) = Closed(n) \o three \o b
    BY <1>1, <1>2, <1>6, PerFileRows
  <2>2. 6 + 5 * n + j + k \in Nat /\ 6 + 5 * n + j + k + 3 \in Nat
    BY <1>1
  <2> HIDE DEF b
  <2>3. /\ Closed(n) \o three \in Seq(SomeRows)
        /\ Len(Closed(n) \o three) = 6 + 5 * n + j + k + 3
    <3>1. Closed(n) \o three \in Seq(SomeRows)
            /\ Len(Closed(n) \o three) = Len(Closed(n)) + Len(three)
      BY <1>4, <1>9, RowsLength
    <3> QED  BY <1>4, <1>9, <2>2, <3>1
  <2>4. Gated(n) \in Seq(SomeRows) /\ Len(Gated(n)) = 6 + 5 * n + j + k + 3 + n
    BY <1>1, <2>1, <2>2, <2>3, RowsLength
  <2> QED  BY <1>1, <2>4
<1>11. Shipped(n) \in Seq(SomeRows) /\ Len(Shipped(n)) = 9 + 6 * n + j + k + k
  <2>1. /\ Repeated("release-group", k) \in Seq(SomeRows)
        /\ Len(Repeated("release-group", k)) = k
    BY <1>1, <1>2, RepeatedRows
  <2>2. 9 + 6 * n + j + k \in Nat
    BY <1>1
  <2>3. /\ Shipped(n) \in Seq(SomeRows)
        /\ Len(Shipped(n)) = Len(Gated(n)) + Len(Repeated("release-group", k))
    BY <1>6, <1>10, <2>1, RowsLength
  <2> QED  BY <1>1, <1>10, <2>1, <2>2, <2>3
<1>12. Len(Schedule(n)) = 9 + 6 * n + j + k + k + 2
  <2>1. 9 + 6 * n + j + k + k \in Nat
    BY <1>1
  <2> QED  BY <1>4, <1>5, <1>11, <2>1, RowsLength
<1>13. ExpectedCount(n) = 11 + 6 * n + j + 2 * k
  BY DEF ExpectedCount, j, k
<1> QED  BY <1>1, <1>12, <1>13

LEMMA PlanMeetsSchedule == PlanInv => EvidenceVerifies
<1> SUFFICES ASSUME PlanInv, phase = "done" PROVE EvidenceVerifies
  BY DEF EvidenceVerifies
<1>1. files \in 1..MaxFiles /\ packets \in Seq(Packets) /\ RowsIn(packets) = Schedule(files)
  BY DEF PlanInv, TypeOK, RowsInv
<1>2. RowsIn(packets) = [i \in Ids |-> Row(packets[i].stage, packets[i].file)]
  BY DEF RowsIn, Ids
<1>3. Len(packets) = Len(Schedule(files))
  BY <1>1, RowsTyped
<1> QED  BY <1>1, <1>2, <1>3, ScheduleCounted DEF EvidenceVerifies

\* The plan expand_files builds by grouping what it has is the one
\* validate_packet_schedule counts out, whatever the number of files: evidence
\* of every packet of a plan is never refused for its schedule.
THEOREM ExpansionMeetsSchedule == Spec => []EvidenceVerifies
BY PlanInvariant, PlanMeetsSchedule, PTL


(***************************************************************************)
(* Findings are read: what waits to be read is what a reduction still has  *)
(* to combine.                                                             *)
(***************************************************************************)
ReadIn(s, j, i) == \E d \in 1..Len(s[j].dependencies) : s[j].dependencies[d] = i

\* Every packet of s is read by a later one, but for those of F.
Flows(s, F) == \A i \in 1..Len(s) : i \in F \/ \E j \in (i + 1)..Len(s) : ReadIn(s, j, i)

Places(s) == {s[i] : i \in 1..Len(s)}

\* What no packet has read yet.
Frontier ==
  IF phase = "done" THEN {Len(packets)}
  ELSE IF contracts = <<>> THEN {Manifest} ELSE Places(inputs)

\* The stages of the hostile review and of what reads it.
ReviewStages == {"adversarial-review", "final-correction"}

ReviewedBy(s, r) ==
  /\ s[r].stage = "adversarial-review"
  /\ \A i \in 1..Len(s) : s[i].stage = "adversarial-review" => i = r
  /\ \A i \in 1..(r - 1) : \E j \in (i + 1)..r : ReadIn(s, j, i)
  /\ \A i \in 1..Len(s) : s[i].stage = "final-correction" => ReadIn(s, i, r)

ReviewInv ==
  IF phase \in {"release", "finish", "done"}
  THEN \E r \in 1..Len(packets) : ReviewedBy(packets, r)
  ELSE \A i \in 1..Len(packets) : packets[i].stage \notin ReviewStages

FindingsInv ==
  Flows(packets, Frontier) /\ ReviewInv /\ (phase = "files" => inputs = corrections)

\* The packets of a plan that grew: those it had, then the new ones.
LEMMA Grown ==
  ASSUME NEW s \in Seq(Packets), NEW t \in Seq(Packets)
  PROVE  /\ s \o t \in Seq(Packets) /\ Len(s \o t) = Len(s) + Len(t)
         /\ Len(s) \in Nat /\ Len(t) \in Nat
         /\ \A j \in 1..Len(s) : j \in 1..Len(s \o t) /\ (s \o t)[j] = s[j]
         /\ \A m \in 1..Len(t) : Len(s) + m \in 1..Len(s \o t) /\ (s \o t)[Len(s) + m] = t[m]
         /\ \A i \in 1..Len(s \o t) :
              i \in 1..Len(s) \/ \E m \in 1..Len(t) : i = Len(s) + m
<1>1. /\ s \o t \in Seq(Packets) /\ Len(s \o t) = Len(s) + Len(t)
      /\ \A j \in 1..Len(s) : (s \o t)[j] = s[j]
      /\ \A m \in 1..Len(t) : (s \o t)[Len(s) + m] = t[m]
  BY ConcatIsSeq
<1>2. Len(s) \in Nat /\ Len(t) \in Nat
  OBVIOUS
<1>3. ASSUME NEW i \in 1..Len(s \o t), i \notin 1..Len(s)
      PROVE  \E m \in 1..Len(t) : i = Len(s) + m
  <2>1. i - Len(s) \in 1..Len(t) /\ i = Len(s) + (i - Len(s))
    BY <1>1, <1>2, <1>3
  <2> QED  BY <2>1
<1> QED  BY <1>1, <1>2, <1>3

\* A plan grows by packets that read what was not read yet, or leave it for later.
LEMMA FlowGrows ==
  ASSUME NEW s \in Seq(Packets), NEW t \in Seq(Packets), NEW F, NEW G, Flows(s, F),
         \A i \in F : i \in 1..Len(s) => i \in G \/ \E m \in 1..Len(t) : ReadIn(t, m, i),
         \A m \in 1..Len(t) : \/ Len(s) + m \in G
                              \/ \E q \in (m + 1)..Len(t) : ReadIn(t, q, Len(s) + m)
  PROVE  Flows(s \o t, G)
<1> DEFINE k == Len(s)
           u == s \o t
<1>1. /\ Len(u) = k + Len(t) /\ k \in Nat /\ Len(t) \in Nat
      /\ \A j \in 1..k : u[j] = s[j]
      /\ \A m \in 1..Len(t) : u[k + m] = t[m]
  BY Grown
<1>2. \A i \in 1..Len(u) : i \in 1..k \/ \E m \in 1..Len(t) : i = k + m
  BY Grown
<1> HIDE DEF u
<1>3. ASSUME NEW i \in 1..k, i \notin G PROVE \E j \in (i + 1)..Len(u) : ReadIn(u, j, i)
  <2>1. CASE i \in F
    <3>1. PICK m \in 1..Len(t) : ReadIn(t, m, i)
      BY <1>3, <2>1
    <3>2. k + m \in (i + 1)..Len(u) /\ ReadIn(u, k + m, i)
      BY <1>1, <3>1 DEF ReadIn
    <3> QED  BY <3>2
  <2>2. CASE i \notin F
    <3>1. PICK j \in (i + 1)..k : ReadIn(s, j, i)
      BY <2>2 DEF Flows
    <3>2. j \in 1..k /\ j \in (i + 1)..Len(u)
      BY <1>1
    <3> QED  BY <1>1, <3>1, <3>2 DEF ReadIn
  <2> QED  BY <2>1, <2>2
<1>4. ASSUME NEW m \in 1..Len(t), k + m \notin G
      PROVE  \E j \in (k + m + 1)..Len(u) : ReadIn(u, j, k + m)
  <2>1. PICK q \in (m + 1)..Len(t) : ReadIn(t, q, k + m)
    BY <1>4
  <2>2. k + q \in (k + m + 1)..Len(u) /\ q \in 1..Len(t)
    BY <1>1
  <2>3. ReadIn(u, k + q, k + m)
    BY <1>1, <2>1, <2>2 DEF ReadIn
  <2> QED  BY <2>2, <2>3
<1>5. Flows(u, G)
  BY <1>2, <1>3, <1>4 DEF Flows
<1> QED  BY <1>5 DEF u

\* Packets of other stages change nothing about the hostile review.
LEMMA ReviewStays ==
  ASSUME NEW s \in Seq(Packets), NEW t \in Seq(Packets), NEW r \in 1..Len(s),
         ReviewedBy(s, r), \A m \in 1..Len(t) : t[m].stage \notin ReviewStages
  PROVE  r \in 1..Len(s \o t) /\ ReviewedBy(s \o t, r)
<1> DEFINE k == Len(s)
           u == s \o t
<1>1. /\ Len(u) = k + Len(t) /\ k \in Nat /\ Len(t) \in Nat
      /\ \A j \in 1..k : j \in 1..Len(u) /\ u[j] = s[j]
      /\ \A m \in 1..Len(t) : u[k + m] = t[m]
  BY Grown
<1>2. \A i \in 1..Len(u) : i \in 1..k \/ \E m \in 1..Len(t) : i = k + m
  BY Grown
<1> HIDE DEF u
<1>3. \A j \in 1..k : \A i : ReadIn(u, j, i) <=> ReadIn(s, j, i)
  BY <1>1 DEF ReadIn
<1>4. \A i \in 1..Len(u) : u[i].stage \in ReviewStages => i \in 1..k
  BY <1>1, <1>2
<1>5. u[r].stage = "adversarial-review"
  BY <1>1 DEF ReviewedBy
<1>6. \A i \in 1..Len(u) : u[i].stage = "adversarial-review" => i = r
  BY <1>1, <1>4 DEF ReviewedBy, ReviewStages
<1>7. \A i \in 1..Len(u) : u[i].stage = "final-correction" => ReadIn(u, i, r)
  BY <1>1, <1>3, <1>4 DEF ReviewedBy, ReviewStages
<1>8. ASSUME NEW i \in 1..(r - 1) PROVE \E j \in (i + 1)..r : ReadIn(u, j, i)
  <2>1. PICK j \in (i + 1)..r : ReadIn(s, j, i)
    BY DEF ReviewedBy
  <2>2. j \in 1..k
    BY <1>1
  <2> QED  BY <1>3, <2>1, <2>2
<1> QED  BY <1>1, <1>5, <1>6, <1>7, <1>8 DEF ReviewedBy, u

LEMMA NoReviewYet ==
  ASSUME NEW s \in Seq(Packets), NEW t \in Seq(Packets),
         \A i \in 1..Len(s) : s[i].stage \notin ReviewStages,
         \A m \in 1..Len(t) : t[m].stage \notin ReviewStages
  PROVE  \A i \in 1..Len(s \o t) : (s \o t)[i].stage \notin ReviewStages
BY Grown

\* Every input of a level is in one of its groups of three.
LEMMA ChunksCover ==
  ASSUME NEW S, NEW s \in Seq(S), NEW i \in 1..Len(s)
  PROVE  \E g \in 1..Thirds(Len(s)) : \E d \in 1..Len(Chunks(s)[g]) : Chunks(s)[g][d] = s[i]
<1> DEFINE n == Len(s)
           g == Thirds(i)
           last == IF 3 * g < n THEN 3 * g ELSE n
           d == i - (3 * g - 3)
<1>1. n \in Nat /\ i \in 1..n
  OBVIOUS
<1>2. /\ g \in 1..Thirds(n) /\ 3 * g - 2 \in 1..n /\ i <= 3 * g /\ i >= 3 * g - 2
      /\ g \in Nat
  <2> HIDE DEF n
  <2> QED  BY <1>1 DEF Thirds
<1>3. Chunks(s)[g] = SubSeq(s, 3 * g - 2, last)
  BY <1>2 DEF Chunks
<1> HIDE DEF g
<1>4. last \in 1..n /\ last >= i /\ last \in Nat
  <2> HIDE DEF n
  <2> QED  BY <1>1, <1>2
<1>5. d \in 1..(last - (3 * g - 2) + 1) /\ (3 * g - 2) + d - 1 = i
  <2> HIDE DEF n, last
  <2> QED  BY <1>1, <1>2, <1>4
<1> HIDE DEF last, d
<1>6. \A j \in (3 * g - 2)..last : s[j] \in S
  BY <1>2, <1>4
<1>7. /\ Len(SubSeq(s, 3 * g - 2, last)) = last - (3 * g - 2) + 1
      /\ SubSeq(s, 3 * g - 2, last)[d] = s[(3 * g - 2) + d - 1]
  BY <1>2, <1>4, <1>5, <1>6
<1>8. d \in 1..Len(Chunks(s)[g]) /\ Chunks(s)[g][d] = s[i]
  BY <1>3, <1>5, <1>7
<1> QED  BY <1>2, <1>8

\* A level reads all its inputs and leaves its groups to the next.
LEMMA GroupedFlows ==
  ASSUME TypeOK, NEW stage \in Stages, Grouped(stage), Flows(packets, Places(inputs))
  PROVE  /\ Flows(packets', Places(inputs'))
         /\ \E t \in Seq(Packets) : packets' = packets \o t
                                      /\ \A m \in 1..Len(t) : t[m].stage = stage
<1> DEFINE k == Len(packets)
           n == Thirds(Len(inputs))
           groups == Chunks(inputs)
           t == [g \in 1..n |-> Packet(stage, 0, groups[g])]
<1>1. /\ k \in Nat /\ Len(inputs) \in Nat /\ n \in Nat
      /\ inputs \in Seq(1..k) /\ packets \in Seq(Packets)
  <2>1. inputs \in Seq(1..Len(packets)) /\ packets \in Seq(Packets)
    BY DEF TypeOK, Ids
  <2>2. k \in Nat /\ Len(inputs) \in Nat
    BY <2>1
  <2> QED  BY <2>1, <2>2, ThirdsOf
<1>2. Len(groups) = n /\ \A g \in 1..n : groups[g] \in Seq(1..k)
  BY <1>1, ChunksOf
<1>3. packets' = packets \o t /\ inputs' = [i \in 1..n |-> k + i]
  BY <1>2 DEF Grouped, NextIds
<1>4. \A g \in 1..n : Packet(stage, 0, groups[g]) \in Packets
  <2>1. \A d \in Seq(1..k) : d \in Seq(Nat)
    BY <1>1
  <2> QED  BY <1>2, <2>1, NoFile, PacketTyped
<1>5. t \in Seq(Packets) /\ Len(t) = n
  BY <1>1, <1>4
<1>6. \A g \in 1..n : t[g].stage = stage /\ t[g].dependencies = groups[g]
  BY PacketParts
<1>7. ASSUME NEW i \in Places(inputs) PROVE \E m \in 1..n : ReadIn(t, m, i)
  <2>1. PICK p \in 1..Len(inputs) : i = inputs[p]
    BY DEF Places
  <2>2. PICK g \in 1..n : \E d \in 1..Len(groups[g]) : groups[g][d] = inputs[p]
    BY <1>1, ChunksCover
  <2> HIDE DEF t, groups, n
  <2> QED  BY <1>6, <2>1, <2>2 DEF ReadIn
<1>8. \A m \in 1..n : k + m \in Places(inputs')
  <2>1. Len(inputs') = n /\ \A m \in 1..n : inputs'[m] = k + m
    BY <1>1, <1>3
  <2> QED  BY <2>1 DEF Places
<1> HIDE DEF t
<1>9. Flows(packets \o t, Places(inputs'))
  BY <1>1, <1>5, <1>7, <1>8, FlowGrows
<1>10. \A m \in 1..Len(t) : t[m].stage = stage
  BY <1>5, <1>6
<1> QED  BY <1>3, <1>5, <1>9, <1>10

\* The corrections of every file read the last of the shared packets and are
\* the next inputs.
LEMMA CorrectFlows ==
  ASSUME TypeOK, Len(contracts) = files, Len(corrections) = files,
         NEW stage \in Stages, NEW shared \in Seq(Packets), Len(shared) >= 1,
         Correct(stage, shared), NEW F, Flows(packets, F),
         \A i \in F : \E m \in 1..Len(shared) : ReadIn(shared, m, i),
         \A m \in 1..(Len(shared) - 1) : ReadIn(shared, m + 1, Len(packets) + m)
  PROVE  /\ Flows(packets', Places(inputs'))
         /\ \E own \in Seq(Packets) :
              /\ packets' = packets \o (shared \o own) /\ Len(own) = files
              /\ \A f \in 1..files : /\ own[f].stage = stage
                                     /\ ReadIn(own, f, Len(packets) + Len(shared))
<1> DEFINE p == Len(packets)
           k == Len(packets) + Len(shared)
           own == [f \in 1..files |-> Packet(stage, f, <<corrections[f], contracts[f], k>>)]
           t == shared \o own
<1>1. /\ p \in Nat /\ k \in Nat /\ Len(shared) \in Nat /\ files \in Nat /\ files >= 1
      /\ packets \in Seq(Packets)
      /\ \A f \in 1..files : corrections[f] \in 1..p /\ contracts[f] \in 1..p
      /\ \A f \in 1..files : f \in 0..MaxFiles
  <2>1. /\ packets \in Seq(Packets) /\ files \in 1..MaxFiles
        /\ contracts \in Seq(1..Len(packets)) /\ corrections \in Seq(1..Len(packets))
    BY DEF TypeOK, Ids
  <2>2. p \in Nat /\ Len(shared) \in Nat
    BY <2>1
  <2>3. files \in Nat /\ files >= 1 /\ \A f \in 1..files : f \in 0..MaxFiles
    BY <2>1, FilesAssumption
  <2>4. \A f \in 1..files : corrections[f] \in 1..p /\ contracts[f] \in 1..p
    BY <2>1, <2>3
  <2> QED  BY <2>1, <2>2, <2>3, <2>4
<1>2. \A f \in 1..files : <<corrections[f], contracts[f], k>> \in Seq(Nat)
  BY <1>1
<1>3. \A f \in 1..files : Packet(stage, f, <<corrections[f], contracts[f], k>>) \in Packets
  BY <1>1, <1>2, PacketTyped
<1>4. own \in Seq(Packets) /\ Len(own) = files
  BY <1>1, <1>3
<1>5. ASSUME NEW f \in 1..files PROVE own[f].stage = stage /\ ReadIn(own, f, k)
  <2>1. own[f].stage = stage /\ own[f].dependencies = <<corrections[f], contracts[f], k>>
    BY PacketParts
  <2>2. 3 \in 1..Len(<<corrections[f], contracts[f], k>>)
    <3> HIDE DEF k
    <3> QED  OBVIOUS
  <2>3. <<corrections[f], contracts[f], k>>[3] = k
    <3> HIDE DEF k
    <3> QED  OBVIOUS
  <2> HIDE DEF own, k
  <2> QED  BY <2>1, <2>2, <2>3 DEF ReadIn
<1>6. packets' = packets \o t
  <2>1. packets' = packets \o shared \o own
    BY DEF Correct
  <2> HIDE DEF own
  <2> QED  BY <1>1, <1>4, <2>1, ConcatIsGrouped, SMTT(30)
<1>7. \A f \in 1..files : k + f \in Places(inputs')
  <2>1. inputs' = [f \in 1..files |-> k + f]
    BY DEF Correct
  <2>2. Len(inputs') = files /\ \A f \in 1..files : inputs'[f] = k + f
    BY <1>1, <2>1
  <2> QED  BY <2>2 DEF Places
<1> HIDE DEF own
<1>8. /\ t \in Seq(Packets) /\ Len(t) = Len(shared) + files
      /\ \A m \in 1..Len(shared) : m \in 1..Len(t) /\ t[m] = shared[m]
      /\ \A f \in 1..files : Len(shared) + f \in 1..Len(t) /\ t[Len(shared) + f] = own[f]
      /\ \A m \in 1..Len(t) :
           m \in 1..Len(shared) \/ \E f \in 1..files : m = Len(shared) + f
  BY <1>4, Grown
<1> HIDE DEF t
<1>9. ASSUME NEW i \in F PROVE \E m \in 1..Len(t) : ReadIn(t, m, i)
  <2>1. PICK m \in 1..Len(shared) : ReadIn(shared, m, i)
    OBVIOUS
  <2> QED  BY <1>8, <2>1 DEF ReadIn
<1>10. ASSUME NEW m \in 1..Len(t)
       PROVE  \/ p + m \in Places(inputs')
              \/ \E q \in (m + 1)..Len(t) : ReadIn(t, q, p + m)
  <2>1. CASE m \in 1..(Len(shared) - 1)
    <3>1. m + 1 \in 1..Len(shared) /\ m + 1 \in (m + 1)..Len(t)
      BY <1>1, <1>8, <2>1
    <3>2. ReadIn(t, m + 1, p + m)
      BY <1>8, <2>1, <3>1 DEF ReadIn
    <3> QED  BY <3>1, <3>2
  <2>2. CASE m = Len(shared)
    <3>1. Len(shared) + 1 \in (m + 1)..Len(t) /\ 1 \in 1..files
      BY <1>1, <1>8, <2>2
    <3>2. t[Len(shared) + 1] = own[1] /\ ReadIn(own, 1, k)
      BY <1>5, <1>8, <3>1
    <3>3. p + m = k
      BY <2>2
    <3>4. ReadIn(t, Len(shared) + 1, p + m)
      BY <3>2, <3>3 DEF ReadIn
    <3> QED  BY <2>2, <3>1, <3>4
  <2>3. CASE m \notin 1..Len(shared)
    <3>1. PICK f \in 1..files : m = Len(shared) + f
      BY <1>8, <2>3
    <3>2. p + m = k + f
      BY <1>1, <3>1
    <3> QED  BY <1>7, <3>2
  <2>4. m \in 1..(Len(shared) - 1) \/ m = Len(shared) \/ m \notin 1..Len(shared)
    BY <1>1
  <2> QED  BY <2>1, <2>2, <2>3, <2>4
<1>11. Flows(packets \o t, Places(inputs'))
  BY <1>1, <1>8, <1>9, <1>10, FlowGrows
<1> QED  BY <1>4, <1>5, <1>6, <1>11 DEF t

LEMMA FindingsStart == Init => FindingsInv
<1> SUFFICES ASSUME Init PROVE FindingsInv
  OBVIOUS
<1>1. /\ packets = [i \in 1..5 |-> Packet(BaseStages[i], 0, IF i = 1 THEN <<>> ELSE <<i - 1>>)]
      /\ phase = "files" /\ contracts = <<>> /\ corrections = <<>> /\ inputs = <<>>
  BY DEF Init
<1>2. /\ Len(packets) = 5
      /\ \A i \in 1..5 : /\ packets[i].stage = BaseStages[i]
                         /\ i # 1 => packets[i].dependencies = <<i - 1>>
  BY <1>1, PacketParts
<1>3. Frontier = {5}
  BY <1>1 DEF Frontier, Manifest
<1>4. ASSUME NEW i \in 1..4 PROVE \E j \in (i + 1)..5 : ReadIn(packets, j, i)
  <2>1. packets[i + 1].dependencies = <<i + 1 - 1>> /\ i + 1 - 1 = i
    BY <1>2
  <2>2. Len(<<i>>) = 1 /\ <<i>>[1] = i
    OBVIOUS
  <2>3. ReadIn(packets, i + 1, i)
    BY <2>1, <2>2 DEF ReadIn
  <2> QED  BY <2>3
<1>5. Flows(packets, Frontier)
  BY <1>2, <1>3, <1>4 DEF Flows
<1>6. \A i \in 1..5 : packets[i].stage \notin ReviewStages
  BY <1>2 DEF BaseStages, ReviewStages
<1> QED  BY <1>1, <1>2, <1>5, <1>6 DEF FindingsInv, ReviewInv

LEMMA FileFlowFlows ==
  ASSUME PlanInv, FindingsInv, FileFlow
  PROVE  FindingsInv'
<1> DEFINE f == Len(contracts) + 1
           k == Len(packets)
           first == <<Manifest, Architecture>>
                      \o (IF f = 1 THEN <<>> ELSE <<corrections[f - 1]>>)
           p1 == Packet("file-contract", f, first)
           p2 == Packet("file-implementation", f, <<k + 1, Manifest, Architecture>>)
           p3 == Packet("file-review", f, <<k + 1, k + 2, Quality>>)
           p4 == Packet("file-correction", f, <<k + 1, k + 2, k + 3>>)
           t == <<p1, p2, p3, p4>>
<1>1. /\ phase = "files" /\ packets' = packets \o t
      /\ contracts' = Append(contracts, k + 1) /\ corrections' = Append(corrections, k + 4)
      /\ inputs' = corrections'
      /\ phase' = IF f = files THEN "integration" ELSE phase
  BY DEF FileFlow
<1>2. /\ packets \in Seq(Packets) /\ contracts \in Seq(1..k) /\ corrections \in Seq(1..k)
      /\ k \in Nat /\ k >= 5 /\ f \in 0..MaxFiles /\ inputs = corrections
      /\ Len(corrections) = f - 1 /\ f - 1 = Len(contracts) /\ f - 1 \in Nat
  <2>1. /\ packets \in Seq(Packets) /\ contracts \in Seq(1..k) /\ corrections \in Seq(1..k)
        /\ files \in 1..MaxFiles
    BY DEF PlanInv, TypeOK, Ids
  <2>2. /\ Len(corrections) = Len(contracts) /\ k >= 5 /\ Len(contracts) < files
        /\ inputs = corrections
    BY <1>1 DEF PlanInv, FilesInv, RowsInv, FindingsInv
  <2>3. Len(contracts) \in Nat /\ k \in Nat
    BY <2>1
  <2>4. f - 1 = Len(contracts)
    BY <2>3
  <2> QED  BY <2>1, <2>2, <2>3, <2>4, FilesAssumption
<1>3. first \in Seq(Nat) /\ 1 \in 1..Len(first) /\ first[1] = Manifest
  <2>1. <<Manifest, Architecture>> \in Seq(Nat)
    BY DEF Manifest, Architecture
  <2>2. (IF f = 1 THEN <<>> ELSE <<corrections[f - 1]>>) \in Seq(Nat)
    <3>1. CASE f = 1
      BY <3>1
    <3>2. CASE f # 1
      <4>1. f - 1 \in 1..Len(corrections)
        BY <1>2, <3>2
      <4>2. corrections[f - 1] \in Nat
        BY <1>2, <4>1
      <4> HIDE DEF k, f
      <4> QED  BY <3>2, <4>2
    <3> QED  BY <3>1, <3>2
  <2> DEFINE a == <<Manifest, Architecture>>
             b == IF f = 1 THEN <<>> ELSE <<corrections[f - 1]>>
  <2>3. a \in Seq(Nat) /\ b \in Seq(Nat) /\ Len(a) = 2 /\ a[1] = Manifest /\ first = a \o b
    BY <2>1, <2>2
  <2> HIDE DEF a, b, first
  <2> QED  BY <2>3, ConcatIsSeq
<1>4. t \in Seq(Packets) /\ Len(t) = 4
  <2>1. p1 \in Packets /\ p2 \in Packets /\ p3 \in Packets /\ p4 \in Packets
    <3>1. /\ "file-contract" \in Stages /\ "file-implementation" \in Stages
          /\ "file-review" \in Stages /\ "file-correction" \in Stages
      BY FileStagesKnown
    <3>2. /\ <<k + 1, Manifest, Architecture>> \in Seq(Nat)
          /\ <<k + 1, k + 2, Quality>> \in Seq(Nat)
          /\ <<k + 1, k + 2, k + 3>> \in Seq(Nat)
      BY <1>2 DEF Manifest, Architecture, Quality
    <3> HIDE DEF f, k, first
    <3> QED  BY <1>2, <1>3, <3>1, <3>2, PacketTyped
  <2> HIDE DEF p1, p2, p3, p4
  <2> QED  BY <2>1, FourPlaces
<1>5. /\ t[1] = p1 /\ t[2] = p2 /\ t[3] = p3 /\ t[4] = p4
  <2> HIDE DEF p1, p2, p3, p4
  <2> QED  OBVIOUS
<1>6. /\ p1.dependencies = first /\ p2.dependencies = <<k + 1, Manifest, Architecture>>
      /\ p3.dependencies = <<k + 1, k + 2, Quality>>
      /\ p4.dependencies = <<k + 1, k + 2, k + 3>>
      /\ p1.stage \notin ReviewStages /\ p2.stage \notin ReviewStages
      /\ p3.stage \notin ReviewStages /\ p4.stage \notin ReviewStages
  <2> HIDE DEF first, f, k
  <2> QED  BY PacketParts DEF ReviewStages
<1> HIDE DEF p1, p2, p3, p4, first
<1>7. /\ ReadIn(t, 1, Manifest) /\ ReadIn(t, 2, k + 1) /\ ReadIn(t, 3, k + 2)
      /\ ReadIn(t, 4, k + 3)
  <2>1. ReadIn(t, 1, Manifest)
    BY <1>3, <1>5, <1>6 DEF ReadIn
  <2>2. \A a, b, c : /\ 1 \in 1..Len(<<a, b, c>>) /\ <<a, b, c>>[1] = a
                     /\ 2 \in 1..Len(<<a, b, c>>) /\ <<a, b, c>>[2] = b
                     /\ 3 \in 1..Len(<<a, b, c>>) /\ <<a, b, c>>[3] = c
    OBVIOUS
  <2> HIDE DEF t, k
  <2> QED  BY <1>5, <1>6, <2>1, <2>2 DEF ReadIn
<1> HIDE DEF t
<1>8. /\ contracts' # <<>> /\ phase' # "done" /\ phase' \notin {"release", "finish"}
  <2>1. phase' \in {"files", "integration"}
    BY <1>1
  <2>2. contracts' = Append(contracts, k + 1)
    BY <1>1
  <2>3. Len(contracts') = Len(contracts) + 1 /\ Len(contracts) \in Nat
    <3> HIDE DEF k, f
    <3> QED  BY <1>2, <2>2
  <2>4. Len(contracts') # 0 /\ Len(<<>>) = 0
    BY <2>3
  <2> QED  BY <2>1, <2>4
<1>9. Frontier' = Places(inputs')
  BY <1>8 DEF Frontier
<1>10. Len(inputs') = f /\ inputs'[f] = k + 4 /\ \A i \in 1..(f - 1) : inputs'[i] = corrections[i]
  <2>1. inputs' = Append(corrections, k + 4)
    BY <1>1
  <2> HIDE DEF k, f
  <2> QED  BY <1>2, <2>1
<1>11. k + 4 \in Places(inputs') /\ Places(corrections) \subseteq Places(inputs')
  <2>1. f \in 1..Len(inputs') /\ 1..(f - 1) \subseteq 1..Len(inputs') /\ Len(corrections) = f - 1
    BY <1>2, <1>10
  <2> HIDE DEF f, k
  <2> QED  BY <1>10, <2>1 DEF Places
<1>12. \A i \in Frontier : i \in Places(inputs') \/ ReadIn(t, 1, i)
  BY <1>1, <1>2, <1>7, <1>11 DEF Frontier
<1>13. Flows(packets, Frontier)
  BY DEF FindingsInv
<1>14. Flows(packets \o t, Places(inputs'))
  <2>1. \A m \in 1..4 : \/ k + m \in Places(inputs')
                        \/ \E q \in (m + 1)..4 : ReadIn(t, q, k + m)
    <3>1. \A m \in 1..4 : m = 1 \/ m = 2 \/ m = 3 \/ m = 4
      OBVIOUS
    <3>2. 2 \in (1 + 1)..4 /\ 3 \in (2 + 1)..4 /\ 4 \in (3 + 1)..4
      OBVIOUS
    <3> HIDE DEF k
    <3> QED  BY <1>7, <1>11, <3>1, <3>2
  <2>2. 1 \in 1..4
    OBVIOUS
  <2> QED  BY <1>2, <1>4, <1>12, <1>13, <2>1, <2>2, FlowGrows
<1>15. \A i \in 1..Len(packets') : packets'[i].stage \notin ReviewStages
  <2>1. \A i \in 1..Len(packets) : packets[i].stage \notin ReviewStages
    BY <1>1 DEF FindingsInv, ReviewInv
  <2>2. \A m \in 1..4 : m = 1 \/ m = 2 \/ m = 3 \/ m = 4
    OBVIOUS
  <2>3. \A m \in 1..Len(t) : t[m].stage \notin ReviewStages
    BY <1>4, <1>5, <1>6, <2>2
  <2> QED  BY <1>1, <1>2, <1>4, <2>1, <2>3, NoReviewYet
<1> QED  BY <1>1, <1>8, <1>9, <1>14, <1>15 DEF FindingsInv, ReviewInv

\* After the files, every plan has contracts.
LEMMA HaveContracts ==
  ASSUME PlanInv, phase # "files"
  PROVE  /\ TypeOK /\ Len(contracts) = files /\ Len(corrections) = files
         /\ contracts # <<>> /\ packets \in Seq(Packets) /\ Len(packets) \in Nat
         /\ files \in Nat /\ files >= 1
<1>1. TypeOK /\ Len(contracts) = files /\ Len(corrections) = files
  BY DEF PlanInv, FilesInv
<1>2. files \in 1..MaxFiles /\ packets \in Seq(Packets)
  BY <1>1 DEF TypeOK
<1>3. Len(packets) \in Nat /\ files \in Nat /\ files >= 1 /\ Len(<<>>) = 0
  BY <1>2, FilesAssumption
<1> QED  BY <1>1, <1>2, <1>3

LEMMA LevelFlows ==
  ASSUME PlanInv, FindingsInv, IntegrateLevel \/ CloseLevel \/ ReleaseLevel
  PROVE  FindingsInv'
<1>1. PICK stage \in {"integration-group", "closure-group", "release-group"} : Grouped(stage)
  BY DEF IntegrateLevel, CloseLevel, ReleaseLevel, Summarize
<1>2. /\ phase \in {"integration", "closure", "release"}
      /\ phase' \in {"integration", "closure", "gates", "release", "finish"}
      /\ phase \in {"release", "finish", "done"} <=> phase' \in {"release", "finish", "done"}
      /\ contracts' = contracts
  BY DEF IntegrateLevel, CloseLevel, ReleaseLevel, Summarize
<1>3. TypeOK /\ contracts # <<>> /\ packets \in Seq(Packets)
  BY <1>2, HaveContracts
<1>4. Frontier = Places(inputs) /\ Frontier' = Places(inputs')
  BY <1>2, <1>3 DEF Frontier
<1>5. Flows(packets, Places(inputs)) /\ ReviewInv
  BY <1>4 DEF FindingsInv
<1>6. stage \in Stages /\ stage \notin ReviewStages
  BY DEF Stages, GroupStages, ReviewStages
<1>7. /\ Flows(packets', Places(inputs'))
      /\ \E t \in Seq(Packets) : packets' = packets \o t
                                   /\ \A m \in 1..Len(t) : t[m].stage = stage
  BY <1>1, <1>3, <1>5, <1>6, GroupedFlows
<1>8. PICK t \in Seq(Packets) : packets' = packets \o t
                                  /\ \A m \in 1..Len(t) : t[m].stage \notin ReviewStages
  BY <1>6, <1>7
<1>9. ReviewInv'
  <2>1. CASE phase \in {"release", "finish", "done"}
    <3>1. PICK r \in 1..Len(packets) : ReviewedBy(packets, r)
      BY <1>5, <2>1 DEF ReviewInv
    <3>2. r \in 1..Len(packets') /\ ReviewedBy(packets', r)
      BY <1>3, <1>8, <3>1, ReviewStays
    <3> QED  BY <1>2, <2>1, <3>2 DEF ReviewInv
  <2>2. CASE phase \notin {"release", "finish", "done"}
    <3>1. \A i \in 1..Len(packets') : packets'[i].stage \notin ReviewStages
      BY <1>3, <1>5, <1>8, <2>2, NoReviewYet DEF ReviewInv
    <3> QED  BY <1>2, <2>2, <3>1 DEF ReviewInv
  <2> QED  BY <2>1, <2>2
<1>10. phase' # "files"
  BY <1>2
<1> QED  BY <1>4, <1>7, <1>9, <1>10 DEF FindingsInv

LEMMA IntegrateFlows ==
  ASSUME PlanInv, FindingsInv, Integrate
  PROVE  FindingsInv'
<1> DEFINE shared == <<Packet("integration", 0, inputs)>>
           stage == "integration-correction"
<1>1. /\ phase = "integration" /\ Correct(stage, shared)
      /\ phase' = "closure" /\ contracts' = contracts
  BY DEF Integrate
<1>2. /\ TypeOK /\ Len(contracts) = files /\ Len(corrections) = files
      /\ contracts # <<>> /\ packets \in Seq(Packets)
  BY <1>1, HaveContracts
<1>3. Frontier = Places(inputs) /\ Frontier' = Places(inputs')
  BY <1>1, <1>2 DEF Frontier
<1>4. Flows(packets, Places(inputs)) /\ ReviewInv
  BY <1>3 DEF FindingsInv
<1>5. /\ shared \in Seq(Packets) /\ Len(shared) = 1 /\ shared[1].dependencies = inputs
      /\ shared[1].stage = "integration"
  <2>1. "integration" \in Stages /\ inputs \in Seq(Nat)
    <3>1. inputs \in Seq(1..Len(packets))
      BY <1>2 DEF TypeOK, Ids
    <3> QED  BY <1>2, <3>1 DEF Stages
  <2>2. Packet("integration", 0, inputs) \in Packets
    BY <2>1, NoFile, PacketTyped
  <2>3. shared \in Seq(Packets) /\ Len(shared) = 1 /\ shared[1] = Packet("integration", 0, inputs)
    BY <2>2
  <2> HIDE DEF shared
  <2> QED  BY <2>3, PacketParts
<1>6. stage \in Stages /\ stage \notin ReviewStages
  BY DEF Stages, ReviewStages
<1> HIDE DEF shared, stage
<1>7. \A i \in Places(inputs) : \E m \in 1..Len(shared) : ReadIn(shared, m, i)
  <2>1. \A i \in Places(inputs) : ReadIn(shared, 1, i)
    BY <1>5 DEF Places, ReadIn
  <2> QED  BY <1>5, <2>1
<1>8. \A m \in 1..(Len(shared) - 1) : ReadIn(shared, m + 1, Len(packets) + m)
  BY <1>5
<1>9. /\ Flows(packets', Places(inputs'))
      /\ \E own \in Seq(Packets) :
           /\ packets' = packets \o (shared \o own) /\ Len(own) = files
           /\ \A f \in 1..files : own[f].stage = stage
  <2>1. Len(shared) >= 1
    BY <1>5
  <2>2. /\ Flows(packets', Places(inputs'))
        /\ \E own \in Seq(Packets) :
             /\ packets' = packets \o (shared \o own) /\ Len(own) = files
             /\ \A f \in 1..files : /\ own[f].stage = stage
                                    /\ ReadIn(own, f, Len(packets) + Len(shared))
    BY <1>1, <1>2, <1>4, <1>5, <1>6, <1>7, <1>8, <2>1, CorrectFlows, ZenonT(30)
  <2> QED  BY <2>2
<1>10. PICK own \in Seq(Packets) :
         /\ packets' = packets \o (shared \o own) /\ Len(own) = files
         /\ \A f \in 1..files : own[f].stage = stage
  BY <1>9
<1>11. shared \o own \in Seq(Packets)
        /\ \A m \in 1..Len(shared \o own) : (shared \o own)[m].stage \notin ReviewStages
  <2>1. \A m \in 1..1 : shared[m].stage \notin ReviewStages
    BY <1>5 DEF ReviewStages
  <2> QED  BY <1>5, <1>6, <1>10, <2>1, NoReviewYet, Grown
<1>12. \A i \in 1..Len(packets') : packets'[i].stage \notin ReviewStages
  <2>1. \A i \in 1..Len(packets) : packets[i].stage \notin ReviewStages
    BY <1>1, <1>4 DEF ReviewInv
  <2> QED  BY <1>2, <1>10, <1>11, <2>1, NoReviewYet
<1> QED  BY <1>1, <1>3, <1>9, <1>12 DEF FindingsInv, ReviewInv

LEMMA GatesFlow ==
  ASSUME PlanInv, FindingsInv, Gates
  PROVE  FindingsInv'
<1> DEFINE k == Len(packets)
           p1 == Packet("integration-closure", 0, <<inputs[1], The("integration"), Quality>>)
           p2 == Packet("verification", 0, <<k + 1, Functional, Quality>>)
           p3 == Packet("adversarial-review", 0, <<k + 2, k + 1, Architecture>>)
           shared == <<p1, p2, p3>>
           stage == "final-correction"
           r == k + 3
<1>1. /\ phase = "gates" /\ Correct(stage, shared)
      /\ phase' = "release" /\ contracts' = contracts
  BY DEF Gates
<1>2. /\ TypeOK /\ Len(contracts) = files /\ Len(corrections) = files
      /\ contracts # <<>> /\ packets \in Seq(Packets) /\ k \in Nat
      /\ files \in Nat /\ files >= 1 /\ RowsInv /\ DependenciesPrecede
  <2>1. RowsInv /\ DependenciesPrecede
    BY DEF PlanInv
  <2> HIDE DEF p1, p2, p3
  <2> QED  BY <1>1, <2>1, HaveContracts
<1>3. Len(inputs) = 1 /\ inputs[1] \in 1..k /\ RowsIn(packets) = Closed(files)
      /\ files \in 1..MaxFiles
  <2>1. Len(inputs) = 1 /\ RowsIn(packets) = Closed(files)
    BY <1>1, <1>2 DEF RowsInv
  <2>2. inputs \in Seq(1..k) /\ files \in 1..MaxFiles
    BY <1>2 DEF TypeOK, Ids
  <2> HIDE DEF k
  <2> QED  BY <2>1, <2>2, OnlyPlace
<1>4. The("integration") \in 1..k
  BY <1>2, <1>3, LandmarksHeld, TheStage
<1>5. p1 \in Packets /\ p2 \in Packets /\ p3 \in Packets
  <2>1. /\ <<inputs[1], The("integration"), Quality>> \in Seq(Nat)
        /\ <<k + 1, Functional, Quality>> \in Seq(Nat)
        /\ <<k + 2, k + 1, Architecture>> \in Seq(Nat)
    <3>1. /\ inputs[1] \in Nat /\ The("integration") \in Nat /\ Quality \in Nat
          /\ Functional \in Nat /\ Architecture \in Nat /\ k + 1 \in Nat /\ k + 2 \in Nat
      BY <1>2, <1>3, <1>4 DEF Quality, Functional, Architecture
    <3> HIDE DEF k
    <3> QED  BY <3>1, ThreePlaces
  <2>2. /\ "integration-closure" \in Stages /\ "verification" \in Stages
        /\ "adversarial-review" \in Stages
    BY DEF Stages
  <2> HIDE DEF k
  <2> QED  BY <2>1, <2>2, NoFile, PacketTyped
<1>6. /\ p1.dependencies = <<inputs[1], The("integration"), Quality>>
      /\ p2.dependencies = <<k + 1, Functional, Quality>>
      /\ p3.dependencies = <<k + 2, k + 1, Architecture>>
      /\ p1.stage = "integration-closure" /\ p2.stage = "verification"
      /\ p3.stage = "adversarial-review"
  BY PacketParts
<1>7. Correct(stage, shared)
  BY <1>1
<1> HIDE DEF p1, p2, p3
<1>8. /\ shared \in Seq(Packets) /\ Len(shared) = 3
      /\ shared[1] = p1 /\ shared[2] = p2 /\ shared[3] = p3
  BY <1>5
<1> HIDE DEF shared
<1>9. /\ ReadIn(shared, 1, inputs[1]) /\ ReadIn(shared, 2, k + 1) /\ ReadIn(shared, 3, k + 2)
  <2>1. \A a, b, c : 1 \in 1..Len(<<a, b, c>>) /\ <<a, b, c>>[1] = a
    OBVIOUS
  <2> HIDE DEF k
  <2> QED  BY <1>6, <1>8, <2>1 DEF ReadIn
<1>10. Places(inputs) = {inputs[1]}
  BY <1>3 DEF Places
<1>11. Frontier = {inputs[1]} /\ Frontier' = Places(inputs')
  BY <1>1, <1>2, <1>10 DEF Frontier
<1>12. /\ Flows(packets, {inputs[1]})
       /\ \A i \in 1..k : packets[i].stage \notin ReviewStages
  BY <1>1, <1>11 DEF FindingsInv, ReviewInv
<1>13. stage \in Stages
  BY DEF Stages
<1>14. /\ Flows(packets', Places(inputs'))
       /\ \E own \in Seq(Packets) :
            /\ packets' = packets \o (shared \o own) /\ Len(own) = files
            /\ \A f \in 1..files : /\ own[f].stage = stage
                                   /\ ReadIn(own, f, Len(packets) + Len(shared))
  <2>1. Len(shared) >= 1
    BY <1>8
  <2>2. \A i \in {inputs[1]} : \E m \in 1..Len(shared) : ReadIn(shared, m, i)
    BY <1>8, <1>9
  <2>3. \A m \in 1..(Len(shared) - 1) : ReadIn(shared, m + 1, Len(packets) + m)
    <3>1. \A m \in 1..(3 - 1) : m = 1 \/ m = 2
      OBVIOUS
    <3> QED  BY <1>8, <1>9, <3>1
  <2> DEFINE F == {inputs[1]}
  <2>4. Flows(packets, F)
    BY <1>12
  <2>5. \A i \in F : \E m \in 1..Len(shared) : ReadIn(shared, m, i)
    BY <2>2
  <2> HIDE DEF stage, F
  <2>6. shared \in Seq(Packets)
    BY <1>8
  <2> QED  BY <1>2, <1>7, <1>13, <2>1, <2>3, <2>4, <2>5, <2>6, CorrectFlows, ZenonT(30)
<1>15. PICK own \in Seq(Packets) :
         /\ packets' = packets \o (shared \o own) /\ Len(own) = files
         /\ \A f \in 1..files : own[f].stage = stage /\ ReadIn(own, f, r)
  <2>1. Len(packets) + Len(shared) = r
    BY <1>8
  <2> QED  BY <1>14, <2>1
<1> DEFINE u == packets \o (shared \o own)
<1>16. /\ Len(u) = r + files
       /\ \A i \in 1..k : u[i] = packets[i]
       /\ u[k + 1] = p1 /\ u[k + 2] = p2 /\ u[r] = p3
       /\ \A f \in 1..files : u[r + f] = own[f]
  <2> DEFINE t == shared \o own
  <2>1. /\ t \in Seq(Packets) /\ Len(t) = 3 + files
        /\ t[1] = p1 /\ t[2] = p2 /\ t[3] = p3
        /\ \A f \in 1..files : t[3 + f] = own[f]
    <3>1. /\ t \in Seq(Packets) /\ Len(t) = Len(shared) + Len(own)
          /\ \A j \in 1..Len(shared) : t[j] = shared[j]
          /\ \A m \in 1..Len(own) : t[Len(shared) + m] = own[m]
      BY <1>8, Grown
    <3>2. 1 \in 1..3 /\ 2 \in 1..3 /\ 3 \in 1..3
      OBVIOUS
    <3> HIDE DEF t, k
    <3> QED  BY <1>8, <1>15, <3>1, <3>2
  <2> HIDE DEF t
  <2>2. /\ Len(packets \o t) = Len(packets) + Len(t)
        /\ \A j \in 1..Len(packets) : (packets \o t)[j] = packets[j]
        /\ \A m \in 1..Len(t) : (packets \o t)[Len(packets) + m] = t[m]
    BY <1>2, <2>1, Grown
  <2>3. 1 \in 1..Len(t) /\ 2 \in 1..Len(t) /\ 3 \in 1..Len(t)
        /\ \A f \in 1..files : 3 + f \in 1..Len(t) /\ Len(packets) + (3 + f) = r + f
    BY <1>2, <2>1
  <2>4. u = packets \o t /\ Len(packets) + Len(t) = r + files
    BY <1>2, <2>1 DEF t
  <2> HIDE DEF u
  <2> QED  BY <2>1, <2>2, <2>3, <2>4
<1>17. \A i \in 1..(r + files) : \/ i \in 1..k \/ i = k + 1 \/ i = k + 2 \/ i = r
                                 \/ \E f \in 1..files : i = r + f
  <2>1. ASSUME NEW i \in 1..(r + files), i > r PROVE \E f \in 1..files : i = r + f
    <3>1. i - r \in 1..files /\ i = r + (i - r)
      BY <1>2, <2>1
    <3> QED  BY <3>1
  <2>2. \A i \in 1..(r + files) : ~(i > r) => i \in 1..k \/ i = k + 1 \/ i = k + 2 \/ i = r
    BY <1>2
  <2> HIDE DEF r, k
  <2> QED  BY <2>1, <2>2
<1> HIDE DEF u
<1>18. ReviewedBy(u, r)
  <2>1. u[r].stage = "adversarial-review"
    BY <1>6, <1>16
  <2>2. \A i \in 1..Len(u) : u[i].stage = "adversarial-review" => i = r
    <3>1. /\ \A i \in 1..k : u[i].stage # "adversarial-review"
          /\ u[k + 1].stage # "adversarial-review" /\ u[k + 2].stage # "adversarial-review"
          /\ \A f \in 1..files : u[r + f].stage # "adversarial-review"
      BY <1>6, <1>12, <1>15, <1>16 DEF ReviewStages
    <3> HIDE DEF r, k
    <3> QED  BY <1>16, <1>17, <3>1
  <2>3. ASSUME NEW i \in 1..(r - 1) PROVE \E j \in (i + 1)..r : ReadIn(u, j, i)
    <3>1. CASE i \in 1..k /\ i # inputs[1]
      <4>1. PICK j \in (i + 1)..k : ReadIn(packets, j, i)
        BY <1>12, <3>1 DEF Flows
      <4>2. j \in 1..k /\ j \in (i + 1)..r
        BY <1>2, <3>1
      <4> QED  BY <1>16, <4>1, <4>2 DEF ReadIn
    <3>2. CASE i = inputs[1]
      <4>1. k + 1 \in (i + 1)..r
        BY <1>2, <1>3, <3>2
      <4>2. ReadIn(u, k + 1, i)
        BY <1>8, <1>9, <1>16, <3>2 DEF ReadIn
      <4> QED  BY <4>1, <4>2
    <3>3. CASE i = k + 1
      <4>1. k + 2 \in (i + 1)..r
        BY <1>2, <3>3
      <4>2. ReadIn(u, k + 2, i)
        BY <1>8, <1>9, <1>16, <3>3 DEF ReadIn
      <4> QED  BY <4>1, <4>2
    <3>4. CASE i = k + 2
      <4>1. r \in (i + 1)..r
        BY <1>2, <3>4
      <4>2. ReadIn(u, r, i)
        BY <1>8, <1>9, <1>16, <3>4 DEF ReadIn
      <4> QED  BY <4>1, <4>2
    <3>5. i \in 1..k \/ i = k + 1 \/ i = k + 2
      BY <1>2
    <3> QED  BY <3>1, <3>2, <3>3, <3>4, <3>5
  <2>4. \A i \in 1..Len(u) : u[i].stage = "final-correction" => ReadIn(u, i, r)
    <3>1. \A f \in 1..files : ReadIn(u, r + f, r)
      <4> HIDE DEF r
      <4> QED  BY <1>15, <1>16 DEF ReadIn
    <3>2. /\ \A i \in 1..k : u[i].stage # "final-correction"
          /\ u[k + 1].stage # "final-correction" /\ u[k + 2].stage # "final-correction"
          /\ u[r].stage # "final-correction"
      BY <1>6, <1>12, <1>16 DEF ReviewStages
    <3> HIDE DEF r, k
    <3> QED  BY <1>16, <1>17, <3>1, <3>2
  <2> QED  BY <2>1, <2>2, <2>3, <2>4 DEF ReviewedBy
<1>19. r \in 1..Len(u)
  BY <1>2, <1>16
<1>20. packets' = u
  BY <1>15 DEF u
<1>21. ReviewInv'
  BY <1>1, <1>18, <1>19, <1>20 DEF ReviewInv
<1> QED  BY <1>1, <1>11, <1>14, <1>21 DEF FindingsInv

LEMMA FinishFlows ==
  ASSUME PlanInv, FindingsInv, Finish
  PROVE  FindingsInv'
<1> DEFINE k == Len(packets)
           p1 == Packet("release-verification", 0,
                   <<inputs[1], The("verification"), The("adversarial-review")>>)
           p2 == Packet("finalization", 0, <<k + 1, The("integration-closure"), inputs[1]>>)
           t == <<p1, p2>>
<1>1. /\ phase = "finish" /\ packets' = packets \o t /\ phase' = "done"
  BY DEF Finish
<1>2. /\ TypeOK /\ contracts # <<>> /\ packets \in Seq(Packets) /\ k \in Nat
      /\ RowsInv /\ DependenciesPrecede
  <2>1. RowsInv /\ DependenciesPrecede
    BY DEF PlanInv
  <2> HIDE DEF p1, p2
  <2> QED  BY <1>1, <2>1, HaveContracts
<1>3. Len(inputs) = 1 /\ inputs[1] \in 1..k /\ RowsIn(packets) = Shipped(files)
      /\ files \in 1..MaxFiles
  <2>1. Len(inputs) = 1 /\ RowsIn(packets) = Shipped(files)
    BY <1>1, <1>2 DEF RowsInv
  <2>2. inputs \in Seq(1..k) /\ files \in 1..MaxFiles
    BY <1>2 DEF TypeOK, Ids
  <2> HIDE DEF k
  <2> QED  BY <2>1, <2>2, OnlyPlace
<1>4. /\ The("verification") \in 1..k /\ The("adversarial-review") \in 1..k
      /\ The("integration-closure") \in 1..k
  BY <1>2, <1>3, LandmarksHeld, TheStage
<1>5. p1 \in Packets /\ p2 \in Packets
  <2>1. /\ <<inputs[1], The("verification"), The("adversarial-review")>> \in Seq(Nat)
        /\ <<k + 1, The("integration-closure"), inputs[1]>> \in Seq(Nat)
    <3>1. /\ inputs[1] \in Nat /\ The("verification") \in Nat /\ k + 1 \in Nat
          /\ The("adversarial-review") \in Nat /\ The("integration-closure") \in Nat
      BY <1>2, <1>3, <1>4
    <3> HIDE DEF k
    <3> QED  BY <3>1, ThreePlaces
  <2>2. "release-verification" \in Stages /\ "finalization" \in Stages
    BY DEF Stages
  <2> HIDE DEF k
  <2> QED  BY <2>1, <2>2, NoFile, PacketTyped
<1>6. /\ p1.dependencies = <<inputs[1], The("verification"), The("adversarial-review")>>
      /\ p2.dependencies = <<k + 1, The("integration-closure"), inputs[1]>>
      /\ p1.stage \notin ReviewStages /\ p2.stage \notin ReviewStages
  BY PacketParts DEF ReviewStages
<1> HIDE DEF p1, p2
<1>7. t \in Seq(Packets) /\ Len(t) = 2 /\ t[1] = p1 /\ t[2] = p2
  BY <1>5
<1> HIDE DEF t
<1>8. ReadIn(t, 1, inputs[1]) /\ ReadIn(t, 2, k + 1)
  <2>1. \A a, b, c : 1 \in 1..Len(<<a, b, c>>) /\ <<a, b, c>>[1] = a
    OBVIOUS
  <2> HIDE DEF k
  <2> QED  BY <1>6, <1>7, <2>1 DEF ReadIn
<1>9. Len(packets') = k + 2
  <2>1. Len(packets \o t) = Len(packets) + Len(t)
    BY <1>2, <1>7, Grown
  <2> QED  BY <1>1, <1>7, <2>1
<1>10. Frontier = {inputs[1]} /\ Frontier' = {k + 2}
  <2>1. Places(inputs) = {inputs[1]}
    BY <1>3 DEF Places
  <2> QED  BY <1>1, <1>2, <1>9, <2>1 DEF Frontier
<1>11. Flows(packets, {inputs[1]}) /\ ReviewInv
  BY <1>10 DEF FindingsInv
<1>12. Flows(packets \o t, {k + 2})
  <2>1. \A m \in 1..2 : m = 1 \/ m = 2
    OBVIOUS
  <2>2. 1 \in 1..2 /\ 2 \in (1 + 1)..2
    OBVIOUS
  <2>3. \A i \in {inputs[1]} : i \in 1..Len(packets) =>
          i \in {k + 2} \/ \E m \in 1..Len(t) : ReadIn(t, m, i)
    BY <1>7, <1>8, <2>2
  <2>4. \A m \in 1..Len(t) : \/ Len(packets) + m \in {k + 2}
                             \/ \E q \in (m + 1)..Len(t) : ReadIn(t, q, Len(packets) + m)
    BY <1>7, <1>8, <2>1, <2>2
  <2> HIDE DEF k
  <2> QED  BY <1>2, <1>7, <1>11, <2>3, <2>4, FlowGrows
<1>13. PICK r \in 1..Len(packets) : ReviewedBy(packets, r)
  BY <1>1, <1>11 DEF ReviewInv
<1>14. \A m \in 1..Len(t) : t[m].stage \notin ReviewStages
  <2>1. \A m \in 1..2 : m = 1 \/ m = 2
    OBVIOUS
  <2> QED  BY <1>6, <1>7, <2>1
<1>15. r \in 1..Len(packets') /\ ReviewedBy(packets', r)
  BY <1>1, <1>2, <1>7, <1>13, <1>14, ReviewStays
<1> QED  BY <1>1, <1>10, <1>12, <1>15 DEF FindingsInv, ReviewInv

LEMMA FindingsStay == PlanInv /\ FindingsInv /\ [Next]_vars => FindingsInv'
<1> SUFFICES ASSUME PlanInv, FindingsInv, [Next]_vars PROVE FindingsInv'
  OBVIOUS
<1>1. CASE FileFlow
  BY <1>1, FileFlowFlows
<1>2. CASE IntegrateLevel \/ CloseLevel \/ ReleaseLevel
  BY <1>2, LevelFlows
<1>3. CASE Integrate
  BY <1>3, IntegrateFlows
<1>4. CASE Gates
  BY <1>4, GatesFlow
<1>5. CASE Finish
  BY <1>5, FinishFlows
<1>6. CASE UNCHANGED vars
  <2>1. UNCHANGED <<packets, phase, contracts, corrections, inputs>>
    BY <1>6 DEF vars
  <2> QED  BY <2>1 DEF FindingsInv, Frontier, ReviewInv
<1> QED  BY <1>1, <1>2, <1>3, <1>4, <1>5, <1>6 DEF Next

\* What is not read yet of a plan is exactly what its reductions still have to
\* combine, and the hostile review reads, through others, all that came before it.
THEOREM FindingsInvariant == Spec => []FindingsInv
BY PlanInvariant, FindingsStart, FindingsStay, PTL DEF Spec

LEMMA FindingsAreTaken == PlanInv /\ FindingsInv => FindingsAreRead
<1> SUFFICES ASSUME PlanInv, FindingsInv, phase = "done" PROVE FindingsAreRead
  BY DEF FindingsAreRead
<1>1. PICK r \in 1..Len(packets) : ReviewedBy(packets, r)
  BY DEF FindingsInv, ReviewInv
<1>2. The("adversarial-review") = r
  BY <1>1 DEF The, Ids, ReviewedBy
<1>3. \A j, i : Reads(j, i) <=> ReadIn(packets, j, i)
  BY DEF Reads, ReadIn
<1>4. \A i \in 1..(r - 1) : \E j \in (i + 1)..r : Reads(j, i)
  BY <1>1, <1>3 DEF ReviewedBy
<1>5. \A i \in Ids : packets[i].stage = "final-correction" => Reads(i, r)
  BY <1>1, <1>3 DEF ReviewedBy, Ids
<1>6. \A i \in 1..(Len(packets) - 1) : \E j \in (i + 1)..Len(packets) : Reads(j, i)
  <2>1. Flows(packets, {Len(packets)})
    BY DEF FindingsInv, Frontier
  <2>2. Len(packets) \in Nat
    BY DEF PlanInv, TypeOK
  <2>3. \A i \in 1..(Len(packets) - 1) : i \in 1..Len(packets) /\ i \notin {Len(packets)}
    BY <2>2
  <2> QED  BY <1>3, <2>1, <2>3 DEF Flows
<1> QED  BY <1>2, <1>4, <1>5, <1>6 DEF FindingsAreRead

\* Whatever the number of files, what is found up to the hostile review flows into
\* it, every final correction reads it, and what comes later flows into the
\* finalization (expand_files, prompt).
THEOREM NoFindingIsLost == Spec => []FindingsAreRead
BY PlanInvariant, FindingsInvariant, FindingsAreTaken, PTL

(***************************************************************************)
(* Prompts carry every dependency: a packet reads three others at most.    *)
(***************************************************************************)
\* Bytes of context once an output of the stage follows `used` bytes.
Carried(used, stage) ==
  LET room == IF used < MaxContext THEN MaxContext - used ELSE 0
      take == IF room < MaxPerDependency THEN room ELSE MaxPerDependency
      output == OutputLimit(stage)
  IN  used + (IF output <= take THEN output ELSE take + Marker)

\* h is the context of the dependencies deps of a prompt, up to each of the
\* first n.
Carries(h, deps, n) ==
  /\ h \in [0..n -> Nat]
  /\ \A k \in 0..n : h[k] = IF k = 0 THEN 0 ELSE Carried(h[k - 1], packets[deps[k]].stage)

LEMMA CarriedBounds ==
  ASSUME NEW used \in Nat, NEW stage
  PROVE  /\ Carried(used, stage) \in Nat
         /\ Carried(used, stage) <= used + MaxPerDependency + Marker
         /\ \/ Carried(used, stage) <= MaxContext + Marker
            \/ Carried(used, stage) <= used + Marker
<1>1. OutputLimit(stage) \in Nat
  <2>1. 32 * KiB \in Nat /\ 8 * KiB \in Nat /\ 12 * KiB \in Nat
    BY DEF KiB
  <2> QED  BY <2>1 DEF OutputLimit
<1> DEFINE output == OutputLimit(stage)
           room == IF used < MaxContext THEN MaxContext - used ELSE 0
           take == IF room < MaxPerDependency THEN room ELSE MaxPerDependency
<1>2. /\ MaxContext \in Nat /\ MaxPerDependency \in Nat /\ Marker \in Nat
  BY DEF MaxContext, MaxPerDependency, Marker, KiB
<1>3. Carried(used, stage) = used + (IF output <= take THEN output ELSE take + Marker)
  BY DEF Carried
<1>4. output \in Nat
  BY <1>1
<1> HIDE DEF output
<1> QED  BY <1>2, <1>3, <1>4

LEMMA ContextExists ==
  ASSUME NEW deps, NEW n \in Nat
  PROVE  \E h : Carries(h, deps, n)
<1> DEFINE T == {k \in Nat : \E h : Carries(h, deps, k)}
<1>1. 0 \in T
  <2> DEFINE h == [k \in 0..0 |-> 0]
  <2>1. Carries(h, deps, 0)
    BY DEF Carries
  <2> HIDE DEF h
  <2> QED  BY <2>1
<1>2. ASSUME NEW k \in 0..n, k \in T PROVE k + 1 \in T
  <2>1. PICK h : Carries(h, deps, k)
    BY <1>2
  <2> DEFINE last == Carried(h[k], packets[deps[k + 1]].stage)
             g == [j \in 0..(k + 1) |-> IF j <= k THEN h[j] ELSE last]
  <2>2. h \in [0..k -> Nat] /\ last \in Nat
    <3>1. h \in [0..k -> Nat]
      BY <2>1 DEF Carries
    <3>2. h[k] \in Nat
      BY <3>1
    <3> QED  BY <3>1, <3>2, CarriedBounds
  <2>3. ASSUME NEW j \in 0..(k + 1)
        PROVE  g[j] = IF j = 0 THEN 0 ELSE Carried(g[j - 1], packets[deps[j]].stage)
    <3>1. CASE j <= k
      <4>1. j \in 0..k /\ g[j] = h[j] /\ (j # 0 => g[j - 1] = h[j - 1])
        BY <3>1
      <4>2. h[j] = IF j = 0 THEN 0 ELSE Carried(h[j - 1], packets[deps[j]].stage)
        BY <2>1, <4>1 DEF Carries
      <4> HIDE DEF g
      <4> QED  BY <4>1, <4>2
    <3>2. CASE j = k + 1
      <4>1. g[j] = last /\ g[j - 1] = h[k] /\ j # 0
        BY <3>2
      <4> HIDE DEF g
      <4> QED  BY <3>2, <4>1
    <3> QED  BY <3>1, <3>2
  <2>4. g \in [0..(k + 1) -> Nat]
    <3> HIDE DEF last
    <3> QED  BY <2>2
  <2> HIDE DEF g
  <2>5. Carries(g, deps, k + 1)
    BY <2>3, <2>4 DEF Carries
  <2> QED  BY <2>5
<1>3. \A k \in 0..n : k \in T
  <2>1. \A k \in 0..n : k < n /\ k \in T => k + 1 \in T
    BY <1>2
  <2> HIDE DEF T
  <2> QED  BY <1>1, <2>1, UpTo
<1> QED  BY <1>3

LEMMA ContextIsCarried ==
  ASSUME NEW i, NEW n \in Nat
  PROVE  \E h : /\ Carries(h, packets[i].dependencies, n)
                /\ ContextBefore(i, n) = h[n]
<1> DEFINE deps == packets[i].dependencies
           c == CHOOSE h : h = [k \in 0..n |->
                  IF k = 0 THEN 0 ELSE Carried(h[k - 1], packets[deps[k]].stage)]
<1>1. ContextBefore(i, n) = c[n]
  BY DEF ContextBefore, Carried
<1>2. c = [k \in 0..n |-> IF k = 0 THEN 0 ELSE Carried(c[k - 1], packets[deps[k]].stage)]
  <2>1. PICK g : Carries(g, deps, n)
    BY ContextExists
  <2>2. g = [k \in 0..n |-> g[k]]
    BY <2>1 DEF Carries
  <2>3. g = [k \in 0..n |-> IF k = 0 THEN 0 ELSE Carried(g[k - 1], packets[deps[k]].stage)]
    BY <2>1, <2>2 DEF Carries
  <2>4. \E h : h = [k \in 0..n |->
          IF k = 0 THEN 0 ELSE Carried(h[k - 1], packets[deps[k]].stage)]
    BY <2>3
  <2> QED  BY <2>4
<1> HIDE DEF c
<1>3. \A k \in 0..n : c[k] = IF k = 0 THEN 0 ELSE Carried(c[k - 1], packets[deps[k]].stage)
  BY <1>2
<1>4. \A k \in 0..n : c[k] \in Nat
  <2> DEFINE T == {k \in Nat : k <= n => c[k] \in Nat}
  <2>1. 0 \in T
    BY <1>3
  <2>2. ASSUME NEW k \in 0..n, k < n, k \in T PROVE k + 1 \in T
    <3>1. k + 1 \in 0..n /\ k + 1 # 0 /\ k + 1 - 1 = k /\ c[k] \in Nat
      BY <2>2
    <3>2. c[k + 1] = Carried(c[k], packets[deps[k + 1]].stage)
      BY <1>3, <3>1
    <3> HIDE DEF deps
    <3> QED  BY <3>1, <3>2, CarriedBounds
  <2>3. \A k \in 0..n : k < n /\ k \in T => k + 1 \in T
    BY <2>2
  <2>4. \A k \in 0..n : k \in T
    <3> HIDE DEF T
    <3> QED  BY <2>1, <2>3, UpTo
  <2> QED  BY <2>4
<1>5. c \in [0..n -> Nat]
  <2>1. c = [k \in 0..n |-> c[k]]
    BY <1>2
  <2> QED  BY <1>4, <2>1
<1>6. Carries(c, deps, n)
  BY <1>3, <1>5 DEF Carries
<1> QED  BY <1>1, <1>6

\* No output is longer than its share, and the budget is passed by markers only.
LEMMA ContextBounds ==
  ASSUME NEW i, NEW n \in Nat
  PROVE  /\ ContextBefore(i, n) <= n * (MaxPerDependency + Marker)
         /\ ContextBefore(i, n) <= MaxContext + n * Marker
<1> DEFINE deps == packets[i].dependencies
           T == {k \in Nat : \A h : Carries(h, deps, n) /\ k <= n =>
                   h[k] <= k * (MaxPerDependency + Marker) /\ h[k] <= MaxContext + k * Marker}
<1>1. /\ MaxContext = 32768 /\ MaxPerDependency = 12288 /\ Marker = 20
  BY DEF MaxContext, MaxPerDependency, Marker, KiB
<1>2. 0 \in T
  BY <1>1 DEF Carries
<1>3. ASSUME NEW k \in 0..n, k < n, k \in T PROVE k + 1 \in T
  <2> SUFFICES ASSUME NEW h, Carries(h, deps, n)
               PROVE  /\ h[k + 1] <= (k + 1) * (MaxPerDependency + Marker)
                      /\ h[k + 1] <= MaxContext + (k + 1) * Marker
    OBVIOUS
  <2>1. h[k] <= k * (MaxPerDependency + Marker) /\ h[k] <= MaxContext + k * Marker
    BY <1>3
  <2>2. /\ h[k + 1] = Carried(h[k], packets[deps[k + 1]].stage) /\ h[k] \in Nat
    <3>1. k + 1 \in 0..n /\ k + 1 # 0 /\ k + 1 - 1 = k
      BY <1>3
    <3>2. h \in [0..n -> Nat]
      BY DEF Carries
    <3>3. h[k + 1] = Carried(h[k], packets[deps[k + 1]].stage)
      BY <3>1 DEF Carries
    <3> QED  BY <3>2, <3>3
  <2> DEFINE new == Carried(h[k], packets[deps[k + 1]].stage)
  <2>3. /\ new \in Nat /\ new <= h[k] + 12288 + 20
        /\ new <= 32768 + 20 \/ new <= h[k] + 20
    BY <1>1, <2>2, CarriedBounds
  <2>4. h[k + 1] = new
    BY <2>2
  <2> HIDE DEF new
  <2>5. h[k] <= k * 12308 /\ h[k] <= 32768 + k * 20
    BY <1>1, <2>1
  <2>6. new <= (k + 1) * 12308 /\ new <= 32768 + (k + 1) * 20
    BY <2>2, <2>3, <2>5
  <2> QED  BY <1>1, <2>4, <2>6
<1>4. n \in T
  <2>1. \A k \in 0..n : k < n /\ k \in T => k + 1 \in T
    BY <1>3
  <2>2. n \in 0..n
    OBVIOUS
  <2> HIDE DEF T
  <2> QED  BY <1>2, <2>1, <2>2, UpTo
<1>5. PICK h : Carries(h, deps, n) /\ ContextBefore(i, n) = h[n]
  BY ContextIsCarried
<1> QED  BY <1>4, <1>5

\* A packet reads three packets at most.
Short(s) == \A i \in 1..Len(s) : Len(s[i].dependencies) <= 3
ShortInv == Short(packets)

LEMMA ShortGrows ==
  ASSUME NEW s \in Seq(Packets), NEW t \in Seq(Packets), Short(s), Short(t)
  PROVE  Short(s \o t)
BY Grown DEF Short

LEMMA ThreeAtMost ==
  \A a, b, c : Len(<<a, b, c>>) = 3 /\ Len(<<a, b>>) = 2 /\ Len(<<a>>) = 1 /\ Len(<<>>) = 0
OBVIOUS

LEMMA ChunksShort ==
  ASSUME NEW S, NEW s \in Seq(S), NEW g \in 1..Thirds(Len(s))
  PROVE  Len(Chunks(s)[g]) <= 3
<1> DEFINE n == Len(s)
           last == IF 3 * g < n THEN 3 * g ELSE n
<1>1. n \in Nat /\ g \in Nat /\ 3 * g - 2 \in 1..n
  BY DEF Thirds
<1>2. Chunks(s)[g] = SubSeq(s, 3 * g - 2, last)
  BY DEF Chunks
<1>3. last \in 1..n /\ last >= 3 * g - 2 /\ last - (3 * g - 2) + 1 <= 3
  <2> HIDE DEF n
  <2> QED  BY <1>1
<1> HIDE DEF last
<1>4. \A j \in (3 * g - 2)..last : s[j] \in S
  BY <1>1, <1>3
<1>5. Len(SubSeq(s, 3 * g - 2, last)) = last - (3 * g - 2) + 1
  BY <1>1, <1>3, <1>4
<1> QED  BY <1>2, <1>3, <1>5

LEMMA ShortStarts == Init => ShortInv
<1> SUFFICES ASSUME Init PROVE ShortInv
  OBVIOUS
<1>1. packets = [i \in 1..5 |-> Packet(BaseStages[i], 0, IF i = 1 THEN <<>> ELSE <<i - 1>>)]
  BY DEF Init
<1>2. Len(packets) = 5
  BY <1>1
<1>3. \A i \in 1..5 : packets[i].dependencies = IF i = 1 THEN <<>> ELSE <<i - 1>>
  BY <1>1, PacketParts
<1>4. ASSUME NEW i \in 1..5 PROVE Len(packets[i].dependencies) <= 3
  <2>1. CASE i = 1
    BY <1>3, <2>1, ThreeAtMost
  <2>2. CASE i # 1
    <3>1. packets[i].dependencies = <<i - 1>>
      BY <1>3, <2>2
    <3>2. Len(<<i - 1>>) = 1
      BY ThreeAtMost
    <3> QED  BY <3>1, <3>2
  <2> QED  BY <2>1, <2>2
<1> QED  BY <1>2, <1>4 DEF ShortInv, Short

LEMMA LevelShort ==
  ASSUME PlanInv, ShortInv, NEW stage \in Stages, Grouped(stage)
  PROVE  ShortInv'
<1> DEFINE k == Len(packets)
           n == Thirds(Len(inputs))
           groups == Chunks(inputs)
           t == [g \in 1..n |-> Packet(stage, 0, groups[g])]
<1>1. /\ k \in Nat /\ Len(inputs) \in Nat /\ n \in Nat
      /\ inputs \in Seq(1..k) /\ packets \in Seq(Packets)
  <2>1. inputs \in Seq(1..Len(packets)) /\ packets \in Seq(Packets)
    BY DEF PlanInv, TypeOK, Ids
  <2>2. k \in Nat /\ Len(inputs) \in Nat
    BY <2>1
  <2> QED  BY <2>1, <2>2, ThirdsOf
<1>2. Len(groups) = n /\ \A g \in 1..n : groups[g] \in Seq(1..k)
  BY <1>1, ChunksOf
<1>3. packets' = packets \o t
  BY <1>2 DEF Grouped
<1>4. \A g \in 1..n : Packet(stage, 0, groups[g]) \in Packets
  <2>1. \A d \in Seq(1..k) : d \in Seq(Nat)
    BY <1>1
  <2> QED  BY <1>2, <2>1, NoFile, PacketTyped
<1>5. t \in Seq(Packets) /\ Len(t) = n
  BY <1>1, <1>4
<1>6. \A g \in 1..n : t[g].dependencies = groups[g]
  BY PacketParts
<1>7. \A g \in 1..n : Len(groups[g]) <= 3
  BY <1>1, ChunksShort
<1> HIDE DEF t, groups, n
<1>8. Short(t)
  BY <1>5, <1>6, <1>7 DEF Short
<1> QED  BY <1>1, <1>3, <1>5, <1>8, ShortGrows DEF ShortInv

LEMMA CorrectShort ==
  ASSUME PlanInv, phase # "files", ShortInv, NEW stage \in Stages,
         NEW shared \in Seq(Packets), Short(shared), Correct(stage, shared)
  PROVE  ShortInv'
<1> DEFINE k == Len(packets) + Len(shared)
           own == [f \in 1..files |-> Packet(stage, f, <<corrections[f], contracts[f], k>>)]
<1>1. packets' = packets \o shared \o own
  BY DEF Correct
<1>2. own \in Seq(Packets) /\ Len(own) = files /\ packets \in Seq(Packets)
  <2>1. /\ packets \in Seq(Packets) /\ files \in 1..MaxFiles /\ files \in Nat
        /\ contracts \in Seq(1..Len(packets)) /\ corrections \in Seq(1..Len(packets))
        /\ Len(contracts) = files /\ Len(corrections) = files /\ Len(packets) \in Nat
    BY HaveContracts DEF TypeOK, Ids
  <2>2. \A f \in 1..files : corrections[f] \in Nat /\ contracts[f] \in Nat /\ f \in 0..MaxFiles
    BY <2>1, FilesAssumption
  <2>3. k \in Nat
    BY <2>1
  <2>4. \A f \in 1..files : <<corrections[f], contracts[f], k>> \in Seq(Nat)
    <3> HIDE DEF k
    <3> QED  BY <2>2, <2>3, ThreePlaces
  <2>5. \A f \in 1..files : Packet(stage, f, <<corrections[f], contracts[f], k>>) \in Packets
    <3> HIDE DEF k
    <3> QED  BY <2>2, <2>4, PacketTyped
  <2> QED  BY <2>1, <2>5
<1>3. \A f \in 1..files : own[f].dependencies = <<corrections[f], contracts[f], k>>
  BY PacketParts
<1>4. Short(own)
  <2> HIDE DEF own, k
  <2>1. ASSUME NEW f \in 1..files PROVE Len(own[f].dependencies) <= 3
    <3>1. Len(<<corrections[f], contracts[f], k>>) = 3
      BY ThreeAtMost
    <3>2. Len(own[f].dependencies) = 3
      BY <1>3, <3>1, Zenon
    <3> QED  BY <3>2
  <2> QED  BY <1>2, <2>1 DEF Short
<1> HIDE DEF own
<1>5. packets \o shared \in Seq(Packets) /\ Short(packets \o shared)
  BY <1>2, ShortGrows, Grown DEF ShortInv
<1> QED  BY <1>1, <1>2, <1>4, <1>5, ShortGrows DEF ShortInv

\* What the other steps push reads three packets at most.
LEMMA FileFlowShort ==
  ASSUME PlanInv, ShortInv, FileFlow
  PROVE  ShortInv'
<1> DEFINE f == Len(contracts) + 1
           k == Len(packets)
           first == <<Manifest, Architecture>>
                      \o (IF f = 1 THEN <<>> ELSE <<corrections[f - 1]>>)
           p1 == Packet("file-contract", f, first)
           p2 == Packet("file-implementation", f, <<k + 1, Manifest, Architecture>>)
           p3 == Packet("file-review", f, <<k + 1, k + 2, Quality>>)
           p4 == Packet("file-correction", f, <<k + 1, k + 2, k + 3>>)
           t == <<p1, p2, p3, p4>>
<1>1. packets' = packets \o t
  BY DEF FileFlow
<1>2. packets \in Seq(Packets) /\ k \in Nat
  <2>1. packets \in Seq(Packets)
    BY DEF PlanInv, TypeOK
  <2> QED  BY <2>1
<1>3. Len(t) = 4 /\ t[1] = p1 /\ t[2] = p2 /\ t[3] = p3 /\ t[4] = p4
  <2> HIDE DEF p1, p2, p3, p4
  <2> QED  OBVIOUS
<1>4. Len(first) <= 3
  <2>1. CASE f = 1
    <3>1. first = <<Manifest, Architecture>> \o <<>>
      BY <2>1
    <3>2. Len(<<Manifest, Architecture>> \o <<>>) = 2
      OBVIOUS
    <3> QED  BY <3>1, <3>2
  <2>2. CASE f # 1
    <3> DEFINE c == corrections[f - 1]
    <3>1. first = <<Manifest, Architecture>> \o <<c>>
      BY <2>2
    <3> HIDE DEF c, first
    <3>2. Len(<<Manifest, Architecture>> \o <<c>>) = 3
      OBVIOUS
    <3> QED  BY <3>1, <3>2
  <2> QED  BY <2>1, <2>2
<1>5. /\ p1.dependencies = first /\ p2.dependencies = <<k + 1, Manifest, Architecture>>
      /\ p3.dependencies = <<k + 1, k + 2, Quality>>
      /\ p4.dependencies = <<k + 1, k + 2, k + 3>>
  <2> HIDE DEF first, f, k
  <2> QED  BY PacketParts
<1>7. t \in Seq(Packets)
  <2>1. TypeOK /\ Len(contracts) < files /\ Len(corrections) = Len(contracts)
    BY DEF PlanInv, FilesInv, RowsInv, FileFlow
  <2>2. /\ files \in 1..MaxFiles /\ contracts \in Seq(1..k) /\ corrections \in Seq(1..k)
    BY <2>1 DEF TypeOK, Ids
  <2>3. Len(contracts) \in Nat
    BY <2>2
  <2>4. f \in 0..MaxFiles /\ f \in Nat
    BY <2>1, <2>2, <2>3, FilesAssumption
  <2>5. first \in Seq(Nat)
    <3>1. CASE f = 1
      <4>1. first = <<Manifest, Architecture>> \o <<>>
        BY <3>1
      <4> HIDE DEF first
      <4> QED  BY <4>1 DEF Manifest, Architecture
    <3>2. CASE f # 1
      <4> DEFINE c == corrections[f - 1]
      <4>1. first = <<Manifest, Architecture>> \o <<c>>
        BY <3>2
      <4>2. c \in Nat
        <5>1. f - 1 \in 1..Len(corrections)
          BY <2>1, <2>3, <3>2
        <5> QED  BY <1>2, <2>2, <5>1
      <4> HIDE DEF c, first
      <4> QED  BY <4>1, <4>2 DEF Manifest, Architecture
    <3> QED  BY <3>1, <3>2
  <2>6. /\ "file-contract" \in Stages /\ "file-implementation" \in Stages
        /\ "file-review" \in Stages /\ "file-correction" \in Stages
    BY FileStagesKnown
  <2>7. /\ <<k + 1, Manifest, Architecture>> \in Seq(Nat)
        /\ <<k + 1, k + 2, Quality>> \in Seq(Nat)
        /\ <<k + 1, k + 2, k + 3>> \in Seq(Nat)
    BY <1>2 DEF Manifest, Architecture, Quality
  <2>8. p1 \in Packets /\ p2 \in Packets /\ p3 \in Packets /\ p4 \in Packets
    <3> HIDE DEF f, k, first
    <3> QED  BY <2>4, <2>5, <2>6, <2>7, PacketTyped
  <2> HIDE DEF p1, p2, p3, p4
  <2> QED  BY <2>8, FourPlaces
<1> HIDE DEF first, p1, p2, p3, p4
<1>6. \A m \in 1..4 : Len(t[m].dependencies) <= 3
  <2>1. \A m \in 1..4 : m = 1 \/ m = 2 \/ m = 3 \/ m = 4
    OBVIOUS
  <2>2. /\ Len(p2.dependencies) = 3 /\ Len(p3.dependencies) = 3 /\ Len(p4.dependencies) = 3
    BY <1>5, ThreeAtMost
  <2>3. 3 <= 3
    OBVIOUS
  <2>4. /\ Len(t[1].dependencies) <= 3 /\ Len(t[2].dependencies) <= 3
        /\ Len(t[3].dependencies) <= 3 /\ Len(t[4].dependencies) <= 3
    BY <1>3, <1>4, <1>5, <2>2, <2>3, Zenon
  <2> HIDE DEF t
  <2> QED  BY <2>1, <2>4, Zenon
<1> HIDE DEF t
<1>8. Short(t)
  BY <1>3, <1>6 DEF Short
<1> QED  BY <1>1, <1>2, <1>7, <1>8, ShortGrows DEF ShortInv

LEMMA ThreeShort ==
  ASSUME NEW s \in Seq(Packets), Len(s) = 3,
         NEW a, NEW b, NEW c, NEW d, NEW e, NEW f, NEW g, NEW h, NEW i,
         s[1].dependencies = <<a, b, c>>, s[2].dependencies = <<d, e, f>>,
         s[3].dependencies = <<g, h, i>>
  PROVE  Short(s)
<1>1. /\ Len(s[1].dependencies) = 3 /\ Len(s[2].dependencies) = 3
      /\ Len(s[3].dependencies) = 3
  BY ThreeAtMost, Zenon
<1>2. \A m \in 1..3 : m = 1 \/ m = 2 \/ m = 3
  OBVIOUS
<1>3. \A m \in 1..3 : Len(s[m].dependencies) = 3
  BY <1>1, <1>2, Zenon
<1>4. 3 <= 3
  OBVIOUS
<1>5. \A m \in 1..3 : Len(s[m].dependencies) <= 3
  BY <1>3, <1>4, Zenon
<1> QED  BY <1>5 DEF Short

LEMMA IntegrateShort ==
  ASSUME PlanInv, ShortInv, Integrate
  PROVE  ShortInv'
<1> DEFINE p1 == Packet("integration", 0, inputs)
           shared == <<p1>>
           stage == "integration-correction"
<1>1. phase = "integration" /\ ~(Len(inputs) > 3) /\ Correct(stage, shared)
  BY DEF Integrate, TooMany
<1>2. inputs \in Seq(Nat) /\ Len(inputs) <= 3
  <2>1. inputs \in Seq(1..Len(packets)) /\ Len(packets) \in Nat
    BY <1>1, HaveContracts DEF TypeOK, Ids
  <2> QED  BY <1>1, <2>1
<1>3. p1 \in Packets /\ p1.dependencies = inputs
  <2>1. "integration" \in Stages
    BY DEF Stages
  <2> QED  BY <1>2, <2>1, NoFile, PacketTyped, PacketParts
<1> HIDE DEF p1
<1>4. shared \in Seq(Packets) /\ Len(shared) = 1 /\ shared[1] = p1
  BY <1>3
<1>5. stage \in Stages
  BY DEF Stages
<1> HIDE DEF stage, shared
<1>6. Short(shared)
  BY <1>2, <1>3, <1>4 DEF Short
<1> QED  BY <1>1, <1>4, <1>5, <1>6, CorrectShort

LEMMA GatesShort ==
  ASSUME PlanInv, ShortInv, Gates
  PROVE  ShortInv'
<1> DEFINE k == Len(packets)
           p1 == Packet("integration-closure", 0, <<inputs[1], The("integration"), Quality>>)
           p2 == Packet("verification", 0, <<k + 1, Functional, Quality>>)
           p3 == Packet("adversarial-review", 0, <<k + 2, k + 1, Architecture>>)
           shared == <<p1, p2, p3>>
           stage == "final-correction"
<1>1. phase = "gates" /\ Correct(stage, shared)
  BY DEF Gates
<1>2. p1 \in Packets /\ p2 \in Packets /\ p3 \in Packets
  <2>1. TypeOK /\ RowsInv /\ Len(packets) \in Nat
    BY <1>1, HaveContracts DEF PlanInv
  <2>2. Len(inputs) = 1 /\ RowsIn(packets) = Closed(files)
    BY <1>1, <2>1 DEF RowsInv
  <2>3. inputs \in Seq(1..k) /\ files \in 1..MaxFiles
    BY <2>1 DEF TypeOK, Ids
  <2>4. inputs[1] \in 1..k
    <3> HIDE DEF k
    <3> QED  BY <2>2, <2>3, OnlyPlace
  <2>5. The("integration") \in 1..k
    BY <2>1, <2>2, <2>3, LandmarksHeld, TheStage
  <2>6. /\ inputs[1] \in Nat /\ The("integration") \in Nat /\ Quality \in Nat
        /\ Functional \in Nat /\ Architecture \in Nat /\ k + 1 \in Nat /\ k + 2 \in Nat
    BY <2>1, <2>4, <2>5 DEF Quality, Functional, Architecture
  <2>7. /\ <<inputs[1], The("integration"), Quality>> \in Seq(Nat)
        /\ <<k + 1, Functional, Quality>> \in Seq(Nat)
        /\ <<k + 2, k + 1, Architecture>> \in Seq(Nat)
    <3> HIDE DEF k
    <3> QED  BY <2>6, ThreePlaces
  <2>8. /\ "integration-closure" \in Stages /\ "verification" \in Stages
        /\ "adversarial-review" \in Stages
    BY DEF Stages
  <2> HIDE DEF k
  <2> QED  BY <2>7, <2>8, NoFile, PacketTyped
<1>3. /\ p1.dependencies = <<inputs[1], The("integration"), Quality>>
      /\ p2.dependencies = <<k + 1, Functional, Quality>>
      /\ p3.dependencies = <<k + 2, k + 1, Architecture>>
  BY PacketParts
<1> HIDE DEF p1, p2, p3
<1>4. /\ shared \in Seq(Packets) /\ Len(shared) = 3
      /\ shared[1] = p1 /\ shared[2] = p2 /\ shared[3] = p3
  BY <1>2
<1>5. stage \in Stages
  BY DEF Stages
<1> HIDE DEF stage, shared
<1>6. Short(shared)
  BY <1>3, <1>4, ThreeShort
<1> QED  BY <1>1, <1>4, <1>5, <1>6, CorrectShort

LEMMA FinishShort ==
  ASSUME PlanInv, ShortInv, Finish
  PROVE  ShortInv'
<1> DEFINE k == Len(packets)
           p1 == Packet("release-verification", 0,
                   <<inputs[1], The("verification"), The("adversarial-review")>>)
           p2 == Packet("finalization", 0, <<k + 1, The("integration-closure"), inputs[1]>>)
           t == <<p1, p2>>
<1>1. phase = "finish" /\ packets' = packets \o t
  BY DEF Finish
<1>2. packets \in Seq(Packets) /\ p1 \in Packets /\ p2 \in Packets
  <2>1. TypeOK /\ RowsInv /\ Len(packets) \in Nat /\ packets \in Seq(Packets)
    BY <1>1, HaveContracts DEF PlanInv
  <2>2. Len(inputs) = 1 /\ RowsIn(packets) = Shipped(files)
    BY <1>1, <2>1 DEF RowsInv
  <2>3. inputs \in Seq(1..k) /\ files \in 1..MaxFiles
    BY <2>1 DEF TypeOK, Ids
  <2>4. inputs[1] \in 1..k
    <3> HIDE DEF k
    <3> QED  BY <2>2, <2>3, OnlyPlace
  <2>5. /\ The("verification") \in 1..k /\ The("adversarial-review") \in 1..k
        /\ The("integration-closure") \in 1..k
    BY <2>1, <2>2, <2>3, LandmarksHeld, TheStage
  <2>6. /\ inputs[1] \in Nat /\ The("verification") \in Nat /\ k + 1 \in Nat
        /\ The("adversarial-review") \in Nat /\ The("integration-closure") \in Nat
    BY <2>1, <2>4, <2>5
  <2>7. /\ <<inputs[1], The("verification"), The("adversarial-review")>> \in Seq(Nat)
        /\ <<k + 1, The("integration-closure"), inputs[1]>> \in Seq(Nat)
    <3> HIDE DEF k
    <3> QED  BY <2>6, ThreePlaces
  <2>8. "release-verification" \in Stages /\ "finalization" \in Stages
    BY DEF Stages
  <2> HIDE DEF k
  <2> QED  BY <2>1, <2>7, <2>8, NoFile, PacketTyped
<1>3. /\ p1.dependencies = <<inputs[1], The("verification"), The("adversarial-review")>>
      /\ p2.dependencies = <<k + 1, The("integration-closure"), inputs[1]>>
  BY PacketParts
<1> HIDE DEF p1, p2
<1>4. t \in Seq(Packets) /\ Len(t) = 2 /\ t[1] = p1 /\ t[2] = p2
  BY <1>2
<1> HIDE DEF t
<1>5. Short(t)
  <2>1. Len(t[1].dependencies) = 3 /\ Len(t[2].dependencies) = 3
    BY <1>3, <1>4, ThreeAtMost, Zenon
  <2>2. 3 <= 3
    OBVIOUS
  <2>3. Len(t[1].dependencies) <= 3 /\ Len(t[2].dependencies) <= 3
    BY <2>1, <2>2, Zenon
  <2>4. \A m \in 1..2 : m = 1 \/ m = 2
    OBVIOUS
  <2>5. \A m \in 1..2 : Len(t[m].dependencies) <= 3
    BY <2>3, <2>4, Zenon
  <2> QED  BY <1>4, <2>5 DEF Short
<1> QED  BY <1>1, <1>2, <1>4, <1>5, ShortGrows DEF ShortInv

LEMMA ShortStays == PlanInv /\ ShortInv /\ [Next]_vars => ShortInv'
<1> SUFFICES ASSUME PlanInv, ShortInv, [Next]_vars PROVE ShortInv'
  OBVIOUS
<1>1. CASE FileFlow
  BY <1>1, FileFlowShort
<1>2. CASE IntegrateLevel \/ CloseLevel \/ ReleaseLevel
  <2>1. PICK stage \in {"integration-group", "closure-group", "release-group"} : Grouped(stage)
    BY <1>2 DEF IntegrateLevel, CloseLevel, ReleaseLevel, Summarize
  <2>2. stage \in Stages
    BY DEF Stages, GroupStages
  <2> QED  BY <2>1, <2>2, LevelShort
<1>3. CASE Integrate
  BY <1>3, IntegrateShort
<1>4. CASE Gates
  BY <1>4, GatesShort
<1>5. CASE Finish
  BY <1>5, FinishShort
<1>6. CASE UNCHANGED vars
  BY <1>6 DEF vars, ShortInv
<1> QED  BY <1>1, <1>2, <1>3, <1>4, <1>5, <1>6 DEF Next

\* A packet reads three packets at most, whatever the number of files ("bounded
\* three-input groups"; expand_files, chunks(3)).
THEOREM ShortInvariant == Spec => []ShortInv
BY PlanInvariant, ShortStarts, ShortStays, PTL DEF Spec

LEMMA ShortPromptsAreWhole == PlanInv /\ ShortInv => PromptsCarryEveryDependency
<1> SUFFICES ASSUME PlanInv, ShortInv, NEW i \in Ids
             PROVE  LET n == Len(packets[i].dependencies) IN
                      /\ \A k \in 1..n : ContextBefore(i, k - 1) < MaxContext
                      /\ ContextBefore(i, n) <= MaxContext + n * Marker
  BY DEF PromptsCarryEveryDependency
<1> DEFINE n == Len(packets[i].dependencies)
<1>1. n \in Nat /\ n <= 3
  <2>1. packets \in Seq(Packets)
    BY DEF PlanInv, TypeOK
  <2>2. packets[i].dependencies \in Seq(Nat)
    <3>1. packets[i] \in Packets
      BY <2>1 DEF Ids
    <3> QED  BY <3>1 DEF Packets
  <2>3. n <= 3
    BY DEF ShortInv, Short, Ids
  <2> QED  BY <2>2, <2>3
<1> HIDE DEF n
<1>2. ASSUME NEW k \in 1..n PROVE ContextBefore(i, k - 1) < MaxContext
  <2>1. k - 1 \in 0..2 /\ k - 1 \in Nat
    BY <1>1
  <2>2. ContextBefore(i, k - 1) <= (k - 1) * 12308
    <3>1. MaxPerDependency + Marker = 12308
      BY DEF MaxPerDependency, Marker, KiB
    <3> QED  BY <2>1, <3>1, ContextBounds
  <2>3. (k - 1) * 12308 <= 24616 /\ MaxContext = 32768
    BY <2>1 DEF MaxContext, KiB
  <2>4. ContextBefore(i, k - 1) \in Nat
    <3>1. PICK h : /\ Carries(h, packets[i].dependencies, k - 1)
                   /\ ContextBefore(i, k - 1) = h[k - 1]
      BY <2>1, ContextIsCarried
    <3> QED  BY <2>1, <3>1 DEF Carries
  <2> QED  BY <2>1, <2>2, <2>3, <2>4
<1>3. ContextBefore(i, n) <= MaxContext + n * Marker
  BY <1>1, ContextBounds
<1> QED  BY <1>2, <1>3 DEF n

\* With every output at its limit no dependency is left out of a prompt, and the
\* context passes its budget by truncation markers only (WorkPlan::prompt), in
\* every plan of every number of files.
THEOREM PromptsAreWhole == Spec => []PromptsCarryEveryDependency
BY PlanInvariant, ShortInvariant, ShortPromptsAreWhole, PTL
================================================================================
