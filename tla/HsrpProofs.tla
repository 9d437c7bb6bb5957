----------------------------- MODULE HsrpProofs -----------------------------
(***************************************************************************)
(* Proofs about Hsrp, for any routers, interfaces, priorities and          *)
(* decrements.  The inductive invariant is HInv.                           *)
(***************************************************************************)
EXTENDS Hsrp, FiniteSetTheorems, WellFoundedInduction, TLAPS

-----------------------------------------------------------------------------
(* The sum of the decrements.                                              *)

\* The least element that every nonempty set of naturals has.
LEMMA LeastNatural ==
  ASSUME NEW T \in SUBSET Nat, T # {}
  PROVE  \E x \in T : \A y \in T : x <= y
<1> DEFINE R == OpToRel(<, Nat)
<1>1. IsWellFoundedOn(R, Nat)
  BY NatLessThanWellFounded
<1>2. \A x, y \in Nat : <<y, x>> \in R <=> y < x
  BY DEF OpToRel
<1> HIDE DEF R
<1>3. PICK x \in T : \A y \in T : ~(<<y, x>> \in R)
  BY <1>1, WFMin
<1>4. ASSUME NEW y \in T
      PROVE  x <= y
  <2>1. x \in Nat /\ y \in Nat /\ ~(<<y, x>> \in R)
    BY <1>3, <1>4
  <2>2. ~(y < x)
    BY <1>2, <2>1
  <2>3. QED
    BY <2>1, <2>2
<1>5. QED
  BY <1>4

\* The member of a set with which its sum begins.
First(s) == CHOOSE x \in s : TRUE

\* f gives every set of C, which is closed under leaving out the first member,
\* the sum of what track says of its members.
Sums(f, track, C) ==
    f = [s \in C |-> IF s = {} THEN 0 ELSE track[First(s)] + f[s \ {First(s)}]]

\* The subsets of D that have at most n members.
UpTo(D, n) == {s \in SUBSET D : Cardinality(s) <= n}

\* What is left of a subset of a finite set without its first member.
LEMMA RestFacts ==
  ASSUME NEW D, IsFiniteSet(D), NEW s \in SUBSET D
  PROVE  /\ IsFiniteSet(s) /\ Cardinality(s) \in Nat
         /\ Cardinality(s) = 0 <=> s = {}
         /\ s # {} => /\ First(s) \in s
                      /\ s \ {First(s)} \in SUBSET D
                      /\ Cardinality(s \ {First(s)}) = Cardinality(s) - 1
<1>1. IsFiniteSet(s)
  BY FS_Subset
<1>2. Cardinality(s) \in Nat
  BY <1>1, FS_CardinalityType
<1>3. Cardinality(s) = 0 <=> s = {}
  BY <1>1, FS_EmptySet
<1>4. s # {} => First(s) \in s
  BY DEF First
<1>5. s # {} => Cardinality(s \ {First(s)}) = Cardinality(s) - 1
  BY <1>1, <1>4, FS_RemoveElement
<1>6. QED
  BY <1>1, <1>2, <1>3, <1>4, <1>5

\* The recursion over the members of a finite set has a solution.
LEMMA SumsExist ==
  ASSUME NEW D, IsFiniteSet(D), NEW track
  PROVE  \E f : Sums(f, track, SUBSET D)
<1> DEFINE Bad == {n \in Nat : ~\E f : Sums(f, track, UpTo(D, n))}
<1>1. Cardinality(D) \in Nat
  BY FS_CardinalityType
<1>2. UpTo(D, Cardinality(D)) = SUBSET D
  BY FS_Subset DEF UpTo
<1>3. SUFFICES ASSUME Bad # {} PROVE FALSE
  <2>1. Cardinality(D) \notin Bad => \E f : Sums(f, track, UpTo(D, Cardinality(D)))
    BY <1>1
  <2> HIDE DEF Bad
  <2>2. QED
    BY <1>2, <2>1
<1>4. PICK m \in Bad : \A y \in Bad : m <= y
  BY <1>3, LeastNatural
<1>5. m # 0
  <2> DEFINE f == [s \in UpTo(D, 0) |-> 0]
  <2>1. \A s \in UpTo(D, 0) : s = {}
    <3> SUFFICES ASSUME NEW s \in UpTo(D, 0) PROVE s = {}
      OBVIOUS
    <3>1. s \in SUBSET D /\ Cardinality(s) <= 0
      BY DEF UpTo
    <3>2. Cardinality(s) \in Nat /\ (Cardinality(s) = 0 <=> s = {})
      BY <3>1, RestFacts
    <3>3. QED
      BY <3>1, <3>2
  <2>2. f = [s \in UpTo(D, 0) |->
               IF s = {} THEN 0 ELSE track[First(s)] + f[s \ {First(s)}]]
    BY <2>1
  <2>3. Sums(f, track, UpTo(D, 0))
    BY <2>2 DEF Sums
  <2>4. QED
    BY <1>4, <2>3
<1>6. m - 1 \in Nat /\ m - 1 \notin Bad
  BY <1>4, <1>5
<1>7. PICK h : Sums(h, track, UpTo(D, m - 1))
  BY <1>6
<1> DEFINE f == [s \in UpTo(D, m) |->
                   IF s = {} THEN 0 ELSE track[First(s)] + h[s \ {First(s)}]]
<1>8. \A s \in UpTo(D, m - 1) : s \in UpTo(D, m) /\ h[s] = f[s]
  <2>1. \A s \in UpTo(D, m - 1) : s \in UpTo(D, m)
    <3> SUFFICES ASSUME NEW s \in UpTo(D, m - 1) PROVE s \in UpTo(D, m)
      OBVIOUS
    <3>1. s \in SUBSET D /\ Cardinality(s) <= m - 1
      BY DEF UpTo
    <3>2. Cardinality(s) \in Nat
      BY <3>1, RestFacts
    <3>3. Cardinality(s) <= m
      BY <1>6, <3>1, <3>2
    <3>4. QED
      BY <3>1, <3>3 DEF UpTo
  <2>2. QED
    BY <1>7, <2>1 DEF Sums
<1>9. \A s \in UpTo(D, m) : s # {} => s \ {First(s)} \in UpTo(D, m - 1)
  BY <1>4, RestFacts DEF UpTo
<1>10. \A s \in UpTo(D, m) : f[s] = IF s = {} THEN 0 ELSE track[First(s)] + f[s \ {First(s)}]
  <2> SUFFICES ASSUME NEW s \in UpTo(D, m)
               PROVE  f[s] = IF s = {} THEN 0 ELSE track[First(s)] + f[s \ {First(s)}]
    OBVIOUS
  <2>1. f[s] = IF s = {} THEN 0 ELSE track[First(s)] + h[s \ {First(s)}]
    OBVIOUS
  <2>2. s # {} => h[s \ {First(s)}] = f[s \ {First(s)}]
    BY <1>8, <1>9
  <2>3. QED
    BY <2>1, <2>2
<1>11. f = [s \in UpTo(D, m) |-> f[s]]
  OBVIOUS
<1> HIDE DEF f
<1>12. Sums(f, track, UpTo(D, m))
  BY <1>10, <1>11 DEF Sums
<1>13. QED
  BY <1>4, <1>12

\* Two solutions for tracks that agree on the members of the set are the same,
\* and give natural numbers if the tracks do.
LEMMA SumsAgree ==
  ASSUME NEW D, IsFiniteSet(D), NEW track, NEW other, NEW f, NEW h,
         \A i \in D : track[i] \in Nat /\ other[i] = track[i],
         Sums(f, track, SUBSET D), Sums(h, other, SUBSET D)
  PROVE  \A s \in SUBSET D : f[s] \in Nat /\ h[s] = f[s]
<1> DEFINE Good(s) == f[s] \in Nat /\ h[s] = f[s]
           Bad == {n \in Nat : \E s \in SUBSET D : Cardinality(s) = n /\ ~Good(s)}
<1>1. \A s \in SUBSET D : Cardinality(s) \in Nat
  BY RestFacts
<1>2. SUFFICES ASSUME Bad # {} PROVE FALSE
  BY <1>1
<1>3. PICK m \in Bad : \A y \in Bad : m <= y
  BY <1>2, LeastNatural
<1>4. PICK s \in SUBSET D : Cardinality(s) = m /\ ~Good(s)
  BY <1>3
<1>5. /\ f[s] = IF s = {} THEN 0 ELSE track[First(s)] + f[s \ {First(s)}]
      /\ h[s] = IF s = {} THEN 0 ELSE other[First(s)] + h[s \ {First(s)}]
  BY DEF Sums
<1>6. s # {}
  BY <1>4, <1>5
<1>7. /\ First(s) \in D /\ s \ {First(s)} \in SUBSET D
      /\ Cardinality(s \ {First(s)}) = m - 1 /\ m - 1 \in Nat
  BY <1>4, <1>6, RestFacts
<1>8. Good(s \ {First(s)})
  BY <1>3, <1>7
<1>9. track[First(s)] \in Nat /\ other[First(s)] = track[First(s)]
  BY <1>7
<1>10. QED
  BY <1>4, <1>5, <1>6, <1>8, <1>9

\* The sum that the model computes is a solution of the recursion.
LEMMA SumIs ==
  ASSUME NEW D, IsFiniteSet(D), NEW track
  PROVE  \E f : Sums(f, track, SUBSET D) /\ Sum(track, D) = f[D]
<1> DEFINE iter == CHOOSE f : Sums(f, track, SUBSET D)
<1>1. Sums(iter, track, SUBSET D)
  BY SumsExist
<1>2. Sum(track, D) = iter[D]
  BY DEF Sum, FoldSet, MapThenFoldSet, Sums, First
<1>3. QED
  BY <1>1, <1>2

\* A sum of natural numbers is one; it looks at nothing but the members of the
\* set, and over no members it is 0.
LEMMA SumFacts ==
  ASSUME NEW track \in [Iface -> Nat], NEW other \in [Iface -> Nat],
         NEW D \in SUBSET Iface, \A i \in D : other[i] = track[i]
  PROVE  /\ Sum(track, D) \in Nat
         /\ Sum(other, D) = Sum(track, D)
         /\ D = {} => Sum(track, D) = 0
<1>1. IsFiniteSet(D)
  BY HsrpAssumption, FS_Subset
<1>2. PICK f : Sums(f, track, SUBSET D) /\ Sum(track, D) = f[D]
  BY <1>1, SumIs
<1>3. PICK h : Sums(h, other, SUBSET D) /\ Sum(other, D) = h[D]
  BY <1>1, SumIs
<1>4. \A i \in D : track[i] \in Nat /\ other[i] = track[i]
  OBVIOUS
<1>5. f[D] \in Nat /\ h[D] = f[D]
  BY <1>1, <1>2, <1>3, <1>4, SumsAgree
<1>6. D = {} => f[D] = 0
  BY <1>2 DEF Sums
<1>7. QED
  BY <1>2, <1>3, <1>5, <1>6

-----------------------------------------------------------------------------
(* Handling hellos.                                                        *)

Groups == [Device -> Group \cup {NoGroup}]

\* x and y are one group: what is configured and tracked is the same in both.
SameGroup(x, y) ==
    /\ y.priority = x.priority /\ y.base = x.base
    /\ y.track = x.track /\ y.down = x.down

\* The groups h are the groups g in other states.
Handled(g, h) ==
    /\ g \in Groups /\ h \in Groups
    /\ \A d \in Device : Has(h, d) <=> Has(g, d)
    /\ \A d \in Device : Has(g, d) => SameGroup(g[d], h[d])

LEMMA GroupFacts ==
  ASSUME NEW g \in Groups, NEW d \in Device
  PROVE  /\ Has(g, d) <=> g[d] \in Group
         /\ Has(g, d) <=> g[d] # NoGroup
  BY HsrpAssumption DEF Groups, Has

LEMMA HandledSame ==
  ASSUME NEW g \in Groups
  PROVE  Handled(g, g)
  BY DEF Handled, SameGroup

LEMMA HandledTwice ==
  ASSUME NEW f, NEW g, NEW h, Handled(f, g), Handled(g, h)
  PROVE  Handled(f, h)
  BY DEF Handled, SameGroup

\* A group in another state, with its hold timer running or not.
LEMMA InState ==
  ASSUME NEW x \in Group, NEW st \in {"Init", "Active", "Standby"}, NEW b \in BOOLEAN
  PROVE  /\ [x EXCEPT !.state = st] \in Group /\ [x EXCEPT !.state = st, !.dead = b] \in Group
         /\ [x EXCEPT !.dead = TRUE, !.state = st] \in Group
         /\ [x EXCEPT !.dead = b] \in Group
         /\ SameGroup(x, [x EXCEPT !.state = st])
         /\ SameGroup(x, [x EXCEPT !.state = st, !.dead = b])
         /\ SameGroup(x, [x EXCEPT !.dead = TRUE, !.state = st])
         /\ SameGroup(x, [x EXCEPT !.dead = b])
  BY DEF Group, SameGroup

\* One group of g is replaced by the same group in another state.
LEMMA HandledOne ==
  ASSUME NEW g \in Groups, NEW d \in Device, Has(g, d),
         NEW x \in Group, SameGroup(g[d], x), NEW h, h = [g EXCEPT ![d] = x]
  PROVE  Handled(g, h)
<1>1. h \in Groups
  BY DEF Groups
<1>2. \A e \in Device : h[e] = IF e = d THEN x ELSE g[e]
  BY DEF Groups
<1>3. Has(h, d)
  BY <1>1, <1>2, GroupFacts
<1>4. ASSUME NEW e \in Device
      PROVE  /\ Has(h, e) <=> Has(g, e)
             /\ Has(g, e) => SameGroup(g[e], h[e])
  <2>1. CASE e = d
    BY <1>2, <1>3, <2>1
  <2>2. CASE e # d
    BY <1>2, <2>2 DEF Has, SameGroup
  <2>3. QED
    BY <2>1, <2>2
<1>5. QED
  BY <1>1, <1>4 DEF Handled

\* An election changes states and starts a hold timer.
LEMMA ElectHandled ==
  ASSUME NEW g \in Groups, NEW r \in Device, NEW s \in Device, NEW p \in Nat, Has(g, r)
  PROVE  Handled(g, Elect(g, r, s, p))
<1> DEFINE wins == g[r].priority >= p
           x == [g[r] EXCEPT !.state = IF wins THEN "Active" ELSE "Standby", !.dead = TRUE]
           y == [g[s] EXCEPT !.state = IF wins THEN "Standby" ELSE "Active"]
           h == Elect(g, r, s, p)
<1>1. \A d \in Device : h[d] = IF d = r THEN x
                               ELSE IF d = s /\ Has(g, s) THEN y ELSE g[d]
  BY DEF Elect
<1>2. x \in Group /\ SameGroup(g[r], x)
  <2>1. g[r] \in Group
    BY GroupFacts
  <2>2. (IF wins THEN "Active" ELSE "Standby") \in {"Init", "Active", "Standby"}
    OBVIOUS
  <2>3. QED
    BY <2>1, <2>2, InState
<1>3. Has(g, s) => y \in Group /\ SameGroup(g[s], y)
  <2>1. Has(g, s) => g[s] \in Group
    BY GroupFacts
  <2>2. (IF wins THEN "Standby" ELSE "Active") \in {"Init", "Active", "Standby"}
    OBVIOUS
  <2>3. QED
    BY <2>1, <2>2, InState
<1>4. h = [d \in Device |-> h[d]]
  BY DEF Elect
<1> HIDE DEF x, y, h
<1>5. ASSUME NEW d \in Device
      PROVE  /\ h[d] \in Group \cup {NoGroup}
             /\ h[d] # NoGroup <=> g[d] # NoGroup
             /\ g[d] # NoGroup => SameGroup(g[d], h[d])
  <2>1. CASE d = r
    BY <1>1, <1>2, <2>1, HsrpAssumption DEF Has
  <2>2. CASE d # r /\ d = s /\ Has(g, s)
    BY <1>1, <1>3, <2>2, HsrpAssumption DEF Has
  <2>3. CASE d # r /\ ~(d = s /\ Has(g, s))
    BY <1>1, <2>3 DEF Groups, SameGroup
  <2>4. QED
    BY <2>1, <2>2, <2>3
<1>6. h \in Groups
  BY <1>4, <1>5 DEF Groups
<1>7. QED
  BY <1>5, <1>6 DEF Handled, Has, h

\* A hello changes states and starts hold timers.
LEMMA ReceiveHandled ==
  ASSUME NEW g \in Groups, NEW r \in Device, NEW s \in Device, NEW p \in Nat
  PROVE  Handled(g, Receive(g, r, s, p))
<1>1. CASE ~Has(g, r)
  BY <1>1, HandledSame DEF Receive
<1>2. CASE Has(g, r)
  <2>1. g[r] \in Group /\ g[r].state \in {"Init", "Active", "Standby"}
    BY <1>2, GroupFacts DEF Group
  <2>2. CASE g[r].state = "Init"
    <3>1. Receive(g, r, s, p) = Elect(g, r, s, p)
      BY <1>2, <2>2 DEF Receive
    <3>2. QED
      BY <1>2, <3>1, ElectHandled
  <2>3. CASE g[r].state = "Active"
    <3>1. Receive(g, r, s, p) =
             IF p > g[r].priority THEN [g EXCEPT ![r].state = "Standby"] ELSE g
      BY <1>2, <2>3 DEF Receive
    <3>2. CASE p > g[r].priority
      <4> DEFINE x == [g[r] EXCEPT !.state = "Standby"]
      <4>1. x \in Group /\ SameGroup(g[r], x)
        BY <2>1, InState
      <4>2. Receive(g, r, s, p) = [g EXCEPT ![r] = x]
        BY <3>1, <3>2
      <4> HIDE DEF x
      <4>3. QED
        BY <1>2, <4>1, <4>2, HandledOne
    <3>3. CASE ~(p > g[r].priority)
      BY <3>1, <3>3, HandledSame
    <3>4. QED
      BY <3>2, <3>3
  <2>4. CASE g[r].state = "Standby"
    <3> DEFINE st == IF g[r].preempt /\ g[r].priority > p THEN "Active" ELSE "Standby"
               x == [g[r] EXCEPT !.dead = TRUE, !.state = st]
    <3>1. Receive(g, r, s, p) = [g EXCEPT ![r].dead = TRUE, ![r].state = st]
      BY <1>2, <2>4 DEF Receive
    <3>2. st \in {"Init", "Active", "Standby"}
      OBVIOUS
    <3> HIDE DEF st
    <3>3. x \in Group /\ SameGroup(g[r], x)
      BY <2>1, <3>2, InState
    <3>4. [g EXCEPT ![r].dead = TRUE, ![r].state = st] = [g EXCEPT ![r] = x]
      BY DEF Groups
    <3> HIDE DEF x
    <3>5. QED
      BY <1>2, <3>1, <3>3, <3>4, HandledOne
  <2>5. QED
    BY <2>1, <2>2, <2>3, <2>4
<1>3. QED
  BY <1>1, <1>2

\* after holds the groups after each of the first N hellos.
After(g, hellos, N, after) ==
    after = [n \in 0 .. N |->
                IF n = 0 THEN g
                ELSE Receive(after[n - 1], hellos[n][1], hellos[n][2], hellos[n][3])]

\* Handling hellos one after the other comes to an end.
LEMMA HellosEnd ==
  ASSUME NEW g, NEW hellos, NEW N \in Nat
  PROVE  \E after : After(g, hellos, N, after)
<1> DEFINE Next1(x, n) == Receive(x, hellos[n][1], hellos[n][2], hellos[n][3])
           Loop(n, f) == f = [i \in 0 .. n |-> IF i = 0 THEN g ELSE Next1(f[i - 1], i)]
           Bad == {n \in Nat : ~\E f : Loop(n, f)}
<1>1. \A f : Loop(N, f) => After(g, hellos, N, f)
  BY DEF After
<1> HIDE DEF Next1
<1>2. SUFFICES ASSUME Bad # {} PROVE FALSE
  <2>1. N \notin Bad => \E f : Loop(N, f)
    OBVIOUS
  <2> HIDE DEF Bad, Loop
  <2>2. QED
    BY <1>1, <2>1
<1>3. PICK m \in Bad : \A y \in Bad : m <= y
  BY <1>2, LeastNatural
<1>4. m # 0
  <2> DEFINE f == [i \in 0 .. 0 |-> g]
  <2>1. f = [i \in 0 .. 0 |-> IF i = 0 THEN g ELSE Next1(f[i - 1], i)]
    OBVIOUS
  <2>2. QED
    BY <1>3, <2>1
<1>5. m - 1 \in Nat /\ m - 1 \notin Bad
  BY <1>3, <1>4
<1>6. PICK h : Loop(m - 1, h)
  BY <1>5
<1> DEFINE f == [i \in 0 .. m |-> IF i = m THEN Next1(h[m - 1], m) ELSE h[i]]
<1>7. ASSUME NEW i \in 0 .. m
      PROVE  f[i] = IF i = 0 THEN g ELSE Next1(f[i - 1], i)
  <2>1. CASE i = 0
    BY <1>4, <1>5, <1>6, <2>1
  <2>2. CASE i # 0 /\ i # m
    <3>1. i \in 0 .. m - 1 /\ i - 1 \in 0 .. m /\ i - 1 # m
      BY <1>5, <2>2
    <3>2. f[i] = h[i] /\ f[i - 1] = h[i - 1]
      BY <2>2, <3>1
    <3>3. h[i] = Next1(h[i - 1], i)
      BY <1>6, <2>2, <3>1
    <3>4. QED
      BY <2>2, <3>2, <3>3
  <2>3. CASE i = m
    <3>1. i - 1 \in 0 .. m /\ i - 1 # m
      BY <1>4, <1>5, <2>3
    <3>2. f[i] = Next1(h[m - 1], m) /\ f[i - 1] = h[m - 1]
      BY <2>3, <3>1
    <3>3. QED
      BY <1>4, <2>3, <3>2
  <2>4. QED
    BY <2>1, <2>2, <2>3
<1>8. f = [i \in 0 .. m |-> IF i = 0 THEN g ELSE Next1(f[i - 1], i)]
  BY <1>7
<1>9. Loop(m, f)
  BY <1>8
<1>10. QED
  BY <1>3, <1>9

\* All the hellos together change states and start hold timers.
LEMMA DeliveredHandled ==
  ASSUME NEW g \in Groups, NEW hellos \in Seq(Device \X Device \X Nat)
  PROVE  Handled(g, Delivered(g, hellos))
<1> DEFINE N == Len(hellos)
           Result == CHOOSE f : After(g, hellos, N, f)
           Bad == {n \in 0 .. N : ~Handled(g, Result[n])}
<1>1. N \in Nat /\ \A n \in 1 .. N : /\ hellos[n] \in Device \X Device \X Nat
  OBVIOUS
<1>2. \A n \in 1 .. N : hellos[n][1] \in Device /\ hellos[n][2] \in Device /\ hellos[n][3] \in Nat
  BY <1>1
<1>3. Delivered(g, hellos) = Result[N]
  BY DEF Delivered, After
<1>4. After(g, hellos, N, Result)
  BY <1>1, HellosEnd
<1> HIDE DEF Result, N
<1>5. SUFFICES ASSUME Bad # {} PROVE FALSE
  BY <1>1, <1>3
<1>6. PICK m \in Bad : \A y \in Bad : m <= y
  <2>1. Bad \in SUBSET Nat
    BY <1>1
  <2> HIDE DEF Bad
  <2>2. QED
    BY <1>5, <2>1, LeastNatural
<1>7. m # 0
  <2>1. Result[0] = g
    BY <1>1, <1>4 DEF After
  <2>2. QED
    BY <1>6, <2>1, HandledSame
<1>8. m \in 1 .. N /\ m - 1 \in 0 .. N /\ m - 1 \notin Bad
  BY <1>1, <1>6, <1>7
<1>9. Handled(g, Result[m - 1])
  BY <1>8
<1>10. Result[m] = Receive(Result[m - 1], hellos[m][1], hellos[m][2], hellos[m][3])
  BY <1>4, <1>7, <1>8 DEF After
<1>11. Result[m - 1] \in Groups
  BY <1>9 DEF Handled
<1>12. Handled(Result[m - 1], Result[m])
  BY <1>2, <1>8, <1>10, <1>11, ReceiveHandled
<1>13. QED
  BY <1>6, <1>9, <1>12, HandledTwice

\* A permutation of finitely many hellos is a sequence of them.
LEMMA PermutationIsSeq ==
  ASSUME NEW S, IsFiniteSet(S), NEW T, S \subseteq T, NEW q \in SetToSeqs(S)
  PROVE  q \in Seq(T)
<1>1. Cardinality(S) \in Nat
  BY FS_CardinalityType
<1>2. q \in [1 .. Cardinality(S) -> S]
  BY DEF SetToSeqs
<1>3. q \in [1 .. Cardinality(S) -> T]
  BY <1>2
<1>4. QED
  BY <1>1, <1>3

\* The negotiation changes states and starts hold timers.
LEMMA NegotiatedHandled ==
  ASSUME NEW g \in Groups, NEW d \in Device, NEW h \in Negotiated(g, d)
  PROVE  Handled(g, h)
<1> DEFINE X == {s \in Others(d) : Has(g, s)}
           S == {<<d, s, g[s].priority>> : s \in X}
           f == [s \in X |-> <<d, s, g[s].priority>>]
<1>1. IsFiniteSet(X)
  BY HsrpAssumption, FS_Subset DEF Others
<1>2. f \in Surjection(X, S)
  BY DEF Surjection
<1>3. IsFiniteSet(S)
  BY <1>1, <1>2, FS_Surjection
<1>4. S \subseteq Device \X Device \X Nat
  <2> SUFFICES ASSUME NEW s \in X PROVE <<d, s, g[s].priority>> \in Device \X Device \X Nat
    OBVIOUS
  <2>1. s \in Device /\ Has(g, s)
    BY DEF Others
  <2>2. g[s].priority \in Nat
    BY <2>1, GroupFacts DEF Group
  <2>3. QED
    BY <2>1, <2>2
<1>5. PICK hellos \in SetToSeqs(S) : h = Delivered(g, hellos)
  BY DEF Negotiated
<1> HIDE DEF S
<1>6. hellos \in Seq(Device \X Device \X Nat)
  BY <1>3, <1>4, PermutationIsSeq
<1>7. QED
  BY <1>5, <1>6, DeliveredHandled

\* A hello that goes out changes states and starts hold timers.
LEMMA AdvertisedHandled ==
  ASSUME NEW g \in Groups, NEW d \in Device, Has(g, d), NEW h \in Advertised(g, d)
  PROVE  Handled(g, h)
<1> DEFINE X == {r \in Others(d) : Reaches(d, r)}
           S == {<<r, d, g[d].priority>> : r \in X}
           f == [r \in X |-> <<r, d, g[d].priority>>]
<1>1. IsFiniteSet(X)
  BY HsrpAssumption, FS_Subset DEF Others
<1>2. f \in Surjection(X, S)
  BY DEF Surjection
<1>3. IsFiniteSet(S)
  BY <1>1, <1>2, FS_Surjection
<1>4. S \subseteq Device \X Device \X Nat
  <2>1. g[d].priority \in Nat
    BY GroupFacts DEF Group
  <2>2. X \subseteq Device
    BY DEF Others
  <2>3. QED
    BY <2>1, <2>2
<1>5. PICK hellos \in SetToSeqs(S) : h = Delivered(g, hellos)
  BY DEF Advertised
<1> HIDE DEF S
<1>6. hellos \in Seq(Device \X Device \X Nat)
  BY <1>3, <1>4, PermutationIsSeq
<1>7. QED
  BY <1>5, <1>6, DeliveredHandled

-----------------------------------------------------------------------------
(* The invariant.                                                          *)

\* Group x is penalised only for interfaces it tracks that are in `away';
\* its priority is what they leave.
Owed(track, down, away) == \A i \in down : track[i] # 0 /\ i \in away
Backed(x, away) == Owed(x.track, x.down, away)
Counts(x) == x.priority = Effective(x)

\* For the routers of D, at least the interfaces shut or rising before still are.
Wider(D, sh, ri, sh2, ri2) == \A d \in D : sh[d] \cup ri[d] \subseteq sh2[d] \cup ri2[d]

\* The groups g agree with the interfaces that are shut or rising; ed are the
\* routers whose priority may be pending.
Sound(g, sh, ri, ed) ==
    /\ g \in Groups
    /\ \A d \in Device : Has(g, d) => Backed(g[d], sh[d] \cup ri[d])
    /\ \A d \in Device : Has(g, d) /\ ~ed[d] => Counts(g[d])

Rest ==
    /\ strayHello \in [Device -> BOOLEAN] /\ strayDead \in [Device -> Nat]
    /\ shut \in [Device -> SUBSET Iface] /\ rising \in [Device -> SUBSET Iface]
    /\ edited \in [Device -> BOOLEAN] /\ failed \in [Device -> BOOLEAN]
    /\ configs \in Nat /\ flaps \in Nat /\ failovers \in Nat /\ early \in Nat

HInv == Rest /\ Sound(group, shut, rising, edited)

\* The invariant is the type invariant and the two properties.
LEMMA HInvIs == HInv <=> TypeOK /\ PenaltyEnds /\ PriorityTracked
  BY DEF HInv, Rest, Sound, Groups, Backed, Owed, Counts, TypeOK, PenaltyEnds, PriorityTracked

LEMMA TrackFacts ==
  ASSUME NEW x \in Group
  PROVE  /\ x.track \in [Iface -> Decrement \cup {0}] /\ x.track \in [Iface -> Nat]
         /\ x.down \in SUBSET Iface
         /\ x.base \in Priority /\ x.base \in Nat /\ x.priority \in Nat
         /\ x.hello \in BOOLEAN /\ x.dead \in BOOLEAN /\ x.preempt \in BOOLEAN
<1>1. /\ x.track \in [Iface -> Decrement \cup {0}] /\ x.down \in SUBSET Iface
      /\ x.base \in Priority /\ x.priority \in Nat
      /\ x.hello \in BOOLEAN /\ x.dead \in BOOLEAN /\ x.preempt \in BOOLEAN
  BY DEF Group
<1>2. Decrement \cup {0} \subseteq Nat /\ Priority \subseteq Nat
  BY HsrpAssumption
<1>3. QED
  BY <1>1, <1>2

\* The effective priority is a number, and the configured one when no tracked
\* interface is down.
LEMMA EffectiveFacts ==
  ASSUME NEW x \in Group
  PROVE  Effective(x) \in Nat /\ (x.down = {} => Effective(x) = x.base)
<1>1. x.track \in [Iface -> Nat] /\ x.down \in SUBSET Iface /\ x.base \in Nat
  BY TrackFacts
<1>2. Sum(x.track, x.down) \in Nat /\ (x.down = {} => Sum(x.track, x.down) = 0)
  BY <1>1, SumFacts
<1>3. QED
  BY <1>1, <1>2 DEF Effective

LEMMA SameCounts ==
  ASSUME NEW x, NEW y, SameGroup(x, y)
  PROVE  (Counts(x) <=> Counts(y)) /\ \A away : Backed(x, away) <=> Backed(y, away)
  BY DEF SameGroup, Counts, Effective, Backed, Owed

\* Handling hellos leaves the groups sound.
LEMMA HandledSound ==
  ASSUME NEW g, NEW h, NEW sh, NEW ri, NEW ed, Sound(g, sh, ri, ed), Handled(g, h)
  PROVE  Sound(h, sh, ri, ed)
<1>1. \A d \in Device : Has(h, d) => Has(g, d) /\ SameGroup(g[d], h[d])
  BY DEF Handled
<1>2. \A d \in Device : Has(h, d) => Backed(h[d], sh[d] \cup ri[d])
  BY <1>1, SameCounts DEF Sound
<1>3. \A d \in Device : Has(h, d) /\ ~ed[d] => Counts(h[d])
  BY <1>1, SameCounts DEF Sound
<1>4. QED
  BY <1>2, <1>3 DEF Sound, Handled

\* One group is replaced by a sound one, while for the others no fewer
\* interfaces are shut or rising than before.
LEMMA SoundAt ==
  ASSUME NEW g, NEW sh, NEW ri, NEW ed, Sound(g, sh, ri, ed),
         NEW d \in Device, NEW x \in Group, NEW sh2, NEW ri2, NEW ed2,
         Backed(x, sh2[d] \cup ri2[d]), ed2[d] \/ Counts(x),
         \A e \in Device \ {d} : ed2[e] = ed[e], Wider(Device \ {d}, sh, ri, sh2, ri2)
  PROVE  Sound([g EXCEPT ![d] = x], sh2, ri2, ed2)
<1> DEFINE h == [g EXCEPT ![d] = x]
<1>1. g \in Groups
  BY DEF Sound
<1>2. h \in Groups /\ \A e \in Device : h[e] = IF e = d THEN x ELSE g[e]
  BY <1>1 DEF Groups
<1> HIDE DEF h
<1>3. ASSUME NEW e \in Device, Has(h, e)
      PROVE  Backed(h[e], sh2[e] \cup ri2[e]) /\ (~ed2[e] => Counts(h[e]))
  <2>1. CASE e = d
    BY <1>2, <2>1
  <2>2. CASE e # d
    <3>1. /\ Has(g, e) /\ h[e] = g[e] /\ ed2[e] = ed[e]
          /\ sh[e] \cup ri[e] \subseteq sh2[e] \cup ri2[e]
      BY <1>2, <1>3, <2>2 DEF Has, Wider
    <3>2. QED
      BY <3>1 DEF Sound, Backed, Owed
  <2>3. QED
    BY <2>1, <2>2
<1>4. QED
  BY <1>2, <1>3 DEF Sound, h

\* The same while no interface is shut or brought back.
LEMMA SoundOne ==
  ASSUME NEW g, NEW sh, NEW ri, NEW ed, Sound(g, sh, ri, ed),
         NEW d \in Device, NEW x \in Group, Backed(x, sh[d] \cup ri[d]),
         NEW ed2, ed2[d] \/ Counts(x), \A e \in Device \ {d} : ed2[e] = ed[e]
  PROVE  Sound([g EXCEPT ![d] = x], sh, ri, ed2)
<1>1. Wider(Device \ {d}, sh, ri, sh, ri)
  BY DEF Wider
<1>2. QED
  BY <1>1, SoundAt

\* More interfaces are shut or rising than before.
LEMMA SoundMore ==
  ASSUME NEW g, NEW sh, NEW ri, NEW ed, Sound(g, sh, ri, ed), NEW sh2, NEW ri2,
         Wider(Device, sh, ri, sh2, ri2)
  PROVE  Sound(g, sh2, ri2, ed)
  BY DEF Sound, Backed, Owed, Wider

\* The group of d in a sound state of affairs.
LEMMA SoundGroup ==
  ASSUME NEW g, NEW sh, NEW ri, NEW ed, Sound(g, sh, ri, ed), NEW d \in Device, Has(g, d)
  PROVE  /\ g[d] \in Group /\ Backed(g[d], sh[d] \cup ri[d])
         /\ ~ed[d] => Counts(g[d])
  BY GroupFacts DEF Sound

-----------------------------------------------------------------------------
(* The steps.                                                              *)

LEMMA FreshFacts == Fresh \in Group /\ Fresh.down = {} /\ Counts(Fresh) /\ \A away : Backed(Fresh, away)
<1>1. Default \in Priority /\ Default \in Nat
  BY HsrpAssumption
<1>2. Fresh \in Group /\ Fresh.down = {} /\ Fresh.priority = Default /\ Fresh.base = Default
  BY <1>1 DEF Fresh, Group
<1>3. Effective(Fresh) = Default
  BY <1>2, EffectiveFacts
<1>4. QED
  BY <1>2, <1>3 DEF Counts, Backed, Owed

LEMMA RenewedFacts ==
  ASSUME NEW x \in Group
  PROVE  /\ Renewed(x) \in Group /\ Counts(Renewed(x))
         /\ \A away : Backed(x, away) => Backed(Renewed(x), away)
<1> DEFINE y == [x EXCEPT !.state = "Init", !.hello = TRUE, !.dead = FALSE, !.priority = x.base]
           z == [y EXCEPT !.priority = Effective(x)]
<1>1. x.base \in Nat /\ Effective(x) \in Nat /\ (x.down = {} => Effective(x) = x.base)
  BY TrackFacts, EffectiveFacts
<1>2. y \in Group /\ y.priority = x.base /\ y.base = x.base /\ y.track = x.track /\ y.down = x.down
  BY <1>1 DEF Group
<1>3. Renewed(x) = IF x.down = {} THEN y ELSE z
  BY DEF Renewed
<1> HIDE DEF y
<1>4. /\ z \in Group /\ z.priority = Effective(x)
      /\ z.base = x.base /\ z.track = x.track /\ z.down = x.down
  BY <1>1, <1>2 DEF Group
<1> HIDE DEF z
<1> DEFINE w == Renewed(x)
<1>5. /\ w \in Group /\ w.priority = Effective(x)
      /\ w.base = x.base /\ w.track = x.track /\ w.down = x.down
  BY <1>1, <1>2, <1>3, <1>4
<1> HIDE DEF w
<1>6. w \in Group /\ Counts(w) /\ \A away : Backed(x, away) => Backed(w, away)
  BY <1>5 DEF Counts, Effective, Backed, Owed
<1>7. QED
  BY <1>6 DEF w

LEMMA ConfigureStep ==
  ASSUME HInv, NEW d \in Device, Configure(d)
  PROVE  HInv'
<1> DEFINE x == IF Has(group, d) THEN Renewed(group[d]) ELSE Fresh
           g == [group EXCEPT ![d] = x]
<1>1. Sound(group, shut, rising, edited) /\ Rest
  BY DEF HInv
<1>2. x \in Group /\ Counts(x) /\ Backed(x, shut[d] \cup rising[d])
  BY <1>1, SoundGroup, RenewedFacts, FreshFacts
<1>3. \A e \in Device \ {d} : edited'[e] = edited[e]
  BY <1>1 DEF Configure, Rest
<1>4. group' \in Negotiated(g, d) /\ shut' = shut /\ rising' = rising
  BY DEF Configure
<1> HIDE DEF x
<1>5. Sound(g, shut, rising, edited')
  BY <1>1, <1>2, <1>3, SoundOne
<1> HIDE DEF g
<1>6. Handled(g, group')
  BY <1>4, <1>5, NegotiatedHandled DEF Sound
<1>7. Sound(group', shut', rising', edited')
  BY <1>4, <1>5, <1>6, HandledSound
<1>8. Rest'
  <2>1. (Has(group, d) /\ group[d].hello) \in BOOLEAN
    OBVIOUS
  <2>2. strayHello' \in [Device -> BOOLEAN] /\ strayDead' \in [Device -> Nat]
    BY <1>1, <2>1 DEF Configure, Rest
  <2>3. edited' \in [Device -> BOOLEAN] /\ failed' \in [Device -> BOOLEAN] /\ configs' \in Nat
    BY <1>1 DEF Configure, Rest
  <2>4. QED
    BY <1>1, <2>2, <2>3 DEF Configure, Rest
<1>9. QED
  BY <1>7, <1>8 DEF HInv

LEMMA SetPriorityStep ==
  ASSUME HInv, NEW d \in Device, NEW p \in Priority, SetPriority(d, p)
  PROVE  HInv'
<1> DEFINE x == [group[d] EXCEPT !.priority = p, !.base = p, !.down = {}]
           g == [group EXCEPT ![d] = x]
<1>1. Sound(group, shut, rising, edited) /\ Rest /\ Has(group, d)
  BY DEF HInv, SetPriority
<1>2. group[d] \in Group /\ p \in Nat /\ group \in Groups
  BY <1>1, SoundGroup, HsrpAssumption DEF Sound
<1>3. x \in Group /\ x.priority = p /\ x.base = p /\ x.down = {}
  BY <1>2 DEF Group
<1>4. [group EXCEPT ![d].priority = p, ![d].base = p, ![d].down = {}] = g
  BY <1>2 DEF Groups
<1>5. group' \in Negotiated(g, d) /\ shut' = shut /\ rising' = rising
  BY <1>4 DEF SetPriority
<1> HIDE DEF x
<1>6. Counts(x) /\ Backed(x, shut[d] \cup rising[d])
  BY <1>3, EffectiveFacts DEF Counts, Backed, Owed
<1>7. \A e \in Device \ {d} : edited'[e] = edited[e]
  BY <1>1 DEF SetPriority, Rest
<1>8. Sound(g, shut, rising, edited')
  BY <1>1, <1>3, <1>6, <1>7, SoundOne
<1> HIDE DEF g
<1>9. Handled(g, group')
  BY <1>5, <1>8, NegotiatedHandled DEF Sound
<1>10. Sound(group', shut', rising', edited')
  BY <1>5, <1>8, <1>9, HandledSound
<1>11. Rest'
  BY <1>1 DEF SetPriority, Rest
<1>12. QED
  BY <1>10, <1>11 DEF HInv

LEMMA SetPreemptStep ==
  ASSUME HInv, NEW d \in Device, SetPreempt(d)
  PROVE  HInv'
<1> DEFINE x == [group[d] EXCEPT !.preempt = TRUE]
<1>1. Sound(group, shut, rising, edited) /\ Rest /\ Has(group, d) /\ group \in Groups
  BY DEF HInv, SetPreempt, Sound
<1>2. group[d] \in Group
  BY <1>1, SoundGroup
<1>3. x \in Group /\ SameGroup(group[d], x)
  BY <1>2 DEF Group, SameGroup
<1>4. group' = [group EXCEPT ![d] = x]
  BY <1>1 DEF SetPreempt, Groups
<1>5. /\ shut' = shut /\ rising' = rising /\ edited' = edited
      /\ UNCHANGED <<strayHello, strayDead, failed, bounds>>
  BY DEF SetPreempt
<1> HIDE DEF x
<1>6. Handled(group, group')
  BY <1>1, <1>3, <1>4, HandledOne
<1>7. Sound(group', shut', rising', edited')
  BY <1>1, <1>5, <1>6, HandledSound
<1>8. Rest'
  BY <1>1, <1>5 DEF Rest, bounds
<1>9. QED
  BY <1>7, <1>8 DEF HInv

LEMMA SetTrackStep ==
  ASSUME HInv, NEW d \in Device, NEW i \in Iface, NEW n \in Decrement, SetTrack(d, i, n)
  PROVE  HInv'
<1> DEFINE old == group[d]
           t == [old.track EXCEPT ![i] = n]
           x == [old EXCEPT !.track = t]
<1>1. Sound(group, shut, rising, edited) /\ Rest /\ Has(group, d) /\ group \in Groups
  BY DEF HInv, SetTrack, Sound
<1>2. /\ old \in Group /\ Backed(old, shut[d] \cup rising[d])
      /\ ~edited[d] => Counts(old)
  BY <1>1, SoundGroup
<1>3. group' = [group EXCEPT ![d] = x]
  BY <1>1, <1>2 DEF SetTrack, Groups, Group
<1>4. /\ shut' = shut /\ rising' = rising
      /\ edited' = [edited EXCEPT ![d] = @ \/ i \in old.down]
      /\ UNCHANGED <<strayHello, strayDead, failed, flaps, failovers, early>>
      /\ configs' = configs + 1
  BY DEF SetTrack
<1>5. edited \in [Device -> BOOLEAN]
  BY <1>1 DEF Rest
<1>6. /\ edited' \in [Device -> BOOLEAN]
      /\ edited'[d] <=> edited[d] \/ i \in old.down
      /\ \A e \in Device \ {d} : edited'[e] = edited[e]
  BY <1>4, <1>5
<1> HIDE DEF old
<1>7. /\ old.track \in [Iface -> Decrement \cup {0}] /\ old.track \in [Iface -> Nat]
      /\ old.down \in SUBSET Iface /\ n \in Nat /\ n # 0
  BY <1>2, TrackFacts, HsrpAssumption
<1>8. /\ t \in [Iface -> Decrement \cup {0}] /\ t \in [Iface -> Nat]
      /\ \A j \in Iface : t[j] = IF j = i THEN n ELSE old.track[j]
  BY <1>7
<1> HIDE DEF t
<1>9. /\ x \in Group /\ x.track = t /\ x.down = old.down
      /\ x.base = old.base /\ x.priority = old.priority
  BY <1>2, <1>8 DEF Group
<1> HIDE DEF x
<1>10. Backed(x, shut[d] \cup rising[d])
  BY <1>2, <1>7, <1>8, <1>9 DEF Backed, Owed
<1>11. ASSUME ~edited[d], i \notin old.down
       PROVE  Counts(x)
  <2>1. \A j \in old.down : t[j] = old.track[j]
    BY <1>7, <1>8, <1>11
  <2>2. Sum(t, old.down) = Sum(old.track, old.down)
    BY <1>7, <1>8, <2>1, SumFacts
  <2>3. QED
    BY <1>2, <1>9, <1>11, <2>2 DEF Counts, Effective
<1>12. edited'[d] \/ Counts(x)
  BY <1>6, <1>11
<1>13. Sound(group', shut', rising', edited')
  BY <1>1, <1>3, <1>4, <1>6, <1>9, <1>10, <1>12, SoundOne
<1>14. Rest'
  BY <1>1, <1>4, <1>6 DEF Rest
<1>15. QED
  BY <1>13, <1>14 DEF HInv

LEMMA RemoveTrackStep ==
  ASSUME HInv, NEW d \in Device, NEW i \in Iface, RemoveTrack(d, i)
  PROVE  HInv'
<1> DEFINE old == group[d]
           t == [old.track EXCEPT ![i] = 0]
           x == [old EXCEPT !.track = t, !.down = @ \ {i}]
           y == IF i \in old.down THEN [x EXCEPT !.priority = Effective(x)] ELSE x
<1>1. Sound(group, shut, rising, edited) /\ Rest /\ Has(group, d) /\ group \in Groups
  BY DEF HInv, RemoveTrack, Sound
<1>2. /\ old \in Group /\ Backed(old, shut[d] \cup rising[d])
      /\ ~edited[d] => Counts(old)
  BY <1>1, SoundGroup
<1>3. group' = [group EXCEPT ![d] = y]
  <2>1. x = [old EXCEPT !.track[i] = 0, !.down = @ \ {i}]
    BY <1>2 DEF Group
  <2>2. QED
    BY <2>1 DEF RemoveTrack
<1>4. /\ shut' = shut /\ rising' = rising
      /\ edited' = [edited EXCEPT ![d] = @ /\ i \notin old.down]
      /\ UNCHANGED <<strayHello, strayDead, failed, flaps, failovers, early>>
      /\ configs' = configs + 1
  BY DEF RemoveTrack
<1>5. edited \in [Device -> BOOLEAN]
  BY <1>1 DEF Rest
<1>6. /\ edited' \in [Device -> BOOLEAN]
      /\ edited'[d] <=> edited[d] /\ i \notin old.down
      /\ \A e \in Device \ {d} : edited'[e] = edited[e]
  BY <1>4, <1>5
<1> HIDE DEF old
<1>7. /\ old.track \in [Iface -> Decrement \cup {0}] /\ old.track \in [Iface -> Nat]
      /\ old.down \in SUBSET Iface
  BY <1>2, TrackFacts
<1>8. /\ t \in [Iface -> Decrement \cup {0}] /\ t \in [Iface -> Nat]
      /\ \A j \in Iface : t[j] = IF j = i THEN 0 ELSE old.track[j]
  BY <1>7
<1> HIDE DEF t
<1>9. /\ x \in Group /\ x.track = t /\ x.down = old.down \ {i}
      /\ x.base = old.base /\ x.priority = old.priority
  BY <1>2, <1>7, <1>8 DEF Group
<1> HIDE DEF x
<1>10. /\ y \in Group /\ y.track = t /\ y.down = old.down \ {i} /\ y.base = old.base
       /\ y.priority = IF i \in old.down THEN Effective(x) ELSE old.priority
  <2>1. Effective(x) \in Nat
    BY <1>9, EffectiveFacts
  <2>2. QED
    BY <1>9, <2>1 DEF Group
<1> HIDE DEF y
<1>11. Backed(y, shut[d] \cup rising[d])
  BY <1>2, <1>7, <1>8, <1>10 DEF Backed, Owed
<1>12. CASE i \in old.down
  <2>1. Effective(y) = Effective(x)
    BY <1>9, <1>10 DEF Effective
  <2>2. Counts(y)
    BY <1>10, <1>12, <2>1 DEF Counts
  <2>3. Sound(group', shut', rising', edited')
    BY <1>1, <1>3, <1>4, <1>6, <1>10, <1>11, <2>2, SoundOne
  <2>4. QED
    BY <1>1, <1>4, <1>6, <2>3 DEF HInv, Rest
<1>13. CASE i \notin old.down
  <2>1. old.down \ {i} = old.down
    BY <1>13
  <2>2. \A j \in old.down : t[j] = old.track[j]
    BY <1>7, <1>8, <1>13
  <2>3. Sum(t, old.down) = Sum(old.track, old.down)
    BY <1>7, <1>8, <2>2, SumFacts
  <2>4. y.track = t /\ y.down = old.down /\ y.base = old.base /\ y.priority = old.priority
    BY <1>10, <1>13, <2>1
  <2>5. edited'[d] \/ Counts(y)
    BY <1>2, <1>6, <1>13, <2>3, <2>4 DEF Counts, Effective
  <2>6. Sound(group', shut', rising', edited')
    BY <1>1, <1>3, <1>4, <1>6, <1>10, <1>11, <2>5, SoundOne
  <2>7. QED
    BY <1>1, <1>4, <1>6, <2>6 DEF HInv, Rest
<1>14. QED
  BY <1>12, <1>13

\* A group is given the set of interfaces recorded as down and tells of it: the
\* groups are sound for the interfaces that are shut and rising afterwards.
LEMMA RetrackedSound ==
  ASSUME NEW g, NEW sh, NEW ri, NEW ed, Sound(g, sh, ri, ed), NEW d \in Device, Has(g, d),
         NEW down \in SUBSET Iface, NEW sh2, NEW ri2, NEW ed2,
         Owed(g[d].track, down, sh2[d] \cup ri2[d]),
         \A e \in Device \ {d} : ed2[e] = ed[e], Wider(Device \ {d}, sh, ri, sh2, ri2),
         NEW h \in Retracked(g, d, down)
  PROVE  Sound(h, sh2, ri2, ed2)
<1> DEFINE x == [g[d] EXCEPT !.down = down]
           y == [x EXCEPT !.priority = Effective(x)]
           k == [g EXCEPT ![d] = y]
<1>1. g[d] \in Group
  BY SoundGroup
<1>2. x \in Group /\ x.track = g[d].track /\ x.down = down /\ x.base = g[d].base
  BY <1>1 DEF Group
<1>3. h \in IF x.state = "Init" THEN {k} ELSE Advertised(k, d)
  BY DEF Retracked
<1> HIDE DEF x
<1>4. Effective(x) \in Nat
  BY <1>2, EffectiveFacts
<1>5. /\ y \in Group /\ y.track = x.track /\ y.down = x.down /\ y.base = x.base
      /\ y.priority = Effective(x)
  BY <1>2, <1>4 DEF Group
<1> HIDE DEF y
<1>6. Counts(y)
  BY <1>5 DEF Counts, Effective
<1>7. Backed(y, sh2[d] \cup ri2[d])
  BY <1>2, <1>5 DEF Backed, Owed
<1>8. Sound(k, sh2, ri2, ed2)
  BY <1>5, <1>6, <1>7, SoundAt
<1>9. k \in Groups /\ k[d] = y
  BY <1>8 DEF Sound, Groups
<1>10. Has(k, d)
  BY <1>5, <1>9, GroupFacts
<1> HIDE DEF k
<1>11. CASE h = k
  BY <1>8, <1>11
<1>12. CASE h \in Advertised(k, d)
  <2>1. Handled(k, h)
    BY <1>9, <1>10, <1>12, AdvertisedHandled
  <2>2. QED
    BY <1>8, <2>1, HandledSound
<1>13. QED
  BY <1>3, <1>11, <1>12

\* A group that falls to Init is the same group.
LEMMA FallenHandled ==
  ASSUME NEW g \in Groups, NEW d \in Device, NEW i \in Iface
  PROVE  Handled(g, Fallen(g, d, i))
<1>1. CASE Has(g, d) /\ i = Lan /\ g[d].state # "Init"
  <2> DEFINE x == [g[d] EXCEPT !.state = "Init", !.dead = FALSE]
  <2>1. g[d] \in Group
    BY <1>1, GroupFacts
  <2>2. x \in Group /\ SameGroup(g[d], x)
    BY <2>1, InState
  <2>3. Fallen(g, d, i) = [g EXCEPT ![d] = x]
    BY <1>1 DEF Fallen, Groups
  <2> HIDE DEF x
  <2>4. QED
    BY <1>1, <2>2, <2>3, HandledOne
<1>2. CASE ~(Has(g, d) /\ i = Lan /\ g[d].state # "Init")
  BY <1>2, HandledSame DEF Fallen
<1>3. QED
  BY <1>1, <1>2

LEMMA ShutdownStep ==
  ASSUME HInv, NEW d \in Device, NEW i \in Iface, Shutdown(d, i)
  PROVE  HInv'
<1> DEFINE g == Fallen(group, d, i)
           down == g[d].down \cup {i}
<1>1. Sound(group, shut, rising, edited) /\ Rest /\ group \in Groups
  BY DEF HInv, Sound
<1>2. /\ shut' = [shut EXCEPT ![d] = @ \cup {i}] /\ rising' = rising
      /\ UNCHANGED <<strayHello, strayDead, failed, configs, failovers, early>>
      /\ flaps' = flaps + 1
  BY DEF Shutdown
<1>3. Sound(g, shut, rising, edited)
  BY <1>1, FallenHandled, HandledSound
<1>4. IF Has(g, d) /\ PenaltyDue(g[d], i)
      THEN group' \in Retracked(g, d, down) /\ edited' = [edited EXCEPT ![d] = FALSE]
      ELSE group' = g /\ edited' = edited
  BY DEF Shutdown
<1> HIDE DEF g
<1>5. /\ edited \in [Device -> BOOLEAN] /\ shut \in [Device -> SUBSET Iface]
      /\ rising \in [Device -> SUBSET Iface]
  BY <1>1 DEF Rest
<1>6. /\ shut' \in [Device -> SUBSET Iface]
      /\ \A e \in Device : shut'[e] = IF e = d THEN shut[d] \cup {i} ELSE shut[e]
  BY <1>2, <1>5
<1>7. CASE Has(g, d) /\ PenaltyDue(g[d], i)
  <2>1. /\ edited' \in [Device -> BOOLEAN]
        /\ \A e \in Device \ {d} : edited'[e] = edited[e]
    BY <1>4, <1>5, <1>7
  <2>2. g[d] \in Group /\ Backed(g[d], shut[d] \cup rising[d])
    BY <1>3, <1>7, SoundGroup
  <2>3. down \in SUBSET Iface
    BY <2>2, TrackFacts
  <2>4. Owed(g[d].track, down, shut'[d] \cup rising'[d])
    BY <1>2, <1>6, <1>7, <2>2 DEF Backed, Owed, PenaltyDue
  <2>5. Wider(Device \ {d}, shut, rising, shut', rising')
    BY <1>2, <1>6 DEF Wider
  <2> HIDE DEF down
  <2>6. Sound(group', shut', rising', edited')
    BY <1>3, <1>4, <1>7, <2>1, <2>3, <2>4, <2>5, RetrackedSound
  <2>7. QED
    BY <1>1, <1>2, <1>6, <2>1, <2>6 DEF HInv, Rest
<1>8. CASE ~(Has(g, d) /\ PenaltyDue(g[d], i))
  <2>1. group' = g /\ edited' = edited
    BY <1>4, <1>8
  <2>2. Wider(Device, shut, rising, shut', rising')
    BY <1>2, <1>6 DEF Wider
  <2>3. Sound(group', shut', rising', edited')
    BY <1>3, <2>1, <2>2, SoundMore
  <2>4. QED
    BY <1>1, <1>2, <1>6, <2>1, <2>3 DEF HInv, Rest
<1>9. QED
  BY <1>7, <1>8

LEMMA NoShutdownStep ==
  ASSUME HInv, NEW d \in Device, NEW i \in Iface, NoShutdown(d, i)
  PROVE  HInv'
<1>1. Sound(group, shut, rising, edited) /\ Rest
  BY DEF HInv
<1>2. /\ i \in shut[d]
      /\ shut' = [shut EXCEPT ![d] = @ \ {i}] /\ rising' = [rising EXCEPT ![d] = @ \cup {i}]
      /\ UNCHANGED <<group, strayHello, strayDead, edited, failed, bounds>>
  BY DEF NoShutdown
<1>3. shut \in [Device -> SUBSET Iface] /\ rising \in [Device -> SUBSET Iface]
  BY <1>1 DEF Rest
<1>4. /\ shut' \in [Device -> SUBSET Iface] /\ rising' \in [Device -> SUBSET Iface]
      /\ Wider(Device, shut, rising, shut', rising')
  BY <1>2, <1>3 DEF Wider
<1>5. Sound(group', shut', rising', edited')
  BY <1>1, <1>2, <1>4, SoundMore
<1>6. QED
  BY <1>1, <1>2, <1>4, <1>5 DEF HInv, Rest, bounds

LEMMA IsUpStep ==
  ASSUME HInv, NEW d \in Device, NEW i \in Iface, IsUp(d, i)
  PROVE  HInv'
<1> DEFINE alone == i = Lan /\ Is(d, "Init") /\ \A p \in Others(d) : ~Has(group, p)
           g == IF alone THEN [group EXCEPT ![d].state = "Active"] ELSE group
           down == g[d].down \ {i}
<1>1. Sound(group, shut, rising, edited) /\ Rest /\ group \in Groups
  BY DEF HInv, Sound
<1>2. /\ rising' = [rising EXCEPT ![d] = @ \ {i}] /\ shut' = shut
      /\ UNCHANGED <<strayHello, strayDead, failed, bounds>>
  BY DEF IsUp
<1>3. IF Has(g, d) /\ ReliefDue(g[d], i)
      THEN group' \in Retracked(g, d, down) /\ edited' = [edited EXCEPT ![d] = FALSE]
      ELSE group' = g /\ edited' = edited
  BY DEF IsUp
<1>4. Handled(group, g)
  <2>1. CASE alone
    <3> DEFINE x == [group[d] EXCEPT !.state = "Active"]
    <3>1. Has(group, d)
      BY <2>1 DEF Is, Has
    <3>2. x \in Group /\ SameGroup(group[d], x)
      BY <1>1, <3>1, GroupFacts, InState
    <3>3. g = [group EXCEPT ![d] = x]
      BY <2>1
    <3> HIDE DEF x, g
    <3>4. QED
      BY <1>1, <3>1, <3>2, <3>3, HandledOne
  <2>2. CASE ~alone
    BY <1>1, <2>2, HandledSame
  <2>3. QED
    BY <2>1, <2>2
<1> HIDE DEF g
<1>5. Sound(g, shut, rising, edited)
  BY <1>1, <1>4, HandledSound
<1>6. edited \in [Device -> BOOLEAN] /\ rising \in [Device -> SUBSET Iface]
  BY <1>1 DEF Rest
<1>7. /\ rising' \in [Device -> SUBSET Iface]
      /\ \A e \in Device : rising'[e] = IF e = d THEN rising[d] \ {i} ELSE rising[e]
  BY <1>2, <1>6
<1>8. CASE Has(g, d) /\ ReliefDue(g[d], i)
  <2>1. /\ edited' \in [Device -> BOOLEAN]
        /\ \A e \in Device \ {d} : edited'[e] = edited[e]
    BY <1>3, <1>6, <1>8
  <2>2. g[d] \in Group /\ Backed(g[d], shut[d] \cup rising[d])
    BY <1>5, <1>8, SoundGroup
  <2>3. down \in SUBSET Iface
    BY <2>2, TrackFacts
  <2>4. Owed(g[d].track, down, shut'[d] \cup rising'[d])
    BY <1>2, <1>7, <2>2 DEF Backed, Owed
  <2>5. Wider(Device \ {d}, shut, rising, shut', rising')
    BY <1>2, <1>7 DEF Wider
  <2> HIDE DEF down
  <2>6. Sound(group', shut', rising', edited')
    BY <1>3, <1>5, <1>8, <2>1, <2>3, <2>4, <2>5, RetrackedSound
  <2>7. QED
    BY <1>1, <1>2, <1>7, <2>1, <2>6 DEF HInv, Rest, bounds
<1>9. CASE ~(Has(g, d) /\ ReliefDue(g[d], i))
  <2>1. group' = g /\ edited' = edited
    BY <1>3, <1>9
  \* an interface recorded as down is tracked, so that i is not recorded
  <2>2. Has(g, d) => Backed(g[d], shut'[d] \cup rising'[d])
    <3>1. Has(g, d) => Backed(g[d], shut[d] \cup rising[d]) /\ ~ReliefDue(g[d], i)
      BY <1>5, <1>9, SoundGroup
    <3>2. QED
      BY <1>2, <1>7, <3>1 DEF Backed, Owed, ReliefDue
  <2>3. \A e \in Device : Has(g, e) => Backed(g[e], shut'[e] \cup rising'[e])
    BY <1>2, <1>5, <1>7, <2>2 DEF Sound
  <2>4. Sound(group', shut', rising', edited')
    BY <1>5, <2>1, <2>3 DEF Sound
  <2>5. QED
    BY <1>1, <1>2, <1>7, <2>1, <2>4 DEF HInv, Rest, bounds
<1>10. QED
  BY <1>8, <1>9

LEMMA FailoverStep ==
  ASSUME HInv, NEW d \in Device, Failover(d)
  PROVE  HInv'
<1>1. Sound(group, shut, rising, edited) /\ Rest /\ group \in Groups
  BY DEF HInv, Sound
<1>2. /\ UNCHANGED <<strayHello, strayDead, shut, rising, edited, configs, flaps, early>>
      /\ failovers' = failovers + 1 /\ failed' = [failed EXCEPT ![d] = TRUE]
      /\ Has(group, d)
  BY DEF Failover, Is, Has
<1> DEFINE x == [group[d] EXCEPT !.state = "Init", !.hello = FALSE]
           y(e) == [group[e] EXCEPT !.state = "Active", !.dead = FALSE]
<1>3. group' = [e \in Device |-> IF e = d THEN x
                                 ELSE IF Is(e, "Standby") THEN y(e) ELSE group[e]]
  BY DEF Failover
<1>4. x \in Group /\ SameGroup(group[d], x)
  <2>1. group[d] \in Group
    BY <1>1, <1>2, GroupFacts
  <2>2. QED
    BY <2>1 DEF Group, SameGroup
<1>5. \A e \in Device : Is(e, "Standby") => /\ Has(group, e) /\ y(e) \in Group
                                            /\ SameGroup(group[e], y(e))
  <2> SUFFICES ASSUME NEW e \in Device, Is(e, "Standby")
               PROVE  Has(group, e) /\ y(e) \in Group /\ SameGroup(group[e], y(e))
    OBVIOUS
  <2>1. Has(group, e)
    BY DEF Is, Has
  <2>2. group[e] \in Group
    BY <1>1, <2>1, GroupFacts
  <2>3. QED
    BY <2>1, <2>2, InState
<1> HIDE DEF x, y
<1>6. ASSUME NEW e \in Device
      PROVE  /\ group'[e] \in Group \cup {NoGroup}
             /\ group'[e] # NoGroup <=> group[e] # NoGroup
             /\ group[e] # NoGroup => SameGroup(group[e], group'[e])
  <2>1. CASE e = d
    BY <1>2, <1>3, <1>4, <2>1, HsrpAssumption DEF Has
  <2>2. CASE e # d /\ Is(e, "Standby")
    BY <1>3, <1>5, <2>2, HsrpAssumption DEF Has
  <2>3. CASE e # d /\ ~Is(e, "Standby")
    BY <1>1, <1>3, <2>3 DEF Groups, SameGroup
  <2>4. QED
    BY <2>1, <2>2, <2>3
<1>7. group' \in Groups
  BY <1>3, <1>6 DEF Groups
<1>8. Handled(group, group')
  BY <1>1, <1>6, <1>7 DEF Handled, Has
<1>9. Sound(group', shut', rising', edited')
  BY <1>1, <1>2, <1>8, HandledSound
<1>10. QED
  BY <1>1, <1>2, <1>9 DEF HInv, Rest

LEMMA HelloStep ==
  ASSUME HInv, NEW d \in Device, Hello(d)
  PROVE  HInv'
<1>1. Sound(group, shut, rising, edited) /\ Rest /\ group \in Groups
  BY DEF HInv, Sound
<1>2. /\ UNCHANGED <<strayHello, strayDead, shut, rising, edited, failed, bounds>>
      /\ Has(group, d) /\ group' \in Advertised(group, d)
  BY DEF Hello, Sends
<1>3. Handled(group, group')
  BY <1>1, <1>2, AdvertisedHandled
<1>4. Sound(group', shut', rising', edited')
  BY <1>1, <1>2, <1>3, HandledSound
<1>5. QED
  BY <1>1, <1>2, <1>4 DEF HInv, Rest, bounds

\* A hold timer makes a Standby router Active.
LEMMA PromotedHandled ==
  ASSUME group \in Groups, NEW d \in Device
  PROVE  Handled(group, Promoted(d))
<1>1. CASE Is(d, "Standby")
  <2> DEFINE x == [group[d] EXCEPT !.state = "Active"]
  <2>1. Has(group, d)
    BY <1>1 DEF Is, Has
  <2>2. x \in Group /\ SameGroup(group[d], x)
    BY <2>1, GroupFacts, InState
  <2>3. Promoted(d) = [group EXCEPT ![d] = x]
    BY <1>1 DEF Promoted
  <2> HIDE DEF x
  <2>4. QED
    BY <2>1, <2>2, <2>3, HandledOne
<1>2. CASE ~Is(d, "Standby")
  BY <1>2, HandledSame DEF Promoted
<1>3. QED
  BY <1>1, <1>2

LEMMA HoldTimerStep ==
  ASSUME HInv, NEW d \in Device, HoldTimer(d)
  PROVE  HInv'
<1> DEFINE g == Promoted(d)
           x == [g[d] EXCEPT !.dead = FALSE]
<1>1. Sound(group, shut, rising, edited) /\ Rest /\ group \in Groups
  BY DEF HInv, Sound
<1>2. /\ UNCHANGED <<strayHello, strayDead, shut, rising, edited, failed, configs, flaps, failovers>>
      /\ Has(group, d) /\ group' = [g EXCEPT ![d].dead = FALSE]
  BY DEF HoldTimer
<1>3. early' \in Nat
  BY <1>1 DEF HoldTimer, Rest
<1>4. Handled(group, g)
  BY <1>1, PromotedHandled
<1> HIDE DEF g
<1>5. g \in Groups /\ Has(g, d)
  BY <1>2, <1>4 DEF Handled
<1>6. x \in Group /\ SameGroup(g[d], x)
  BY <1>5, GroupFacts, InState
<1>7. group' = [g EXCEPT ![d] = x]
  BY <1>2, <1>5 DEF Groups
<1> HIDE DEF x
<1>8. Handled(g, group')
  BY <1>5, <1>6, <1>7, HandledOne
<1>9. Sound(group', shut', rising', edited')
  BY <1>1, <1>2, <1>4, <1>8, HandledSound
<1>10. QED
  BY <1>1, <1>2, <1>3, <1>9 DEF HInv, Rest

LEMMA StrayHoldTimerStep ==
  ASSUME HInv, NEW d \in Device, StrayHoldTimer(d)
  PROVE  HInv'
<1>1. Sound(group, shut, rising, edited) /\ Rest /\ group \in Groups
  BY DEF HInv, Sound
<1>2. /\ UNCHANGED <<strayHello, shut, rising, edited, failed, bounds>>
      /\ group' = Promoted(d) /\ strayDead[d] > 0
      /\ strayDead' = [strayDead EXCEPT ![d] = @ - 1]
  BY DEF StrayHoldTimer
<1>3. strayDead' \in [Device -> Nat]
  BY <1>1, <1>2 DEF Rest
<1>4. Handled(group, group')
  BY <1>1, <1>2, PromotedHandled
<1>5. Sound(group', shut', rising', edited')
  BY <1>1, <1>2, <1>4, HandledSound
<1>6. QED
  BY <1>1, <1>2, <1>3, <1>5 DEF HInv, Rest, bounds

-----------------------------------------------------------------------------
LEMMA HInit == Init => HInv
<1> SUFFICES ASSUME Init PROVE HInv
  OBVIOUS
<1>1. Rest
  BY DEF Init, Rest
<1>2. group \in Groups /\ \A d \in Device : ~Has(group, d)
  BY DEF Init, Groups, Has
<1>3. QED
  BY <1>1, <1>2 DEF HInv, Sound

LEMMA HNext == HInv /\ [Next]_vars => HInv'
<1> SUFFICES ASSUME HInv, [Next]_vars PROVE HInv'
  OBVIOUS
<1>1. CASE UNCHANGED vars
  BY <1>1 DEF HInv, Rest, Sound, vars
<1>2. CASE \E d \in Device : Configure(d)
  BY <1>2, ConfigureStep
<1>3. CASE \E d \in Device, p \in Priority : SetPriority(d, p)
  BY <1>3, SetPriorityStep
<1>4. CASE \E d \in Device : SetPreempt(d)
  BY <1>4, SetPreemptStep
<1>5. CASE \E d \in Device, i \in Iface, n \in Decrement : SetTrack(d, i, n)
  BY <1>5, SetTrackStep
<1>6. CASE \E d \in Device, i \in Iface : RemoveTrack(d, i)
  BY <1>6, RemoveTrackStep
<1>7. CASE \E d \in Device, i \in Iface : Shutdown(d, i)
  BY <1>7, ShutdownStep
<1>8. CASE \E d \in Device, i \in Iface : NoShutdown(d, i)
  BY <1>8, NoShutdownStep
<1>9. CASE \E d \in Device, i \in Iface : IsUp(d, i)
  BY <1>9, IsUpStep
<1>10. CASE \E d \in Device : Failover(d)
  BY <1>10, FailoverStep
<1>11. CASE \E d \in Device : Hello(d)
  BY <1>11, HelloStep
<1>12. CASE \E d \in Device : HoldTimer(d)
  BY <1>12, HoldTimerStep
<1>13. CASE \E d \in Device : StrayHoldTimer(d)
  BY <1>13, StrayHoldTimerStep
<1>14. QED
  BY <1>1, <1>2, <1>3, <1>4, <1>5, <1>6, <1>7, <1>8, <1>9, <1>10, <1>11, <1>12, <1>13 DEF Next

LEMMA HInvAlways == Spec => []HInv
<1>1. Init => HInv
  BY HInit
<1>2. HInv /\ [Next]_vars => HInv'
  BY HNext
<1>3. QED
  BY <1>1, <1>2, PTL DEF Spec

\* The types, whatever is configured, shut, failed and timed out.
THEOREM HsrpTypeCorrect == Spec => []TypeOK
<1>1. HInv => TypeOK
  BY HInvIs
<1>2. QED
  BY <1>1, HInvAlways, PTL

\* hsrp_track_up and hsrp_remove_track take back every penalty that
\* hsrp_track_down gave: a router is penalised only for an interface that it
\* tracks and that is shut or still coming up, in any number of routers that
\* track any interfaces.
THEOREM HsrpPenaltyEnds == Spec => []PenaltyEnds
<1>1. HInv => PenaltyEnds
  BY HInvIs
<1>2. QED
  BY <1>1, HInvAlways, PTL

\* The priority that takes part in the elections is the configured one less
\* the decrements of all the interfaces recorded as down, however they were
\* recorded; hsrp_set_track alone leaves a changed decrement pending.
THEOREM HsrpPriorityTracked == Spec => []PriorityTracked
<1>1. HInv => PriorityTracked
  BY HInvIs
<1>2. QED
  BY <1>1, HInvAlways, PTL
=============================================================================
