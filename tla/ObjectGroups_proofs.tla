------------------------ MODULE ObjectGroups_proofs ------------------------
(***************************************************************************)
(* What the hygiene checks, the rule lookup and the planner find below a   *)
(* group is right, for any groups: nested, cyclic, with names that cannot  *)
(* be resolved.  The code's recursions make calls with ever less work to   *)
(* do; what a call returns is shown by induction on that work, and that    *)
(* there is a function with these values is a lemma of its own (Recursion).*)
(***************************************************************************)
EXTENDS ObjectGroups, SequenceTheorems, FiniteSetTheorems, WellFoundedInduction, TLAPS
-----------------------------------------------------------------------------
(* A set of natural numbers that is not empty has a least element.         *)
LEMMA Minimum ==
    ASSUME NEW S \in SUBSET Nat, S # {}
    PROVE  \E m \in S : \A k \in S : m <= k
<1>1. PICK m \in S : \A k \in S : ~(<<k, m>> \in OpToRel(<, Nat))
  BY WFMin, NatLessThanWellFounded, Zenon
<1>2. \A k \in S : ~(k < m)
  BY <1>1, Zenon DEF OpToRel
<1>3. QED
  BY <1>2

(* A recursive function exists when each value depends on values of a      *)
(* smaller measure only.                                                   *)
Recursive(S, R, Q, M, D, base, step) ==
    /\ Q \in [S -> SUBSET R] /\ M \in [S -> Nat]
    /\ D = {f \in [S -> R] : \A x \in S : f[x] \in Q[x]}
    /\ base \in D /\ step \in [D -> D]
    /\ \A f, g \in D : \A x \in S : (\A y \in S : M[y] < M[x] => f[y] = g[y]) => step[f][x] = step[g][x]

LEMMA Recursion ==
    ASSUME NEW S, NEW R, NEW Q, NEW M, NEW D, NEW base, NEW step, Recursive(S, R, Q, M, D, base, step)
    PROVE  \E f \in D : step[f] = f
<1> USE DEF Recursive
<1> DEFINE Solves(f, n) == f \in D /\ \A x \in S : M[x] < n => step[f][x] = f[x]
<1>1. \A f \in D : step[f] \in D /\ f \in [S -> R]
  OBVIOUS
<1>2. ASSUME NEW n \in Nat PROVE \E f : Solves(f, n)
  <2> DEFINE Bad == {k \in Nat : ~\E f : Solves(f, k)}
  <2>1. Bad = {}
    <3> SUFFICES ASSUME Bad # {} PROVE FALSE
      OBVIOUS
    <3>1. PICK k \in Bad : \A j \in Bad : k <= j
      <4>1. Bad \in SUBSET Nat
        OBVIOUS
      <4> HIDE DEF Bad
      <4>2. QED
        BY <4>1, Minimum
    <3>2. k \in Nat /\ ~\E f : Solves(f, k)
      BY <3>1
    <3>3. k # 0
      <4>1. \A x \in S : ~(M[x] < 0)
        OBVIOUS
      <4>2. Solves(base, 0)
        BY <4>1
      <4> HIDE DEF Solves
      <4>3. QED
        BY <3>2, <4>2
    <3>4. k - 1 \in Nat /\ ~(k <= k - 1)
      BY <3>2, <3>3
    <3>5. k - 1 \notin Bad
      <4> HIDE DEF Bad
      <4>1. QED
        BY <3>1, <3>4
    <3>6. PICK f : Solves(f, k - 1)
      <4> HIDE DEF Solves
      <4>1. QED
        BY <3>4, <3>5
    <3>7. ASSUME NEW x \in S, M[x] < k PROVE step[step[f]][x] = step[f][x]
      <4>1. \A y \in S : M[y] < M[x] => M[y] < k - 1
        BY <3>2, <3>7
      <4>2. \A y \in S : M[y] < M[x] => step[f][y] = f[y]
        BY <3>6, <4>1
      <4>3. f \in D /\ step[f] \in D
        BY <1>1, <3>6
      <4>4. QED
        BY <4>2, <4>3
    <3>8. Solves(step[f], k)
      BY <1>1, <3>6, <3>7
    <3> HIDE DEF Solves
    <3>9. QED
      BY <3>2, <3>8
  <2> HIDE DEF Solves
  <2>2. QED
    BY <2>1
<1>3. ASSUME NEW n \in Nat, NEW f, NEW g, Solves(f, n), Solves(g, n), NEW z \in S, M[z] < n
      PROVE  f[z] = g[z]
  <2> DEFINE Bad == {M[x] : x \in {y \in S : M[y] < n /\ f[y] # g[y]}}
  <2>1. Bad = {}
    <3> SUFFICES ASSUME Bad # {} PROVE FALSE
      OBVIOUS
    <3>1. PICK k \in Bad : \A j \in Bad : k <= j
      <4>1. Bad \in SUBSET Nat
        OBVIOUS
      <4> HIDE DEF Bad
      <4>2. QED
        BY <4>1, Minimum
    <3>2. PICK x \in S : k = M[x] /\ M[x] < n /\ f[x] # g[x]
      BY <3>1
    <3>3. ASSUME NEW y \in S, M[y] < M[x] PROVE f[y] = g[y]
      <4>1. M[y] < n /\ ~(k <= M[y])
        BY <3>2, <3>3
      <4>2. M[y] \notin Bad
        <5> HIDE DEF Bad
        <5>1. QED
          BY <3>1, <4>1
      <4>3. QED
        BY <4>1, <4>2
    <3>4. step[f][x] = step[g][x]
      BY <1>3, <3>3
    <3>5. QED
      BY <1>3, <3>2, <3>4
  <2>2. f[z] # g[z] => M[z] \in Bad
    BY <1>3
  <2> HIDE DEF Bad
  <2>3. QED
    BY <2>1, <2>2
<1> DEFINE F == [n \in Nat |-> CHOOSE f : Solves(f, n)]
           L == [x \in S |-> F[M[x] + 1][x]]
<1>4. \A n \in Nat : Solves(F[n], n)
  <2> HIDE DEF Solves
  <2>1. QED
    BY <1>2
<1> HIDE DEF F
<1>5. \A x \in S : M[x] \in Nat /\ M[x] + 1 \in Nat /\ M[x] < M[x] + 1
  OBVIOUS
<1>6. \A x \in S : F[M[x] + 1] \in D
  BY <1>4, <1>5
<1>7. \A x \in S : F[M[x] + 1][x] \in R /\ F[M[x] + 1][x] \in Q[x]
  BY <1>6
<1>8. L \in D
  BY <1>7
<1>9. ASSUME NEW x \in S PROVE step[L][x] = L[x]
  <2>1. step[F[M[x] + 1]][x] = F[M[x] + 1][x]
    BY <1>4, <1>5
  <2>2. ASSUME NEW y \in S, M[y] < M[x] PROVE L[y] = F[M[x] + 1][y]
    <3>1. Solves(F[M[x] + 1], M[x] + 1) /\ Solves(F[M[y] + 1], M[y] + 1)
      <4> HIDE DEF Solves
      <4>1. QED
        BY <1>4, <1>5
    <3>2. Solves(F[M[x] + 1], M[y] + 1)
      <4>1. \A v \in S : M[v] < M[y] + 1 => M[v] < M[x] + 1
        BY <1>5, <2>2
      <4>2. QED
        BY <3>1, <4>1
    <3>3. F[M[y] + 1][y] = F[M[x] + 1][y]
      <4> HIDE DEF Solves
      <4>1. QED
        BY <1>3, <1>5, <3>1, <3>2
    <3>4. QED
      BY <3>3
  <2> HIDE DEF L
  <2>3. step[L][x] = step[F[M[x] + 1]][x]
    BY <1>6, <1>8, <2>2
  <2>4. QED
    BY <2>1, <2>3 DEF L
<1>10. step[L] = L
  <2> HIDE DEF L
  <2>1. step[L] \in [S -> R] /\ L \in [S -> R]
    BY <1>1, <1>8
  <2>2. QED
    BY <1>9, <2>1
<1> HIDE DEF L
<1>11. QED
  BY <1>8, <1>10

(* What holds of a call when it holds of all calls of a smaller measure.   *)
LEMMA ByMeasure ==
    ASSUME NEW S, NEW M \in [S -> Nat], NEW Good,
           \A x \in S : (\A y \in S : M[y] < M[x] => y \in Good) => x \in Good
    PROVE  S \subseteq Good
<1> DEFINE Bad == {M[x] : x \in S \ Good}
<1> SUFFICES ASSUME Bad # {} PROVE FALSE
  OBVIOUS
<1>1. PICK k \in Bad : \A j \in Bad : k <= j
  <2>1. Bad \in SUBSET Nat
    OBVIOUS
  <2> HIDE DEF Bad
  <2>2. QED
    BY <2>1, Minimum
<1>2. PICK x \in S \ Good : k = M[x]
  BY <1>1
<1>3. ASSUME NEW y \in S, M[y] < M[x] PROVE y \in Good
  <2>1. ~(k <= M[y])
    BY <1>2, <1>3
  <2>2. M[y] \notin Bad
    <3> HIDE DEF Bad
    <3>1. QED
      BY <1>1, <2>1
  <2>3. QED
    BY <2>2
<1>4. QED
  BY <1>2, <1>3

LEMMA ByNumber ==
    ASSUME NEW Good, 0 \in Good, \A n \in Nat : n \in Good => n + 1 \in Good
    PROVE  Nat \subseteq Good
<1> DEFINE M == [n \in Nat |-> n]
<1>1. ASSUME NEW n \in Nat, \A k \in Nat : M[k] < M[n] => k \in Good PROVE n \in Good
  <2>1. CASE n = 0
    BY <2>1
  <2>2. CASE n # 0
    <3>1. n - 1 \in Nat /\ n - 1 < n /\ n - 1 + 1 = n
      BY <2>2
    <3>2. n - 1 \in Good
      BY <1>1, <3>1
    <3>3. QED
      BY <3>1, <3>2
  <2>3. QED
    BY <2>1, <2>2
<1>2. M \in [Nat -> Nat]
  OBVIOUS
<1> HIDE DEF M
<1>3. QED
  BY <1>1, <1>2, ByMeasure

(* What is below a name is the least set that has it and the members of    *)
(* its groups.                                                             *)
MembersOf(names) == UNION {Listed(g) : g \in names \cap Group}

LEMMA MembersOfMore ==
    ASSUME NEW s, NEW t
    PROVE  /\ s \cap Group \subseteq t => MembersOf(s) \subseteq MembersOf(t)
           /\ \A c : MembersOf(s) \subseteq c <=> \A g \in s \cap Group : Listed(g) \subseteq c
<1>1. s \cap Group \subseteq t => MembersOf(s) \subseteq MembersOf(t)
  BY DEF MembersOf
<1>2. ASSUME NEW c PROVE MembersOf(s) \subseteq c <=> \A g \in s \cap Group : Listed(g) \subseteq c
  BY DEF MembersOf
<1>3. QED
  BY <1>1, <1>2

LEMMA BelowSteps ==
    ASSUME NEW names
    PROVE  \E f : /\ f[0] = names
                  /\ \A n \in Nat : f[n + 1] = f[n] \cup MembersOf(f[n])
                  /\ Below(names) = f[Cardinality(Group)]
<1> DEFINE all == names \cup MembersOf(Group)
           R == SUBSET all
           Q == [n \in Nat |-> R]
           M == [n \in Nat |-> n]
           D == {f \in [Nat -> R] : \A n \in Nat : f[n] \in Q[n]}
           base == [n \in Nat |-> {}]
           Once(f, n) == IF n = 0 THEN names ELSE f[n - 1] \cup UNION {Listed(g) : g \in f[n - 1] \cap Group}
           step == [f \in D |-> [n \in Nat |-> Once(f, n)]]
           Is(f) == f = [n \in Nat |-> IF n = 0 THEN names
                                       ELSE f[n - 1] \cup UNION {Listed(g) : g \in f[n - 1] \cap Group}]
<1>1. Q \in [Nat -> SUBSET R] /\ M \in [Nat -> Nat] /\ base \in D
  OBVIOUS
<1>2. ASSUME NEW f \in D, NEW n \in Nat PROVE Once(f, n) \in R
  <2>1. CASE n = 0
    BY <2>1
  <2>2. CASE n # 0
    <3>1. n - 1 \in Nat
      BY <2>2
    <3>2. f[n - 1] \in R
      BY <3>1
    <3>3. UNION {Listed(g) : g \in f[n - 1] \cap Group} \subseteq MembersOf(Group)
      BY DEF MembersOf
    <3> HIDE DEF D
    <3>4. QED
      BY <2>2, <3>2, <3>3
  <2>3. QED
    BY <2>1, <2>2
<1>3. step \in [D -> D]
  <2>1. \A f \in D : [n \in Nat |-> Once(f, n)] \in D
    <3> HIDE DEF Once, R
    <3>1. QED
      BY <1>2
  <2> HIDE DEF D, Once
  <2>2. QED
    BY <2>1
<1>4. ASSUME NEW f \in D, NEW g \in D, NEW n \in Nat, \A k \in Nat : M[k] < M[n] => f[k] = g[k]
      PROVE  step[f][n] = step[g][n]
  <2>1. step[f][n] = Once(f, n) /\ step[g][n] = Once(g, n)
    <3> HIDE DEF Once, D
    <3>1. QED
      OBVIOUS
  <2>2. CASE n = 0
    BY <2>1, <2>2
  <2>3. CASE n # 0
    <3>1. n - 1 \in Nat /\ M[n - 1] < M[n]
      BY <2>3
    <3>2. f[n - 1] = g[n - 1]
      BY <1>4, <3>1
    <3> HIDE DEF D, step, M
    <3>3. QED
      BY <2>1, <2>3, <3>2
  <2>4. QED
    BY <2>2, <2>3
<1>5. PICK h \in D : step[h] = h
  <2>1. D = {f \in [Nat -> R] : \A n \in Nat : f[n] \in Q[n]}
    OBVIOUS
  <2> HIDE DEF D, Q, M, base, step, R
  <2>2. \A g1, g2 \in D : \A n \in Nat : (\A k \in Nat : M[k] < M[n] => g1[k] = g2[k]) => step[g1][n] = step[g2][n]
    BY <1>4
  <2>3. Recursive(Nat, R, Q, M, D, base, step)
    BY <1>1, <1>3, <2>1, <2>2 DEF Recursive
  <2>4. QED
    BY <2>3, Recursion
<1>6. Is(h)
  <2>1. step[h] = [n \in Nat |-> Once(h, n)]
    <3> HIDE DEF Once, D
    <3>1. QED
      OBVIOUS
  <2> HIDE DEF step, D
  <2>2. QED
    BY <1>5, <2>1
<1> DEFINE f == CHOOSE g : Is(g)
<1>7. Is(f)
  <2> HIDE DEF Is
  <2>1. QED
    BY <1>6
<1>8. Below(names) = f[Cardinality(Group)]
  BY DEF Below
<1> HIDE DEF f
<1>9. f[0] = names
  BY <1>7
<1>10. ASSUME NEW n \in Nat PROVE f[n + 1] = f[n] \cup MembersOf(f[n])
  <2>1. n + 1 \in Nat /\ n + 1 # 0 /\ n + 1 - 1 = n
    OBVIOUS
  <2>2. f[n + 1] = f[n + 1 - 1] \cup UNION {Listed(g) : g \in f[n + 1 - 1] \cap Group}
    BY <1>7, <2>1
  <2>3. QED
    BY <2>1, <2>2 DEF MembersOf
<1>11. QED
  BY <1>8, <1>9, <1>10

LEMMA BelowIs ==
    ASSUME NEW names
    PROVE  /\ names \subseteq Below(names)
           /\ \A g \in Below(names) \cap Group : Listed(g) \subseteq Below(names)
           /\ \A c : names \subseteq c /\ (\A g \in c \cap Group : Listed(g) \subseteq c) => Below(names) \subseteq c
<1> DEFINE most == Cardinality(Group)
<1>1. PICK f : /\ f[0] = names
               /\ \A n \in Nat : f[n + 1] = f[n] \cup MembersOf(f[n])
               /\ Below(names) = f[most]
  BY BelowSteps
<1>2. IsFiniteSet(Group) /\ most \in Nat
  BY GroupsAssumption, FS_CardinalityType
<1> HIDE DEF most
<1>3. \A n \in Nat : names \subseteq f[n]
  <2> DEFINE Good == {n \in Nat : names \subseteq f[n]}
  <2>1. 0 \in Good
    BY <1>1
  <2>2. \A n \in Nat : n \in Good => n + 1 \in Good
    BY <1>1
  <2> HIDE DEF Good
  <2>3. Nat \subseteq Good
    BY <2>1, <2>2, ByNumber
  <2>4. QED
    BY <2>3 DEF Good
<1>4. ASSUME NEW c, names \subseteq c, \A g \in c \cap Group : Listed(g) \subseteq c
      PROVE  Below(names) \subseteq c
  <2> DEFINE Good == {n \in Nat : f[n] \subseteq c}
  <2>1. 0 \in Good
    BY <1>1, <1>4
  <2>2. ASSUME NEW n \in Nat, n \in Good PROVE n + 1 \in Good
    <3>1. f[n] \subseteq c /\ n + 1 \in Nat
      BY <2>2
    <3>2. \A g \in f[n] \cap Group : Listed(g) \subseteq c
      BY <1>4, <3>1
    <3>3. MembersOf(f[n]) \subseteq c
      BY <3>2, MembersOfMore
    <3>4. QED
      BY <1>1, <3>1, <3>3
  <2> HIDE DEF Good
  <2>3. Nat \subseteq Good
    BY <2>1, <2>2, ByNumber
  <2>4. QED
    BY <1>1, <1>2, <2>3 DEF Good
<1>5. f[most + 1] = f[most]
  <2> SUFFICES ASSUME f[most + 1] # f[most] PROVE FALSE
    OBVIOUS
  <2>1. \A k \in 0..most : f[most - k + 1] # f[most - k]
    <3> DEFINE Good == {k \in Nat : k <= most => f[most - k + 1] # f[most - k]}
    <3>1. 0 \in Good
      <4>1. most - 0 = most
        BY <1>2
      <4>2. f[most - 0 + 1] # f[most - 0]
        BY <4>1
      <4>3. QED
        BY <4>2
    <3>2. ASSUME NEW k \in Nat, k \in Good PROVE k + 1 \in Good
      <4>1. CASE k + 1 <= most
        <5>1. PICK n \in Nat : n = most - (k + 1)
          BY <1>2, <4>1
        <5>2. n + 1 \in Nat /\ n + 1 = most - k /\ n + 1 + 1 = most - k + 1 /\ k <= most /\ n + 1 = most - (k + 1) + 1
          BY <1>2, <4>1, <5>1
        <5>3. f[n + 1 + 1] # f[n + 1]
          BY <3>2, <5>2
        <5>4. f[n + 1] = f[n] \cup MembersOf(f[n]) /\ f[n + 1 + 1] = f[n + 1] \cup MembersOf(f[n + 1])
          BY <1>1, <5>2
        <5>5. f[n + 1] # f[n]
          BY <5>3, <5>4
        <5>6. QED
          BY <5>1, <5>2, <5>5
      <4>2. CASE ~(k + 1 <= most)
        BY <4>2
      <4>3. QED
        BY <4>1, <4>2
    <3> HIDE DEF Good
    <3>3. Nat \subseteq Good
      BY <3>1, <3>2, ByNumber
    <3>4. QED
      BY <3>3, <1>2 DEF Good
  <2>2. \A n \in 0..most : f[n + 1] # f[n]
    <3> SUFFICES ASSUME NEW n \in 0..most PROVE f[n + 1] # f[n]
      OBVIOUS
    <3>1. PICK k \in 0..most : k = most - n
      BY <1>2
    <3>2. most - k = n
      BY <1>2, <3>1
    <3>3. QED
      BY <2>1, <3>2
  <2>3. \A n \in Nat : IsFiniteSet(f[n] \cap Group) /\ Cardinality(f[n] \cap Group) \in Nat /\ Cardinality(f[n] \cap Group) <= most
    <3> SUFFICES ASSUME NEW n \in Nat
                 PROVE  /\ IsFiniteSet(f[n] \cap Group) /\ Cardinality(f[n] \cap Group) \in Nat
                        /\ Cardinality(f[n] \cap Group) <= most
      OBVIOUS
    <3>1. f[n] \cap Group \subseteq Group
      OBVIOUS
    <3>2. IsFiniteSet(f[n] \cap Group) /\ Cardinality(f[n] \cap Group) <= Cardinality(Group)
      BY <1>2, <3>1, FS_Subset
    <3>3. QED
      BY <3>2, FS_CardinalityType DEF most
  <2>4. \A n \in Nat : n <= most => Cardinality(f[n] \cap Group) >= n + 1
    <3> DEFINE Good == {n \in Nat : n <= most => Cardinality(f[n] \cap Group) >= n + 1}
    <3>1. 0 \in Good
      <4>1. 0 \in 0..most /\ 0 \in Nat /\ 0 + 1 = 1
        BY <1>2
      <4>2. f[0 + 1] # f[0] /\ f[0 + 1] = f[0] \cup MembersOf(f[0])
        BY <1>1, <2>2, <4>1
      <4>3. f[0] \cap Group # {}
        BY <4>2 DEF MembersOf
      <4>4. Cardinality(f[0] \cap Group) # 0
        BY <2>3, <4>1, <4>3, FS_EmptySet
      <4>5. Cardinality(f[0] \cap Group) >= 0 + 1
        BY <2>3, <4>1, <4>4
      <4>6. QED
        BY <4>5
    <3>2. ASSUME NEW n \in Nat, n \in Good PROVE n + 1 \in Good
      <4>1. CASE n + 1 <= most
        <5>1. n \in 0..most /\ n + 1 \in 0..most /\ n + 1 \in Nat /\ n <= most
          BY <1>2, <4>1
        <5>2. f[n + 1] = f[n] \cup MembersOf(f[n]) /\ f[n + 1 + 1] = f[n + 1] \cup MembersOf(f[n + 1])
          BY <1>1, <5>1
        <5>3. f[n + 1 + 1] # f[n + 1]
          BY <2>2, <5>1
        <5>4. f[n] \cap Group # f[n + 1] \cap Group
          <6> SUFFICES ASSUME f[n] \cap Group = f[n + 1] \cap Group PROVE FALSE
            OBVIOUS
          <6>1. MembersOf(f[n + 1]) = MembersOf(f[n])
            BY DEF MembersOf
          <6>2. QED
            BY <5>2, <5>3, <6>1
        <5> DEFINE s == f[n] \cap Group
                   t == f[n + 1] \cap Group
        <5>5. s \subseteq t /\ s # t
          BY <5>2, <5>4
        <5>6. IsFiniteSet(t) /\ Cardinality(t) \in Nat /\ Cardinality(s) \in Nat
          BY <2>3, <5>1
        <5>7. Cardinality(s) >= n + 1
          BY <3>2, <5>1
        <5> HIDE DEF s, t
        <5>8. Cardinality(s) < Cardinality(t)
          BY <5>5, <5>6, FS_Subset
        <5>9. Cardinality(t) >= n + 1 + 1
          BY <5>6, <5>7, <5>8
        <5>10. QED
          BY <5>1, <5>9 DEF t
      <4>2. CASE ~(n + 1 <= most)
        BY <4>2
      <4>3. QED
        BY <4>1, <4>2
    <3> HIDE DEF Good
    <3>3. Nat \subseteq Good
      BY <3>1, <3>2, ByNumber
    <3>4. QED
      BY <3>3 DEF Good
  <2>5. Cardinality(f[most] \cap Group) >= most + 1
    BY <1>2, <2>4
  <2>6. QED
    BY <1>2, <2>3, <2>5
<1>6. MembersOf(f[most]) \subseteq f[most]
  BY <1>1, <1>2, <1>5
<1>7. \A g \in f[most] \cap Group : Listed(g) \subseteq f[most]
  BY <1>6, MembersOfMore
<1>8. QED
  BY <1>1, <1>2, <1>3, <1>4, <1>7

LEMMA BelowOne ==
    ASSUME NEW names, NEW n \in Below(names)
    PROVE  Below({n}) \subseteq Below(names)
<1>1. {n} \subseteq Below(names) /\ \A g \in Below(names) \cap Group : Listed(g) \subseteq Below(names)
  BY BelowIs
<1>2. QED
  BY <1>1, BelowIs

LEMMA BelowSome ==
    ASSUME NEW names, NEW n \in Below(names)
    PROVE  \E x \in names : n \in Below({x})
<1> DEFINE c == UNION {Below({x}) : x \in names}
<1>1. names \subseteq c
  <2>1. \A x \in names : x \in Below({x})
    BY BelowIs
  <2>2. QED
    BY <2>1
<1>2. ASSUME NEW g \in c \cap Group PROVE Listed(g) \subseteq c
  <2>1. PICK x \in names : g \in Below({x})
    OBVIOUS
  <2>2. Listed(g) \subseteq Below({x})
    BY <2>1, BelowIs
  <2>3. QED
    BY <2>2
<1>3. Below(names) \subseteq c
  <2> HIDE DEF c
  <2>1. QED
    BY <1>1, <1>2, BelowIs
<1>4. QED
  BY <1>3

LEMMA BelowGroup ==
    ASSUME NEW g \in Group
    PROVE  Below({g}) = {g} \cup Below(Listed(g))
<1>1. g \in Below({g}) /\ Listed(g) \subseteq Below({g})
  BY BelowIs
<1>2. \A h \in Below({g}) \cap Group : Listed(h) \subseteq Below({g})
  BY BelowIs
<1>3. Below(Listed(g)) \subseteq Below({g})
  BY <1>1, <1>2, BelowIs
<1> DEFINE c == {g} \cup Below(Listed(g))
<1>4. \A h \in c \cap Group : Listed(h) \subseteq c
  BY BelowIs
<1>5. {g} \subseteq c
  OBVIOUS
<1>6. Below({g}) \subseteq c
  <2> HIDE DEF c
  <2>1. QED
    BY <1>4, <1>5, BelowIs
<1>7. QED
  BY <1>1, <1>3, <1>6

LEMMA BelowObject ==
    ASSUME NEW x, x \notin Group
    PROVE  Below({x}) = {x}
<1>1. \A g \in {x} \cap Group : Listed(g) \subseteq {x}
  OBVIOUS
<1>2. Below({x}) \subseteq {x} /\ {x} \subseteq Below({x})
  BY <1>1, BelowIs
<1>3. QED
  BY <1>2

(* Lists of names.                                                         *)
NamesIn(s) == {s[i] : i \in 1..Len(s)}

LEMMA NamesOfParts ==
    ASSUME NEW S
    PROVE  /\ \A s \in Seq(S) : NamesIn(s) \subseteq S
           /\ \A s, t \in Seq(S) : NamesIn(s \o t) = NamesIn(s) \cup NamesIn(t)
           /\ \A s \in Seq(S) : s # <<>> =>
                /\ Head(s) \in S /\ Tail(s) \in Seq(S) /\ Len(Tail(s)) = Len(s) - 1 /\ Len(s) \in Nat \ {0}
                /\ NamesIn(s) = {Head(s)} \cup NamesIn(Tail(s))
           /\ \A s \in Seq(S) : s # <<>> =>
                /\ s[Len(s)] \in S /\ SubSeq(s, 1, Len(s) - 1) \in Seq(S) /\ Len(SubSeq(s, 1, Len(s) - 1)) = Len(s) - 1
                /\ NamesIn(s) = {s[Len(s)]} \cup NamesIn(SubSeq(s, 1, Len(s) - 1))
<1>1. \A s \in Seq(S) : NamesIn(s) \subseteq S
  BY DEF NamesIn
<1>2. ASSUME NEW s \in Seq(S), NEW t \in Seq(S) PROVE NamesIn(s \o t) = NamesIn(s) \cup NamesIn(t)
  <2>1. Len(s) \in Nat /\ Len(t) \in Nat
    OBVIOUS
  <2>2. /\ Len(s \o t) = Len(s) + Len(t)
        /\ \A i \in 1..Len(s) + Len(t) : (s \o t)[i] = IF i <= Len(s) THEN s[i] ELSE t[i - Len(s)]
    BY ConcatProperties, Zenon
  <2>3. ASSUME NEW x \in NamesIn(s \o t) PROVE x \in NamesIn(s) \cup NamesIn(t)
    <3>1. PICK i \in 1..Len(s) + Len(t) : x = (s \o t)[i]
      BY <2>2, <2>3 DEF NamesIn
    <3>2. CASE i <= Len(s)
      <4>1. i \in 1..Len(s) /\ x = s[i]
        BY <2>1, <2>2, <3>1, <3>2
      <4>2. QED
        BY <4>1 DEF NamesIn
    <3>3. CASE ~(i <= Len(s))
      <4>1. i - Len(s) \in 1..Len(t) /\ x = t[i - Len(s)]
        BY <2>1, <2>2, <3>1, <3>3
      <4>2. QED
        BY <4>1 DEF NamesIn
    <3>4. QED
      BY <3>2, <3>3
  <2>4. ASSUME NEW x \in NamesIn(s) PROVE x \in NamesIn(s \o t)
    <3>1. PICK i \in 1..Len(s) : x = s[i]
      BY <2>4 DEF NamesIn
    <3>2. i \in 1..Len(s) + Len(t) /\ i <= Len(s)
      BY <2>1, <3>1
    <3>3. x = (s \o t)[i]
      BY <2>2, <3>1, <3>2
    <3>4. QED
      BY <2>2, <3>2, <3>3 DEF NamesIn
  <2>5. ASSUME NEW x \in NamesIn(t) PROVE x \in NamesIn(s \o t)
    <3>1. PICK i \in 1..Len(t) : x = t[i]
      BY <2>5 DEF NamesIn
    <3>2. PICK j \in Nat : j = i + Len(s)
      BY <2>1, <3>1
    <3>3. j \in 1..Len(s) + Len(t) /\ ~(j <= Len(s)) /\ j - Len(s) = i
      BY <2>1, <3>1, <3>2
    <3>4. x = (s \o t)[j]
      BY <2>2, <3>1, <3>3
    <3>5. QED
      BY <2>2, <3>3, <3>4 DEF NamesIn
  <2>6. QED
    BY <2>3, <2>4, <2>5
<1>3. ASSUME NEW s \in Seq(S), s # <<>>
      PROVE  /\ Head(s) \in S /\ Tail(s) \in Seq(S) /\ Len(Tail(s)) = Len(s) - 1 /\ Len(s) \in Nat \ {0}
             /\ NamesIn(s) = {Head(s)} \cup NamesIn(Tail(s))
  <2>1. /\ Head(s) \in S /\ Tail(s) \in Seq(S) /\ Len(Tail(s)) = Len(s) - 1 /\ Len(s) \in Nat \ {0}
        /\ Head(s) = s[1] /\ \A i \in 1..(Len(s) - 1) : Tail(s)[i] = s[i + 1]
    BY <1>3
  <2>2. \A i : i \in 1..Len(s) <=> i = 1 \/ (i - 1 \in 1..(Len(s) - 1) /\ i - 1 + 1 = i)
    BY <2>1
  <2>3. ASSUME NEW i \in 1..Len(s) PROVE s[i] \in {Head(s)} \cup NamesIn(Tail(s))
    <3>1. CASE i = 1
      BY <2>1, <3>1
    <3>2. CASE i # 1
      <4>1. i - 1 \in 1..Len(Tail(s)) /\ i - 1 + 1 = i
        BY <2>1, <2>2, <3>2
      <4>2. Tail(s)[i - 1] = s[i]
        BY <2>1, <4>1
      <4>3. QED
        BY <4>1, <4>2 DEF NamesIn
    <3>3. QED
      BY <3>1, <3>2
  <2>4. ASSUME NEW i \in 1..Len(Tail(s)) PROVE Tail(s)[i] \in NamesIn(s)
    <3>1. i + 1 \in 1..Len(s) /\ Tail(s)[i] = s[i + 1]
      BY <2>1
    <3>2. QED
      BY <3>1 DEF NamesIn
  <2>5. Head(s) \in NamesIn(s)
    <3>1. 1 \in 1..Len(s)
      BY <2>1
    <3>2. QED
      BY <2>1, <3>1 DEF NamesIn
  <2>6. NamesIn(s) = {Head(s)} \cup NamesIn(Tail(s))
    <3>1. NamesIn(s) \subseteq {Head(s)} \cup NamesIn(Tail(s))
      BY <2>3 DEF NamesIn
    <3>2. NamesIn(Tail(s)) \subseteq NamesIn(s)
      <4> DEFINE t == Tail(s)
      <4>1. \A i \in 1..Len(t) : t[i] \in NamesIn(s)
        BY <2>4
      <4> HIDE DEF t
      <4>2. NamesIn(t) \subseteq NamesIn(s)
        BY <4>1 DEF NamesIn
      <4>3. QED
        BY <4>2 DEF t
    <3>3. QED
      BY <2>5, <3>1, <3>2
  <2>7. QED
    BY <2>1, <2>6
<1>4. ASSUME NEW s \in Seq(S), s # <<>>
      PROVE  /\ s[Len(s)] \in S /\ SubSeq(s, 1, Len(s) - 1) \in Seq(S) /\ Len(SubSeq(s, 1, Len(s) - 1)) = Len(s) - 1
             /\ NamesIn(s) = {s[Len(s)]} \cup NamesIn(SubSeq(s, 1, Len(s) - 1))
  <2>1. PICK n \in Nat : n = Len(s) - 1
    BY <1>4
  <2>2. PICK t : t = SubSeq(s, 1, n)
    OBVIOUS
  <2>3. Len(s) = n + 1 /\ s[n + 1] \in S
    BY <1>4, <2>1
  <2>4. t \in Seq(S) /\ Len(t) = n /\ \A i \in 1..n : t[i] = s[i]
    <3>1. t = [i \in 1..n |-> s[i]]
      BY <2>2, <2>3
    <3>2. \A i \in 1..n : s[i] \in S
      BY <2>3
    <3>3. QED
      BY <3>1, <3>2
  <2>5. \A i : i \in 1..(n + 1) <=> i \in 1..n \/ i = n + 1
    OBVIOUS
  <2>6. NamesIn(s) = {s[n + 1]} \cup NamesIn(t)
    BY <2>3, <2>4, <2>5 DEF NamesIn
  <2>7. QED
    BY <2>1, <2>2, <2>3, <2>4, <2>6
<1>5. QED
  BY <1>1, <1>2, <1>3, <1>4

LEMMA ListedIs == ASSUME NEW g, members[g] \in Seq(Member) PROVE Listed(g) = NamesIn(members[g])
  BY DEF Listed, NamesIn

(* What ends a walk: each group that is entered costs more than its        *)
(* members can add.                                                        *)
Work(seen, n) == Cardinality(Group \ seen) * (MaxMembers + 1) + n

LEMMA Products ==
    ASSUME NEW a \in Nat, NEW b \in Nat, NEW k \in Nat
    PROVE  a * k \in Nat /\ (a <= b => a * k <= b * k) /\ (a < b => a * k + k <= b * k)
<1>1. a * k \in Nat /\ b * k \in Nat
  OBVIOUS
<1>2. ASSUME a <= b PROVE a * k <= b * k
  <2>1. PICK d \in Nat : b = a + d
    BY <1>2
  <2>2. b * k = a * k + d * k /\ d * k \in Nat
    BY <2>1
  <2>3. QED
    BY <1>1, <2>2
<1>3. ASSUME a < b PROVE a * k + k <= b * k
  <2>1. PICK d \in Nat : b = a + 1 + d
    BY <1>3
  <2>2. b * k = a * k + k + d * k /\ d * k \in Nat
    BY <2>1
  <2>3. QED
    BY <1>1, <2>2
<1>4. QED
  BY <1>1, <1>2, <1>3

LEMMA LessWork ==
    ASSUME NEW seen, NEW n \in Nat
    PROVE  /\ Work(seen, n) \in Nat
           /\ \A more : \A k \in Nat : seen \subseteq more /\ k < n => Work(more, k) < Work(seen, n)
           /\ \A g \in Group \ seen, k \in Nat : k <= MaxMembers + n - 1 /\ n # 0 => Work(seen \cup {g}, k) < Work(seen, n)
<1> DEFINE K == MaxMembers + 1
           left(s) == Cardinality(Group \ s)
<1>1. IsFiniteSet(Group) /\ MaxMembers \in Nat /\ K \in Nat
  BY GroupsAssumption
<1>2. \A s : IsFiniteSet(Group \ s) /\ left(s) \in Nat
  <2> SUFFICES ASSUME NEW s PROVE IsFiniteSet(Group \ s) /\ left(s) \in Nat
    OBVIOUS
  <2>1. Group \ s \subseteq Group
    OBVIOUS
  <2>2. IsFiniteSet(Group \ s)
    BY <1>1, <2>1, FS_Subset
  <2>3. QED
    BY <2>2, FS_CardinalityType
<1>3. \A s, j : Work(s, j) = left(s) * K + j
  BY DEF Work
<1>4. \A s : left(s) * K \in Nat
  <2> HIDE DEF left, K
  <2>1. QED
    BY <1>1, <1>2, Products
<1>5. ASSUME NEW more, NEW k \in Nat, seen \subseteq more, k < n PROVE Work(more, k) < Work(seen, n)
  <2>1. Group \ more \subseteq Group \ seen
    BY <1>5
  <2>2. left(more) <= left(seen)
    BY <1>2, <2>1, FS_Subset
  <2>3. left(more) * K <= left(seen) * K
    <3> HIDE DEF left, K
    <3>1. QED
      BY <1>1, <1>2, <2>2, Products
  <2>4. QED
    <3> HIDE DEF left, K
    <3>1. PICK u \in Nat : u = left(more) * K
      BY <1>4
    <3>2. PICK v \in Nat : v = left(seen) * K
      BY <1>4
    <3>3. u + k < v + n
      BY <1>5, <2>3, <3>1, <3>2
    <3>4. QED
      BY <1>3, <3>1, <3>2, <3>3
<1>6. ASSUME NEW g \in Group \ seen, NEW k \in Nat, k <= MaxMembers + n - 1, n # 0
      PROVE  Work(seen \cup {g}, k) < Work(seen, n)
  <2>1. Group \ (seen \cup {g}) = (Group \ seen) \ {g} /\ g \in Group \ seen
    OBVIOUS
  <2>2. left(seen \cup {g}) < left(seen)
    <3>1. Cardinality((Group \ seen) \ {g}) = Cardinality(Group \ seen) - 1
      BY <1>2, FS_RemoveElement
    <3>2. QED
      BY <1>2, <2>1, <3>1
  <2>3. left(seen \cup {g}) * K + K <= left(seen) * K
    <3> HIDE DEF left, K
    <3>1. QED
      BY <1>1, <1>2, <2>2, Products
  <2>4. QED
    <3>1. PICK u \in Nat : u = left(seen \cup {g}) * K
      BY <1>4
    <3>2. PICK v \in Nat : v = left(seen) * K
      BY <1>4
    <3>3. PICK w \in Nat : w = K
      BY <1>1
    <3>4. u + w <= v
      <4> HIDE DEF left, K
      <4>1. QED
        BY <2>3, <3>1, <3>2, <3>3
    <3>5. u + k < v + n
      BY <1>1, <1>6, <3>3, <3>4
    <3> HIDE DEF left, K
    <3>6. QED
      BY <1>3, <3>1, <3>2, <3>5
<1>7. Work(seen, n) \in Nat
  <2> HIDE DEF left, K
  <2>1. PICK v \in Nat : v = left(seen) * K
    BY <1>4
  <2>2. QED
    BY <1>3, <2>1
<1>8. QED
  BY <1>5, <1>6, <1>7

LEMMA MembersAre ==
    ASSUME GroupsTypeOK, NEW g \in Group
    PROVE  /\ members[g] \in Seq(Member) /\ Len(members[g]) \in Nat /\ Len(members[g]) <= MaxMembers
           /\ Listed(g) = NamesIn(members[g]) /\ Listed(g) \subseteq Member
<1>1. members[g] \in Seq(Member) /\ Len(members[g]) \in Nat /\ Len(members[g]) <= MaxMembers
  BY DEF GroupsTypeOK
<1>2. QED
  BY <1>1, NamesOfParts DEF Listed, NamesIn
-----------------------------------------------------------------------------
(* The walk of the rule lookup.                                            *)
StackOnce(f, call) ==
    IF call.stack = <<>> THEN call.nets
    ELSE LET n    == call.stack[Len(call.stack)]
             rest == SubSeq(call.stack, 1, Len(call.stack) - 1)
         IN  IF n \in call.seen THEN f[[call EXCEPT !.stack = rest]]
             ELSE f[[stack |-> IF n \in Group THEN rest \o members[n] ELSE rest,
                     seen  |-> call.seen \cup {n},
                     nets  |-> IF n \in Leaf /\ HygieneKnows(n) THEN call.nets \cup {n} ELSE call.nets]]

StackNext(call) ==
    LET n    == call.stack[Len(call.stack)]
        rest == SubSeq(call.stack, 1, Len(call.stack) - 1)
    IN  [stack |-> IF n \in Group \ call.seen THEN rest \o members[n] ELSE rest,
         seen  |-> call.seen \cup {n},
         nets  |-> IF n \in Leaf \ call.seen /\ HygieneKnows(n) THEN call.nets \cup {n} ELSE call.nets]

StackWork == [call \in StackCall |-> Work(call.seen, Len(call.stack))]

LEMMA StackOnceIs ==
    ASSUME NEW f, NEW call \in StackCall
    PROVE  StackOnce(f, call) = IF call.stack = <<>> THEN call.nets ELSE f[StackNext(call)]
<1> DEFINE n == call.stack[Len(call.stack)]
           rest == SubSeq(call.stack, 1, Len(call.stack) - 1)
<1>1. CASE call.stack = <<>>
  BY <1>1 DEF StackOnce
<1>2. CASE call.stack # <<>> /\ n \in call.seen
  <2>1. StackOnce(f, call) = f[[call EXCEPT !.stack = rest]]
    BY <1>2 DEF StackOnce
  <2>2. StackNext(call) = [stack |-> rest, seen |-> call.seen, nets |-> call.nets]
    <3>1. call.seen \cup {n} = call.seen
      BY <1>2
    <3>2. StackNext(call) = [stack |-> IF n \in Group \ call.seen THEN rest \o members[n] ELSE rest,
                             seen  |-> call.seen \cup {n},
                             nets  |-> IF n \in Leaf \ call.seen /\ HygieneKnows(n) THEN call.nets \cup {n} ELSE call.nets]
      BY DEF StackNext
    <3> HIDE DEF n, rest
    <3>3. QED
      BY <1>2, <3>1, <3>2
  <2>3. [call EXCEPT !.stack = rest] = [stack |-> rest, seen |-> call.seen, nets |-> call.nets]
    <3> HIDE DEF rest
    <3>1. QED
      BY DEF StackCall
  <2> HIDE DEF n, rest
  <2>4. QED
    BY <1>2, <2>1, <2>2, <2>3
<1>3. CASE call.stack # <<>> /\ n \notin call.seen
  <2>1. StackOnce(f, call) = f[[stack |-> IF n \in Group THEN rest \o members[n] ELSE rest,
                                seen  |-> call.seen \cup {n},
                                nets  |-> IF n \in Leaf /\ HygieneKnows(n) THEN call.nets \cup {n} ELSE call.nets]]
    BY <1>3 DEF StackOnce
  <2>2. StackNext(call) = [stack |-> IF n \in Group THEN rest \o members[n] ELSE rest,
                           seen  |-> call.seen \cup {n},
                           nets  |-> IF n \in Leaf /\ HygieneKnows(n) THEN call.nets \cup {n} ELSE call.nets]
    <3>1. StackNext(call) = [stack |-> IF n \in Group \ call.seen THEN rest \o members[n] ELSE rest,
                             seen  |-> call.seen \cup {n},
                             nets  |-> IF n \in Leaf \ call.seen /\ HygieneKnows(n) THEN call.nets \cup {n} ELSE call.nets]
      BY DEF StackNext
    <3> HIDE DEF n, rest
    <3>2. QED
      BY <1>3, <3>1
  <2> HIDE DEF n, rest
  <2>3. QED
    BY <1>3, <2>1, <2>2
<1>4. QED
  BY <1>1, <1>2, <1>3

(* Each step of the walk is a call of less work.                           *)
LEMMA StackNextIs ==
    ASSUME GroupsTypeOK, NEW call \in StackCall, call.stack # <<>>
    PROVE  /\ StackNext(call) \in StackCall
           /\ StackWork[StackNext(call)] < StackWork[call]
           /\ LET n == call.stack[Len(call.stack)]
                  rest == SubSeq(call.stack, 1, Len(call.stack) - 1)
              IN  /\ n \in Member /\ NamesIn(call.stack) = {n} \cup NamesIn(rest)
                  /\ StackNext(call).seen = call.seen \cup {n}
                  /\ StackNext(call).nets = IF n \in Leaf \ call.seen /\ HygieneKnows(n) THEN call.nets \cup {n} ELSE call.nets
                  /\ NamesIn(StackNext(call).stack) = NamesIn(rest) \cup IF n \in Group \ call.seen THEN Listed(n) ELSE {}
<1> DEFINE n == call.stack[Len(call.stack)]
           rest == SubSeq(call.stack, 1, Len(call.stack) - 1)
           next == StackNext(call)
<1>1. call.stack \in Seq(Member) /\ call.seen \subseteq Member /\ call.nets \subseteq Leaf
  BY DEF StackCall
<1>2. /\ n \in Member /\ rest \in Seq(Member) /\ Len(rest) = Len(call.stack) - 1
      /\ NamesIn(call.stack) = {n} \cup NamesIn(rest)
  BY <1>1, NamesOfParts
<1>3. Len(call.stack) \in Nat /\ Len(call.stack) # 0
  BY <1>1
<1>4. /\ next.seen = call.seen \cup {n}
      /\ next.nets = IF n \in Leaf \ call.seen /\ HygieneKnows(n) THEN call.nets \cup {n} ELSE call.nets
      /\ next.stack = IF n \in Group \ call.seen THEN rest \o members[n] ELSE rest
      /\ next = [stack |-> next.stack, seen |-> next.seen, nets |-> next.nets]
  BY DEF StackNext
<1> HIDE DEF n, rest, next
<1>5. CASE n \in Group \ call.seen
  <2>1. members[n] \in Seq(Member) /\ Len(members[n]) \in Nat /\ Len(members[n]) <= MaxMembers /\ Listed(n) = NamesIn(members[n])
    BY <1>5, MembersAre
  <2>2. rest \o members[n] \in Seq(Member)
    BY <1>2, <2>1
  <2>3. Len(rest \o members[n]) = Len(rest) + Len(members[n])
    BY <1>2, <2>1, ConcatProperties, Zenon
  <2>4. NamesIn(rest \o members[n]) = NamesIn(rest) \cup Listed(n)
    BY <1>2, <2>1, NamesOfParts
  <2>5. next.stack = rest \o members[n] /\ next.seen = call.seen \cup {n}
    BY <1>4, <1>5
  <2>6. next \in StackCall
    BY <1>1, <1>2, <1>4, <2>2, <2>5 DEF StackCall
  <2>7. Work(call.seen \cup {n}, Len(next.stack)) < Work(call.seen, Len(call.stack))
    <3>1. PICK k \in Nat : k = Len(next.stack)
      BY <2>2, <2>5
    <3>2. MaxMembers \in Nat
      BY GroupsAssumption
    <3>3. k <= MaxMembers + Len(call.stack) - 1
      <4>1. PICK a \in Nat : a = Len(call.stack)
        BY <1>3
      <4>2. PICK b \in Nat : b = Len(members[n])
        BY <2>1
      <4>3. k = a - 1 + b /\ b <= MaxMembers
        BY <1>2, <2>1, <2>3, <2>5, <3>1, <4>1, <4>2
      <4>4. QED
        BY <3>2, <4>1, <4>3
    <3>4. QED
      BY <1>3, <1>5, <3>1, <3>3, LessWork
  <2>8. QED
    BY <1>2, <1>4, <1>5, <2>4, <2>5, <2>6, <2>7 DEF StackWork, n, rest, next
<1>6. CASE n \notin Group \ call.seen
  <2>1. next.stack = rest /\ next.seen = call.seen \cup {n}
    BY <1>4, <1>6
  <2>2. next \in StackCall
    <3>1. next.nets \subseteq Leaf
      BY <1>1, <1>4
    <3>2. QED
      BY <1>1, <1>2, <1>4, <2>1, <3>1 DEF StackCall
  <2>3. Work(call.seen \cup {n}, Len(next.stack)) < Work(call.seen, Len(call.stack))
    <3>1. PICK k \in Nat : k = Len(next.stack)
      BY <1>2, <1>3, <2>1
    <3>2. k < Len(call.stack)
      BY <1>2, <1>3, <2>1, <3>1
    <3>3. call.seen \subseteq call.seen \cup {n}
      OBVIOUS
    <3>4. QED
      BY <1>3, <3>1, <3>2, <3>3, LessWork
  <2>4. QED
    BY <1>2, <1>4, <1>6, <2>1, <2>2, <2>3 DEF StackWork, n, rest, next
<1>7. QED
  BY <1>5, <1>6

LEMMA WalkStackIs ==
    ASSUME GroupsTypeOK
    PROVE  \A call \in StackCall : WalkStack[call] = StackOnce(WalkStack, call)
<1> DEFINE R == SUBSET Leaf
           Q == [call \in StackCall |-> R]
           M == StackWork
           D == {f \in [StackCall -> R] : \A call \in StackCall : f[call] \in Q[call]}
           base == [call \in StackCall |-> {}]
           step == [f \in D |-> [call \in StackCall |-> StackOnce(f, call)]]
           Is(f) == f = [call \in StackCall |-> StackOnce(f, call)]
<1>1. Q \in [StackCall -> SUBSET R] /\ base \in D
  OBVIOUS
<1>2. M \in [StackCall -> Nat]
  <2>1. \A call \in StackCall : Work(call.seen, Len(call.stack)) \in Nat
    <3> SUFFICES ASSUME NEW call \in StackCall PROVE Work(call.seen, Len(call.stack)) \in Nat
      OBVIOUS
    <3>1. Len(call.stack) \in Nat
      BY DEF StackCall
    <3>2. QED
      BY <3>1, LessWork
  <2>2. QED
    BY <2>1 DEF StackWork
<1>3. ASSUME NEW f \in D, NEW call \in StackCall PROVE StackOnce(f, call) \in R
  <2>1. CASE call.stack = <<>>
    BY <2>1, StackOnceIs DEF StackCall
  <2>2. CASE call.stack # <<>>
    <3>1. StackNext(call) \in StackCall
      BY <2>2, StackNextIs
    <3>2. f[StackNext(call)] \in R
      BY <3>1
    <3>3. QED
      BY <2>2, <3>2, StackOnceIs
  <2>3. QED
    BY <2>1, <2>2
<1>4. step \in [D -> D]
  <2>1. \A f \in D : [call \in StackCall |-> StackOnce(f, call)] \in D
    <3> HIDE DEF R
    <3>1. QED
      BY <1>3
  <2> HIDE DEF D
  <2>2. QED
    BY <2>1
<1>5. ASSUME NEW f \in D, NEW g \in D, NEW call \in StackCall, \A c \in StackCall : M[c] < M[call] => f[c] = g[c]
      PROVE  step[f][call] = step[g][call]
  <2>1. step[f][call] = StackOnce(f, call) /\ step[g][call] = StackOnce(g, call)
    <3> HIDE DEF D
    <3>1. QED
      OBVIOUS
  <2> HIDE DEF D, step
  <2>2. CASE call.stack = <<>>
    BY <2>1, <2>2, StackOnceIs
  <2>3. CASE call.stack # <<>>
    <3>1. StackNext(call) \in StackCall /\ M[StackNext(call)] < M[call]
      BY <2>3, StackNextIs
    <3>2. f[StackNext(call)] = g[StackNext(call)]
      BY <1>5, <3>1
    <3>3. QED
      BY <2>1, <2>3, <3>2, StackOnceIs
  <2>4. QED
    BY <2>2, <2>3
<1>6. PICK h \in D : step[h] = h
  <2>1. D = {f \in [StackCall -> R] : \A call \in StackCall : f[call] \in Q[call]}
    OBVIOUS
  <2> HIDE DEF D, Q, M, base, step, R
  <2>2. \A f, g \in D : \A call \in StackCall : (\A c \in StackCall : M[c] < M[call] => f[c] = g[c]) => step[f][call] = step[g][call]
    BY <1>5
  <2>3. Recursive(StackCall, R, Q, M, D, base, step)
    BY <1>1, <1>2, <1>4, <2>1, <2>2 DEF Recursive
  <2>4. QED
    BY <2>3, Recursion
<1>7. Is(h)
  <2>1. step[h] = [call \in StackCall |-> StackOnce(h, call)]
    <3> HIDE DEF D
    <3>1. QED
      OBVIOUS
  <2> HIDE DEF step, D
  <2>2. QED
    BY <1>6, <2>1
<1> DEFINE w == CHOOSE f : Is(f)
<1>8. Is(w)
  <2> HIDE DEF Is
  <2>1. QED
    BY <1>7
<1>9. WalkStack = w
  BY DEF WalkStack, StackOnce
<1> HIDE DEF w
<1>10. QED
  BY <1>8, <1>9

(* What a walk has still to find is below what is on its stack.            *)
Walks(stack, seen, g) ==
    /\ NamesIn(stack) \cup seen \subseteq Below({g}) /\ g \in NamesIn(stack) \cup seen
    /\ \A h \in seen \cap Group : Listed(h) \subseteq NamesIn(stack) \cup seen

LEMMA WalkEnds ==
    ASSUME NEW seen, NEW g, Walks(<<>>, seen, g)
    PROVE  seen = Below({g})
<1>1. NamesIn(<<>>) = {}
  BY DEF NamesIn
<1>2. {g} \subseteq seen /\ \A h \in seen \cap Group : Listed(h) \subseteq seen
  BY <1>1 DEF Walks
<1>3. Below({g}) \subseteq seen
  BY <1>2, BelowIs
<1>4. QED
  BY <1>1, <1>3 DEF Walks

Popped(stack, seen, n, next) ==
    \E rest : /\ NamesIn(stack) = {n} \cup NamesIn(rest)
             /\ NamesIn(next) = NamesIn(rest) \cup IF n \in Group \ seen THEN Listed(n) ELSE {}

LEMMA WalkGoesOn ==
    ASSUME NEW stack, NEW seen, NEW g, Walks(stack, seen, g), NEW n, NEW next, Popped(stack, seen, n, next)
    PROVE  Walks(next, seen \cup {n}, g)
<1>0. PICK rest : /\ NamesIn(stack) = {n} \cup NamesIn(rest)
                  /\ NamesIn(next) = NamesIn(rest) \cup IF n \in Group \ seen THEN Listed(n) ELSE {}
  BY DEF Popped
<1>1. n \in Below({g})
  BY <1>0 DEF Walks
<1>2. n \in Group => Listed(n) \subseteq Below({g})
  BY <1>1, BelowIs
<1>3. NamesIn(next) \cup (seen \cup {n}) \subseteq Below({g})
  BY <1>0, <1>1, <1>2 DEF Walks
<1>4. g \in NamesIn(next) \cup (seen \cup {n})
  BY <1>0 DEF Walks
<1>5. ASSUME NEW h \in (seen \cup {n}) \cap Group PROVE Listed(h) \subseteq NamesIn(next) \cup (seen \cup {n})
  <2>1. CASE h \in seen
    BY <1>0, <2>1 DEF Walks
  <2>2. CASE h \notin seen
    BY <1>0, <1>5, <2>2
  <2>3. QED
    BY <2>1, <2>2
<1>6. QED
  BY <1>3, <1>4, <1>5 DEF Walks

LEMMA StackFinds ==
    ASSUME GroupsTypeOK, NEW g \in Group
    PROVE  WalkStack[[stack |-> <<g>>, seen |-> {}, nets |-> {}]] = {o \in Leaf \cap Below({g}) : HygieneKnows(o)}
<1> DEFINE found == {o \in Leaf \cap Below({g}) : HygieneKnows(o)}
           Good == {call \in StackCall : Walks(call.stack, call.seen, g)
                                         /\ call.nets = {o \in Leaf \cap call.seen : HygieneKnows(o)}
                                           => WalkStack[call] = found}
<1>1. ASSUME NEW call \in StackCall, \A c \in StackCall : StackWork[c] < StackWork[call] => c \in Good
      PROVE  call \in Good
  <2> SUFFICES ASSUME Walks(call.stack, call.seen, g), call.nets = {o \in Leaf \cap call.seen : HygieneKnows(o)}
               PROVE  WalkStack[call] = found
    OBVIOUS
  <2>1. WalkStack[call] = IF call.stack = <<>> THEN call.nets ELSE WalkStack[StackNext(call)]
    BY WalkStackIs, StackOnceIs
  <2>2. CASE call.stack = <<>>
    <3>1. call.seen = Below({g})
      BY <2>2, WalkEnds
    <3>2. QED
      BY <2>1, <2>2, <3>1
  <2>3. CASE call.stack # <<>>
    <3> DEFINE n == call.stack[Len(call.stack)]
               rest == SubSeq(call.stack, 1, Len(call.stack) - 1)
               next == StackNext(call)
    <3>1. /\ next \in StackCall /\ StackWork[next] < StackWork[call]
          /\ NamesIn(call.stack) = {n} \cup NamesIn(rest)
          /\ next.seen = call.seen \cup {n}
          /\ next.nets = IF n \in Leaf \ call.seen /\ HygieneKnows(n) THEN call.nets \cup {n} ELSE call.nets
          /\ NamesIn(next.stack) = NamesIn(rest) \cup IF n \in Group \ call.seen THEN Listed(n) ELSE {}
      BY <2>3, StackNextIs
    <3> HIDE DEF n, rest, next
    <3>2. Walks(next.stack, next.seen, g)
      <4>1. Popped(call.stack, call.seen, n, next.stack)
        BY <3>1 DEF Popped
      <4>2. Walks(next.stack, call.seen \cup {n}, g)
        BY <4>1, WalkGoesOn
      <4>3. QED
        BY <3>1, <4>2
    <3>3. next.nets = {o \in Leaf \cap next.seen : HygieneKnows(o)}
      BY <3>1
    <3>4. WalkStack[next] = found
      <4>1. next \in Good
        BY <1>1, <3>1
      <4>2. QED
        BY <3>2, <3>3, <4>1
    <3>5. QED
      BY <2>1, <2>3, <3>4 DEF next
  <2>4. QED
    BY <2>2, <2>3
<1> DEFINE M == StackWork
<1>2. M \in [StackCall -> Nat]
  <2>1. \A call \in StackCall : Work(call.seen, Len(call.stack)) \in Nat
    <3> SUFFICES ASSUME NEW call \in StackCall PROVE Work(call.seen, Len(call.stack)) \in Nat
      OBVIOUS
    <3>1. Len(call.stack) \in Nat
      BY DEF StackCall
    <3>2. QED
      BY <3>1, LessWork
  <2>2. QED
    BY <2>1 DEF StackWork
<1>3. StackCall \subseteq Good
  <2> HIDE DEF Good
  <2>1. \A call \in StackCall : (\A c \in StackCall : M[c] < M[call] => c \in Good) => call \in Good
    BY <1>1
  <2> HIDE DEF M
  <2>2. QED
    BY <1>2, <2>1, ByMeasure
<1> DEFINE start == [stack |-> <<g>>, seen |-> {}, nets |-> {}]
<1>4. start \in StackCall
  BY DEF StackCall, Member
<1>5. Walks(start.stack, start.seen, g)
  <2>1. NamesIn(<<g>>) = {g}
    BY DEF NamesIn
  <2>2. g \in Below({g})
    BY BelowIs
  <2>3. QED
    BY <2>1, <2>2 DEF Walks
<1>6. start.nets = {o \in Leaf \cap start.seen : HygieneKnows(o)}
  OBVIOUS
<1> HIDE DEF start, found
<1>7. WalkStack[start] = found
  BY <1>3, <1>4, <1>5, <1>6
<1>8. QED
  BY <1>7 DEF start, found
-----------------------------------------------------------------------------
(* The walk of the planner, for the services of a group.                   *)
LeavesOnce(f, call) ==
    IF call.stack = <<>> THEN call.out
    ELSE LET n    == Head(call.stack)
             rest == Tail(call.stack)
         IN  IF n \in call.seen THEN f[[call EXCEPT !.stack = rest]]
             ELSE f[[stack |-> IF n \in Group THEN members[n] \o rest ELSE rest,
                     seen  |-> call.seen \cup {n},
                     out   |-> IF n \in Leaf THEN Append(call.out, n) ELSE call.out]]

LeavesNext(call) ==
    LET n    == Head(call.stack)
        rest == Tail(call.stack)
    IN  [stack |-> IF n \in Group \ call.seen THEN members[n] \o rest ELSE rest,
         seen  |-> call.seen \cup {n},
         out   |-> IF n \in Leaf \ call.seen THEN Append(call.out, n) ELSE call.out]

LeavesWork == [call \in LeafCall |-> Work(call.seen, Len(call.stack))]

LEMMA LeavesOnceIs ==
    ASSUME NEW f, NEW call \in LeafCall
    PROVE  LeavesOnce(f, call) = IF call.stack = <<>> THEN call.out ELSE f[LeavesNext(call)]
<1> DEFINE n == Head(call.stack)
           rest == Tail(call.stack)
<1>1. CASE call.stack = <<>>
  BY <1>1 DEF LeavesOnce
<1>2. CASE call.stack # <<>> /\ n \in call.seen
  <2>1. LeavesOnce(f, call) = f[[call EXCEPT !.stack = rest]]
    BY <1>2 DEF LeavesOnce
  <2>2. LeavesNext(call) = [stack |-> rest, seen |-> call.seen, out |-> call.out]
    <3>1. call.seen \cup {n} = call.seen
      BY <1>2
    <3>2. LeavesNext(call) = [stack |-> IF n \in Group \ call.seen THEN members[n] \o rest ELSE rest,
                              seen  |-> call.seen \cup {n},
                              out   |-> IF n \in Leaf \ call.seen THEN Append(call.out, n) ELSE call.out]
      BY DEF LeavesNext
    <3> HIDE DEF n, rest
    <3>3. QED
      BY <1>2, <3>1, <3>2
  <2>3. [call EXCEPT !.stack = rest] = [stack |-> rest, seen |-> call.seen, out |-> call.out]
    <3> HIDE DEF rest
    <3>1. QED
      BY DEF LeafCall
  <2> HIDE DEF n, rest
  <2>4. QED
    BY <1>2, <2>1, <2>2, <2>3
<1>3. CASE call.stack # <<>> /\ n \notin call.seen
  <2>1. LeavesOnce(f, call) = f[[stack |-> IF n \in Group THEN members[n] \o rest ELSE rest,
                                 seen  |-> call.seen \cup {n},
                                 out   |-> IF n \in Leaf THEN Append(call.out, n) ELSE call.out]]
    BY <1>3 DEF LeavesOnce
  <2>2. LeavesNext(call) = [stack |-> IF n \in Group THEN members[n] \o rest ELSE rest,
                            seen  |-> call.seen \cup {n},
                            out   |-> IF n \in Leaf THEN Append(call.out, n) ELSE call.out]
    <3>1. LeavesNext(call) = [stack |-> IF n \in Group \ call.seen THEN members[n] \o rest ELSE rest,
                              seen  |-> call.seen \cup {n},
                              out   |-> IF n \in Leaf \ call.seen THEN Append(call.out, n) ELSE call.out]
      BY DEF LeavesNext
    <3> HIDE DEF n, rest
    <3>2. QED
      BY <1>3, <3>1
  <2> HIDE DEF n, rest
  <2>3. QED
    BY <1>3, <2>1, <2>2
<1>4. QED
  BY <1>1, <1>2, <1>3

LEMMA LeavesNextIs ==
    ASSUME GroupsTypeOK, NEW call \in LeafCall, call.stack # <<>>
    PROVE  /\ LeavesNext(call) \in LeafCall
           /\ LeavesWork[LeavesNext(call)] < LeavesWork[call]
           /\ LET n == Head(call.stack)
                  rest == Tail(call.stack)
              IN  /\ n \in Member /\ NamesIn(call.stack) = {n} \cup NamesIn(rest)
                  /\ LeavesNext(call).seen = call.seen \cup {n}
                  /\ LeavesNext(call).out = IF n \in Leaf \ call.seen THEN Append(call.out, n) ELSE call.out
                  /\ NamesIn(LeavesNext(call).stack) = NamesIn(rest) \cup IF n \in Group \ call.seen THEN Listed(n) ELSE {}
<1> DEFINE n == Head(call.stack)
           rest == Tail(call.stack)
           next == LeavesNext(call)
<1>1. call.stack \in Seq(Member) /\ call.seen \subseteq Member /\ call.out \in Seq(Leaf)
  BY DEF LeafCall
<1>2. /\ n \in Member /\ rest \in Seq(Member) /\ Len(rest) = Len(call.stack) - 1
      /\ NamesIn(call.stack) = {n} \cup NamesIn(rest)
  BY <1>1, NamesOfParts
<1>3. Len(call.stack) \in Nat /\ Len(call.stack) # 0
  BY <1>1
<1>4. /\ next.seen = call.seen \cup {n}
      /\ next.out = IF n \in Leaf \ call.seen THEN Append(call.out, n) ELSE call.out
      /\ next.stack = IF n \in Group \ call.seen THEN members[n] \o rest ELSE rest
      /\ next = [stack |-> next.stack, seen |-> next.seen, out |-> next.out]
  BY DEF LeavesNext
<1>5. next.out \in Seq(Leaf)
  <2> HIDE DEF n, rest, next
  <2>1. QED
    BY <1>1, <1>4
<1> HIDE DEF n, rest, next
<1>6. CASE n \in Group \ call.seen
  <2>1. members[n] \in Seq(Member) /\ Len(members[n]) \in Nat /\ Len(members[n]) <= MaxMembers /\ Listed(n) = NamesIn(members[n])
    BY <1>6, MembersAre
  <2>2. members[n] \o rest \in Seq(Member)
    BY <1>2, <2>1
  <2>3. Len(members[n] \o rest) = Len(members[n]) + Len(rest)
    BY <1>2, <2>1, ConcatProperties, Zenon
  <2>4. NamesIn(members[n] \o rest) = NamesIn(rest) \cup Listed(n)
    BY <1>2, <2>1, NamesOfParts
  <2>5. next.stack = members[n] \o rest /\ next.seen = call.seen \cup {n}
    BY <1>4, <1>6
  <2>6. next \in LeafCall
    BY <1>1, <1>2, <1>4, <1>5, <2>2, <2>5 DEF LeafCall
  <2>7. Work(call.seen \cup {n}, Len(next.stack)) < Work(call.seen, Len(call.stack))
    <3>1. PICK k \in Nat : k = Len(next.stack)
      BY <2>2, <2>5
    <3>2. MaxMembers \in Nat
      BY GroupsAssumption
    <3>3. k <= MaxMembers + Len(call.stack) - 1
      <4>1. PICK a \in Nat : a = Len(call.stack)
        BY <1>3
      <4>2. PICK b \in Nat : b = Len(members[n])
        BY <2>1
      <4>3. k = b + (a - 1) /\ b <= MaxMembers
        BY <1>2, <2>1, <2>3, <2>5, <3>1, <4>1, <4>2
      <4>4. QED
        BY <3>2, <4>1, <4>3
    <3>4. QED
      BY <1>3, <1>6, <3>1, <3>3, LessWork
  <2>8. QED
    BY <1>2, <1>4, <1>6, <2>4, <2>5, <2>6, <2>7 DEF LeavesWork, n, rest, next
<1>7. CASE n \notin Group \ call.seen
  <2>1. next.stack = rest /\ next.seen = call.seen \cup {n}
    BY <1>4, <1>7
  <2>2. next \in LeafCall
    BY <1>1, <1>2, <1>4, <1>5, <2>1 DEF LeafCall
  <2>3. Work(call.seen \cup {n}, Len(next.stack)) < Work(call.seen, Len(call.stack))
    <3>1. PICK k \in Nat : k = Len(next.stack)
      BY <1>2, <1>3, <2>1
    <3>2. k < Len(call.stack)
      BY <1>2, <1>3, <2>1, <3>1
    <3>3. call.seen \subseteq call.seen \cup {n}
      OBVIOUS
    <3>4. QED
      BY <1>3, <3>1, <3>2, <3>3, LessWork
  <2>4. QED
    BY <1>2, <1>4, <1>7, <2>1, <2>2, <2>3 DEF LeavesWork, n, rest, next
<1>8. QED
  BY <1>6, <1>7

LEMMA LeavesWorkIs == LeavesWork \in [LeafCall -> Nat]
<1>1. \A call \in LeafCall : Work(call.seen, Len(call.stack)) \in Nat
  <2> SUFFICES ASSUME NEW call \in LeafCall PROVE Work(call.seen, Len(call.stack)) \in Nat
    OBVIOUS
  <2>1. Len(call.stack) \in Nat
    BY DEF LeafCall
  <2>2. QED
    BY <2>1, LessWork
<1>2. QED
  BY <1>1 DEF LeavesWork

LEMMA WalkLeavesIs ==
    ASSUME GroupsTypeOK
    PROVE  \A call \in LeafCall : WalkLeaves[call] = LeavesOnce(WalkLeaves, call)
<1> DEFINE R == Seq(Leaf)
           Q == [call \in LeafCall |-> R]
           M == LeavesWork
           D == {f \in [LeafCall -> R] : \A call \in LeafCall : f[call] \in Q[call]}
           base == [call \in LeafCall |-> <<>>]
           step == [f \in D |-> [call \in LeafCall |-> LeavesOnce(f, call)]]
           Is(f) == f = [call \in LeafCall |-> LeavesOnce(f, call)]
<1>1. Q \in [LeafCall -> SUBSET R] /\ base \in D /\ M \in [LeafCall -> Nat]
  <2>1. <<>> \in R
    OBVIOUS
  <2> HIDE DEF R
  <2>2. base \in D /\ Q \in [LeafCall -> SUBSET R]
    BY <2>1
  <2>3. QED
    BY <2>2, LeavesWorkIs
<1>2. ASSUME NEW f \in D, NEW call \in LeafCall PROVE LeavesOnce(f, call) \in R
  <2>1. CASE call.stack = <<>>
    BY <2>1, LeavesOnceIs DEF LeafCall
  <2>2. CASE call.stack # <<>>
    <3>1. LeavesNext(call) \in LeafCall
      BY <2>2, LeavesNextIs
    <3>2. f[LeavesNext(call)] \in R
      BY <3>1
    <3>3. QED
      BY <2>2, <3>2, LeavesOnceIs
  <2>3. QED
    BY <2>1, <2>2
<1>3. step \in [D -> D]
  <2>1. \A f \in D : [call \in LeafCall |-> LeavesOnce(f, call)] \in D
    <3> HIDE DEF R
    <3>1. QED
      BY <1>2
  <2> HIDE DEF D
  <2>2. QED
    BY <2>1
<1>4. ASSUME NEW f \in D, NEW g \in D, NEW call \in LeafCall, \A c \in LeafCall : M[c] < M[call] => f[c] = g[c]
      PROVE  step[f][call] = step[g][call]
  <2>1. step[f][call] = LeavesOnce(f, call) /\ step[g][call] = LeavesOnce(g, call)
    <3> HIDE DEF D
    <3>1. QED
      OBVIOUS
  <2> HIDE DEF D, step
  <2>2. CASE call.stack = <<>>
    BY <2>1, <2>2, LeavesOnceIs
  <2>3. CASE call.stack # <<>>
    <3>1. LeavesNext(call) \in LeafCall /\ M[LeavesNext(call)] < M[call]
      BY <2>3, LeavesNextIs
    <3>2. f[LeavesNext(call)] = g[LeavesNext(call)]
      BY <1>4, <3>1
    <3>3. QED
      BY <2>1, <2>3, <3>2, LeavesOnceIs
  <2>4. QED
    BY <2>2, <2>3
<1>5. PICK h \in D : step[h] = h
  <2>1. D = {f \in [LeafCall -> R] : \A call \in LeafCall : f[call] \in Q[call]}
    OBVIOUS
  <2> HIDE DEF D, Q, M, base, step, R
  <2>2. \A f, g \in D : \A call \in LeafCall : (\A c \in LeafCall : M[c] < M[call] => f[c] = g[c]) => step[f][call] = step[g][call]
    BY <1>4
  <2>3. Recursive(LeafCall, R, Q, M, D, base, step)
    BY <1>1, <1>3, <2>1, <2>2 DEF Recursive
  <2>4. QED
    BY <2>3, Recursion
<1>6. Is(h)
  <2>1. step[h] = [call \in LeafCall |-> LeavesOnce(h, call)]
    <3> HIDE DEF D
    <3>1. QED
      OBVIOUS
  <2> HIDE DEF step, D
  <2>2. QED
    BY <1>5, <2>1
<1> DEFINE w == CHOOSE f : Is(f)
<1>7. Is(w)
  <2> HIDE DEF Is
  <2>1. QED
    BY <1>6
<1>8. WalkLeaves = w
  BY DEF WalkLeaves, LeavesOnce
<1> HIDE DEF w
<1>9. QED
  BY <1>7, <1>8

LEMMA AppendedIs ==
    ASSUME NEW S, NEW s \in Seq(S), NEW x \in S
    PROVE  /\ Len(Append(s, x)) = Len(s) + 1
           /\ \A i \in 1..Len(s) : Append(s, x)[i] = s[i]
           /\ Append(s, x)[Len(s) + 1] = x
  OBVIOUS

LEMMA LeavesFound ==
    ASSUME GroupsTypeOK, NEW g \in Group
    PROVE  /\ {leaf_names(g)[i] : i \in DOMAIN leaf_names(g)} = Below({g}) \cap Leaf
           /\ Len(leaf_names(g)) = Cardinality(Below({g}) \cap Leaf)
<1> DEFINE Lists(out, seen) == /\ NamesIn(out) = Leaf \cap seen /\ IsFiniteSet(Leaf \cap seen)
                               /\ Len(out) = Cardinality(Leaf \cap seen)
           found == Below({g})
           Good == {call \in LeafCall : Walks(call.stack, call.seen, g) /\ Lists(call.out, call.seen)
                                          => Lists(WalkLeaves[call], found) /\ WalkLeaves[call] \in Seq(Leaf)}
<1>1. ASSUME NEW call \in LeafCall, \A c \in LeafCall : LeavesWork[c] < LeavesWork[call] => c \in Good
      PROVE  call \in Good
  <2> SUFFICES ASSUME Walks(call.stack, call.seen, g), Lists(call.out, call.seen)
               PROVE  Lists(WalkLeaves[call], found) /\ WalkLeaves[call] \in Seq(Leaf)
    BY DEF Good
  <2>1. WalkLeaves[call] = IF call.stack = <<>> THEN call.out ELSE WalkLeaves[LeavesNext(call)]
    BY WalkLeavesIs, LeavesOnceIs
  <2>2. CASE call.stack = <<>>
    <3>1. call.seen = found
      BY <2>2, WalkEnds
    <3>2. call.out \in Seq(Leaf)
      BY DEF LeafCall
    <3> HIDE DEF Lists, found
    <3>3. QED
      BY <2>1, <2>2, <3>1, <3>2
  <2>3. CASE call.stack # <<>>
    <3> DEFINE n == Head(call.stack)
               rest == Tail(call.stack)
               next == LeavesNext(call)
    <3>1. /\ next \in LeafCall /\ LeavesWork[next] < LeavesWork[call]
          /\ NamesIn(call.stack) = {n} \cup NamesIn(rest)
          /\ next.seen = call.seen \cup {n}
          /\ next.out = IF n \in Leaf \ call.seen THEN Append(call.out, n) ELSE call.out
          /\ NamesIn(next.stack) = NamesIn(rest) \cup IF n \in Group \ call.seen THEN Listed(n) ELSE {}
      BY <2>3, LeavesNextIs
    <3> HIDE DEF n, rest, next
    <3>2. Walks(next.stack, next.seen, g)
      <4>1. Popped(call.stack, call.seen, n, next.stack)
        BY <3>1 DEF Popped
      <4>2. Walks(next.stack, call.seen \cup {n}, g)
        BY <4>1, WalkGoesOn
      <4>3. QED
        BY <3>1, <4>2
    <3>3. Lists(next.out, next.seen)
      <4>1. CASE n \in Leaf \ call.seen
        <5>1. next.out = Append(call.out, n) /\ call.out \in Seq(Leaf)
          BY <3>1, <4>1 DEF LeafCall
        <5>2. Len(Append(call.out, n)) = Len(call.out) + 1 /\ NamesIn(Append(call.out, n)) = NamesIn(call.out) \cup {n}
          <6>1. PICK k \in Nat : k = Len(call.out)
            BY <5>1
          <6>2. PICK more : more = Append(call.out, n)
            OBVIOUS
          <6>3. n \in Leaf
            BY <4>1
          <6>4. Len(more) = k + 1 /\ (\A i \in 1..k : more[i] = call.out[i]) /\ more[k + 1] = n
            <7>1. /\ Len(Append(call.out, n)) = Len(call.out) + 1
                  /\ \A i \in 1..Len(call.out) : Append(call.out, n)[i] = call.out[i]
                  /\ Append(call.out, n)[Len(call.out) + 1] = n
              BY <5>1, <6>3, AppendedIs
            <7>2. QED
              BY <6>1, <6>2, <7>1
          <6>5. \A i : i \in 1..(k + 1) <=> i \in 1..k \/ i = k + 1
            BY <6>1
          <6>6. NamesIn(more) = NamesIn(call.out) \cup {n}
            BY <6>1, <6>4, <6>5 DEF NamesIn
          <6>7. QED
            BY <6>1, <6>2, <6>4, <6>6
        <5> DEFINE s == Leaf \cap call.seen
        <5>3. Leaf \cap next.seen = s \cup {n} /\ n \notin s
          BY <3>1, <4>1
        <5>4. IsFiniteSet(s) /\ NamesIn(call.out) = s /\ Len(call.out) = Cardinality(s)
          OBVIOUS
        <5> HIDE DEF s
        <5>5. IsFiniteSet(s \cup {n}) /\ Cardinality(s \cup {n}) = Cardinality(s) + 1
          BY <5>3, <5>4, FS_AddElement
        <5>6. QED
          BY <5>1, <5>2, <5>3, <5>4, <5>5
      <4>2. CASE n \notin Leaf \ call.seen
        <5>1. next.out = call.out /\ Leaf \cap next.seen = Leaf \cap call.seen
          BY <3>1, <4>2
        <5>2. QED
          BY <5>1
      <4>3. QED
        BY <4>1, <4>2
    <3>4. Lists(WalkLeaves[next], found) /\ WalkLeaves[next] \in Seq(Leaf)
      <4>1. next \in Good
        BY <1>1, <3>1
      <4> HIDE DEF Lists, found
      <4>2. QED
        BY <3>2, <3>3, <4>1 DEF Good
    <3> HIDE DEF Lists, found
    <3>5. QED
      BY <2>1, <2>3, <3>4 DEF next
  <2>4. QED
    BY <2>2, <2>3
<1>2. LeafCall \subseteq Good
  <2> HIDE DEF Good
  <2>1. \A call \in LeafCall : (\A c \in LeafCall : LeavesWork[c] < LeavesWork[call] => c \in Good) => call \in Good
    BY <1>1
  <2>2. QED
    BY <2>1, LeavesWorkIs, ByMeasure
<1> DEFINE start == [stack |-> <<g>>, seen |-> {}, out |-> <<>>]
<1>3. start \in LeafCall
  BY DEF LeafCall, Member
<1>4. Walks(start.stack, start.seen, g)
  <2>1. NamesIn(<<g>>) = {g}
    BY DEF NamesIn
  <2>2. g \in Below({g})
    BY BelowIs
  <2>3. QED
    BY <2>1, <2>2 DEF Walks
<1>5. Lists(start.out, start.seen)
  <2>1. NamesIn(<<>>) = {} /\ Len(<<>>) = 0
    BY DEF NamesIn
  <2>2. Leaf \cap {} = {} /\ IsFiniteSet({}) /\ Cardinality({}) = 0
    BY FS_EmptySet
  <2>3. QED
    BY <2>1, <2>2
<1>6. Lists(WalkLeaves[start], found) /\ WalkLeaves[start] \in Seq(Leaf)
  <2> HIDE DEF start, found, Lists
  <2>1. QED
    BY <1>2, <1>3, <1>4, <1>5
<1>7. leaf_names(g) = WalkLeaves[start]
  BY DEF leaf_names
<1> HIDE DEF start
<1>8. DOMAIN leaf_names(g) = 1..Len(leaf_names(g))
  BY <1>6, <1>7
<1>9. QED
  BY <1>6, <1>7, <1>8 DEF NamesIn
-----------------------------------------------------------------------------
(* The planner's _resolve, which calls itself for a member and again for   *)
(* the members that remain.                                                *)
NameEnter(call) ==
    LET m == Head(call.todo)
    IN  [call EXCEPT !.todo = IF m \in Group THEN members[m] ELSE <<>>,
                     !.seen = @ \cup {m}, !.nets = {}, !.known = FALSE]

NameSub(f, call) ==
    LET m == Head(call.todo)
    IN  IF m \in call.seen THEN [call EXCEPT !.nets = {}, !.known = TRUE]
        ELSE IF m \in Group THEN f[NameEnter(call)]
        ELSE IF m \in Leaf /\ _networks_for_object(m)
             THEN [NameEnter(call) EXCEPT !.nets = {m}, !.known = TRUE]
        ELSE NameEnter(call)

NameNext(call, sub) ==
    [todo  |-> Tail(call.todo),
     seen  |-> sub.seen,
     nets  |-> call.nets \cup sub.nets,
     known |-> call.known \/ sub.known]

NameOnce(f, call) == IF call.todo = <<>> THEN call ELSE f[NameNext(call, NameSub(f, call))]

NameWork == [call \in NameCall |-> Work(call.seen, Len(call.todo))]

LEMMA NameWorkIs == NameWork \in [NameCall -> Nat]
<1>1. \A call \in NameCall : Work(call.seen, Len(call.todo)) \in Nat
  <2> SUFFICES ASSUME NEW call \in NameCall PROVE Work(call.seen, Len(call.todo)) \in Nat
    OBVIOUS
  <2>1. Len(call.todo) \in Nat
    BY DEF NameCall
  <2>2. QED
    BY <2>1, LessWork
<1>2. QED
  BY <1>1 DEF NameWork

LEMMA NameEnterIs ==
    ASSUME GroupsTypeOK, NEW call \in NameCall, call.todo # <<>>
    PROVE  LET m == Head(call.todo)
               enter == NameEnter(call)
           IN  /\ m \in Member /\ Tail(call.todo) \in Seq(Member) /\ NamesIn(call.todo) = {m} \cup NamesIn(Tail(call.todo))
               /\ enter \in NameCall
               /\ enter.todo = IF m \in Group THEN members[m] ELSE <<>>
               /\ enter.seen = call.seen \cup {m} /\ enter.nets = {} /\ enter.known = FALSE
               /\ m \in Group \ call.seen => NameWork[enter] < NameWork[call]
<1> DEFINE m == Head(call.todo)
           enter == NameEnter(call)
<1>1. /\ call.todo \in Seq(Member) /\ call.seen \subseteq Member /\ call.nets \subseteq Leaf /\ call.known \in BOOLEAN
      /\ call = [todo |-> call.todo, seen |-> call.seen, nets |-> call.nets, known |-> call.known]
  BY DEF NameCall
<1>2. /\ m \in Member /\ Tail(call.todo) \in Seq(Member) /\ NamesIn(call.todo) = {m} \cup NamesIn(Tail(call.todo))
      /\ Len(call.todo) \in Nat /\ Len(call.todo) # 0
  BY <1>1, NamesOfParts
<1>3. m \in Group => members[m] \in Seq(Member) /\ Len(members[m]) \in Nat /\ Len(members[m]) <= MaxMembers
  BY MembersAre
<1>4. enter = [todo |-> IF m \in Group THEN members[m] ELSE <<>>, seen |-> call.seen \cup {m}, nets |-> {}, known |-> FALSE]
  <2>1. enter = [call EXCEPT !.todo = IF m \in Group THEN members[m] ELSE <<>>,
                             !.seen = @ \cup {m}, !.nets = {}, !.known = FALSE]
    BY DEF NameEnter
  <2> HIDE DEF m, enter
  <2>2. QED
    BY <1>1, <2>1
<1> HIDE DEF m, enter
<1>5. (IF m \in Group THEN members[m] ELSE <<>>) \in Seq(Member)
  BY <1>3
<1>6. enter \in NameCall
  BY <1>1, <1>2, <1>4, <1>5 DEF NameCall
<1>7. ASSUME m \in Group \ call.seen PROVE NameWork[enter] < NameWork[call]
  <2>1. enter.todo = members[m] /\ enter.seen = call.seen \cup {m}
    BY <1>4, <1>7
  <2>2. PICK k \in Nat : k = Len(members[m])
    BY <1>3, <1>7
  <2>3. PICK n \in Nat : n = Len(call.todo)
    BY <1>2
  <2>4. MaxMembers \in Nat
    BY GroupsAssumption
  <2>5. k <= MaxMembers + n - 1 /\ n # 0
    BY <1>2, <1>3, <1>7, <2>2, <2>3, <2>4
  <2>6. Work(call.seen \cup {m}, k) < Work(call.seen, n)
    BY <1>7, <2>5, LessWork
  <2>7. QED
    BY <1>6, <2>1, <2>2, <2>3, <2>6 DEF NameWork
<1>8. QED
  BY <1>2, <1>4, <1>6, <1>7 DEF m, enter

(* The member's part of a step, given what the inner call returns.         *)
LEMMA NameSubIs ==
    ASSUME GroupsTypeOK, NEW call \in NameCall, call.todo # <<>>, NEW f,
           Head(call.todo) \in Group \ call.seen =>
             f[NameEnter(call)] \in NameCall /\ NameEnter(call).seen \subseteq f[NameEnter(call)].seen
    PROVE  LET m == Head(call.todo)
               sub == NameSub(f, call)
           IN  /\ sub \in NameCall /\ call.seen \cup {m} \subseteq sub.seen
               /\ m \in Group \ call.seen => sub = f[NameEnter(call)]
               /\ m \notin Group \ call.seen =>
                    /\ sub.seen = call.seen \cup {m}
                    /\ sub.nets = {o \in Leaf \cap (sub.seen \ call.seen) : _networks_for_object(o)}
<1> DEFINE m == Head(call.todo)
           enter == NameEnter(call)
           sub == NameSub(f, call)
<1>1. /\ m \in Member /\ enter \in NameCall
      /\ enter.seen = call.seen \cup {m} /\ enter.nets = {} /\ enter.known = FALSE
  BY NameEnterIs
<1>2. sub = IF m \in call.seen THEN [call EXCEPT !.nets = {}, !.known = TRUE]
            ELSE IF m \in Group THEN f[enter]
            ELSE IF m \in Leaf /\ _networks_for_object(m) THEN [enter EXCEPT !.nets = {m}, !.known = TRUE]
            ELSE enter
  BY DEF NameSub
<1>3. m \in Group \ call.seen => f[enter] \in NameCall /\ enter.seen \subseteq f[enter].seen
  OBVIOUS
<1>4. /\ [call EXCEPT !.nets = {}, !.known = TRUE] \in NameCall
      /\ [call EXCEPT !.nets = {}, !.known = TRUE].seen = call.seen
      /\ [call EXCEPT !.nets = {}, !.known = TRUE].nets = {}
  BY DEF NameCall
<1> HIDE DEF m, enter, sub
<1>5. m \in Leaf => /\ [enter EXCEPT !.nets = {m}, !.known = TRUE] \in NameCall
                    /\ [enter EXCEPT !.nets = {m}, !.known = TRUE].seen = enter.seen
                    /\ [enter EXCEPT !.nets = {m}, !.known = TRUE].nets = {m}
  BY <1>1 DEF NameCall
<1>6. CASE m \in call.seen
  <2>1. sub.seen = call.seen /\ sub.nets = {} /\ sub \in NameCall
    BY <1>2, <1>4, <1>6
  <2>2. QED
    BY <1>6, <2>1 DEF m, sub
<1>7. CASE m \in Group \ call.seen
  <2>1. sub = f[enter]
    BY <1>2, <1>7
  <2>2. QED
    BY <1>1, <1>3, <1>7, <2>1 DEF m, sub, enter
<1>8. CASE m \notin Group \cup call.seen /\ m \in Leaf /\ _networks_for_object(m)
  <2>1. sub \in NameCall /\ sub.seen = enter.seen /\ sub.nets = {m}
    BY <1>2, <1>5, <1>8
  <2>2. {m} = {o \in Leaf \cap (sub.seen \ call.seen) : _networks_for_object(o)}
    BY <1>1, <1>8, <2>1
  <2>3. QED
    BY <1>1, <1>8, <2>1, <2>2 DEF m, sub
<1>9. CASE m \notin Group \cup call.seen /\ ~(m \in Leaf /\ _networks_for_object(m))
  <2>1. sub \in NameCall /\ sub.seen = enter.seen /\ sub.nets = {}
    BY <1>1, <1>2, <1>9
  <2>2. {} = {o \in Leaf \cap (sub.seen \ call.seen) : _networks_for_object(o)}
    BY <1>1, <1>9, <2>1
  <2>3. QED
    BY <1>1, <1>9, <2>1, <2>2 DEF m, sub
<1>10. QED
  BY <1>6, <1>7, <1>8, <1>9

LEMMA NameNextIs ==
    ASSUME GroupsTypeOK, NEW call \in NameCall, call.todo # <<>>, NEW sub \in NameCall, call.seen \subseteq sub.seen
    PROVE  /\ NameNext(call, sub) \in NameCall /\ NameWork[NameNext(call, sub)] < NameWork[call]
           /\ NameNext(call, sub).todo = Tail(call.todo) /\ NameNext(call, sub).seen = sub.seen
           /\ NameNext(call, sub).nets = call.nets \cup sub.nets
<1> DEFINE next == NameNext(call, sub)
<1>1. /\ call.todo \in Seq(Member) /\ call.nets \subseteq Leaf /\ call.known \in BOOLEAN
      /\ sub.seen \subseteq Member /\ sub.nets \subseteq Leaf /\ sub.known \in BOOLEAN
  BY DEF NameCall
<1>2. Tail(call.todo) \in Seq(Member) /\ Len(Tail(call.todo)) = Len(call.todo) - 1 /\ Len(call.todo) \in Nat \ {0}
  BY <1>1, NamesOfParts
<1>3. /\ next.todo = Tail(call.todo) /\ next.seen = sub.seen /\ next.nets = call.nets \cup sub.nets
      /\ next = [todo |-> next.todo, seen |-> next.seen, nets |-> next.nets, known |-> next.known]
      /\ next.known = (call.known \/ sub.known)
  BY DEF NameNext
<1> HIDE DEF next
<1>4. next.nets \subseteq Leaf /\ next.known \in BOOLEAN
  BY <1>1, <1>3
<1>5. next \in NameCall
  BY <1>1, <1>2, <1>3, <1>4 DEF NameCall
<1>6. PICK k \in Nat : k = Len(next.todo)
  BY <1>2, <1>3
<1>7. PICK n \in Nat : n = Len(call.todo)
  BY <1>2
<1>8. k < n
  BY <1>2, <1>3, <1>6, <1>7
<1>9. Work(next.seen, k) < Work(call.seen, n)
  BY <1>3, <1>8, LessWork
<1>10. NameWork[next] < NameWork[call]
  BY <1>5, <1>6, <1>7, <1>9 DEF NameWork
<1>11. QED
  BY <1>3, <1>5, <1>10 DEF next

LEMMA ResolveIs ==
    ASSUME GroupsTypeOK
    PROVE  \A call \in NameCall : /\ _resolve[call] = NameOnce(_resolve, call)
                                  /\ _resolve[call] \in NameCall /\ call.seen \subseteq _resolve[call].seen
<1> DEFINE R == NameCall
           Q == [call \in NameCall |-> {r \in NameCall : call.seen \subseteq r.seen}]
           M == NameWork
           D == {f \in [NameCall -> R] : \A call \in NameCall : f[call] \in Q[call]}
           base == [call \in NameCall |-> call]
           step == [f \in D |-> [call \in NameCall |-> NameOnce(f, call)]]
           Is(f) == f = [call \in NameCall |-> NameOnce(f, call)]
<1>1. Q \in [NameCall -> SUBSET R] /\ base \in D
  <2>1. Q \in [NameCall -> SUBSET R]
    OBVIOUS
  <2>2. \A call \in NameCall : base[call] = call /\ call \in Q[call]
    OBVIOUS
  <2>3. base \in [NameCall -> R]
    OBVIOUS
  <2> HIDE DEF Q, base
  <2>4. QED
    BY <2>1, <2>2, <2>3
<1>2. ASSUME NEW f \in D, NEW call \in NameCall PROVE f[call] \in NameCall /\ call.seen \subseteq f[call].seen
  <2>1. f[call] \in Q[call]
    BY <1>2
  <2>2. QED
    BY <2>1
<1>3. ASSUME NEW f \in D, NEW call \in NameCall, call.todo # <<>>
      PROVE  /\ NameSub(f, call) \in NameCall /\ call.seen \subseteq NameSub(f, call).seen
             /\ NameNext(call, NameSub(f, call)) \in NameCall
             /\ NameNext(call, NameSub(f, call)).seen = NameSub(f, call).seen
             /\ M[NameNext(call, NameSub(f, call))] < M[call]
  <2>1. NameEnter(call) \in NameCall
    BY <1>3, NameEnterIs
  <2>2. f[NameEnter(call)] \in NameCall /\ NameEnter(call).seen \subseteq f[NameEnter(call)].seen
    BY <1>2, <2>1
  <2> HIDE DEF D
  <2>3. NameSub(f, call) \in NameCall /\ call.seen \subseteq NameSub(f, call).seen
    BY <1>3, <2>2, NameSubIs
  <2>4. QED
    BY <1>3, <2>3, NameNextIs
<1>4. ASSUME NEW f \in D, NEW call \in NameCall PROVE NameOnce(f, call) \in Q[call]
  <2>1. CASE call.todo = <<>>
    BY <2>1 DEF NameOnce
  <2>2. CASE call.todo # <<>>
    <3> DEFINE next == NameNext(call, NameSub(f, call))
    <3>1. next \in NameCall /\ call.seen \subseteq next.seen
      BY <1>3, <2>2
    <3>2. NameOnce(f, call) = f[next]
      BY <2>2 DEF NameOnce
    <3> HIDE DEF next, D
    <3>3. f[next] \in NameCall /\ next.seen \subseteq f[next].seen
      BY <1>2, <3>1
    <3>4. QED
      BY <3>1, <3>2, <3>3
  <2>3. QED
    BY <2>1, <2>2
<1>5. step \in [D -> D]
  <2>1. \A f \in D : [call \in NameCall |-> NameOnce(f, call)] \in D
    <3>1. \A f \in D, call \in NameCall : NameOnce(f, call) \in Q[call] /\ NameOnce(f, call) \in R
      BY <1>4
    <3> HIDE DEF R, Q
    <3>2. QED
      BY <3>1
  <2> HIDE DEF D
  <2>2. QED
    BY <2>1
<1>6. ASSUME NEW f \in D, NEW g \in D, NEW call \in NameCall, \A c \in NameCall : M[c] < M[call] => f[c] = g[c]
      PROVE  step[f][call] = step[g][call]
  <2>1. step[f][call] = NameOnce(f, call) /\ step[g][call] = NameOnce(g, call)
    <3> HIDE DEF D
    <3>1. QED
      OBVIOUS
  <2>2. CASE call.todo = <<>>
    BY <2>1, <2>2 DEF NameOnce
  <2>3. CASE call.todo # <<>>
    <3>1. NameSub(f, call) = NameSub(g, call)
      <4>1. Head(call.todo) \in Group \ call.seen => f[NameEnter(call)] = g[NameEnter(call)]
        BY <1>6, <2>3, NameEnterIs
      <4> HIDE DEF D
      <4>2. QED
        BY <4>1 DEF NameSub
    <3> DEFINE next == NameNext(call, NameSub(f, call))
    <3>2. next \in NameCall /\ M[next] < M[call]
      BY <1>3, <2>3
    <3>3. NameOnce(f, call) = f[next] /\ NameOnce(g, call) = g[next]
      <4> HIDE DEF D
      <4>1. QED
        BY <2>3, <3>1 DEF NameOnce
    <3> HIDE DEF next, D, step
    <3>4. f[next] = g[next]
      BY <1>6, <3>2
    <3>5. QED
      BY <2>1, <3>3, <3>4
  <2> HIDE DEF D, step
  <2>4. QED
    BY <2>2, <2>3
<1>7. PICK h \in D : step[h] = h
  <2>1. D = {f \in [NameCall -> R] : \A call \in NameCall : f[call] \in Q[call]}
    OBVIOUS
  <2>2. M \in [NameCall -> Nat]
    BY NameWorkIs
  <2> HIDE DEF D, Q, M, base, step, R
  <2>3. \A f, g \in D : \A call \in NameCall : (\A c \in NameCall : M[c] < M[call] => f[c] = g[c]) => step[f][call] = step[g][call]
    BY <1>6
  <2>4. Recursive(NameCall, R, Q, M, D, base, step)
    BY <1>1, <1>5, <2>1, <2>2, <2>3 DEF Recursive
  <2>5. QED
    BY <2>4, Recursion
<1>8. Is(h)
  <2>1. step[h] = [call \in NameCall |-> NameOnce(h, call)]
    <3> HIDE DEF D
    <3>1. QED
      OBVIOUS
  <2> HIDE DEF step, D
  <2>2. QED
    BY <1>7, <2>1
<1> DEFINE w == CHOOSE f : Is(f)
<1>9. Is(w)
  <2> HIDE DEF Is
  <2>1. QED
    BY <1>8
<1>10. _resolve = w
  BY DEF _resolve, NameOnce, NameNext, NameSub, NameEnter
<1> HIDE DEF w
<1>11. \A call \in NameCall : _resolve[call] = NameOnce(_resolve, call)
  BY <1>9, <1>10
<1> DEFINE Good == {call \in NameCall : _resolve[call] \in NameCall /\ call.seen \subseteq _resolve[call].seen}
<1>12. ASSUME NEW call \in NameCall, \A c \in NameCall : M[c] < M[call] => c \in Good PROVE call \in Good
  <2>1. CASE call.todo = <<>>
    <3>1. _resolve[call] = call
      BY <1>11, <2>1 DEF NameOnce
    <3>2. QED
      BY <3>1
  <2>2. CASE call.todo # <<>>
    <3> DEFINE sub == NameSub(_resolve, call)
               next == NameNext(call, sub)
    <3>1. Head(call.todo) \in Group \ call.seen =>
            _resolve[NameEnter(call)] \in NameCall /\ NameEnter(call).seen \subseteq _resolve[NameEnter(call)].seen
      <4>1. Head(call.todo) \in Group \ call.seen => NameEnter(call) \in Good
        BY <1>12, <2>2, NameEnterIs
      <4>2. QED
        BY <4>1
    <3>2. sub \in NameCall /\ call.seen \subseteq sub.seen
      BY <2>2, <3>1, NameSubIs
    <3> HIDE DEF sub
    <3>3. next \in NameCall /\ M[next] < M[call] /\ next.seen = sub.seen
      BY <2>2, <3>2, NameNextIs
    <3>4. _resolve[call] = _resolve[next]
      BY <1>11, <2>2 DEF NameOnce, sub
    <3> HIDE DEF next
    <3>5. next \in Good
      BY <1>12, <3>3
    <3>6. QED
      BY <3>2, <3>3, <3>4, <3>5
  <2>3. QED
    BY <2>1, <2>2
<1>13. NameCall \subseteq Good
  <2>1. M \in [NameCall -> Nat]
    BY NameWorkIs
  <2> HIDE DEF Good, M
  <2>2. \A call \in NameCall : (\A c \in NameCall : M[c] < M[call] => c \in Good) => call \in Good
    BY <1>12
  <2>3. QED
    BY <2>1, <2>2, ByMeasure
<1>14. QED
  BY <1>11, <1>13

(* What a call returns: it has seen the names to do and all that is below  *)
(* them, and has found the networks of what it has newly seen.             *)
Resolves(call, r, c) ==
    /\ call.seen \cup NamesIn(call.todo) \subseteq r.seen
    /\ \A h \in (r.seen \ call.seen) \cap Group : Listed(h) \subseteq r.seen
    /\ r.nets = call.nets \cup {o \in Leaf \cap (r.seen \ call.seen) : _networks_for_object(o)}
    /\ call.seen \cup NamesIn(call.todo) \subseteq c => r.seen \subseteq c

LEMMA ResolveFinds ==
    ASSUME GroupsTypeOK, NEW c, \A h \in c \cap Group : Listed(h) \subseteq c
    PROVE  \A call \in NameCall : Resolves(call, _resolve[call], c)
<1> DEFINE M == NameWork
           Good == {call \in NameCall : Resolves(call, _resolve[call], c)}
<1>1. ASSUME NEW call \in NameCall, \A k \in NameCall : M[k] < M[call] => k \in Good PROVE call \in Good
  <2>1. CASE call.todo = <<>>
    <3>1. _resolve[call] = call
      BY <2>1, ResolveIs DEF NameOnce
    <3>2. NamesIn(call.todo) = {}
      BY <2>1 DEF NamesIn
    <3>3. QED
      BY <3>1, <3>2 DEF Resolves
  <2>2. CASE call.todo # <<>>
    <3> DEFINE m == Head(call.todo)
               rest == Tail(call.todo)
               enter == NameEnter(call)
               sub == NameSub(_resolve, call)
               next == NameNext(call, sub)
               new == {o \in Leaf \cap (sub.seen \ call.seen) : _networks_for_object(o)}
               r == _resolve[call]
    <3>1. /\ m \in Member /\ NamesIn(call.todo) = {m} \cup NamesIn(rest)
          /\ enter \in NameCall
          /\ enter.todo = IF m \in Group THEN members[m] ELSE <<>>
          /\ enter.seen = call.seen \cup {m} /\ enter.nets = {}
          /\ m \in Group \ call.seen => M[enter] < M[call]
      BY <2>2, NameEnterIs
    <3>2. /\ sub \in NameCall /\ call.seen \cup {m} \subseteq sub.seen
          /\ m \in Group \ call.seen => sub = _resolve[enter]
          /\ m \notin Group \ call.seen => sub.seen = call.seen \cup {m} /\ sub.nets = new
      <4>1. m \in Group \ call.seen => _resolve[enter] \in NameCall /\ enter.seen \subseteq _resolve[enter].seen
        BY <3>1, ResolveIs
      <4>2. QED
        BY <2>2, <4>1, NameSubIs
    <3> HIDE DEF sub
    <3>3. /\ next \in NameCall /\ M[next] < M[call]
          /\ next.todo = rest /\ next.seen = sub.seen /\ next.nets = call.nets \cup sub.nets
      BY <2>2, <3>2, NameNextIs
    <3>4. r = _resolve[next]
      BY <2>2, ResolveIs DEF NameOnce, sub
    <3> HIDE DEF m, rest, enter, next, r
    <3>5. /\ \A h \in (sub.seen \ call.seen) \cap Group : Listed(h) \subseteq sub.seen
          /\ sub.nets = new
          /\ call.seen \cup NamesIn(call.todo) \subseteq c => sub.seen \subseteq c
      <4>1. CASE m \in Group \ call.seen
        <5>1. enter \in Good
          BY <1>1, <3>1, <4>1
        <5>2. Resolves(enter, sub, c)
          BY <3>2, <4>1, <5>1
        <5>3. NamesIn(enter.todo) = Listed(m) /\ m \notin Leaf
          BY <3>1, <4>1, MembersAre, GroupsAssumption
        <5>4. Listed(m) \subseteq sub.seen
          BY <5>2, <5>3 DEF Resolves
        <5>5. \A h \in (sub.seen \ call.seen) \cap Group : Listed(h) \subseteq sub.seen
          BY <3>1, <5>2, <5>4 DEF Resolves
        <5>6. sub.nets = new
          BY <3>1, <5>2, <5>3 DEF Resolves
        <5>7. ASSUME call.seen \cup NamesIn(call.todo) \subseteq c PROVE sub.seen \subseteq c
          <6>1. m \in c /\ call.seen \subseteq c
            BY <3>1, <5>7
          <6>2. Listed(m) \subseteq c
            BY <4>1, <6>1
          <6>3. enter.seen \cup NamesIn(enter.todo) \subseteq c
            BY <3>1, <5>3, <6>1, <6>2
          <6>4. QED
            BY <5>2, <6>3 DEF Resolves
        <5> HIDE DEF new
        <5>8. QED
          BY <5>5, <5>6, <5>7
      <4>2. CASE m \notin Group \ call.seen
        <5>1. sub.seen = call.seen \cup {m} /\ sub.nets = new
          BY <3>2, <4>2
        <5> HIDE DEF new
        <5>2. QED
          BY <3>1, <4>2, <5>1
      <4>3. QED
        BY <4>1, <4>2
    <3>6. Resolves(next, r, c)
      BY <1>1, <3>3, <3>4
    <3>7. call.seen \cup NamesIn(call.todo) \subseteq r.seen
      BY <3>1, <3>2, <3>3, <3>6 DEF Resolves
    <3>8. sub.seen \subseteq r.seen
      BY <3>3, <3>6 DEF Resolves
    <3>9. \A h \in (r.seen \ call.seen) \cap Group : Listed(h) \subseteq r.seen
      BY <3>3, <3>5, <3>6, <3>8 DEF Resolves
    <3>10. r.nets = call.nets \cup {o \in Leaf \cap (r.seen \ call.seen) : _networks_for_object(o)}
      BY <3>2, <3>3, <3>5, <3>6, <3>8 DEF Resolves
    <3>11. call.seen \cup NamesIn(call.todo) \subseteq c => r.seen \subseteq c
      BY <3>1, <3>3, <3>5, <3>6 DEF Resolves
    <3>12. QED
      BY <3>7, <3>9, <3>10, <3>11 DEF Resolves, r
  <2>3. QED
    BY <2>1, <2>2
<1>2. NameCall \subseteq Good
  <2>1. M \in [NameCall -> Nat]
    BY NameWorkIs
  <2> HIDE DEF Good, M
  <2>2. \A call \in NameCall : (\A k \in NameCall : M[k] < M[call] => k \in Good) => call \in Good
    BY <1>1
  <2>3. QED
    BY <2>1, <2>2, ByMeasure
<1>3. QED
  BY <1>2

LEMMA NamesFound ==
    ASSUME GroupsTypeOK, NEW g \in Group
    PROVE  networks_for_ref(g) \in {Below({g}) \cap {o \in Leaf : _networks_for_object(o)}, Unresolved}
<1> DEFINE start == [todo |-> <<g>>, seen |-> {}, nets |-> {}, known |-> FALSE]
           c == Below({g})
           r == _resolve[start]
<1>1. start \in NameCall /\ start.todo = <<g>> /\ start.seen = {} /\ start.nets = {}
  BY DEF NameCall, Member
<1>2. NamesIn(<<g>>) = {g}
  BY DEF NamesIn
<1>3. g \in c /\ \A h \in c \cap Group : Listed(h) \subseteq c
  BY BelowIs
<1>4. networks_for_ref(g) = IF r.known THEN r.nets ELSE Unresolved
  BY DEF networks_for_ref
<1> HIDE DEF start, c
<1>5. Resolves(start, r, c)
  BY <1>1, <1>3, ResolveFinds
<1> HIDE DEF r
<1>6. {g} \subseteq r.seen /\ (\A h \in r.seen \cap Group : Listed(h) \subseteq r.seen) /\ r.seen \subseteq c
  BY <1>1, <1>2, <1>3, <1>5 DEF Resolves
<1>7. c \subseteq r.seen
  BY <1>6, BelowIs DEF c
<1>8. r.nets = c \cap {o \in Leaf : _networks_for_object(o)}
  BY <1>1, <1>5, <1>6, <1>7 DEF Resolves
<1>9. QED
  BY <1>4, <1>8 DEF c
-----------------------------------------------------------------------------
(* Hygiene: what a name resolves to, by what is below it.                  *)
Opaque(x) ==
    LET below == Below({x})
    IN  \/ \E m \in below \ Group : m \in Gone \/ ~HygieneKnows(m)
        \/ \E h \in below \cap Group : members[h] = <<>> \/ Cyclic(h)

Answer(x) == IF Opaque(x) THEN Unresolved ELSE Below({x}) \cap Leaf

LEMMA AnswerOfObject ==
    ASSUME NEW x \in Member \ Group
    PROVE  /\ Opaque(x) <=> ~(x \in Leaf /\ HygieneKnows(x))
           /\ Answer(x) = IF x \in Leaf /\ HygieneKnows(x) THEN {x} ELSE Unresolved
<1>1. Below({x}) = {x}
  BY BelowObject
<1>2. x \in Leaf \/ x \in Gone
  BY DEF Member
<1>3. x \in Gone => x \notin Leaf
  BY GroupsAssumption
<1>4. Opaque(x) <=> x \in Gone \/ ~HygieneKnows(x)
  BY <1>1 DEF Opaque
<1>5. QED
  BY <1>1, <1>2, <1>3, <1>4 DEF Answer

LEMMA BelowMembers ==
    ASSUME NEW g \in Group
    PROVE  Below({g}) = {g} \cup UNION {Below({x}) : x \in Listed(g)}
<1>1. Below({g}) = {g} \cup Below(Listed(g))
  BY BelowGroup
<1>2. \A n \in Below(Listed(g)) : \E x \in Listed(g) : n \in Below({x})
  BY BelowSome
<1>3. \A x \in Listed(g) : x \in Below(Listed(g))
  BY BelowIs
<1>4. \A x \in Listed(g) : Below({x}) \subseteq Below(Listed(g))
  BY <1>3, BelowOne
<1>5. QED
  BY <1>1, <1>2, <1>4

(* A group is opaque if it is empty or a member is: a cycle through it     *)
(* goes through a member.                                                  *)
LEMMA OpaqueGroup ==
    ASSUME NEW g \in Group
    PROVE  /\ Opaque(g) <=> members[g] = <<>> \/ \E x \in Listed(g) : Opaque(x)
           /\ Below({g}) \cap Leaf = UNION {Below({x}) \cap Leaf : x \in Listed(g)}
<1>1. Below({g}) = {g} \cup UNION {Below({x}) : x \in Listed(g)} /\ g \in Below({g})
  BY BelowMembers
<1>2. ASSUME NEW x \in Listed(g), Opaque(x) PROVE Opaque(g)
  <2>1. Below({x}) \subseteq Below({g})
    BY <1>1
  <2>2. QED
    BY <1>2, <2>1 DEF Opaque
<1>3. members[g] = <<>> => Opaque(g)
  BY <1>1 DEF Opaque
<1>4. ASSUME Cyclic(g) PROVE \E x \in Listed(g) : Opaque(x)
  <2>1. PICK x \in Listed(g) : g \in Below({x})
    BY <1>4, BelowSome DEF Cyclic
  <2>2. Opaque(x)
    BY <1>4, <2>1 DEF Opaque
  <2>3. QED
    BY <2>2
<1>5. ASSUME Opaque(g) PROVE members[g] = <<>> \/ \E x \in Listed(g) : Opaque(x)
  <2>1. CASE \E m \in Below({g}) \ Group : m \in Gone \/ ~HygieneKnows(m)
    <3>1. PICK m \in Below({g}) \ Group : m \in Gone \/ ~HygieneKnows(m)
      BY <2>1
    <3>2. PICK x \in Listed(g) : m \in Below({x})
      BY <1>1, <3>1
    <3>3. Opaque(x)
      BY <3>1, <3>2 DEF Opaque
    <3>4. QED
      BY <3>3
  <2>2. CASE \E h \in Below({g}) \cap Group : members[h] = <<>> \/ Cyclic(h)
    <3>1. PICK h \in Below({g}) \cap Group : members[h] = <<>> \/ Cyclic(h)
      BY <2>2
    <3>2. CASE h = g
      BY <1>4, <3>1, <3>2
    <3>3. CASE h # g
      <4>1. PICK x \in Listed(g) : h \in Below({x})
        BY <1>1, <3>1, <3>3
      <4>2. Opaque(x)
        BY <3>1, <4>1 DEF Opaque
      <4>3. QED
        BY <4>2
    <3>4. QED
      BY <3>2, <3>3
  <2>3. QED
    BY <1>5, <2>1, <2>2 DEF Opaque
<1>6. g \notin Leaf
  BY GroupsAssumption
<1>7. Below({g}) \cap Leaf = UNION {Below({x}) \cap Leaf : x \in Listed(g)}
  <2>1. ASSUME NEW o \in Below({g}) \cap Leaf PROVE \E x \in Listed(g) : o \in Below({x}) \cap Leaf
    BY <1>1, <1>6
  <2>2. ASSUME NEW x \in Listed(g) PROVE Below({x}) \cap Leaf \subseteq Below({g}) \cap Leaf
    BY <1>1
  <2>3. QED
    BY <2>1, <2>2
<1>8. QED
  BY <1>2, <1>3, <1>5, <1>7

(* The memo of the hygiene checks, and one member of the loop.             *)
Memos == UNION {[D -> (SUBSET Leaf) \cup {Unresolved}] : D \in SUBSET Group}

LEMMA MemosAre ==
    /\ \A memo \in Memos : /\ DOMAIN memo \subseteq Group
                           /\ \A g \in DOMAIN memo : memo[g] \in (SUBSET Leaf) \cup {Unresolved}
    /\ \A memo \in Memos, g \in Group, nets \in (SUBSET Leaf) \cup {Unresolved} :
         /\ Memoized(memo, g, nets) \in Memos /\ DOMAIN Memoized(memo, g, nets) = DOMAIN memo \cup {g}
         /\ Memoized(memo, g, nets)[g] = nets
         /\ \A n \in DOMAIN memo \ {g} : Memoized(memo, g, nets)[n] = memo[n]
<1>1. ASSUME NEW memo \in Memos
      PROVE  /\ DOMAIN memo \subseteq Group
             /\ \A g \in DOMAIN memo : memo[g] \in (SUBSET Leaf) \cup {Unresolved}
  <2>1. PICK D \in SUBSET Group : memo \in [D -> (SUBSET Leaf) \cup {Unresolved}]
    BY DEF Memos
  <2>2. QED
    BY <2>1
<1>2. ASSUME NEW memo \in Memos, NEW g \in Group, NEW nets \in (SUBSET Leaf) \cup {Unresolved}
      PROVE  /\ Memoized(memo, g, nets) \in Memos /\ DOMAIN Memoized(memo, g, nets) = DOMAIN memo \cup {g}
             /\ Memoized(memo, g, nets)[g] = nets
             /\ \A n \in DOMAIN memo \ {g} : Memoized(memo, g, nets)[n] = memo[n]
  <2>1. PICK E : E = DOMAIN memo \cup {g}
    OBVIOUS
  <2>2. PICK V : V = (SUBSET Leaf) \cup {Unresolved}
    OBVIOUS
  <2>3. PICK p : p = [n \in E |-> IF n = g THEN nets ELSE memo[n]]
    OBVIOUS
  <2>4. p = Memoized(memo, g, nets)
    BY <2>1, <2>3 DEF Memoized
  <2>5. \A n \in E : (IF n = g THEN nets ELSE memo[n]) \in V
    BY <1>1, <2>1, <2>2
  <2>6. p \in [E -> V] /\ E \in SUBSET Group
    BY <1>1, <2>1, <2>3, <2>5
  <2>7. p \in Memos
    BY <2>2, <2>6 DEF Memos
  <2>8. DOMAIN p = E /\ p[g] = nets /\ \A n \in E \ {g} : p[n] = memo[n]
    BY <2>1, <2>3
  <2>9. QED
    BY <2>1, <2>4, <2>7, <2>8
<1>3. QED
  BY <1>1, <1>2

GroupResults == [nets : (SUBSET Leaf) \cup {Unresolved}, memo : Memos]

GroupEnter(call) == [call EXCEPT !.todo = members[Head(call.todo)], !.seen = @ \cup {Head(call.todo)}, !.union = {}]

GroupOne(f, call) ==
    LET m == Head(call.todo)
        Nested ==
          LET inner == f[GroupEnter(call)]
              nets  == ResolvedNets(inner.nets)
          IN  [nets |-> nets, memo |-> Memoized(inner.memo, m, nets)]
        Known == [nets |-> IF m \in DOMAIN call.memo THEN call.memo[m]
                           ELSE IF m \in Leaf /\ HygieneKnows(m) THEN {m} ELSE Unresolved,
                  memo |-> call.memo]
    IN  IF m \in Group \ (call.seen \cup DOMAIN call.memo) THEN Nested ELSE Known

GroupRest(call, one) == [call EXCEPT !.todo = Tail(@), !.memo = one.memo, !.union = @ \cup one.nets]

GroupOnce(f, call) ==
    IF call.todo = <<>> THEN [nets |-> call.union, memo |-> call.memo]
    ELSE IF GroupOne(f, call).nets = Unresolved THEN GroupOne(f, call)
    ELSE f[GroupRest(call, GroupOne(f, call))]

GroupWork == [call \in GroupCall |-> Work(call.seen, Len(call.todo))]

LEMMA GroupWorkIs == GroupWork \in [GroupCall -> Nat]
<1>1. \A call \in GroupCall : Work(call.seen, Len(call.todo)) \in Nat
  <2> SUFFICES ASSUME NEW call \in GroupCall PROVE Work(call.seen, Len(call.todo)) \in Nat
    OBVIOUS
  <2>1. Len(call.todo) \in Nat
    BY DEF GroupCall
  <2>2. QED
    BY <2>1, LessWork
<1>2. QED
  BY <1>1 DEF GroupWork

LEMMA GroupCallIs ==
    /\ GroupCall = [todo : Seq(Member), seen : SUBSET Group, union : SUBSET Leaf, memo : Memos]
    /\ \A call \in GroupCall :
         /\ call.todo \in Seq(Member) /\ call.seen \subseteq Group /\ call.union \subseteq Leaf /\ call.memo \in Memos
         /\ call = [todo |-> call.todo, seen |-> call.seen, union |-> call.union, memo |-> call.memo]
<1>1. GroupCall = [todo : Seq(Member), seen : SUBSET Group, union : SUBSET Leaf, memo : Memos]
  BY DEF GroupCall, Memos
<1>2. QED
  BY <1>1

LEMMA GroupEnterIs ==
    ASSUME GroupsTypeOK, NEW call \in GroupCall, call.todo # <<>>
    PROVE  LET m == Head(call.todo)
               enter == GroupEnter(call)
           IN  /\ m \in Member /\ Tail(call.todo) \in Seq(Member) /\ NamesIn(call.todo) = {m} \cup NamesIn(Tail(call.todo))
               /\ m \in Group \ call.seen =>
                    /\ enter \in GroupCall /\ GroupWork[enter] < GroupWork[call]
                    /\ enter.todo = members[m] /\ enter.seen = call.seen \cup {m}
                    /\ enter.union = {} /\ enter.memo = call.memo
<1> DEFINE m == Head(call.todo)
           enter == GroupEnter(call)
<1>1. /\ call.todo \in Seq(Member) /\ call.seen \subseteq Group /\ call.union \subseteq Leaf /\ call.memo \in Memos
      /\ call = [todo |-> call.todo, seen |-> call.seen, union |-> call.union, memo |-> call.memo]
  BY GroupCallIs
<1>2. /\ m \in Member /\ Tail(call.todo) \in Seq(Member) /\ NamesIn(call.todo) = {m} \cup NamesIn(Tail(call.todo))
      /\ Len(call.todo) \in Nat /\ Len(call.todo) # 0
  BY <1>1, NamesOfParts
<1>3. enter = [todo |-> members[m], seen |-> call.seen \cup {m}, union |-> {}, memo |-> call.memo]
  <2>1. enter = [call EXCEPT !.todo = members[m], !.seen = @ \cup {m}, !.union = {}]
    BY DEF GroupEnter
  <2> HIDE DEF m, enter
  <2>2. QED
    BY <1>1, <2>1
<1> HIDE DEF m, enter
<1>4. ASSUME m \in Group \ call.seen PROVE enter \in GroupCall /\ GroupWork[enter] < GroupWork[call]
  <2>1. members[m] \in Seq(Member) /\ Len(members[m]) \in Nat /\ Len(members[m]) <= MaxMembers
    BY <1>4, MembersAre
  <2>2. enter \in GroupCall
    BY <1>1, <1>3, <1>4, <2>1, GroupCallIs
  <2>3. PICK k \in Nat : k = Len(members[m])
    BY <2>1
  <2>4. PICK n \in Nat : n = Len(call.todo)
    BY <1>2
  <2>5. MaxMembers \in Nat
    BY GroupsAssumption
  <2>6. k <= MaxMembers + n - 1 /\ n # 0
    BY <1>2, <2>1, <2>3, <2>4, <2>5
  <2>7. Work(call.seen \cup {m}, k) < Work(call.seen, n)
    BY <1>4, <2>6, LessWork
  <2>8. enter.todo = members[m] /\ enter.seen = call.seen \cup {m}
    BY <1>3
  <2>9. QED
    BY <2>2, <2>3, <2>4, <2>7, <2>8 DEF GroupWork
<1>5. QED
  BY <1>2, <1>3, <1>4 DEF m, enter

(* The member's part of a step, given what the inner call returns.         *)
LEMMA GroupOneIs ==
    ASSUME GroupsTypeOK, NEW call \in GroupCall, call.todo # <<>>, NEW f,
           Head(call.todo) \in Group \ call.seen => f[GroupEnter(call)] \in GroupResults
    PROVE  LET m == Head(call.todo)
               inner == f[GroupEnter(call)]
               one == GroupOne(f, call)
           IN  /\ one \in GroupResults
               /\ m \in Group \ (call.seen \cup DOMAIN call.memo) =>
                    /\ one.nets = ResolvedNets(inner.nets)
                    /\ one.memo = Memoized(inner.memo, m, one.nets)
               /\ m \in DOMAIN call.memo => one.nets = call.memo[m] /\ one.memo = call.memo
               /\ m \notin Group \ (call.seen \cup DOMAIN call.memo) /\ m \notin DOMAIN call.memo =>
                    /\ one.nets = IF m \in Leaf /\ HygieneKnows(m) THEN {m} ELSE Unresolved
                    /\ one.memo = call.memo
<1> DEFINE m == Head(call.todo)
           inner == f[GroupEnter(call)]
           one == GroupOne(f, call)
           nets == ResolvedNets(inner.nets)
<1>1. m \in Member /\ call.memo \in Memos
  BY GroupEnterIs, GroupCallIs
<1>2. one = IF m \in Group \ (call.seen \cup DOMAIN call.memo)
            THEN [nets |-> nets, memo |-> Memoized(inner.memo, m, nets)]
            ELSE [nets |-> IF m \in DOMAIN call.memo THEN call.memo[m]
                           ELSE IF m \in Leaf /\ HygieneKnows(m) THEN {m} ELSE Unresolved,
                  memo |-> call.memo]
  BY DEF GroupOne
<1>3. m \in Group \ call.seen => inner \in GroupResults
  OBVIOUS
<1>4. inner \in GroupResults => nets \in (SUBSET Leaf) \cup {Unresolved}
  BY DEF GroupResults, ResolvedNets
<1> HIDE DEF m, inner, one, nets
<1>5. CASE m \in Group \ (call.seen \cup DOMAIN call.memo)
  <2>1. inner.memo \in Memos /\ nets \in (SUBSET Leaf) \cup {Unresolved}
    BY <1>3, <1>4, <1>5 DEF GroupResults
  <2>2. Memoized(inner.memo, m, nets) \in Memos
    BY <1>5, <2>1, MemosAre
  <2>3. one = [nets |-> nets, memo |-> Memoized(inner.memo, m, nets)]
    BY <1>2, <1>5
  <2>4. one \in GroupResults /\ one.nets = nets /\ one.memo = Memoized(inner.memo, m, nets)
    BY <2>1, <2>2, <2>3 DEF GroupResults
  <2>5. QED
    BY <1>5, <2>4 DEF m, inner, one, nets
<1>6. CASE m \notin Group \ (call.seen \cup DOMAIN call.memo)
  <2>1. PICK v : v = IF m \in DOMAIN call.memo THEN call.memo[m]
                     ELSE IF m \in Leaf /\ HygieneKnows(m) THEN {m} ELSE Unresolved
    OBVIOUS
  <2>2. one = [nets |-> v, memo |-> call.memo]
    BY <1>2, <1>6, <2>1
  <2>3. v \in (SUBSET Leaf) \cup {Unresolved}
    BY <1>1, <2>1, MemosAre
  <2>4. one \in GroupResults /\ one.nets = v /\ one.memo = call.memo
    BY <1>1, <2>2, <2>3 DEF GroupResults
  <2>5. QED
    BY <1>6, <2>1, <2>4 DEF m, inner, one
<1>7. QED
  BY <1>5, <1>6

LEMMA GroupRestIs ==
    ASSUME GroupsTypeOK, NEW call \in GroupCall, call.todo # <<>>, NEW one \in GroupResults, one.nets # Unresolved
    PROVE  LET rest == GroupRest(call, one)
           IN  /\ rest \in GroupCall /\ GroupWork[rest] < GroupWork[call]
               /\ rest.todo = Tail(call.todo) /\ rest.seen = call.seen
               /\ rest.memo = one.memo /\ rest.union = call.union \cup one.nets
<1> DEFINE rest == GroupRest(call, one)
<1>1. /\ call.todo \in Seq(Member) /\ call.seen \subseteq Group /\ call.union \subseteq Leaf /\ call.memo \in Memos
      /\ call = [todo |-> call.todo, seen |-> call.seen, union |-> call.union, memo |-> call.memo]
  BY GroupCallIs
<1>2. Tail(call.todo) \in Seq(Member) /\ Len(Tail(call.todo)) = Len(call.todo) - 1 /\ Len(call.todo) \in Nat \ {0}
  BY <1>1, NamesOfParts
<1>3. one.nets \subseteq Leaf /\ one.memo \in Memos
  BY DEF GroupResults
<1>4. rest = [todo |-> Tail(call.todo), seen |-> call.seen, union |-> call.union \cup one.nets, memo |-> one.memo]
  <2>1. rest = [call EXCEPT !.todo = Tail(@), !.memo = one.memo, !.union = @ \cup one.nets]
    BY DEF GroupRest
  <2> HIDE DEF rest
  <2>2. QED
    BY <1>1, <2>1
<1> HIDE DEF rest
<1>5. rest \in GroupCall
  BY <1>1, <1>2, <1>3, <1>4, GroupCallIs
<1>6. PICK n \in Nat : n = Len(call.todo) /\ n # 0
  BY <1>2
<1>7. PICK k \in Nat : k = n - 1
  BY <1>6
<1>8. k < n /\ Len(rest.todo) = k /\ rest.seen = call.seen
  BY <1>2, <1>4, <1>6, <1>7
<1>9. Work(rest.seen, k) < Work(call.seen, n)
  BY <1>8, LessWork
<1>10. GroupWork[rest] < GroupWork[call]
  BY <1>5, <1>6, <1>8, <1>9 DEF GroupWork
<1>11. QED
  BY <1>4, <1>5, <1>10 DEF rest

LEMMA ResolveGroupIs ==
    ASSUME GroupsTypeOK
    PROVE  \A call \in GroupCall : /\ _resolve_group[call] = GroupOnce(_resolve_group, call)
                                   /\ _resolve_group[call] \in GroupResults
<1> DEFINE R == GroupResults
           Q == [call \in GroupCall |-> R]
           M == GroupWork
           D == {f \in [GroupCall -> R] : \A call \in GroupCall : f[call] \in Q[call]}
           base == [call \in GroupCall |-> [nets |-> Unresolved, memo |-> call.memo]]
           step == [f \in D |-> [call \in GroupCall |-> GroupOnce(f, call)]]
           Is(f) == f = [call \in GroupCall |-> GroupOnce(f, call)]
<1>1. Q \in [GroupCall -> SUBSET R] /\ base \in D
  <2>1. Q \in [GroupCall -> SUBSET R] /\ \A call \in GroupCall : Q[call] = R
    OBVIOUS
  <2>2. \A call \in GroupCall : [nets |-> Unresolved, memo |-> call.memo] \in R
    BY GroupCallIs DEF GroupResults
  <2>3. base \in [GroupCall -> R]
    BY <2>2
  <2> HIDE DEF Q, base, R
  <2>4. QED
    BY <2>1, <2>3
<1>2. ASSUME NEW f, \A call \in GroupCall : f[call] \in GroupResults, NEW call \in GroupCall, call.todo # <<>>
      PROVE  /\ GroupOne(f, call) \in GroupResults
             /\ GroupOne(f, call).nets # Unresolved =>
                  /\ GroupRest(call, GroupOne(f, call)) \in GroupCall
                  /\ M[GroupRest(call, GroupOne(f, call))] < M[call]
  <2>1. Head(call.todo) \in Group \ call.seen => GroupEnter(call) \in GroupCall
    BY <1>2, GroupEnterIs
  <2>2. GroupOne(f, call) \in GroupResults
    BY <1>2, <2>1, GroupOneIs
  <2>3. QED
    BY <1>2, <2>2, GroupRestIs
<1>3. ASSUME NEW f, \A call \in GroupCall : f[call] \in GroupResults, NEW call \in GroupCall PROVE GroupOnce(f, call) \in R
  <2>1. CASE call.todo = <<>>
    <3>1. GroupOnce(f, call) = [nets |-> call.union, memo |-> call.memo]
      BY <2>1 DEF GroupOnce
    <3>2. QED
      BY <3>1, GroupCallIs DEF GroupResults
  <2>2. CASE call.todo # <<>>
    <3> DEFINE one == GroupOne(f, call)
    <3>1. one \in GroupResults /\ (one.nets # Unresolved => GroupRest(call, one) \in GroupCall)
      BY <1>2, <1>3, <2>2
    <3>2. GroupOnce(f, call) = IF one.nets = Unresolved THEN one ELSE f[GroupRest(call, one)]
      BY <2>2 DEF GroupOnce
    <3> HIDE DEF one
    <3>3. QED
      BY <1>3, <3>1, <3>2
  <2>3. QED
    BY <2>1, <2>2
<1>4. \A f \in D : \A call \in GroupCall : f[call] \in GroupResults
  OBVIOUS
<1>5. step \in [D -> D]
  <2>1. \A f \in D : [call \in GroupCall |-> GroupOnce(f, call)] \in D
    <3>1. \A f \in D, call \in GroupCall : GroupOnce(f, call) \in R
      BY <1>3, <1>4
    <3> HIDE DEF R
    <3>2. QED
      BY <3>1
  <2> HIDE DEF D
  <2>2. QED
    BY <2>1
<1>6. ASSUME NEW f \in D, NEW g \in D, NEW call \in GroupCall, \A c \in GroupCall : M[c] < M[call] => f[c] = g[c]
      PROVE  step[f][call] = step[g][call]
  <2>1. step[f][call] = GroupOnce(f, call) /\ step[g][call] = GroupOnce(g, call)
    <3> HIDE DEF D
    <3>1. QED
      OBVIOUS
  <2>2. CASE call.todo = <<>>
    BY <2>1, <2>2 DEF GroupOnce
  <2>3. CASE call.todo # <<>>
    <3> DEFINE one == GroupOne(f, call)
    <3>1. one = GroupOne(g, call)
      <4>1. Head(call.todo) \in Group \ call.seen => f[GroupEnter(call)] = g[GroupEnter(call)]
        BY <1>6, <2>3, GroupEnterIs
      <4> HIDE DEF D
      <4>2. QED
        BY <4>1 DEF GroupOne
    <3>2. one.nets # Unresolved => GroupRest(call, one) \in GroupCall /\ M[GroupRest(call, one)] < M[call]
      <4>1. \A c \in GroupCall : f[c] \in GroupResults
        BY <1>4
      <4> HIDE DEF D, M
      <4>2. QED
        BY <1>2, <2>3, <4>1
    <3>3. /\ GroupOnce(f, call) = IF one.nets = Unresolved THEN one ELSE f[GroupRest(call, one)]
          /\ GroupOnce(g, call) = IF one.nets = Unresolved THEN one ELSE g[GroupRest(call, one)]
      <4> HIDE DEF D
      <4>1. QED
        BY <2>3, <3>1 DEF GroupOnce
    <3> HIDE DEF one, D, step, M
    <3>4. one.nets # Unresolved => f[GroupRest(call, one)] = g[GroupRest(call, one)]
      BY <1>6, <3>2
    <3>5. QED
      BY <2>1, <3>3, <3>4
  <2> HIDE DEF D, step
  <2>4. QED
    BY <2>2, <2>3
<1>7. PICK h \in D : step[h] = h
  <2>1. D = {f \in [GroupCall -> R] : \A call \in GroupCall : f[call] \in Q[call]}
    OBVIOUS
  <2>2. M \in [GroupCall -> Nat]
    BY GroupWorkIs
  <2> HIDE DEF D, Q, M, base, step, R
  <2>3. \A f, g \in D : \A call \in GroupCall : (\A c \in GroupCall : M[c] < M[call] => f[c] = g[c]) => step[f][call] = step[g][call]
    BY <1>6
  <2>4. Recursive(GroupCall, R, Q, M, D, base, step)
    BY <1>1, <1>5, <2>1, <2>2, <2>3 DEF Recursive
  <2>5. QED
    BY <2>4, Recursion
<1>8. Is(h)
  <2>1. step[h] = [call \in GroupCall |-> GroupOnce(h, call)]
    <3> HIDE DEF D
    <3>1. QED
      OBVIOUS
  <2> HIDE DEF step, D
  <2>2. QED
    BY <1>7, <2>1
<1> DEFINE w == CHOOSE f : Is(f)
<1>9. Is(w)
  <2> HIDE DEF Is
  <2>1. QED
    BY <1>8
<1>10. _resolve_group = w
  BY DEF _resolve_group, GroupOnce, GroupOne, GroupEnter, GroupRest
<1> HIDE DEF w
<1>11. \A call \in GroupCall : _resolve_group[call] = GroupOnce(_resolve_group, call)
  BY <1>9, <1>10
<1> DEFINE Good == {call \in GroupCall : _resolve_group[call] \in GroupResults}
<1>12. ASSUME NEW call \in GroupCall, \A c \in GroupCall : M[c] < M[call] => c \in Good PROVE call \in Good
  <2>1. CASE call.todo = <<>>
    <3>1. _resolve_group[call] = [nets |-> call.union, memo |-> call.memo]
      BY <1>11, <2>1 DEF GroupOnce
    <3>2. QED
      BY <3>1, GroupCallIs DEF GroupResults
  <2>2. CASE call.todo # <<>>
    <3> DEFINE one == GroupOne(_resolve_group, call)
               rest == GroupRest(call, one)
    <3>1. one \in GroupResults
      <4>1. Head(call.todo) \in Group \ call.seen => GroupEnter(call) \in Good
        BY <1>12, <2>2, GroupEnterIs
      <4>2. QED
        BY <2>2, <4>1, GroupOneIs
    <3>2. _resolve_group[call] = IF one.nets = Unresolved THEN one ELSE _resolve_group[rest]
      BY <1>11, <2>2 DEF GroupOnce
    <3> HIDE DEF one
    <3>3. one.nets # Unresolved => rest \in GroupCall /\ M[rest] < M[call]
      BY <2>2, <3>1, GroupRestIs
    <3> HIDE DEF rest
    <3>4. one.nets # Unresolved => rest \in Good
      BY <1>12, <3>3
    <3>5. QED
      BY <3>1, <3>2, <3>4
  <2>3. QED
    BY <2>1, <2>2
<1>13. GroupCall \subseteq Good
  <2>1. M \in [GroupCall -> Nat]
    BY GroupWorkIs
  <2> HIDE DEF Good, M
  <2>2. \A call \in GroupCall : (\A c \in GroupCall : M[c] < M[call] => c \in Good) => call \in Good
    BY <1>12
  <2>3. QED
    BY <2>1, <2>2, ByMeasure
<1>14. QED
  BY <1>11, <1>13

(* A memo that is right, also where it was written inside a cycle, and     *)
(* what a call then answers.  The path seen leads to the names to do.      *)
RightMemo(memo) == \A m \in DOMAIN memo : memo[m] = Answer(m) /\ memo[m] # {}

OnPath(call) == \A s \in call.seen, x \in NamesIn(call.todo) : x \in Below(Listed(s))

Answers(call, r) ==
    /\ RightMemo(r.memo) /\ DOMAIN call.memo \subseteq DOMAIN r.memo
    /\ call.todo # <<>> /\ Head(call.todo) \in Group \ call.seen => Head(call.todo) \in DOMAIN r.memo
    /\ r.nets = IF \E x \in NamesIn(call.todo) : Opaque(x) THEN Unresolved
                ELSE call.union \cup UNION {Answer(x) : x \in NamesIn(call.todo)}
    /\ call.todo # <<>> \/ call.union # {} => r.nets # {}

LEMMA KnownOrNot == {} # Unresolved /\ \A x : Answer(x) = Unresolved <=> Opaque(x)
<1>1. \A nets \in SUBSET Leaf : nets # Unresolved
  BY GroupsAssumption
<1>2. {} # Unresolved
  BY <1>1
<1>3. \A x : Below({x}) \cap Leaf # Unresolved
  BY <1>1
<1>4. QED
  BY <1>2, <1>3 DEF Answer

(* What one member adds, given that the inner call answers.                *)
LEMMA OneAnswers ==
    ASSUME GroupsTypeOK, NEW call \in GroupCall, call.todo # <<>>, RightMemo(call.memo), OnPath(call),
           Head(call.todo) \in Group \ call.seen /\ OnPath(GroupEnter(call))
             => Answers(GroupEnter(call), _resolve_group[GroupEnter(call)])
    PROVE  LET m == Head(call.todo)
               one == GroupOne(_resolve_group, call)
           IN  /\ RightMemo(one.memo) /\ DOMAIN call.memo \subseteq DOMAIN one.memo
               /\ m \in Group \ call.seen => m \in DOMAIN one.memo
               /\ one.nets = Answer(m) /\ one.nets # {}
<1> DEFINE m == Head(call.todo)
           enter == GroupEnter(call)
           inner == _resolve_group[enter]
           one == GroupOne(_resolve_group, call)
<1>1. /\ m \in Member /\ NamesIn(call.todo) = {m} \cup NamesIn(Tail(call.todo))
      /\ m \in Group \ call.seen =>
           /\ enter \in GroupCall /\ enter.todo = members[m] /\ enter.seen = call.seen \cup {m}
           /\ enter.union = {} /\ enter.memo = call.memo
  BY GroupEnterIs
<1>2. m \in Group \ call.seen => inner \in GroupResults
  BY <1>1, ResolveGroupIs
<1>3. /\ one \in GroupResults
      /\ m \in Group \ (call.seen \cup DOMAIN call.memo) =>
           one.nets = ResolvedNets(inner.nets) /\ one.memo = Memoized(inner.memo, m, one.nets)
      /\ m \in DOMAIN call.memo => one.nets = call.memo[m] /\ one.memo = call.memo
      /\ m \notin Group \ (call.seen \cup DOMAIN call.memo) /\ m \notin DOMAIN call.memo =>
           /\ one.nets = IF m \in Leaf /\ HygieneKnows(m) THEN {m} ELSE Unresolved
           /\ one.memo = call.memo
  BY <1>2, GroupOneIs
<1>4. m \in Group \ call.seen /\ OnPath(enter) => Answers(enter, inner)
  OBVIOUS
<1>5. m \in Group => Listed(m) = NamesIn(members[m]) /\ members[m] \in Seq(Member)
  BY MembersAre
<1> HIDE DEF m, enter, inner, one
<1>6. CASE m \in Group \ (call.seen \cup DOMAIN call.memo)
  <2>1. OnPath(enter)
    <3>1. ASSUME NEW s \in enter.seen, NEW x \in NamesIn(enter.todo) PROVE x \in Below(Listed(s))
      <4>1. x \in Listed(m)
        BY <1>1, <1>5, <1>6
      <4>2. CASE s = m
        BY <4>1, <4>2, BelowIs
      <4>3. CASE s # m
        <5>1. s \in call.seen
          BY <1>1, <1>6, <4>3
        <5>2. m \in Below(Listed(s))
          BY <1>1, <5>1 DEF OnPath
        <5>3. Listed(m) \subseteq Below(Listed(s))
          BY <1>6, <5>2, BelowIs
        <5>4. QED
          BY <4>1, <5>3
      <4>4. QED
        BY <4>2, <4>3
    <3>2. QED
      BY <3>1 DEF OnPath
  <2>2. Answers(enter, inner)
    BY <1>4, <1>6, <2>1
  <2>3. /\ RightMemo(inner.memo) /\ DOMAIN call.memo \subseteq DOMAIN inner.memo
        /\ inner.nets = IF \E x \in Listed(m) : Opaque(x) THEN Unresolved ELSE UNION {Answer(x) : x \in Listed(m)}
        /\ members[m] # <<>> => inner.nets # {}
    <3>1. enter.todo = members[m] /\ enter.union = {} /\ enter.memo = call.memo /\ NamesIn(enter.todo) = Listed(m)
      BY <1>1, <1>5, <1>6
    <3>2. /\ RightMemo(inner.memo) /\ DOMAIN enter.memo \subseteq DOMAIN inner.memo
          /\ inner.nets = IF \E x \in NamesIn(enter.todo) : Opaque(x) THEN Unresolved
                          ELSE enter.union \cup UNION {Answer(x) : x \in NamesIn(enter.todo)}
          /\ enter.todo # <<>> => inner.nets # {}
      BY <2>2 DEF Answers
    <3>3. \A s : {} \cup s = s
      OBVIOUS
    <3>4. QED
      BY <3>1, <3>2, <3>3
  <2>4. Opaque(m) <=> members[m] = <<>> \/ \E x \in Listed(m) : Opaque(x)
    BY <1>6, OpaqueGroup
  <2>5. one.nets = Answer(m) /\ one.nets # {}
    <3>1. one.nets = IF inner.nets = {} THEN Unresolved ELSE inner.nets
      BY <1>3, <1>6 DEF ResolvedNets
    <3>2. CASE members[m] = <<>>
      <4>1. Listed(m) = {}
        BY <1>5, <1>6, <3>2 DEF NamesIn
      <4>2. inner.nets = {}
        BY <2>3, <4>1
      <4>3. QED
        BY <2>4, <3>1, <3>2, <4>2, KnownOrNot
    <3>3. CASE members[m] # <<>> /\ \E x \in Listed(m) : Opaque(x)
      BY <2>3, <2>4, <3>1, <3>3, KnownOrNot
    <3>4. CASE members[m] # <<>> /\ ~\E x \in Listed(m) : Opaque(x)
      <4>1. one.nets = UNION {Answer(x) : x \in Listed(m)} /\ one.nets # {}
        BY <2>3, <3>1, <3>4
      <4>2. \A x \in Listed(m) : Answer(x) = Below({x}) \cap Leaf
        BY <3>4 DEF Answer
      <4>3. Below({m}) \cap Leaf = UNION {Below({x}) \cap Leaf : x \in Listed(m)}
        BY <1>6, OpaqueGroup
      <4>4. UNION {Answer(x) : x \in Listed(m)} = Below({m}) \cap Leaf
        <5>1. {Answer(x) : x \in Listed(m)} = {Below({x}) \cap Leaf : x \in Listed(m)}
          BY <4>2
        <5>2. QED
          BY <4>3, <5>1
      <4>5. Answer(m) = Below({m}) \cap Leaf
        BY <2>4, <3>4 DEF Answer
      <4>6. QED
        BY <4>1, <4>4, <4>5
    <3>5. QED
      BY <3>2, <3>3, <3>4
  <2>6. inner.memo \in Memos /\ one.nets \in (SUBSET Leaf) \cup {Unresolved}
    BY <1>2, <1>3, <1>6 DEF GroupResults
  <2>7. one.memo = Memoized(inner.memo, m, one.nets)
    BY <1>3, <1>6
  <2>8. /\ DOMAIN one.memo = DOMAIN inner.memo \cup {m} /\ one.memo[m] = one.nets
        /\ \A n \in DOMAIN inner.memo \ {m} : one.memo[n] = inner.memo[n]
    <3>1. PICK memo \in Memos : memo = inner.memo
      BY <2>6
    <3>2. PICK nets \in (SUBSET Leaf) \cup {Unresolved} : nets = one.nets
      BY <2>6
    <3>3. /\ DOMAIN Memoized(memo, m, nets) = DOMAIN memo \cup {m} /\ Memoized(memo, m, nets)[m] = nets
          /\ \A n \in DOMAIN memo \ {m} : Memoized(memo, m, nets)[n] = memo[n]
      <4>1. m \in Group
        BY <1>6
      <4>2. QED
        BY <4>1, MemosAre
    <3>4. QED
      BY <2>7, <3>1, <3>2, <3>3
  <2>9. RightMemo(one.memo)
    BY <2>3, <2>5, <2>8 DEF RightMemo
  <2>10. QED
    BY <2>3, <2>5, <2>8, <2>9 DEF m, one
<1>7. CASE m \in DOMAIN call.memo
  <2>1. one.nets = call.memo[m] /\ one.memo = call.memo
    BY <1>3, <1>7
  <2>2. call.memo[m] = Answer(m) /\ call.memo[m] # {}
    BY <1>7 DEF RightMemo
  <2>3. QED
    BY <1>7, <2>1, <2>2 DEF m, one
<1>8. CASE m \notin DOMAIN call.memo /\ m \notin Group \ call.seen
  <2>1. /\ one.nets = IF m \in Leaf /\ HygieneKnows(m) THEN {m} ELSE Unresolved
        /\ one.memo = call.memo
    BY <1>3, <1>8
  <2>2. one.nets # {}
    BY <2>1, KnownOrNot
  <2>3. one.nets = Answer(m)
    <3>1. CASE m \in Group
      <4>1. m \in Below(Listed(m))
        BY <1>1, <1>8, <3>1 DEF OnPath
      <4>2. m \in Below({m})
        BY BelowIs
      <4>3. Opaque(m)
        BY <3>1, <4>1, <4>2 DEF Opaque, Cyclic
      <4>4. m \notin Leaf
        BY <3>1, GroupsAssumption
      <4>5. QED
        BY <2>1, <4>3, <4>4, KnownOrNot
    <3>2. CASE m \notin Group
      BY <1>1, <2>1, <3>2, AnswerOfObject
    <3>3. QED
      BY <3>1, <3>2
  <2>4. QED
    BY <1>8, <2>1, <2>2, <2>3 DEF m, one
<1>9. QED
  BY <1>6, <1>7, <1>8

LEMMA GroupAnswers ==
    ASSUME GroupsTypeOK
    PROVE  \A call \in GroupCall : RightMemo(call.memo) /\ OnPath(call) => Answers(call, _resolve_group[call])
<1> DEFINE M == GroupWork
           Good == {call \in GroupCall : RightMemo(call.memo) /\ OnPath(call) => Answers(call, _resolve_group[call])}
<1>1. ASSUME NEW call \in GroupCall, \A c \in GroupCall : M[c] < M[call] => c \in Good PROVE call \in Good
  <2> SUFFICES ASSUME RightMemo(call.memo), OnPath(call) PROVE Answers(call, _resolve_group[call])
    OBVIOUS
  <2>1. CASE call.todo = <<>>
    <3>1. _resolve_group[call] = [nets |-> call.union, memo |-> call.memo]
      BY <2>1, ResolveGroupIs DEF GroupOnce
    <3>2. NamesIn(call.todo) = {}
      BY <2>1 DEF NamesIn
    <3>3. UNION {Answer(x) : x \in NamesIn(call.todo)} = {}
      BY <3>2
    <3>4. PICK r : r = _resolve_group[call]
      OBVIOUS
    <3>5. r.nets = call.union /\ r.memo = call.memo
      BY <3>1, <3>4
    <3>6. r.nets = IF \E x \in NamesIn(call.todo) : Opaque(x) THEN Unresolved
                   ELSE call.union \cup UNION {Answer(x) : x \in NamesIn(call.todo)}
      BY <3>2, <3>3, <3>5
    <3>7. Answers(call, r)
      BY <2>1, <3>5, <3>6 DEF Answers
    <3>8. QED
      BY <3>4, <3>7
  <2>2. CASE call.todo # <<>>
    <3> DEFINE m == Head(call.todo)
               tail == Tail(call.todo)
               enter == GroupEnter(call)
               one == GroupOne(_resolve_group, call)
               rest == GroupRest(call, one)
               r == _resolve_group[call]
    <3>1. /\ m \in Member /\ NamesIn(call.todo) = {m} \cup NamesIn(tail)
          /\ m \in Group \ call.seen =>
               enter \in GroupCall /\ M[enter] < M[call] /\ enter.memo = call.memo
      BY <2>2, GroupEnterIs
    <3>2. /\ RightMemo(one.memo) /\ DOMAIN call.memo \subseteq DOMAIN one.memo
          /\ m \in Group \ call.seen => m \in DOMAIN one.memo
          /\ one.nets = Answer(m) /\ one.nets # {}
      <4>1. m \in Group \ call.seen /\ OnPath(enter) => Answers(enter, _resolve_group[enter])
        <5>1. m \in Group \ call.seen => enter \in Good
          BY <1>1, <3>1
        <5>2. QED
          BY <3>1, <5>1
      <4>2. QED
        BY <2>2, <4>1, OneAnswers
    <3>3. one \in GroupResults
      <4>1. m \in Group \ call.seen => _resolve_group[enter] \in GroupResults
        BY <3>1, ResolveGroupIs
      <4>2. QED
        BY <2>2, <4>1, GroupOneIs
    <3>4. r = IF one.nets = Unresolved THEN one ELSE _resolve_group[rest]
      BY <2>2, ResolveGroupIs DEF GroupOnce
    <3> HIDE DEF one
    <3>5. one.nets # Unresolved =>
            /\ rest \in GroupCall /\ M[rest] < M[call]
            /\ rest.todo = tail /\ rest.seen = call.seen /\ rest.memo = one.memo /\ rest.union = call.union \cup one.nets
      BY <2>2, <3>3, GroupRestIs
    <3> HIDE DEF m, tail, enter, rest, r
    <3>6. CASE one.nets = Unresolved
      <4>1. Opaque(m) /\ r = one
        BY <3>2, <3>4, <3>6, KnownOrNot
      <4>2. \E x \in NamesIn(call.todo) : Opaque(x)
        BY <3>1, <4>1
      <4>3. QED
        BY <3>2, <3>6, <4>1, <4>2, KnownOrNot DEF Answers, m, r
    <3>7. CASE one.nets # Unresolved
      <4>1. ~Opaque(m) /\ r = _resolve_group[rest]
        BY <3>2, <3>4, <3>7, KnownOrNot
      <4>2. OnPath(rest)
        BY <3>1, <3>5, <3>7 DEF OnPath
      <4>3. Answers(rest, r)
        <5>1. rest \in Good
          BY <1>1, <3>5, <3>7
        <5>2. QED
          BY <3>2, <3>5, <3>7, <4>1, <4>2, <5>1
      <4>4. /\ RightMemo(r.memo) /\ DOMAIN one.memo \subseteq DOMAIN r.memo
            /\ r.nets = IF \E x \in NamesIn(tail) : Opaque(x) THEN Unresolved
                        ELSE (call.union \cup one.nets) \cup UNION {Answer(x) : x \in NamesIn(tail)}
            /\ r.nets # {}
        BY <3>2, <3>5, <3>7, <4>3 DEF Answers
      <4>5. (\E x \in NamesIn(call.todo) : Opaque(x)) <=> \E x \in NamesIn(tail) : Opaque(x)
        BY <3>1, <4>1
      <4>6. (call.union \cup one.nets) \cup UNION {Answer(x) : x \in NamesIn(tail)}
            = call.union \cup UNION {Answer(x) : x \in NamesIn(call.todo)}
        BY <3>1, <3>2
      <4>7. r.nets = IF \E x \in NamesIn(call.todo) : Opaque(x) THEN Unresolved
                     ELSE call.union \cup UNION {Answer(x) : x \in NamesIn(call.todo)}
        BY <4>4, <4>5, <4>6
      <4>8. DOMAIN call.memo \subseteq DOMAIN r.memo /\ (m \in Group \ call.seen => m \in DOMAIN r.memo)
        BY <3>2, <4>4
      <4>9. QED
        BY <4>4, <4>7, <4>8 DEF Answers, m, r
    <3>8. QED
      BY <3>6, <3>7
  <2>3. QED
    BY <2>1, <2>2
<1>2. GroupCall \subseteq Good
  <2>1. M \in [GroupCall -> Nat]
    BY GroupWorkIs
  <2> HIDE DEF Good, M
  <2>2. \A call \in GroupCall : (\A c \in GroupCall : M[c] < M[call] => c \in Good) => call \in Good
    BY <1>1
  <2>3. QED
    BY <2>1, <2>2, ByMeasure
<1>3. QED
  BY <1>2

(* An order of the groups lists each of them.                              *)
LEMMA OrdersListAll ==
    ASSUME NEW order \in Orders
    PROVE  /\ Len(order) \in Nat /\ DOMAIN order = 1..Len(order) /\ \A i \in 1..Len(order) : order[i] \in Group
           /\ \A g \in Group : \E i \in 1..Len(order) : order[i] = g
<1>1. PICK n \in Nat : n = Cardinality(Group)
  BY GroupsAssumption, FS_CardinalityType
<1>2. order \in [1..n -> Group] /\ \A i, j \in DOMAIN order : order[i] = order[j] => i = j
  BY <1>1 DEF Orders
<1>3. order \in Injection(1..n, Group)
  BY <1>2 DEF Injection, IsInjective
<1>4. Cardinality(1..n) = n
  <2>1. 1 \in Int /\ n \in Int
    OBVIOUS
  <2>2. Cardinality(1..n) = IF 1 > n THEN 0 ELSE n - 1 + 1
    BY <2>1, FS_Interval, Zenon
  <2>3. QED
    BY <2>2
<1>5. order \in Surjection(1..n, Group)
  <2>1. IsFiniteSet(Group) /\ Cardinality(1..n) = Cardinality(Group)
    BY <1>1, <1>4, GroupsAssumption
  <2>2. QED
    BY <1>3, <2>1, FS_Injection
<1>6. \A g \in Group : \E i \in 1..n : order[i] = g
  BY <1>5 DEF Surjection
<1>7. Len(order) = n
  BY <1>2
<1>8. QED
  BY <1>2, <1>6, <1>7

LEMMA ResolverAnswers ==
    ASSUME GroupsTypeOK, NEW order \in Orders
    PROVE  \A g \in Group : Resolver(order)[g] = Answer(g)
<1>1. PICK n \in Nat : n = Len(order)
  BY OrdersListAll
<1>2. (\A i \in 1..n : order[i] \in Group) /\ \A g \in Group : \E i \in 1..n : order[i] = g
  BY <1>1, OrdersListAll
<1> DEFINE S == 0..n
           none == [g \in {} |-> Unresolved]
           Asked(i, memo) == [todo |-> <<order[i]>>, seen |-> {}, memo |-> memo, union |-> {}]
           Once(f, i) == IF i = 0 THEN none
                         ELSE _resolve_group[[todo |-> <<order[i]>>, seen |-> {}, memo |-> f[i - 1], union |-> {}]].memo
           Is(f) == f = [i \in S |-> Once(f, i)]
<1>3. none \in Memos /\ DOMAIN none = {}
  <2>1. {} \in SUBSET Group /\ none \in [{} -> (SUBSET Leaf) \cup {Unresolved}]
    OBVIOUS
  <2> HIDE DEF none
  <2>2. QED
    BY <2>1 DEF Memos
<1> HIDE DEF none
<1>4. ASSUME NEW i \in 1..n, NEW memo \in Memos
      PROVE  /\ Asked(i, memo) \in GroupCall /\ _resolve_group[Asked(i, memo)].memo \in Memos
             /\ RightMemo(memo) => /\ RightMemo(_resolve_group[Asked(i, memo)].memo)
                                   /\ DOMAIN memo \cup {order[i]} \subseteq DOMAIN _resolve_group[Asked(i, memo)].memo
  <2>1. PICK m \in Group : m = order[i]
    BY <1>2
  <2>2. PICK call : call = Asked(i, memo)
    OBVIOUS
  <2>3. call.todo = <<m>> /\ call.seen = {} /\ call.memo = memo /\ call.union = {}
    BY <2>1, <2>2
  <2>4. call \in GroupCall
    <3>1. <<m>> \in Seq(Member)
      BY DEF Member
    <3>2. call = [todo |-> <<m>>, seen |-> {}, memo |-> memo, union |-> {}]
      BY <2>1, <2>2
    <3>3. QED
      BY <3>1, <3>2, GroupCallIs
  <2>5. PICK r : r = _resolve_group[call]
    OBVIOUS
  <2>6. r \in GroupResults
    BY <2>4, <2>5, ResolveGroupIs
  <2>7. ASSUME RightMemo(memo) PROVE RightMemo(r.memo) /\ DOMAIN memo \cup {m} \subseteq DOMAIN r.memo
    <3>1. OnPath(call)
      BY <2>3 DEF OnPath
    <3>2. Answers(call, r)
      BY <2>3, <2>4, <2>5, <2>7, <3>1, GroupAnswers
    <3>3. call.todo # <<>> /\ Head(call.todo) = m
      BY <2>3
    <3>4. QED
      BY <2>3, <3>2, <3>3 DEF Answers
  <2>8. QED
    BY <2>1, <2>2, <2>4, <2>5, <2>6, <2>7 DEF GroupResults
<1> DEFINE R == Memos
           Q == [i \in S |-> R]
           M == [i \in S |-> i]
           D == {f \in [S -> R] : \A i \in S : f[i] \in Q[i]}
           base == [i \in S |-> none]
           step == [f \in D |-> [i \in S |-> Once(f, i)]]
<1>5. \A i \in S : i # 0 => i \in 1..n /\ i - 1 \in S /\ i - 1 < i
  OBVIOUS
<1>6. ASSUME NEW f, NEW i \in S, i # 0 => f[i - 1] \in Memos PROVE Once(f, i) \in Memos
  <2>1. CASE i = 0
    BY <1>3, <2>1
  <2>2. CASE i # 0
    <3>1. Once(f, i) = _resolve_group[Asked(i, f[i - 1])].memo
      BY <2>2
    <3> HIDE DEF Once, Asked
    <3>2. QED
      BY <1>4, <1>5, <1>6, <2>2, <3>1
  <2>3. QED
    BY <2>1, <2>2
<1>7. PICK h \in D : step[h] = h
  <2>1. Q \in [S -> SUBSET R] /\ M \in [S -> Nat] /\ base \in D
    BY <1>3
  <2>2. step \in [D -> D]
    <3>1. \A f \in D, i \in S : Once(f, i) \in R
      <4>1. \A f \in D, i \in S : i # 0 => f[i - 1] \in Memos
        BY <1>5
      <4> HIDE DEF Once, D, S
      <4>2. QED
        BY <1>6, <4>1
    <3>2. \A f \in D : [i \in S |-> Once(f, i)] \in D
      <4> HIDE DEF R, Once, S
      <4>1. QED
        BY <3>1
    <3> HIDE DEF D
    <3>3. QED
      BY <3>2
  <2>3. ASSUME NEW f \in D, NEW g \in D, NEW i \in S, \A j \in S : M[j] < M[i] => f[j] = g[j]
        PROVE  step[f][i] = step[g][i]
    <3>1. step[f][i] = Once(f, i) /\ step[g][i] = Once(g, i)
      <4> HIDE DEF D, Once, S
      <4>1. QED
        OBVIOUS
    <3>2. i # 0 => f[i - 1] = g[i - 1]
      <4>1. i # 0 => i - 1 \in S /\ M[i - 1] < M[i]
        OBVIOUS
      <4> HIDE DEF S, M, D
      <4>2. QED
        BY <2>3, <4>1
    <3>3. Once(f, i) = Once(g, i)
      <4> HIDE DEF D, S
      <4>1. QED
        BY <3>2
    <3>4. QED
      BY <3>1, <3>3
  <2>4. D = {f \in [S -> R] : \A i \in S : f[i] \in Q[i]}
    OBVIOUS
  <2> HIDE DEF D, Q, M, base, step, R, S
  <2>5. \A f, g \in D : \A i \in S : (\A j \in S : M[j] < M[i] => f[j] = g[j]) => step[f][i] = step[g][i]
    BY <2>3
  <2>6. Recursive(S, R, Q, M, D, base, step)
    BY <2>1, <2>2, <2>4, <2>5 DEF Recursive
  <2>7. QED
    BY <2>6, Recursion
<1>8. Is(h)
  <2>1. step[h] = [i \in S |-> Once(h, i)]
    <3> HIDE DEF D, Once, S
    <3>1. QED
      OBVIOUS
  <2> HIDE DEF step, D
  <2>2. QED
    BY <1>7, <2>1
<1> DEFINE after == CHOOSE f : Is(f)
<1>9. Is(after)
  <2> HIDE DEF Is
  <2>1. QED
    BY <1>8
<1>10. Resolver(order) = after[n]
  BY <1>1 DEF Resolver, none
<1> HIDE DEF after
<1>11. \A i \in S : after[i] = Once(after, i)
  <2> HIDE DEF Once, S
  <2>1. QED
    BY <1>9
<1> DEFINE Good == {i \in Nat : i \in S => /\ after[i] \in Memos /\ RightMemo(after[i])
                                           /\ \A j \in 1..i : order[j] \in DOMAIN after[i]}
<1>12. 0 \in Good
  <2>1. 0 \in S /\ 1..0 = {}
    OBVIOUS
  <2>2. after[0] = none
    BY <1>11, <2>1
  <2>3. RightMemo(none)
    BY <1>3 DEF RightMemo
  <2>4. QED
    BY <1>3, <2>1, <2>2, <2>3
<1>13. ASSUME NEW i \in Nat, i \in Good PROVE i + 1 \in Good
  <2> SUFFICES ASSUME i + 1 \in S
               PROVE  /\ after[i + 1] \in Memos /\ RightMemo(after[i + 1])
                      /\ \A j \in 1..(i + 1) : order[j] \in DOMAIN after[i + 1]
    OBVIOUS
  <2>1. PICK k \in 1..n : k = i + 1 /\ k # 0 /\ k - 1 = i /\ k \in S /\ i \in S /\ \A j \in 1..k : j \in 1..i \/ j = k
    OBVIOUS
  <2>2. after[k] = _resolve_group[Asked(k, after[i])].memo
    BY <1>11, <2>1
  <2>3. after[i] \in Memos /\ RightMemo(after[i]) /\ \A j \in 1..i : order[j] \in DOMAIN after[i]
    BY <1>13, <2>1
  <2> HIDE DEF Asked
  <2>4. after[k] \in Memos /\ RightMemo(after[k]) /\ DOMAIN after[i] \cup {order[k]} \subseteq DOMAIN after[k]
    BY <1>4, <2>2, <2>3
  <2>5. QED
    BY <2>1, <2>3, <2>4
<1>14. n \in Good
  <2> HIDE DEF Good
  <2>1. Nat \subseteq Good
    BY <1>12, <1>13, ByNumber
  <2>2. QED
    BY <2>1
<1>15. RightMemo(after[n]) /\ \A j \in 1..n : order[j] \in DOMAIN after[n]
  BY <1>14
<1>16. \A g \in Group : g \in DOMAIN after[n]
  BY <1>2, <1>15
<1>17. QED
  BY <1>10, <1>15, <1>16 DEF RightMemo

LEMMA StackFound ==
    ASSUME GroupsTypeOK, NEW g \in Group
    PROVE  resolve_groups(g) \in {Below({g}) \cap {o \in Leaf : HygieneKnows(o)}, Unresolved}
<1>1. PICK nets : nets = WalkStack[[stack |-> <<g>>, seen |-> {}, nets |-> {}]]
  OBVIOUS
<1>2. resolve_groups(g) = IF nets = {} THEN Unresolved ELSE nets
  BY <1>1 DEF resolve_groups
<1>3. nets = Below({g}) \cap {o \in Leaf : HygieneKnows(o)}
  BY <1>1, StackFinds
<1>4. QED
  BY <1>2, <1>3

LEMMA ExpansionsFollow ==
    ASSUME GroupsTypeOK
    PROVE  ExpansionsAreRight
<1>1. ASSUME NEW order \in Orders, NEW g \in Group
      PROVE  build_addr_resolver(order)[g] = IF Opaque(g) THEN Unresolved ELSE Below({g}) \cap Leaf
  BY <1>1, ResolverAnswers DEF build_addr_resolver, Answer
<1>2. ResolvedMeansComplete
  BY <1>1 DEF ResolvedMeansComplete, Opaque
<1>3. ExpansionsLoseNothing
  <2>1. \A g \in Group : resolve_groups(g) \in {Below({g}) \cap {o \in Leaf : HygieneKnows(o)}, Unresolved}
    BY StackFound
  <2>2. \A g \in Group : networks_for_ref(g) \in {Below({g}) \cap {o \in Leaf : _networks_for_object(o)}, Unresolved}
    BY NamesFound
  <2>3. \A g \in Group : /\ {leaf_names(g)[i] : i \in DOMAIN leaf_names(g)} = Below({g}) \cap Leaf
                         /\ Len(leaf_names(g)) = Cardinality(Below({g}) \cap Leaf)
    BY LeavesFound
  <2>4. QED
    BY <2>1, <2>2, <2>3, Zenon DEF ExpansionsLoseNothing
<1>4. QED
  BY <1>2, <1>3 DEF ExpansionsAreRight

-----------------------------------------------------------------------------
(* The inductive invariant: an edit replaces one list by a longer one.     *)
GroupsIInv == GroupsTypeOK /\ members \in [Group -> Seq(Member)]

LEMMA GroupsIInvInit == GroupsInit => GroupsIInv
<1> SUFFICES ASSUME GroupsInit PROVE GroupsIInv
  OBVIOUS
<1>1. MaxMembers \in Nat /\ <<>> \in Seq(Member) /\ Len(<<>>) = 0
  BY GroupsAssumption
<1>2. members \in [Group -> Seq(Member)] /\ \A g \in Group : members[g] = <<>>
  BY <1>1 DEF GroupsInit
<1>3. QED
  BY <1>1, <1>2 DEF GroupsIInv, GroupsTypeOK

LEMMA GroupsIInvStep == GroupsIInv /\ [GroupsNext]_groupsVars => GroupsIInv'
<1> SUFFICES ASSUME GroupsIInv, [GroupsNext]_groupsVars PROVE GroupsIInv'
  OBVIOUS
<1> USE DEF GroupsIInv
<1>1. CASE GroupsNext
  <2>1. PICK g \in Group, m \in Member : AddMember(g, m)
    BY <1>1 DEF GroupsNext
  <2>2. PICK s : s = members[g]
    OBVIOUS
  <2>3. s \in Seq(Member) /\ Len(s) \in Nat /\ Len(s) < MaxMembers
    BY <2>1, <2>2 DEF AddMember
  <2>4. members' = [members EXCEPT ![g] = Append(s, m)]
    BY <2>1, <2>2 DEF AddMember
  <2>5. Append(s, m) \in Seq(Member) /\ Len(Append(s, m)) = Len(s) + 1
    BY <2>3
  <2>6. Len(Append(s, m)) <= MaxMembers
    BY <2>3, <2>5, GroupsAssumption
  <2>7. members' \in [Group -> Seq(Member)]
    BY <2>4, <2>5
  <2>8. \A h \in Group : members'[h] = IF h = g THEN Append(s, m) ELSE members[h]
    BY <2>4
  <2>9. GroupsTypeOK'
    BY <2>5, <2>6, <2>8 DEF GroupsTypeOK
  <2>10. QED
    BY <2>7, <2>9
<1>2. CASE UNCHANGED groupsVars
  BY <1>2 DEF groupsVars, GroupsTypeOK
<1>3. QED
  BY <1>1, <1>2

(* Groups are lists of known names within their bound.                     *)
THEOREM GroupsTypeCorrect == GroupsSpec => []GroupsTypeOK
<1>1. GroupsIInv => GroupsTypeOK
  BY DEF GroupsIInv
<1>2. QED
  BY <1>1, GroupsIInvInit, GroupsIInvStep, PTL DEF GroupsSpec

(* Each way to expand a group, whatever the groups are, nested and cyclic, *)
(* says what is right of everything below it: the hygiene checks resolve a *)
(* group only if all of it is, in any order of the groups and for all that *)
(* their memo is also written inside cycles, and the walks of the rule     *)
(* lookup and of the planner lose nothing and add nothing.                 *)
THEOREM ExpansionsHold == GroupsSpec => []ExpansionsAreRight
<1>1. GroupsIInv => ExpansionsAreRight
  BY ExpansionsFollow DEF GroupsIInv
<1>2. QED
  BY <1>1, GroupsIInvInit, GroupsIInvStep, PTL DEF GroupsSpec
=============================================================================
