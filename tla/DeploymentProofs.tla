---- MODULE DeploymentProofs ----
(***************************************************************************)
(* Theorems about the two programs together: their settings follow the     *)
(* documented order, a batch of the agent gets through exactly if the      *)
(* settings fit, and the counters are the sums of what was accepted.       *)
(*                                                                         *)
(* The envelope and the sums are recursive functions.  Each is proved to   *)
(* be defined from its approximations on 0..k, with SetInduction, before   *)
(* anything is said of its values.                                         *)
(***************************************************************************)
EXTENDS Deployment, SequenceTheorems, WellFoundedInduction, TLAPS

----
(***************************************************************************)
(* Induction and the recursive functions.                                  *)
(***************************************************************************)
Less == {ss \in Nat \X Nat : ss[1] < ss[2]}

\* The order of the numbers has no infinite descent.
LEMMA LessWellFounded == IsWellFoundedOn(Less, Nat)
BY NatLessThanWellFounded DEF OpToRel, Less

\* Induction on the members of a set.
LEMMA SetInduction ==
  ASSUME NEW T, 0 \in T, \A n \in Nat : n \in T => n + 1 \in T
  PROVE  \A n \in Nat : n \in T
<1> DEFINE Out == Nat \ T
<1> SUFFICES ASSUME Out # {} PROVE FALSE
  OBVIOUS
<1>1. PICK x \in Out : \A y \in Out : ~ (<<y, x>> \in Less)
  <2> HIDE DEF Out
  <2>1. Out \subseteq Nat
    BY DEF Out
  <2> QED BY <2>1, LessWellFounded, WFMin
<1>2. x # 0 /\ x \in Nat /\ x - 1 \in Nat
  OBVIOUS
<1>3. x - 1 \notin T
  BY <1>2
<1>4. <<x - 1, x>> \in Less
  BY <1>2 DEF Less
<1> QED BY <1>1, <1>2, <1>3, <1>4

\* An int64 has at least one value that is not negative.
LEMMA LimitType == Limit \in Nat \ {0}
<1> DEFINE Def(f, k) == f = [n \in 0..k |-> IF n = 0 THEN 1 ELSE 2 * f[n - 1]]
           T == {k \in Nat : \E f : Def(f, k)}
           U(f, k) == {n \in Nat : n \in 0..k => f[n] \in Nat \ {0}}
<1>1. 0 \in T
  <2>1. Def([n \in 0..0 |-> 1], 0)
    OBVIOUS
  <2> QED BY <2>1
<1>2. ASSUME NEW k \in Nat, k \in T PROVE k + 1 \in T
  <2>1. PICK f : Def(f, k)
    BY <1>2
  <2>2. PICK g : g = [n \in 0..(k + 1) |-> IF n = 0 THEN 1 ELSE 2 * f[n - 1]]
    OBVIOUS
  <2>3. \A n \in 0..k : f[n] = IF n = 0 THEN 1 ELSE 2 * f[n - 1]
    BY <2>1
  <2>4. \A n \in 0..k : g[n] = f[n]
    BY <2>2, <2>3
  <2>5. \A n \in 0..(k + 1) : n # 0 => n - 1 \in 0..k /\ g[n - 1] = f[n - 1]
    BY <2>4
  <2>6. ASSUME NEW n \in 0..(k + 1)
        PROVE  (IF n = 0 THEN 1 ELSE 2 * f[n - 1]) = (IF n = 0 THEN 1 ELSE 2 * g[n - 1])
    BY <2>5, Zenon
  <2>7. [n \in 0..(k + 1) |-> IF n = 0 THEN 1 ELSE 2 * f[n - 1]]
          = [n \in 0..(k + 1) |-> IF n = 0 THEN 1 ELSE 2 * g[n - 1]]
    BY <2>6, Zenon
  <2>8. Def(g, k + 1)
    BY <2>2, <2>7
  <2> HIDE DEF Def
  <2> QED BY <2>8
<1>3. \A k \in Nat : k \in T
  <2> HIDE DEF T
  <2> QED BY <1>1, <1>2, SetInduction
<1>4. ASSUME NEW f, NEW k \in Nat, Def(f, k) PROVE f[k] \in Nat \ {0}
  <2>1. 0 \in U(f, k)
    BY <1>4
  <2>2. ASSUME NEW n \in Nat, n \in U(f, k) PROVE n + 1 \in U(f, k)
    <3>1. CASE n + 1 \in 0..k
      <4>1. f[n + 1] = 2 * f[n] /\ n \in 0..k
        BY <1>4, <3>1
      <4> QED BY <2>2, <4>1
    <3>2. CASE n + 1 \notin 0..k
      BY <3>2
    <3> QED BY <3>1, <3>2
  <2>3. \A n \in Nat : n \in U(f, k)
    <3> HIDE DEF U
    <3> QED BY <2>1, <2>2, SetInduction
  <2> QED BY <2>3
<1>5. Width - 1 \in Nat
  BY EnvelopeAssumption
<1>6. PICK f : Def(f, Width - 1)
  BY <1>3, <1>5
<1>7. Limit = (CHOOSE h : Def(h, Width - 1))[Width - 1]
  BY DEF Limit
<1>8. Def(CHOOSE h : Def(h, Width - 1), Width - 1)
  <2> HIDE DEF Def
  <2> QED BY <1>6
<1> QED
  <2> HIDE DEF Def
  <2> QED BY <1>4, <1>5, <1>7, <1>8

\* The sums of the beginnings of a sequence.
SumsOf(f, s, k) == f = [n \in 0..k |-> IF n = 0 THEN 0 ELSE f[n - 1] + s[n]]

LEMMA SumsExist == ASSUME NEW s PROVE \A k \in Nat : \E f : SumsOf(f, s, k)
<1> DEFINE T == {k \in Nat : \E f : SumsOf(f, s, k)}
<1>1. 0 \in T
  <2>1. SumsOf([n \in 0..0 |-> 0], s, 0)
    BY DEF SumsOf
  <2> QED BY <2>1
<1>2. ASSUME NEW k \in Nat, k \in T PROVE k + 1 \in T
  <2>1. PICK f : SumsOf(f, s, k)
    BY <1>2
  <2>2. PICK g : g = [n \in 0..(k + 1) |-> IF n = 0 THEN 0 ELSE f[n - 1] + s[n]]
    OBVIOUS
  <2>3. \A n \in 0..k : f[n] = IF n = 0 THEN 0 ELSE f[n - 1] + s[n]
    BY <2>1 DEF SumsOf
  <2>4. \A n \in 0..k : g[n] = f[n]
    BY <2>2, <2>3
  <2>5. \A n \in 0..(k + 1) : n # 0 => n - 1 \in 0..k /\ g[n - 1] = f[n - 1]
    BY <2>4
  <2>6. ASSUME NEW n \in 0..(k + 1)
        PROVE  (IF n = 0 THEN 0 ELSE f[n - 1] + s[n]) = (IF n = 0 THEN 0 ELSE g[n - 1] + s[n])
    BY <2>5, Zenon
  <2>7. [n \in 0..(k + 1) |-> IF n = 0 THEN 0 ELSE f[n - 1] + s[n]]
          = [n \in 0..(k + 1) |-> IF n = 0 THEN 0 ELSE g[n - 1] + s[n]]
    BY <2>6, Zenon
  <2>8. SumsOf(g, s, k + 1)
    BY <2>2, <2>7 DEF SumsOf
  <2> QED BY <2>8
<1>3. \A k \in Nat : k \in T
  <2> HIDE DEF T
  <2> QED BY <1>1, <1>2, SetInduction
<1> QED BY <1>3

LEMMA SumOfDefined ==
  ASSUME NEW s, Len(s) \in Nat
  PROVE  \E f : SumsOf(f, s, Len(s)) /\ SumOf(s) = f[Len(s)]
<1>1. SumsOf(CHOOSE h : SumsOf(h, s, Len(s)), s, Len(s))
  BY SumsExist
<1>2. SumOf(s) = (CHOOSE h : SumsOf(h, s, Len(s)))[Len(s)]
  BY DEF SumOf, SumsOf
<1> QED BY <1>1, <1>2

\* One more member adds it to the sum.
LEMMA SumOfExtended ==
  ASSUME NEW s, NEW t, Len(s) \in Nat, Len(t) = Len(s) + 1,
         \A j \in 1..Len(s) : t[j] = s[j]
  PROVE  SumOf(t) = SumOf(s) + t[Len(t)]
<1>1. PICK f : SumsOf(f, s, Len(s)) /\ SumOf(s) = f[Len(s)]
  BY SumOfDefined
<1>2. PICK g : SumsOf(g, t, Len(t)) /\ SumOf(t) = g[Len(t)]
  <2>1. Len(t) \in Nat
    OBVIOUS
  <2> QED BY <2>1, SumOfDefined
<1> DEFINE T == {n \in Nat : n <= Len(s) => g[n] = f[n]}
<1>3. 0 \in T
  BY <1>1, <1>2 DEF SumsOf
<1>4. ASSUME NEW n \in Nat, n \in T PROVE n + 1 \in T
  <2> SUFFICES ASSUME n + 1 <= Len(s) PROVE g[n + 1] = f[n + 1]
    OBVIOUS
  <2>1. f[n + 1] = f[n] + s[n + 1]
    BY <1>1 DEF SumsOf
  <2>2. g[n + 1] = g[n] + t[n + 1]
    BY <1>2 DEF SumsOf
  <2>3. g[n] = f[n] /\ t[n + 1] = s[n + 1]
    BY <1>4
  <2> QED BY <2>1, <2>2, <2>3
<1>5. \A n \in Nat : n \in T
  <2> HIDE DEF T
  <2> QED BY <1>3, <1>4, SetInduction
<1>6. g[Len(s)] = f[Len(s)]
  BY <1>5
<1>7. g[Len(t)] = g[Len(s)] + t[Len(t)]
  BY <1>2 DEF SumsOf
<1> QED BY <1>1, <1>2, <1>6, <1>7

LEMMA SumOfType ==
  ASSUME NEW s, Len(s) \in Nat, \A j \in 1..Len(s) : s[j] \in Int
  PROVE  SumOf(s) \in Int /\ (Len(s) = 0 => SumOf(s) = 0)
<1>1. PICK f : SumsOf(f, s, Len(s)) /\ SumOf(s) = f[Len(s)]
  BY SumOfDefined
<1> DEFINE T == {n \in Nat : n <= Len(s) => f[n] \in Int}
<1>2. 0 \in T /\ f[0] = 0
  BY <1>1 DEF SumsOf
<1>3. ASSUME NEW n \in Nat, n \in T PROVE n + 1 \in T
  <2> SUFFICES ASSUME n + 1 <= Len(s) PROVE f[n + 1] \in Int
    OBVIOUS
  <2>1. f[n + 1] = f[n] + s[n + 1]
    BY <1>1 DEF SumsOf
  <2> QED BY <1>3, <2>1
<1>4. \A n \in Nat : n \in T
  <2> HIDE DEF T
  <2> QED BY <1>2, <1>3, SetInduction
<1> QED BY <1>1, <1>2, <1>4

----
(***************************************************************************)
(* Integers with a width.                                                  *)
(***************************************************************************)
Congruent(a, b) == \E k \in Int : a = b + k * (2 * Limit)

\* What divides a number with a rest.
LEMMA Division ==
  ASSUME NEW M \in Nat \ {0}, NEW x \in Int
  PROVE  x % M \in 0..(M - 1) /\ x \div M \in Int /\ x % M = x - (x \div M) * M
OBVIOUS

LEMMA CongruentTransitive ==
  ASSUME NEW a \in Int, NEW b \in Int, NEW c \in Int, Congruent(a, b), Congruent(b, c)
  PROVE  Congruent(a, c)
<1>1. PICK k \in Int : a = b + k * (2 * Limit)
  BY DEF Congruent
<1>2. PICK l \in Int : b = c + l * (2 * Limit)
  BY DEF Congruent
<1>3. (k + l) * (2 * Limit) = k * (2 * Limit) + l * (2 * Limit)
  BY LimitType
<1>4. a = c + (k + l) * (2 * Limit)
  <2> DEFINE K == k * (2 * Limit)
             L == l * (2 * Limit)
  <2>1. K \in Int /\ L \in Int
    BY LimitType
  <2> QED BY <1>1, <1>2, <1>3, <2>1
<1> QED BY <1>4 DEF Congruent

LEMMA CongruentSum ==
  ASSUME NEW a \in Int, NEW b \in Int, NEW c \in Int, Congruent(a, b)
  PROVE  Congruent(a + c, b + c) /\ Congruent(c + a, c + b)
<1>1. PICK k \in Int : a = b + k * (2 * Limit)
  BY DEF Congruent
<1>2. k * (2 * Limit) \in Int
  BY LimitType
<1>3. a + c = b + c + k * (2 * Limit) /\ c + a = c + b + k * (2 * Limit)
  BY <1>1, <1>2
<1> QED BY <1>3 DEF Congruent

LEMMA CongruentSymmetric ==
  ASSUME NEW a \in Int, NEW b \in Int, Congruent(a, b)
  PROVE  Congruent(b, a)
<1>1. PICK k \in Int : a = b + k * (2 * Limit)
  BY DEF Congruent
<1>2. (-k) * (2 * Limit) = -(k * (2 * Limit)) /\ k * (2 * Limit) \in Int
  BY LimitType
<1>3. b = a + (-k) * (2 * Limit)
  BY <1>1, <1>2
<1> QED BY <1>3 DEF Congruent

LEMMA WrapType ==
  ASSUME NEW a \in Int
  PROVE  Wrap(a) \in Int64s /\ Wrap(a) \in Int /\ Congruent(Wrap(a), a)
<1> DEFINE M == 2 * Limit
           x == a + Limit
           q == x \div M
<1>1. M \in Nat \ {0} /\ x \in Int /\ Limit \in Nat
  BY LimitType
<1>2. x % M \in 0..(M - 1) /\ q \in Int /\ x % M = x - q * M
  <2> HIDE DEF M, x
  <2> QED BY <1>1, Division
<1>3. (-q) * M = -(q * M) /\ q * M \in Int
  <2> HIDE DEF M, q
  <2> QED BY <1>1, <1>2
<1>4. Wrap(a) = (x % M) - Limit
  BY DEF Wrap
<1>5. Wrap(a) = a + (-q) * M
  <2> HIDE DEF M, q
  <2> QED BY <1>1, <1>2, <1>3, <1>4
<1>6. Wrap(a) \in Int64s /\ Wrap(a) \in Int
  <2>1. Wrap(a) \in Int /\ -Limit <= Wrap(a) /\ Wrap(a) <= M - 1 - Limit
    <3> HIDE DEF M, x
    <3> QED BY <1>1, <1>2, <1>4
  <2> QED BY <1>1, <2>1 DEF Int64s
<1>7. -q \in Int
  BY <1>2
<1> QED BY <1>5, <1>6, <1>7 DEF Congruent

\* An int64 stands for every integer congruent to it.
LEMMA Int64Unique ==
  ASSUME NEW a \in Int64s, NEW b \in Int64s, Congruent(a, b)
  PROVE  a = b
<1> DEFINE M == 2 * Limit
<1>1. M \in Nat \ {0} /\ Limit \in Nat
  BY LimitType
<1>2. PICK k \in Int : a = b + k * M
  BY DEF Congruent
<1>3. a \in Int /\ b \in Int /\ a - b < M /\ b - a < M
  BY <1>1 DEF Int64s
<1>4. CASE k >= 1
  <2>1. k * M >= M /\ k * M \in Int
    BY <1>1, <1>4
  <2> QED BY <1>1, <1>2, <1>3, <2>1
<1>5. CASE k <= -1
  <2>1. k * M <= -M /\ k * M \in Int
    BY <1>1, <1>5
  <2> QED BY <1>1, <1>2, <1>3, <2>1
<1>6. CASE k = 0
  BY <1>1, <1>2, <1>3, <1>6
<1> QED BY <1>4, <1>5, <1>6

LEMMA WrapCongruent ==
  ASSUME NEW a \in Int, NEW b \in Int, Congruent(a, b)
  PROVE  Wrap(a) = Wrap(b)
<1>1. Wrap(a) \in Int64s /\ Wrap(a) \in Int /\ Congruent(Wrap(a), a)
  BY WrapType
<1>2. Wrap(b) \in Int64s /\ Wrap(b) \in Int /\ Congruent(Wrap(b), b)
  BY WrapType
<1>3. Congruent(Wrap(a), b)
  BY <1>1, CongruentTransitive
<1>4. Congruent(b, Wrap(b))
  BY <1>2, CongruentSymmetric
<1>5. Congruent(Wrap(a), Wrap(b))
  BY <1>1, <1>2, <1>3, <1>4, CongruentTransitive
<1> QED BY <1>1, <1>2, <1>5, Int64Unique

----
(***************************************************************************)
(* Merging.                                                                *)
(***************************************************************************)
IsMetric(m) ==
  /\ m = [id |-> m.id, type |-> m.type, amount |-> m.amount, hash |-> m.hash]
  /\ m.id \in Ids
  /\ m.amount \in Seq(Int) /\ Len(m.amount) <= 1

IsBatch(batch) ==
  /\ Len(batch) \in Nat /\ DOMAIN batch = 1..Len(batch)
  /\ \A j \in 1..Len(batch) : IsMetric(batch[j])

\* metricsMap after each of the first metrics of a batch.
MergesOf(f, batch, k) ==
  f = [n \in 0..k |-> IF n = 0 THEN {} ELSE MergeInto(f[n - 1], batch[n])]

LEMMA MergesExist == ASSUME NEW batch PROVE \A k \in Nat : \E f : MergesOf(f, batch, k)
<1> DEFINE T == {k \in Nat : \E f : MergesOf(f, batch, k)}
<1>1. 0 \in T
  <2>1. MergesOf([n \in 0..0 |-> {}], batch, 0)
    BY DEF MergesOf
  <2> QED BY <2>1
<1>2. ASSUME NEW k \in Nat, k \in T PROVE k + 1 \in T
  <2>1. PICK f : MergesOf(f, batch, k)
    BY <1>2
  <2>2. PICK g : g = [n \in 0..(k + 1) |-> IF n = 0 THEN {} ELSE MergeInto(f[n - 1], batch[n])]
    OBVIOUS
  <2>3. \A n \in 0..k : f[n] = IF n = 0 THEN {} ELSE MergeInto(f[n - 1], batch[n])
    BY <2>1 DEF MergesOf
  <2>4. \A n \in 0..k : g[n] = f[n]
    BY <2>2, <2>3
  <2>5. \A n \in 0..(k + 1) : n # 0 => n - 1 \in 0..k /\ g[n - 1] = f[n - 1]
    BY <2>4
  <2>6. ASSUME NEW n \in 0..(k + 1)
        PROVE  (IF n = 0 THEN {} ELSE MergeInto(f[n - 1], batch[n]))
                 = (IF n = 0 THEN {} ELSE MergeInto(g[n - 1], batch[n]))
    BY <2>5, Zenon
  <2>7. [n \in 0..(k + 1) |-> IF n = 0 THEN {} ELSE MergeInto(f[n - 1], batch[n])]
          = [n \in 0..(k + 1) |-> IF n = 0 THEN {} ELSE MergeInto(g[n - 1], batch[n])]
    BY <2>6, Zenon
  <2>8. MergesOf(g, batch, k + 1)
    BY <2>2, <2>7 DEF MergesOf
  <2> QED BY <2>8
<1>3. \A k \in Nat : k \in T
  <2> HIDE DEF T
  <2> QED BY <1>1, <1>2, SetInduction
<1> QED BY <1>3

LEMMA MergesStep ==
  ASSUME NEW f, NEW batch, NEW k \in Nat, MergesOf(f, batch, k), NEW n \in Nat, n + 1 <= k
  PROVE  f[n + 1] = MergeInto(f[n], batch[n + 1])
<1>1. \A i \in 0..k : f[i] = IF i = 0 THEN {} ELSE MergeInto(f[i - 1], batch[i])
  BY DEF MergesOf
<1>2. n + 1 \in 0..k /\ n + 1 # 0 /\ (n + 1) - 1 = n
  OBVIOUS
<1> QED BY <1>1, <1>2

LEMMA MergeDefined ==
  ASSUME NEW batch, Len(batch) \in Nat
  PROVE  \E f : MergesOf(f, batch, Len(batch)) /\ Merge(batch) = f[Len(batch)]
<1>1. MergesOf(CHOOSE h : MergesOf(h, batch, Len(batch)), batch, Len(batch))
  BY MergesExist
<1>2. Merge(batch) = (CHOOSE h : MergesOf(h, batch, Len(batch)))[Len(batch)]
  BY DEF Merge, MergesOf
<1> QED BY <1>1, <1>2

LEMMA CombineType ==
  ASSUME NEW x, NEW m, IsMetric(x), IsMetric(m)
  PROVE  IsMetric(Combine(x, m)) /\ SameMetric(Combine(x, m), m)
<1>1. CASE m.type = "counter" /\ m.amount # Nil /\ x.amount # Nil
  <2> DEFINE w == Wrap(x.amount[1] + m.amount[1])
  <2>1. x.amount[1] \in Int /\ m.amount[1] \in Int
    BY <1>1 DEF IsMetric, Nil
  <2>2. w \in Int
    BY <2>1, WrapType
  <2>3. Combine(x, m) = [id |-> m.id, type |-> m.type, amount |-> <<w>>, hash |-> m.hash]
    BY <1>1 DEF Combine, IsMetric
  <2> HIDE DEF w
  <2> QED BY <2>2, <2>3 DEF IsMetric, SameMetric
<1>2. CASE ~(m.type = "counter" /\ m.amount # Nil /\ x.amount # Nil)
  BY <1>2 DEF Combine, SameMetric
<1> QED BY <1>1, <1>2

\* The members of metricsMap after one more metric.
LEMMA MergeIntoMembers ==
  ASSUME NEW ms, NEW m, NEW y
  PROVE  y \in MergeInto(ms, m) <=>
           \/ y \in ms /\ ~SameMetric(y, m)
           \/ y = m /\ \A x \in ms : ~SameMetric(x, m)
           \/ \E x \in ms : SameMetric(x, m) /\ y = Combine(x, m)
BY Zenon DEF MergeInto

\* No two metrics of one name and type.
IsMap(ms) ==
  /\ \A x \in ms : IsMetric(x)
  /\ \A x, y \in ms : SameMetric(x, y) => x = y

LEMMA MergeIntoMap ==
  ASSUME NEW ms, NEW m, IsMap(ms), IsMetric(m)
  PROVE  IsMap(MergeInto(ms, m))
<1>1. ASSUME NEW y \in MergeInto(ms, m)
      PROVE  /\ IsMetric(y)
             /\ SameMetric(y, m) \/ y \in ms
  <2>1. CASE y \in ms /\ ~SameMetric(y, m)
    BY <2>1 DEF IsMap
  <2>2. CASE y = m
    BY <2>2 DEF SameMetric
  <2>3. CASE \E x \in ms : SameMetric(x, m) /\ y = Combine(x, m)
    BY <2>3, CombineType DEF IsMap
  <2> QED BY <2>1, <2>2, <2>3, MergeIntoMembers
<1>2. ASSUME NEW y \in MergeInto(ms, m), NEW z \in MergeInto(ms, m), SameMetric(y, z)
      PROVE  y = z
  <2>1. CASE ~SameMetric(y, m)
    <3>1. ~SameMetric(z, m)
      BY <1>2, <2>1 DEF SameMetric
    <3>2. y \in ms /\ z \in ms
      BY <1>1, <2>1, <3>1
    <3> QED BY <1>2, <3>2 DEF IsMap
  <2>2. CASE SameMetric(y, m)
    <3>1. SameMetric(z, m)
      BY <1>2, <2>2 DEF SameMetric
    <3>2. \A u \in MergeInto(ms, m) : SameMetric(u, m) =>
            \/ u = m /\ \A x \in ms : ~SameMetric(x, m)
            \/ \E x \in ms : SameMetric(x, m) /\ u = Combine(x, m)
      BY MergeIntoMembers
    <3>3. \A x, v \in ms : SameMetric(x, m) /\ SameMetric(v, m) => x = v
      BY DEF IsMap, SameMetric
    <3> QED BY <2>2, <3>1, <3>2, <3>3
  <2> QED BY <2>1, <2>2
<1> QED BY <1>1, <1>2 DEF IsMap

LEMMA MergeMap ==
  ASSUME NEW batch, IsBatch(batch)
  PROVE  IsMap(Merge(batch))
<1>1. PICK f : MergesOf(f, batch, Len(batch)) /\ Merge(batch) = f[Len(batch)]
  BY MergeDefined DEF IsBatch
<1> DEFINE T == {n \in Nat : n <= Len(batch) => IsMap(f[n])}
<1>2. Len(batch) \in Nat
  BY DEF IsBatch
<1>3. 0 \in T
  <2>1. f[0] = {}
    BY <1>1, <1>2 DEF MergesOf
  <2> QED BY <2>1 DEF IsMap
<1>4. ASSUME NEW n \in Nat, n \in T PROVE n + 1 \in T
  <2> SUFFICES ASSUME n + 1 <= Len(batch) PROVE IsMap(f[n + 1])
    OBVIOUS
  <2>1. f[n + 1] = MergeInto(f[n], batch[n + 1])
    BY <1>1, <1>2, MergesStep
  <2>2. IsMap(f[n]) /\ IsMetric(batch[n + 1])
    BY <1>2, <1>4 DEF IsBatch
  <2> QED BY <2>1, <2>2, MergeIntoMap
<1>5. \A n \in Nat : n \in T
  <2> HIDE DEF T
  <2> QED BY <1>3, <1>4, SetInduction
<1> QED BY <1>1, <1>2, <1>5

\* What metricsMap says of counter i when the deltas so far add up to t.
SumIs(ms, i, t) ==
  \/ \E x \in ms : Counts(x, i) /\ x.amount # Nil /\ Congruent(x.amount[1], t)
  \/ (\A x \in ms : Counts(x, i) => x.amount = Nil) /\ t = 0

Delta(m, i) == IF Counts(m, i) /\ m.amount # Nil THEN m.amount[1] ELSE 0

LEMMA DeltaType ==
  ASSUME NEW m, IsMetric(m), NEW i
  PROVE  Delta(m, i) \in Int
BY DEF Delta, IsMetric, Nil

\* One more metric adds its delta, unless it is a nil after a delta.
LEMMA MergeIntoSum ==
  ASSUME NEW ms, NEW m, NEW i, NEW t \in Int,
         IsMap(ms), IsMetric(m), SumIs(ms, i, t),
         Counts(m, i) /\ m.amount = Nil => \A x \in ms : Counts(x, i) => x.amount = Nil
  PROVE  SumIs(MergeInto(ms, m), i, t + Delta(m, i))
<1> DEFINE new == MergeInto(ms, m)
           d == Delta(m, i)
<1>1. d \in Int
  BY DeltaType
<1>2. CASE ~Counts(m, i)
  <2>1. d = 0 /\ t + d = t
    BY <1>2 DEF Delta
  <2>2. \A x : Counts(x, i) => ~SameMetric(x, m)
    BY <1>2 DEF Counts, SameMetric
  <2>3. \A x \in ms : SameMetric(x, m) => ~Counts(Combine(x, m), i)
    <3>1. \A x \in ms : IsMetric(x)
      BY DEF IsMap
    <3> QED BY <3>1, <2>2, CombineType
  <2>4. \A x : Counts(x, i) => (x \in new <=> x \in ms)
    BY <1>2, <2>2, <2>3, MergeIntoMembers
  <2>5. SumIs(new, i, t)
    BY <2>4 DEF SumIs
  <2> QED BY <2>1, <2>5
<1>3. CASE Counts(m, i)
  <2>1. \A x : SameMetric(x, m) <=> Counts(x, i)
    BY <1>3 DEF Counts, SameMetric
  <2>2. CASE \A x \in ms : ~Counts(x, i)
    <3>1. t = 0
      BY <2>2 DEF SumIs
    <3>2. m \in new
      BY <2>1, <2>2, MergeIntoMembers
    <3>3. \A x \in new : Counts(x, i) => x = m
      BY <2>1, <2>2, MergeIntoMembers
    <3>4. CASE m.amount = Nil
      <4>1. d = 0
        BY <3>4 DEF Delta
      <4> QED BY <3>1, <3>3, <3>4, <4>1 DEF SumIs
    <3>5. CASE m.amount # Nil
      <4>1. d = m.amount[1]
        BY <1>3, <3>5 DEF Delta
      <4>2. t + d = d
        BY <1>1, <3>1
      <4>3. Congruent(d, d)
        <5>1. d = d + 0 * (2 * Limit)
          BY <1>1, LimitType
        <5> QED BY <5>1 DEF Congruent
      <4> QED BY <1>3, <3>2, <3>5, <4>1, <4>2, <4>3 DEF SumIs
    <3> QED BY <3>4, <3>5
  <2>3. CASE \E x \in ms : Counts(x, i)
    <3>1. PICK x \in ms : Counts(x, i)
      BY <2>3
    <3> DEFINE y == Combine(x, m)
    <3>2. IsMetric(x)
      BY DEF IsMap
    <3>3. y \in new /\ Counts(y, i)
      <4>1. SameMetric(y, m)
        BY <3>2, CombineType
      <4> QED BY <2>1, <3>1, <4>1, MergeIntoMembers
    <3>4. \A z \in ms : Counts(z, i) => z = x
      BY <2>1, <3>1 DEF IsMap, SameMetric
    <3>5. \A z \in new : Counts(z, i) => z = y
      <4> HIDE DEF y
      <4>1. ASSUME NEW z \in new, Counts(z, i) PROVE z = y
        <5>1. PICK u \in ms : SameMetric(u, m) /\ z = Combine(u, m)
          BY <2>1, <3>1, <4>1, MergeIntoMembers
        <5>2. u = x
          BY <2>1, <3>4, <5>1
        <5> QED BY <5>1, <5>2 DEF y
      <4> QED BY <4>1
    <3>6. m.type = "counter"
      BY <1>3 DEF Counts
    <3>7. CASE m.amount = Nil
      <4>1. x.amount = Nil
        BY <1>3, <3>1, <3>7
      <4>2. d = 0 /\ y = m
        BY <3>7 DEF Delta, Combine
      <4>3. t = 0
        BY <3>4, <4>1 DEF SumIs
      <4> QED BY <3>5, <3>7, <4>2, <4>3 DEF SumIs
    <3>8. CASE m.amount # Nil /\ x.amount = Nil
      <4>1. d = m.amount[1] /\ y = m
        BY <1>3, <3>8 DEF Delta, Combine
      <4>2. t = 0
        BY <3>4, <3>8 DEF SumIs
      <4>3. Congruent(d, t + d)
        <5>1. d = (t + d) + 0 * (2 * Limit)
          BY <1>1, <4>2, LimitType
        <5> QED BY <5>1 DEF Congruent
      <4> QED BY <3>3, <3>8, <4>1, <4>3 DEF SumIs
    <3>9. CASE m.amount # Nil /\ x.amount # Nil
      <4>1. x.amount[1] \in Int /\ m.amount[1] \in Int
        BY <3>2, <3>9 DEF IsMetric, Nil
      <4>2. d = m.amount[1]
        BY <1>3, <3>9 DEF Delta
      <4>3. Congruent(x.amount[1], t)
        BY <3>1, <3>4, <3>9 DEF SumIs
      <4>4. Congruent(x.amount[1] + d, t + d)
        BY <4>1, <4>2, <4>3, CongruentSum
      <4> DEFINE w == Wrap(x.amount[1] + d)
      <4>5. w \in Int /\ Congruent(w, x.amount[1] + d)
        BY <4>1, <4>2, WrapType
      <4>6. Congruent(w, t + d)
        BY <1>1, <4>1, <4>4, <4>5, CongruentTransitive
      <4>7. y.amount = <<w>>
        BY <3>6, <3>9, <4>2 DEF Combine, IsMetric
      <4>8. y.amount # Nil /\ y.amount[1] = w
        <5> HIDE DEF w, y
        <5> QED BY <4>7 DEF Nil
      <4> QED BY <3>3, <4>6, <4>8 DEF SumIs
    <3> QED BY <3>7, <3>8, <3>9
  <2> QED BY <2>2, <2>3
<1> QED BY <1>2, <1>3

\* A delta in metricsMap is there since one of the batch.
LEMMA MergeIntoDelta ==
  ASSUME NEW ms, NEW m, NEW i, NEW y \in MergeInto(ms, m), IsMap(ms), IsMetric(m),
         Counts(y, i), y.amount # Nil
  PROVE  \/ \E x \in ms : Counts(x, i) /\ x.amount # Nil
         \/ Counts(m, i) /\ m.amount # Nil
<1>1. CASE \E x \in ms : SameMetric(x, m) /\ y = Combine(x, m)
  <2>1. PICK x \in ms : SameMetric(x, m) /\ y = Combine(x, m)
    BY <1>1
  <2>2. Counts(m, i)
    BY <2>1, CombineType DEF Counts, SameMetric, IsMap
  <2>3. m.amount # Nil
    BY <2>1 DEF Combine
  <2> QED BY <2>2, <2>3
<1>2. CASE y = m
  BY <1>2
<1>3. CASE y \in ms
  BY <1>3
<1>4. y \in ms \/ y = m \/ \E x \in ms : SameMetric(x, m) /\ y = Combine(x, m)
  BY MergeIntoMembers
<1> QED BY <1>1, <1>2, <1>3, <1>4

\* The duplicates UpdatesHandler merges lose no delta of a batch of any length:
\* what is left of a counter is the sum of its deltas as an int64, unless a nil
\* follows one of them.
THEOREM MergeSums ==
  ASSUME NEW batch, IsBatch(batch), NEW i, ~Dropped(batch, i)
  PROVE  SumOf(Deltas(batch, i)) \in Int /\ SumIs(Merge(batch), i, SumOf(Deltas(batch, i)))
<1> DEFINE s == Deltas(batch, i)
           N == Len(batch)
<1>1. N \in Nat /\ DOMAIN batch = 1..N /\ \A j \in 1..N : IsMetric(batch[j])
  BY DEF IsBatch
<1>2. Len(s) = N /\ \A j \in 1..N : s[j] = Delta(batch[j], i)
  BY <1>1 DEF Deltas, Delta
<1>3. PICK f : MergesOf(f, batch, N) /\ Merge(batch) = f[N]
  BY <1>1, MergeDefined
<1>4. PICK g : SumsOf(g, s, N) /\ SumOf(s) = g[N]
  <2> HIDE DEF s
  <2> QED BY <1>1, <1>2, SumOfDefined
<1> DEFINE Inv(n) ==
             /\ IsMap(f[n]) /\ g[n] \in Int /\ SumIs(f[n], i, g[n])
             /\ \A x \in f[n] : Counts(x, i) /\ x.amount # Nil =>
                  \E j \in 1..n : Counts(batch[j], i) /\ batch[j].amount # Nil
           T == {n \in Nat : n <= N => Inv(n)}
<1> HIDE DEF s
<1>5. 0 \in T
  <2>1. f[0] = {} /\ g[0] = 0
    BY <1>1, <1>3, <1>4 DEF MergesOf, SumsOf
  <2> QED BY <2>1 DEF IsMap, SumIs
<1>6. ASSUME NEW n \in Nat, n \in T PROVE n + 1 \in T
  <2> SUFFICES ASSUME n + 1 <= N PROVE Inv(n + 1)
    OBVIOUS
  <2> DEFINE m == batch[n + 1]
  <2>1. Inv(n)
    BY <1>1, <1>6
  <2>2. IsMetric(m) /\ Delta(m, i) \in Int
    BY <1>1, DeltaType
  <2>3. f[n + 1] = MergeInto(f[n], m)
    BY <1>1, <1>3, MergesStep
  <2>4. g[n + 1] = g[n] + Delta(m, i)
    BY <1>1, <1>2, <1>4 DEF SumsOf
  <2>5. Counts(m, i) /\ m.amount = Nil => \A x \in f[n] : Counts(x, i) => x.amount = Nil
    <3> SUFFICES ASSUME Counts(m, i), m.amount = Nil,
                        NEW x \in f[n], Counts(x, i), x.amount # Nil
                 PROVE  FALSE
      OBVIOUS
    <3>1. PICK j \in 1..n : Counts(batch[j], i) /\ batch[j].amount # Nil
      BY <2>1
    <3>2. j \in DOMAIN batch /\ n + 1 \in DOMAIN batch /\ j < n + 1
      BY <1>1
    <3> QED BY <3>1, <3>2 DEF Dropped
  <2>6. IsMap(f[n + 1])
    BY <2>1, <2>2, <2>3, MergeIntoMap
  <2>7. SumIs(f[n + 1], i, g[n + 1])
    <3> HIDE DEF m
    <3>1. IsMap(f[n]) /\ g[n] \in Int /\ SumIs(f[n], i, g[n])
      BY <2>1
    <3> HIDE DEF Inv
    <3> QED BY <2>2, <2>3, <2>4, <2>5, <3>1, MergeIntoSum
  <2>8. ASSUME NEW y \in f[n + 1], Counts(y, i), y.amount # Nil
        PROVE  \E j \in 1..(n + 1) : Counts(batch[j], i) /\ batch[j].amount # Nil
    <3>1. CASE Counts(m, i) /\ m.amount # Nil
      BY <3>1
    <3>2. CASE \E x \in f[n] : Counts(x, i) /\ x.amount # Nil
      BY <2>1, <3>2
    <3>3. IsMap(f[n])
      BY <2>1
    <3>4. \/ \E x \in f[n] : Counts(x, i) /\ x.amount # Nil
          \/ Counts(m, i) /\ m.amount # Nil
      BY <2>2, <2>3, <2>8, <3>3, MergeIntoDelta
    <3> QED BY <3>1, <3>2, <3>4
  <2> QED BY <2>1, <2>2, <2>4, <2>6, <2>7, <2>8
<1>7. \A n \in Nat : n \in T
  <2> HIDE DEF T
  <2> QED BY <1>5, <1>6, SetInduction
<1>8. Inv(N)
  BY <1>1, <1>7
<1> QED BY <1>3, <1>4, <1>8 DEF s

----
(***************************************************************************)
(* Encryption in blocks.                                                   *)
(***************************************************************************)
\* The beginnings of a flattened sequence.
FlatsOf(f, seqs, k) ==
  f = [i \in 1..k |-> IF i = 1 THEN seqs[i] ELSE f[i - 1] \o seqs[i]]

LEMMA FlatsExist == ASSUME NEW seqs PROVE \A k \in Nat : \E f : FlatsOf(f, seqs, k)
<1> DEFINE T == {k \in Nat : \E f : FlatsOf(f, seqs, k)}
<1>1. 0 \in T
  <2>1. FlatsOf([i \in 1..0 |-> <<>>], seqs, 0)
    BY DEF FlatsOf
  <2> QED BY <2>1
<1>2. ASSUME NEW k \in Nat, k \in T PROVE k + 1 \in T
  <2>1. PICK f : FlatsOf(f, seqs, k)
    BY <1>2
  <2>2. PICK g : g = [i \in 1..(k + 1) |-> IF i = 1 THEN seqs[i] ELSE f[i - 1] \o seqs[i]]
    OBVIOUS
  <2>3. \A i \in 1..k : f[i] = IF i = 1 THEN seqs[i] ELSE f[i - 1] \o seqs[i]
    BY <2>1 DEF FlatsOf
  <2>4. \A i \in 1..k : g[i] = f[i]
    BY <2>2, <2>3
  <2>5. \A i \in 1..(k + 1) : i # 1 => i - 1 \in 1..k /\ g[i - 1] = f[i - 1]
    BY <2>4
  <2>6. ASSUME NEW i \in 1..(k + 1)
        PROVE  (IF i = 1 THEN seqs[i] ELSE f[i - 1] \o seqs[i])
                 = (IF i = 1 THEN seqs[i] ELSE g[i - 1] \o seqs[i])
    BY <2>5, Zenon
  <2>7. [i \in 1..(k + 1) |-> IF i = 1 THEN seqs[i] ELSE f[i - 1] \o seqs[i]]
          = [i \in 1..(k + 1) |-> IF i = 1 THEN seqs[i] ELSE g[i - 1] \o seqs[i]]
    BY <2>6, Zenon
  <2>8. FlatsOf(g, seqs, k + 1)
    BY <2>2, <2>7 DEF FlatsOf
  <2> QED BY <2>8
<1>3. \A k \in Nat : k \in T
  <2> HIDE DEF T
  <2> QED BY <1>1, <1>2, SetInduction
<1> QED BY <1>3

LEMMA FlattenDefined ==
  ASSUME NEW seqs, Len(seqs) \in Nat \ {0}
  PROVE  \E f : FlatsOf(f, seqs, Len(seqs)) /\ FlattenSeq(seqs) = f[Len(seqs)]
<1>1. FlatsOf(CHOOSE h : FlatsOf(h, seqs, Len(seqs)), seqs, Len(seqs))
  BY FlatsExist
<1>2. FlattenSeq(seqs) = (CHOOSE h : FlatsOf(h, seqs, Len(seqs)))[Len(seqs)]
  BY DEF FlattenSeq, FlatsOf
<1> QED BY <1>1, <1>2

\* The number of blocks: the last one ends at the end of the data or after.
LEMMA BlockCount ==
  ASSUME NEW n \in Nat \ {0}
  PROVE  LET K == (n + BlockSize - 1) \div BlockSize IN
         /\ K \in Nat \ {0} /\ K * BlockSize >= n
         /\ \A i \in 1..K : /\ i * BlockSize \in Nat \ {0}
                            /\ i * BlockSize - BlockSize < n
                            /\ i * BlockSize - BlockSize \in Nat
                            /\ (i # 1 => (i - 1) * BlockSize = i * BlockSize - BlockSize)
<1> DEFINE K == (n + BlockSize - 1) \div BlockSize
<1>1. BlockSize \in Nat \ {0}
  BY EnvelopeAssumption
<1>2. K \in Nat /\ K * BlockSize >= n /\ (K - 1) * BlockSize < n
  BY <1>1
<1>3. K # 0
  <2> HIDE DEF K
  <2> QED BY <1>1, <1>2
<1>4. ASSUME NEW i \in 1..K
      PROVE  /\ i * BlockSize \in Nat \ {0}
             /\ i * BlockSize - BlockSize < n
             /\ i * BlockSize - BlockSize \in Nat
             /\ i # 1 => (i - 1) * BlockSize = i * BlockSize - BlockSize
  <2> HIDE DEF K
  <2>1. (i - 1) * BlockSize = i * BlockSize - BlockSize /\ i * BlockSize \in Nat
    BY <1>1, <1>2
  <2>2. (i - 1) * BlockSize <= (K - 1) * BlockSize
    BY <1>1, <1>2
  <2>3. (i - 1) * BlockSize \in Nat
    BY <1>1, <1>2
  <2>4. (K - 1) * BlockSize \in Int
    BY <1>1, <1>2
  <2> QED BY <1>1, <1>2, <2>1, <2>2, <2>3, <2>4
<1> QED BY <1>2, <1>3, <1>4

\* DecryptLargeData gives back what EncryptLargeData was given, whatever the
\* size of the data and of a block.
THEOREM RoundTrip ==
  ASSUME NEW S, NEW data \in Seq(S), Len(data) # 0, NEW pair
  PROVE  DecryptLargeData(EncryptLargeData(data, pair)) = data
<1> DEFINE n == Len(data)
           K == (n + BlockSize - 1) \div BlockSize
           End(i) == IF i * BlockSize > n THEN n ELSE i * BlockSize
           seqs == [i \in 1..K |-> SubSeq(data, i * BlockSize - BlockSize + 1, End(i))]
<1>1. n \in Nat \ {0} /\ BlockSize \in Nat \ {0}
  BY EnvelopeAssumption
<1>2. /\ K \in Nat \ {0} /\ K * BlockSize >= n
      /\ \A i \in 1..K : /\ i * BlockSize \in Nat \ {0}
                         /\ i * BlockSize - BlockSize < n
                         /\ i * BlockSize - BlockSize \in Nat
                         /\ (i # 1 => (i - 1) * BlockSize = i * BlockSize - BlockSize)
  <2> HIDE DEF n
  <2> QED BY <1>1, BlockCount
<1> HIDE DEF K
<1>3. DecryptLargeData(EncryptLargeData(data, pair)) = FlattenSeq(seqs)
  <2>1. EncryptLargeData(data, pair)
          = [i \in 1..K |-> [pair |-> pair,
               data |-> SubSeq(data, i * BlockSize - BlockSize + 1, End(i))]]
    BY DEF EncryptLargeData, K
  <2>2. DOMAIN EncryptLargeData(data, pair) = 1..K
    BY <2>1
  <2>3. \A i \in 1..K : EncryptLargeData(data, pair)[i].data
                          = SubSeq(data, i * BlockSize - BlockSize + 1, End(i))
    BY <2>1
  <2>4. [i \in DOMAIN EncryptLargeData(data, pair) |-> EncryptLargeData(data, pair)[i].data] = seqs
    BY <2>2, <2>3
  <2> QED BY <2>4 DEF DecryptLargeData
<1>4. Len(seqs) = K /\ \A i \in 1..K : seqs[i] = SubSeq(data, i * BlockSize - BlockSize + 1, End(i))
  <2>1. K \in Nat
    BY <1>2
  <2>2. DOMAIN seqs = 1..K /\ \A i \in 1..K : seqs[i] = SubSeq(data, i * BlockSize - BlockSize + 1, End(i))
    OBVIOUS
  <2>3. Len(seqs) = K
    <3>1. seqs = [i \in 1..K |-> seqs[i]]
      OBVIOUS
    <3> HIDE DEF seqs
    <3> QED BY <2>1, <3>1
  <2> QED BY <2>2, <2>3
<1>5. PICK f : FlatsOf(f, seqs, K) /\ FlattenSeq(seqs) = f[K]
  <2> HIDE DEF seqs
  <2> QED BY <1>2, <1>4, FlattenDefined
<1> HIDE DEF seqs
<1> DEFINE T == {i \in Nat : i + 1 <= K => f[i + 1] = SubSeq(data, 1, End(i + 1))}
<1>6. 0 \in T
  <2>1. 1 \in 1..K /\ 1 * BlockSize - BlockSize + 1 = 1
    BY <1>1, <1>2
  <2>2. f[1] = seqs[1]
    BY <1>5, <2>1 DEF FlatsOf
  <2>3. seqs[1] = SubSeq(data, 1 * BlockSize - BlockSize + 1, End(1))
    BY <1>4, <2>1
  <2> QED BY <2>1, <2>2, <2>3
<1>7. ASSUME NEW i \in Nat, i \in T PROVE i + 1 \in T
  <2> DEFINE j == i + 1
  <2> SUFFICES ASSUME j + 1 <= K PROVE f[j + 1] = SubSeq(data, 1, End(j + 1))
    OBVIOUS
  <2>1. j \in 1..K /\ j + 1 \in 1..K /\ j + 1 # 1 /\ (j + 1) - 1 = j
    BY <1>2
  <2>2. f[j] = SubSeq(data, 1, End(j))
    BY <1>7, <2>1
  <2> HIDE DEF j
  <2>3. f[j + 1] = f[j] \o seqs[j + 1]
    <3>1. f[j + 1] = f[(j + 1) - 1] \o seqs[j + 1]
      BY <1>5, <2>1 DEF FlatsOf
    <3> QED BY <2>1, <3>1
  <2>4. seqs[j + 1] = SubSeq(data, (j + 1) * BlockSize - BlockSize + 1, End(j + 1))
    BY <1>4, <2>1
  <2> DEFINE a == j * BlockSize
             b == (j + 1) * BlockSize
             e == End(j + 1)
  <2>5. a = b - BlockSize /\ b \in Nat /\ a \in Nat /\ a < n
    BY <1>2, <2>1
  <2>6. End(j) = a
    BY <1>1, <2>5
  <2>7. e \in a..n /\ 1 \in 1..(n + 1) /\ a \in 0..n
    BY <1>1, <2>5
  <2>8. f[j + 1] = SubSeq(data, 1, a) \o SubSeq(data, a + 1, e)
    BY <2>2, <2>3, <2>4, <2>5, <2>6
  <2>9. SubSeq(data, 1, a) \o SubSeq(data, a + 1, e) = SubSeq(data, 1, e)
    <3> HIDE DEF a, e
    <3> QED BY <2>7, ConcatAdjacentSubSeq
  <2> QED BY <2>8, <2>9
<1>8. \A i \in Nat : i \in T
  <2> HIDE DEF T
  <2> QED BY <1>6, <1>7, SetInduction
<1>9. f[K] = SubSeq(data, 1, End(K))
  <2>1. K - 1 \in Nat /\ (K - 1) + 1 = K
    BY <1>2
  <2>2. K - 1 \in T
    BY <1>8, <2>1
  <2> QED BY <2>1, <2>2
<1>10. End(K) = n
  BY <1>1, <1>2
<1> QED BY <1>3, <1>5, <1>9, <1>10, SubSeqFull

\* The blocks EncryptLargeData makes, of which there is at least one, are
\* decrypted with its key pair and with no other.
THEOREM DecryptsOwn ==
  ASSUME NEW data, Len(data) \in Nat \ {0}, NEW pair, NEW other
  PROVE  Decrypts(EncryptLargeData(data, pair), other) <=> other = pair
<1> DEFINE K == (Len(data) + BlockSize - 1) \div BlockSize
           blocks == EncryptLargeData(data, pair)
<1>1. K \in Nat \ {0}
  BY BlockCount
<1>2. DOMAIN blocks = 1..K
  BY DEF EncryptLargeData
<1>3. \A i \in 1..K : blocks[i].pair = pair
  BY DEF EncryptLargeData
<1> HIDE DEF K, blocks
<1>4. 1 \in 1..K
  BY <1>1
<1> QED BY <1>2, <1>3, <1>4 DEF Decrypts, blocks

----
(***************************************************************************)
(* The settings.                                                           *)
(***************************************************************************)
SourcesOK == \E d \in Deployments : agentSrc = d.agent /\ serverSrc = d.server

LEMMA AgentLayers ==
  ASSUME NEW src, src.key.json = None, src.rate.json = None, NEW x \in DOMAIN AgentDefaults,
         src[x].flag = None \/ (src[x].flag # AgentDefaults[x] /\ x \notin {"key", "rate", "restore"})
  PROVE  AgentConfig(src)[x] = Documented(src, x, AgentDefaults)
<1>1. x # "restore"
  BY DEF AgentDefaults
<1>2. EnvOf(src, x) = src[x].env
  BY <1>1 DEF EnvOf
<1>3. CASE x \in {"key", "rate"}
  <2>1. AgentConfig(src)[x] = OverFlag(src, x, AgentDefaults)
    BY <1>3 DEF AgentConfig
  <2>2. src[x].flag = None /\ JSONOf(src, x) = None
    BY <1>3 DEF JSONOf
  <2> QED BY <1>2, <2>1, <2>2 DEF OverFlag, FlagOf, Documented
<1>4. CASE x \notin {"key", "rate"}
  <2>1. AgentConfig(src)[x] = Merged(src, x, AgentDefaults)
    BY <1>4 DEF AgentConfig
  <2> QED BY <1>2, <2>1 DEF Merged, FlagOf, Documented
<1> QED BY <1>3, <1>4

LEMMA ServerLayers ==
  ASSUME NEW src, src.key.json = None, NEW x \in DOMAIN ServerDefaults,
         src[x].flag = None \/ (src[x].flag # ServerDefaults[x] /\ x \notin {"key", "rate", "restore"})
  PROVE  ServerConfig(src)[x] = Documented(src, x, ServerDefaults)
<1>1. CASE x = "key"
  <2>1. ServerConfig(src)[x] = OverFlag(src, x, ServerDefaults)
    BY <1>1 DEF ServerConfig
  <2>2. src[x].flag = None /\ JSONOf(src, x) = None /\ EnvOf(src, x) = src[x].env
    BY <1>1 DEF JSONOf, EnvOf
  <2> QED BY <2>1, <2>2 DEF OverFlag, FlagOf, Documented
<1>2. CASE x = "restore"
  <2>1. ServerConfig(src)[x] = RestoreOf(src)
    BY <1>2 DEF ServerConfig
  <2>2. src[x].flag = None /\ EnvOf(src, x) = BooleanOf(src.restore.env)
    BY <1>2 DEF EnvOf
  <2> QED BY <1>2, <2>1, <2>2 DEF RestoreOf, Documented
<1>3. CASE x \notin {"key", "restore"}
  <2>1. ServerConfig(src)[x] = Merged(src, x, ServerDefaults)
    BY <1>3 DEF ServerConfig
  <2>2. EnvOf(src, x) = src[x].env
    BY <1>3 DEF EnvOf
  <2> QED BY <2>1, <2>2 DEF Merged, FlagOf, Documented
<1> QED BY <1>1, <1>2, <1>3

LEMMA LayersOfSources == SourcesOK => LayersAreRespected
<1> SUFFICES ASSUME SourcesOK PROVE LayersAreRespected
  OBVIOUS
<1>1. agentSrc.key.json = None /\ agentSrc.rate.json = None /\ serverSrc.key.json = None
  BY DeploymentAssumption DEF SourcesOK
<1>2. ASSUME NEW x \in DOMAIN AgentDefaults,
             agentSrc[x].flag = None
               \/ (agentSrc[x].flag # AgentDefaults[x] /\ x \notin {"key", "rate", "restore"})
      PROVE  AgentSettings[x] = Documented(agentSrc, x, AgentDefaults)
  BY <1>1, <1>2, AgentLayers DEF AgentSettings
<1>3. ASSUME NEW x \in DOMAIN ServerDefaults,
             serverSrc[x].flag = None
               \/ (serverSrc[x].flag # ServerDefaults[x] /\ x \notin {"key", "rate", "restore"})
      PROVE  ServerSettings[x] = Documented(serverSrc, x, ServerDefaults)
  BY <1>1, <1>3, ServerLayers DEF ServerSettings
<1> QED BY <1>2, <1>3 DEF LayersAreRespected

----
(***************************************************************************)
(* The inductive invariant.                                                *)
(***************************************************************************)
IsSequence(s) == s \in Seq({s[j] : j \in DOMAIN s})

AgentPair == KeyPair(AgentSettings.crypto)
ServerPair == KeyPair(ServerSettings.crypto)

\* What the body of the request is a text of.
Text == IF request.encoding = "encrypted" THEN DecryptLargeData(request.body) ELSE request.body

\* A request under way carries a whole text of a batch; one of the agent is
\* signed with the agent's key, and past the first middleware it is encrypted
\* only for a server that cannot decrypt it.
RequestOK ==
  request.stage # "done" =>
    /\ Parses(Text) /\ IsBatch(Parse(Text)) /\ Len(Text) \in Nat \ {0}
    /\ request.encoding = "encrypted" =>
         /\ request.from = "agent" /\ AgentPair # None
         /\ request.body = EncryptLargeData(Text, AgentPair)
    /\ request.stage # "sent" => server = "up"
    /\ request.from = "agent" =>
         /\ server # "off"
         /\ Parse(Text) # <<>> /\ DOMAIN Parse(Text) # {}
         /\ \A j \in DOMAIN Parse(Text) :
              /\ IsWhole(Parse(Text)[j])
              /\ Parse(Text)[j].hash = CalculateHash(Parse(Text)[j], AgentSettings.key)
         /\ request.encoding # "encrypted" => AgentPair \in {None, ServerPair}
         /\ request.stage # "sent" =>
              /\ AgentSettings.address = ServerSettings.address
              /\ request.encoding = "encrypted" => ServerPair = None

\* What has been decided of a request of the agent stays so.
DoneOK == DeliveredIffCompatible /\ (request.from = "agent" => server # "off")

AcceptedOK ==
  /\ IsSequence(accepted)
  /\ \A b \in DOMAIN accepted : IsBatch(accepted[b])
  /\ request.stage # "done" => Len(accepted) < sent

RequestIsRecord ==
  request = [from |-> request.from, encoding |-> request.encoding, body |-> request.body,
             stage |-> request.stage, status |-> request.status]

IInv ==
  /\ TypeOK
  /\ SourcesOK
  /\ RequestIsRecord
  /\ RequestOK
  /\ DoneOK
  /\ AcceptedOK
  /\ AcceptedBatchesAreSummed

----
(***************************************************************************)
(* What the actions are made of.                                           *)
(***************************************************************************)
LEMMA BytesText ==
  ASSUME NEW batch, NEW n \in Nat \ {0}
  PROVE  /\ Parses(Bytes(batch, n)) /\ Parse(Bytes(batch, n)) = batch
         /\ Len(Bytes(batch, n)) \in Nat \ {0}
         /\ \E S : Bytes(batch, n) \in Seq(S)
<1> DEFINE t == Bytes(batch, n)
<1>1. t \in Seq({<<batch, n, i>> : i \in 1..n}) /\ Len(t) = n /\ t[1] = <<batch, n, 1>>
  BY DEF Bytes
<1>2. t # <<>> /\ t[1][1] = batch /\ t[1][2] = n
  <2> HIDE DEF t
  <2> QED BY <1>1
<1> QED BY <1>1, <1>2 DEF Parses, Parse

LEMMA SignedMetric ==
  ASSUME NEW m, IsMetric(m), NEW key
  PROVE  /\ IsMetric(Signed(m, key))
         /\ Signed(m, key).hash = CalculateHash(Signed(m, key), key)
         /\ IsWhole(m) => IsWhole(Signed(m, key))
<1>1. Signed(m, key) = [id |-> m.id, type |-> m.type, amount |-> m.amount,
                        hash |-> CalculateHash(m, key)]
  BY DEF Signed, IsMetric
<1>2. CalculateHash(Signed(m, key), key) = CalculateHash(m, key)
  BY <1>1 DEF CalculateHash
<1> QED BY <1>1, <1>2 DEF IsMetric, IsWhole

\* verifyMetricHash of a metric with the hash of one key.
LEMMA VerifiedBySameKey ==
  ASSUME NEW m, NEW key, NEW other, IsWhole(m), m.hash = CalculateHash(m, key)
  PROVE  VerifyMetricHash(m, other) <=> other \in {None, key}
BY DEF VerifyMetricHash, CalculateHash, IsWhole, Types, None

LEMMA AppliedType ==
  ASSUME NEW ms, \A m \in ms : IsMetric(m) /\ IsWhole(m), TypeOK
  PROVE  \A i \in Ids : /\ Applied(ms).counters[i] \in Int
                        /\ Len(Applied(ms).gauges[i]) <= 1
<1> SUFFICES ASSUME NEW i \in Ids
             PROVE  /\ Applied(ms).counters[i] \in Int
                    /\ Len(Applied(ms).gauges[i]) <= 1
  OBVIOUS
<1> DEFINE c == {m \in ms : m.id = i /\ m.type = "counter"}
           g == {m \in ms : m.id = i /\ m.type = "gauge"}
<1>1. Applied(ms).counters[i]
        = IF c = {} THEN store.counters[i] ELSE store.counters[i] + (CHOOSE m \in c : TRUE).amount[1]
  BY DEF Applied
<1>2. Applied(ms).gauges[i]
        = IF g = {} THEN store.gauges[i] ELSE (CHOOSE m \in g : TRUE).amount
  BY DEF Applied
<1>3. store.counters[i] \in Int /\ Len(store.gauges[i]) <= 1
  BY LimitType DEF TypeOK, Int64s
<1>4. c # {} => (CHOOSE m \in c : TRUE).amount[1] \in Int
  <2>1. \A m \in c : m.amount[1] \in Int
    BY DEF IsMetric, IsWhole, Nil
  <2> HIDE DEF c
  <2> QED BY <2>1
<1>5. g # {} => Len((CHOOSE m \in g : TRUE).amount) <= 1
  <2>1. \A m \in g : Len(m.amount) <= 1
    BY DEF IsMetric
  <2> HIDE DEF g
  <2> QED BY <2>1
<1> HIDE DEF c, g
<1> QED BY <1>1, <1>2, <1>3, <1>4, <1>5

\* A merged batch adds to a counter what its deltas add up to.
LEMMA AppliedSum ==
  ASSUME NEW ms, IsMap(ms), NEW i \in Ids, NEW t \in Int, SumIs(ms, i, t),
         store.counters[i] \in Int
  PROVE  LET new == Applied({m \in ms : IsWhole(m)}).counters[i] IN
         new \in Int /\ Congruent(new, store.counters[i] + t)
<1> DEFINE c == {m \in {x \in ms : IsWhole(x)} : m.id = i /\ m.type = "counter"}
           new == Applied({x \in ms : IsWhole(x)}).counters[i]
           s == store.counters[i]
<1>1. new = IF c = {} THEN s ELSE s + (CHOOSE m \in c : TRUE).amount[1]
  BY DEF Applied
<1> HIDE DEF new
<1>2. ASSUME \E x \in ms : Counts(x, i) /\ x.amount # Nil /\ Congruent(x.amount[1], t)
      PROVE  new \in Int /\ Congruent(new, s + t)
  <2>1. PICK x \in ms : Counts(x, i) /\ x.amount # Nil /\ Congruent(x.amount[1], t)
    BY <1>2
  <2>2. x \in c
    BY <2>1 DEF Counts, IsWhole, Types
  <2>3. \A m \in c : m = x
    BY <2>1 DEF IsMap, SameMetric, Counts
  <2>4. (CHOOSE m \in c : TRUE) = x
    <3> HIDE DEF c
    <3> QED BY <2>2, <2>3
  <2>5. x.amount[1] \in Int
    BY <2>1 DEF IsMap, IsMetric, Nil
  <2>6. c # {}
    BY <2>2
  <2>7. new = s + x.amount[1]
    <3> HIDE DEF c
    <3> QED BY <1>1, <2>4, <2>6
  <2> HIDE DEF c
  <2>8. Congruent(s + x.amount[1], s + t)
    BY <2>1, <2>5, CongruentSum
  <2> QED BY <2>5, <2>7, <2>8
<1>3. ASSUME \A x \in ms : Counts(x, i) => x.amount = Nil, t = 0
      PROVE  new \in Int /\ Congruent(new, s + t)
  <2>1. c = {}
    BY <1>3 DEF Counts, IsWhole
  <2>2. new = s
    BY <1>1, <2>1
  <2>3. s = (s + t) + 0 * (2 * Limit)
    BY <1>3, LimitType
  <2> QED BY <2>2, <2>3 DEF Congruent
<1>4. new \in Int /\ Congruent(new, s + t)
  BY <1>2, <1>3 DEF SumIs
<1> QED BY <1>4 DEF new

----
(***************************************************************************)
(* Each action keeps the invariant.                                        *)
(***************************************************************************)
LEMMA WrapOfInt64 == ASSUME NEW a \in Int64s PROVE Wrap(a) = a
<1>1. a \in Int
  BY LimitType DEF Int64s
<1>2. Wrap(a) \in Int64s /\ Congruent(Wrap(a), a)
  BY <1>1, WrapType
<1> QED BY <1>2, Int64Unique

LEMMA ZeroInt64 == 0 \in Int64s
BY LimitType DEF Int64s

LEMMA InitIInv == Init => IInv
<1> SUFFICES ASSUME Init PROVE IInv
  OBVIOUS
<1>1. SourcesOK
  BY DEF Init, SourcesOK
<1>2. \A i \in Ids : store.counters[i] = 0 /\ store.gauges[i] = Nil
  BY DEF Init
<1>3. TypeOK
  <2>1. \A i \in Ids : store.counters[i] \in Int64s
    BY <1>2, ZeroInt64
  <2>2. \A i \in Ids : Len(store.gauges[i]) <= 1
    BY <1>2 DEF Nil
  <2>3. sent = 0 /\ polls = 0 /\ Len(accepted) = 0 /\ MaxSent \in Nat
    BY DeploymentAssumption DEF Init
  <2>4. /\ agent = "off" /\ server = "off" /\ request.stage = "done" /\ request.encoding = "plain"
        /\ request.status = 0 /\ partial = FALSE
    BY DEF Init
  <2>5. polls \in 0..sent /\ sent \in 0..MaxSent /\ Len(accepted) <= sent
    BY <2>3
  <2>6. partial \in BOOLEAN
    BY <2>4
  <2> QED BY <2>1, <2>2, <2>4, <2>5, <2>6 DEF TypeOK
<1>4. RequestIsRecord /\ RequestOK /\ DoneOK
  BY DEF Init, RequestIsRecord, RequestOK, DoneOK, DeliveredIffCompatible
<1>5. AcceptedOK
  BY DEF Init, AcceptedOK, IsSequence
<1>6. AcceptedBatchesAreSummed
  <2> SUFFICES ASSUME NEW i \in Ids PROVE store.counters[i] = Wrap(Total(i))
    BY DEF AcceptedBatchesAreSummed
  <2> DEFINE s == [b \in DOMAIN accepted |-> SumOf(Deltas(accepted[b], i))]
  <2>1. Len(s) = 0
    BY DEF Init
  <2>2. SumOf(s) = 0
    <3> HIDE DEF s
    <3> QED BY <2>1, SumOfType
  <2>3. Total(i) = 0
    BY <2>2 DEF Total
  <2> QED BY <1>2, <2>3, ZeroInt64, WrapOfInt64
<1> QED BY <1>1, <1>3, <1>4, <1>5, <1>6 DEF IInv

\* The sources of the settings stay, and so do the settings.
LEMMA SettingsStay ==
  ASSUME UNCHANGED sources, SourcesOK
  PROVE  /\ SourcesOK'
         /\ AgentSettings' = AgentSettings /\ ServerSettings' = ServerSettings
         /\ AgentPair' = AgentPair /\ ServerPair' = ServerPair
         /\ Compatible' = Compatible
BY DEF sources, SourcesOK, AgentSettings, ServerSettings, AgentPair, ServerPair, Compatible

LEMMA StoreStays ==
  ASSUME AcceptedBatchesAreSummed, UNCHANGED <<store, accepted, partial>>
  PROVE  AcceptedBatchesAreSummed'
BY DEF AcceptedBatchesAreSummed, Total

LEMMA AcceptedStays ==
  ASSUME AcceptedOK, UNCHANGED accepted, request'.stage = "done" \/ request.stage # "done" \/ sent' > sent,
         TypeOK, sent' \in Nat, sent' >= sent
  PROVE  AcceptedOK'
<1>1. Len(accepted) <= sent /\ sent \in Nat /\ Len(accepted) \in Nat
  BY DeploymentAssumption DEF TypeOK, AcceptedOK, IsSequence
<1> QED BY <1>1 DEF AcceptedOK, IsSequence

LEMMA StartIInv ==
  ASSUME IInv, StartAgent \/ StartServer
  PROVE  IInv'
<1> USE DEF IInv
<1>1. /\ UNCHANGED <<sources, polls, sent, request, store, accepted, partial>>
      /\ agent' \in {"off", "up", "refused"} /\ server' \in {"off", "up", "refused"}
      /\ server # "off" => server' = server
  BY DEF StartAgent, StartServer, TypeOK
<1>2. TypeOK'
  BY <1>1 DEF TypeOK
<1>3. SourcesOK' /\ RequestIsRecord'
  BY <1>1, SettingsStay DEF RequestIsRecord
<1>4. RequestOK'
  <2>1. Text' = Text
    BY <1>1 DEF Text
  <2>2. /\ AgentSettings' = AgentSettings /\ ServerSettings' = ServerSettings
        /\ AgentPair' = AgentPair /\ ServerPair' = ServerPair
    BY <1>1, SettingsStay
  <2> QED BY <1>1, <2>1, <2>2 DEF RequestOK
<1>5. DoneOK'
  BY <1>1, SettingsStay DEF DoneOK, DeliveredIffCompatible
<1>6. AcceptedOK' /\ AcceptedBatchesAreSummed'
  BY <1>1, StoreStays DEF AcceptedOK, IsSequence
<1> QED BY <1>2, <1>3, <1>4, <1>5, <1>6

LEMMA SendIInv ==
  ASSUME IInv, NEW from, NEW encoding \in {"plain", "gzip", "encrypted"}, NEW body,
         Send(from, encoding, body), polls' \in {polls, polls + 1}, RequestOK',
         from = "agent" => server # "off"
  PROVE  IInv'
<1> USE DEF IInv
<1>1. /\ UNCHANGED <<sources, agent, server, store, accepted, partial>>
      /\ sent < MaxSent /\ sent' = sent + 1
      /\ request' = [from |-> from, encoding |-> encoding, body |-> body,
                     stage |-> "sent", status |-> 0]
  BY DEF Send
<1>2. TypeOK'
  <2>1. sent \in 0..MaxSent /\ polls \in 0..sent /\ MaxSent \in Nat /\ Len(accepted) <= sent
    BY DeploymentAssumption DEF TypeOK
  <2>2. sent' \in 0..MaxSent /\ polls' \in 0..sent'
    BY <1>1, <2>1
  <2>3. Len(accepted) \in Nat
    BY DEF AcceptedOK, IsSequence
  <2>4. Len(accepted') <= sent'
    BY <1>1, <2>1, <2>3
  <2>5. request'.stage = "sent" /\ request'.encoding = encoding /\ request'.status = 0
    BY <1>1
  <2> QED BY <1>1, <2>2, <2>4, <2>5 DEF TypeOK
<1>3. SourcesOK' /\ RequestIsRecord'
  BY <1>1, SettingsStay DEF RequestIsRecord
<1>4. DoneOK'
  BY <1>1 DEF DoneOK, DeliveredIffCompatible
<1>5. AcceptedOK'
  <2>1. sent' > sent /\ sent' \in Nat /\ sent' >= sent
    BY <1>1, DeploymentAssumption DEF TypeOK
  <2> QED BY <1>1, <2>1, AcceptedStays
<1>6. AcceptedBatchesAreSummed'
  BY <1>1, StoreStays
<1> QED BY <1>2, <1>3, <1>4, <1>5, <1>6

LEMMA AgentSendsIInv == ASSUME IInv, AgentSends PROVE IInv'
<1> USE DEF IInv
<1> DEFINE key == AgentSettings.key
           metrics == <<Metric("Alloc", "gauge", polls'), Metric("PollCount", "counter", polls')>>
           batch == [i \in 1..2 |-> Signed(metrics[i], key)]
<1>1. PICK n \in 1..MaxBytes :
        IF AgentPair = None
        THEN Send("agent", "gzip", Bytes(batch, n))
        ELSE Send("agent", "encrypted", EncryptLargeData(Bytes(batch, n), AgentPair))
  BY DEF AgentSends, AgentPair
<1>2. server # "off" /\ polls' = polls + 1 /\ polls' \in Int
  BY DeploymentAssumption DEF AgentSends, TypeOK
<1>3. \A i \in 1..2 : IsMetric(metrics[i]) /\ IsWhole(metrics[i])
  <2>1. ASSUME NEW id \in Ids, NEW type \in Types, NEW a \in Int
        PROVE  IsMetric(Metric(id, type, a)) /\ IsWhole(Metric(id, type, a))
    BY DEF Metric, IsMetric, IsWhole, Nil
  <2>2. /\ IsMetric(Metric("Alloc", "gauge", polls')) /\ IsWhole(Metric("Alloc", "gauge", polls'))
        /\ IsMetric(Metric("PollCount", "counter", polls'))
        /\ IsWhole(Metric("PollCount", "counter", polls'))
    BY <1>2, <2>1 DEF Ids, Types
  <2> QED BY <2>2
<1> HIDE DEF metrics
<1>4. /\ IsBatch(batch) /\ batch # <<>> /\ DOMAIN batch # {}
      /\ \A j \in DOMAIN batch : IsWhole(batch[j]) /\ batch[j].hash = CalculateHash(batch[j], key)
  <2>1. Len(batch) = 2 /\ DOMAIN batch = 1..2
    OBVIOUS
  <2>2. \A j \in 1..2 : /\ IsMetric(batch[j]) /\ IsWhole(batch[j])
                        /\ batch[j].hash = CalculateHash(batch[j], key)
    BY <1>3, SignedMetric
  <2> HIDE DEF batch
  <2>3. batch # <<>>
    BY <2>1
  <2> QED BY <2>1, <2>2, <2>3 DEF IsBatch
<1> DEFINE text == Bytes(batch, n)
<1> HIDE DEF batch, key
<1>5. n \in Nat \ {0}
  BY DeploymentAssumption
<1>6. /\ Parses(text) /\ Parse(text) = batch /\ Len(text) \in Nat \ {0}
      /\ \E S : text \in Seq(S)
  BY <1>5, BytesText
<1> HIDE DEF text
<1>7. DecryptLargeData(EncryptLargeData(text, AgentPair)) = text
  BY <1>6, RoundTrip
<1>8. UNCHANGED sources /\ server' = server
  BY <1>1 DEF Send
<1>9. /\ AgentSettings' = AgentSettings /\ ServerSettings' = ServerSettings
      /\ AgentPair' = AgentPair /\ ServerPair' = ServerPair
  BY <1>8, SettingsStay
<1>10. CASE AgentPair = None
  <2>1. Send("agent", "gzip", text)
    BY <1>1, <1>10 DEF text
  <2>2. request' = [from |-> "agent", encoding |-> "gzip", body |-> text,
                    stage |-> "sent", status |-> 0]
    BY <2>1 DEF Send
  <2>3. Text' = text
    BY <2>2 DEF Text
  <2>4. RequestOK'
    BY <1>2, <1>4, <1>6, <1>8, <1>9, <1>10, <2>2, <2>3 DEF RequestOK, key
  <2> QED BY <1>2, <2>1, <2>4, SendIInv
<1>11. CASE AgentPair # None
  <2>1. Send("agent", "encrypted", EncryptLargeData(text, AgentPair))
    BY <1>1, <1>11 DEF text
  <2>2. request' = [from |-> "agent", encoding |-> "encrypted",
                    body |-> EncryptLargeData(text, AgentPair), stage |-> "sent", status |-> 0]
    BY <2>1 DEF Send
  <2>3. Text' = text
    BY <1>7, <2>2 DEF Text
  <2>4. RequestOK'
    BY <1>2, <1>4, <1>6, <1>8, <1>9, <1>11, <2>2, <2>3 DEF RequestOK, key
  <2> QED BY <1>2, <2>1, <2>4, SendIInv
<1> QED BY <1>10, <1>11

LEMMA ClientSendsIInv == ASSUME IInv, ClientSends PROVE IInv'
<1> USE DEF IInv
<1>1. PICK unsigned \in ClientBatches, key \in ClientKeys :
        Send("client", "plain", Bytes([i \in DOMAIN unsigned |-> Signed(unsigned[i], key)], 1))
  BY DEF ClientSends
<1> DEFINE batch == [i \in DOMAIN unsigned |-> Signed(unsigned[i], key)]
           text == Bytes(batch, 1)
<1>2. polls' = polls
  BY DEF ClientSends
<1>3. IsBatch(batch)
  <2> DEFINE R == [id : Ids, type : STRING, amount : Seq(Int), hash : {<<>>}]
  <2>1. IsUnsigned(unsigned)
    BY DeploymentAssumption
  <2>2. unsigned \in Seq(R) /\ \A j \in DOMAIN unsigned : Len(unsigned[j].amount) <= 1
    BY <2>1 DEF IsUnsigned
  <2>3. /\ Len(unsigned) \in Nat /\ DOMAIN unsigned = 1..Len(unsigned)
        /\ \A j \in DOMAIN unsigned : unsigned[j] \in R
    <3> HIDE DEF R
    <3> QED BY <2>2
  <2>4. \A j \in 1..Len(unsigned) : IsMetric(unsigned[j])
    BY <2>2, <2>3 DEF IsMetric
  <2>5. Len(batch) = Len(unsigned) /\ DOMAIN batch = 1..Len(unsigned)
    BY <2>3
  <2>6. \A j \in 1..Len(unsigned) : IsMetric(batch[j])
    BY <2>3, <2>4, SignedMetric
  <2> HIDE DEF batch
  <2> QED BY <2>3, <2>5, <2>6 DEF IsBatch
<1> HIDE DEF batch
<1>4. Parses(text) /\ Parse(text) = batch /\ Len(text) \in Nat \ {0}
  BY BytesText
<1> HIDE DEF text
<1>5. Send("client", "plain", text)
  BY <1>1 DEF text, batch
<1>6. request' = [from |-> "client", encoding |-> "plain", body |-> text,
                  stage |-> "sent", status |-> 0]
  BY <1>5 DEF Send
<1>7. Text' = text
  BY <1>6 DEF Text
<1>8. RequestOK'
  BY <1>3, <1>4, <1>6, <1>7 DEF RequestOK
<1> QED BY <1>2, <1>5, <1>8, SendIInv

\* A step of the request under way, before the storage is reached.
LEMMA PassedIInv ==
  ASSUME IInv, UNCHANGED <<sources, agent, server, polls, sent, store, accepted, partial>>,
         request.stage # "done",
         RequestIsRecord', request'.stage \in {"gzip", "handler", "done"},
         request'.encoding \in {"plain", "gzip", "encrypted"},
         request'.status \in {0, 200, 400, 500}, request'.from = request.from,
         RequestOK',
         request'.stage = "done" => /\ request'.status \in {0, 400}
                                    /\ request.from = "agent" => ~(server = "up" /\ Compatible)
  PROVE  IInv'
<1> USE DEF IInv
<1>1. TypeOK'
  BY DEF TypeOK
<1>2. SourcesOK' /\ Compatible' = Compatible
  BY SettingsStay
<1>3. DoneOK'
  <2>1. request.from = "agent" => server # "off"
    BY DEF DoneOK
  <2>2. request'.stage = "done" => request'.status \notin {200, 500}
    OBVIOUS
  <2> QED BY <1>2, <2>1, <2>2 DEF DoneOK, DeliveredIffCompatible
<1>4. AcceptedOK' /\ AcceptedBatchesAreSummed'
  BY StoreStays DEF AcceptedOK, IsSequence
<1> QED BY <1>1, <1>2, <1>3, <1>4

LEMMA AnsweredRecord ==
  ASSUME RequestIsRecord, NEW status, Answered(status)
  PROVE  /\ RequestIsRecord' /\ request'.stage = "done" /\ request'.status = status
         /\ request'.from = request.from /\ request'.encoding = request.encoding
         /\ RequestOK'
BY DEF RequestIsRecord, Answered, RequestOK

LEMMA PassedRecord ==
  ASSUME RequestIsRecord, NEW stage, Passed(stage)
  PROVE  /\ RequestIsRecord' /\ request'.stage = stage /\ request'.status = request.status
         /\ request'.from = request.from /\ request'.encoding = request.encoding
         /\ request'.body = request.body /\ Text' = Text
<1>1. request' = [from |-> request.from, encoding |-> request.encoding, body |-> request.body,
                  stage |-> stage, status |-> request.status]
  BY DEF RequestIsRecord, Passed
<1> QED BY <1>1 DEF RequestIsRecord, Text

LEMMA ConnectionRefusedIInv == ASSUME IInv, ConnectionRefused PROVE IInv'
<1> USE DEF IInv
<1>1. /\ request.stage = "sent" /\ ~Reached /\ Answered(0)
      /\ UNCHANGED <<sources, agent, server, polls, sent, store, accepted, partial>>
  BY DEF ConnectionRefused
<1>2. /\ RequestIsRecord' /\ request'.stage = "done" /\ request'.status = 0
      /\ request'.from = request.from /\ request'.encoding = request.encoding
      /\ RequestOK'
  BY <1>1, AnsweredRecord
<1>3. request.from = "agent" => ~(server = "up" /\ Compatible)
  BY <1>1 DEF Reached, Compatible
<1>4. request.encoding \in {"plain", "gzip", "encrypted"}
  BY DEF TypeOK
<1> QED BY <1>1, <1>2, <1>3, <1>4, PassedIInv

LEMMA DecryptMiddlewareIInv == ASSUME IInv, DecryptMiddleware PROVE IInv'
<1> USE DEF IInv
<1>1. /\ request.stage = "sent" /\ Reached
      /\ UNCHANGED <<sources, agent, server, polls, sent, store, accepted, partial>>
      /\ IF ServerPair = None \/ request.encoding # "encrypted" THEN Passed("gzip")
         ELSE IF ~Decrypts(request.body, ServerPair) THEN Answered(400)
         ELSE request' = [request EXCEPT !.stage = "gzip", !.encoding = "gzip",
                                         !.body = DecryptLargeData(request.body)]
  BY DEF DecryptMiddleware, ServerPair
<1>2. /\ AgentSettings' = AgentSettings /\ ServerSettings' = ServerSettings
      /\ AgentPair' = AgentPair /\ ServerPair' = ServerPair
  BY <1>1, SettingsStay
<1>3. /\ server = "up"
      /\ request.from = "agent" => AgentSettings.address = ServerSettings.address
  BY <1>1 DEF Reached
<1>4. /\ request.encoding \in {"plain", "gzip", "encrypted"}
      /\ request.status \in {0, 200, 400, 500}
  BY DEF TypeOK
<1>5. request.encoding = "encrypted" =>
        /\ request.from = "agent" /\ AgentPair # None
        /\ Decrypts(request.body, ServerPair) <=> ServerPair = AgentPair
  BY <1>1, DecryptsOwn DEF RequestOK
<1>6. CASE ServerPair = None \/ request.encoding # "encrypted"
  <2>1. Passed("gzip")
    BY <1>1, <1>6
  <2>2. /\ RequestIsRecord' /\ request'.stage = "gzip" /\ request'.status = request.status
        /\ request'.from = request.from /\ request'.encoding = request.encoding
        /\ request'.body = request.body /\ Text' = Text
    BY <2>1, PassedRecord
  <2>3. RequestOK'
    BY <1>1, <1>2, <1>3, <1>6, <2>2 DEF RequestOK
  <2> QED BY <1>1, <1>4, <2>2, <2>3, PassedIInv
<1>7. CASE /\ ServerPair # None /\ request.encoding = "encrypted"
           /\ ~Decrypts(request.body, ServerPair)
  <2>1. Answered(400)
    BY <1>1, <1>7
  <2>2. /\ RequestIsRecord' /\ request'.stage = "done" /\ request'.status = 400
        /\ request'.from = request.from /\ request'.encoding = request.encoding
        /\ RequestOK'
    BY <2>1, AnsweredRecord
  <2>3. ~Compatible
    BY <1>5, <1>7 DEF Compatible, AgentPair, ServerPair
  <2> QED BY <1>1, <1>4, <2>2, <2>3, PassedIInv
<1>8. CASE /\ ServerPair # None /\ request.encoding = "encrypted"
           /\ Decrypts(request.body, ServerPair)
  <2>1. request' = [from |-> request.from, encoding |-> "gzip", body |-> Text,
                    stage |-> "gzip", status |-> request.status]
    <3>1. request' = [request EXCEPT !.stage = "gzip", !.encoding = "gzip",
                                     !.body = DecryptLargeData(request.body)]
      BY <1>1, <1>8
    <3>2. Text = DecryptLargeData(request.body)
      BY <1>8 DEF Text
    <3>3. RequestIsRecord
      OBVIOUS
    <3> QED BY <3>1, <3>2, <3>3 DEF RequestIsRecord
  <2>2. Text' = Text /\ RequestIsRecord'
    BY <2>1 DEF Text, RequestIsRecord
  <2>3. AgentPair = ServerPair
    BY <1>5, <1>8
  <2>4. RequestOK'
    BY <1>1, <1>2, <1>3, <2>1, <2>2, <2>3 DEF RequestOK
  <2> QED BY <1>1, <1>4, <2>1, <2>2, <2>4, PassedIInv
<1> QED BY <1>6, <1>7, <1>8

LEMMA GzipMiddlewareIInv == ASSUME IInv, GzipMiddleware PROVE IInv'
<1> USE DEF IInv
<1>1. /\ request.stage = "gzip"
      /\ UNCHANGED <<sources, agent, server, polls, sent, store, accepted, partial>>
      /\ IF request.encoding = "gzip" /\ ~Parses(request.body)
         THEN Answered(400) ELSE Passed("handler")
  BY DEF GzipMiddleware
<1>2. request.encoding = "gzip" => Parses(request.body)
  BY <1>1 DEF RequestOK, Text
<1>3. Passed("handler")
  BY <1>1, <1>2
<1>4. /\ RequestIsRecord' /\ request'.stage = "handler" /\ request'.status = request.status
      /\ request'.from = request.from /\ request'.encoding = request.encoding
      /\ request'.body = request.body /\ Text' = Text
  BY <1>3, PassedRecord
<1>5. /\ AgentSettings' = AgentSettings /\ ServerSettings' = ServerSettings
      /\ AgentPair' = AgentPair /\ ServerPair' = ServerPair
  BY <1>1, SettingsStay
<1>6. RequestOK'
  BY <1>1, <1>4, <1>5 DEF RequestOK
<1>7. /\ request.encoding \in {"plain", "gzip", "encrypted"}
      /\ request.status \in {0, 200, 400, 500}
  BY DEF TypeOK
<1> QED BY <1>1, <1>4, <1>6, <1>7, PassedIInv

\* One batch more makes a sequence of batches again.
LEMMA AppendBatch ==
  ASSUME NEW s, IsSequence(s), \A b \in DOMAIN s : IsBatch(s[b]), NEW batch, IsBatch(batch)
  PROVE  /\ IsSequence(Append(s, batch))
         /\ Len(s) \in Nat /\ Len(Append(s, batch)) = Len(s) + 1
         /\ \A b \in DOMAIN Append(s, batch) : IsBatch(Append(s, batch)[b])
<1> DEFINE S == {s[j] : j \in DOMAIN s}
           R == S \cup {batch}
           t == Append(s, batch)
<1>1. s \in Seq(R) /\ batch \in R
  BY DEF IsSequence
<1>2. \A x \in R : IsBatch(x)
  OBVIOUS
<1> HIDE DEF S, R
<1>3. t \in Seq(R) /\ Len(t) = Len(s) + 1 /\ Len(s) \in Nat
  BY <1>1
<1> HIDE DEF t
<1>4. DOMAIN t = 1..Len(t) /\ \A b \in DOMAIN t : t[b] \in R
  BY <1>3
<1>5. \A b \in DOMAIN t : IsBatch(t[b])
  BY <1>2, <1>4
<1>6. IsSequence(t)
  BY <1>3, <1>4 DEF IsSequence
<1> QED BY <1>3, <1>5, <1>6 DEF t

\* The request is answered by the handler, whatever the storage did.
LEMMA HandledIInv ==
  ASSUME IInv, UNCHANGED <<sources, agent, server, polls, sent>>, request.stage = "handler",
         NEW status \in {200, 400, 500}, Answered(status),
         request.from = "agent" => (status \in {200, 500} <=> Compatible),
         \A i \in Ids : store'.counters[i] \in Int64s /\ Len(store'.gauges[i]) <= 1,
         partial' \in BOOLEAN,
         accepted' = accepted
           \/ (\E batch : IsBatch(batch) /\ accepted' = Append(accepted, batch)),
         AcceptedBatchesAreSummed'
  PROVE  IInv'
<1> USE DEF IInv
<1>1. /\ RequestIsRecord' /\ request'.stage = "done" /\ request'.status = status
      /\ request'.from = request.from /\ request'.encoding = request.encoding
      /\ RequestOK'
  BY AnsweredRecord
<1>2. SourcesOK' /\ Compatible' = Compatible
  BY SettingsStay
<1>3. /\ IsSequence(accepted') /\ Len(accepted') \in Nat /\ Len(accepted') <= Len(accepted) + 1
      /\ \A b \in DOMAIN accepted' : IsBatch(accepted'[b])
  <2>1. IsSequence(accepted) /\ \A b \in DOMAIN accepted : IsBatch(accepted[b])
    BY DEF AcceptedOK
  <2>2. CASE accepted' = accepted
    <3>1. Len(accepted) \in Nat
      BY <2>1 DEF IsSequence
    <3> QED BY <2>1, <2>2, <3>1
  <2>3. CASE \E batch : IsBatch(batch) /\ accepted' = Append(accepted, batch)
    <3>1. PICK batch : IsBatch(batch) /\ accepted' = Append(accepted, batch)
      BY <2>3
    <3>2. /\ IsSequence(Append(accepted, batch))
          /\ Len(accepted) \in Nat /\ Len(Append(accepted, batch)) = Len(accepted) + 1
          /\ \A b \in DOMAIN Append(accepted, batch) : IsBatch(Append(accepted, batch)[b])
      BY <2>1, <3>1, AppendBatch
    <3> QED BY <3>1, <3>2
  <2> QED BY <2>2, <2>3
<1>4. Len(accepted) < sent /\ Len(accepted) \in Nat /\ sent \in Nat /\ MaxSent \in Nat
  BY DeploymentAssumption DEF AcceptedOK, TypeOK, IsSequence
<1>5. TypeOK'
  <2>1. /\ agent' \in {"off", "up", "refused"} /\ server' \in {"off", "up", "refused"}
        /\ polls' \in 0..sent' /\ sent' \in 0..MaxSent
        /\ request'.stage \in {"sent", "gzip", "handler", "done"}
        /\ request'.encoding \in {"plain", "gzip", "encrypted"}
        /\ request'.status \in {0, 200, 400, 500}
    BY <1>1 DEF TypeOK
  <2>2. Len(accepted') <= sent'
    BY <1>3, <1>4
  <2> QED BY <2>1, <2>2 DEF TypeOK
<1>6. DoneOK'
  <2>1. request.from = "agent" => server # "off"
    BY DEF RequestOK
  <2>2. server = "up"
    BY DEF RequestOK
  <2> QED BY <1>1, <1>2, <2>1, <2>2 DEF DoneOK, DeliveredIffCompatible
<1>7. AcceptedOK'
  BY <1>1, <1>3 DEF AcceptedOK
<1> QED BY <1>1, <1>2, <1>5, <1>6, <1>7

\* A batch that is accepted adds its deltas to the totals.
LEMMA AcceptSums ==
  ASSUME IInv, NEW batch, IsBatch(batch), accepted' = Append(accepted, batch), partial' = partial,
         \A i \in Ids : ~Dropped(batch, i) =>
           /\ store'.counters[i] \in Int64s
           /\ SumOf(Deltas(batch, i)) \in Int
           /\ Congruent(store'.counters[i], store.counters[i] + SumOf(Deltas(batch, i)))
  PROVE  AcceptedBatchesAreSummed'
<1> USE DEF IInv
<1> SUFFICES ASSUME ~partial, NEW i \in Ids,
                    ~ \E b \in DOMAIN accepted' : Dropped(accepted'[b], i)
             PROVE  store'.counters[i] = Wrap(Total(i)')
  BY DEF AcceptedBatchesAreSummed
<1> DEFINE N == Len(accepted)
           d == SumOf(Deltas(batch, i))
           s == [b \in DOMAIN accepted |-> SumOf(Deltas(accepted[b], i))]
           t == [b \in DOMAIN accepted' |-> SumOf(Deltas(accepted'[b], i))]
<1>1. /\ N \in Nat /\ DOMAIN accepted = 1..N /\ DOMAIN accepted' = 1..(N + 1)
      /\ \A b \in 1..N : accepted'[b] = accepted[b]
      /\ accepted'[N + 1] = batch
  <2> DEFINE S == {accepted[j] : j \in DOMAIN accepted}
  <2>1. accepted \in Seq(S)
    BY DEF AcceptedOK, IsSequence
  <2> DEFINE R == S \cup {batch}
  <2> HIDE DEF S
  <2>2. accepted \in Seq(R) /\ batch \in R
    BY <2>1
  <2> HIDE DEF R
  <2> QED BY <2>2
<1> HIDE DEF N
<1>2. ~Dropped(batch, i) /\ \A b \in 1..N : ~Dropped(accepted[b], i)
  <2>1. N + 1 \in DOMAIN accepted'
    BY <1>1
  <2>2. \A b \in 1..N : b \in DOMAIN accepted'
    BY <1>1
  <2> QED BY <1>1, <2>1, <2>2
<1>3. Len(s) = N /\ Len(t) = N + 1
  <2>1. DOMAIN s = 1..N /\ DOMAIN t = 1..(N + 1)
    BY <1>1
  <2>2. s = [b \in 1..N |-> s[b]] /\ t = [b \in 1..(N + 1) |-> t[b]]
    BY <1>1
  <2> HIDE DEF s, t
  <2> QED BY <1>1, <2>2
<1>4. \A b \in 1..N : t[b] = s[b]
  BY <1>1
<1>5. t[N + 1] = d
  BY <1>1
<1>6. \A b \in 1..N : s[b] \in Int
  <2>1. \A b \in 1..N : IsBatch(accepted[b])
    BY <1>1 DEF AcceptedOK
  <2>2. \A b \in 1..N : SumOf(Deltas(accepted[b], i)) \in Int
    BY <1>2, <2>1, MergeSums
  <2> QED BY <1>1, <2>2
<1>7. Total(i) = SumOf(s) /\ Total(i)' = SumOf(t)
  BY DEF Total
<1> HIDE DEF s, t, d
<1>8. SumOf(s) \in Int
  BY <1>1, <1>3, <1>6, SumOfType
<1>9. SumOf(t) = SumOf(s) + d
  BY <1>1, <1>3, <1>4, <1>5, SumOfExtended
<1>10. store.counters[i] = Wrap(SumOf(s))
  <2>1. ~ \E b \in DOMAIN accepted : Dropped(accepted[b], i)
    BY <1>1, <1>2
  <2> QED BY <1>7, <2>1 DEF AcceptedBatchesAreSummed
<1> DEFINE w == Wrap(SumOf(s))
           c == store'.counters[i]
<1>11. w \in Int /\ Congruent(w, SumOf(s))
  BY <1>8, WrapType
<1>12. c \in Int64s /\ c \in Int /\ d \in Int /\ Congruent(c, w + d)
  BY <1>2, <1>10, LimitType DEF d, Int64s
<1> HIDE DEF w, c
<1>13. Congruent(w + d, SumOf(s) + d)
  BY <1>8, <1>11, <1>12, CongruentSum
<1>14. Congruent(c, SumOf(t))
  BY <1>8, <1>9, <1>11, <1>12, <1>13, CongruentTransitive
<1>15. SumOf(t) \in Int
  BY <1>8, <1>9, <1>12
<1>16. Wrap(c) = Wrap(SumOf(t))
  BY <1>12, <1>14, <1>15, WrapCongruent
<1> QED BY <1>7, <1>12, <1>16, WrapOfInt64 DEF c

LEMMA WrappedCounters ==
  ASSUME NEW ms
  PROVE  \A i \in Ids : /\ Wrapped(Applied(ms)).counters[i] = Wrap(Applied(ms).counters[i])
                        /\ Wrapped(Applied(ms)).gauges[i] = Applied(ms).gauges[i]
<1>1. PICK c, g : Applied(ms) = [counters |-> c, gauges |-> g]
  BY DEF Applied
<1> QED BY <1>1 DEF Wrapped

LEMMA MemoryUpdateIInv ==
  ASSUME IInv, UNCHANGED <<sources, agent, server, polls, sent>>, request.stage = "handler",
         NEW batch, IsBatch(batch), MemoryUpdate(batch, Merge(batch)),
         request.from = "agent" => Compatible
  PROVE  IInv'
<1> DEFINE ms == Merge(batch)
           whole == {m \in ms : IsWhole(m)}
<1>1. IsMap(ms) /\ \A m \in ms : IsMetric(m)
  BY MergeMap DEF IsMap
<1>2. TypeOK /\ AcceptedBatchesAreSummed
  BY DEF IInv
<1>3. ASSUME NEW part \in SUBSET whole, store' = Wrapped(Applied(part))
      PROVE  \A i \in Ids : store'.counters[i] \in Int64s /\ Len(store'.gauges[i]) <= 1
  <2>1. \A i \in Ids : Applied(part).counters[i] \in Int /\ Len(Applied(part).gauges[i]) <= 1
    BY <1>1, <1>2, AppliedType
  <2>2. \A i \in Ids : /\ store'.counters[i] = Wrap(Applied(part).counters[i])
                       /\ store'.gauges[i] = Applied(part).gauges[i]
    BY <1>3, WrappedCounters
  <2> QED BY <2>1, <2>2, WrapType
<1>4. CASE whole = ms
  <2>1. store' = Wrapped(Applied(whole)) /\ Accept(batch)
    BY <1>4 DEF MemoryUpdate
  <2>2. /\ Answered(200) /\ accepted' = Append(accepted, batch) /\ partial' = partial
    BY <2>1 DEF Accept
  <2>3. \A i \in Ids : store'.counters[i] \in Int64s /\ Len(store'.gauges[i]) <= 1
    BY <1>3, <2>1
  <2>4. ASSUME NEW i \in Ids, ~Dropped(batch, i)
        PROVE  /\ store'.counters[i] \in Int64s
               /\ SumOf(Deltas(batch, i)) \in Int
               /\ Congruent(store'.counters[i], store.counters[i] + SumOf(Deltas(batch, i)))
    <3> DEFINE d == SumOf(Deltas(batch, i))
               new == Applied(whole).counters[i]
    <3>1. d \in Int /\ SumIs(ms, i, d)
      BY <2>4, MergeSums
    <3>2. store.counters[i] \in Int
      BY <1>2, LimitType DEF TypeOK, Int64s
    <3> HIDE DEF d, ms
    <3>3. new \in Int /\ Congruent(new, store.counters[i] + d)
      BY <1>1, <3>1, <3>2, AppliedSum
    <3>4. store'.counters[i] = Wrap(new)
      BY <2>1, WrappedCounters
    <3> HIDE DEF new
    <3>5. Wrap(new) \in Int /\ Congruent(Wrap(new), new)
      BY <3>3, WrapType
    <3>6. Congruent(Wrap(new), store.counters[i] + d)
      BY <3>1, <3>2, <3>3, <3>5, CongruentTransitive
    <3> QED BY <2>3, <3>1, <3>4, <3>6 DEF d
  <2>5. AcceptedBatchesAreSummed'
    BY <2>2, <2>4, AcceptSums
  <2>6. partial' \in BOOLEAN
    BY <1>2, <2>2 DEF TypeOK
  <2> QED BY <2>2, <2>3, <2>5, <2>6, HandledIInv
<1>5. CASE whole # ms
  <2>1. PICK done \in SUBSET whole :
          /\ store' = Wrapped(Applied(done))
          /\ partial' = (partial \/ done # {})
          /\ Answered(500)
          /\ UNCHANGED accepted
    BY <1>5 DEF MemoryUpdate
  <2>2. \A i \in Ids : store'.counters[i] \in Int64s /\ Len(store'.gauges[i]) <= 1
    BY <1>3, <2>1
  <2>3. AcceptedBatchesAreSummed'
    <3> SUFFICES ASSUME ~partial', NEW i \in Ids,
                        ~ \E b \in DOMAIN accepted : Dropped(accepted[b], i)
                 PROVE  store'.counters[i] = Wrap(Total(i)')
      BY <2>1 DEF AcceptedBatchesAreSummed
    <3>1. done = {} /\ ~partial
      BY <2>1
    <3>2. Applied(done).counters[i] = store.counters[i]
      BY <3>1 DEF Applied
    <3>3. store'.counters[i] = Wrap(store.counters[i])
      BY <2>1, <3>2, WrappedCounters
    <3>4. store.counters[i] = Wrap(Total(i)) /\ store.counters[i] \in Int64s
      BY <1>2, <3>1 DEF AcceptedBatchesAreSummed, TypeOK
    <3>5. Total(i)' = Total(i)
      BY <2>1 DEF Total
    <3> QED BY <3>3, <3>4, <3>5, WrapOfInt64
  <2>4. partial' \in BOOLEAN
    BY <2>1, Zenon
  <2> QED BY <2>1, <2>2, <2>3, <2>4, HandledIInv
<1> QED BY <1>4, <1>5

LEMMA DatabaseUpdateIInv ==
  ASSUME IInv, UNCHANGED <<sources, agent, server, polls, sent>>, request.stage = "handler",
         NEW batch, IsBatch(batch), DatabaseUpdate(batch, Merge(batch)),
         request.from = "agent" => Compatible
  PROVE  IInv'
<1> DEFINE ms == Merge(batch)
           whole == {m \in ms : IsWhole(m)}
           ok == (\A m \in ms : m.type \in Types) /\ Fits(Applied(whole))
<1>1. IsMap(ms) /\ \A m \in ms : IsMetric(m)
  BY MergeMap DEF IsMap
<1>2. TypeOK /\ AcceptedBatchesAreSummed
  BY DEF IInv
<1>3. CASE ok
  <2>1. store' = Applied(whole) /\ Accept(batch)
    BY <1>3 DEF DatabaseUpdate
  <2>2. /\ Answered(200) /\ accepted' = Append(accepted, batch) /\ partial' = partial
    BY <2>1 DEF Accept
  <2>3. \A i \in Ids : store'.counters[i] \in Int64s /\ Len(store'.gauges[i]) <= 1
    <3>1. \A i \in Ids : Applied(whole).counters[i] \in Int /\ Len(Applied(whole).gauges[i]) <= 1
      BY <1>1, <1>2, AppliedType
    <3>2. \A i \in Ids : Applied(whole).counters[i] = Wrap(Applied(whole).counters[i])
      BY <1>3 DEF Fits, InRange
    <3> QED BY <2>1, <3>1, <3>2, WrapType
  <2>4. ASSUME NEW i \in Ids, ~Dropped(batch, i)
        PROVE  /\ store'.counters[i] \in Int64s
               /\ SumOf(Deltas(batch, i)) \in Int
               /\ Congruent(store'.counters[i], store.counters[i] + SumOf(Deltas(batch, i)))
    <3> DEFINE d == SumOf(Deltas(batch, i))
    <3>1. d \in Int /\ SumIs(ms, i, d)
      BY <2>4, MergeSums
    <3>2. store.counters[i] \in Int
      BY <1>2, LimitType DEF TypeOK, Int64s
    <3> HIDE DEF d, ms
    <3>3. Congruent(Applied(whole).counters[i], store.counters[i] + d)
      BY <1>1, <3>1, <3>2, AppliedSum
    <3> QED BY <2>1, <2>3, <3>1, <3>3 DEF d
  <2>5. AcceptedBatchesAreSummed'
    BY <2>2, <2>4, AcceptSums
  <2>6. partial' \in BOOLEAN
    BY <1>2, <2>2 DEF TypeOK
  <2> QED BY <2>2, <2>3, <2>5, <2>6, HandledIInv
<1>4. CASE ~ok
  <2>1. Answered(500) /\ UNCHANGED <<store, accepted, partial>>
    BY <1>4 DEF DatabaseUpdate
  <2>2. AcceptedBatchesAreSummed'
    BY <1>2, <2>1, StoreStays
  <2>3. /\ \A i \in Ids : store'.counters[i] \in Int64s /\ Len(store'.gauges[i]) <= 1
        /\ partial' \in BOOLEAN
    BY <1>2, <2>1 DEF TypeOK
  <2> QED BY <2>1, <2>2, <2>3, HandledIInv
<1> QED BY <1>3, <1>4

LEMMA UpdatesHandlerIInv == ASSUME IInv, UpdatesHandler PROVE IInv'
<1> DEFINE batch == Parse(request.body)
           isJSON == request.encoding # "encrypted" /\ Parses(request.body)
           key == ServerSettings.key
           verified == \A j \in DOMAIN batch : VerifyMetricHash(batch[j], key)
<1>1. request.stage = "handler" /\ UNCHANGED <<sources, agent, server, polls, sent>>
  BY DEF UpdatesHandler
<1>2. RequestOK /\ TypeOK /\ AcceptedBatchesAreSummed
  BY DEF IInv
<1>3. request.encoding # "encrypted" => Text = request.body
  BY DEF Text
<1>4. request.from = "agent" => (isJSON /\ batch # <<>> /\ verified <=> Compatible)
  <2> SUFFICES ASSUME request.from = "agent"
               PROVE  isJSON /\ batch # <<>> /\ verified <=> Compatible
    OBVIOUS
  <2>1. /\ AgentSettings.address = ServerSettings.address
        /\ request.encoding = "encrypted" => AgentPair # None /\ ServerPair = None
        /\ request.encoding # "encrypted" => AgentPair \in {None, ServerPair}
    BY <1>1, <1>2 DEF RequestOK
  <2>2. CASE request.encoding = "encrypted"
    <3>1. ~Compatible
      BY <2>1, <2>2 DEF Compatible, AgentPair, ServerPair
    <3> QED BY <2>2, <3>1
  <2>3. CASE request.encoding # "encrypted"
    <3>1. isJSON /\ batch # <<>> /\ DOMAIN batch # {}
      BY <1>1, <1>2, <1>3, <2>3 DEF RequestOK
    <3>2. \A j \in DOMAIN batch :
            IsWhole(batch[j]) /\ batch[j].hash = CalculateHash(batch[j], AgentSettings.key)
      BY <1>1, <1>2, <1>3, <2>3 DEF RequestOK
    <3>3. Compatible <=> key \in {None, AgentSettings.key}
      BY <2>1, <2>3 DEF Compatible, AgentPair, ServerPair
    <3> HIDE DEF batch, key
    <3>4. \A j \in DOMAIN batch :
            VerifyMetricHash(batch[j], key) <=> key \in {None, AgentSettings.key}
      BY <3>2, VerifiedBySameKey
    <3>5. verified <=> key \in {None, AgentSettings.key}
      BY <3>1, <3>4
    <3> QED BY <3>1, <3>3, <3>5
  <2> QED BY <2>2, <2>3
<1>5. CASE isJSON /\ batch # <<>> /\ verified
  <2>1. IsBatch(batch)
    BY <1>1, <1>2, <1>3, <1>5 DEF RequestOK
  <2>2. request.from = "agent" => Compatible
    BY <1>4, <1>5
  <2>3. IF IsDatabase THEN DatabaseUpdate(batch, Merge(batch)) ELSE MemoryUpdate(batch, Merge(batch))
    BY <1>5 DEF UpdatesHandler
  <2> HIDE DEF batch
  <2>4. CASE IsDatabase
    BY <1>1, <2>1, <2>2, <2>3, <2>4, DatabaseUpdateIInv
  <2>5. CASE ~IsDatabase
    BY <1>1, <2>1, <2>2, <2>3, <2>5, MemoryUpdateIInv
  <2> QED BY <2>4, <2>5
<1>6. CASE ~(isJSON /\ batch # <<>> /\ verified)
  <2>1. Answered(400) /\ UNCHANGED <<store, accepted, partial>>
    BY <1>6 DEF UpdatesHandler
  <2>2. request.from = "agent" => (400 \in {200, 500} <=> Compatible)
    BY <1>4, <1>6
  <2>3. AcceptedBatchesAreSummed'
    BY <1>2, <2>1, StoreStays
  <2>4. /\ \A i \in Ids : store'.counters[i] \in Int64s /\ Len(store'.gauges[i]) <= 1
        /\ partial' \in BOOLEAN
    BY <1>2, <2>1 DEF TypeOK
  <2> QED BY <1>1, <2>1, <2>2, <2>3, <2>4, HandledIInv
<1> QED BY <1>5, <1>6

LEMMA StutterIInv == ASSUME IInv, UNCHANGED vars PROVE IInv'
<1> USE DEF IInv
<1>1. UNCHANGED <<sources, agent, server, polls, sent, request, store, accepted, partial>>
  BY DEF vars
<1>2. TypeOK' /\ RequestIsRecord' /\ AcceptedOK' /\ AcceptedBatchesAreSummed'
  BY <1>1, StoreStays DEF TypeOK, RequestIsRecord, AcceptedOK, IsSequence
<1>3. SourcesOK'
  BY <1>1, SettingsStay
<1>4. Text' = Text
  BY <1>1 DEF Text
<1>5. RequestOK' /\ DoneOK'
  BY <1>1, <1>4, SettingsStay DEF RequestOK, DoneOK, DeliveredIffCompatible
<1> QED BY <1>2, <1>3, <1>5

LEMMA NextIInv == IInv /\ [Next]_vars => IInv'
<1> SUFFICES ASSUME IInv, [Next]_vars PROVE IInv'
  OBVIOUS
<1>1. CASE StartAgent \/ StartServer
  BY <1>1, StartIInv
<1>2. CASE AgentSends
  BY <1>2, AgentSendsIInv
<1>3. CASE ClientSends
  BY <1>3, ClientSendsIInv
<1>4. CASE ConnectionRefused
  BY <1>4, ConnectionRefusedIInv
<1>5. CASE DecryptMiddleware
  BY <1>5, DecryptMiddlewareIInv
<1>6. CASE GzipMiddleware
  BY <1>6, GzipMiddlewareIInv
<1>7. CASE UpdatesHandler
  BY <1>7, UpdatesHandlerIInv
<1>8. CASE Terminated
  BY <1>8, StutterIInv DEF Terminated
<1>9. CASE UNCHANGED vars
  BY <1>9, StutterIInv
<1> QED BY <1>1, <1>2, <1>3, <1>4, <1>5, <1>6, <1>7, <1>8, <1>9 DEF Next

----
(***************************************************************************)
(* The theorems.                                                           *)
(***************************************************************************)
\* The inductive invariant holds: from Send to UpdatesHandler a request under
\* way is the whole text of the batch its sender made, and a block of it is
\* encrypted with the sender's key, if at all.
THEOREM InvariantHolds == Spec => []IInv
<1>1. Init => IInv
  BY InitIInv
<1>2. IInv /\ [Next]_vars => IInv'
  BY NextIInv
<1> QED BY <1>1, <1>2, PTL DEF Spec

\* Every counter of either storage stays an int64, whatever is posted, and the
\* variables stay in their types.
THEOREM TypeCorrect == Spec => []TypeOK
<1>1. IInv => TypeOK
  BY DEF IInv
<1> QED BY <1>1, InvariantHolds, PTL

\* ParseAgentConfig and Load give every setting the value the documented order
\* of flag, environment and file gives it, but for the named exceptions.
THEOREM Layers == Spec => []LayersAreRespected
<1>1. IInv => LayersAreRespected
  BY LayersOfSources DEF IInv
<1> QED BY <1>1, InvariantHolds, PTL

\* sendBatch's signing, compression and EncryptLargeData are undone by the
\* middlewares and UpdatesHandler exactly if the settings fit together, for a
\* text and blocks of any size.
THEOREM Delivered == Spec => []DeliveredIffCompatible
<1>1. IInv => DeliveredIffCompatible
  BY DEF IInv, DoneOK
<1> QED BY <1>1, InvariantHolds, PTL

\* UpdatesHandler and UpdateBatch of both storages lose and double no delta of
\* the batches they accept, for batches of any length and any integer width.
THEOREM Summed == Spec => []AcceptedBatchesAreSummed
<1>1. IInv => AcceptedBatchesAreSummed
  BY DEF IInv
<1> QED BY <1>1, InvariantHolds, PTL
====
