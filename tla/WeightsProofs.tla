---------------------------- MODULE WeightsProofs ----------------------------
(***************************************************************************)
(* Facts that the proofs of several components use: the sums of module     *)
(* Weights, counts, the least number of a set; and induction, recursion    *)
(* and the folds of the community modules, told of sets and functions so   *)
(* that they can be cited by name.                                         *)
(***************************************************************************)
EXTENDS Weights, Integers, SequencesExt, FiniteSetTheorems, WellFoundedInduction, TLAPS

\* A nonempty set of natural numbers has a least member.
LEMMA LeastOfSet ==
  ASSUME NEW T \in SUBSET Nat, T # {}
  PROVE  \E n \in T : \A m \in T : n <= m
<1>1. IsWellFoundedOn(OpToRel(<, Nat), Nat)
  BY NatLessThanWellFounded
<1>2. \E n \in T : \A m \in T : ~ (<<m, n>> \in OpToRel(<, Nat))
  BY <1>1, WFMin
<1>3. PICK n \in T : \A m \in T : ~ (<<m, n>> \in OpToRel(<, Nat))
  BY <1>2
<1>4. \A m \in T : n <= m
  <2> SUFFICES ASSUME NEW m \in T
               PROVE  n <= m
    OBVIOUS
  <2>1. ~ (m < n)
    BY <1>3 DEF OpToRel
  <2> QED
    BY <2>1
<1> QED
  BY <1>4

\* The bytes of finitely many holders are finitely many.
LEMMA BytesFinite ==
  ASSUME NEW S, IsFiniteSet(S), NEW w, \A h \in S : w[h] \in Nat
  PROVE  IsFiniteSet(Bytes(S, w)) /\ Total(S, w) \in Nat
<1> DEFINE f == [h \in S |-> {h} \X (1 .. w[h])]
           T == {{h} \X (1 .. w[h]) : h \in S}
<1>1. f \in Surjection(S, T)
  BY DEF Surjection
<1>2. IsFiniteSet(T)
  BY <1>1, FS_Surjection
<1>3. \A t \in T : IsFiniteSet(t)
  <2> SUFFICES ASSUME NEW h \in S
               PROVE  IsFiniteSet({h} \X (1 .. w[h]))
    OBVIOUS
  <2>1. IsFiniteSet({h})
    BY FS_Singleton
  <2>2. IsFiniteSet(1 .. w[h])
    BY FS_Interval
  <2> QED
    BY <2>1, <2>2, FS_Product
<1>4. IsFiniteSet(UNION T)
  BY <1>2, <1>3, FS_UNION
<1> QED
  BY <1>4, FS_CardinalityType DEF Bytes, Total

\* The bytes of one holder are as many as its weight.
LEMMA OwnBytes ==
  ASSUME NEW h, NEW n \in Nat
  PROVE  /\ IsFiniteSet({h} \X (1 .. n))
         /\ Cardinality({h} \X (1 .. n)) = n
<1>1. IsFiniteSet({h}) /\ Cardinality({h}) = 1
  BY FS_Singleton
<1>2. IsFiniteSet(1 .. n)
  BY FS_Interval
<1>3. Cardinality(1 .. n) = n
  <2>1. Cardinality(1 .. n) = IF 1 > n THEN 0 ELSE n - 1 + 1
    BY FS_Interval
  <2> QED
    BY <2>1
<1>4. IsFiniteSet({h} \X (1 .. n))
  BY <1>1, <1>2, FS_Product
<1>5. Cardinality({h} \X (1 .. n)) = Cardinality({h}) * Cardinality(1 .. n)
  BY <1>1, <1>2, FS_Product
<1> QED
  BY <1>1, <1>3, <1>4, <1>5

\* Nobody holds nothing.
LEMMA TotalEmpty == ASSUME NEW w PROVE Total({}, w) = 0
<1>1. Bytes({}, w) = {}
  BY DEF Bytes
<1> QED
  BY <1>1, FS_EmptySet DEF Total

\* A new holder adds its weight to the sum.
LEMMA TotalAdd ==
  ASSUME NEW S, IsFiniteSet(S), NEW w, \A h \in S : w[h] \in Nat,
         NEW r, r \notin S, w[r] \in Nat
  PROVE  Total(S \cup {r}, w) = Total(S, w) + w[r]
<1> DEFINE A == Bytes(S, w)
           B == {r} \X (1 .. w[r])
<1>1. Bytes(S \cup {r}, w) = A \cup B
  BY DEF Bytes
<1>2. A \cap B = {}
  BY DEF Bytes
<1>3. IsFiniteSet(A) /\ Cardinality(A) \in Nat
  BY BytesFinite DEF Total
<1>4. IsFiniteSet(B) /\ Cardinality(B) = w[r]
  BY OwnBytes
<1>5. Cardinality(A \cup B) = Cardinality(A) + Cardinality(B) - Cardinality(A \cap B)
  BY <1>3, <1>4, FS_Union
<1>6. Cardinality(A \cap B) = 0
  BY <1>2, FS_EmptySet
<1> HIDE DEF A, B
<1>7. Cardinality(A \cup B) = Cardinality(A) + w[r]
  BY <1>3, <1>4, <1>5, <1>6
<1> QED
  BY <1>1, <1>7 DEF Total, A

\* The sum depends on the weights of the holders only.
LEMMA TotalSame ==
  ASSUME NEW S, NEW v, NEW w, \A h \in S : v[h] = w[h]
  PROVE  Total(S, v) = Total(S, w)
<1>1. {{h} \X (1 .. v[h]) : h \in S} = {{h} \X (1 .. w[h]) : h \in S}
  OBVIOUS
<1> QED
  BY <1>1 DEF Bytes, Total

\* A holder that leaves takes its weight out of the sum.
LEMMA TotalRemove ==
  ASSUME NEW S, IsFiniteSet(S), NEW w, \A h \in S : w[h] \in Nat,
         NEW r \in S
  PROVE  /\ Total(S \ {r}, w) = Total(S, w) - w[r]
         /\ w[r] <= Total(S, w)
<1> DEFINE R == S \ {r}
<1>1. IsFiniteSet(R)
  BY FS_RemoveElement
<1>2. Total(R \cup {r}, w) = Total(R, w) + w[r]
  BY <1>1, TotalAdd
<1>3. R \cup {r} = S
  OBVIOUS
<1>4. Total(R, w) \in Nat
  BY <1>1, BytesFinite
<1>5. Total(S, w) = Total(R, w) + w[r]
  BY <1>2, <1>3
<1>6. w[r] \in Nat
  OBVIOUS
<1> HIDE DEF R
<1>7. Total(R, w) = Total(S, w) - w[r] /\ w[r] <= Total(S, w)
  BY <1>4, <1>5, <1>6
<1> QED
  BY <1>7 DEF R

\* When one holder's weight changes, the sum changes by as much.
LEMMA TotalMoved ==
  ASSUME NEW S, IsFiniteSet(S), NEW v, NEW w, NEW r \in S,
         \A h \in S : v[h] \in Nat, w[r] \in Nat,
         \A h \in S \ {r} : w[h] = v[h]
  PROVE  /\ Total(S, w) = Total(S, v) - v[r] + w[r]
         /\ v[r] <= Total(S, v)
<1> DEFINE R == S \ {r}
<1>1. IsFiniteSet(R) /\ r \notin R /\ R \cup {r} = S
  BY FS_RemoveElement
<1>2. Total(R, v) = Total(S, v) - v[r] /\ v[r] <= Total(S, v)
  BY TotalRemove
<1>3. Total(R, w) = Total(R, v)
  BY TotalSame
<1>4. Total(R \cup {r}, w) = Total(R, w) + w[r]
  <2>1. \A h \in R : w[h] \in Nat
    OBVIOUS
  <2> QED
    BY <1>1, <2>1, TotalAdd
<1> HIDE DEF R
<1> QED
  BY <1>1, <1>2, <1>3, <1>4

\* How many members of D the function f puts in S.
CountIn(D, f, S) == Cardinality({d \in D : f[d] \in S})

\* When one member of D moves, the number of those in S changes by what it does.
LEMMA CountMoved ==
  ASSUME NEW D, IsFiniteSet(D), NEW S, NEW f, NEW g, NEW c \in D,
         \A d \in D \ {c} : g[d] = f[d]
  PROVE  /\ CountIn(D, f, S) \in Nat /\ CountIn(D, g, S) \in Nat
         /\ CountIn(D, g, S) = CountIn(D, f, S) + (IF g[c] \in S THEN 1 ELSE 0)
                                                - (IF f[c] \in S THEN 1 ELSE 0)
         /\ f[c] \in S => CountIn(D, f, S) >= 1
<1> DEFINE F == {d \in D : f[d] \in S}
           G == {d \in D : g[d] \in S}
           R == {d \in D \ {c} : f[d] \in S}
<1>1. IsFiniteSet(F) /\ IsFiniteSet(G) /\ IsFiniteSet(R)
  BY FS_Subset
<1>2. Cardinality(F) \in Nat /\ Cardinality(G) \in Nat /\ Cardinality(R) \in Nat
  BY <1>1, FS_CardinalityType
<1>3. Cardinality(R \cup {c}) = Cardinality(R) + 1
  BY <1>1, FS_AddElement
<1>4. F = IF f[c] \in S THEN R \cup {c} ELSE R
  OBVIOUS
<1>5. G = IF g[c] \in S THEN R \cup {c} ELSE R
  OBVIOUS
<1> HIDE DEF F, G, R
<1>6. Cardinality(F) = Cardinality(R) + (IF f[c] \in S THEN 1 ELSE 0)
  BY <1>2, <1>3, <1>4
<1>7. Cardinality(G) = Cardinality(R) + (IF g[c] \in S THEN 1 ELSE 0)
  BY <1>2, <1>3, <1>5
<1>8. /\ Cardinality(G) = Cardinality(F) + (IF g[c] \in S THEN 1 ELSE 0)
                                         - (IF f[c] \in S THEN 1 ELSE 0)
      /\ f[c] \in S => Cardinality(F) >= 1
  BY <1>2, <1>6, <1>7
<1>9. CountIn(D, f, S) = Cardinality(F) /\ CountIn(D, g, S) = Cardinality(G)
  BY DEF CountIn, F, G
<1> QED
  BY <1>2, <1>8, <1>9
-----------------------------------------------------------------------------
\* Induction, told of a set: one that has 0 and, with each number, the next has all of them.
LEMMA Induction ==
  ASSUME NEW T, 0 \in T, \A n \in Nat : n \in T => n + 1 \in T
  PROVE  \A n \in Nat : n \in T
<1> SUFFICES ASSUME {n \in Nat : n \notin T} # {}
             PROVE  FALSE
  OBVIOUS
<1>1. PICK n \in {m \in Nat : m \notin T} : \A m \in {m \in Nat : m \notin T} : n <= m
  BY LeastOfSet
<1>2. n # 0 /\ n - 1 \in Nat
  BY <1>1
<1>3. n - 1 \in T /\ (n - 1) + 1 = n
  BY <1>1, <1>2
<1> QED
  BY <1>1, <1>2, <1>3

\* From base on, each of the n steps takes what it finds in S to what G says.
StepsFrom(f, n, S, base, G) ==
  /\ f \in [0 .. n -> S] /\ f[0] = base
  /\ \A k \in 1 .. n : f[k] = G[k][f[k - 1]]

\* Recursion: whatever the steps are, there is the sequence of what they lead to.
LEMMA Recursion ==
  ASSUME NEW n \in Nat, NEW S, NEW base \in S, NEW G \in [1 .. n -> [S -> S]]
  PROVE  \E f : StepsFrom(f, n, S, base, G)
<1> DEFINE Good(m, f) == /\ f \in [0 .. m -> S] /\ f[0] = base
                         /\ \A k \in 1 .. m : f[k] = G[k][f[k - 1]]
           T == {m \in Nat : m <= n => \E f : Good(m, f)}
<1>1. 0 \in T
  <2>1. Good(0, [k \in 0 .. 0 |-> base])
    OBVIOUS
  <2> QED
    BY <2>1
<1>2. ASSUME NEW m \in Nat, m \in T PROVE m + 1 \in T
  <2> SUFFICES ASSUME m + 1 <= n PROVE \E f : Good(m + 1, f)
    OBVIOUS
  <2>1. PICK f : Good(m, f)
    BY <1>2
  <2> DEFINE g == [k \in 0 .. m + 1 |-> IF k = m + 1 THEN G[m + 1][f[m]] ELSE f[k]]
  <2>2. G[m + 1] \in [S -> S] /\ f[m] \in S
    BY <2>1
  <2>3. g \in [0 .. m + 1 -> S] /\ g[0] = base
    BY <2>1, <2>2
  <2>4. \A k \in 1 .. m + 1 : g[k] = G[k][g[k - 1]]
    <3> SUFFICES ASSUME NEW k \in 1 .. m + 1 PROVE g[k] = G[k][g[k - 1]]
      OBVIOUS
    <3>1. CASE k = m + 1
      BY <3>1, <2>1
    <3>2. CASE k # m + 1
      BY <3>2, <2>1
    <3> QED
      BY <3>1, <3>2
  <2> HIDE DEF g
  <2>5. Good(m + 1, g)
    BY <2>3, <2>4
  <2> QED
    BY <2>5
<1> HIDE DEF T
<1>3. n \in T
  BY <1>1, <1>2, Induction
<1> QED
  BY <1>3 DEF T, StepsFrom

\* The greatest of some of the numbers from 0 to n.
LEMMA GreatestFromZero ==
  ASSUME NEW n \in Nat, NEW s \in SUBSET (0 .. n), s # {}
  PROVE  Max(s) \in s /\ \A k \in s : k <= Max(s)
<1> DEFINE T == {m \in Nat : n - m \in s}
<1>1. T \in SUBSET Nat /\ T # {}
  <2>1. PICK k \in s : TRUE
    OBVIOUS
  <2>2. n - k \in Nat /\ n - (n - k) = k
    OBVIOUS
  <2> QED
    BY <2>1, <2>2
<1>2. PICK t \in T : \A u \in T : t <= u
  BY <1>1, LeastOfSet
<1>3. n - t \in s
  BY <1>2
<1>4. ASSUME NEW l \in s PROVE l <= n - t
  <2>1. n - l \in Nat /\ n - (n - l) = l
    OBVIOUS
  <2>2. t <= n - l /\ t \in Nat
    BY <1>2, <2>1
  <2> QED
    BY <2>2
<1>5. \E x \in s : \A y \in s : x >= y
  BY <1>3, <1>4
<1>6. Max(s) \in s /\ \A y \in s : Max(s) >= y
  BY <1>5 DEF Max
<1> QED
  BY <1>6

LEMMA Greatest ==
  ASSUME NEW n \in Nat, NEW s \in SUBSET (1 .. n), s # {}
  PROVE  Max(s) \in s /\ \A k \in s : k <= Max(s)
<1>1. s \in SUBSET (0 .. n)
  OBVIOUS
<1> QED
  BY <1>1, GreatestFromZero

Iterates(it, n, S, base, G) ==
  /\ it \in [SUBSET (1 .. n) -> S]
  /\ \A s \in SUBSET (1 .. n) : it[s] = IF s = {} THEN base ELSE G[Max(s)][it[s \ {Max(s)}]]

\* The fold over the places of a sequence: what the community module's iteration is, for
\* every set of places, when place k takes a to G[k][a].
LEMMA Iteration ==
  ASSUME NEW n \in Nat, NEW S, NEW base \in S, NEW G \in [1 .. n -> [S -> S]]
  PROVE  \E it : Iterates(it, n, S, base, G)
<1> DEFINE At(s) == [k \in 1 .. n |-> IF k \in s THEN G[k] ELSE [a \in S |-> a]]
           Runs(s, f) == StepsFrom(f, n, S, base, At(s))
           run(s) == CHOOSE f : Runs(s, f)
           it == [s \in SUBSET (1 .. n) |-> run(s)[n]]
<1>1. ASSUME NEW s \in SUBSET (1 .. n) PROVE Runs(s, run(s))
  <2>1. At(s) \in [1 .. n -> [S -> S]]
    OBVIOUS
  <2> HIDE DEF At
  <2>2. \E f : Runs(s, f)
    BY <2>1, Recursion
  <2> QED
    BY <2>2
<1> HIDE DEF run
\* Above its greatest place nothing happens, and below it two sets with the same places
\* there do the same.
<1>2. ASSUME NEW s \in SUBSET (1 .. n), NEW t \in SUBSET (1 .. n), NEW m \in 0 .. n,
             \A k \in 1 .. m : k \in s <=> k \in t
      PROVE  run(s)[m] = run(t)[m]
  <2> DEFINE T == {k \in Nat : k <= m => run(s)[k] = run(t)[k]}
  <2>1. 0 \in T
    BY <1>1 DEF StepsFrom
  <2>2. ASSUME NEW k \in Nat, k \in T PROVE k + 1 \in T
    <3> SUFFICES ASSUME k + 1 <= m PROVE run(s)[k + 1] = run(t)[k + 1]
      OBVIOUS
    <3>1. run(s)[k] = run(t)[k] /\ k + 1 \in 1 .. m /\ k + 1 \in 1 .. n /\ (k + 1 \in s <=> k + 1 \in t)
      BY <2>2, <1>2
    <3>2. At(s)[k + 1] = At(t)[k + 1]
      BY <3>1
    <3>3. ASSUME NEW u \in {s, t} PROVE run(u)[k + 1] = At(u)[k + 1][run(u)[k]]
      <4> HIDE DEF At
      <4>1. StepsFrom(run(u), n, S, base, At(u)) /\ (k + 1) - 1 = k
        BY <1>1
      <4> QED
        BY <3>1, <4>1 DEF StepsFrom
    <3> QED
      BY <3>1, <3>2, <3>3
  <2> HIDE DEF T
  <2>3. m \in T
    BY <2>1, <2>2, Induction
  <2> QED
    BY <2>3 DEF T
<1>3. ASSUME NEW s \in SUBSET (1 .. n), NEW m \in 0 .. n, \A k \in s : k <= m
      PROVE  run(s)[n] = run(s)[m]
  <2> DEFINE T == {k \in Nat : m + k <= n => run(s)[m + k] = run(s)[m]}
  <2>1. 0 \in T
    OBVIOUS
  <2>2. ASSUME NEW k \in Nat, k \in T PROVE k + 1 \in T
    <3> SUFFICES ASSUME m + (k + 1) <= n PROVE run(s)[m + (k + 1)] = run(s)[m]
      OBVIOUS
    <3>1. run(s)[m + k] = run(s)[m] /\ m + (k + 1) \in 1 .. n /\ m + (k + 1) \notin s /\ (m + (k + 1)) - 1 = m + k
      BY <2>2, <1>3
    <3>2. run(s)[m + k] \in S /\ At(s)[m + (k + 1)] = [a \in S |-> a]
      BY <3>1, <1>1 DEF StepsFrom
    <3>3. run(s)[m + (k + 1)] = At(s)[m + (k + 1)][run(s)[(m + (k + 1)) - 1]]
      <4> HIDE DEF At
      <4> QED
        BY <3>1, <1>1 DEF StepsFrom
    <3> QED
      BY <3>1, <3>2, <3>3
  <2> HIDE DEF T
  <2>3. n - m \in T
    BY <2>1, <2>2, Induction
  <2> QED
    BY <2>3 DEF T
<1>4. it \in [SUBSET (1 .. n) -> S]
  BY <1>1 DEF StepsFrom
<1>5. ASSUME NEW s \in SUBSET (1 .. n)
      PROVE  it[s] = IF s = {} THEN base ELSE G[Max(s)][it[s \ {Max(s)}]]
  <2>1. CASE s = {}
    BY <2>1, <1>1, <1>3 DEF StepsFrom
  <2>2. CASE s # {}
    <3> DEFINE m == Max(s)
               t == s \ {m}
    <3>1. m \in s /\ m \in 1 .. n /\ \A k \in s : k <= m
      BY <2>2, Greatest
    <3> HIDE DEF m
    <3>2. t \in SUBSET (1 .. n) /\ \A k \in t : k <= m - 1
      BY <3>1
    <3> HIDE DEF t
    <3>3. run(s)[n] = run(s)[m] /\ run(t)[n] = run(t)[m - 1]
      <4>1. m \in 0 .. n /\ m - 1 \in 0 .. n
        BY <3>1
      <4>2. run(s)[n] = run(s)[m]
        BY <4>1, <3>1, <1>3
      <4>3. run(t)[n] = run(t)[m - 1]
        BY <4>1, <3>2, <1>3
      <4> QED
        BY <4>2, <4>3
    <3>4. run(s)[m - 1] = run(t)[m - 1]
      <4>1. m - 1 \in 0 .. n /\ \A k \in 1 .. m - 1 : k \in s <=> k \in t
        BY <3>1 DEF t
      <4> QED
        BY <4>1, <3>2, <1>2
    <3>5. run(s)[m] = G[m][run(s)[m - 1]]
      BY <3>1, <1>1 DEF StepsFrom
    <3>6. it[s] = G[m][it[t]]
      BY <3>2, <3>3, <3>4, <3>5
    <3> QED
      BY <3>6, <2>2 DEF m, t
  <2> QED
    BY <2>1, <2>2
<1> HIDE DEF it
<1>6. Iterates(it, n, S, base, G)
  BY <1>4, <1>5 DEF Iterates
<1> QED
  BY <1>6

\* A sequence of steps that never leaves a set it starts in is one in that set.
LEMMA StaysIn ==
  ASSUME NEW n \in Nat, NEW S, NEW f, f = [k \in 0 .. n |-> f[k]], f[0] \in S,
         \A k \in 1 .. n : f[k - 1] \in S => f[k] \in S
  PROVE  f \in [0 .. n -> S]
<1> DEFINE T == {k \in Nat : k <= n => f[k] \in S}
<1>1. 0 \in T
  OBVIOUS
<1>2. ASSUME NEW k \in Nat, k \in T PROVE k + 1 \in T
  <2> SUFFICES ASSUME k + 1 <= n PROVE f[k + 1] \in S
    OBVIOUS
  <2>1. k + 1 \in 1 .. n /\ (k + 1) - 1 = k /\ f[k] \in S
    BY <1>2
  <2> QED
    BY <2>1
<1> HIDE DEF T
<1>3. \A k \in Nat : k \in T
  BY <1>1, <1>2, Induction
<1>4. \A k \in 0 .. n : f[k] \in S
  BY <1>3 DEF T
<1> QED
  BY <1>4

\* The places up to k, and those before.
LEMMA UpTo ==
  ASSUME NEW k \in Nat \ {0}
  PROVE  Max(1 .. k) = k /\ (1 .. k) \ {k} = 1 .. k - 1 /\ 1 .. k # {}
<1>1. 1 .. k \in SUBSET (1 .. k) /\ k \in 1 .. k
  OBVIOUS
<1>2. Max(1 .. k) \in 1 .. k /\ k <= Max(1 .. k)
  BY <1>1, Greatest
<1> QED
  BY <1>1, <1>2

Folding(i, n, S, base, G) ==
  /\ i[{}] = base
  /\ \A t \in SUBSET (1 .. n) : t # {} /\ i[t \ {Max(t)}] \in S => i[t] = G[Max(t)][i[t \ {Max(t)}]]

\* What the steps make of base, at the last of them.
StepsTo(n, S, base, G, last) == \E f : StepsFrom(f, n, S, base, G) /\ last = f[n]

\* What an iteration makes of all the places is the last of the steps from place to place.
LEMMA FoldSteps ==
  ASSUME NEW n \in Nat, NEW S, NEW base \in S, NEW G \in [1 .. n -> [S -> S]], NEW i,
         Folding(i, n, S, base, G)
  PROVE  StepsTo(n, S, base, G, i[1 .. n])
<1> DEFINE f == [k \in 0 .. n |-> i[1 .. k]]
<1>1. f[0] = base
  BY DEF Folding
<1>2. ASSUME NEW k \in 1 .. n, f[k - 1] \in S PROVE f[k] = G[k][f[k - 1]]
  <2>1. k \in Nat \ {0} /\ 1 .. k \in SUBSET (1 .. n) /\ k - 1 \in 0 .. n
    OBVIOUS
  <2>2. Max(1 .. k) = k /\ (1 .. k) \ {k} = 1 .. k - 1 /\ 1 .. k # {}
    BY <2>1, UpTo
  <2>3. i[1 .. k - 1] \in S
    BY <1>2, <2>1
  <2>4. i[1 .. k] = G[k][i[1 .. k - 1]]
    BY <2>1, <2>2, <2>3 DEF Folding
  <2> QED
    BY <2>1, <2>4
<1>3. f = [k \in 0 .. n |-> f[k]] /\ i[1 .. n] = f[n]
  OBVIOUS
<1> HIDE DEF f
<1>4. \A k \in 1 .. n : f[k - 1] \in S => f[k] \in S
  <2> SUFFICES ASSUME NEW k \in 1 .. n, f[k - 1] \in S PROVE f[k] \in S
    OBVIOUS
  <2>1. f[k] = G[k][f[k - 1]]
    BY <1>2
  <2> QED
    BY <2>1
<1>5. f \in [0 .. n -> S]
  BY <1>1, <1>3, <1>4, StaysIn
<1>6. \A k \in 1 .. n : k - 1 \in 0 .. n
  OBVIOUS
<1>7. \A k \in 1 .. n : f[k] = G[k][f[k - 1]]
  BY <1>2, <1>5, <1>6
<1>8. StepsFrom(f, n, S, base, G)
  BY <1>1, <1>5, <1>7 DEF StepsFrom
<1> QED
  BY <1>3, <1>8 DEF StepsTo

\* A sequence of sequences, joined one after the other.
Joins(f, ss, S) ==
  /\ f \in [0 .. Len(ss) -> Seq(S)] /\ f[0] = <<>>
  /\ \A k \in 1 .. Len(ss) : f[k] = f[k - 1] \o ss[k]

\* What FlattenSeq makes of a sequence of sequences is all of them joined.
LEMMA Flattened ==
  ASSUME NEW S, NEW ss \in Seq(Seq(S))
  PROVE  \E f : Joins(f, ss, S) /\ FlattenSeq(ss) = f[Len(ss)]
<1> DEFINE n == Len(ss)
           G == [k \in 1 .. n |-> [a \in Seq(S) |-> a \o ss[k]]]
           Flat(f) == f = [i \in 1 .. n |-> IF i = 1 THEN ss[i] ELSE f[i - 1] \o ss[i]]
           flat == CHOOSE f : Flat(f)
           e == <<>>
<1>1. n \in Nat /\ G \in [1 .. n -> [Seq(S) -> Seq(S)]] /\ e \in Seq(S)
  OBVIOUS
<1>2. \A k \in 1 .. n : ss[k] \in Seq(S) /\ e \o ss[k] = ss[k]
  OBVIOUS
<1>3. PICK g : StepsFrom(g, n, Seq(S), e, G)
  <2> HIDE DEF G, n, e
  <2> QED
    BY <1>1, Recursion
<1>4. Joins(g, ss, S)
  <2> SUFFICES ASSUME NEW k \in 1 .. n PROVE g[k] = g[k - 1] \o ss[k]
    BY <1>3 DEF StepsFrom, Joins
  <2>1. k - 1 \in 0 .. n
    BY <1>1
  <2> QED
    BY <1>3, <2>1 DEF StepsFrom
<1>5. CASE n = 0
  <2>1. ss = <<>> /\ FlattenSeq(ss) = ss
    BY <1>5 DEF FlattenSeq
  <2> QED
    BY <1>4, <1>5, <2>1 DEF Joins
<1>6. CASE n # 0
  <2>1. Flat([i \in 1 .. n |-> g[i]])
    <3> DEFINE r == [i \in 1 .. n |-> g[i]]
    <3>1. ASSUME NEW i \in 1 .. n PROVE r[i] = IF i = 1 THEN ss[i] ELSE r[i - 1] \o ss[i]
      <4>1. g[i] = g[i - 1] \o ss[i]
        BY <1>4 DEF Joins
      <4>2. i = 1 => g[i - 1] = e
        BY <1>3 DEF StepsFrom
      <4>3. i # 1 => i - 1 \in 1 .. n
        BY <1>1
      <4> QED
        BY <4>1, <4>2, <4>3, <1>2
    <3> QED
      BY <3>1
  <2>2. Flat(flat)
    BY <2>1
  <2>3. FlattenSeq(ss) = flat[n]
    BY <1>6 DEF FlattenSeq
  <2> HIDE DEF flat
  <2> DEFINE f == [i \in 0 .. n |-> IF i = 0 THEN e ELSE flat[i]]
  <2>4. \A k \in 1 .. n : f[k] = f[k - 1] \o ss[k]
    <3> SUFFICES ASSUME NEW k \in 1 .. n PROVE f[k] = f[k - 1] \o ss[k]
      OBVIOUS
    <3>1. f[k] = flat[k] /\ k - 1 \in 0 .. n /\ k \in 0 .. n
      BY <1>1
    <3>2. CASE k = 1
      <4>1. f[k - 1] = e /\ flat[k] = ss[k]
        BY <3>2, <3>1, <2>2
      <4> QED
        BY <4>1, <3>1, <1>2
    <3>3. CASE k # 1
      <4>1. f[k - 1] = flat[k - 1]
        BY <3>1, <3>3
      <4>2. flat[k] = flat[k - 1] \o ss[k]
        BY <3>3, <2>2
      <4> QED
        BY <4>1, <4>2, <3>1
    <3> QED
      BY <3>2, <3>3
  <2>5. f[0] = e /\ f = [k \in 0 .. n |-> f[k]] /\ f[n] = flat[n]
    BY <1>1, <1>6
  <2> HIDE DEF f
  <2>6. \A k \in 1 .. n : f[k - 1] \in Seq(S) => f[k] \in Seq(S)
    <3> SUFFICES ASSUME NEW k \in 1 .. n, f[k - 1] \in Seq(S) PROVE f[k] \in Seq(S)
      OBVIOUS
    <3>1. f[k] = f[k - 1] \o ss[k] /\ ss[k] \in Seq(S)
      BY <1>2, <2>4
    <3> QED
      BY <3>1
  <2>7. f \in [0 .. n -> Seq(S)]
    <3> HIDE DEF n, e
    <3> QED
      BY <1>1, <2>5, <2>6, StaysIn
  <2> QED
    BY <2>3, <2>4, <2>5, <2>7 DEF Joins
<1> QED
  BY <1>5, <1>6

\* It is a sequence of what they hold.
LEMMA FlattenedType ==
  ASSUME NEW S, NEW ss \in Seq(Seq(S))
  PROVE  FlattenSeq(ss) \in Seq(S)
<1>1. PICK f : Joins(f, ss, S) /\ FlattenSeq(ss) = f[Len(ss)]
  BY Flattened
<1> QED
  BY <1>1 DEF Joins

\* A sequence that is joined to the others comes last.
LEMMA FlattenedAppend ==
  ASSUME NEW S, NEW ss \in Seq(Seq(S)), NEW x \in Seq(S)
  PROVE  FlattenSeq(Append(ss, x)) = FlattenSeq(ss) \o x
<1> DEFINE n == Len(ss)
           tt == Append(ss, x)
<1>1. n \in Nat /\ tt \in Seq(Seq(S)) /\ Len(tt) = n + 1 /\ tt[n + 1] = x /\ \A k \in 1 .. n : tt[k] = ss[k]
  OBVIOUS
<1>2. PICK f : Joins(f, ss, S) /\ FlattenSeq(ss) = f[n]
  BY Flattened
<1> HIDE DEF tt
<1>3. PICK g : Joins(g, tt, S) /\ FlattenSeq(tt) = g[n + 1]
  BY <1>1, Flattened
<1> DEFINE T == {k \in Nat : k <= n => f[k] = g[k]}
<1>4. 0 \in T
  BY <1>2, <1>3 DEF Joins
<1>5. ASSUME NEW k \in Nat, k \in T PROVE k + 1 \in T
  <2> SUFFICES ASSUME k + 1 <= n PROVE f[k + 1] = g[k + 1]
    OBVIOUS
  <2>1. f[k] = g[k] /\ k + 1 \in 1 .. n /\ k + 1 \in 1 .. n + 1 /\ (k + 1) - 1 = k
    BY <1>1, <1>5
  <2>2. f[k + 1] = f[k] \o ss[k + 1]
    BY <1>2, <2>1 DEF Joins
  <2>3. g[k + 1] = g[k] \o tt[k + 1]
    BY <1>1, <1>3, <2>1 DEF Joins
  <2> QED
    BY <1>1, <2>1, <2>2, <2>3
<1> HIDE DEF T
<1>6. n \in T
  BY <1>1, <1>4, <1>5, Induction
<1>7. f[n] = g[n]
  BY <1>1, <1>6 DEF T
<1>8. g[n + 1] = g[n] \o x
  <2>1. n + 1 \in 1 .. Len(tt) /\ (n + 1) - 1 = n
    BY <1>1
  <2>2. g[n + 1] = g[(n + 1) - 1] \o tt[n + 1]
    BY <1>3, <2>1 DEF Joins
  <2> QED
    BY <1>1, <2>1, <2>2
<1> QED
  BY <1>2, <1>3, <1>7, <1>8 DEF tt

\* What was joined stays where it is.
InPlace(f, ss) ==
  \A k \in 1 .. Len(ss) : \A p \in 1 .. Len(ss[k]) :
    /\ Len(f[k - 1]) + p \in 1 .. Len(f[Len(ss)])
    /\ f[Len(ss)][Len(f[k - 1]) + p] = ss[k][p]

LEMMA JoinedInPlace ==
  ASSUME NEW S, NEW ss \in Seq(Seq(S)), NEW f, Joins(f, ss, S)
  PROVE  InPlace(f, ss)
<1> SUFFICES ASSUME NEW k \in 1 .. Len(ss), NEW p \in 1 .. Len(ss[k])
             PROVE  /\ Len(f[k - 1]) + p \in 1 .. Len(f[Len(ss)])
                    /\ f[Len(ss)][Len(f[k - 1]) + p] = ss[k][p]
  BY DEF InPlace
<1> DEFINE n == Len(ss)
           at == Len(f[k - 1]) + p
           There(m) == at \in 1 .. Len(f[m]) /\ f[m][at] = ss[k][p]
           T == {d \in Nat : k + d <= n => There(k + d)}
<1>1. n \in Nat /\ k \in Nat /\ k - 1 \in 0 .. n /\ k \in 1 .. n
  OBVIOUS
<1>2. /\ \A m \in 0 .. n : f[m] \in Seq(S)
      /\ \A m \in 1 .. n : f[m] = f[m - 1] \o ss[m] /\ ss[m] \in Seq(S)
  <2>1. \A m \in 1 .. n : ss[m] \in Seq(S)
    OBVIOUS
  <2>2. f \in [0 .. n -> Seq(S)] /\ \A m \in 1 .. n : f[m] = f[m - 1] \o ss[m]
    BY DEF Joins
  <2> HIDE DEF n
  <2> QED
    BY <2>1, <2>2
<1>3. Len(f[k - 1]) \in Nat /\ at \in Nat \ {0} /\ p \in Nat /\ Len(ss[k]) \in Nat
  BY <1>1, <1>2
<1> HIDE DEF n
<1>4. 0 \in T
  <2>1. f[k - 1] \in Seq(S) /\ ss[k] \in Seq(S) /\ f[k] = f[k - 1] \o ss[k]
    BY <1>1, <1>2
  <2>2. PICK x \in Seq(S), y \in Seq(S) : x = f[k - 1] /\ y = ss[k] /\ f[k] = x \o y
    BY <2>1
  <2>3. Len(x) + p \in 1 .. Len(x \o y) /\ (x \o y)[Len(x) + p] = y[p]
    <3>1. p \in 1 .. Len(y)
      BY <2>2
    <3> QED
      BY <3>1
  <2>4. There(k)
    BY <2>2, <2>3
  <2> QED
    BY <1>1, <2>4
<1>5. ASSUME NEW d \in Nat, d \in T PROVE d + 1 \in T
  <2> SUFFICES ASSUME k + (d + 1) <= n PROVE There(k + (d + 1))
    OBVIOUS
  <2> DEFINE m == k + (d + 1)
  <2>1. m \in 1 .. n /\ m - 1 = k + d /\ m - 1 \in 0 .. n /\ k + d <= n
    BY <1>1
  <2>2. There(m - 1)
    BY <1>5, <2>1
  <2> HIDE DEF m
  <2>3. f[m - 1] \in Seq(S) /\ ss[m] \in Seq(S) /\ f[m] = f[m - 1] \o ss[m]
    BY <1>2, <2>1
  <2>4. PICK x \in Seq(S), y \in Seq(S) : x = f[m - 1] /\ y = ss[m] /\ f[m] = x \o y
    BY <2>3
  <2>5. PICK a : a = at
    OBVIOUS
  <2>6. a \in 1 .. Len(x) /\ x[a] = ss[k][p]
    BY <2>2, <2>4, <2>5
  <2>7. a \in 1 .. Len(x \o y) /\ (x \o y)[a] = x[a]
    BY <2>6
  <2>8. There(m)
    BY <2>4, <2>5, <2>6, <2>7
  <2> QED
    BY <2>8 DEF m
<1> HIDE DEF T
<1>6. n - k \in T
  <2>1. n - k \in Nat
    BY <1>1
  <2> QED
    BY <2>1, <1>4, <1>5, Induction
<1>7. There(n)
  <2>1. k + (n - k) = n /\ n <= n
    BY <1>1
  <2> QED
    BY <1>6, <2>1 DEF T
<1> QED
  BY <1>7 DEF n

\* When each of the sequences joined has an element or none, the first k of them give as many as have one.
OneOrNone(ss) == \A j \in 1 .. Len(ss) : Len(ss[j]) \in {0, 1}
CountsThem(f, ss) == \A k \in 0 .. Len(ss) : Len(f[k]) = Cardinality({j \in 1 .. k : Len(ss[j]) = 1})

LEMMA JoinedCount ==
  ASSUME NEW S, NEW ss \in Seq(Seq(S)), NEW f, Joins(f, ss, S), OneOrNone(ss)
  PROVE  CountsThem(f, ss)
<1> SUFFICES ASSUME NEW k \in 0 .. Len(ss)
             PROVE  Len(f[k]) = Cardinality({j \in 1 .. k : Len(ss[j]) = 1})
  BY DEF CountsThem
<1> DEFINE n == Len(ss)
           C(m) == {j \in 1 .. m : Len(ss[j]) = 1}
           T == {m \in Nat : m <= n => Len(f[m]) = Cardinality(C(m))}
<1>1. n \in Nat /\ k \in 0 .. n
  OBVIOUS
<1>2. /\ \A m \in 0 .. n : f[m] \in Seq(S)
      /\ \A m \in 1 .. n : f[m] = f[m - 1] \o ss[m] /\ ss[m] \in Seq(S) /\ Len(ss[m]) \in {0, 1}
      /\ f[0] = <<>>
  <2>1. \A m \in 1 .. n : ss[m] \in Seq(S) /\ Len(ss[m]) \in {0, 1}
    BY DEF OneOrNone
  <2>2. f \in [0 .. n -> Seq(S)] /\ f[0] = <<>> /\ \A m \in 1 .. n : f[m] = f[m - 1] \o ss[m]
    BY DEF Joins
  <2> HIDE DEF n
  <2> QED
    BY <2>1, <2>2
<1> HIDE DEF n
<1>3. 0 \in T
  <2>1. C(0) = {}
    OBVIOUS
  <2> QED
    BY <1>2, <2>1, FS_EmptySet
<1>4. ASSUME NEW m \in Nat, m \in T PROVE m + 1 \in T
  <2> SUFFICES ASSUME m + 1 <= n PROVE Len(f[m + 1]) = Cardinality(C(m + 1))
    OBVIOUS
  <2> DEFINE l == m + 1
  <2>1. l \in 1 .. n /\ l - 1 = m /\ m \in 0 .. n /\ m <= n
    BY <1>1
  <2>2. Len(f[m]) = Cardinality(C(m))
    BY <1>4, <2>1
  <2>3. /\ f[m] \in Seq(S) /\ ss[l] \in Seq(S) /\ f[l] = f[m] \o ss[l] /\ Len(ss[l]) \in {0, 1}
    <3>1. f[l] = f[l - 1] \o ss[l]
      BY <1>2, <2>1
    <3> QED
      BY <3>1, <1>2, <2>1
  <2>4. Len(f[l]) = Len(f[m]) + Len(ss[l])
    BY <2>3
  <2>5. IsFiniteSet(C(m)) /\ l \notin C(m)
    <3>1. IsFiniteSet(1 .. m)
      BY FS_Interval
    <3> QED
      BY <3>1, FS_Subset
  <2>6. CASE Len(ss[l]) = 1
    <3>1. C(l) = C(m) \cup {l}
      BY <2>6
    <3>2. Cardinality(C(l)) = Cardinality(C(m)) + 1
      BY <3>1, <2>5, FS_AddElement
    <3> QED
      BY <2>2, <2>4, <2>6, <3>2
  <2>7. CASE Len(ss[l]) = 0
    <3>1. C(l) = C(m)
      <4>1. \A j \in 1 .. l : j \in 1 .. m \/ j = l
        BY <2>1
      <4>2. \A j \in 1 .. m : j \in 1 .. l
        BY <2>1
      <4>3. Len(ss[l]) # 1
        BY <2>7
      <4> QED
        BY <4>1, <4>2, <4>3
    <3>2. Len(f[m]) \in Nat
      BY <2>3
    <3>3. Len(f[l]) = Len(f[m])
      BY <2>4, <2>7, <3>2
    <3> HIDE DEF C
    <3> QED
      BY <2>2, <3>1, <3>3
  <2> QED
    BY <2>3, <2>6, <2>7
<1> HIDE DEF T
<1>5. k \in T
  <2>1. k \in Nat
    BY <1>1
  <2> QED
    BY <2>1, <1>3, <1>4, Induction
<1> QED
  BY <1>1, <1>5 DEF T, n
=============================================================================
