----------------------------- MODULE ServeProofs -----------------------------
(***************************************************************************)
(* Proofs about the server, for every review, selection and sequence of    *)
(* budgets: a client that pages through a view is given all of it once, in *)
(* pages that fit; and for every set of clients, number of slots, line cap *)
(* and read budget: the accounts that the connection threads, the accept   *)
(* loop and the drain share are exact, and a stop that drained cut no      *)
(* request off.                                                            *)
(***************************************************************************)
EXTENDS Serve, Views, WeightsProofs, SequenceTheorems

(* The pages of a view *)

\* No element of the sequence is there twice; no two of the sequences share one.
Once(s) == \A a, b \in 1 .. Len(s) : s[a] = s[b] => a = b
Apart(ss) == \A k, l \in 1 .. Len(ss) : k # l => ToSet(ss[k]) \cap ToSet(ss[l]) = {}

LEMMA Concatenated ==
  ASSUME NEW S, NEW a \in Seq(S), NEW b \in Seq(S)
  PROVE  /\ a \o b \in Seq(S) /\ Len(a \o b) = Len(a) + Len(b)
         /\ \A k \in 1 .. Len(a) : (a \o b)[k] = a[k]
         /\ \A k \in 1 .. Len(b) : (a \o b)[Len(a) + k] = b[k]
  OBVIOUS

\* The same, for provers that need not know what a sequence is.
IsOver(s, S) == s \in Seq(S)
Follow(a, b) ==
  /\ Len(a \o b) = Len(a) + Len(b)
  /\ \A k \in 1 .. Len(a) : (a \o b)[k] = a[k]
  /\ \A k \in 1 .. Len(b) : (a \o b)[Len(a) + k] = b[k]
Regroup(a, b, c) == (a \o b) \o c = a \o (b \o c)

LEMMA Joining ==
  ASSUME NEW S, NEW a, NEW b, IsOver(a, S), IsOver(b, S)
  PROVE  IsOver(a \o b, S) /\ Follow(a, b) /\ \A c : IsOver(c, S) => Regroup(a, b, c)
<1>1. a \in Seq(S) /\ b \in Seq(S)
  BY DEF IsOver
<1>2. IsOver(a \o b, S) /\ Follow(a, b)
  BY <1>1, Concatenated DEF IsOver, Follow
<1>3. ASSUME NEW c, IsOver(c, S) PROVE Regroup(a, b, c)
  <2>1. c \in Seq(S)
    BY <1>3 DEF IsOver
  <2> QED
    BY ONLY <1>1, <2>1, ConcatAssociative DEF Regroup
<1> QED
  BY <1>2, <1>3

LEMMA SetOfJoined ==
  ASSUME NEW S, NEW a \in Seq(S), NEW b \in Seq(S)
  PROVE  ToSet(a \o b) = ToSet(a) \cup ToSet(b)
<1> DEFINE c == a \o b
<1>1. /\ DOMAIN a = 1 .. Len(a) /\ DOMAIN b = 1 .. Len(b) /\ DOMAIN c = 1 .. Len(a) + Len(b)
      /\ Len(a) \in Nat /\ Len(b) \in Nat
  OBVIOUS
<1>2. /\ \A k \in 1 .. Len(a) : c[k] = a[k]
      /\ \A k \in 1 .. Len(b) : c[k + Len(a)] = b[k]
  OBVIOUS
<1> HIDE DEF c
<1>3. ASSUME NEW x \in ToSet(c) PROVE x \in ToSet(a) \cup ToSet(b)
  <2>1. PICK k \in 1 .. Len(a) + Len(b) : x = c[k]
    BY <1>1, <1>3 DEF ToSet
  <2>2. CASE k <= Len(a)
    <3>1. k \in 1 .. Len(a)
      BY <1>1, <2>2
    <3> QED
      BY <1>1, <1>2, <2>1, <3>1 DEF ToSet
  <2>3. CASE k > Len(a)
    <3>1. k - Len(a) \in 1 .. Len(b) /\ (k - Len(a)) + Len(a) = k
      BY <1>1, <2>3
    <3>2. x = b[k - Len(a)]
      BY <1>2, <2>1, <3>1
    <3> QED
      BY <1>1, <3>1, <3>2 DEF ToSet
  <2> QED
    BY <1>1, <2>2, <2>3
<1>4. \A k \in 1 .. Len(a) : a[k] \in ToSet(c)
  <2> SUFFICES ASSUME NEW k \in 1 .. Len(a) PROVE a[k] \in ToSet(c)
    OBVIOUS
  <2>1. k \in 1 .. Len(a) + Len(b)
    BY <1>1
  <2> QED
    BY <1>1, <1>2, <2>1 DEF ToSet
<1>5. \A k \in 1 .. Len(b) : b[k] \in ToSet(c)
  <2> SUFFICES ASSUME NEW k \in 1 .. Len(b) PROVE b[k] \in ToSet(c)
    OBVIOUS
  <2>1. k + Len(a) \in 1 .. Len(a) + Len(b)
    BY <1>1
  <2> QED
    BY <1>1, <1>2, <2>1 DEF ToSet
<1> QED
  BY <1>1, <1>3, <1>4, <1>5 DEF ToSet, c

LEMMA OnceJoined ==
  ASSUME NEW S, NEW a \in Seq(S), NEW b \in Seq(S), Once(a), Once(b), ToSet(a) \cap ToSet(b) = {}
  PROVE  Once(a \o b)
<1> DEFINE c == a \o b
<1>1. /\ Len(c) = Len(a) + Len(b) /\ Len(a) \in Nat /\ Len(b) \in Nat
      /\ \A k \in 1 .. Len(a) : c[k] = a[k]
      /\ \A k \in 1 .. Len(b) : c[k + Len(a)] = b[k]
      /\ DOMAIN a = 1 .. Len(a) /\ DOMAIN b = 1 .. Len(b)
  OBVIOUS
<1> HIDE DEF c
<1>2. ASSUME NEW x \in 1 .. Len(c), NEW y \in 1 .. Len(c), c[x] = c[y], x < y PROVE FALSE
  <2>1. CASE y <= Len(a)
    <3>1. x \in 1 .. Len(a) /\ y \in 1 .. Len(a)
      BY <1>1, <1>2, <2>1
    <3>2. x = y
      BY <1>1, <1>2, <3>1 DEF Once
    <3> QED
      BY <1>2, <3>1, <3>2
  <2>2. CASE x > Len(a)
    <3>1. /\ x - Len(a) \in 1 .. Len(b) /\ y - Len(a) \in 1 .. Len(b)
          /\ (x - Len(a)) + Len(a) = x /\ (y - Len(a)) + Len(a) = y
      BY <1>1, <1>2, <2>2
    <3>2. b[x - Len(a)] = b[y - Len(a)]
      BY <1>1, <1>2, <3>1
    <3>3. x - Len(a) = y - Len(a)
      BY <3>1, <3>2 DEF Once
    <3> QED
      BY <1>1, <1>2, <3>3
  <2>3. CASE x <= Len(a) /\ y > Len(a)
    <3>1. x \in 1 .. Len(a) /\ y - Len(a) \in 1 .. Len(b) /\ (y - Len(a)) + Len(a) = y
      BY <1>1, <1>2, <2>3
    <3>2. a[x] = b[y - Len(a)]
      BY <1>1, <1>2, <3>1
    <3>3. a[x] \in ToSet(a) /\ b[y - Len(a)] \in ToSet(b)
      BY <1>1, <3>1 DEF ToSet
    <3> QED
      BY <3>2, <3>3
  <2> QED
    BY <1>1, <1>2, <2>1, <2>2, <2>3
<1>3. ASSUME NEW x \in 1 .. Len(c), NEW y \in 1 .. Len(c), c[x] = c[y] PROVE x = y
  <2>1. x \in Nat /\ y \in Nat
    BY <1>1
  <2>2. x < y \/ y < x \/ x = y
    BY <2>1
  <2> QED
    BY <1>2, <1>3, <2>2
<1> QED
  BY <1>3 DEF Once, c

\* What is joined holds what they all hold, and nothing twice if none of them does.
LEMMA FlattenedRange ==
  ASSUME NEW S, NEW ss \in Seq(Seq(S))
  PROVE  /\ ToSet(FlattenSeq(ss)) = UNION {ToSet(ss[k]) : k \in 1 .. Len(ss)}
         /\ (\A k \in 1 .. Len(ss) : Once(ss[k])) /\ Apart(ss) => Once(FlattenSeq(ss))
<1> DEFINE n == Len(ss)
           SoFar(m) == UNION {ToSet(ss[k]) : k \in 1 .. m}
           Good == (\A k \in 1 .. n : Once(ss[k])) /\ Apart(ss)
<1>1. n \in Nat /\ \A k \in 1 .. n : ss[k] \in Seq(S)
  OBVIOUS
<1>2. PICK f : Joins(f, ss, S) /\ FlattenSeq(ss) = f[n]
  BY Flattened
<1>3. \A m \in 0 .. n : f[m] \in Seq(S)
  BY <1>2 DEF Joins
<1> DEFINE T == {m \in Nat : m <= n => ToSet(f[m]) = SoFar(m) /\ (Good => Once(f[m]))}
<1>4. 0 \in T
  <2>1. f[0] = <<>>
    BY <1>2 DEF Joins
  <2>2. ToSet(<<>>) = {} /\ Once(<<>>)
    BY DEF ToSet, Once
  <2>3. SoFar(0) = {}
    OBVIOUS
  <2> QED
    BY <2>1, <2>2, <2>3
<1>5. ASSUME NEW m \in Nat, m \in T PROVE m + 1 \in T
  <2> DEFINE l == m + 1
  <2> SUFFICES ASSUME l <= n PROVE ToSet(f[l]) = SoFar(l) /\ (Good => Once(f[l]))
    OBVIOUS
  <2>1. l \in 1 .. n /\ m \in 0 .. n /\ l - 1 = m /\ m <= n
    BY <1>1
  <2>2. ToSet(f[m]) = SoFar(m) /\ (Good => Once(f[m]))
    BY <1>5, <2>1
  <2>3. f[l] = f[m] \o ss[l]
    <3>1. f[l] = f[l - 1] \o ss[l]
      BY <1>2, <2>1 DEF Joins
    <3> QED
      BY <2>1, <3>1
  <2>4. f[m] \in Seq(S) /\ ss[l] \in Seq(S)
    BY <1>1, <1>3, <2>1
  <2>5. 1 .. l = 1 .. m \cup {l}
    BY <2>1
  <2>6. SoFar(l) = SoFar(m) \cup ToSet(ss[l])
    BY <2>5
  <2>7. ToSet(f[l]) = SoFar(l)
    <3>1. ToSet(f[m] \o ss[l]) = ToSet(f[m]) \cup ToSet(ss[l])
      BY <2>4, SetOfJoined
    <3> QED
      BY <2>2, <2>3, <2>6, <3>1
  <2>8. ASSUME Good PROVE Once(f[l])
    <3>1. \A k \in 1 .. m : k \in 1 .. n /\ k # l
      BY <2>1
    <3>2. \A k \in 1 .. m : ToSet(ss[k]) \cap ToSet(ss[l]) = {}
      BY <2>1, <2>8, <3>1 DEF Apart
    <3>3. SoFar(m) \cap ToSet(ss[l]) = {}
      BY <3>2
    <3>4. Once(ss[l]) /\ Once(f[m])
      BY <2>1, <2>2, <2>8
    <3> QED
      BY ONLY <2>2, <2>3, <2>4, <3>3, <3>4, OnceJoined
  <2> QED
    BY <2>7, <2>8
<1> HIDE DEF T
<1>6. n \in T
  BY <1>1, <1>4, <1>5, Induction
<1> QED
  BY <1>1, <1>2, <1>6 DEF T

\* A sequence that holds nothing twice is as long as what it holds is many.
LEMMA OnceCount ==
  ASSUME NEW S, NEW s \in Seq(S), Once(s)
  PROVE  Cardinality(ToSet(s)) = Len(s)
<1>1. s \in [1 .. Len(s) -> ToSet(s)] /\ DOMAIN s = 1 .. Len(s) /\ Len(s) \in Nat
  BY DEF ToSet
<1>2. s \in Bijection(1 .. Len(s), ToSet(s))
  <2>1. s \in Injection(1 .. Len(s), ToSet(s))
    BY <1>1 DEF Injection, IsInjective, Once
  <2>2. s \in Surjection(1 .. Len(s), ToSet(s))
    BY <1>1 DEF Surjection, ToSet
  <2> QED
    BY <2>1, <2>2 DEF Bijection
<1>3. ExistsBijection(1 .. Len(s), ToSet(s))
  BY <1>2 DEF ExistsBijection
<1> QED
  BY <1>1, <1>3, FS_CountingElements

\* A part is preceded by the one before it, unless it is the first there can be.
Steps(s, b) ==
  \A k \in 1 .. Len(s) : s[k][3] > b => k > 1 /\ s[k - 1] = <<s[k][1], s[k][2], s[k][3] - 1>>

LEMMA StepsJoined ==
  ASSUME NEW S, NEW x \in Seq(S), NEW y \in Seq(S), NEW b, Steps(x, b), Steps(y, b)
  PROVE  Steps(x \o y, b)
<1> DEFINE c == x \o y
<1>1. /\ Len(c) = Len(x) + Len(y) /\ Len(x) \in Nat /\ Len(y) \in Nat
      /\ \A k \in 1 .. Len(x) : c[k] = x[k]
      /\ \A k \in 1 .. Len(y) : c[k + Len(x)] = y[k]
  OBVIOUS
<1> HIDE DEF c
<1>2. ASSUME NEW k \in 1 .. Len(c), c[k][3] > b
      PROVE  k > 1 /\ c[k - 1] = <<c[k][1], c[k][2], c[k][3] - 1>>
  <2>1. k \in Nat /\ k >= 1
    BY <1>1
  <2>2. CASE k <= Len(x)
    <3>1. k \in 1 .. Len(x)
      BY <1>1, <2>1, <2>2
    <3>2. c[k] = x[k]
      BY <1>1, <3>1
    <3>3. k > 1 /\ x[k - 1] = <<x[k][1], x[k][2], x[k][3] - 1>>
      BY <1>2, <3>1, <3>2 DEF Steps
    <3>4. c[k - 1] = x[k - 1]
      <4>1. k - 1 \in 1 .. Len(x)
        BY <3>1, <3>3
      <4> QED
        BY <1>1, <4>1
    <3> QED
      BY <3>2, <3>3, <3>4
  <2>3. CASE k > Len(x)
    <3> DEFINE l == k - Len(x)
    <3>1. l \in 1 .. Len(y) /\ l + Len(x) = k
      BY <1>1, <2>1, <2>3
    <3> HIDE DEF l
    <3>2. c[k] = y[l]
      BY <1>1, <3>1
    <3>3. l > 1 /\ y[l - 1] = <<y[l][1], y[l][2], y[l][3] - 1>>
      BY <1>2, <3>1, <3>2 DEF Steps
    <3>4. c[k - 1] = y[l - 1] /\ k > 1
      <4>1. l - 1 \in 1 .. Len(y) /\ (l - 1) + Len(x) = k - 1 /\ k > 1
        BY <1>1, <3>1, <3>3
      <4> QED
        BY <1>1, <4>1
    <3> QED
      BY <3>2, <3>3, <3>4
  <2> QED
    BY <1>1, <2>1, <2>2, <2>3
<1> QED
  BY <1>2 DEF Steps, c

LEMMA FlattenedSteps ==
  ASSUME NEW S, NEW ss \in Seq(Seq(S)), NEW b, \A k \in 1 .. Len(ss) : Steps(ss[k], b)
  PROVE  Steps(FlattenSeq(ss), b)
<1> DEFINE n == Len(ss)
<1>1. n \in Nat /\ \A k \in 1 .. n : ss[k] \in Seq(S)
  OBVIOUS
<1>2. PICK f : Joins(f, ss, S) /\ FlattenSeq(ss) = f[n]
  BY Flattened
<1>3. \A m \in 0 .. n : f[m] \in Seq(S)
  BY <1>2 DEF Joins
<1> DEFINE T == {m \in Nat : m <= n => Steps(f[m], b)}
<1>4. 0 \in T
  <2>1. f[0] = <<>>
    BY <1>2 DEF Joins
  <2> QED
    BY <2>1 DEF Steps
<1>5. ASSUME NEW m \in Nat, m \in T PROVE m + 1 \in T
  <2> SUFFICES ASSUME m + 1 <= n PROVE Steps(f[m + 1], b)
    OBVIOUS
  <2>1. m + 1 \in 1 .. n /\ m \in 0 .. n /\ (m + 1) - 1 = m /\ m <= n
    BY <1>1
  <2>2. Steps(f[m], b)
    BY <1>5, <2>1
  <2>3. f[m + 1] = f[m] \o ss[m + 1]
    <3>1. f[m + 1] = f[(m + 1) - 1] \o ss[m + 1]
      BY <1>2, <2>1 DEF Joins
    <3> QED
      BY <2>1, <3>1
  <2>4. f[m] \in Seq(S) /\ ss[m + 1] \in Seq(S) /\ Steps(ss[m + 1], b)
    BY <1>1, <1>3, <2>1
  <2> QED
    BY <2>2, <2>3, <2>4, StepsJoined
<1> HIDE DEF T
<1>6. n \in T
  BY <1>1, <1>4, <1>5, Induction
<1> QED
  BY <1>1, <1>2, <1>6 DEF T

\* What an entry shows.
HeadOf(q, at, from) == IF q.view = "outline" /\ from = 0 THEN {<<at[1], 0, 0>>} ELSE {}
PartsOf(at, from, upto) == {<<at[1], at[2], x>> : x \in from + 1 .. upto}

LEMMA ShownFacts ==
  ASSUME NEW q, NEW at, NEW from \in Nat, NEW upto \in Nat, from <= upto
  PROVE  /\ Shown(q, at, from, upto) \in Seq({at[1]} \X {at[2], 0} \X Nat)
         /\ ToSet(Shown(q, at, from, upto)) = HeadOf(q, at, from) \cup PartsOf(at, from, upto)
<1> DEFINE S == {at[1]} \X {at[2], 0} \X Nat
           listed == [x \in 1 .. upto - from |-> <<at[1], at[2], from + x>>]
           head == <<<<at[1], 0, 0>>>>
<1>1. upto - from \in Nat
  OBVIOUS
<1>2. listed \in Seq(S)
  <2>1. \A x \in 1 .. upto - from : <<at[1], at[2], from + x>> \in S
    OBVIOUS
  <2> HIDE DEF S
  <2> QED
    BY <1>1, <2>1
<1>3. ToSet(listed) = {<<at[1], at[2], x>> : x \in from + 1 .. upto}
  <2>1. DOMAIN listed = 1 .. upto - from /\ \A x \in 1 .. upto - from : listed[x] = <<at[1], at[2], from + x>>
    OBVIOUS
  <2> HIDE DEF listed
  <2>2. ASSUME NEW x \in 1 .. upto - from PROVE listed[x] \in {<<at[1], at[2], y>> : y \in from + 1 .. upto}
    <3>1. from + x \in from + 1 .. upto
      BY <1>1
    <3> QED
      BY <2>1, <3>1
  <2>3. ASSUME NEW y \in from + 1 .. upto PROVE <<at[1], at[2], y>> \in ToSet(listed)
    <3>1. y - from \in 1 .. upto - from /\ from + (y - from) = y
      BY <1>1
    <3>2. listed[y - from] = <<at[1], at[2], y>>
      BY <2>1, <3>1
    <3> QED
      BY <2>1, <3>1, <3>2 DEF ToSet
  <2> QED
    BY <2>1, <2>2, <2>3 DEF ToSet
<1>4. head \in Seq(S) /\ ToSet(head) = {<<at[1], 0, 0>>}
  <2>1. <<at[1], 0, 0>> \in S
    OBVIOUS
  <2> HIDE DEF S
  <2> QED
    BY <2>1 DEF ToSet
<1> HIDE DEF S, listed, head
<1>5. CASE q.view = "outline" /\ from = 0
  <2>1. Shown(q, at, from, upto) = head \o listed
    BY <1>5 DEF Shown, head, listed
  <2>2. head \o listed \in Seq(S) /\ ToSet(head \o listed) = ToSet(head) \cup ToSet(listed)
    BY <1>2, <1>4, SetOfJoined
  <2> QED
    BY <1>3, <1>4, <1>5, <2>1, <2>2 DEF S, HeadOf, PartsOf
<1>6. CASE ~(q.view = "outline" /\ from = 0)
  <2>1. Shown(q, at, from, upto) = listed
    BY <1>6 DEF Shown, listed
  <2> QED
    BY <1>2, <1>3, <1>6, <2>1 DEF S, HeadOf, PartsOf
<1> QED
  BY <1>5, <1>6 DEF S

\* The first part a view shows of an item is numbered this.
FirstPart(q) == IF q.view = "outline" THEN 0 ELSE 1

\* What is shown of an item from its beginning shows nothing twice, and the parts in their order.
LEMMA ShownInOrder ==
  ASSUME NEW q, NEW at, NEW upto \in Nat,
         q.view = "outline" => at[2] = 0
  PROVE  Once(Shown(q, at, 0, upto)) /\ Steps(Shown(q, at, 0, upto), FirstPart(q))
<1> DEFINE s == Shown(q, at, 0, upto)
           listed == [x \in 1 .. upto - 0 |-> <<at[1], at[2], 0 + x>>]
           head == <<<<at[1], 0, 0>>>>
           S == {at[1]} \X {at[2], 0} \X Nat
<1>0. upto - 0 = upto /\ listed = [x \in 1 .. upto |-> <<at[1], at[2], x>>]
  OBVIOUS
<1>1. CASE q.view = "outline"
  <2> DEFINE d == [k \in 1 .. upto + 1 |-> <<at[1], 0, k - 1>>]
  <2>1. head \o [x \in 1 .. upto |-> <<at[1], 0, x>>] = d
    <3> DEFINE l == [x \in 1 .. upto |-> <<at[1], 0, x>>]
               T == {at[1]} \X {0} \X Nat
    <3>1. l \in Seq(T) /\ Len(l) = upto /\ head \in Seq(T) /\ Len(head) = 1 /\ head[1] = <<at[1], 0, 0>>
      <4>1. \A x \in 1 .. upto : <<at[1], 0, x>> \in T /\ <<at[1], 0, 0>> \in T
        OBVIOUS
      <4>2. <<at[1], 0, 0>> \in T
        OBVIOUS
      <4> HIDE DEF T
      <4> QED
        BY <4>1, <4>2
    <3>2. d \in Seq(T) /\ Len(d) = upto + 1
      <4>1. \A k \in 1 .. upto + 1 : <<at[1], 0, k - 1>> \in T
        OBVIOUS
      <4> HIDE DEF T
      <4> QED
        BY <4>1
    <3>3. \A x \in 1 .. upto : l[x] = <<at[1], 0, x>>
      OBVIOUS
    <3>4. \A k \in 1 .. upto + 1 : d[k] = <<at[1], 0, k - 1>>
      OBVIOUS
    <3> HIDE DEF l, d, head, T
    <3>5. /\ head \o l \in Seq(T) /\ Len(head \o l) = upto + 1
          /\ (head \o l)[1] = head[1] /\ \A x \in 1 .. upto : (head \o l)[x + 1] = l[x]
      <4>1. /\ head \o l \in Seq(T) /\ Len(head \o l) = Len(head) + Len(l)
            /\ \A k \in 1 .. Len(head) : (head \o l)[k] = head[k]
            /\ \A k \in 1 .. Len(l) : (head \o l)[Len(head) + k] = l[k]
        <5>1. head \in Seq(T) /\ l \in Seq(T)
          BY <3>1
        <5> QED
          BY ONLY <5>1, Concatenated
      <4>2. 1 \in 1 .. 1 /\ 1 + upto = upto + 1 /\ \A x \in 1 .. upto : 1 + x = x + 1
        OBVIOUS
      <4> QED
        BY <3>1, <4>1, <4>2
    <3>6. ASSUME NEW k \in 1 .. upto + 1 PROVE (head \o l)[k] = d[k]
      <4>1. CASE k = 1
        <5>1. 1 \in 1 .. upto + 1 /\ 1 - 1 = 0
          OBVIOUS
        <5>2. d[1] = <<at[1], 0, 0>>
          BY <3>4, <5>1
        <5> QED
          BY <3>1, <3>5, <4>1, <5>2
      <4>2. CASE k # 1
        <5>1. k - 1 \in 1 .. upto /\ (k - 1) + 1 = k
          BY <4>2
        <5>2. (head \o l)[k] = l[k - 1]
          BY <3>5, <5>1
        <5> QED
          BY <3>3, <3>4, <5>1, <5>2
      <4> QED
        BY <4>1, <4>2
    <3>7. Len(head \o l) = Len(d)
      BY <3>2, <3>5
    <3>8. \A k \in 1 .. Len(head \o l) : (head \o l)[k] = d[k]
      BY <3>5, <3>6
    <3> DEFINE c == head \o l
    <3>9. c \in Seq(T) /\ Len(c) = Len(d) /\ \A k \in 1 .. Len(c) : c[k] = d[k]
      BY <3>5, <3>7, <3>8
    <3> HIDE DEF c
    <3>10. c = d
      BY <3>2, <3>9, SeqEqual
    <3> QED
      BY <3>10 DEF c, l, d, head
  <2>2. s = d
    BY <1>0, <1>1, <2>1 DEF Shown
  <2>3. Len(d) = upto + 1 /\ \A k \in 1 .. upto + 1 : d[k] = <<at[1], 0, k - 1>>
    OBVIOUS
  <2> HIDE DEF d, s
  <2>4. Once(d)
    BY <2>3 DEF Once
  <2>5. Steps(d, 0)
    <3> SUFFICES ASSUME NEW k \in 1 .. upto + 1, d[k][3] > 0
                 PROVE  k > 1 /\ d[k - 1] = <<d[k][1], d[k][2], d[k][3] - 1>>
      BY <2>3 DEF Steps
    <3>1. d[k] = <<at[1], 0, k - 1>>
      BY <2>3
    <3>2. k > 1 /\ k - 1 \in 1 .. upto + 1
      BY <3>1
    <3>3. d[k - 1] = <<at[1], 0, (k - 1) - 1>>
      BY <2>3, <3>2
    <3> QED
      BY <3>1, <3>2, <3>3
  <2> QED
    BY <1>1, <2>2, <2>4, <2>5 DEF FirstPart, s
<1>2. CASE q.view # "outline"
  <2> DEFINE d == [x \in 1 .. upto |-> <<at[1], at[2], x>>]
  <2>1. s = d
    BY <1>0, <1>2 DEF Shown
  <2>2. Len(d) = upto /\ \A k \in 1 .. upto : d[k] = <<at[1], at[2], k>>
    OBVIOUS
  <2> HIDE DEF d, s
  <2>3. Once(d)
    BY <2>2 DEF Once
  <2>4. Steps(d, 1)
    <3> SUFFICES ASSUME NEW k \in 1 .. upto, d[k][3] > 1
                 PROVE  k > 1 /\ d[k - 1] = <<d[k][1], d[k][2], d[k][3] - 1>>
      BY <2>2 DEF Steps
    <3>1. d[k] = <<at[1], at[2], k>>
      BY <2>2
    <3>2. k > 1 /\ k - 1 \in 1 .. upto
      BY <3>1
    <3>3. d[k - 1] = <<at[1], at[2], k - 1>>
      BY <2>2, <3>2
    <3> QED
      BY <3>1, <3>2, <3>3
  <2> QED
    BY <1>2, <2>1, <2>3, <2>4 DEF FirstPart, s
<1> QED
  BY <1>1, <1>2

\* What is left of an item goes on where what was shown of it ends.
Begun(q, at, upto) == IF upto = 0 THEN <<>> ELSE Shown(q, at, 0, upto)

LEMMA GoesOn ==
  ASSUME NEW q, NEW at, NEW from \in Nat, NEW upto \in Nat, from <= upto
  PROVE  Begun(q, at, from) \o Shown(q, at, from, upto) = Shown(q, at, 0, upto)
<1> DEFINE S == {at[1]} \X {at[2], 0} \X Nat
           L(a, b) == [x \in 1 .. b - a |-> <<at[1], at[2], a + x>>]
           head == IF q.view = "outline" THEN <<<<at[1], 0, 0>>>> ELSE <<>>
<1>1. CASE from = 0
  <2>1. Shown(q, at, 0, upto) \in Seq(S)
    <3>1. 0 \in Nat /\ 0 <= upto
      OBVIOUS
    <3> QED
      BY <3>1, ShownFacts
  <2> HIDE DEF S
  <2> QED
    BY <1>1, <2>1 DEF Begun
<1>2. CASE from # 0
  <2>1. \A a \in Nat, b \in Nat : a <= b => L(a, b) \in Seq(S) /\ Len(L(a, b)) = b - a
    <3> SUFFICES ASSUME NEW a \in Nat, NEW b \in Nat, a <= b PROVE L(a, b) \in Seq(S) /\ Len(L(a, b)) = b - a
      OBVIOUS
    <3>1. \A x \in 1 .. b - a : <<at[1], at[2], a + x>> \in S
      OBVIOUS
    <3> HIDE DEF S
    <3> QED
      BY <3>1
  <2>2. head \in Seq(S)
    <3>1. <<at[1], 0, 0>> \in S
      OBVIOUS
    <3> HIDE DEF S
    <3> QED
      BY <3>1
  <2>3. \A a \in Nat, b \in Nat : a <= b => \A x \in 1 .. b - a : L(a, b)[x] = <<at[1], at[2], a + x>>
    OBVIOUS
  <2>4. /\ Shown(q, at, from, upto) = L(from, upto)
        /\ Begun(q, at, from) = head \o L(0, from)
        /\ Shown(q, at, 0, upto) = head \o L(0, upto)
    <3>1. L(0, from) \in Seq(S) /\ L(0, upto) \in Seq(S)
      BY <2>1
    <3>2. <<>> \o L(0, from) = L(0, from) /\ <<>> \o L(0, upto) = L(0, upto)
      <4> HIDE DEF L, S
      <4> QED
        BY <3>1
    <3> QED
      BY <1>2, <3>2 DEF Begun, Shown
  <2> HIDE DEF S, L, head
  <2>5. L(0, from) \o L(from, upto) = L(0, upto)
    <3> DEFINE x == L(0, from)
               y == L(from, upto)
               z == L(0, upto)
    <3>1. /\ x \in Seq(S) /\ y \in Seq(S) /\ z \in Seq(S)
          /\ Len(x) = from /\ Len(y) = upto - from /\ Len(z) = upto
      <4>1. 0 \in Nat /\ 0 <= from /\ 0 <= upto /\ from - 0 = from /\ upto - 0 = upto
        OBVIOUS
      <4> QED
        BY <2>1, <4>1
    <3>2. /\ \A k \in 1 .. from : x[k] = <<at[1], at[2], k>>
          /\ \A k \in 1 .. upto - from : y[k] = <<at[1], at[2], from + k>>
          /\ \A k \in 1 .. upto : z[k] = <<at[1], at[2], k>>
      <4>1. \A k \in 1 .. from : k \in 1 .. from - 0 /\ 0 + k = k
        OBVIOUS
      <4>2. \A k \in 1 .. upto : k \in 1 .. upto - 0 /\ 0 + k = k
        OBVIOUS
      <4>3. 0 <= from /\ 0 <= upto
        OBVIOUS
      <4>4. \A k \in 1 .. from : x[k] = <<at[1], at[2], 0 + k>>
        BY <2>3, <4>1, <4>3
      <4>5. \A k \in 1 .. upto : z[k] = <<at[1], at[2], 0 + k>>
        BY <2>3, <4>2, <4>3
      <4> QED
        BY <2>3, <4>1, <4>2, <4>4, <4>5
    <3> HIDE DEF x, y, z
    <3>3. /\ x \o y \in Seq(S) /\ Len(x \o y) = upto
          /\ \A k \in 1 .. from : (x \o y)[k] = x[k]
          /\ \A k \in 1 .. upto - from : (x \o y)[from + k] = y[k]
      <4>1. x \in Seq(S) /\ y \in Seq(S) /\ Len(x) = from /\ Len(y) = upto - from /\ from + (upto - from) = upto
        BY <3>1
      <4>2. /\ x \o y \in Seq(S) /\ Len(x \o y) = Len(x) + Len(y)
            /\ \A k \in 1 .. Len(x) : (x \o y)[k] = x[k]
            /\ \A k \in 1 .. Len(y) : (x \o y)[Len(x) + k] = y[k]
        <5>1. IsOver(x, S) /\ IsOver(y, S)
          BY <4>1 DEF IsOver
        <5>2. IsOver(x \o y, S) /\ Follow(x, y)
          BY ONLY <5>1, Joining
        <5> QED
          BY ONLY <5>2 DEF IsOver, Follow
      <4> QED
        BY ONLY <4>1, <4>2
    <3>4. ASSUME NEW k \in 1 .. upto PROVE (x \o y)[k] = z[k]
      <4>1. CASE k <= from
        <5>1. k \in 1 .. from
          BY <4>1
        <5> QED
          BY <3>2, <3>3, <5>1
      <4>2. CASE k > from
        <5>1. k - from \in 1 .. upto - from /\ from + (k - from) = k
          BY <4>2
        <5>2. (x \o y)[k] = y[k - from]
          BY <3>3, <5>1
        <5> QED
          BY <3>2, <5>1, <5>2
      <4>3. k <= from \/ k > from
        OBVIOUS
      <4> QED
        BY <4>1, <4>2, <4>3
    <3> QED
      BY <3>1, <3>3, <3>4, SeqEqual DEF x, y, z
  <2>6. L(0, from) \in Seq(S) /\ L(from, upto) \in Seq(S)
    BY <2>1
  <2> HIDE DEF S, head, L
  <2>7. (head \o L(0, from)) \o L(from, upto) = head \o (L(0, from) \o L(from, upto))
    <3>1. IsOver(head, S) /\ IsOver(L(0, from), S) /\ IsOver(L(from, upto), S)
      BY <2>2, <2>6 DEF IsOver
    <3>2. Regroup(head, L(0, from), L(from, upto))
      BY ONLY <3>1, Joining
    <3> QED
      BY ONLY <3>2 DEF Regroup
  <2> QED
    BY <2>4, <2>5, <2>7
<1> QED
  BY <1>1, <1>2

\* The files stand in the order of their risk, each of them once.
LEMMA RiskOrder ==
  ASSUME NEW files, NEW n \in Nat, DOMAIN files = 1 .. n,
         \A f \in 1 .. n : files[f].score \in Nat /\ files[f].path \in Nat
  PROVE  LET order == risk_order(files)
         IN  order \in Seq(1 .. n) /\ Len(order) = n /\ Once(order) /\ ToSet(order) = 1 .. n
<1> DEFINE P(a, b) == Precedes(files, a, b)
           Before(f) == {g \in 1 .. n : P(g, f)}
           rank == [f \in 1 .. n |-> Cardinality(Before(f))]
           order == [k \in 1 .. n |-> CHOOSE f \in 1 .. n : Cardinality(Before(f)) = k - 1]
<1>1. /\ \A a \in 1 .. n : ~P(a, a)
      /\ \A a, b \in 1 .. n : a # b => P(a, b) \/ P(b, a)
      /\ \A a, b, c \in 1 .. n : P(a, b) /\ P(b, c) => P(a, c)
  <2>1. PICK s \in [1 .. n -> Nat], p \in [1 .. n -> Nat] :
          \A f \in 1 .. n : s[f] = files[f].score /\ p[f] = files[f].path
    <3>1. [f \in 1 .. n |-> files[f].score] \in [1 .. n -> Nat] /\ [f \in 1 .. n |-> files[f].path] \in [1 .. n -> Nat]
      OBVIOUS
    <3> QED
      BY <3>1
  <2>2. \A a, b \in 1 .. n : P(a, b) <=> \/ s[a] > s[b]
                                         \/ s[a] = s[b] /\ p[a] < p[b]
                                         \/ s[a] = s[b] /\ p[a] = p[b] /\ a < b
    BY <2>1 DEF Precedes
  <2> HIDE DEF P
  <2>3. \A a \in 1 .. n : ~P(a, a)
    BY <2>2
  <2>4. ASSUME NEW a \in 1 .. n, NEW b \in 1 .. n, a # b PROVE P(a, b) \/ P(b, a)
    <3>1. s[a] \in Nat /\ s[b] \in Nat /\ p[a] \in Nat /\ p[b] \in Nat /\ a \in Nat /\ b \in Nat
      OBVIOUS
    <3>2. s[a] > s[b] \/ s[b] > s[a] \/ s[a] = s[b]
      BY ONLY <3>1
    <3>3. p[a] < p[b] \/ p[b] < p[a] \/ p[a] = p[b]
      BY ONLY <3>1
    <3>4. a < b \/ b < a
      BY ONLY <2>4, <3>1
    <3> QED
      BY <2>2, <3>2, <3>3, <3>4
  <2>5. ASSUME NEW a \in 1 .. n, NEW b \in 1 .. n, NEW c \in 1 .. n, P(a, b), P(b, c) PROVE P(a, c)
    <3>1. /\ s[a] \in Nat /\ s[b] \in Nat /\ s[c] \in Nat /\ p[a] \in Nat /\ p[b] \in Nat /\ p[c] \in Nat
          /\ a \in Nat /\ b \in Nat /\ c \in Nat
      OBVIOUS
    <3>2. s[a] > s[b] \/ (s[a] = s[b] /\ p[a] < p[b]) \/ (s[a] = s[b] /\ p[a] = p[b] /\ a < b)
      BY <2>2, <2>5
    <3>3. s[b] > s[c] \/ (s[b] = s[c] /\ p[b] < p[c]) \/ (s[b] = s[c] /\ p[b] = p[c] /\ b < c)
      BY <2>2, <2>5
    <3>4. s[a] > s[c] \/ (s[a] = s[c] /\ p[a] < p[c]) \/ (s[a] = s[c] /\ p[a] = p[c] /\ a < c)
      BY <3>1, <3>2, <3>3
    <3> QED
      BY <2>2, <3>4
  <2> QED
    BY <2>3, <2>4, <2>5
<1> HIDE DEF P
<1>2. IsFiniteSet(1 .. n) /\ Cardinality(1 .. n) = n
  BY FS_Interval
<1>3. \A f \in 1 .. n : IsFiniteSet(Before(f)) /\ Cardinality(Before(f)) \in Nat
  <2> SUFFICES ASSUME NEW f \in 1 .. n PROVE IsFiniteSet(Before(f)) /\ Cardinality(Before(f)) \in Nat
    OBVIOUS
  <2>1. Before(f) \subseteq 1 .. n
    OBVIOUS
  <2> QED
    BY <1>2, <2>1, FS_Subset, FS_CardinalityType
<1>4. \A a, b \in 1 .. n : P(a, b) => Cardinality(Before(a)) < Cardinality(Before(b))
  <2> SUFFICES ASSUME NEW a \in 1 .. n, NEW b \in 1 .. n, P(a, b)
               PROVE  Cardinality(Before(a)) < Cardinality(Before(b))
    OBVIOUS
  <2>1. Before(a) \subseteq Before(b) /\ a \in Before(b) /\ a \notin Before(a)
    BY <1>1
  <2>2. Cardinality(Before(a)) <= Cardinality(Before(b)) /\ Cardinality(Before(a)) # Cardinality(Before(b))
    BY <1>3, <2>1, FS_Subset
  <2>3. PICK x \in Nat, y \in Nat : x = Cardinality(Before(a)) /\ y = Cardinality(Before(b))
    BY <1>3
  <2> QED
    BY <2>2, <2>3
<1>5. \A f \in 1 .. n : Cardinality(Before(f)) \in 0 .. n - 1
  <2> SUFFICES ASSUME NEW f \in 1 .. n PROVE Cardinality(Before(f)) \in 0 .. n - 1
    OBVIOUS
  <2>1. Before(f) \subseteq 1 .. n /\ f \notin Before(f) /\ f \in 1 .. n
    BY <1>1
  <2> DEFINE B == Before(f)
  <2> HIDE DEF B
  <2>2. B \subseteq 1 .. n /\ B # 1 .. n /\ Cardinality(B) \in Nat
    BY <1>3, <2>1 DEF B
  <2>3. Cardinality(B) <= n /\ Cardinality(B) # n
    BY <1>2, <2>2, FS_Subset
  <2>4. PICK x \in Nat : x = Cardinality(B)
    BY <2>2
  <2>5. x \in 0 .. n - 1
    BY <2>3, <2>4
  <2> QED
    BY <2>4, <2>5 DEF B
<1>6. \A a, b \in 1 .. n : Cardinality(Before(a)) = Cardinality(Before(b)) => a = b
  <2> SUFFICES ASSUME NEW a \in 1 .. n, NEW b \in 1 .. n, Cardinality(Before(a)) = Cardinality(Before(b)), a # b
               PROVE  FALSE
    OBVIOUS
  <2>1. P(a, b) \/ P(b, a)
    BY <1>1
  <2>2. Cardinality(Before(a)) < Cardinality(Before(b)) \/ Cardinality(Before(b)) < Cardinality(Before(a))
    BY <1>4, <2>1
  <2>3. PICK x \in Nat, y \in Nat : x = Cardinality(Before(a)) /\ y = Cardinality(Before(b))
    BY <1>3
  <2> QED
    BY <2>2, <2>3
<1> HIDE DEF Before
<1>7. rank \in Injection(1 .. n, 0 .. n - 1)
  BY <1>5, <1>6 DEF Injection, IsInjective
<1>8. rank \in Surjection(1 .. n, 0 .. n - 1)
  <2>1. IsFiniteSet(0 .. n - 1) /\ Cardinality(0 .. n - 1) = n
    <3>1. IsFiniteSet(0 .. n - 1) /\ Cardinality(0 .. n - 1) = IF 0 > n - 1 THEN 0 ELSE (n - 1) - 0 + 1
      BY FS_Interval
    <3> QED
      BY <3>1
  <2> HIDE DEF rank
  <2> QED
    BY <1>2, <1>7, <2>1, FS_Injection
<1>9. \A k \in 1 .. n : \E f \in 1 .. n : Cardinality(Before(f)) = k - 1
  <2> SUFFICES ASSUME NEW k \in 1 .. n PROVE \E f \in 1 .. n : Cardinality(Before(f)) = k - 1
    OBVIOUS
  <2>1. k - 1 \in 0 .. n - 1
    OBVIOUS
  <2>2. PICK f \in 1 .. n : rank[f] = k - 1
    BY <1>8, <2>1 DEF Surjection
  <2> QED
    BY <2>2
<1>10. \A k \in 1 .. n : order[k] \in 1 .. n /\ Cardinality(Before(order[k])) = k - 1
  <2> SUFFICES ASSUME NEW k \in 1 .. n PROVE order[k] \in 1 .. n /\ Cardinality(Before(order[k])) = k - 1
    OBVIOUS
  <2> QED
    BY <1>9
<1>11. risk_order(files) = order
  BY DEF risk_order, Before, P
<1>12. order = [k \in 1 .. n |-> order[k]]
  OBVIOUS
<1> HIDE DEF order
<1>13. order \in [1 .. n -> 1 .. n]
  BY <1>10, <1>12
<1>14. order \in Seq(1 .. n) /\ Len(order) = n
  BY <1>13
<1>15. \A a, b \in 1 .. n : order[a] = order[b] => a = b
  BY <1>10
<1>16. ToSet(order) = 1 .. n
  <2>1. order \in Injection(1 .. n, 1 .. n)
    BY <1>13, <1>15 DEF Injection, IsInjective
  <2>2. order \in Surjection(1 .. n, 1 .. n)
    BY <1>2, <2>1, FS_Injection
  <2> QED
    BY <1>13, <2>2 DEF Surjection, ToSet
<1> QED
  BY <1>11, <1>14, <1>15, <1>16 DEF Once

\* Sequences that hold nothing twice and share nothing, joined.
Holds(ss, T) == \A k \in 1 .. Len(ss) : Once(ss[k]) /\ ToSet(ss[k]) = T[k]
Disjoint(T, n) == \A k, l \in 1 .. n : k # l => T[k] \cap T[l] = {}
Joint(T, n) == UNION {T[k] : k \in 1 .. n}
Lists(s, S, T) == s \in Seq(S) /\ Once(s) /\ ToSet(s) = T

LEMMA Gathered ==
  ASSUME NEW S, NEW ss \in Seq(Seq(S)), NEW T, Holds(ss, T), Disjoint(T, Len(ss))
  PROVE  Lists(FlattenSeq(ss), S, Joint(T, Len(ss)))
<1> USE DEF Holds, Disjoint, Lists, Joint
<1>1. Apart(ss)
  BY DEF Apart
<1>2. /\ ToSet(FlattenSeq(ss)) = UNION {ToSet(ss[k]) : k \in 1 .. Len(ss)}
      /\ Once(FlattenSeq(ss))
  BY <1>1, FlattenedRange
<1>3. {ToSet(ss[k]) : k \in 1 .. Len(ss)} = {T[k] : k \in 1 .. Len(ss)}
  OBVIOUS
<1> QED
  BY <1>2, <1>3, FlattenedType

\* Some of the elements of a sequence.
LEMMA Picked ==
  ASSUME NEW S, NEW n \in Nat, NEW x \in [1 .. n -> S], NEW K \in SUBSET (1 .. n),
         \A k, l \in K : x[k] = x[l] => k = l
  PROVE  Lists(FlattenSeq([k \in 1 .. n |-> IF k \in K THEN <<x[k]>> ELSE <<>>]), S, {x[k] : k \in K})
<1> DEFINE ss == [k \in 1 .. n |-> IF k \in K THEN <<x[k]>> ELSE <<>>]
           T == [k \in 1 .. n |-> IF k \in K THEN {x[k]} ELSE {}]
<1>1. \A k \in 1 .. n : <<x[k]>> \in Seq(S) /\ <<>> \in Seq(S)
  OBVIOUS
<1>2. ss \in Seq(Seq(S)) /\ Len(ss) = n /\ \A k \in 1 .. n : ss[k] = IF k \in K THEN <<x[k]>> ELSE <<>>
  <2>1. \A k \in 1 .. n : (IF k \in K THEN <<x[k]>> ELSE <<>>) \in Seq(S)
    BY <1>1
  <2> QED
    BY <2>1
<1>3. \A k \in 1 .. n : T[k] = IF k \in K THEN {x[k]} ELSE {}
  OBVIOUS
<1> HIDE DEF ss, T
<1>4. ASSUME NEW k \in 1 .. n PROVE Once(ss[k]) /\ ToSet(ss[k]) = T[k]
  <2>1. CASE k \in K
    <3>1. ss[k] = <<x[k]>> /\ T[k] = {x[k]}
      BY <1>2, <1>3, <2>1
    <3>2. Once(<<x[k]>>) /\ ToSet(<<x[k]>>) = {x[k]}
      BY DEF Once, ToSet
    <3> QED
      BY <3>1, <3>2
  <2>2. CASE k \notin K
    <3>1. ss[k] = <<>> /\ T[k] = {}
      BY <1>2, <1>3, <2>2
    <3>2. Once(<<>>) /\ ToSet(<<>>) = {}
      BY DEF Once, ToSet
    <3> QED
      BY <3>1, <3>2
  <2> QED
    BY <2>1, <2>2
<1>5. ASSUME NEW k \in 1 .. n, NEW l \in 1 .. n, k # l PROVE T[k] \cap T[l] = {}
  <2> SUFFICES ASSUME NEW y \in T[k], y \in T[l] PROVE FALSE
    OBVIOUS
  <2>1. k \in K /\ y = x[k]
    BY <1>3
  <2>2. l \in K /\ y = x[l]
    BY <1>3
  <2> QED
    BY <1>5, <2>1, <2>2
<1>6. UNION {T[k] : k \in 1 .. n} = {x[k] : k \in K}
  <2>1. ASSUME NEW k \in 1 .. n, NEW y \in T[k] PROVE y \in {x[j] : j \in K}
    <3>1. k \in K /\ y = x[k]
      BY <1>3, <2>1
    <3> QED
      BY <3>1
  <2>2. ASSUME NEW k \in K PROVE k \in 1 .. n /\ x[k] \in T[k]
    <3>1. k \in 1 .. n
      OBVIOUS
    <3> QED
      BY <1>3, <3>1
  <2> QED
    BY <2>1, <2>2
<1>7. Lists(FlattenSeq(ss), S, Joint(T, Len(ss)))
  <2>1. Holds(ss, T)
    BY <1>2, <1>4 DEF Holds
  <2>2. Disjoint(T, Len(ss))
    BY <1>2, <1>5 DEF Disjoint
  <2>3. ss \in Seq(Seq(S))
    BY <1>2
  <2> QED
    BY <2>1, <2>2, <2>3, Gathered
<1> QED
  BY <1>2, <1>6, <1>7 DEF ss, Joint

LEMMA DistinctFacts ==
  ASSUME NEW S, NEW s \in Seq(S)
  PROVE  Lists(Distinct(s), S, ToSet(s))
<1> DEFINE n == Len(s)
           K == {k \in 1 .. n : ~\E j \in 1 .. k - 1 : s[j] = s[k]}
           ss == [k \in 1 .. n |-> IF k \in K THEN <<s[k]>> ELSE <<>>]
<1>1. n \in Nat /\ DOMAIN s = 1 .. n /\ s \in [1 .. n -> S] /\ K \in SUBSET (1 .. n)
  OBVIOUS
<1>2. Distinct(s) = FlattenSeq(ss)
  <2>1. [k \in DOMAIN s |-> IF \E j \in 1 .. k - 1 : s[j] = s[k] THEN <<>> ELSE <<s[k]>>] = ss
    BY <1>1
  <2> QED
    BY <2>1 DEF Distinct
<1>3. ASSUME NEW k \in K, NEW l \in K, s[k] = s[l] PROVE k = l
  <2>1. k \in 1 .. n /\ l \in 1 .. n
    OBVIOUS
  <2>2. ~(k < l)
    <3>1. k < l => k \in 1 .. l - 1
      BY <2>1
    <3> QED
      BY <1>3, <3>1
  <2>3. ~(l < k)
    <3>1. l < k => l \in 1 .. k - 1
      BY <2>1
    <3> QED
      BY <1>3, <3>1
  <2> HIDE DEF n, K
  <2> QED
    BY <2>1, <2>2, <2>3
<1>4. {s[k] : k \in K} = ToSet(s)
  <2>1. ASSUME NEW k \in 1 .. n PROVE \E j \in K : s[j] = s[k]
    <3> DEFINE T == {j \in 1 .. n : s[j] = s[k]}
    <3>1. T \in SUBSET Nat /\ T # {}
      BY <1>1
    <3>2. PICK j \in T : \A m \in T : j <= m
      BY <3>1, LeastOfSet
    <3>3. ~\E m \in 1 .. j - 1 : s[m] = s[j]
      <4> SUFFICES ASSUME NEW m \in 1 .. j - 1, s[m] = s[j] PROVE FALSE
        OBVIOUS
      <4>1. j \in 1 .. n /\ s[j] = s[k]
        OBVIOUS
      <4>2. m \in 1 .. n /\ ~(j <= m)
        BY <1>1, <4>1
      <4> QED
        BY <3>2, <4>1, <4>2
    <3> QED
      BY <3>3
  <2>2. \A j \in K : j \in 1 .. n
    OBVIOUS
  <2> HIDE DEF K, n
  <2> QED
    BY <1>1, <2>1, <2>2 DEF ToSet
<1> HIDE DEF n, K
<1>5. \A k, l \in K : s[k] = s[l] => k = l
  BY <1>3
<1>6. Lists(FlattenSeq(ss), S, {s[k] : k \in K})
  BY <1>1, <1>5, Picked
<1> QED
  BY <1>2, <1>4, <1>6

\* A review of a patch: files with their hunks, hunks with their lines.
IsFile(file) ==
  /\ file.path \in Nat /\ file.score \in Nat /\ file.size \in Nat \ {0}
  /\ Len(file.hunks) \in Nat /\ DOMAIN file.hunks = 1 .. Len(file.hunks)
  /\ \A h \in 1 .. Len(file.hunks) :
       file.hunks[h].size \in Nat \ {0} /\ file.hunks[h].lines \in Seq(Nat) /\ Len(file.hunks[h].lines) > 0
IsReview(files) ==
  /\ Len(files) \in Nat /\ DOMAIN files = 1 .. Len(files)
  /\ \A f \in 1 .. Len(files) : IsFile(files[f])
Units == Nat \X Nat

LEMMA FilesAreReview ==
  ASSUME NEW p \in DOMAIN Patches
  PROVE  IsReview(Files(p))
<1> DEFINE files == Files(p)
<1>1. files \in Seq(ToSet(files)) /\ \A file \in ToSet(files) :
             /\ file.path \in Nat /\ file.score \in Nat /\ file.size \in Nat \ {0}
             /\ file.hunks \in Seq(ToSet(file.hunks))
             /\ \A hunk \in ToSet(file.hunks) :
                  hunk.size \in Nat \ {0} /\ hunk.lines \in Seq(Nat) \ {<<>>}
  BY ReviewsAreFiles DEF Files
<1> HIDE DEF files
<1>2. Len(files) \in Nat /\ DOMAIN files = 1 .. Len(files)
  BY <1>1
<1>3. \A f \in 1 .. Len(files) : files[f] \in ToSet(files)
  BY <1>2 DEF ToSet
<1>4. ASSUME NEW f \in 1 .. Len(files) PROVE IsFile(files[f])
  <2> DEFINE file == files[f]
  <2>1. /\ file.path \in Nat /\ file.score \in Nat /\ file.size \in Nat \ {0}
        /\ file.hunks \in Seq(ToSet(file.hunks))
        /\ \A hunk \in ToSet(file.hunks) :
             hunk.size \in Nat \ {0} /\ hunk.lines \in Seq(Nat) \ {<<>>}
    BY <1>1, <1>3
  <2> DEFINE hunks == file.hunks
  <2> HIDE DEF file, hunks
  <2>2. Len(hunks) \in Nat /\ DOMAIN hunks = 1 .. Len(hunks)
    BY <2>1 DEF hunks
  <2>3. \A h \in 1 .. Len(hunks) : hunks[h] \in ToSet(hunks)
    BY <2>2 DEF ToSet
  <2>4. ASSUME NEW h \in 1 .. Len(hunks)
        PROVE  hunks[h].size \in Nat \ {0} /\ hunks[h].lines \in Seq(Nat) /\ Len(hunks[h].lines) > 0
    <3>1. hunks[h].size \in Nat \ {0} /\ hunks[h].lines \in Seq(Nat) \ {<<>>}
      BY <2>1, <2>3 DEF hunks
    <3>2. PICK l \in Seq(Nat) : l = hunks[h].lines /\ l # <<>>
      BY <3>1
    <3>3. Len(l) > 0
      BY <3>2
    <3> QED
      BY <3>1, <3>2, <3>3
  <2> QED
    BY <2>1, <2>2, <2>4 DEF IsFile, file, hunks
<1> QED
  BY <1>2, <1>4 DEF IsReview, files

\* The hunks of a file.
OfFile(files, f) == {f} \X (1 .. Len(files[f].hunks))

LEMMA HunksOfFile ==
  ASSUME NEW files, IsReview(files), NEW f \in 1 .. Len(files)
  PROVE  Lists(HunksOf(files, f), Units, OfFile(files, f))
<1> DEFINE m == Len(files[f].hunks)
           hunks == [h \in 1 .. m |-> <<f, h>>]
<1>1. m \in Nat /\ DOMAIN files[f].hunks = 1 .. m /\ f \in Nat
  BY DEF IsReview, IsFile
<1>2. HunksOf(files, f) = hunks
  BY <1>1 DEF HunksOf
<1> HIDE DEF m
<1>3. hunks \in Seq(Units) /\ Len(hunks) = m /\ DOMAIN hunks = 1 .. m
  <2>1. \A h \in 1 .. m : <<f, h>> \in Units
    BY <1>1 DEF Units
  <2> QED
    BY <1>1, <2>1
<1>4. \A h \in 1 .. m : hunks[h] = <<f, h>>
  OBVIOUS
<1> HIDE DEF hunks
<1>5. Once(hunks)
  BY <1>3, <1>4 DEF Once
<1>6. ToSet(hunks) = {f} \X (1 .. m)
  <2>1. ASSUME NEW h \in 1 .. m PROVE hunks[h] \in {f} \X (1 .. m)
    <3>1. <<f, h>> \in {f} \X (1 .. m) /\ hunks[h] = <<f, h>>
      BY <1>4
    <3> QED
      BY <3>1
  <2>2. ASSUME NEW u \in {f} \X (1 .. m) PROVE \E h \in 1 .. m : u = hunks[h]
    <3>1. u[2] \in 1 .. m /\ u = <<f, u[2]>>
      OBVIOUS
    <3>2. hunks[u[2]] = <<f, u[2]>>
      BY <1>4, <3>1
    <3> QED
      BY <3>1, <3>2
  <2>3. ToSet(hunks) = {hunks[h] : h \in 1 .. m}
    BY <1>3 DEF ToSet
  <2> QED
    BY <2>1, <2>2, <2>3
<1> QED
  BY <1>2, <1>3, <1>5, <1>6 DEF Lists, OfFile, m

\* The hunks of all files.
LEMMA HunksOfAll ==
  ASSUME NEW files, IsReview(files)
  PROVE  /\ AllHunks(files) = Joint([f \in 1 .. Len(files) |-> OfFile(files, f)], Len(files))
         /\ AllHunks(files) \subseteq Units
         /\ \A u \in AllHunks(files) : u[1] \in 1 .. Len(files) /\ u[2] \in 1 .. Len(files[u[1]].hunks)
<1> DEFINE n == Len(files)
           m(f) == Len(files[f].hunks)
           T == [f \in 1 .. n |-> {f} \X (1 .. m(f))]
<1>1. n \in Nat /\ DOMAIN files = 1 .. n /\ \A f \in 1 .. n : m(f) \in Nat /\ DOMAIN files[f].hunks = 1 .. m(f)
  BY DEF IsReview, IsFile
<1>2. T = [f \in 1 .. n |-> OfFile(files, f)]
  BY DEF OfFile
<1>3. \A f \in 1 .. n : T[f] = {f} \X (1 .. m(f))
  OBVIOUS
<1>4. AllHunks(files) = UNION {T[f] : f \in 1 .. n}
  BY <1>1, <1>3 DEF AllHunks
<1> HIDE DEF n, m, T
<1>5. ASSUME NEW u \in AllHunks(files) PROVE u \in Units /\ u[1] \in 1 .. n /\ u[2] \in 1 .. m(u[1])
  <2>1. PICK f \in 1 .. n : u \in {f} \X (1 .. m(f))
    BY <1>3, <1>4
  <2> QED
    BY <1>1, <2>1 DEF Units
<1> QED
  BY <1>2, <1>4, <1>5 DEF Joint, n, m

\* Some of the hunks of each file, joined in the order of the files.
LEMMA FromFiles ==
  ASSUME NEW files, IsReview(files), NEW P, NEW ss \in Seq(Seq(Units)), Len(ss) = Len(files),
         \A f \in 1 .. Len(files) : Lists(ss[f], Units, OfFile(files, f) \cap P)
  PROVE  Lists(FlattenSeq(ss), Units, AllHunks(files) \cap P)
<1> DEFINE n == Len(files)
           T == [f \in 1 .. n |-> OfFile(files, f) \cap P]
           O == [f \in 1 .. n |-> OfFile(files, f)]
<1>1. \A f \in 1 .. n : T[f] = OfFile(files, f) \cap P /\ O[f] = OfFile(files, f)
  OBVIOUS
<1>2. AllHunks(files) = Joint(O, n)
  BY HunksOfAll
<1> HIDE DEF n, T, O
<1>3. Holds(ss, T)
  BY <1>1 DEF Holds, Lists, n
<1>4. Disjoint(T, Len(ss))
  <2> SUFFICES ASSUME NEW f \in 1 .. n, NEW g \in 1 .. n, f # g, NEW u \in T[f], u \in T[g] PROVE FALSE
    BY DEF Disjoint, n
  <2>1. u \in OfFile(files, f) /\ u \in OfFile(files, g)
    BY <1>1
  <2>2. u[1] = f /\ u[1] = g
    BY <2>1 DEF OfFile
  <2> QED
    BY <2>2
<1>5. Joint(T, n) = AllHunks(files) \cap P
  <2>1. \A f \in 1 .. n : T[f] = O[f] \cap P
    BY <1>1
  <2> QED
    BY <1>2, <2>1 DEF Joint
<1>6. Lists(FlattenSeq(ss), Units, Joint(T, Len(ss)))
  BY <1>3, <1>4, Gathered
<1> QED
  BY <1>5, <1>6 DEF n

\* The hunks with an address, and those of the files with a path.
At(files, a) == {u \in Units : files[u[1]].hunks[u[2]].address = a}
Under(files, p) == {u \in Units : files[u[1]].path = p}

LEMMA ByAddress ==
  ASSUME NEW files, IsReview(files), NEW a
  PROVE  Lists(hunks_by_address(files, a), Units, AllHunks(files) \cap At(files, a))
<1> DEFINE n == Len(files)
           m(f) == Len(files[f].hunks)
           K(f) == {h \in 1 .. m(f) : files[f].hunks[h].address = a}
           x(f) == [h \in 1 .. m(f) |-> <<f, h>>]
           In1(f) == FlattenSeq([h \in 1 .. m(f) |-> IF h \in K(f) THEN <<x(f)[h]>> ELSE <<>>])
           ss == [f \in 1 .. n |-> In1(f)]
<1>1. n \in Nat /\ DOMAIN files = 1 .. n /\ \A f \in 1 .. n : m(f) \in Nat /\ DOMAIN files[f].hunks = 1 .. m(f)
  BY DEF IsReview, IsFile
<1>2. ASSUME NEW f \in 1 .. n
      PROVE  In1(f) = FlattenSeq([h \in DOMAIN files[f].hunks |-> IF files[f].hunks[h].address = a THEN <<<<f, h>>>> ELSE <<>>])
  <2>1. DOMAIN files[f].hunks = 1 .. m(f)
    BY <1>1
  <2>2. [h \in 1 .. m(f) |-> IF h \in K(f) THEN <<x(f)[h]>> ELSE <<>>]
          = [h \in DOMAIN files[f].hunks |-> IF files[f].hunks[h].address = a THEN <<<<f, h>>>> ELSE <<>>]
    BY <2>1
  <2> QED
    BY <2>2
<1>3. hunks_by_address(files, a) = FlattenSeq(ss)
  <2>1. ss = [f \in DOMAIN files |->
               FlattenSeq([h \in DOMAIN files[f].hunks |-> IF files[f].hunks[h].address = a THEN <<<<f, h>>>> ELSE <<>>])]
    <3> HIDE DEF In1
    <3> QED
      BY <1>1, <1>2
  <2> QED
    BY <2>1 DEF hunks_by_address
<1>4. ASSUME NEW f \in 1 .. n PROVE Lists(In1(f), Units, OfFile(files, f) \cap At(files, a))
  <2>1. x(f) \in [1 .. m(f) -> Units] /\ K(f) \in SUBSET (1 .. m(f)) /\ m(f) \in Nat
    BY <1>1 DEF Units
  <2>2. \A k, l \in K(f) : x(f)[k] = x(f)[l] => k = l
    OBVIOUS
  <2>3. \A h \in 1 .. m(f) : x(f)[h] = <<f, h>>
    OBVIOUS
  <2>4. {x(f)[h] : h \in K(f)} = OfFile(files, f) \cap At(files, a)
    <3>1. ASSUME NEW h \in K(f) PROVE x(f)[h] \in OfFile(files, f) /\ x(f)[h] \in At(files, a)
      <4>1. h \in 1 .. m(f) /\ files[f].hunks[h].address = a /\ x(f)[h] = <<f, h>>
        OBVIOUS
      <4>2. <<f, h>>[1] = f /\ <<f, h>>[2] = h /\ <<f, h>> \in Units
        BY <1>1, <4>1 DEF Units
      <4> HIDE DEF x, K
      <4> QED
        BY <4>1, <4>2 DEF OfFile, At
    <3>2. ASSUME NEW u \in OfFile(files, f), u \in At(files, a) PROVE \E h \in K(f) : u = x(f)[h]
      <4>1. u[2] \in 1 .. m(f) /\ u = <<f, u[2]>> /\ u[1] = f
        BY DEF OfFile
      <4>2. files[f].hunks[u[2]].address = a
        BY <3>2, <4>1 DEF At
      <4>3. u[2] \in K(f) /\ x(f)[u[2]] = <<f, u[2]>>
        BY <4>1, <4>2
      <4> QED
        BY <4>1, <4>3
    <3> HIDE DEF x, K
    <3> QED
      BY <3>1, <3>2
  <2> DEFINE X == x(f)
             S == K(f)
             l == m(f)
  <2>5. /\ In1(f) = FlattenSeq([h \in 1 .. l |-> IF h \in S THEN <<X[h]>> ELSE <<>>])
        /\ {X[h] : h \in S} = OfFile(files, f) \cap At(files, a)
    BY <2>4
  <2>6. X \in [1 .. l -> Units] /\ S \in SUBSET (1 .. l) /\ l \in Nat /\ \A j, k \in S : X[j] = X[k] => j = k
    BY <2>1, <2>2
  <2> HIDE DEF X, S, l, In1
  <2>7. Lists(FlattenSeq([h \in 1 .. l |-> IF h \in S THEN <<X[h]>> ELSE <<>>]), Units, {X[h] : h \in S})
    BY <2>6, Picked
  <2> QED
    BY <2>5, <2>7
<1> HIDE DEF In1
<1>5. ss \in Seq(Seq(Units)) /\ Len(ss) = n /\ \A f \in 1 .. n : ss[f] = In1(f)
  <2>1. \A f \in 1 .. n : In1(f) \in Seq(Units)
    BY <1>4 DEF Lists
  <2> QED
    BY <1>1, <2>1
<1> HIDE DEF ss
<1>6. \A f \in 1 .. Len(files) : Lists(ss[f], Units, OfFile(files, f) \cap At(files, a))
  BY <1>4, <1>5
<1> QED
  BY <1>3, <1>5, <1>6, FromFiles

LEMMA OfPath ==
  ASSUME NEW files, IsReview(files), NEW p
  PROVE  Lists(ByPath(files, p), Units, AllHunks(files) \cap Under(files, p))
<1> DEFINE n == Len(files)
           ss == [f \in 1 .. n |-> IF files[f].path = p THEN HunksOf(files, f) ELSE <<>>]
<1>1. n \in Nat /\ DOMAIN files = 1 .. n
  BY DEF IsReview
<1>2. ByPath(files, p) = FlattenSeq(ss)
  BY <1>1 DEF ByPath
<1>3. ASSUME NEW f \in 1 .. n PROVE Lists(ss[f], Units, OfFile(files, f) \cap Under(files, p))
  <2>1. \A u \in OfFile(files, f) : u[1] = f
    BY DEF OfFile
  <2>2. Lists(HunksOf(files, f), Units, OfFile(files, f))
    BY HunksOfFile
  <2>3. OfFile(files, f) \subseteq Units
    <3>1. \A h \in 1 .. Len(files[f].hunks) : h \in Nat
      BY DEF IsReview, IsFile
    <3> QED
      BY <1>1, <3>1 DEF OfFile, Units
  <2>4. CASE files[f].path = p
    <3>1. OfFile(files, f) \cap Under(files, p) = OfFile(files, f)
      BY <2>1, <2>3, <2>4 DEF Under
    <3> QED
      BY <2>2, <2>4, <3>1
  <2>5. CASE files[f].path # p
    <3>1. OfFile(files, f) \cap Under(files, p) = {}
      BY <2>1, <2>5 DEF Under
    <3>2. Lists(<<>>, Units, {})
      BY DEF Lists, Once, ToSet
    <3> QED
      BY <2>5, <3>1, <3>2
  <2> QED
    BY <2>4, <2>5
<1>4. ss \in Seq(Seq(Units)) /\ Len(ss) = n
  <2>1. \A f \in 1 .. n : ss[f] \in Seq(Units)
    BY <1>3 DEF Lists
  <2>2. ss = [f \in 1 .. n |-> ss[f]]
    OBVIOUS
  <2> HIDE DEF ss
  <2>3. ss \in [1 .. n -> Seq(Units)]
    BY <2>1, <2>2
  <2> QED
    BY <1>1, <2>3
<1> HIDE DEF ss
<1> QED
  BY <1>2, <1>3, <1>4, FromFiles

\* The hunks that each of several names selects, joined: no two names select the same.
LEMMA ByNames ==
  ASSUME NEW files, NEW n \in Nat, NEW ss \in Seq(Seq(Units)), Len(ss) = n, NEW P,
         \A k \in 1 .. n : Lists(ss[k], Units, AllHunks(files) \cap P[k]), Disjoint(P, n)
  PROVE  Lists(FlattenSeq(ss), Units, AllHunks(files) \cap Joint(P, n))
<1> DEFINE T == [k \in 1 .. n |-> AllHunks(files) \cap P[k]]
<1>1. \A k \in 1 .. n : T[k] = AllHunks(files) \cap P[k]
  OBVIOUS
<1> HIDE DEF T
<1>2. Holds(ss, T)
  BY <1>1 DEF Holds, Lists
<1>3. Disjoint(T, Len(ss))
  <2> SUFFICES ASSUME NEW k \in 1 .. n, NEW l \in 1 .. n, k # l, NEW u \in T[k], u \in T[l] PROVE FALSE
    BY DEF Disjoint
  <2>1. u \in P[k] \cap P[l]
    BY <1>1
  <2> QED
    BY <2>1 DEF Disjoint
<1>4. Joint(T, n) = AllHunks(files) \cap Joint(P, n)
  <2>1. \A u : u \in Joint(T, n) <=> \E k \in 1 .. n : u \in T[k]
    BY DEF Joint
  <2>2. \A u : u \in Joint(P, n) <=> \E k \in 1 .. n : u \in P[k]
    BY DEF Joint
  <2> QED
    BY <1>1, <2>1, <2>2
<1>5. Lists(FlattenSeq(ss), Units, Joint(T, Len(ss)))
  BY <1>2, <1>3, Gathered
<1> QED
  BY <1>4, <1>5

\* A selection as a request can hold it.
IsSelection(sel) == sel = All \/ (sel.by \in {"addresses", "paths"} /\ \E S : sel.names \in Seq(S))

\* A selection is the hunks it selects, each of them once.
LEMMA SelectFacts ==
  ASSUME NEW files, IsReview(files), NEW sel, IsSelection(sel)
  PROVE  Lists(select(files, sel), Units, {u \in AllHunks(files) : Selected(files, sel, u)})
<1>1. Len(files) \in Nat /\ DOMAIN files = 1 .. Len(files) /\ AllHunks(files) \subseteq Units
  BY HunksOfAll DEF IsReview
<1>2. CASE sel = All
  <2> DEFINE n == Len(files)
             order == risk_order(files)
             ss == [k \in 1 .. n |-> HunksOf(files, order[k])]
             T == [k \in 1 .. n |-> OfFile(files, order[k])]
  <2>1. order \in Seq(1 .. n) /\ Len(order) = n /\ Once(order) /\ ToSet(order) = 1 .. n
    <3>1. \A f \in 1 .. n : files[f].score \in Nat /\ files[f].path \in Nat
      BY DEF IsReview, IsFile
    <3> QED
      BY <1>1, <3>1, RiskOrder
  <2>2. sel.by = "all"
    BY <1>2 DEF All
  <2>3. select(files, sel) = FlattenSeq(ss)
    <3> HIDE DEF order
    <3>1. ss = [k \in DOMAIN files |-> HunksOf(files, order[k])]
      BY <1>1
    <3> QED
      BY <2>2, <3>1 DEF select, order
  <2> HIDE DEF order, n
  <2>4. \A k \in 1 .. n : order[k] \in 1 .. n /\ ss[k] = HunksOf(files, order[k]) /\ T[k] = OfFile(files, order[k])
    BY <2>1
  <2>5. \A k \in 1 .. n : Lists(ss[k], Units, T[k])
    BY <2>4, HunksOfFile DEF n
  <2>6. ss \in Seq(Seq(Units)) /\ Len(ss) = n
    <3>1. \A k \in 1 .. n : ss[k] \in Seq(Units)
      BY <2>5 DEF Lists
    <3>2. ss = [k \in 1 .. n |-> ss[k]] /\ n \in Nat
      BY <1>1 DEF n
    <3> HIDE DEF ss
    <3>3. ss \in [1 .. n -> Seq(Units)]
      BY <3>1, <3>2
    <3> QED
      BY <3>2, <3>3
  <2> HIDE DEF ss, T
  <2>7. Holds(ss, T)
    BY <2>5, <2>6 DEF Holds, Lists
  <2>8. Disjoint(T, Len(ss))
    <3> SUFFICES ASSUME NEW k \in 1 .. n, NEW l \in 1 .. n, k # l, NEW u \in T[k], u \in T[l] PROVE FALSE
      BY <2>6 DEF Disjoint
    <3>1. u[1] = order[k] /\ u[1] = order[l]
      BY <2>4 DEF OfFile
    <3>2. k = l
      BY <2>1, <3>1 DEF Once
    <3> QED
      BY <3>2
  <2>9. Joint(T, n) = AllHunks(files)
    <3> DEFINE O == [f \in 1 .. n |-> OfFile(files, f)]
    <3>1. AllHunks(files) = Joint(O, n)
      BY HunksOfAll DEF n
    <3>2. \A f \in 1 .. n : O[f] = OfFile(files, f)
      OBVIOUS
    <3> HIDE DEF O
    <3>3. \A k \in 1 .. n : order[k] \in 1 .. n /\ T[k] = O[order[k]]
      BY <2>4, <3>2
    <3>4. \A f \in 1 .. n : \E k \in 1 .. n : order[k] = f
      BY <2>1 DEF ToSet
    <3> QED
      BY <3>1, <3>3, <3>4 DEF Joint
  <2>10. Lists(FlattenSeq(ss), Units, Joint(T, Len(ss)))
    BY <2>6, <2>7, <2>8, Gathered
  <2>11. {u \in AllHunks(files) : Selected(files, sel, u)} = AllHunks(files)
    BY <2>2 DEF Selected
  <2> QED
    BY <2>3, <2>6, <2>9, <2>10, <2>11
<1>3. CASE sel.by \in {"addresses", "paths"} /\ \E S : sel.names \in Seq(S)
  <2> DEFINE names == Distinct(sel.names)
             n == Len(names)
             Wants(k) == IF sel.by = "addresses" THEN At(files, names[k]) ELSE Under(files, names[k])
             Gives(k) == IF sel.by = "addresses" THEN hunks_by_address(files, names[k]) ELSE ByPath(files, names[k])
             P == [k \in 1 .. n |-> Wants(k)]
             ss == [k \in 1 .. n |-> Gives(k)]
  <2>1. PICK S : sel.names \in Seq(S)
    BY <1>3
  <2>2. Lists(names, S, ToSet(sel.names))
    BY <2>1, DistinctFacts
  <2>3. n \in Nat /\ DOMAIN names = 1 .. n /\ Once(names) /\ ToSet(names) = ToSet(sel.names)
    <3> HIDE DEF names
    <3> QED
      BY <2>2 DEF Lists
  <2>4. select(files, sel) = FlattenSeq(ss)
    <3> HIDE DEF names, n
    <3>1. CASE sel.by = "addresses"
      <4>1. ss = [k \in DOMAIN names |-> hunks_by_address(files, names[k])]
        BY <2>3, <3>1
      <4> QED
        BY <3>1, <4>1 DEF select, names
    <3>2. CASE sel.by = "paths"
      <4>1. ss = [k \in DOMAIN names |-> ByPath(files, names[k])]
        BY <2>3, <3>2
      <4> QED
        BY <3>2, <4>1 DEF select, names
    <3> QED
      BY <1>3, <3>1, <3>2
  <2> HIDE DEF names
  <2>5. \A k \in 1 .. n : Lists(Gives(k), Units, AllHunks(files) \cap Wants(k))
    BY ByAddress, OfPath
  <2>6. \A k \in 1 .. n : ss[k] = Gives(k) /\ P[k] = Wants(k)
    OBVIOUS
  <2> HIDE DEF n, Gives
  <2>7. ss \in Seq(Seq(Units)) /\ Len(ss) = n
    <3>1. \A k \in 1 .. n : Gives(k) \in Seq(Units)
      BY <2>5 DEF Lists
    <3> QED
      BY <2>3, <3>1
  <2> HIDE DEF ss, P
  <2>8. Disjoint(P, n)
    <3> SUFFICES ASSUME NEW k \in 1 .. n, NEW l \in 1 .. n, k # l, NEW u \in P[k], u \in P[l] PROVE FALSE
      BY DEF Disjoint
    <3>1. u \in Wants(k) /\ u \in Wants(l)
      BY <2>6
    <3>2. names[k] = names[l]
      <4>1. CASE sel.by = "addresses"
        BY <3>1, <4>1 DEF At
      <4>2. CASE sel.by # "addresses"
        BY <3>1, <4>2 DEF Under
      <4> QED
        BY <4>1, <4>2
    <3> QED
      BY <2>3, <3>2 DEF Once, n
  <2>9. \A k \in 1 .. n : Lists(ss[k], Units, AllHunks(files) \cap P[k])
    BY <2>5, <2>6
  <2>10. Lists(FlattenSeq(ss), Units, AllHunks(files) \cap Joint(P, n))
    BY <2>3, <2>7, <2>8, <2>9, ByNames
  <2>11. ASSUME NEW u \in AllHunks(files) PROVE u \in Joint(P, n) <=> Selected(files, sel, u)
    <3> DEFINE told == IF sel.by = "addresses" THEN files[u[1]].hunks[u[2]].address ELSE files[u[1]].path
    <3>1. u \in Units
      BY <1>1
    <3>2. \A k \in 1 .. n : u \in P[k] <=> told = names[k]
      BY <2>6, <3>1 DEF At, Under
    <3>3. Selected(files, sel, u) <=> Contains(sel.names, told)
      BY <1>3 DEF Selected
    <3> HIDE DEF told
    <3>4. Contains(sel.names, told) <=> told \in ToSet(sel.names)
      BY <2>1 DEF Contains, ToSet
    <3>5. told \in ToSet(names) <=> \E k \in 1 .. n : told = names[k]
      BY <2>3 DEF ToSet
    <3> QED
      BY <2>3, <3>2, <3>3, <3>4, <3>5 DEF Joint
  <2>12. AllHunks(files) \cap Joint(P, n) = {u \in AllHunks(files) : Selected(files, sel, u)}
    BY <2>11
  <2> QED
    BY <2>4, <2>10, <2>12
<1> QED
  BY <1>2, <1>3 DEF IsSelection

\* An item of a view, and the items of one; the parts that are shown of an item up to one.
IsItem(q, item) ==
  /\ item.at \in Units /\ item.head \in Nat \ {0} /\ item.parts \in Seq(Nat)
  /\ IF q.view = "outline" THEN item.at[2] = 0 ELSE Len(item.parts) > 0
IsItems(q, items) ==
  /\ Len(items) \in Nat /\ DOMAIN items = 1 .. Len(items)
  /\ \A k \in 1 .. Len(items) : IsItem(q, items[k])
  /\ \A k, l \in 1 .. Len(items) : items[k].at = items[l].at => k = l
Piece(q, at, m) == {<<at[1], at[2], x>> : x \in FirstPart(q) .. m}
AllPieces(q, items) == UNION {Piece(q, items[k].at, Len(items[k].parts)) : k \in 1 .. Len(items)}

\* What the client is after, when it is after q.
WantedBy(q) ==
  LET files == Files(q.patch)
  IN  IF q.view = "outline"
      THEN UNION {{<<f, 0, h>> : h \in 0 .. Len(files[f].hunks)} : f \in DOMAIN files}
      ELSE UNION {{<<u[1], u[2], l>> : l \in DOMAIN files[u[1]].hunks[u[2]].lines} :
                  u \in {v \in AllHunks(files) : Selected(files, q.sel, v)}}

\* The items of an outline are the files.
LEMMA OutlineItems ==
  ASSUME NEW q, q.view = "outline", IsReview(Files(q.patch))
  PROVE  IsItems(q, Items(q)) /\ WantedBy(q) = AllPieces(q, Items(q))
<1> DEFINE files == Files(q.patch)
           n == Len(files)
           order == risk_order(files)
           m(f) == Len(files[f].hunks)
           Of(f) == [at |-> <<f, 0>>, head |-> files[f].size,
                     parts |-> [h \in DOMAIN files[f].hunks |-> hunk_head(files, <<f, h>>)]]
           items == [k \in 1 .. n |-> Of(order[k])]
<1>1. n \in Nat /\ DOMAIN files = 1 .. n /\ \A f \in 1 .. n : IsFile(files[f])
  BY DEF IsReview
<1>2. order \in Seq(1 .. n) /\ Len(order) = n /\ Once(order) /\ ToSet(order) = 1 .. n
  <2>1. \A f \in 1 .. n : files[f].score \in Nat /\ files[f].path \in Nat
    BY <1>1 DEF IsFile
  <2> QED
    BY <1>1, <2>1, RiskOrder
<1>3. Items(q) = items
  <2> HIDE DEF order
  <2>1. DOMAIN order = 1 .. n
    BY <1>2
  <2>2. items = FileItems(files, order)
    BY <2>1 DEF FileItems
  <2> QED
    BY <2>2 DEF Items, order
<1> HIDE DEF files, n, order
<1>4. Len(items) = n /\ DOMAIN items = 1 .. n /\ \A k \in 1 .. n : items[k] = Of(order[k])
  BY <1>1
<1>5. \A k \in 1 .. n : order[k] \in 1 .. n
  BY <1>2
<1>6. \A f \in 1 .. n : \E k \in 1 .. n : order[k] = f
  <2>1. DOMAIN order = 1 .. n
    BY ONLY <1>2
  <2>2. \A f \in 1 .. n : f \in {order[k] : k \in 1 .. n}
    BY ONLY <1>2, <2>1 DEF ToSet
  <2> QED
    BY ONLY <2>2
<1>7. ASSUME NEW f \in 1 .. n
      PROVE  IsItem(q, Of(f)) /\ Len(Of(f).parts) = m(f) /\ Of(f).at = <<f, 0>>
  <2> DEFINE parts == [h \in 1 .. m(f) |-> hunk_head(files, <<f, h>>)]
  <2>1. /\ files[f].size \in Nat \ {0} /\ m(f) \in Nat /\ DOMAIN files[f].hunks = 1 .. m(f)
        /\ \A h \in 1 .. m(f) : files[f].hunks[h].size \in Nat
    BY <1>1 DEF IsFile
  <2>2. Of(f).parts = parts
    BY <2>1
  <2>3. parts \in Seq(Nat) /\ Len(parts) = m(f)
    <3>1. \A h \in 1 .. m(f) : hunk_head(files, <<f, h>>) \in Nat
      BY <2>1 DEF hunk_head
    <3>2. PICK l \in Nat : l = m(f)
      BY <2>1
    <3>3. parts = [h \in 1 .. l |-> parts[h]] /\ \A h \in 1 .. l : parts[h] \in Nat
      BY <3>1, <3>2
    <3> HIDE DEF parts, m
    <3>4. parts \in [1 .. l -> Nat]
      BY <3>3
    <3> QED
      BY <3>2, <3>4
  <2>4. Of(f).at = <<f, 0>> /\ Of(f).head = files[f].size /\ <<f, 0>> \in Units /\ <<f, 0>>[2] = 0
    BY <1>1 DEF Units
  <2> HIDE DEF parts, Of
  <2> QED
    BY <2>1, <2>2, <2>3, <2>4 DEF IsItem
<1> HIDE DEF items, Of
<1>8. IsItems(q, items)
  <2>1. \A k \in 1 .. n : IsItem(q, items[k]) /\ items[k].at = <<order[k], 0>>
    BY <1>4, <1>5, <1>7
  <2>2. ASSUME NEW k \in 1 .. n, NEW l \in 1 .. n, items[k].at = items[l].at PROVE k = l
    <3>1. order[k] = order[l]
      BY <2>1, <2>2
    <3> QED
      BY <1>2, <3>1 DEF Once
  <2> QED
    BY <1>1, <1>4, <2>1, <2>2 DEF IsItems
<1>9. WantedBy(q) = AllPieces(q, items)
  <2> DEFINE P(f) == {<<f, 0, h>> : h \in 0 .. m(f)}
  <2>1. WantedBy(q) = UNION {P(f) : f \in 1 .. n}
    BY <1>1 DEF WantedBy, files
  <2>2. ASSUME NEW k \in 1 .. n
        PROVE  Piece(q, items[k].at, Len(items[k].parts)) = P(order[k])
    <3>1. items[k].at = <<order[k], 0>> /\ Len(items[k].parts) = m(order[k])
      BY <1>4, <1>5, <1>7
    <3>2. FirstPart(q) = 0
      BY DEF FirstPart
    <3>3. <<order[k], 0>>[1] = order[k] /\ <<order[k], 0>>[2] = 0
      OBVIOUS
    <3> HIDE DEF m
    <3> QED
      BY <3>1, <3>2, <3>3 DEF Piece
  <2> HIDE DEF P
  <2>3. AllPieces(q, items) = UNION {P(order[k]) : k \in 1 .. n}
    BY <1>4, <2>2 DEF AllPieces
  <2> QED
    BY <1>5, <1>6, <2>1, <2>3
<1> QED
  BY <1>3, <1>8, <1>9

\* The items of a hunks view are the hunks that are selected.
LEMMA HunkViewItems ==
  ASSUME NEW q, q.view # "outline", IsReview(Files(q.patch)), IsSelection(q.sel)
  PROVE  IsItems(q, Items(q)) /\ WantedBy(q) = AllPieces(q, Items(q))
<1> DEFINE files == Files(q.patch)
           units == select(files, q.sel)
           n == Len(units)
           chosen == {u \in AllHunks(files) : Selected(files, q.sel, u)}
           linesOf(u) == files[u[1]].hunks[u[2]].lines
           Of(u) == [at |-> u, head |-> hunk_head(files, u), parts |-> linesOf(u)]
           items == [k \in 1 .. n |-> Of(units[k])]
<1>1. Lists(units, Units, chosen)
  BY SelectFacts
<1>2. n \in Nat /\ DOMAIN units = 1 .. n /\ Once(units) /\ ToSet(units) = chosen
  <2> HIDE DEF units, chosen
  <2> QED
    BY <1>1 DEF Lists
<1>3. Items(q) = items
  <2> HIDE DEF units
  <2>1. items = HunkItems(files, units)
    BY <1>2 DEF HunkItems
  <2> QED
    BY <2>1 DEF Items, units
<1>4. ASSUME NEW u \in AllHunks(files)
      PROVE  u \in Units /\ hunk_head(files, u) \in Nat \ {0} /\ linesOf(u) \in Seq(Nat) /\ Len(linesOf(u)) > 0
  <2>1. u \in Units /\ u[1] \in 1 .. Len(files) /\ u[2] \in 1 .. Len(files[u[1]].hunks)
    BY HunksOfAll
  <2>2. IsFile(files[u[1]])
    BY <2>1 DEF IsReview
  <2> QED
    BY <2>1, <2>2 DEF IsFile, hunk_head
<1> HIDE DEF files, units, n
<1>5. Len(items) = n /\ DOMAIN items = 1 .. n /\ \A k \in 1 .. n : items[k] = Of(units[k])
  BY <1>2
<1>6. \A k \in 1 .. n : units[k] \in chosen
  BY <1>2 DEF ToSet
<1>7. \A u \in chosen : \E k \in 1 .. n : units[k] = u
  BY <1>2 DEF ToSet
<1>8. ASSUME NEW k \in 1 .. n
      PROVE  IsItem(q, items[k]) /\ items[k].at = units[k] /\ items[k].parts = linesOf(units[k])
  <2> DEFINE u == units[k]
  <2>1. u \in AllHunks(files)
    BY <1>6
  <2>2. u \in Units /\ hunk_head(files, u) \in Nat \ {0} /\ linesOf(u) \in Seq(Nat) /\ Len(linesOf(u)) > 0
    BY <1>4, <2>1
  <2>3. items[k].at = u /\ items[k].head = hunk_head(files, u) /\ items[k].parts = linesOf(u)
    BY <1>5
  <2> HIDE DEF u, items, linesOf
  <2> QED
    BY <2>2, <2>3 DEF IsItem, u
<1> HIDE DEF items, Of
<1>9. IsItems(q, items)
  <2>1. ASSUME NEW k \in 1 .. n, NEW l \in 1 .. n, items[k].at = items[l].at PROVE k = l
    BY <1>2, <1>8, <2>1 DEF Once, n
  <2> QED
    BY <1>2, <1>5, <1>8, <2>1 DEF IsItems
<1>10. WantedBy(q) = AllPieces(q, items)
  <2> DEFINE P(u) == {<<u[1], u[2], l>> : l \in DOMAIN linesOf(u)}
  <2>1. WantedBy(q) = UNION {P(u) : u \in chosen}
    BY DEF WantedBy, files
  <2>2. ASSUME NEW k \in 1 .. n
        PROVE  Piece(q, items[k].at, Len(items[k].parts)) = P(units[k])
    <3>1. items[k].at = units[k] /\ items[k].parts = linesOf(units[k]) /\ linesOf(units[k]) \in Seq(Nat)
      BY <1>4, <1>6, <1>8
    <3>2. FirstPart(q) = 1
      BY DEF FirstPart
    <3>3. DOMAIN linesOf(units[k]) = 1 .. Len(linesOf(units[k]))
      BY <3>1
    <3> HIDE DEF linesOf
    <3> QED
      BY <3>1, <3>2, <3>3 DEF Piece
  <2> HIDE DEF P, chosen
  <2>3. AllPieces(q, items) = UNION {P(units[k]) : k \in 1 .. n}
    BY <1>5, <2>2 DEF AllPieces
  <2> QED
    BY <1>6, <1>7, <2>1, <2>3
<1> QED
  BY <1>3, <1>9, <1>10

LEMMA ItemsFacts ==
  ASSUME NEW q \in Queries
  PROVE  IsItems(q, Items(q)) /\ WantedBy(q) = AllPieces(q, Items(q))
<1>1. q.patch \in DOMAIN Patches
  BY DEF Queries
<1>2. IsReview(Files(q.patch))
  BY <1>1, FilesAreReview
<1>3. IsSelection(q.sel)
  <2>1. q.sel \in Selections \/ q.sel = All
    BY DEF Queries
  <2>2. ASSUME q.sel \in Selections PROVE IsSelection(q.sel)
    <3>1. q.sel.by \in {"addresses", "paths"} /\ q.sel.names \in Seq(ToSet(q.sel.names))
      BY <2>2, ReviewsAreFiles
    <3> QED
      BY <3>1 DEF IsSelection
  <2> QED
    BY <2>1, <2>2 DEF IsSelection
<1> QED
  BY <1>2, <1>3, OutlineItems, HunkViewItems

\* What has been given when a view is read up to part j of item i.
Ahead(q, items, m) == FlattenSeq([k \in 1 .. m |-> Shown(q, items[k].at, 0, Len(items[k].parts))])
Reached(q, items, i, j) == Ahead(q, items, i - 1) \o Begun(q, items[i].at, j)
Shows == Nat \X Nat \X Nat

LEMMA ShownPiece ==
  ASSUME NEW q, NEW item, IsItem(q, item), NEW m \in Nat
  PROVE  LET s == Shown(q, item.at, 0, m)
         IN  Lists(s, Shows, Piece(q, item.at, m)) /\ Steps(s, FirstPart(q))
<1> DEFINE at == item.at
           s == Shown(q, at, 0, m)
<1>1. at \in Units /\ (q.view = "outline" => at[2] = 0)
  BY DEF IsItem
<1> HIDE DEF at
<1>2. Once(s) /\ Steps(s, FirstPart(q))
  BY <1>1, ShownInOrder
<1>3. /\ s \in Seq({at[1]} \X {at[2], 0} \X Nat)
      /\ ToSet(s) = HeadOf(q, at, 0) \cup PartsOf(at, 0, m)
  <2>1. 0 \in Nat /\ 0 <= m
    OBVIOUS
  <2> QED
    BY <2>1, ShownFacts
<1> HIDE DEF s
<1>4. s \in Seq(Shows)
  <2>1. ({at[1]} \X {at[2], 0} \X Nat) \subseteq Shows
    BY <1>1 DEF Units, Shows
  <2> DEFINE S == {at[1]} \X {at[2], 0} \X Nat
  <2> HIDE DEF S
  <2>2. s \in Seq(S) /\ S \subseteq Shows
    BY <1>3, <2>1 DEF S
  <2> QED
    BY <2>2
<1>5. ToSet(s) = Piece(q, at, m)
  <2>1. CASE q.view = "outline"
    <3>1. 0 .. m = {0} \cup (0 + 1 .. m)
      OBVIOUS
    <3> QED
      BY <1>1, <1>3, <2>1, <3>1 DEF Piece, FirstPart, HeadOf, PartsOf
  <2>2. CASE q.view # "outline"
    <3>1. 0 + 1 = 1
      OBVIOUS
    <3> QED
      BY <1>3, <2>2, <3>1 DEF Piece, FirstPart, HeadOf, PartsOf
  <2> QED
    BY <2>1, <2>2
<1> QED
  BY <1>2, <1>4, <1>5 DEF Lists, at, s

PiecesUpTo(q, items, m, n) == UNION {Piece(q, items[k].at, m[k]) : k \in 1 .. n}
ArePieces(q, items, m, n, ss) ==
  \A k \in 1 .. n : ss[k] = Shown(q, items[k].at, 0, m[k]) \/ ss[k] = <<>>
AllShown(q, items, m, n, ss) == \A k \in 1 .. n : ss[k] = Shown(q, items[k].at, 0, m[k])

\* Pieces of items, joined in their order, are each shown once and in order.
LEMMA PiecesJoined ==
  ASSUME NEW q, NEW items, IsItems(q, items), NEW n \in 0 .. Len(items),
         NEW ss \in Seq(Seq(Shows)), Len(ss) = n, NEW m \in [1 .. n -> Nat],
         ArePieces(q, items, m, n, ss)
  PROVE  /\ FlattenSeq(ss) \in Seq(Shows) /\ Once(FlattenSeq(ss)) /\ Steps(FlattenSeq(ss), FirstPart(q))
         /\ ToSet(FlattenSeq(ss)) \subseteq PiecesUpTo(q, items, m, n)
         /\ AllShown(q, items, m, n, ss) => ToSet(FlattenSeq(ss)) = PiecesUpTo(q, items, m, n)
<1> DEFINE T == [k \in 1 .. n |-> ToSet(ss[k])]
           P == [k \in 1 .. n |-> Piece(q, items[k].at, m[k])]
<1>1. \A k \in 1 .. n : /\ k \in 1 .. Len(items) /\ IsItem(q, items[k]) /\ T[k] = ToSet(ss[k])
                        /\ P[k] = Piece(q, items[k].at, m[k]) /\ m[k] \in Nat
  BY DEF IsItems
<1> HIDE DEF T, P
<1>2. ASSUME NEW k \in 1 .. n
      PROVE  /\ Once(ss[k]) /\ Steps(ss[k], FirstPart(q)) /\ T[k] \subseteq P[k]
             /\ ss[k] = Shown(q, items[k].at, 0, m[k]) => T[k] = P[k]
  <2>1. Lists(Shown(q, items[k].at, 0, m[k]), Shows, P[k]) /\ Steps(Shown(q, items[k].at, 0, m[k]), FirstPart(q))
    BY <1>1, ShownPiece
  <2>2. CASE ss[k] = Shown(q, items[k].at, 0, m[k])
    BY <1>1, <2>1, <2>2 DEF Lists
  <2>3. CASE ss[k] # Shown(q, items[k].at, 0, m[k])
    <3>1. ss[k] = <<>>
      BY <2>3 DEF ArePieces
    <3>2. Once(<<>>) /\ Steps(<<>>, FirstPart(q)) /\ ToSet(<<>>) = {}
      BY DEF Once, Steps, ToSet
    <3> QED
      BY <1>1, <2>3, <3>1, <3>2
  <2> QED
    BY <2>2, <2>3
<1>3. Holds(ss, T)
  BY <1>1, <1>2 DEF Holds
<1>4. Disjoint(T, Len(ss))
  <2> SUFFICES ASSUME NEW k \in 1 .. n, NEW l \in 1 .. n, k # l, NEW u \in T[k], u \in T[l] PROVE FALSE
    BY DEF Disjoint
  <2>1. u \in P[k] /\ u \in P[l]
    BY <1>2
  <2>2. u \in Piece(q, items[k].at, m[k]) /\ u \in Piece(q, items[l].at, m[l])
    BY <1>1, <2>1
  <2>3. items[k].at[1] = u[1] /\ items[k].at[2] = u[2] /\ items[l].at[1] = u[1] /\ items[l].at[2] = u[2]
    <3>1. PICK x \in FirstPart(q) .. m[k] : u = <<items[k].at[1], items[k].at[2], x>>
      BY <2>2 DEF Piece
    <3>2. PICK y \in FirstPart(q) .. m[l] : u = <<items[l].at[1], items[l].at[2], y>>
      BY <2>2 DEF Piece
    <3>3. u[1] = items[k].at[1] /\ u[2] = items[k].at[2]
      BY <3>1
    <3>4. u[1] = items[l].at[1] /\ u[2] = items[l].at[2]
      BY <3>2
    <3> QED
      BY <3>3, <3>4
  <2>4. items[k].at \in Units /\ items[l].at \in Units
    BY <1>1 DEF IsItem
  <2>5. items[k].at = items[l].at
    <3>1. \A x \in Units : x = <<x[1], x[2]>>
      BY DEF Units
    <3>2. items[k].at = <<items[k].at[1], items[k].at[2]>> /\ items[l].at = <<items[l].at[1], items[l].at[2]>>
      BY <2>4, <3>1
    <3>3. <<items[k].at[1], items[k].at[2]>> = <<items[l].at[1], items[l].at[2]>>
      BY <2>3
    <3> QED
      BY <3>2, <3>3
  <2> QED
    BY <1>1, <2>5 DEF IsItems
<1>5. Lists(FlattenSeq(ss), Shows, Joint(T, n))
  BY <1>3, <1>4, Gathered
<1>6. Steps(FlattenSeq(ss), FirstPart(q))
  <2>1. \A k \in 1 .. Len(ss) : Steps(ss[k], FirstPart(q))
    BY <1>2
  <2> QED
    BY <2>1, FlattenedSteps
<1>7. /\ Joint(T, n) \subseteq Joint(P, n)
      /\ (\A k \in 1 .. n : ss[k] = Shown(q, items[k].at, 0, m[k])) => Joint(T, n) = Joint(P, n)
  <2>1. \A k \in 1 .. n : T[k] \subseteq P[k]
    BY <1>2
  <2>2. ASSUME \A k \in 1 .. n : ss[k] = Shown(q, items[k].at, 0, m[k]) PROVE \A k \in 1 .. n : T[k] = P[k]
    BY <1>2, <2>2
  <2>3. Joint(T, n) \subseteq Joint(P, n)
    BY <2>1 DEF Joint
  <2>4. ASSUME \A k \in 1 .. n : T[k] = P[k] PROVE Joint(T, n) = Joint(P, n)
    BY <2>4 DEF Joint
  <2> QED
    BY <2>2, <2>3, <2>4
<1>8. Joint(P, n) = UNION {Piece(q, items[k].at, m[k]) : k \in 1 .. n}
  <2>1. \A k \in 1 .. n : P[k] = Piece(q, items[k].at, m[k])
    BY <1>1
  <2>2. {P[k] : k \in 1 .. n} = {Piece(q, items[k].at, m[k]) : k \in 1 .. n}
    BY <2>1
  <2> QED
    BY <2>2 DEF Joint
<1> QED
  BY <1>5, <1>6, <1>7, <1>8 DEF Lists, PiecesUpTo, AllShown

\* What has been given up to an item grows by what is shown of the next.
LEMMA AheadGrows ==
  ASSUME NEW q, NEW items, IsItems(q, items)
  PROVE  /\ Ahead(q, items, 0) = <<>>
         /\ \A m \in 1 .. Len(items) :
              Ahead(q, items, m) = Ahead(q, items, m - 1) \o Shown(q, items[m].at, 0, Len(items[m].parts))
<1> DEFINE Of(k) == Shown(q, items[k].at, 0, Len(items[k].parts))
           ss(m) == [k \in 1 .. m |-> Of(k)]
<1>1. Ahead(q, items, 0) = <<>>
  <2>1. ss(0) = <<>>
    OBVIOUS
  <2>2. FlattenSeq(<<>>) = <<>>
    <3>1. <<>> \in Seq(Seq({})) /\ Len(<<>>) = 0
      OBVIOUS
    <3>2. PICK f : Joins(f, <<>>, {}) /\ FlattenSeq(<<>>) = f[Len(<<>>)]
      BY <3>1, Flattened
    <3> QED
      BY <3>1, <3>2 DEF Joins
  <2> QED
    BY <2>1, <2>2 DEF Ahead
<1>2. ASSUME NEW m \in 1 .. Len(items)
      PROVE  Ahead(q, items, m) = Ahead(q, items, m - 1) \o Of(m)
  <2>1. Len(items) \in Nat /\ \A k \in 1 .. Len(items) : IsItem(q, items[k])
    BY DEF IsItems
  <2>2. \A k \in 1 .. Len(items) : Of(k) \in Seq(Shows)
    <3> SUFFICES ASSUME NEW k \in 1 .. Len(items) PROVE Of(k) \in Seq(Shows)
      OBVIOUS
    <3>1. Len(items[k].parts) \in Nat
      BY <2>1 DEF IsItem
    <3> QED
      BY <2>1, <3>1, ShownPiece DEF Lists
  <2> HIDE DEF Of
  <2>3. m \in Nat /\ m - 1 \in Nat /\ (m - 1) + 1 = m /\ \A k \in 1 .. m : k \in 1 .. Len(items)
    BY <2>1
  <2>4. ss(m - 1) \in Seq(Seq(Shows)) /\ Len(ss(m - 1)) = m - 1 /\ \A k \in 1 .. m - 1 : ss(m - 1)[k] = Of(k)
    <3>1. \A k \in 1 .. m - 1 : Of(k) \in Seq(Shows)
      BY <2>2, <2>3
    <3> QED
      BY <2>3, <3>1
  <2>5. ss(m) \in Seq(Seq(Shows)) /\ Len(ss(m)) = m /\ \A k \in 1 .. m : ss(m)[k] = Of(k)
    BY <2>2, <2>3
  <2>6. Of(m) \in Seq(Shows)
    BY <2>2
  <2>7. ss(m) = Append(ss(m - 1), Of(m))
    <3> DEFINE a == ss(m - 1)
               b == ss(m)
               x == Of(m)
    <3> HIDE DEF a, b, x, ss
    <3>1. a \in Seq(Seq(Shows)) /\ b \in Seq(Seq(Shows)) /\ x \in Seq(Shows) /\ Len(a) = m - 1 /\ Len(b) = m
      BY <2>4, <2>5, <2>6 DEF a, b, x
    <3>2. (\A k \in 1 .. m - 1 : b[k] = a[k]) /\ b[m] = x
      BY <2>3, <2>4, <2>5 DEF a, b, x
    <3>3. /\ Append(a, x) \in Seq(Seq(Shows)) /\ Len(Append(a, x)) = m
          /\ (\A k \in 1 .. m - 1 : Append(a, x)[k] = a[k]) /\ Append(a, x)[m] = x
      BY <2>3, <3>1
    <3>4. \A k \in 1 .. Len(b) : b[k] = Append(a, x)[k]
      BY <2>3, <3>1, <3>2, <3>3
    <3> QED
      BY <3>1, <3>3, <3>4, SeqEqual DEF a, b, x
  <2> HIDE DEF ss
  <2>8. FlattenSeq(ss(m)) = FlattenSeq(ss(m - 1)) \o Of(m)
    BY <2>4, <2>6, <2>7, FlattenedAppend
  <2> QED
    BY <2>8 DEF Ahead, ss, Of
<1> QED
  BY <1>1, <1>2

\* What a client wants: nothing twice, nothing else, and every part after the one before it.
Covers(q, items, s) ==
  s \in Seq(Shows) /\ Once(s) /\ Steps(s, FirstPart(q)) /\ ToSet(s) \subseteq AllPieces(q, items)

\* What is given up to any place covers what is wanted, and up to the end it is all.
LEMMA AheadCovers ==
  ASSUME NEW q, NEW items, IsItems(q, items)
  PROVE  /\ Covers(q, items, Ahead(q, items, Len(items)))
         /\ ToSet(Ahead(q, items, Len(items))) = AllPieces(q, items)
<1> DEFINE n == Len(items)
           m == [k \in 1 .. n |-> Len(items[k].parts)]
           Of(k) == Shown(q, items[k].at, 0, m[k])
           ss == [k \in 1 .. n |-> Of(k)]
           s == FlattenSeq(ss)
<1>1. n \in Nat /\ \A k \in 1 .. n : IsItem(q, items[k]) /\ m[k] = Len(items[k].parts) /\ m[k] \in Nat
  BY DEF IsItems, IsItem
<1>2. m \in [1 .. n -> Nat]
  BY <1>1
<1>3. s = Ahead(q, items, n)
  <2>1. ss = [k \in 1 .. n |-> Shown(q, items[k].at, 0, Len(items[k].parts))]
    BY <1>1
  <2> QED
    BY <2>1 DEF Ahead
<1> HIDE DEF m
<1>4. \A k \in 1 .. n : Of(k) \in Seq(Shows)
  BY <1>1, ShownPiece DEF Lists
<1> HIDE DEF Of
<1>5. ss \in Seq(Seq(Shows)) /\ Len(ss) = n /\ \A k \in 1 .. n : ss[k] = Of(k)
  BY <1>1, <1>4
<1> HIDE DEF ss
<1>6. /\ s \in Seq(Shows) /\ Once(s) /\ Steps(s, FirstPart(q))
      /\ ToSet(s) = PiecesUpTo(q, items, m, n)
  <2>1. ArePieces(q, items, m, n, ss) /\ AllShown(q, items, m, n, ss)
    BY <1>5 DEF Of, ArePieces, AllShown
  <2>2. n \in 0 .. Len(items) /\ ss \in Seq(Seq(Shows)) /\ Len(ss) = n
    BY <1>1, <1>5
  <2> HIDE DEF n
  <2> QED
    BY <1>2, <2>1, <2>2, PiecesJoined
<1>7. PiecesUpTo(q, items, m, n) = AllPieces(q, items)
  <2>1. {Piece(q, items[k].at, m[k]) : k \in 1 .. n} = {Piece(q, items[k].at, Len(items[k].parts)) : k \in 1 .. n}
    BY <1>1
  <2> QED
    BY <2>1 DEF AllPieces, PiecesUpTo
<1> QED
  BY <1>3, <1>6, <1>7 DEF Covers

LEMMA ReachedCovers ==
  ASSUME NEW q, NEW items, IsItems(q, items), NEW i \in 1 .. Len(items), NEW j \in 0 .. Len(items[i].parts)
  PROVE  Covers(q, items, Reached(q, items, i, j))
<1> DEFINE n == Len(items)
           m == [k \in 1 .. i |-> IF k = i THEN j ELSE Len(items[k].parts)]
           pre == [k \in 1 .. i - 1 |-> Shown(q, items[k].at, 0, Len(items[k].parts))]
           b == Begun(q, items[i].at, j)
           ss == Append(pre, b)
           s == FlattenSeq(ss)
<1>1. n \in Nat /\ \A k \in 1 .. n : IsItem(q, items[k]) /\ Len(items[k].parts) \in Nat
  BY DEF IsItems, IsItem
<1>2. i \in Nat /\ i - 1 \in Nat /\ (i - 1) + 1 = i /\ j \in Nat /\ i \in 0 .. n /\ (\A k \in 1 .. i : k \in 1 .. n)
      /\ (\A k \in 1 .. i - 1 : k \in 1 .. n)
  <2>1. Len(items[i].parts) \in Nat
    BY <1>1
  <2> HIDE DEF n
  <2>2. i \in 1 .. n
    BY DEF n
  <2> QED
    BY <1>1, <2>1, <2>2
<1>3. m \in [1 .. i -> Nat]
  BY <1>1, <1>2
<1>4. \A k \in 1 .. i : m[k] = IF k = i THEN j ELSE Len(items[k].parts)
  OBVIOUS
<1> HIDE DEF m
<1>5. pre \in Seq(Seq(Shows)) /\ Len(pre) = i - 1 /\ \A k \in 1 .. i - 1 : pre[k] = Shown(q, items[k].at, 0, m[k])
  <2>1. \A k \in 1 .. i - 1 : Shown(q, items[k].at, 0, Len(items[k].parts)) \in Seq(Shows)
    <3> SUFFICES ASSUME NEW k \in 1 .. i - 1 PROVE Shown(q, items[k].at, 0, Len(items[k].parts)) \in Seq(Shows)
      OBVIOUS
    <3>1. IsItem(q, items[k]) /\ Len(items[k].parts) \in Nat
      BY <1>1, <1>2
    <3> QED
      BY <3>1, ShownPiece DEF Lists
  <2>2. \A k \in 1 .. i - 1 : m[k] = Len(items[k].parts)
    BY <1>2, <1>4
  <2> QED
    BY <1>2, <2>1, <2>2
<1>6. b \in Seq(Shows) /\ (b = <<>> \/ b = Shown(q, items[i].at, 0, m[i]))
  <2>1. m[i] = j
    BY <1>2, <1>4
  <2>2. Shown(q, items[i].at, 0, j) \in Seq(Shows)
    <3>1. IsItem(q, items[i])
      BY <1>1
    <3> QED
      BY <1>2, <3>1, ShownPiece DEF Lists
  <2> QED
    BY <2>1, <2>2 DEF Begun
<1>7. s = Reached(q, items, i, j)
  <2> HIDE DEF pre, b
  <2>1. s = FlattenSeq(pre) \o b
    BY <1>5, <1>6, FlattenedAppend
  <2> QED
    BY <2>1 DEF Reached, Ahead, pre, b
<1> HIDE DEF pre, b
<1>8. ss \in Seq(Seq(Shows)) /\ Len(ss) = i /\ (\A k \in 1 .. i - 1 : ss[k] = pre[k]) /\ ss[i] = b
  BY <1>2, <1>5, <1>6
<1> HIDE DEF ss
<1>9. /\ s \in Seq(Shows) /\ Once(s) /\ Steps(s, FirstPart(q)) /\ ToSet(s) \subseteq PiecesUpTo(q, items, m, i)
  <2>1. ArePieces(q, items, m, i, ss)
    <3> SUFFICES ASSUME NEW k \in 1 .. i PROVE ss[k] = Shown(q, items[k].at, 0, m[k]) \/ ss[k] = <<>>
      BY DEF ArePieces
    <3>1. k = i \/ k \in 1 .. i - 1
      BY <1>2
    <3> QED
      BY <1>5, <1>6, <1>8, <3>1
  <2>2. i \in 0 .. Len(items)
    BY <1>2
  <2> QED
    BY <1>3, <1>8, <2>1, <2>2, PiecesJoined
<1>10. PiecesUpTo(q, items, m, i) \subseteq AllPieces(q, items)
  <2>1. ASSUME NEW k \in 1 .. i
        PROVE  k \in 1 .. n /\ Piece(q, items[k].at, m[k]) \subseteq Piece(q, items[k].at, Len(items[k].parts))
    <3>1. k \in 1 .. n /\ m[k] \in Nat /\ Len(items[k].parts) \in Nat /\ m[k] <= Len(items[k].parts)
      BY <1>1, <1>2, <1>4
    <3>2. FirstPart(q) \in Nat
      BY DEF FirstPart
    <3>3. \A x \in FirstPart(q) .. m[k] : x \in FirstPart(q) .. Len(items[k].parts)
      BY <3>1, <3>2
    <3> QED
      BY <3>1, <3>3 DEF Piece
  <2> QED
    BY <2>1 DEF PiecesUpTo, AllPieces
<1> QED
  BY <1>7, <1>9, <1>10 DEF Covers

\* The sum of some parts.
LEMMA SumNat ==
  ASSUME NEW s \in Seq(Nat), NEW from \in Nat \ {0}, NEW to \in 0 .. Len(s)
  PROVE  Sum(s, from, to) \in Nat
<1> DEFINE G == [k \in 1 .. to |-> [x \in Nat |-> IF k < from THEN 0 ELSE x + s[k]]]
           Flat(f) == f = [k \in 0 .. to |-> IF k < from THEN 0 ELSE f[k - 1] + s[k]]
           flat == CHOOSE f : Flat(f)
<1>1. to \in Nat /\ 0 \in Nat /\ \A k \in 1 .. to : s[k] \in Nat
  OBVIOUS
<1>2. G \in [1 .. to -> [Nat -> Nat]]
  <2>1. \A k \in 1 .. to : [x \in Nat |-> IF k < from THEN 0 ELSE x + s[k]] \in [Nat -> Nat]
    BY <1>1
  <2> QED
    BY <2>1
<1>3. \A k \in 1 .. to : \A x \in Nat : G[k][x] = IF k < from THEN 0 ELSE x + s[k]
  OBVIOUS
<1> HIDE DEF G
<1>4. PICK g : StepsFrom(g, to, Nat, 0, G)
  BY <1>1, <1>2, Recursion
<1>5. Flat(g)
  <2>1. ASSUME NEW k \in 0 .. to PROVE g[k] = IF k < from THEN 0 ELSE g[k - 1] + s[k]
    <3>1. CASE k = 0
      <4>1. k < from
        BY <3>1
      <4> QED
        BY <1>4, <3>1, <4>1 DEF StepsFrom
    <3>2. CASE k # 0
      <4>1. k \in 1 .. to /\ k - 1 \in 0 .. to
        BY <1>1, <3>2
      <4>2. g[k] = G[k][g[k - 1]] /\ g[k - 1] \in Nat
        BY <1>4, <4>1 DEF StepsFrom
      <4> QED
        BY <1>3, <4>1, <4>2
    <3> QED
      BY <3>1, <3>2
  <2>2. g = [k \in 0 .. to |-> g[k]]
    BY <1>4 DEF StepsFrom
  <2> QED
    BY <2>1, <2>2
<1>6. Flat(flat)
  BY <1>5
<1>7. Sum(s, from, to) = flat[to]
  BY DEF Sum
<1> HIDE DEF flat
<1>8. flat = [k \in 0 .. to |-> flat[k]]
  BY <1>6
<1>9. flat[0] \in Nat
  BY <1>6
<1>10. \A k \in 1 .. to : flat[k - 1] \in Nat => flat[k] \in Nat
  <2> SUFFICES ASSUME NEW k \in 1 .. to, flat[k - 1] \in Nat PROVE flat[k] \in Nat
    OBVIOUS
  <2>1. flat[k] = IF k < from THEN 0 ELSE flat[k - 1] + s[k]
    BY <1>6
  <2> QED
    BY <1>1, <2>1
<1>11. flat \in [0 .. to -> Nat]
  BY <1>1, <1>8, <1>9, <1>10, StaysIn
<1> QED
  BY <1>1, <1>7, <1>11

\* Entries of a page: parts of an item that is there.
Entries(items) ==
  {e \in [item : 1 .. Len(items), from : Nat, upto : Nat] :
     e.from <= e.upto /\ e.upto <= Len(items[e.item].parts)}
Sizes(f, items, out) ==
  /\ f \in [0 .. Len(out) -> Nat] /\ f[0] = ENVELOPE_BYTES
  /\ \A k \in 1 .. Len(out) : f[k] = f[k - 1] + EntrySize(items, out[k])

\* An entry has a size: that of its item's head, and of its parts.
LEMMA EntrySized ==
  ASSUME NEW q, NEW items, IsItems(q, items), NEW e \in Entries(items)
  PROVE  EntrySize(items, e) \in Nat \ {0}
<1>1. e.item \in 1 .. Len(items) /\ e.from \in Nat /\ e.upto \in Nat /\ e.upto <= Len(items[e.item].parts)
  BY DEF Entries
<1>2. items[e.item].head \in Nat \ {0} /\ items[e.item].parts \in Seq(Nat)
  BY <1>1 DEF IsItems, IsItem
<1>3. e.from + 1 \in Nat \ {0} /\ e.upto \in 0 .. Len(items[e.item].parts)
  BY <1>1, <1>2
<1>4. Sum(items[e.item].parts, e.from + 1, e.upto) \in Nat
  BY <1>2, <1>3, SumNat
<1> QED
  BY <1>2, <1>4 DEF EntrySize

LEMMA SizeSteps ==
  ASSUME NEW q, NEW items, IsItems(q, items), NEW out \in Seq(Entries(items))
  PROVE  \E f : Sizes(f, items, out) /\ SizeOf(items, out) = f[Len(out)]
<1> DEFINE n == Len(out)
           size(k) == EntrySize(items, out[k])
           G == [k \in 1 .. n |-> [x \in Nat |-> x + size(k)]]
           Flat(f) == f = [k \in 0 .. n |-> IF k = 0 THEN ENVELOPE_BYTES ELSE f[k - 1] + size(k)]
           flat == CHOOSE f : Flat(f)
<1>1. n \in Nat /\ ENVELOPE_BYTES \in Nat
  BY PageBounds
<1>2. \A k \in 1 .. n : size(k) \in Nat
  <2>1. \A k \in 1 .. n : out[k] \in Entries(items)
    OBVIOUS
  <2> QED
    BY <2>1, EntrySized
<1> HIDE DEF size
<1>3. G \in [1 .. n -> [Nat -> Nat]] /\ \A k \in 1 .. n : \A x \in Nat : G[k][x] = x + size(k)
  BY <1>2
<1> HIDE DEF G
<1>4. PICK g : StepsFrom(g, n, Nat, ENVELOPE_BYTES, G)
  <2> HIDE DEF n
  <2> QED
    BY <1>1, <1>3, Recursion
<1>5. Flat(g)
  <2>1. ASSUME NEW k \in 0 .. n PROVE g[k] = IF k = 0 THEN ENVELOPE_BYTES ELSE g[k - 1] + size(k)
    <3>1. CASE k = 0
      BY <1>4, <3>1 DEF StepsFrom
    <3>2. CASE k # 0
      <4>1. k \in 1 .. n /\ k - 1 \in 0 .. n
        BY <1>1, <3>2
      <4>2. g[k] = G[k][g[k - 1]] /\ g[k - 1] \in Nat
        BY <1>4, <4>1 DEF StepsFrom
      <4> QED
        BY <1>3, <3>2, <4>1, <4>2
    <3> QED
      BY <3>1, <3>2
  <2>2. g = [k \in 0 .. n |-> g[k]]
    BY <1>4 DEF StepsFrom
  <2> QED
    BY <2>1, <2>2
<1>6. Flat(flat)
  BY <1>5
<1>7. SizeOf(items, out) = flat[n]
  BY DEF SizeOf, size
<1> HIDE DEF flat
<1>8. flat = [k \in 0 .. n |-> flat[k]] /\ flat[0] = ENVELOPE_BYTES
  BY <1>1, <1>6
<1>9. \A k \in 1 .. n : flat[k] = flat[k - 1] + size(k)
  BY <1>1, <1>6
<1>10. \A k \in 1 .. n : flat[k - 1] \in Nat => flat[k] \in Nat
  BY <1>2, <1>9
<1>11. flat \in [0 .. n -> Nat]
  BY <1>1, <1>8, <1>10, StaysIn
<1>12. Sizes(flat, items, out)
  BY <1>8, <1>9, <1>11 DEF Sizes, size
<1> QED
  BY <1>7, <1>12

\* A page grows by its entries.
LEMMA SizeGrows ==
  ASSUME NEW q, NEW items, IsItems(q, items)
  PROVE  /\ SizeOf(items, <<>>) = ENVELOPE_BYTES
         /\ \A out \in Seq(Entries(items)) :
              /\ SizeOf(items, out) \in Nat
              /\ \A e \in Entries(items) :
                   SizeOf(items, Append(out, e)) = SizeOf(items, out) + EntrySize(items, e)
<1>1. SizeOf(items, <<>>) = ENVELOPE_BYTES
  <2>1. <<>> \in Seq(Entries(items)) /\ Len(<<>>) = 0
    OBVIOUS
  <2>2. PICK f : Sizes(f, items, <<>>) /\ SizeOf(items, <<>>) = f[Len(<<>>)]
    BY <2>1, SizeSteps
  <2> QED
    BY <2>1, <2>2 DEF Sizes
<1>2. ASSUME NEW out \in Seq(Entries(items)) PROVE SizeOf(items, out) \in Nat
  <2>1. PICK f : Sizes(f, items, out) /\ SizeOf(items, out) = f[Len(out)]
    BY SizeSteps
  <2> QED
    BY <2>1 DEF Sizes
<1>3. ASSUME NEW out \in Seq(Entries(items)), NEW e \in Entries(items)
      PROVE  SizeOf(items, Append(out, e)) = SizeOf(items, out) + EntrySize(items, e)
  <2> DEFINE n == Len(out)
             more == Append(out, e)
  <2>1. n \in Nat /\ more \in Seq(Entries(items)) /\ Len(more) = n + 1 /\ more[n + 1] = e
        /\ \A k \in 1 .. n : more[k] = out[k]
    OBVIOUS
  <2>2. PICK f : Sizes(f, items, out) /\ SizeOf(items, out) = f[n]
    BY SizeSteps
  <2> HIDE DEF more
  <2>3. PICK g : Sizes(g, items, more) /\ SizeOf(items, more) = g[n + 1]
    BY <2>1, SizeSteps
  <2> DEFINE T == {k \in Nat : k <= n => f[k] = g[k]}
  <2>4. 0 \in T
    BY <2>2, <2>3 DEF Sizes
  <2>5. ASSUME NEW k \in Nat, k \in T PROVE k + 1 \in T
    <3> SUFFICES ASSUME k + 1 <= n PROVE f[k + 1] = g[k + 1]
      OBVIOUS
    <3>1. k + 1 \in 1 .. n /\ k + 1 \in 1 .. n + 1 /\ (k + 1) - 1 = k /\ f[k] = g[k]
      BY <2>1, <2>5
    <3>2. f[k + 1] = f[k] + EntrySize(items, out[k + 1])
      BY <2>2, <3>1 DEF Sizes
    <3>3. g[k + 1] = g[k] + EntrySize(items, more[k + 1])
      BY <2>1, <2>3, <3>1 DEF Sizes
    <3> QED
      BY <2>1, <3>1, <3>2, <3>3
  <2> HIDE DEF T
  <2>6. n \in T
    BY <2>1, <2>4, <2>5, Induction
  <2>7. f[n] = g[n]
    BY <2>1, <2>6 DEF T
  <2>8. g[n + 1] = g[n] + EntrySize(items, e)
    <3>1. n + 1 \in 1 .. n + 1 /\ (n + 1) - 1 = n
      BY <2>1
    <3> QED
      BY <2>1, <2>3, <3>1 DEF Sizes
  <2> QED
    BY <2>2, <2>3, <2>7, <2>8 DEF more
<1> QED
  BY <1>1, <1>2, <1>3

\* What a page holds is what its entries show, in their order.
LEMMA PartsGrow ==
  ASSUME NEW q, NEW items, IsItems(q, items)
  PROVE  /\ Parts(q, items, <<>>) = <<>>
         /\ \A out \in Seq(Entries(items)) :
              /\ Parts(q, items, out) \in Seq(Shows)
              /\ \A e \in Entries(items) :
                   /\ Shown(q, items[e.item].at, e.from, e.upto) \in Seq(Shows)
                   /\ Parts(q, items, Append(out, e))
                        = Parts(q, items, out) \o Shown(q, items[e.item].at, e.from, e.upto)
<1> DEFINE Of(e) == Shown(q, items[e.item].at, e.from, e.upto)
           ss(out) == [k \in DOMAIN out |-> Of(out[k])]
<1>1. Parts(q, items, <<>>) = <<>>
  <2>1. ss(<<>>) = <<>>
    OBVIOUS
  <2>2. FlattenSeq(<<>>) = <<>>
    <3>1. <<>> \in Seq(Seq({})) /\ Len(<<>>) = 0
      OBVIOUS
    <3>2. PICK f : Joins(f, <<>>, {}) /\ FlattenSeq(<<>>) = f[Len(<<>>)]
      BY <3>1, Flattened
    <3> QED
      BY <3>1, <3>2 DEF Joins
  <2> QED
    BY <2>1, <2>2 DEF Parts
<1>2. \A e \in Entries(items) : Of(e) \in Seq(Shows)
  <2> SUFFICES ASSUME NEW e \in Entries(items) PROVE Of(e) \in Seq(Shows)
    OBVIOUS
  <2>1. e.item \in 1 .. Len(items) /\ e.from \in Nat /\ e.upto \in Nat /\ e.from <= e.upto
    BY DEF Entries
  <2> DEFINE at == items[e.item].at
             S == {at[1]} \X {at[2], 0} \X Nat
  <2>2. at \in Units
    BY <2>1 DEF IsItems, IsItem
  <2>3. S \subseteq Shows
    BY <2>2 DEF Units, Shows
  <2>4. Of(e) \in Seq(S)
    BY <2>1, ShownFacts
  <2> HIDE DEF S, Of
  <2> QED
    BY <2>3, <2>4
<1> HIDE DEF Of
<1>3. ASSUME NEW out \in Seq(Entries(items))
      PROVE  /\ ss(out) \in Seq(Seq(Shows)) /\ Len(ss(out)) = Len(out)
             /\ \A k \in 1 .. Len(out) : ss(out)[k] = Of(out[k])
  <2>1. DOMAIN out = 1 .. Len(out) /\ Len(out) \in Nat /\ \A k \in 1 .. Len(out) : out[k] \in Entries(items)
    OBVIOUS
  <2> QED
    BY <1>2, <2>1
<1>4. ASSUME NEW out \in Seq(Entries(items)) PROVE Parts(q, items, out) \in Seq(Shows)
  <2>1. Parts(q, items, out) = FlattenSeq(ss(out))
    BY DEF Parts, Of
  <2> HIDE DEF ss
  <2> QED
    BY <1>3, <2>1, FlattenedType
<1>5. ASSUME NEW out \in Seq(Entries(items)), NEW e \in Entries(items)
      PROVE  Parts(q, items, Append(out, e)) = Parts(q, items, out) \o Of(e)
  <2> DEFINE n == Len(out)
             more == Append(out, e)
             a == ss(out)
             b == ss(more)
             x == Of(e)
  <2>1. n \in Nat /\ more \in Seq(Entries(items)) /\ Len(more) = n + 1 /\ more[n + 1] = e
        /\ \A k \in 1 .. n : more[k] = out[k]
    OBVIOUS
  <2>2. Parts(q, items, out) = FlattenSeq(a) /\ Parts(q, items, more) = FlattenSeq(b)
    BY DEF Parts, Of
  <2> HIDE DEF more, ss
  <2>3. a \in Seq(Seq(Shows)) /\ Len(a) = n /\ \A k \in 1 .. n : a[k] = Of(out[k])
    BY <1>3
  <2>4. b \in Seq(Seq(Shows)) /\ Len(b) = n + 1 /\ \A k \in 1 .. n + 1 : b[k] = Of(more[k])
    BY <1>3, <2>1
  <2>5. x \in Seq(Shows)
    BY <1>2
  <2>6. b = Append(a, x)
    <3> HIDE DEF a, b, x, n
    <3>1. (\A k \in 1 .. n : b[k] = a[k]) /\ b[n + 1] = x
      BY <2>1, <2>3, <2>4 DEF x
    <3>2. /\ Append(a, x) \in Seq(Seq(Shows)) /\ Len(Append(a, x)) = n + 1
          /\ (\A k \in 1 .. n : Append(a, x)[k] = a[k]) /\ Append(a, x)[n + 1] = x
      BY <2>1, <2>3, <2>5
    <3>3. \A k \in 1 .. Len(b) : b[k] = Append(a, x)[k]
      BY <2>1, <2>4, <3>1, <3>2
    <3> QED
      BY <2>4, <3>2, <3>3, SeqEqual
  <2> HIDE DEF a, b, x
  <2>7. FlattenSeq(b) = FlattenSeq(a) \o x
    BY <2>3, <2>5, <2>6, FlattenedAppend
  <2> QED
    BY <2>2, <2>7 DEF more, x
<1> QED
  BY <1>1, <1>2, <1>4, <1>5 DEF Of

\* What is taken of an item: as much as fits, and at least a part when the page is empty.
Use(item, from, n) == item.head + Sum(item.parts, from + 1, from + n)

LEMMA TakenFacts ==
  ASSUME NEW q, NEW item, IsItem(q, item), NEW from \in 0 .. Len(item.parts), NEW budget \in Nat, NEW first \in BOOLEAN
  PROVE  LET t == Taken(item, from, budget, first)
         IN  /\ t \in Nat /\ from + t <= Len(item.parts)
             /\ t > 0 => Use(item, from, t) <= budget \/ (first /\ t = 1)
             /\ first /\ from < Len(item.parts) => t > 0
<1> DEFINE n == Len(item.parts) - from
           Fits(m) == \/ Use(item, from, m) <= budget
                      \/ first /\ m = 1
           s == {m \in 0 .. n : \A l \in 1 .. m : Fits(l)}
           t == Max(s)
<1>1. Taken(item, from, budget, first) = t
  BY DEF Taken, Use
<1>2. Len(item.parts) \in Nat /\ from \in Nat /\ n \in Nat
  BY DEF IsItem
<1>3. s \in SUBSET (0 .. n) /\ s # {}
  <2>1. 0 \in 0 .. n /\ \A l \in 1 .. 0 : Fits(l)
    BY <1>2
  <2> HIDE DEF Fits, n
  <2> QED
    BY <2>1
<1>4. t \in s /\ \A k \in s : k <= t
  <2> HIDE DEF s, n
  <2> QED
    BY <1>2, <1>3, GreatestFromZero
<1> HIDE DEF t
<1>5. t \in 0 .. n /\ \A l \in 1 .. t : Fits(l)
  BY <1>4
<1>6. t > 0 => Fits(t)
  <2> HIDE DEF Fits
  <2> SUFFICES ASSUME t > 0 PROVE Fits(t)
    OBVIOUS
  <2>1. t \in 1 .. t
    BY <1>2, <1>5
  <2> QED
    BY <1>5, <2>1
<1>7. first /\ from < Len(item.parts) => t > 0
  <2> SUFFICES ASSUME first, from < Len(item.parts) PROVE t > 0
    OBVIOUS
  <2>1. 1 \in 0 .. n
    BY <1>2
  <2>2. \A l \in 1 .. 1 : Fits(l)
    OBVIOUS
  <2> HIDE DEF Fits, n
  <2>3. 1 \in s
    BY <2>1, <2>2
  <2> QED
    BY <1>2, <1>4, <1>5, <2>3
<1>8. t \in Nat /\ from + t <= Len(item.parts)
  BY <1>2, <1>5
<1> HIDE DEF n, s
<1> QED
  BY <1>1, <1>6, <1>7, <1>8

\* What is shown of an item where another page stopped goes on with it.
LEMMA ReachedGoesOn ==
  ASSUME NEW q, NEW items, IsItems(q, items), NEW k \in 1 .. Len(items),
         NEW from \in Nat, NEW upto \in Nat, from <= upto, upto <= Len(items[k].parts)
  PROVE  LET more == Reached(q, items, k, from) \o Shown(q, items[k].at, from, upto)
         IN  /\ Reached(q, items, k, from) \in Seq(Shows)
             /\ upto > 0 => more = Reached(q, items, k, upto)
             /\ upto = Len(items[k].parts) => more = Ahead(q, items, k)
<1> DEFINE at == items[k].at
           a == Ahead(q, items, k - 1)
           b == Begun(q, at, from)
           c == Shown(q, at, from, upto)
           d == Shown(q, at, 0, upto)
<1>1. Len(items) \in Nat /\ IsItem(q, items[k]) /\ k - 1 \in 0 .. Len(items)
  BY DEF IsItems
<1>2. at \in Units
  BY <1>1 DEF IsItem
<1>3. \A x \in Nat : \A y \in Nat : x <= y => Shown(q, at, x, y) \in Seq(Shows)
  <2> SUFFICES ASSUME NEW x \in Nat, NEW y \in Nat, x <= y PROVE Shown(q, at, x, y) \in Seq(Shows)
    OBVIOUS
  <2> DEFINE S == {at[1]} \X {at[2], 0} \X Nat
  <2>1. Shown(q, at, x, y) \in Seq(S)
    BY ShownFacts
  <2>2. S \subseteq Shows
    BY <1>2 DEF Units, Shows
  <2> HIDE DEF S
  <2> QED
    BY <2>1, <2>2
<1>4. a \in Seq(Shows)
  <2> DEFINE ss == [l \in 1 .. k - 1 |-> Shown(q, items[l].at, 0, Len(items[l].parts))]
  <2>1. \A l \in 1 .. k - 1 : Shown(q, items[l].at, 0, Len(items[l].parts)) \in Seq(Shows)
    <3> SUFFICES ASSUME NEW l \in 1 .. k - 1 PROVE Shown(q, items[l].at, 0, Len(items[l].parts)) \in Seq(Shows)
      OBVIOUS
    <3>1. l \in 1 .. Len(items)
      BY <1>1
    <3>2. IsItem(q, items[l]) /\ Len(items[l].parts) \in Nat
      BY <3>1 DEF IsItems, IsItem
    <3> QED
      BY <3>2, ShownPiece DEF Lists
  <2>2. ss \in Seq(Seq(Shows))
    BY <1>1, <2>1
  <2>3. a = FlattenSeq(ss)
    BY DEF Ahead
  <2> HIDE DEF ss, a
  <2> QED
    BY <2>2, <2>3, FlattenedType
<1>5. b \in Seq(Shows) /\ c \in Seq(Shows) /\ d \in Seq(Shows)
  <2>1. 0 \in Nat /\ 0 <= upto /\ 0 <= from
    OBVIOUS
  <2>2. c \in Seq(Shows) /\ d \in Seq(Shows) /\ Shown(q, at, 0, from) \in Seq(Shows)
    BY <1>3, <2>1
  <2> HIDE DEF at
  <2>3. b = <<>> \/ b = Shown(q, at, 0, from)
    BY DEF Begun
  <2>4. <<>> \in Seq(Shows)
    OBVIOUS
  <2> HIDE DEF b
  <2> QED
    BY <2>2, <2>3, <2>4
<1>6. b \o c = d
  BY GoesOn
<1>7. Reached(q, items, k, from) = a \o b
  BY DEF Reached
<1>8. upto > 0 => Reached(q, items, k, upto) = a \o d
  <2>1. upto > 0 => upto # 0
    OBVIOUS
  <2>2. upto # 0 => Begun(q, at, upto) = d
    BY DEF Begun
  <2> QED
    BY <2>1, <2>2 DEF Reached
<1>9. upto = Len(items[k].parts) => Ahead(q, items, k) = a \o d
  BY AheadGrows
<1> HIDE DEF at, a, b, c, d
<1>10. (a \o b) \o c = a \o (b \o c) /\ a \o b \in Seq(Shows)
  <2>1. (a \o b) \o c = a \o (b \o c)
    <3>1. IsOver(a, Shows) /\ IsOver(b, Shows) /\ IsOver(c, Shows)
      BY <1>4, <1>5 DEF IsOver
    <3>2. Regroup(a, b, c)
      BY ONLY <3>1, Joining
    <3> QED
      BY ONLY <3>2 DEF Regroup
  <2> QED
    BY <1>4, <1>5, <2>1
<1> QED
  BY <1>6, <1>7, <1>8, <1>9, <1>10 DEF c, at

\* A page that is being filled, a place in the items, a page that keeps to its budget or
\* holds a single part, and one that leads on from what was given before.
Fillings(items) == [out : Seq(Entries(items)), left : Nat, next : [item : Nat, inner : Nat]]
Pointed(items, c) ==
  /\ c.item \in 1 .. Len(items) /\ c.inner \in Nat
  /\ c.inner = 0 \/ c.inner < Len(items[c.item].parts)
Fitting(items, s, budget) ==
  \/ SizeOf(items, s.out) + s.left <= budget + ENVELOPE_BYTES
  \/ s.left = 0 /\ Len(s.out) = 1 /\ s.out[1].upto - s.out[1].from <= 1
LeadsOn(q, items, lead, k, s) ==
  /\ s.out # <<>>
  /\ s.next = NoCursor => lead \o Parts(q, items, s.out) = Ahead(q, items, k)
  /\ s.next # NoCursor =>
       /\ Pointed(items, s.next)
       /\ lead \o Parts(q, items, s.out) = Reached(q, items, s.next.item, s.next.inner)

\* An entry that is added leads on, to the end of its item or to the part after it.
LEMMA EntryLeadsOn ==
  ASSUME NEW q, NEW items, IsItems(q, items), NEW lead \in Seq(Shows),
         NEW out \in Seq(Entries(items)), NEW e \in Entries(items),
         lead \o Parts(q, items, out) = Reached(q, items, e.item, e.from)
  PROVE  LET all == lead \o Parts(q, items, Append(out, e))
         IN  /\ Append(out, e) \in Seq(Entries(items)) /\ Append(out, e) # <<>>
             /\ e.upto > 0 => all = Reached(q, items, e.item, e.upto)
             /\ e.upto = Len(items[e.item].parts) => all = Ahead(q, items, e.item)
<1> DEFINE p == Parts(q, items, out)
           x == Shown(q, items[e.item].at, e.from, e.upto)
           more == Append(out, e)
<1>1. /\ e.item \in 1 .. Len(items) /\ e.from \in Nat /\ e.upto \in Nat /\ e.from <= e.upto
      /\ e.upto <= Len(items[e.item].parts)
  BY DEF Entries
<1>2. more \in Seq(Entries(items)) /\ more # <<>>
  <2> DEFINE E == Entries(items)
  <2> HIDE DEF E
  <2>1. out \in Seq(E) /\ e \in E
    BY DEF E
  <2> QED
    BY <2>1 DEF E
<1>3. p \in Seq(Shows) /\ x \in Seq(Shows) /\ Parts(q, items, more) = p \o x
  BY PartsGrow
<1> DEFINE r == Reached(q, items, e.item, e.from)
<1>4. /\ e.upto > 0 => r \o x = Reached(q, items, e.item, e.upto)
      /\ e.upto = Len(items[e.item].parts) => r \o x = Ahead(q, items, e.item)
  BY <1>1, ReachedGoesOn
<1> HIDE DEF p, x, more, r
<1>5. lead \o (p \o x) = (lead \o p) \o x
  <2>1. IsOver(lead, Shows) /\ IsOver(p, Shows) /\ IsOver(x, Shows)
    BY <1>3 DEF IsOver
  <2>2. Regroup(lead, p, x)
    BY ONLY <2>1, Joining
  <2> QED
    BY ONLY <2>2 DEF Regroup
<1>6. lead \o p = r
  BY DEF p, r
<1> QED
  BY <1>2, <1>3, <1>4, <1>5, <1>6 DEF more

\* So does a turn, from an item to the next one or to the place where it stops.
LEMMA TurnFacts ==
  ASSUME NEW q, NEW items, IsItems(q, items), NEW i, NEW j, NEW k \in 1 .. Len(items),
         NEW from, from = (IF k = i THEN j ELSE 0), Pointed(items, [item |-> k, inner |-> from]),
         NEW lead \in Seq(Shows), NEW budget \in Nat,
         NEW s \in Fillings(items), s.next = NoCursor, Fitting(items, s, budget),
         lead \o Parts(q, items, s.out) = Reached(q, items, k, from)
  PROVE  LET t == Turn(items, i, j, k, s)
         IN  t \in Fillings(items) /\ Fitting(items, t, budget) /\ LeadsOn(q, items, lead, k, t)
<1> DEFINE n == Len(items[k].parts)
           t == Taken(items[k], from, s.left, s.out = <<>>)
           used == items[k].head + Sum(items[k].parts, from + 1, from + t)
           whole == from + t = n
           entry == [item |-> k, from |-> from, upto |-> from + t]
           more == Append(s.out, entry)
           after == Turn(items, i, j, k, s)
           c == [item |-> k, inner |-> from + (IF whole THEN 0 ELSE t)]
           closed == [out |-> more, left |-> MonusOf(s.left, used), next |-> NoCursor]
           cut == [out |-> IF t > 0 /\ ~whole THEN more ELSE s.out, left |-> MonusOf(s.left, used), next |-> c]
<1>1. IsItem(q, items[k]) /\ n \in Nat /\ from \in 0 .. n /\ (from = 0 \/ from < n) /\ Len(items) \in Nat
      /\ from \in Nat /\ k \in Nat
  <2>1. IsItem(q, items[k]) /\ n \in Nat
    BY DEF IsItems, IsItem
  <2>2. from \in Nat /\ (from = 0 \/ from < n)
    BY DEF Pointed
  <2> HIDE DEF n
  <2> QED
    BY <2>1, <2>2 DEF IsItems
<1>2. s.out \in Seq(Entries(items)) /\ s.left \in Nat
  BY DEF Fillings
<1>3. /\ t \in Nat /\ from + t <= n
      /\ t > 0 => used <= s.left \/ (s.out = <<>> /\ t = 1)
      /\ s.out = <<>> /\ from < n => t > 0
  <2> DEFINE first == s.out = <<>>
             u == Taken(items[k], from, s.left, first)
  <2>1. first \in BOOLEAN /\ t = u
    OBVIOUS
  <2> HIDE DEF first
  <2>2. /\ u \in Nat /\ from + u <= Len(items[k].parts)
        /\ u > 0 => Use(items[k], from, u) <= s.left \/ (first /\ u = 1)
        /\ first /\ from < Len(items[k].parts) => u > 0
    BY ONLY <1>1, <1>2, <2>1, TakenFacts
  <2> HIDE DEF u
  <2>3. used = Use(items[k], from, u)
    BY <2>1 DEF Use
  <2> HIDE DEF t, used
  <2> QED
    BY <2>1, <2>2, <2>3 DEF first
<1>4. after = IF whole /\ (used <= s.left \/ s.out = <<>>) THEN closed ELSE cut
  BY DEF Turn
<1> HIDE DEF t, n
<1>5. entry \in Entries(items)
  <2>1. from + t \in Nat /\ from <= from + t
    BY <1>1, <1>3
  <2> QED
    BY <1>1, <1>3, <2>1 DEF Entries, n
<1>6. used \in Nat \ {0} /\ used = EntrySize(items, entry)
  <2>1. used = EntrySize(items, entry)
    BY DEF EntrySize
  <2> HIDE DEF entry, used
  <2> QED
    BY <1>5, <2>1, EntrySized
<1>7. /\ more \in Seq(Entries(items)) /\ more # <<>>
      /\ from + t > 0 => lead \o Parts(q, items, more) = Reached(q, items, k, from + t)
      /\ whole => lead \o Parts(q, items, more) = Ahead(q, items, k)
  <2>1. entry.item = k /\ entry.from = from /\ entry.upto = from + t
    OBVIOUS
  <2> HIDE DEF entry
  <2>2. lead \o Parts(q, items, s.out) = Reached(q, items, entry.item, entry.from)
    BY <2>1
  <2> DEFINE all == lead \o Parts(q, items, Append(s.out, entry))
  <2>3. /\ Append(s.out, entry) \in Seq(Entries(items)) /\ Append(s.out, entry) # <<>>
        /\ entry.upto > 0 => all = Reached(q, items, entry.item, entry.upto)
        /\ entry.upto = Len(items[entry.item].parts) => all = Ahead(q, items, entry.item)
    BY <1>2, <1>5, <2>2, EntryLeadsOn
  <2> QED
    BY <2>1, <2>3 DEF n
<1>8. SizeOf(items, s.out) \in Nat /\ SizeOf(items, more) = SizeOf(items, s.out) + used
  <2> HIDE DEF entry, used
  <2> QED
    BY <1>2, <1>5, <1>6, SizeGrows
<1>9. budget \in Nat /\ ENVELOPE_BYTES \in Nat /\ MonusOf(s.left, used) \in Nat /\ MonusOf(s.left, used) <= s.left
      /\ (used <= s.left => MonusOf(s.left, used) = s.left - used)
      /\ (used > s.left => MonusOf(s.left, used) = 0)
  <2> HIDE DEF used
  <2> QED
    BY <1>2, <1>6, PageBounds DEF MonusOf
<1>10. s.out = <<>> => Len(more) = 1 /\ more[1] = entry /\ entry.upto - entry.from = t
  BY <1>1, <1>3
<1>11. ASSUME NEW x, x.out = more, x.left = MonusOf(s.left, used),
              used <= s.left \/ (s.out = <<>> /\ t <= 1)
       PROVE  Fitting(items, x, budget)
  <2> HIDE DEF more, used, entry
  <2>1. CASE used <= s.left
    <3>1. SizeOf(items, s.out) + s.left <= budget + ENVELOPE_BYTES
      BY <1>2, <1>6, <2>1 DEF Fitting
    <3> DEFINE z == SizeOf(items, s.out)
    <3>2. z \in Nat /\ SizeOf(items, x.out) = z + used /\ z + s.left <= budget + ENVELOPE_BYTES
      BY <1>8, <1>11, <3>1
    <3>3. x.left = s.left - used
      BY <1>9, <1>11, <2>1
    <3> HIDE DEF z
    <3>4. (z + used) + (s.left - used) = z + s.left
      BY <1>2, <1>6, <3>2
    <3> QED
      BY <3>2, <3>3, <3>4 DEF Fitting
  <2>2. CASE ~(used <= s.left)
    <3>1. used > s.left
      BY <1>2, <1>6, <2>2
    <3>2. x.left = 0 /\ s.out = <<>> /\ t <= 1
      BY <1>9, <1>11, <2>2, <3>1
    <3> QED
      BY <1>10, <1>11, <3>2 DEF Fitting
  <2> QED
    BY <2>1, <2>2
<1> HIDE DEF used, more, entry
<1>12. CASE whole /\ (used <= s.left \/ s.out = <<>>)
  <2>1. after = closed
    BY <1>4, <1>12
  <2>2. closed \in Fillings(items)
    BY <1>7, <1>9 DEF Fillings, NoCursor
  <2>3. used <= s.left \/ (s.out = <<>> /\ t <= 1)
    <3>1. t = 0 => t <= 1
      OBVIOUS
    <3> QED
      BY <1>3, <1>12, <3>1
  <2>4. Fitting(items, closed, budget)
    BY <1>11, <2>3
  <2>5. LeadsOn(q, items, lead, k, closed)
    BY <1>7, <1>12 DEF LeadsOn
  <2> QED
    BY <2>1, <2>2, <2>4, <2>5
<1>13. CASE ~(whole /\ (used <= s.left \/ s.out = <<>>))
  <2>1. after = cut
    BY <1>4, <1>13
  <2>2. c.item = k /\ c.inner \in Nat /\ cut.next = c /\ c # NoCursor /\ cut.left = MonusOf(s.left, used)
        /\ c \in [item : Nat, inner : Nat]
    BY <1>1, <1>3 DEF NoCursor
  <2>3. c.inner = IF whole THEN from ELSE from + t
    BY <1>1
  <2> HIDE DEF c
  <2>4. Pointed(items, c)
    BY <1>1, <1>3, <2>2, <2>3 DEF Pointed, n
  <2>5. CASE t > 0 /\ ~whole
    <3>1. cut.out = more /\ c.inner = from + t /\ from + t > 0
      BY <1>1, <1>3, <2>3, <2>5
    <3> HIDE DEF whole
    <3>2. cut \in Fillings(items)
      BY <1>7, <1>9, <2>2, <2>5 DEF Fillings
    <3>3. used <= s.left \/ (s.out = <<>> /\ t <= 1)
      BY <1>3, <2>5
    <3>4. Fitting(items, cut, budget)
      <4> HIDE DEF cut
      <4> QED
        BY <1>11, <2>2, <3>1, <3>3
    <3>5. LeadsOn(q, items, lead, k, cut)
      <4> HIDE DEF cut
      <4> QED
        BY <1>7, <2>2, <2>4, <3>1 DEF LeadsOn
    <3> QED
      BY <2>1, <3>2, <3>4, <3>5
  <2>6. CASE ~(t > 0 /\ ~whole)
    <3>1. cut.out = s.out
      BY <2>6
    <3>2. c.inner = from
      BY <1>1, <1>3, <2>3, <2>6
    <3>3. s.out # <<>>
      BY <1>1, <1>3, <1>13, <2>6
    <3>4. cut \in Fillings(items)
      BY <1>2, <1>9, <2>2, <2>6 DEF Fillings
    <3> HIDE DEF whole, cut
    <3>5. Fitting(items, cut, budget)
      <4> DEFINE z == SizeOf(items, s.out)
                 y == MonusOf(s.left, used)
      <4>1. z \in Nat /\ y \in Nat /\ y <= s.left /\ cut.left = y
        BY <1>8, <1>9, <2>2
      <4>2. CASE z + s.left <= budget + ENVELOPE_BYTES
        <5> HIDE DEF z, y
        <5>1. z + y <= budget + ENVELOPE_BYTES
          BY <1>2, <1>9, <4>1, <4>2
        <5> QED
          BY <3>1, <4>1, <5>1 DEF Fitting, z
      <4>3. CASE s.left = 0 /\ Len(s.out) = 1 /\ s.out[1].upto - s.out[1].from <= 1
        <5> HIDE DEF z, y
        <5>1. y = 0
          BY <4>1, <4>3
        <5> QED
          BY <3>1, <4>1, <4>3, <5>1 DEF Fitting
      <4> QED
        BY <4>2, <4>3 DEF Fitting
    <3>6. LeadsOn(q, items, lead, k, cut)
      BY <2>2, <2>4, <3>1, <3>2, <3>3 DEF LeadsOn
    <3> QED
      BY <2>1, <3>4, <3>5, <3>6
  <2> QED
    BY <2>5, <2>6
<1> QED
  BY <1>12, <1>13

\* The page after each turn, when it begins at part j of item i.
Fresh(budget) == [out |-> <<>>, left |-> budget, next |-> NoCursor]
AfterTurn(items, i, j, budget, k, s) == IF k < i THEN Fresh(budget) ELSE Turn(items, i, j, k, s)
Holding(q, items, i, j, budget, k, s) ==
  /\ s \in Fillings(items) /\ Fitting(items, s, budget)
  /\ k < i => s = Fresh(budget)
  /\ k >= i => LeadsOn(q, items, Reached(q, items, i, j), k, s)

LEMMA FreshFacts ==
  ASSUME NEW q, NEW items, IsItems(q, items), NEW budget \in Nat
  PROVE  /\ Fresh(budget) \in Fillings(items) /\ Fitting(items, Fresh(budget), budget)
         /\ \A lead \in Seq(Shows) : lead \o Parts(q, items, <<>>) = lead
<1> DEFINE E == Entries(items)
<1>1. <<>> \in Seq(E) /\ NoCursor \in [item : Nat, inner : Nat]
  BY DEF NoCursor
<1> HIDE DEF E
<1>2. Fresh(budget) \in [out : Seq(E), left : Nat, next : [item : Nat, inner : Nat]]
  BY <1>1 DEF Fresh
<1>3. SizeOf(items, <<>>) = ENVELOPE_BYTES /\ Parts(q, items, <<>>) = <<>> /\ ENVELOPE_BYTES \in Nat
  BY SizeGrows, PartsGrow, PageBounds
<1>4. Fresh(budget).out = <<>> /\ Fresh(budget).left = budget
  BY DEF Fresh
<1>5. Fitting(items, Fresh(budget), budget)
  BY <1>3, <1>4 DEF Fitting
<1>6. \A lead \in Seq(Shows) : lead \o Parts(q, items, <<>>) = lead
  BY <1>3, ConcatEmptySeq
<1> QED
  BY <1>2, <1>5, <1>6 DEF Fillings, E

\* A turn keeps it so.
LEMMA TurnHolds ==
  ASSUME NEW q, NEW items, IsItems(q, items), NEW i, NEW j, Pointed(items, [item |-> i, inner |-> j]),
         NEW budget \in Nat, NEW k \in 1 .. Len(items), NEW s, Holding(q, items, i, j, budget, k - 1, s)
  PROVE  Holding(q, items, i, j, budget, k, AfterTurn(items, i, j, budget, k, s))
<1> DEFINE lead == Reached(q, items, i, j)
           t == Turn(items, i, j, k, s)
<1>1. /\ Len(items) \in Nat /\ k \in Nat /\ k - 1 \in Nat
      /\ i \in 1 .. Len(items) /\ i \in Nat /\ j \in Nat /\ (j = 0 \/ j < Len(items[i].parts))
  BY DEF IsItems, Pointed
<1>2. lead \in Seq(Shows)
  <2>1. Len(items[i].parts) \in Nat
    BY <1>1 DEF IsItems, IsItem
  <2>2. j <= Len(items[i].parts)
    BY <1>1, <2>1
  <2>3. j <= j
    BY <1>1
  <2> HIDE DEF lead
  <2> QED
    BY <1>1, <2>2, <2>3, ReachedGoesOn DEF lead
<1>3. s \in Fillings(items) /\ Fitting(items, s, budget)
  BY DEF Holding
<1>4. CASE k < i
  <2>1. AfterTurn(items, i, j, budget, k, s) = Fresh(budget) /\ ~(k >= i)
    BY <1>1, <1>4 DEF AfterTurn
  <2>2. Fresh(budget) \in Fillings(items) /\ Fitting(items, Fresh(budget), budget)
    BY FreshFacts
  <2> QED
    BY <2>1, <2>2 DEF Holding
<1>5. CASE k = i
  <2>1. k - 1 < i /\ ~(k < i)
    BY <1>1, <1>5
  <2>2. s = Fresh(budget) /\ s.out = <<>> /\ s.next = NoCursor
    BY <2>1 DEF Holding, Fresh
  <2>3. lead \o Parts(q, items, s.out) = Reached(q, items, k, j)
    BY <1>2, <1>5, <2>2, FreshFacts
  <2>4. j = (IF k = i THEN j ELSE 0) /\ Pointed(items, [item |-> k, inner |-> j])
    BY <1>5
  <2> HIDE DEF lead
  <2>5. t \in Fillings(items) /\ Fitting(items, t, budget) /\ LeadsOn(q, items, lead, k, t)
    BY <1>2, <1>3, <2>2, <2>3, <2>4, TurnFacts
  <2>6. AfterTurn(items, i, j, budget, k, s) = t
    BY <2>1 DEF AfterTurn
  <2> HIDE DEF t
  <2> QED
    BY <2>1, <2>5, <2>6 DEF Holding, lead
<1>6. CASE k > i
  <2>1. k - 1 >= i /\ ~(k < i) /\ ~(k = i)
    BY <1>1, <1>6
  <2>2. LeadsOn(q, items, lead, k - 1, s)
    BY <2>1 DEF Holding
  <2>3. AfterTurn(items, i, j, budget, k, s) = t
    BY <2>1 DEF AfterTurn
  <2>4. CASE s.next # NoCursor
    <3>1. t = s
      BY <2>4 DEF Turn
    <3>2. LeadsOn(q, items, lead, k, s)
      BY <2>2, <2>4 DEF LeadsOn
    <3> HIDE DEF t
    <3> QED
      BY <1>3, <2>1, <2>3, <3>1, <3>2 DEF Holding, lead
  <2>5. CASE s.next = NoCursor
    <3>1. lead \o Parts(q, items, s.out) = Ahead(q, items, k - 1)
      BY <2>2, <2>5 DEF LeadsOn
    <3>2. Parts(q, items, s.out) \in Seq(Shows)
      BY <1>3, PartsGrow DEF Fillings
    <3>3. Ahead(q, items, k - 1) \in Seq(Shows)
      <4> HIDE DEF lead
      <4> QED
        BY <1>2, <3>1, <3>2, ConcatProperties
    <3>4. Reached(q, items, k, 0) = Ahead(q, items, k - 1)
      BY <3>3, ConcatEmptySeq DEF Reached, Begun
    <3>5. 0 = (IF k = i THEN j ELSE 0) /\ Pointed(items, [item |-> k, inner |-> 0])
      BY <2>1 DEF Pointed
    <3> HIDE DEF lead
    <3>6. t \in Fillings(items) /\ Fitting(items, t, budget) /\ LeadsOn(q, items, lead, k, t)
      BY <1>2, <1>3, <2>5, <3>1, <3>4, <3>5, TurnFacts
    <3> HIDE DEF t
    <3> QED
      BY <2>1, <2>3, <3>6 DEF Holding, lead
  <2> QED
    BY <2>4, <2>5
<1> QED
  BY <1>1, <1>4, <1>5, <1>6

\* A page from a place leads on from it, and keeps to its budget.
LEMMA FilledFacts ==
  ASSUME NEW q, NEW items, IsItems(q, items), NEW i, NEW j, Pointed(items, [item |-> i, inner |-> j]),
         NEW budget \in Nat
  PROVE  LET f == Filled(items, i, j, budget)
         IN  f \in Fillings(items) /\ Fitting(items, f, budget)
             /\ LeadsOn(q, items, Reached(q, items, i, j), Len(items), f)
<1> DEFINE n == Len(items)
           S == Fillings(items)
           base == Fresh(budget)
           Step(k, s) == AfterTurn(items, i, j, budget, k, s)
           Good(k, s) == Holding(q, items, i, j, budget, k, s)
           G == [k \in 1 .. n |-> [s \in S |-> IF Step(k, s) \in S THEN Step(k, s) ELSE base]]
           Flat(f) == f = [k \in 0 .. n |-> IF k < i THEN [out |-> <<>>, left |-> budget, next |-> NoCursor]
                                            ELSE Turn(items, i, j, k, f[k - 1])]
           flat == CHOOSE f : Flat(f)
<1>1. n \in Nat /\ i \in 1 .. n /\ i \in Nat /\ ~(0 >= i) /\ 0 < i
  BY DEF IsItems, Pointed
<1>2. base \in S /\ Good(0, base)
  BY <1>1, FreshFacts DEF Holding
<1>3. ASSUME NEW k \in 1 .. n, NEW s, Good(k - 1, s) PROVE Good(k, Step(k, s)) /\ Step(k, s) \in S
  <2>1. Good(k, Step(k, s))
    BY <1>3, TurnHolds
  <2> QED
    BY <2>1 DEF Holding
<1>4. \A k \in 1 .. n : \A s \in S : G[k][s] = IF Step(k, s) \in S THEN Step(k, s) ELSE base
  OBVIOUS
<1>5. G \in [1 .. n -> [S -> S]]
  <2>1. \A k \in 1 .. n : [s \in S |-> IF Step(k, s) \in S THEN Step(k, s) ELSE base] \in [S -> S]
    BY <1>2
  <2> QED
    BY <2>1
<1>6. \A f : Flat(f) <=> f = [k \in 0 .. n |-> IF k = 0 THEN base ELSE Step(k, f[k - 1])]
  <2> SUFFICES ASSUME NEW f
               PROVE  [k \in 0 .. n |-> IF k < i THEN [out |-> <<>>, left |-> budget, next |-> NoCursor]
                                        ELSE Turn(items, i, j, k, f[k - 1])]
                        = [k \in 0 .. n |-> IF k = 0 THEN base ELSE Step(k, f[k - 1])]
    OBVIOUS
  <2>1. ASSUME NEW k \in 0 .. n
        PROVE  (IF k < i THEN [out |-> <<>>, left |-> budget, next |-> NoCursor]
                ELSE Turn(items, i, j, k, f[k - 1])) = IF k = 0 THEN base ELSE Step(k, f[k - 1])
    <3>1. k = 0 => k < i
      BY <1>1
    <3> QED
      BY <3>1 DEF AfterTurn, Fresh
  <2> QED
    BY <2>1
<1>7. Filled(items, i, j, budget) = flat[n]
  BY DEF Filled
<1> HIDE DEF n, S, base, Step, Good, G, Flat
<1>8. ASSUME NEW f, f[0] = base, \A k \in 1 .. n : Good(k - 1, f[k - 1]) => f[k] = Step(k, f[k - 1])
      PROVE  \A k \in 0 .. n : Good(k, f[k])
  <2> DEFINE T == {k \in Nat : k <= n => Good(k, f[k])}
  <2>1. 0 \in T
    BY <1>2, <1>8
  <2>2. ASSUME NEW k \in Nat, k \in T PROVE k + 1 \in T
    <3> SUFFICES ASSUME k + 1 <= n PROVE Good(k + 1, f[k + 1])
      OBVIOUS
    <3>1. k + 1 \in 1 .. n /\ (k + 1) - 1 = k /\ Good(k, f[k])
      BY <1>1, <2>2
    <3>2. f[k + 1] = Step(k + 1, f[k])
      BY <1>8, <3>1
    <3> QED
      BY <1>3, <3>1, <3>2
  <2> HIDE DEF T
  <2>3. \A k \in Nat : k \in T
    BY <2>1, <2>2, Induction
  <2> QED
    BY <1>1, <2>3 DEF T
<1>9. PICK g : StepsFrom(g, n, S, base, G)
  BY <1>1, <1>2, <1>5, Recursion
<1>10. \A k \in 1 .. n : Good(k - 1, g[k - 1]) => g[k] = Step(k, g[k - 1])
  <2> SUFFICES ASSUME NEW k \in 1 .. n, Good(k - 1, g[k - 1]) PROVE g[k] = Step(k, g[k - 1])
    OBVIOUS
  <2>1. k - 1 \in 0 .. n
    BY <1>1
  <2>2. g[k] = G[k][g[k - 1]] /\ g[k - 1] \in S
    BY <1>9, <2>1 DEF StepsFrom
  <2>3. Step(k, g[k - 1]) \in S
    BY <1>3
  <2> QED
    BY <1>4, <2>2, <2>3
<1>11. \A k \in 0 .. n : Good(k, g[k])
  BY <1>8, <1>9, <1>10 DEF StepsFrom
<1>12. g = [k \in 0 .. n |-> IF k = 0 THEN base ELSE Step(k, g[k - 1])]
  <2>1. g = [k \in 0 .. n |-> g[k]] /\ g[0] = base
    BY <1>9 DEF StepsFrom
  <2>2. ASSUME NEW k \in 0 .. n PROVE g[k] = IF k = 0 THEN base ELSE Step(k, g[k - 1])
    <3>1. CASE k = 0
      BY <2>1, <3>1
    <3>2. CASE k # 0
      <4>1. k \in 1 .. n /\ k - 1 \in 0 .. n
        BY <1>1, <3>2
      <4> QED
        BY <1>10, <1>11, <3>2, <4>1
    <3> QED
      BY <3>1, <3>2
  <2> QED
    BY <2>1, <2>2
<1>13. Flat(flat)
  BY <1>6, <1>12
<1>14. flat = [k \in 0 .. n |-> IF k = 0 THEN base ELSE Step(k, flat[k - 1])]
  BY <1>6, <1>13
<1> HIDE DEF flat
<1>15. flat[0] = base /\ \A k \in 1 .. n : flat[k] = Step(k, flat[k - 1])
  BY <1>1, <1>14
<1>16. Good(n, flat[n])
  BY <1>1, <1>8, <1>15
<1>17. n >= i
  BY <1>1
<1> QED
  BY <1>7, <1>16, <1>17 DEF Good, S, n, Holding

\* There is nothing to give when there are no items.
LEMMA NothingFilled ==
  ASSUME NEW items, Len(items) = 0, NEW budget
  PROVE  Filled(items, 1, 0, budget) = Fresh(budget)
<1> DEFINE base == [out |-> <<>>, left |-> budget, next |-> NoCursor]
           Flat(f) == f = [k \in 0 .. Len(items) |-> IF k < 1 THEN base ELSE Turn(items, 1, 0, k, f[k - 1])]
           flat == CHOOSE f : Flat(f)
           g == [k \in 0 .. Len(items) |-> base]
<1>1. \A k \in 0 .. Len(items) : k < 1 /\ k = 0
  OBVIOUS
<1>2. Flat(g)
  <2> HIDE DEF base
  <2> QED
    BY <1>1
<1>3. Flat(flat)
  BY <1>2
<1>4. Filled(items, 1, 0, budget) = flat[Len(items)]
  BY DEF Filled
<1> HIDE DEF flat, base
<1>5. flat[0] = base
  BY <1>3
<1> QED
  BY <1>4, <1>5 DEF base, Fresh

\* A place where a page can begin: none, when there is nothing to give.
Starts(items, i, j) == \/ Pointed(items, [item |-> i, inner |-> j])
                       \/ Len(items) = 0 /\ i = 1 /\ j = 0
Budgets == {m \in Nat : m >= MIN_MAX_BYTES}
InBudget(a, max) ==
  \/ a.size <= max
  \/ Len(a.out) = 1 /\ a.out[1].upto - a.out[1].from <= 1
Answers(q, items, i, j, a) ==
  /\ a.out \in Seq(Entries(items)) /\ a.size \in Nat /\ a.next \in [item : Nat, inner : Nat]
  /\ Len(items) # 0 => LeadsOn(q, items, Reached(q, items, i, j), Len(items), a)
  /\ Len(items) = 0 => a.out = <<>> /\ a.next = NoCursor

LEMMA AnswerFacts ==
  ASSUME NEW q, IsItems(q, Items(q)), NEW i, NEW j, Starts(Items(q), i, j), NEW max \in Budgets
  PROVE  Answers(q, Items(q), i, j, Answer(q, i, j, max)) /\ InBudget(Answer(q, i, j, max), max)
<1> DEFINE items == Items(q)
           budget == max - ENVELOPE_BYTES
           f == Filled(items, i, j, budget)
           a == Answer(q, i, j, max)
<1>1. budget \in Nat /\ max \in Nat /\ budget + ENVELOPE_BYTES = max /\ ENVELOPE_BYTES \in Nat
  BY PageBounds DEF Budgets
<1>2. a = [out |-> f.out, next |-> f.next, size |-> SizeOf(items, f.out)]
  BY DEF Answer, Measured
<1>3. a.out = f.out /\ a.next = f.next /\ a.size = SizeOf(items, f.out)
  BY <1>2
<1> HIDE DEF budget, a, items
<1>4. IsItems(q, items) /\ Starts(items, i, j)
  BY DEF items
<1>5. /\ f \in Fillings(items) /\ Fitting(items, f, budget)
      /\ Len(items) # 0 => LeadsOn(q, items, Reached(q, items, i, j), Len(items), f)
      /\ Len(items) = 0 => f.out = <<>> /\ f.next = NoCursor
  <2>1. CASE Pointed(items, [item |-> i, inner |-> j])
    <3>1. Len(items) # 0
      BY <1>4, <2>1 DEF Pointed, IsItems
    <3> QED
      BY <1>1, <1>4, <2>1, <3>1, FilledFacts
  <2>2. CASE Len(items) = 0 /\ i = 1 /\ j = 0
    <3>1. f = Fresh(budget)
      BY <2>2, NothingFilled
    <3>2. Fresh(budget) \in Fillings(items) /\ Fitting(items, Fresh(budget), budget)
      BY <1>1, <1>4, FreshFacts
    <3>3. Fresh(budget).out = <<>> /\ Fresh(budget).next = NoCursor
      BY DEF Fresh
    <3> HIDE DEF f
    <3> QED
      BY <2>2, <3>1, <3>2, <3>3
  <2> QED
    BY <1>4, <2>1, <2>2 DEF Starts
<1> HIDE DEF f
<1>6. f.out \in Seq(Entries(items)) /\ f.next \in [item : Nat, inner : Nat] /\ f.left \in Nat
  BY <1>5 DEF Fillings
<1>7. SizeOf(items, f.out) \in Nat
  BY <1>4, <1>6, SizeGrows
<1>8. InBudget(a, max)
  <2>1. CASE SizeOf(items, f.out) + f.left <= budget + ENVELOPE_BYTES
    <3> DEFINE z == SizeOf(items, f.out)
    <3> HIDE DEF z
    <3>1. z \in Nat /\ z + f.left <= max
      BY <1>1, <1>7, <2>1 DEF z
    <3>2. z <= max
      BY <1>1, <1>6, <3>1
    <3> QED
      BY <1>3, <3>2 DEF InBudget, z
  <2>2. CASE f.left = 0 /\ Len(f.out) = 1 /\ f.out[1].upto - f.out[1].from <= 1
    BY <1>3, <2>2 DEF InBudget
  <2> QED
    BY <1>5, <2>1, <2>2 DEF Fitting
<1>9. Answers(q, items, i, j, a)
  <2>1. Len(items) # 0 => LeadsOn(q, items, Reached(q, items, i, j), Len(items), a)
    BY <1>3, <1>5 DEF LeadsOn
  <2> QED
    BY <1>3, <1>5, <1>6, <1>7, <2>1 DEF Answers
<1> QED
  BY <1>8, <1>9 DEF a, items

\* The greater and the lesser of two numbers.
LEMMA OfTwo ==
  ASSUME NEW a \in Int, NEW b \in Int
  PROVE  /\ Max({a, b}) \in {a, b} /\ Max({a, b}) >= a
         /\ Min({a, b}) \in {a, b}
<1>1. \E x \in {a, b} : \A y \in {a, b} : x >= y
  OBVIOUS
<1>2. \E x \in {a, b} : \A y \in {a, b} : x <= y
  OBVIOUS
<1>3. Max({a, b}) \in {a, b} /\ \A y \in {a, b} : Max({a, b}) >= y
  BY <1>1 DEF Max
<1>4. Min({a, b}) \in {a, b}
  BY <1>2 DEF Min
<1> QED
  BY <1>3, <1>4

\* However often the budget is lowered, it is one a page can be asked under.
LEMMA EmittedBudget ==
  ASSUME NEW q, IsItems(q, Items(q)), NEW i, NEW j, Starts(Items(q), i, j),
         NEW max \in Budgets, NEW copies \in Nat \ {0}
  PROVE  fit_emitted(q, i, j, max, copies) \in Budgets
<1> DEFINE Lowered(inner, emitted) ==
             IF emitted <= max THEN inner
             ELSE Max({MIN_MAX_BYTES, Min({(inner * max) \div emitted, inner - (inner \div 4)})})
           first == Max({MIN_MAX_BYTES, Min({max, max \div copies})})
           n == FIT_ATTEMPTS - 1
           step(x) == Lowered(x, copies * Answer(q, i, j, x).size)
           G == [a \in 1 .. n |-> [x \in Budgets |-> step(x)]]
           Flat(f) == f = [a \in 0 .. n |-> IF a = 0 THEN first ELSE
                             LET inner == f[a - 1] IN Lowered(inner, copies * Answer(q, i, j, inner).size)]
           flat == CHOOSE f : Flat(f)
<1>1. n \in Nat /\ MIN_MAX_BYTES \in Nat /\ max \in Nat
  BY PageBounds DEF Budgets
<1>2. \A x \in Int : Max({MIN_MAX_BYTES, x}) \in Budgets
  <2> SUFFICES ASSUME NEW x \in Int PROVE Max({MIN_MAX_BYTES, x}) \in Budgets
    OBVIOUS
  <2>1. Max({MIN_MAX_BYTES, x}) \in {MIN_MAX_BYTES, x} /\ Max({MIN_MAX_BYTES, x}) >= MIN_MAX_BYTES
    BY <1>1, OfTwo
  <2>2. Max({MIN_MAX_BYTES, x}) \in Int
    BY <1>1, <2>1
  <2> QED
    BY <1>1, <2>1, <2>2 DEF Budgets
<1>3. \A x \in Int : \A y \in Int : Min({x, y}) \in Int
  <2> SUFFICES ASSUME NEW x \in Int, NEW y \in Int PROVE Min({x, y}) \in Int
    OBVIOUS
  <2>1. Min({x, y}) \in {x, y}
    BY OfTwo
  <2> QED
    BY <2>1
<1>4. \A x \in Nat : \A y \in Nat \ {0} : x \div y \in Int
  OBVIOUS
<1>5. first \in Budgets
  <2>1. max \div copies \in Int /\ max \in Int
    BY <1>1, <1>4
  <2> QED
    BY <1>2, <1>3, <2>1
<1>6. ASSUME NEW x \in Budgets PROVE step(x) \in Budgets
  <2> DEFINE emitted == copies * Answer(q, i, j, x).size
  <2>1. Answer(q, i, j, x).size \in Nat
    BY AnswerFacts DEF Answers
  <2>2. emitted \in Nat
    BY <2>1
  <2> HIDE DEF emitted
  <2>3. CASE emitted <= max
    BY <2>3 DEF emitted
  <2>4. CASE ~(emitted <= max)
    <3>1. emitted \in Nat \ {0} /\ x \in Nat /\ 4 \in Nat \ {0} /\ x * max \in Nat
      BY <1>1, <2>2, <2>4 DEF Budgets
    <3>2. (x * max) \div emitted \in Int /\ x \div 4 \in Int
      BY <1>4, <3>1
    <3>3. x - (x \div 4) \in Int
      BY <3>1, <3>2
    <3>4. Min({(x * max) \div emitted, x - (x \div 4)}) \in Int
      BY <1>3, <3>2, <3>3
    <3>5. step(x) = Max({MIN_MAX_BYTES, Min({(x * max) \div emitted, x - (x \div 4)})})
      BY <2>4 DEF emitted
    <3> QED
      BY <1>2, <3>4, <3>5
  <2> QED
    BY <2>3, <2>4
<1>7. fit_emitted(q, i, j, max, copies) = flat[n]
  BY DEF fit_emitted
<1>8. \A f : Flat(f) <=> f = [a \in 0 .. n |-> IF a = 0 THEN first ELSE step(f[a - 1])]
  OBVIOUS
<1> HIDE DEF n, first, step, Flat
<1>9. G \in [1 .. n -> [Budgets -> Budgets]] /\ \A a \in 1 .. n : \A x \in Budgets : G[a][x] = step(x)
  BY <1>6
<1> HIDE DEF G
<1>10. PICK g : StepsFrom(g, n, Budgets, first, G)
  BY <1>1, <1>5, <1>9, Recursion
<1>11. g = [a \in 0 .. n |-> IF a = 0 THEN first ELSE step(g[a - 1])]
  <2>1. g = [a \in 0 .. n |-> g[a]] /\ g[0] = first
    BY <1>10 DEF StepsFrom
  <2>2. ASSUME NEW a \in 0 .. n PROVE g[a] = IF a = 0 THEN first ELSE step(g[a - 1])
    <3>1. CASE a = 0
      BY <2>1, <3>1
    <3>2. CASE a # 0
      <4>1. a \in 1 .. n /\ a - 1 \in 0 .. n
        BY <1>1, <3>2
      <4>2. g[a] = G[a][g[a - 1]] /\ g[a - 1] \in Budgets
        BY <1>10, <4>1 DEF StepsFrom
      <4> QED
        BY <1>9, <3>2, <4>1, <4>2
    <3> QED
      BY <3>1, <3>2
  <2> QED
    BY <2>1, <2>2
<1>12. Flat(flat)
  BY <1>8, <1>11
<1>13. flat = [a \in 0 .. n |-> IF a = 0 THEN first ELSE step(flat[a - 1])]
  BY <1>8, <1>12
<1> HIDE DEF flat
<1>14. flat = [a \in 0 .. n |-> flat[a]] /\ flat[0] \in Budgets
  BY <1>1, <1>5, <1>13
<1>15. \A a \in 1 .. n : flat[a - 1] \in Budgets => flat[a] \in Budgets
  <2> SUFFICES ASSUME NEW a \in 1 .. n, flat[a - 1] \in Budgets PROVE flat[a] \in Budgets
    OBVIOUS
  <2>1. flat[a] = step(flat[a - 1])
    BY <1>1, <1>13
  <2> QED
    BY <1>6, <2>1
<1>16. flat \in [0 .. n -> Budgets]
  BY <1>1, <1>14, <1>15, StaysIn
<1> QED
  BY <1>1, <1>7, <1>16

\* What a client has been given is what is there up to its cursor, and all of it at the end.
Reading ==
  LET items == Items(query)
  IN  /\ query \in Queries /\ place.of = query /\ ended \in BOOLEAN
      /\ ended => got = Ahead(query, items, Len(items))
      /\ ~ended => \/ place.item = 0 /\ place.inner = 0 /\ got = <<>>
                   \/ /\ Pointed(items, place)
                      /\ got = Reached(query, items, place.item, place.inner)
      /\ PageFits

LEMMA ReadingCovers ==
  Reading => PagesCoverOnce
<1> SUFFICES ASSUME Reading PROVE PagesCoverOnce
  OBVIOUS
<1> DEFINE items == Items(query)
<1>1. IsItems(query, items) /\ WantedBy(query) = AllPieces(query, items)
  BY ItemsFacts DEF Reading
<1>2. Wanted = AllPieces(query, items)
  BY <1>1 DEF Wanted, WantedBy
<1> HIDE DEF items
<1>3. Covers(query, items, got) /\ (ended => ToSet(got) = AllPieces(query, items))
  <2>1. CASE ended
    BY <1>1, <2>1, AheadCovers DEF Reading, items
  <2>2. CASE ~ended /\ got = <<>>
    <3>1. <<>> \in Seq(Shows) /\ Once(<<>>) /\ Steps(<<>>, FirstPart(query)) /\ ToSet(<<>>) = {}
      BY DEF Once, Steps, ToSet
    <3> QED
      BY <2>2, <3>1 DEF Covers
  <2>3. CASE ~ended /\ Pointed(items, place) /\ got = Reached(query, items, place.item, place.inner)
    <3>1. place.item \in 1 .. Len(items) /\ place.inner \in 0 .. Len(items[place.item].parts)
      <4>1. place.item \in 1 .. Len(items)
        BY <2>3 DEF Pointed
      <4>2. Len(items[place.item].parts) \in Nat
        BY <1>1, <4>1 DEF IsItems, IsItem
      <4> QED
        BY <2>3, <4>1, <4>2 DEF Pointed
    <3>2. Covers(query, items, Reached(query, items, place.item, place.inner))
      BY <1>1, <3>1, ReachedCovers
    <3> QED
      BY <2>3, <3>2
  <2> QED
    BY <2>1, <2>2, <2>3 DEF Reading, items
<1>4. /\ got \in Seq(Shows) /\ Once(got) /\ Steps(got, FirstPart(query)) /\ ToSet(got) \subseteq Wanted
      /\ ended => ToSet(got) = Wanted
  BY <1>2, <1>3 DEF Covers
<1>5. Cardinality(ToSet(got)) = Len(got) /\ DOMAIN got = 1 .. Len(got)
  BY <1>4, OnceCount
<1>6. CoveredOnce
  BY <1>4, <1>5 DEF CoveredOnce, Steps, FirstPart
<1> QED
  BY <1>6 DEF PagesCoverOnce, Reading

LEMMA ReadingGoesOn ==
  ASSUME Reading, NEW q \in Queries, NEW max \in MIN_MAX_BYTES .. MAX_MAX_BYTES, NEW copies \in Copies,
         Ask(q, max, copies)
  PROVE  Reading'
<1> DEFINE items == Items(q)
           i == IF place.item = 0 THEN 1 ELSE place.item
           j == place.inner
<1>1. ~ended /\ q = query /\ query' = query
  BY DEF Ask, resume, Reading
<1>2. IsItems(q, items) /\ WantedBy(q) = AllPieces(q, items) /\ Len(items) \in Nat
  BY ItemsFacts DEF IsItems
<1>3. PICK inner \in {IF copies = 1 THEN max ELSE fit_emitted(q, i, j, max, copies)} :
           Give(q, Answer(q, i, j, inner), inner)
  BY DEF Ask
<1> DEFINE a == Answer(q, i, j, inner)
<1> HIDE DEF items
<1>4. Starts(items, i, j) /\ (Len(items) # 0 => got = Reached(q, items, i, j)) /\ (Len(items) = 0 => got = <<>>)
  <2>1. CASE place.item = 0 /\ place.inner = 0 /\ got = <<>>
    <3>1. i = 1 /\ j = 0
      BY <2>1
    <3> HIDE DEF i, j
    <3>2. Len(items) # 0 => Pointed(items, [item |-> i, inner |-> j])
      BY <1>2, <3>1 DEF Pointed
    <3>3. Reached(q, items, i, j) = <<>>
      <4>1. Ahead(q, items, 0) = <<>> /\ 1 - 1 = 0
        BY <1>2, AheadGrows
      <4>2. <<>> \o <<>> = <<>>
        OBVIOUS
      <4> QED
        BY <3>1, <4>1, <4>2 DEF Reached, Begun
    <3> QED
      BY <2>1, <3>1, <3>2, <3>3 DEF Starts
  <2>2. CASE Pointed(items, place) /\ got = Reached(q, items, place.item, place.inner)
    <3>1. i = place.item /\ j = place.inner /\ Len(items) # 0
      BY <1>2, <2>2 DEF Pointed
    <3> HIDE DEF i, j
    <3>2. Pointed(items, [item |-> i, inner |-> j])
      BY <2>2, <3>1 DEF Pointed
    <3> QED
      BY <2>2, <3>1, <3>2 DEF Starts
  <2> QED
    BY <1>1, <2>1, <2>2 DEF Reading, items
<1> HIDE DEF i, j
<1>5. inner \in Budgets
  <2>1. max \in Budgets /\ copies \in Nat \ {0}
    BY PageBounds DEF Budgets
  <2>2. fit_emitted(q, i, j, max, copies) \in Budgets
    BY <1>2, <1>4, <2>1, EmittedBudget DEF items
  <2> QED
    BY <1>3, <2>1, <2>2
<1>6. Answers(q, items, i, j, a) /\ InBudget(a, inner)
  BY <1>2, <1>4, <1>5, AnswerFacts DEF items
<1> HIDE DEF a
<1>7. /\ page' = [out |-> a.out, next |-> a.next, size |-> a.size, max |-> inner,
                  over |-> \E k \in DOMAIN a.out : a.out[k].upto - a.out[k].from > 1]
      /\ got' = got \o Parts(q, items, a.out)
      /\ ended' = (a.next = NoCursor)
      /\ place' = [of |-> q, item |-> a.next.item, inner |-> a.next.inner]
  BY <1>3 DEF Give, a, items
<1>8. /\ a.next = NoCursor => got' = Ahead(q, items, Len(items))
      /\ a.next # NoCursor =>
           /\ Pointed(items, a.next)
           /\ got' = Reached(q, items, a.next.item, a.next.inner)
      /\ a.out # <<>> \/ Len(items) = 0
  <2>1. CASE Len(items) # 0
    <3>1. got = Reached(q, items, i, j) /\ LeadsOn(q, items, Reached(q, items, i, j), Len(items), a)
      BY <1>4, <1>6, <2>1 DEF Answers
    <3> QED
      BY <1>7, <3>1 DEF LeadsOn
  <2>2. CASE Len(items) = 0
    <3>1. a.out = <<>> /\ a.next = NoCursor /\ got = <<>>
      BY <1>4, <1>6, <2>2 DEF Answers
    <3>2. Parts(q, items, <<>>) = <<>> /\ Ahead(q, items, 0) = <<>> /\ <<>> \o <<>> = <<>>
      BY <1>2, PartsGrow, AheadGrows
    <3>3. got' = <<>>
      BY <1>7, <3>1, <3>2
    <3>4. Ahead(q, items, Len(items)) = <<>>
      BY <2>2, <3>2
    <3> QED
      BY <2>2, <3>1, <3>3, <3>4
  <2> QED
    BY <2>1, <2>2
<1>9. PageFits'
  <2>1. Len(items) = 0 => Wanted' = {}
    <3> SUFFICES ASSUME Len(items) = 0 PROVE Wanted' = {}
      OBVIOUS
    <3>1. Wanted' = WantedBy(q)
      BY <1>1 DEF Wanted, WantedBy
    <3>2. AllPieces(q, items) = {}
      BY DEF AllPieces
    <3> QED
      BY <1>2, <3>1, <3>2
  <2>2. page'.out = a.out /\ page'.size = a.size /\ page'.max = inner
        /\ page'.over = \E k \in DOMAIN a.out : a.out[k].upto - a.out[k].from > 1
    BY <1>7
  <2>3. Len(a.out) = 1 /\ a.out[1].upto - a.out[1].from <= 1
          => ~\E k \in DOMAIN a.out : a.out[k].upto - a.out[k].from > 1
    <3> SUFFICES ASSUME Len(a.out) = 1, a.out[1].upto - a.out[1].from <= 1
                 PROVE  ~\E k \in DOMAIN a.out : a.out[k].upto - a.out[k].from > 1
      OBVIOUS
    <3>1. a.out \in Seq(Entries(items))
      BY <1>6 DEF Answers
    <3> DEFINE E == Entries(items)
    <3> HIDE DEF E
    <3>2. DOMAIN a.out = {1} /\ a.out[1] \in E
      BY <3>1 DEF E
    <3>3. a.out[1].upto \in Nat /\ a.out[1].from \in Nat
      BY <3>2 DEF E, Entries
    <3> QED
      BY <3>2, <3>3
  <2>4. page'.out # <<>> \/ Wanted' = {}
    BY <1>8, <2>1, <2>2
  <2>5. page'.size <= page'.max \/ (Len(page'.out) = 1 /\ ~page'.over)
    BY <1>6, <2>2, <2>3 DEF InBudget
  <2> QED
    BY <2>4, <2>5 DEF PageFits
<1>10. ended' \in BOOLEAN /\ place'.of = query'
  BY <1>1, <1>7
<1>11. ended' => got' = Ahead(query', Items(query'), Len(Items(query')))
  BY <1>1, <1>7, <1>8 DEF items
<1>12. ~ended' => /\ Pointed(Items(query'), place')
                  /\ got' = Reached(query', Items(query'), place'.item, place'.inner)
  <2> SUFFICES ASSUME ~ended' PROVE Pointed(items, place') /\ got' = Reached(q, items, place'.item, place'.inner)
    BY <1>1 DEF items
  <2>1. Pointed(items, a.next) /\ got' = Reached(q, items, a.next.item, a.next.inner)
    BY <1>7, <1>8
  <2>2. place'.item = a.next.item /\ place'.inner = a.next.inner
    BY <1>7
  <2> QED
    BY <2>1, <2>2 DEF Pointed
<1> QED
  BY <1>1, <1>9, <1>10, <1>11, <1>12 DEF Reading

\* A client that pages through a view gets all of it once, in pages that fit
\* (views.rs: resume, fill, fit_emitted).
THEOREM PagesAlwaysCoverOnce == VSpec => []PagesCoverOnce
<1>1. VInit => Reading
  <2> SUFFICES ASSUME VInit PROVE Reading
    OBVIOUS
  <2>1. page.max = 0 /\ ~(page.max > 0)
    BY DEF VInit
  <2>2. PageFits
    BY <2>1 DEF PageFits
  <2>3. place.of = query /\ place.item = 0 /\ place.inner = 0 /\ got = <<>> /\ ended = FALSE /\ query \in Queries
    BY DEF VInit
  <2> QED
    BY <2>2, <2>3 DEF Reading
<1>2. Reading /\ [VNext]_viewVars => Reading'
  <2> SUFFICES ASSUME Reading, [VNext]_viewVars PROVE Reading'
    OBVIOUS
  <2>1. CASE VNext
    BY <2>1, ReadingGoesOn DEF VNext
  <2>2. CASE UNCHANGED viewVars
    <3>1. query' = query /\ place' = place /\ got' = got /\ page' = page /\ ended' = ended
      BY <2>2 DEF viewVars
    <3>2. Wanted' = Wanted
      BY <3>1 DEF Wanted
    <3>3. PageFits' = PageFits
      BY <3>1, <3>2 DEF PageFits
    <3> QED
      BY <3>1, <3>3 DEF Reading
  <2> QED
    BY <2>1, <2>2
<1>3. Reading => PagesCoverOnce
  BY ReadingCovers
<1> QED
  BY <1>1, <1>2, <1>3, PTL DEF VSpec
-----------------------------------------------------------------------------
(* The connections *)
USE ClientsFinite, SlotsNat, LineCapPos, ReadLimitNat

\* The types of the loop's variables, and of the connections'.
LoopOK == /\ is_running \in BOOLEAN /\ wake \in BOOLEAN
          /\ loop \in Loop
          /\ watcher \in {"waiting", "waking"}
          /\ failure \in BOOLEAN /\ drained \in BOOLEAN /\ forced \in BOOLEAN
ConnOK == /\ backlog \in Seq(Clients)
          /\ conn \in [Clients -> Conn]
          /\ role \in [Clients -> {"none", "data", "control"}]
          /\ held \in [Clients -> 0 .. LineCap + 1]
          /\ active \in Nat /\ control \in Nat
          /\ answering \in Nat /\ read_held \in Nat

\* The backlog is the queued connections, each once.
BacklogInv == /\ \A i \in 1 .. Len(backlog) : conn[backlog[i]] = "queued"
              /\ \A i, j \in 1 .. Len(backlog) : backlog[i] = backlog[j] => i = j

\* A connection has a slot as long as it has a thread, and on a control slot it
\* reserves no bytes.
RolesInv == \A c \in Clients : /\ conn[c] \in Served <=> role[c] # "none"
                               /\ role[c] = "control" => held[c] = 0

\* What the connections keep.
ConnInv == ConnOK /\ AnsweringExact /\ ReadBudgetExact /\ SlotsExact /\ BacklogInv /\ RolesInv

\* A loop that ended without an error was told to stop, and from the end of a drain
\* that found nothing to wait for, no data request is worked on.
StopInv == /\ loop \in {"cleanup", "close", "drain", "leaving", "exited"} /\ ~failure
                => ~is_running
           /\ drained => loop \in {"leaving", "exited"}
           /\ drained /\ ~failure => Unanswered = {}
-----------------------------------------------------------------------------
\* As long as the roles stay, so do the slots.
LEMMA SlotsSame ==
  ASSUME ConnInv, UNCHANGED <<role, active, control>>, RolesInv'
  PROVE  SlotsExact'
<1>1. \A r \in {"data", "control"} :
        {d \in In(Served) : role[d] = r}' = {d \in In(Served) : role[d] = r}
  BY DEF ConnInv, RolesInv, In
<1> QED
  BY <1>1 DEF ConnInv, SlotsExact

\* A step of a connection's thread that keeps its slot: the counts follow the state
\* it leaves and the state it goes to, the bytes those it held and holds.
LEMMA MoveKeeps ==
  ASSUME ConnInv, NEW c \in Clients, NEW s \in Served, NEW b \in 0 .. LineCap + 1,
         Move(c, s, b), conn[c] \in Served, UNCHANGED <<role, active, control>>,
         role[c] = "control" => b = 0,
         s \in {"idle", "writing", "ending"} => b = 0,
         read_held - held[c] + b <= ReadLimit
  PROVE  ConnInv'
<1> USE DEF ConnInv, ConnOK
<1>0. /\ held[c] \in Nat /\ b \in Nat
      /\ Served \subseteq Conn /\ Counted \subseteq Served
      /\ conn'[c] = s /\ \A d \in Clients \ {c} : conn'[d] = conn[d]
      /\ held'[c] = b /\ \A d \in Clients \ {c} : held'[d] = held[d]
  BY DEF Move, Served, Counted, Conn
<1>1. AnsweringExact' /\ answering' \in Nat
  <2> DEFINE N == CountIn(Clients, conn, Counted)
             M == CountIn(Clients, conn', Counted)
             plus == IF s \in Counted THEN 1 ELSE 0
             minus == IF conn[c] \in Counted THEN 1 ELSE 0
  <2>0. \A d \in Clients \ {c} : conn'[d] = conn[d]
    BY <1>0
  <2>1. N \in Nat /\ M \in Nat /\ M = N + plus - minus
    <3>1. /\ CountIn(Clients, conn, Counted) \in Nat
          /\ CountIn(Clients, conn', Counted) \in Nat
          /\ CountIn(Clients, conn', Counted)
                = CountIn(Clients, conn, Counted)
                  + (IF conn'[c] \in Counted THEN 1 ELSE 0)
                  - (IF conn[c] \in Counted THEN 1 ELSE 0)
      BY ONLY <2>0, CountMoved, ClientsFinite, c \in Clients
    <3> QED
      BY <1>0, <3>1
  <2>2. answering = N
    BY DEF AnsweringExact, In, CountIn
  <2>3. answering' = answering + plus - minus
    BY DEF Move
  <2>4. AnsweringExact' <=> answering' = M
    BY DEF AnsweringExact, In, CountIn
  <2> HIDE DEF N, M, plus, minus
  <2>5. answering' = M
    BY <2>1, <2>2, <2>3
  <2> QED
    BY <2>1, <2>4, <2>5
<1>2. /\ read_held' = Total(Clients, held') /\ read_held' \in Nat
      /\ read_held' <= ReadLimit
  <2>1. /\ Total(Clients, held') = Total(Clients, held) - held[c] + held'[c]
        /\ held[c] <= Total(Clients, held)
    <3>1. (\A d \in Clients : held[d] \in Nat) /\ held'[c] \in Nat
      BY <1>0
    <3> QED
      BY ONLY <1>0, <3>1, TotalMoved, ClientsFinite, c \in Clients
  <2> QED
    BY <1>0, <2>1 DEF ReadBudgetExact, Move
<1>3. \A d \in In({"away", "queued", "idle", "writing", "ending"})' : held'[d] = 0
  BY <1>0 DEF ReadBudgetExact, In, Served, Counted
<1>4. RolesInv'
  BY <1>0 DEF RolesInv
<1>5. SlotsExact'
  BY <1>4, SlotsSame
<1>6. BacklogInv'
  <2>1. \A i \in 1 .. Len(backlog) : backlog[i] \in Clients /\ backlog[i] # c
    BY DEF BacklogInv, Served, Counted
  <2> QED
    BY <1>0, <2>1 DEF BacklogInv, Move
<1>7. ConnOK'
  BY <1>0, <1>1, <1>2 DEF Move
<1> QED
  BY <1>1, <1>2, <1>3, <1>4, <1>5, <1>6, <1>7 DEF ReadBudgetExact
-----------------------------------------------------------------------------
\* The slots in use are as many as the connections with each role.
LEMMA SlotsCounted ==
  ASSUME NEW cs, NEW rs, \A c \in Clients : cs[c] \in Served <=> rs[c] # "none"
  PROVE  \A r \in {"data", "control"} :
           Cardinality({c \in {d \in Clients : cs[d] \in Served} : rs[c] = r})
             = CountIn(Clients, rs, {r})
<1> SUFFICES ASSUME NEW r \in {"data", "control"}
             PROVE  {c \in {d \in Clients : cs[d] \in Served} : rs[c] = r}
                      = {c \in Clients : rs[c] \in {r}}
  BY DEF CountIn
<1> QED
  OBVIOUS

\* A connection that takes or gives back a slot: the counts of the slots follow it.
LEMMA SlotsMoved ==
  ASSUME ConnInv, RolesInv', NEW c \in Clients,
         \A d \in Clients \ {c} : role'[d] = role[d],
         active' = active + (IF role'[c] = "data" THEN 1 ELSE 0)
                          - (IF role[c] = "data" THEN 1 ELSE 0),
         control' = control + (IF role'[c] = "control" THEN 1 ELSE 0)
                            - (IF role[c] = "control" THEN 1 ELSE 0),
         active' <= DataSlots, control' <= ControlSlots
  PROVE  SlotsExact' /\ active' \in Nat /\ control' \in Nat
<1>1. /\ active = CountIn(Clients, role, {"data"})
      /\ control = CountIn(Clients, role, {"control"})
      /\ active \in Nat /\ control \in Nat
  BY SlotsCounted DEF ConnInv, ConnOK, RolesInv, SlotsExact, In
<1>2. \A r \in {"data", "control"} :
        /\ CountIn(Clients, role', {r}) \in Nat
        /\ CountIn(Clients, role', {r})
              = CountIn(Clients, role, {r}) + (IF role'[c] \in {r} THEN 1 ELSE 0)
                                            - (IF role[c] \in {r} THEN 1 ELSE 0)
  <2>1. \A d \in Clients \ {c} : role'[d] = role[d]
    OBVIOUS
  <2> TAKE r \in {"data", "control"}
  <2> QED
    BY ONLY <2>1, CountMoved, ClientsFinite, c \in Clients
<1>3. /\ active' = CountIn(Clients, role', {"data"}) /\ active' \in Nat
      /\ control' = CountIn(Clients, role', {"control"}) /\ control' \in Nat
  BY <1>1, <1>2
<1>4. \A d \in Clients : conn'[d] \in Served <=> role'[d] # "none"
  BY DEF RolesInv
<1>5. \A r \in {"data", "control"} :
        Cardinality({d \in {e \in Clients : conn'[e] \in Served} : role'[d] = r})
          = CountIn(Clients, role', {r})
  BY ONLY <1>4, SlotsCounted
<1> QED
  BY <1>3, <1>5 DEF SlotsExact, In

\* A connection that goes between states without a request or a byte changes neither
\* the count of answers nor the read budget.
LEMMA QuietKeeps ==
  ASSUME ConnInv, UNCHANGED <<held, answering, read_held>>,
         \A d \in Clients : \/ conn'[d] = conn[d]
                            \/ /\ conn[d] \in {"away", "queued", "idle", "ending"}
                               /\ conn'[d] \in {"away", "queued", "idle", "ending"}
  PROVE  AnsweringExact' /\ ReadBudgetExact'
<1>1. In(Counted)' = In(Counted)
  BY DEF In, Counted
<1>2. \A d \in In({"away", "queued", "idle", "writing", "ending"})' :
        d \in In({"away", "queued", "idle", "writing", "ending"})
  BY DEF In
<1> QED
  BY <1>1, <1>2 DEF ConnInv, AnsweringExact, ReadBudgetExact

\* What the accept loop takes from the backlog is a queued client, and the rest of
\* the backlog does not name it again.
LEMMA HeadTaken ==
  ASSUME ConnInv, NEW c \in Clients, Accepts(c),
         \A d \in Clients \ {c} : conn'[d] = conn[d]
  PROVE  conn[c] = "queued" /\ backlog' \in Seq(Clients) /\ BacklogInv'
<1>1. /\ backlog \in Seq(Clients) /\ backlog # <<>> /\ Len(backlog) \in Nat
      /\ Len(backlog) >= 1 /\ backlog[1] = c
      /\ backlog' = Tail(backlog) /\ backlog' \in Seq(Clients)
      /\ Len(backlog') = Len(backlog) - 1
      /\ \A i \in 1 .. Len(backlog') : backlog'[i] = backlog[i + 1]
  BY DEF ConnInv, ConnOK, Accepts
<1>2. conn[c] = "queued"
  BY <1>1 DEF ConnInv, BacklogInv
<1>3. \A i \in 1 .. Len(backlog') :
        /\ i + 1 \in 1 .. Len(backlog)
        /\ backlog'[i] \in Clients \ {c}
        /\ conn[backlog'[i]] = "queued"
  BY <1>1 DEF ConnInv, BacklogInv
<1>4. \A i, j \in 1 .. Len(backlog') : backlog'[i] = backlog'[j] => i = j
  BY <1>1, <1>3 DEF ConnInv, BacklogInv
<1> QED
  BY <1>1, <1>2, <1>3, <1>4 DEF BacklogInv

\* The steps of the accept loop that take a client or refuse those that wait.
LEMMA AcceptServedKeeps ==
  ASSUME ConnInv, NEW c \in Clients, AcceptServed(c)
  PROVE  ConnInv'
<1>1. /\ conn \in [Clients -> Conn] /\ conn' \in [Clients -> Conn]
      /\ conn'[c] = "idle" /\ \A d \in Clients \ {c} : conn'[d] = conn[d]
      /\ role'[c] \in {"data", "control"} /\ \A d \in Clients \ {c} : role'[d] = role[d]
      /\ role' \in [Clients -> {"none", "data", "control"}]
      /\ UNCHANGED <<held, answering, read_held>>
  BY DEF ConnInv, ConnOK, AcceptServed, Conn
<1>2. conn[c] = "queued" /\ backlog' \in Seq(Clients) /\ BacklogInv'
  BY <1>1, HeadTaken DEF AcceptServed
<1>3. AnsweringExact' /\ ReadBudgetExact'
  BY <1>1, <1>2, QuietKeeps
<1>4. RolesInv' /\ role[c] = "none"
  <2>1. held[c] = 0
    BY <1>2 DEF ConnInv, ReadBudgetExact, In
  <2> QED
    BY <1>1, <1>2, <2>1 DEF ConnInv, RolesInv, Served, Counted
<1>5. SlotsExact' /\ active' \in Nat /\ control' \in Nat
  <2>1. active \in Nat /\ control \in Nat /\ active <= DataSlots /\ control <= ControlSlots
    BY DEF ConnInv, ConnOK, SlotsExact
  <2>2. \/ role'[c] = "data" /\ active < DataSlots /\ active' = active + 1 /\ control' = control
        \/ role'[c] = "control" /\ control < ControlSlots /\ control' = control + 1
                                /\ active' = active
    BY DEF AcceptServed, ConnInv, ConnOK
  <2>3. /\ active' = active + (IF role'[c] = "data" THEN 1 ELSE 0)
                           - (IF role[c] = "data" THEN 1 ELSE 0)
        /\ control' = control + (IF role'[c] = "control" THEN 1 ELSE 0)
                             - (IF role[c] = "control" THEN 1 ELSE 0)
        /\ active' <= DataSlots /\ control' <= ControlSlots
    BY <1>4, <2>1, <2>2
  <2> QED
    BY <1>1, <1>4, <2>3, SlotsMoved
<1> QED
  BY <1>1, <1>2, <1>3, <1>4, <1>5 DEF ConnInv, ConnOK

LEMMA AcceptDroppedKeeps ==
  ASSUME ConnInv, NEW c \in Clients, AcceptDropped(c)
  PROVE  ConnInv'
<1>1. /\ conn \in [Clients -> Conn] /\ conn' \in [Clients -> Conn]
      /\ conn'[c] = "away" /\ \A d \in Clients \ {c} : conn'[d] = conn[d]
      /\ UNCHANGED <<role, held, active, control, answering, read_held>>
  BY DEF ConnInv, ConnOK, AcceptDropped, Conn
<1>2. conn[c] = "queued" /\ backlog' \in Seq(Clients) /\ BacklogInv'
  BY <1>1, HeadTaken DEF AcceptDropped
<1>3. AnsweringExact' /\ ReadBudgetExact'
  BY <1>1, <1>2, QuietKeeps
<1>4. RolesInv'
  BY <1>1, <1>2 DEF ConnInv, RolesInv, Served, Counted
<1>5. SlotsExact'
  BY <1>1, <1>4, SlotsSame
<1> QED
  BY <1>1, <1>2, <1>3, <1>4, <1>5 DEF ConnInv, ConnOK

LEMMA CloseKeeps ==
  ASSUME ConnInv, Close
  PROVE  ConnInv'
<1>1. /\ conn \in [Clients -> Conn] /\ conn' \in [Clients -> Conn]
      /\ \A d \in Clients : conn'[d] = IF conn[d] = "queued" THEN "away" ELSE conn[d]
      /\ backlog' = <<>> /\ UNCHANGED <<role, held, active, control, answering, read_held>>
  BY DEF ConnInv, ConnOK, Close, Conn
<1>2. backlog' \in Seq(Clients) /\ BacklogInv'
  BY <1>1 DEF BacklogInv
<1>3. AnsweringExact' /\ ReadBudgetExact'
  BY <1>1, QuietKeeps
<1>4. In(Served)' = In(Served) /\ RolesInv'
  BY <1>1 DEF ConnInv, RolesInv, In, Served, Counted
<1>5. SlotsExact'
  BY <1>1, <1>4 DEF ConnInv, SlotsExact
<1> QED
  BY <1>1, <1>2, <1>3, <1>4, <1>5 DEF ConnInv, ConnOK

\* A client joins the backlog, or leaves it before it is accepted.
LEMMA ConnectKeeps ==
  ASSUME ConnInv, NEW c \in Clients, Connect(c)
  PROVE  ConnInv'
<1>1. /\ conn \in [Clients -> Conn] /\ conn' \in [Clients -> Conn]
      /\ conn[c] = "away" /\ conn'[c] = "queued"
      /\ \A d \in Clients \ {c} : conn'[d] = conn[d]
      /\ UNCHANGED <<role, held, active, control, answering, read_held>>
  BY DEF ConnInv, ConnOK, Connect, Conn
<1>2. /\ backlog \in Seq(Clients) /\ backlog' \in Seq(Clients) /\ Len(backlog) \in Nat
      /\ Len(backlog') = Len(backlog) + 1 /\ backlog'[Len(backlog) + 1] = c
      /\ \A i \in 1 .. Len(backlog) : backlog'[i] = backlog[i] /\ backlog[i] \in Clients
  BY DEF ConnInv, ConnOK, Connect
<1>3. \A i \in 1 .. Len(backlog) : backlog[i] # c
  BY <1>1 DEF ConnInv, BacklogInv
<1>4. BacklogInv'
  <2>1. \A i \in 1 .. Len(backlog') : i \in 1 .. Len(backlog) \/ i = Len(backlog) + 1
    BY <1>2
  <2>2. \A i \in 1 .. Len(backlog') : conn'[backlog'[i]] = "queued"
    BY <1>1, <1>2, <1>3, <2>1 DEF ConnInv, BacklogInv
  <2>3. \A i, j \in 1 .. Len(backlog') : backlog'[i] = backlog'[j] => i = j
    BY <1>2, <1>3, <2>1 DEF ConnInv, BacklogInv
  <2> QED
    BY <2>2, <2>3 DEF BacklogInv
<1>5. AnsweringExact' /\ ReadBudgetExact'
  BY <1>1, QuietKeeps
<1>6. RolesInv'
  BY <1>1 DEF ConnInv, RolesInv, Served, Counted
<1>7. SlotsExact'
  BY <1>1, <1>6, SlotsSame
<1> QED
  BY <1>1, <1>2, <1>4, <1>5, <1>6, <1>7 DEF ConnInv, ConnOK

LEMMA GiveUpKeeps ==
  ASSUME ConnInv, NEW c \in Clients, GiveUp(c)
  PROVE  ConnInv'
<1>1. /\ conn \in [Clients -> Conn] /\ conn' \in [Clients -> Conn]
      /\ conn[c] = "queued" /\ conn'[c] = "away"
      /\ \A d \in Clients \ {c} : conn'[d] = conn[d]
      /\ UNCHANGED <<role, held, active, control, answering, read_held>>
  BY DEF ConnInv, ConnOK, GiveUp, Conn
<1>2. PICK k \in DOMAIN backlog :
        /\ backlog[k] = c
        /\ backlog' = SubSeq(backlog, 1, k - 1) \o SubSeq(backlog, k + 1, Len(backlog))
  BY DEF GiveUp
<1>3. /\ backlog \in Seq(Clients) /\ Len(backlog) \in Nat
      /\ k \in 1 .. Len(backlog)
  BY <1>2, SMTT(20) DEF ConnInv, ConnOK
<1>4. /\ backlog' \in Seq(Clients)
      /\ Len(backlog') = Len(backlog) - 1
      /\ \A i \in 1 .. Len(backlog') :
            backlog'[i] = IF i < k THEN backlog[i] ELSE backlog[i + 1]
  <2> DEFINE A == SubSeq(backlog, 1, k - 1)
             B == SubSeq(backlog, k + 1, Len(backlog))
  <2>1. /\ A \in Seq(Clients) /\ Len(A) = k - 1
        /\ \A i \in 1 .. k - 1 : A[i] = backlog[i]
    BY <1>3, SubSeqProperties
  <2>2. /\ B \in Seq(Clients) /\ Len(B) = Len(backlog) - k
        /\ \A i \in 1 .. Len(backlog) - k : B[i] = backlog[k + i]
    <3>1. \A i \in k + 1 .. Len(backlog) : backlog[i] \in Clients
      BY <1>3
    <3>2. k + 1 \in Int /\ Len(backlog) \in Int
      BY <1>3
    <3>3. /\ B \in Seq(Clients)
          /\ Len(B) = IF k + 1 <= Len(backlog) THEN Len(backlog) - (k + 1) + 1 ELSE 0
          /\ \A i \in 1 .. Len(backlog) - (k + 1) + 1 : B[i] = backlog[(k + 1) + i - 1]
      BY ONLY <3>1, <3>2, SubSeqProperties, SMTT(20)
    <3> HIDE DEF B
    <3> QED
      BY <1>3, <3>3
  <2>3. backlog' = A \o B
    BY <1>2
  <2> HIDE DEF A, B
  <2>4. /\ A \o B \in Seq(Clients)
        /\ Len(A \o B) = Len(A) + Len(B)
        /\ \A i \in 1 .. Len(A) + Len(B) :
              (A \o B)[i] = IF i <= Len(A) THEN A[i] ELSE B[i - Len(A)]
    BY <2>1, <2>2, ConcatProperties
  <2>5. Len(A) + Len(B) = Len(backlog) - 1
    BY <1>3, <2>1, <2>2
  <2>6. \A i \in 1 .. Len(backlog) - 1 :
          (A \o B)[i] = IF i < k THEN backlog[i] ELSE backlog[i + 1]
    <3> TAKE i \in 1 .. Len(backlog) - 1
    <3>1. (A \o B)[i] = IF i <= k - 1 THEN A[i] ELSE B[i - (k - 1)]
      BY <2>1, <2>4, <2>5
    <3>2. CASE i < k
      BY <1>3, <2>1, <3>1, <3>2
    <3>3. CASE ~ (i < k)
      <4>1. i - (k - 1) \in 1 .. Len(backlog) - k /\ k + (i - (k - 1)) = i + 1
        BY <1>3, <3>3
      <4> QED
        BY <1>3, <2>2, <3>1, <3>3, <4>1, SMTT(20)
    <3> QED
      BY <3>2, <3>3
  <2> QED
    BY <2>3, <2>4, <2>5, <2>6
<1>5. BacklogInv'
  <2>1. \A i \in 1 .. Len(backlog') :
          /\ (IF i < k THEN i ELSE i + 1) \in (1 .. Len(backlog)) \ {k}
          /\ backlog'[i] \in Clients \ {c}
          /\ conn[backlog'[i]] = "queued"
    <3> TAKE i \in 1 .. Len(backlog')
    <3> DEFINE n == IF i < k THEN i ELSE i + 1
    <3>1. n \in (1 .. Len(backlog)) \ {k}
      BY <1>3, <1>4
    <3>2. backlog'[i] = backlog[n]
      BY <1>4
    <3> HIDE DEF n
    <3>3. backlog[n] \in Clients /\ conn[backlog[n]] = "queued" /\ backlog[n] # c
      BY <1>2, <1>3, <3>1 DEF ConnInv, BacklogInv
    <3> QED
      BY <3>1, <3>2, <3>3 DEF n
  <2>2. \A i, j \in 1 .. Len(backlog') : backlog'[i] = backlog'[j] => i = j
    BY <1>3, <1>4, <2>1 DEF ConnInv, BacklogInv
  <2> QED
    BY <1>1, <2>1, <2>2 DEF BacklogInv
<1>6. AnsweringExact' /\ ReadBudgetExact'
  BY <1>1, QuietKeeps
<1>7. RolesInv'
  BY <1>1 DEF ConnInv, RolesInv, Served, Counted
<1>8. SlotsExact'
  BY <1>1, <1>7, SlotsSame
<1> QED
  BY <1>1, <1>4, <1>5, <1>6, <1>7, <1>8 DEF ConnInv, ConnOK

\* The end of a connection's thread gives its slot back.
LEMMA EndThreadKeeps ==
  ASSUME ConnInv, NEW c \in Clients, EndThread(c)
  PROVE  ConnInv'
<1>1. /\ conn \in [Clients -> Conn] /\ conn' \in [Clients -> Conn]
      /\ conn[c] = "ending" /\ conn'[c] = "away"
      /\ \A d \in Clients \ {c} : conn'[d] = conn[d]
      /\ role'[c] = "none" /\ \A d \in Clients \ {c} : role'[d] = role[d]
      /\ role' \in [Clients -> {"none", "data", "control"}]
      /\ UNCHANGED <<backlog, held, answering, read_held>>
  BY DEF ConnInv, ConnOK, EndThread, Conn
<1>2. AnsweringExact' /\ ReadBudgetExact'
  BY <1>1, QuietKeeps
<1>3. RolesInv' /\ role[c] \in {"data", "control"}
  BY <1>1 DEF ConnInv, ConnOK, RolesInv, Served, Counted
<1>4. BacklogInv'
  <2>1. \A i \in 1 .. Len(backlog) : backlog[i] \in Clients /\ backlog[i] # c
    BY <1>1 DEF ConnInv, ConnOK, BacklogInv
  <2> QED
    BY <1>1, <2>1 DEF ConnInv, BacklogInv
<1>5. SlotsExact' /\ active' \in Nat /\ control' \in Nat
  <2>1. active \in Nat /\ control \in Nat /\ active <= DataSlots /\ control <= ControlSlots
    BY DEF ConnInv, ConnOK, SlotsExact
  <2>2. \/ role[c] = "data" /\ active' = active - 1 /\ control' = control
        \/ role[c] = "control" /\ control' = control - 1 /\ active' = active
    BY <1>3 DEF EndThread
  <2>3. /\ active' = active + (IF role'[c] = "data" THEN 1 ELSE 0)
                           - (IF role[c] = "data" THEN 1 ELSE 0)
        /\ control' = control + (IF role'[c] = "control" THEN 1 ELSE 0)
                             - (IF role[c] = "control" THEN 1 ELSE 0)
        /\ active' <= DataSlots /\ control' <= ControlSlots
    BY <1>1, <2>1, <2>2
  <2> QED
    BY <1>1, <1>3, <2>3, SlotsMoved
<1> QED
  BY <1>1, <1>2, <1>3, <1>4, <1>5 DEF ConnInv, ConnOK
-----------------------------------------------------------------------------
\* A step of a connection's thread that keeps its bytes or gives them all back.
LEMMA MoveKeepsOrDrops ==
  ASSUME ConnInv, NEW c \in Clients, NEW s \in Served, NEW b \in {0, held[c]},
         Move(c, s, b), conn[c] \in Served, UNCHANGED <<role, active, control>>,
         s \in {"idle", "writing", "ending"} => b = 0
  PROVE  ConnInv'
<1>1. held[c] \in 0 .. LineCap + 1 /\ b \in 0 .. LineCap + 1
  BY DEF ConnInv, ConnOK
<1>2. role[c] = "control" => b = 0
  BY DEF ConnInv, RolesInv
<1>3. read_held - held[c] + b <= ReadLimit
  <2>1. read_held <= ReadLimit /\ read_held \in Nat
    BY DEF ConnInv, ConnOK, ReadBudgetExact
  <2> QED
    BY <1>1, <2>1
<1> QED
  BY <1>1, <1>2, <1>3, MoveKeeps

\* A chunk that the read budget has room for.
LEMMA ReadChunkKeeps ==
  ASSUME ConnInv, NEW c \in Clients, NEW n \in 1 .. LineCap + 1, ReadChunk(c, n)
  PROVE  ConnInv'
<1>1. /\ held[c] \in 0 .. LineCap + 1 /\ read_held \in Nat
      /\ conn[c] \in Served /\ UNCHANGED <<role, active, control>>
  BY DEF ConnInv, ConnOK, ReadChunk, Served, Counted
<1>2. CASE role[c] = "control" /\ \E s \in AfterChunk(c, 0) : Move(c, s, 0)
  <2>1. PICK s \in AfterChunk(c, 0) : Move(c, s, 0)
    BY <1>2
  <2>2. s \in Served /\ s \notin {"idle", "writing", "ending"}
    BY <2>1 DEF AfterChunk, Served, Counted
  <2> QED
    BY <1>1, <2>1, <2>2, MoveKeepsOrDrops
<1>3. CASE /\ role[c] = "data"
           /\ read_held + n <= ReadLimit
           /\ \E s \in AfterChunk(c, held[c] + n) : Move(c, s, held[c] + n)
  <2>1. PICK s \in AfterChunk(c, held[c] + n) : Move(c, s, held[c] + n)
    BY <1>3
  <2>2. s \in Served /\ s \notin {"idle", "writing", "ending"}
    BY <2>1 DEF AfterChunk, Served, Counted
  <2>3. /\ held[c] + n \in 0 .. LineCap + 1
        /\ read_held - held[c] + (held[c] + n) <= ReadLimit
    BY <1>1, <1>3 DEF ReadChunk
  <2>4. role[c] # "control"
    BY <1>3
  <2> QED
    BY <1>1, <2>1, <2>2, <2>3, <2>4, MoveKeeps
<1> QED
  BY <1>2, <1>3 DEF ReadChunk

\* Every other step of a connection's thread.
LEMMA ThreadKeeps ==
  ASSUME ConnInv, NEW c \in Clients,
         \/ \E n \in 1 .. LineCap + 1 : ReadRefused(c, n)
         \/ ReadEof(c) \/ ReadEnds(c) \/ TakeLine(c) \/ Respond(c)
         \/ Written(c) \/ WriteFails(c)
  PROVE  ConnInv'
<1> USE DEF Served, Counted
<1>1. ASSUME NEW n \in 1 .. LineCap + 1, ReadRefused(c, n) PROVE ConnInv'
  BY <1>1, MoveKeepsOrDrops DEF ReadRefused
<1>2. CASE ReadEof(c)
  BY <1>2, MoveKeepsOrDrops DEF ReadEof
<1>3. CASE ReadEnds(c)
  BY <1>3, MoveKeepsOrDrops DEF ReadEnds
<1>4. CASE TakeLine(c)
  <2>1. conn[c] \in Served /\ UNCHANGED <<role, active, control>>
    BY <1>4 DEF TakeLine
  <2>2. CASE role[c] = "data"
    <3>1. \/ Move(c, "refusing", held[c]) \/ Move(c, "rejecting", held[c])
          \/ Move(c, "idle", 0) \/ Move(c, "working", held[c])
      BY <1>4, <2>2 DEF TakeLine, DataLine
    <3> QED
      BY <2>1, <3>1, MoveKeepsOrDrops
  <2>3. CASE role[c] # "data"
    <3>1. Move(c, "working", 0) \/ Move(c, "refusing", 0)
      BY <1>4, <2>3 DEF TakeLine, ControlLine
    <3> QED
      BY <2>1, <3>1, MoveKeepsOrDrops
  <2> QED
    BY <2>2, <2>3
<1>5. CASE Respond(c)
  BY <1>5, MoveKeepsOrDrops DEF Respond
<1>6. CASE Written(c)
  BY <1>6, MoveKeepsOrDrops DEF Written, AfterWrite
<1>7. CASE WriteFails(c)
  BY <1>7, MoveKeepsOrDrops DEF WriteFails
<1> QED
  BY <1>1, <1>2, <1>3, <1>4, <1>5, <1>6, <1>7

\* The accounts are kept by every step.
LEMMA ConnStep ==
  ASSUME ConnInv, [Next]_vars
  PROVE  ConnInv'
<1>1. CASE UNCHANGED connVars
  BY <1>1 DEF connVars, ConnInv, ConnOK, AnsweringExact, ReadBudgetExact, SlotsExact,
              BacklogInv, RolesInv, In
<1>2. CASE LoopStep
  <2>1. ASSUME NEW c \in Clients, AcceptServed(c) \/ AcceptDropped(c) PROVE ConnInv'
    BY <2>1, AcceptServedKeeps, AcceptDroppedKeeps
  <2>2. CASE Top \/ Woken \/ Recheck \/ AcceptNone \/ Cleanup \/ WaitIdle \/ Exit
    BY <1>1, <2>2 DEF Top, Woken, Recheck, AcceptNone, Cleanup, WaitIdle, Exit
  <2> QED
    BY <1>2, <2>1, <2>2, CloseKeeps DEF LoopStep
<1>3. CASE Fail \/ SignalStops \/ SignalWakes \/ SignalForces
  BY <1>1, <1>3 DEF Fail, SignalStops, SignalWakes, SignalForces
<1>4. ASSUME NEW c \in Clients,
             \/ Connect(c) \/ GiveUp(c)
             \/ \E n \in 1 .. LineCap + 1 : ReadChunk(c, n) \/ ReadRefused(c, n)
             \/ ReadEof(c) \/ ReadEnds(c)
             \/ Shutdown(c)
             \/ Finish(c)
      PROVE  ConnInv'
  <2>1. CASE Connect(c) \/ GiveUp(c)
    BY <2>1, ConnectKeeps, GiveUpKeeps
  <2>2. CASE \E n \in 1 .. LineCap + 1 : ReadChunk(c, n)
    BY <2>2, ReadChunkKeeps
  <2>3. CASE Shutdown(c)
    BY <1>1, <2>3 DEF Shutdown
  <2>4. CASE EndThread(c)
    BY <2>4, EndThreadKeeps
  <2>5. CASE \/ \E n \in 1 .. LineCap + 1 : ReadRefused(c, n)
             \/ ReadEof(c) \/ ReadEnds(c) \/ TakeLine(c) \/ Respond(c)
             \/ Written(c) \/ WriteFails(c)
    BY <2>5, ThreadKeeps
  <2> QED
    BY <1>4, <2>1, <2>2, <2>3, <2>4, <2>5 DEF Finish
<1>5. CASE UNCHANGED vars
  BY <1>1, <1>5 DEF vars, connVars
<1> QED
  BY <1>2, <1>3, <1>4, <1>5 DEF Next
-----------------------------------------------------------------------------
\* A connection's step leaves the accept loop where it is; all it does there is to stop
\* the engine and to wake the loop.
LEMMA ThreadLeavesLoop ==
  ASSUME NEW c \in Clients,
         \/ Connect(c) \/ GiveUp(c)
         \/ \E n \in 1 .. LineCap + 1 : ReadChunk(c, n) \/ ReadRefused(c, n)
         \/ ReadEof(c) \/ ReadEnds(c)
         \/ Shutdown(c)
         \/ Finish(c)
  PROVE  /\ UNCHANGED <<loop, failure, drained, forced, watcher>>
         /\ is_running' \in {is_running, FALSE}
         /\ wake' \in {wake, wake \/ ~is_running}
<1> USE DEF loopVars
<1>1. CASE Connect(c) \/ GiveUp(c) \/ ReadEof(c) \/ ReadEnds(c) \/ Shutdown(c)
  BY <1>1 DEF Connect, GiveUp, ReadEof, ReadEnds, Shutdown
<1>2. CASE \E n \in 1 .. LineCap + 1 : ReadChunk(c, n) \/ ReadRefused(c, n)
  BY <1>2 DEF ReadChunk, ReadRefused
<1>3. CASE TakeLine(c) \/ Respond(c) \/ Written(c) \/ WriteFails(c)
  BY <1>3 DEF TakeLine, Respond, Written, WriteFails
<1>4. CASE EndThread(c)
  BY <1>4 DEF EndThread
<1> QED
  BY <1>1, <1>2, <1>3, <1>4 DEF Finish

\* The loop's variables keep their types.
LEMMA LoopStepOK ==
  ASSUME LoopOK, [Next]_vars
  PROVE  LoopOK'
<1> USE DEF LoopOK, Loop, connVars, loopVars
<1>1. CASE LoopStep
  <2>1. CASE Top \/ Woken \/ Recheck \/ AcceptNone \/ Cleanup \/ Close \/ Exit
    BY <2>1 DEF Top, Woken, Recheck, AcceptNone, Cleanup, Close, Exit
  <2>2. CASE WaitIdle
    BY <2>2 DEF WaitIdle
  <2>3. ASSUME NEW c \in Clients, AcceptServed(c) \/ AcceptDropped(c) PROVE LoopOK'
    BY <2>3 DEF AcceptServed, AcceptDropped, Accepts
  <2> QED
    BY <1>1, <2>1, <2>2, <2>3 DEF LoopStep
<1>2. CASE Fail \/ SignalStops \/ SignalWakes \/ SignalForces
  BY <1>2 DEF Fail, SignalStops, SignalWakes, SignalForces
<1>3. ASSUME NEW c \in Clients,
             \/ Connect(c) \/ GiveUp(c)
             \/ \E n \in 1 .. LineCap + 1 : ReadChunk(c, n) \/ ReadRefused(c, n)
             \/ ReadEof(c) \/ ReadEnds(c)
             \/ Shutdown(c)
             \/ Finish(c)
      PROVE  LoopOK'
  BY <1>3, ThreadLeavesLoop
<1>4. CASE UNCHANGED vars
  BY <1>4 DEF vars
<1> QED
  BY <1>1, <1>2, <1>3, <1>4 DEF Next

\* Once the engine has stopped, no data request begins to be worked on.
LEMMA NoWorkBegins ==
  ASSUME ConnInv, [Next]_vars, ~is_running
  PROVE  Unanswered' \subseteq Unanswered
<1> USE DEF Unanswered, In
<1>1. CASE UNCHANGED connVars
  BY <1>1 DEF connVars
<1>2. CASE LoopStep
  <2>1. ASSUME NEW c \in Clients, AcceptServed(c) \/ AcceptDropped(c)
        PROVE  Unanswered' \subseteq Unanswered
    BY <2>1 DEF AcceptServed, AcceptDropped, ConnInv, ConnOK
  <2>2. CASE Top \/ Woken \/ Recheck \/ AcceptNone \/ Cleanup \/ WaitIdle \/ Exit
    BY <1>1, <2>2 DEF Top, Woken, Recheck, AcceptNone, Cleanup, WaitIdle, Exit
  <2>3. CASE Close
    BY <2>3 DEF Close, ConnInv, ConnOK
  <2> QED
    BY <1>2, <2>1, <2>2, <2>3 DEF LoopStep
<1>3. CASE Fail \/ SignalStops \/ SignalWakes \/ SignalForces
  BY <1>1, <1>3 DEF Fail, SignalStops, SignalWakes, SignalForces
<1>4. ASSUME NEW c \in Clients,
             \/ Connect(c) \/ GiveUp(c)
             \/ \E n \in 1 .. LineCap + 1 : ReadChunk(c, n) \/ ReadRefused(c, n)
             \/ ReadEof(c) \/ ReadEnds(c)
             \/ Shutdown(c)
             \/ Finish(c)
      PROVE  Unanswered' \subseteq Unanswered
  <2> USE DEF ConnInv, ConnOK
  <2>1. CASE Connect(c) \/ GiveUp(c)
    BY <2>1 DEF Connect, GiveUp
  <2>2. ASSUME NEW s, NEW b, Move(c, s, b), UNCHANGED role,
               s \in {"working", "writing"} /\ role[c] = "data" => conn[c] = "working"
        PROVE  Unanswered' \subseteq Unanswered
    BY <2>2 DEF Move
  <2>3. ASSUME NEW n \in 1 .. LineCap + 1, ReadChunk(c, n) \/ ReadRefused(c, n)
        PROVE  Unanswered' \subseteq Unanswered
    BY <2>2, <2>3 DEF ReadChunk, ReadRefused, AfterChunk
  <2>4. CASE ReadEof(c) \/ ReadEnds(c) \/ Respond(c) \/ Written(c) \/ WriteFails(c)
    BY <2>2, <2>4 DEF ReadEof, ReadEnds, Respond, Written, WriteFails, AfterWrite
  <2>5. CASE TakeLine(c)
    BY <2>2, <2>5 DEF TakeLine, DataLine, ControlLine
  <2>6. CASE Shutdown(c)
    BY <1>1, <2>6 DEF Shutdown
  <2>7. CASE EndThread(c)
    BY <2>7 DEF EndThread
  <2> QED
    BY <1>4, <2>1, <2>3, <2>4, <2>5, <2>6, <2>7 DEF Finish
<1>5. CASE UNCHANGED vars
  BY <1>1, <1>5 DEF vars, connVars
<1> QED
  BY <1>2, <1>3, <1>4, <1>5 DEF Next

\* A stop that drained has cut nothing off, and no later step begins what it would.
LEMMA StopStep ==
  ASSUME LoopOK, ConnInv, StopInv, [Next]_vars
  PROVE  StopInv'
<1> USE DEF LoopOK, Loop
<1>1. CASE Fail
  BY <1>1 DEF Fail, StopInv
<1>2. CASE WaitIdle
  <2>1. ASSUME answering = 0 PROVE Unanswered' = {}
    <3>1. IsFiniteSet(In(Counted)) /\ Cardinality(In(Counted)) = 0
      BY <2>1, FS_Subset DEF ConnInv, AnsweringExact, In
    <3>2. In(Counted) = {}
      BY <3>1, FS_EmptySet
    <3> QED
      BY <1>2, <3>2 DEF WaitIdle, connVars, Unanswered, In, Counted
  <2> QED
    BY <1>2, <2>1 DEF WaitIdle, StopInv
<1>3. CASE [Next]_vars /\ ~Fail /\ ~WaitIdle
  <2> DEFINE Kept == /\ UNCHANGED <<drained, failure>>
                     /\ is_running' => is_running
                     /\ loop \in {"leaving", "exited"} => loop' \in {"leaving", "exited"}
                     /\ loop' \in {"cleanup", "close", "drain", "leaving", "exited"}
                          => \/ loop \in {"cleanup", "close", "drain", "leaving", "exited"}
                             \/ ~is_running
  <2>1. Kept
    <3>1. CASE Top \/ Woken \/ Recheck \/ AcceptNone \/ Cleanup \/ Close \/ Exit
      BY <3>1 DEF Top, Woken, Recheck, AcceptNone, Cleanup, Close, Exit
    <3>2. ASSUME NEW c \in Clients, AcceptServed(c) \/ AcceptDropped(c) PROVE Kept
      BY <3>2 DEF AcceptServed, AcceptDropped, Accepts
    <3>3. CASE SignalStops \/ SignalWakes \/ SignalForces
      BY <3>3 DEF SignalStops, SignalWakes, SignalForces, loopVars
    <3>4. ASSUME NEW c \in Clients,
                 \/ Connect(c) \/ GiveUp(c)
                 \/ \E n \in 1 .. LineCap + 1 : ReadChunk(c, n) \/ ReadRefused(c, n)
                 \/ ReadEof(c) \/ ReadEnds(c)
                 \/ Shutdown(c)
                 \/ Finish(c)
          PROVE  Kept
      BY <3>4, ThreadLeavesLoop
    <3>5. CASE UNCHANGED vars
      BY <3>5 DEF vars
    <3> QED
      BY <1>3, <3>1, <3>2, <3>3, <3>4, <3>5 DEF Next, LoopStep
  <2>4. drained /\ ~failure => Unanswered' = {}
    <3> SUFFICES ASSUME drained, ~failure PROVE Unanswered' = {}
      OBVIOUS
    <3>1. ~is_running /\ Unanswered = {}
      BY DEF StopInv
    <3> QED
      BY <3>1, NoWorkBegins
  <2> QED
    BY <2>1, <2>4 DEF StopInv
<1> QED
  BY <1>1, <1>2, <1>3

\* The invariants hold of every reachable state.
LEMMA ServeInvHolds == Spec => [](LoopOK /\ ConnInv /\ StopInv)
<1>1. Init => LoopOK /\ ConnInv /\ StopInv
  <2> SUFFICES ASSUME Init PROVE LoopOK /\ ConnInv /\ StopInv
    OBVIOUS
  <2>1. LoopOK /\ ConnOK /\ BacklogInv /\ RolesInv /\ StopInv
    <3>1. LoopOK /\ StopInv
      BY DEF Init, LoopOK, Loop, StopInv
    <3>2. ConnOK
      BY DEF Init, ConnOK, Conn
    <3>3. BacklogInv /\ RolesInv
      BY DEF Init, BacklogInv, RolesInv, Served, Counted
    <3> QED
      BY <3>1, <3>2, <3>3
  <2>2. AnsweringExact
    <3>1. In(Counted) = {}
      BY DEF Init, In, Counted
    <3> QED
      BY <3>1, FS_EmptySet DEF Init, AnsweringExact
  <2>3. ReadBudgetExact
    <3>1. Bytes(Clients, held) = {}
      BY DEF Init, Bytes
    <3> QED
      BY <3>1, FS_EmptySet DEF Init, ReadBudgetExact, Total, In
  <2>4. SlotsExact
    <3>1. In(Served) = {}
      BY DEF Init, In, Served, Counted
    <3>2. /\ {c \in In(Served) : role[c] = "data"} = {}
          /\ {c \in In(Served) : role[c] = "control"} = {}
      BY <3>1
    <3>3. /\ Cardinality({c \in In(Served) : role[c] = "data"}) = 0
          /\ Cardinality({c \in In(Served) : role[c] = "control"}) = 0
      BY <3>2, FS_EmptySet
    <3>4. active = 0 /\ control = 0
      BY DEF Init
    <3> QED
      BY <3>3, <3>4 DEF SlotsExact
  <2> QED
    BY <2>1, <2>2, <2>3, <2>4 DEF ConnInv
<1>2. LoopOK /\ ConnInv /\ StopInv /\ [Next]_vars => (LoopOK /\ ConnInv /\ StopInv)'
  BY LoopStepOK, ConnStep, StopStep
<1> QED
  BY <1>1, <1>2, PTL DEF Spec

\* Slots, read budget and the count of answers are exact in every reachable state,
\* whatever the threads of any number of clients interleave to: no path of
\* handle_connection leaks a slot, a reservation or a count, and none exceeds its cap.
THEOREM AccountsAlwaysExact == Spec => []AccountsExact
<1>1. LoopOK /\ ConnInv => AccountsExact
  BY DEF LoopOK, ConnInv, ConnOK, AccountsExact, TypeOK
<1> QED
  BY <1>1, ServeInvHolds, PTL

\* A stop whose drain found nothing to wait for exits with no data request worked on
\* and unanswered (serve.rs, wait_idle and the running check before process_line).
THEOREM StopNeverCutsOff == Spec => []StopCutsNothingOff
<1>1. StopInv => StopCutsNothingOff
  BY DEF StopInv, StopCutsNothingOff, DrainedExit
<1> QED
  BY <1>1, ServeInvHolds, PTL
=============================================================================
