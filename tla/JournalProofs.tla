---------------------------- MODULE JournalProofs ----------------------------
(***************************************************************************)
(* Proofs about the decision journal and the export to tuicr, for every    *)
(* number of importers, exporters, notes, comments, files, texts and       *)
(* changes of the session.                                                 *)
(***************************************************************************)
EXTENDS Journal, TuicrExport, WeightsProofs, SequenceTheorems

USE BoundsNat, DistinctIds, FiledIsText

Ids == Comments \cup Files
Events == [kind : Kinds, id : Ids, value : Content \cup Marks \cup {None},
           supersedes : Nat, conflict : BOOLEAN]
Chains == Seq(Events)

\* The chain q begins with p.
Begins(p, q) == Len(p) <= Len(q) /\ \A k \in 1 .. Len(p) : q[k] = p[k]

\* Every event of q supersedes the latest one before it about its comment or file.
Linear(q) == \A k \in 1 .. Len(q) : q[k].supersedes = LastOf(SubSeq(q, 1, k - 1), q[k].id)
-----------------------------------------------------------------------------
(* The latest event about a comment or file *)

\* A set of positions has a greatest.
LEMMA MaxOfPositions ==
  ASSUME NEW n \in Nat, NEW S \in SUBSET (1 .. n), S # {}
  PROVE  Max(S) \in S /\ \A y \in S : y <= Max(S)
<1> DEFINE T == {u \in Nat : \A y \in S : y <= u}
<1>1. T \in SUBSET Nat /\ n \in T
  OBVIOUS
<1>2. PICK u \in T : \A m \in T : u <= m
  BY <1>1, LeastOfSet
<1>3. u \in S
  <2> SUFFICES ASSUME u \notin S PROVE FALSE
    OBVIOUS
  <2>1. u # 0
    <3>1. PICK y \in S : TRUE
      OBVIOUS
    <3>2. y >= 1 /\ y <= u
      BY <1>2, <3>1
    <3> QED
      BY <3>2
  <2>2. u - 1 \in T
    BY <2>1
  <2> QED
    BY <1>2, <2>2
<1>4. \E x \in S : \A y \in S : x >= y
  BY <1>3
<1> QED
  BY <1>4 DEF Max

\* LastOf is 0 or the greatest position of an event about x.
LEMMA LastOfFacts ==
  ASSUME NEW q \in Chains, NEW x
  PROVE  /\ Of(q, x) \subseteq 1 .. Len(q)
         /\ LastOf(q, x) \in 0 .. Len(q)
         /\ Of(q, x) = {} => LastOf(q, x) = 0
         /\ Of(q, x) # {} => LastOf(q, x) \in Of(q, x) /\ \A k \in Of(q, x) : k <= LastOf(q, x)
<1>1. Of(q, x) \subseteq 1 .. Len(q) /\ Len(q) \in Nat
  BY DEF Of, Chains
<1>2. ASSUME Of(q, x) # {}
      PROVE  Max(Of(q, x)) \in Of(q, x) /\ \A k \in Of(q, x) : k <= Max(Of(q, x))
  BY <1>1, <1>2, MaxOfPositions
<1> QED
  BY <1>1, <1>2 DEF LastOf

\* The greatest position is the latest event.
LEMMA LastOfIs ==
  ASSUME NEW q \in Chains, NEW x, NEW m \in Of(q, x), \A k \in Of(q, x) : k <= m
  PROVE  LastOf(q, x) = m
<1>1. LastOf(q, x) \in Of(q, x) /\ m <= LastOf(q, x) /\ LastOf(q, x) <= m
  BY LastOfFacts
<1>2. LastOf(q, x) \in Int /\ m \in Int
  BY LastOfFacts
<1> QED
  BY <1>1, <1>2

\* What is before position k of a chain.
LEMMA ChainPrefix ==
  ASSUME NEW q \in Chains, NEW m \in 0 .. Len(q)
  PROVE  /\ SubSeq(q, 1, m) \in Chains /\ Len(SubSeq(q, 1, m)) = m
         /\ \A k \in 1 .. m : SubSeq(q, 1, m)[k] = q[k]
<1>1. \A k \in 1 .. m : q[k] \in Events
  BY DEF Chains
<1>2. m \in Int /\ m - 1 + 1 = m
  BY DEF Chains
<1>3. /\ SubSeq(q, 1, m) \in Seq(Events)
      /\ Len(SubSeq(q, 1, m)) = IF 1 <= m THEN m - 1 + 1 ELSE 0
      /\ \A k \in 1 .. m - 1 + 1 : SubSeq(q, 1, m)[k] = q[1 + k - 1]
  BY ONLY <1>1, <1>2, SubSeqProperties
<1> QED
  BY <1>2, <1>3 DEF Chains

\* Two chains with the same events are the same.
LEMMA SameChain ==
  ASSUME NEW p \in Chains, NEW q \in Chains, Len(p) = Len(q), \A k \in 1 .. Len(p) : p[k] = q[k]
  PROVE  p = q
  BY DEF Chains

\* The beginnings of a chain and of one that it begins are the same.
LEMMA SamePrefix ==
  ASSUME NEW p \in Chains, NEW q \in Chains, Begins(p, q), NEW m \in 0 .. Len(p)
  PROVE  SubSeq(p, 1, m) = SubSeq(q, 1, m)
<1>1. Len(p) \in Nat /\ Len(q) \in Nat
  BY DEF Chains
<1>2. m \in 0 .. Len(q) /\ 1 .. m \subseteq 1 .. Len(p)
  BY <1>1 DEF Begins
<1>3. /\ SubSeq(p, 1, m) \in Chains /\ Len(SubSeq(p, 1, m)) = m
      /\ \A k \in 1 .. m : SubSeq(p, 1, m)[k] = p[k]
  BY ChainPrefix
<1>4. /\ SubSeq(q, 1, m) \in Chains /\ Len(SubSeq(q, 1, m)) = m
      /\ \A k \in 1 .. m : SubSeq(q, 1, m)[k] = q[k]
  BY <1>2, ChainPrefix
<1>5. \A k \in 1 .. m : SubSeq(p, 1, m)[k] = SubSeq(q, 1, m)[k]
  BY <1>2, <1>3, <1>4 DEF Begins
<1> QED
  BY <1>3, <1>4, <1>5, SameChain

\* A beginning of a linear chain is linear.
LEMMA LinearPrefix ==
  ASSUME NEW p \in Chains, NEW q \in Chains, Begins(p, q), Linear(q)
  PROVE  Linear(p)
<1> SUFFICES ASSUME NEW k \in 1 .. Len(p)
             PROVE  p[k].supersedes = LastOf(SubSeq(p, 1, k - 1), p[k].id)
  BY DEF Linear
<1>1. Len(p) \in Nat /\ Len(q) \in Nat
  BY DEF Chains
<1>2. k - 1 \in 0 .. Len(p) /\ k \in 1 .. Len(q) /\ p[k] = q[k]
  BY <1>1 DEF Begins
<1>3. SubSeq(p, 1, k - 1) = SubSeq(q, 1, k - 1)
  BY <1>2, SamePrefix
<1> QED
  BY <1>2, <1>3 DEF Linear
-----------------------------------------------------------------------------
(* One more event *)

LEMMA OneMore ==
  ASSUME NEW q \in Chains, NEW e \in Events
  PROVE  /\ q \o <<e>> \in Chains /\ Len(q \o <<e>>) = Len(q) + 1
         /\ (q \o <<e>>)[Len(q) + 1] = e
         /\ Begins(q, q \o <<e>>)
<1>1. <<e>> \in Seq(Events) /\ Len(<<e>>) = 1 /\ <<e>>[1] = e /\ Len(q) \in Nat
  BY DEF Chains
<1>2. /\ q \o <<e>> \in Seq(Events)
      /\ Len(q \o <<e>>) = Len(q) + Len(<<e>>)
      /\ \A i \in 1 .. Len(q) + Len(<<e>>) :
            (q \o <<e>>)[i] = IF i <= Len(q) THEN q[i] ELSE <<e>>[i - Len(q)]
  BY <1>1, ConcatProperties DEF Chains
<1>3. (q \o <<e>>)[Len(q) + 1] = e
  BY <1>1, <1>2
<1>4. Begins(q, q \o <<e>>)
  BY <1>1, <1>2 DEF Begins
<1> QED
  BY <1>1, <1>2, <1>3, <1>4 DEF Chains

\* The events about x once e is there.
LEMMA OneMoreOf ==
  ASSUME NEW q \in Chains, NEW e \in Events, NEW x
  PROVE  /\ Of(q \o <<e>>, x) = Of(q, x) \cup (IF e.id = x THEN {Len(q) + 1} ELSE {})
         /\ LastOf(q \o <<e>>, x) = IF e.id = x THEN Len(q) + 1 ELSE LastOf(q, x)
<1> DEFINE r == q \o <<e>>
<1>1. r \in Chains /\ Len(r) = Len(q) + 1 /\ r[Len(q) + 1] = e /\ Begins(q, r)
  BY OneMore
<1>2. Len(q) \in Nat /\ DOMAIN q = 1 .. Len(q) /\ DOMAIN r = 1 .. Len(q) + 1
  BY <1>1 DEF Chains
<1> HIDE DEF r
<1>3. Of(r, x) = Of(q, x) \cup (IF e.id = x THEN {Len(q) + 1} ELSE {})
  BY <1>1, <1>2 DEF Of, Begins
<1>4. Of(q, x) \subseteq 1 .. Len(q)
  BY LastOfFacts
<1>5. CASE e.id = x
  <2>1. Len(q) + 1 \in Of(r, x) /\ \A k \in Of(r, x) : k <= Len(q) + 1
    BY <1>2, <1>3, <1>4, <1>5
  <2>2. LastOf(r, x) = Len(q) + 1
    BY <1>1, <2>1, LastOfIs
  <2> QED
    BY <1>3, <1>5, <2>2 DEF r
<1>6. CASE e.id # x
  <2>1. Of(r, x) = Of(q, x)
    BY <1>3, <1>6
  <2>2. LastOf(r, x) = LastOf(q, x)
    BY <2>1 DEF LastOf
  <2> QED
    BY <1>6, <2>1, <2>2 DEF r
<1> QED
  BY <1>5, <1>6

\* A chain stays linear with an event that supersedes the latest one.
LEMMA OneMoreLinear ==
  ASSUME NEW q \in Chains, Linear(q), NEW e \in Events, e.supersedes = LastOf(q, e.id)
  PROVE  Linear(q \o <<e>>)
<1> DEFINE r == q \o <<e>>
<1>1. r \in Chains /\ Len(r) = Len(q) + 1 /\ r[Len(q) + 1] = e /\ Begins(q, r) /\ Len(q) \in Nat
  BY OneMore DEF Chains
<1> HIDE DEF r
<1> SUFFICES ASSUME NEW k \in 1 .. Len(r)
             PROVE  r[k].supersedes = LastOf(SubSeq(r, 1, k - 1), r[k].id)
  BY DEF Linear, r
<1>2. k - 1 \in 0 .. Len(q)
  BY <1>1
<1>3. SubSeq(r, 1, k - 1) = SubSeq(q, 1, k - 1)
  BY <1>1, <1>2, SamePrefix
<1>4. CASE k <= Len(q)
  <2>1. k \in 1 .. Len(q) /\ r[k] = q[k]
    BY <1>1, <1>4 DEF Begins
  <2> QED
    BY <1>3, <2>1 DEF Linear
<1>5. CASE k = Len(q) + 1
  <2>1. SubSeq(q, 1, k - 1) = q
    <3> DEFINE t == SubSeq(q, 1, k - 1)
    <3>1. t \in Chains /\ Len(t) = k - 1 /\ \A m \in 1 .. k - 1 : t[m] = q[m]
      BY <1>2, ChainPrefix
    <3> HIDE DEF t
    <3>2. t = q
      BY <1>1, <1>5, <3>1, SameChain
    <3> QED
      BY <3>2 DEF t
  <2> QED
    BY <1>1, <1>3, <1>5, <2>1
<1> QED
  BY <1>1, <1>4, <1>5
-----------------------------------------------------------------------------
(* What a plan is: the steps of Extended *)

Seen == [comments : [Comments -> Content \cup {None}], marks : [Files -> Marks]]
Items == [phase : {"comment", "tombstone"}, id : Comments] \cup [phase : {"file"}, id : Files]

\* The agenda is finite and has every item.
LEMMA AgendaFacts ==
  /\ Agenda \in Seq(Items)
  /\ \A item \in Items : \E k \in 1 .. Len(Agenda) : Agenda[k] = item
<1>1. ASSUME NEW S, IsFiniteSet(S)
      PROVE  /\ SetToSeq(S) \in Seq(S)
             /\ \A x \in S : \E k \in 1 .. Len(SetToSeq(S)) : SetToSeq(S)[k] = x
  <2> DEFINE n == Cardinality(S)
  <2>1. n \in Nat /\ ExistsBijection(1 .. n, S)
    BY <1>1, FS_CardinalityType
  <2>2. \E f \in [1 .. n -> S] : IsInjective(f)
    BY <2>1 DEF ExistsBijection, Bijection, Injection
  <2> DEFINE g == SetToSeq(S)
  <2>3. g \in [1 .. n -> S] /\ IsInjective(g)
    BY <2>2 DEF SetToSeq
  <2>4. IsFiniteSet(1 .. n) /\ Cardinality(1 .. n) = n
    BY <2>1, FS_Interval
  <2> HIDE DEF g
  <2>5. g \in Injection(1 .. n, S)
    BY <2>3 DEF Injection
  <2>6. g \in Surjection(1 .. n, S)
    BY <1>1, <2>4, <2>5, FS_Injection
  <2>7. \A x \in S : \E k \in 1 .. n : g[k] = x
    BY <2>6 DEF Surjection
  <2>8. g \in Seq(S) /\ Len(g) = n
    BY <2>1, <2>3
  <2> QED
    BY <2>7, <2>8 DEF g
<1> DEFINE For(phase, ids) == [k \in DOMAIN ids |-> [phase |-> phase, id |-> ids[k]]]
           cs == SetToSeq(Comments)
           fs == SetToSeq(Files)
<1>2. /\ cs \in Seq(Comments) /\ \A x \in Comments : \E k \in 1 .. Len(cs) : cs[k] = x
      /\ fs \in Seq(Files) /\ \A x \in Files : \E k \in 1 .. Len(fs) : fs[k] = x
  BY <1>1, IdsFinite DEF Comments
<1> DEFINE A == For("comment", cs)
           B == For("tombstone", cs)
           C == For("file", fs)
<1>3. Agenda = (A \o B) \o C
  BY DEF Agenda
<1> HIDE DEF cs, fs
<1>4. ASSUME NEW S, NEW ph, NEW ids \in Seq(S), \A x \in S : [phase |-> ph, id |-> x] \in Items
      PROVE  /\ For(ph, ids) \in Seq(Items) /\ Len(For(ph, ids)) = Len(ids)
             /\ \A k \in 1 .. Len(ids) : For(ph, ids)[k] = [phase |-> ph, id |-> ids[k]]
  <2>1. DOMAIN ids = 1 .. Len(ids) /\ Len(ids) \in Nat /\ \A k \in 1 .. Len(ids) : ids[k] \in S
    OBVIOUS
  <2>2. For(ph, ids) \in [1 .. Len(ids) -> Items]
    BY <1>4, <2>1
  <2> QED
    BY <2>1, <2>2
<1> HIDE DEF For
<1>a. /\ \A x \in Comments : [phase |-> "comment", id |-> x] \in Items
      /\ \A x \in Comments : [phase |-> "tombstone", id |-> x] \in Items
      /\ \A x \in Files : [phase |-> "file", id |-> x] \in Items
  BY DEF Items
<1>b. A \in Seq(Items) /\ Len(A) = Len(cs) /\ \A k \in 1 .. Len(cs) : A[k] = [phase |-> "comment", id |-> cs[k]]
  BY <1>2, <1>4, <1>a
<1>c. B \in Seq(Items) /\ Len(B) = Len(cs) /\ \A k \in 1 .. Len(cs) : B[k] = [phase |-> "tombstone", id |-> cs[k]]
  BY <1>2, <1>4, <1>a
<1>d. C \in Seq(Items) /\ Len(C) = Len(fs) /\ \A k \in 1 .. Len(fs) : C[k] = [phase |-> "file", id |-> fs[k]]
  BY <1>2, <1>4, <1>a
<1> HIDE DEF A, B, C
<1>5. /\ \A x \in Comments : \E k \in 1 .. Len(A) : A[k] = [phase |-> "comment", id |-> x]
      /\ \A x \in Comments : \E k \in 1 .. Len(B) : B[k] = [phase |-> "tombstone", id |-> x]
      /\ \A x \in Files : \E k \in 1 .. Len(C) : C[k] = [phase |-> "file", id |-> x]
  BY <1>2, <1>b, <1>c, <1>d
<1>6. ASSUME NEW p \in Seq(Items), NEW q \in Seq(Items)
      PROVE  /\ p \o q \in Seq(Items)
             /\ \A k \in 1 .. Len(p) : \E m \in 1 .. Len(p \o q) : (p \o q)[m] = p[k]
             /\ \A k \in 1 .. Len(q) : \E m \in 1 .. Len(p \o q) : (p \o q)[m] = q[k]
  <2>1. /\ p \o q \in Seq(Items) /\ Len(p \o q) = Len(p) + Len(q)
        /\ Len(p) \in Nat /\ Len(q) \in Nat
        /\ \A i \in 1 .. Len(p) + Len(q) :
              (p \o q)[i] = IF i <= Len(p) THEN p[i] ELSE q[i - Len(p)]
    BY ConcatProperties
  <2>2. ASSUME NEW k \in 1 .. Len(p) PROVE \E m \in 1 .. Len(p \o q) : (p \o q)[m] = p[k]
    BY <2>1
  <2>3. ASSUME NEW k \in 1 .. Len(q) PROVE \E m \in 1 .. Len(p \o q) : (p \o q)[m] = q[k]
    <3>1. Len(p) + k \in 1 .. Len(p \o q) /\ (p \o q)[Len(p) + k] = q[k]
      BY <2>1
    <3> QED
      BY <3>1
  <2> QED
    BY <2>1, <2>2, <2>3
<1> DEFINE AB == A \o B
<1>7. AB \in Seq(Items) /\ AB \o C \in Seq(Items) /\ Agenda = AB \o C
  BY <1>3, <1>b, <1>c, <1>d, <1>6
<1>8. /\ \A k \in 1 .. Len(A) : \E m \in 1 .. Len(Agenda) : Agenda[m] = A[k]
      /\ \A k \in 1 .. Len(B) : \E m \in 1 .. Len(Agenda) : Agenda[m] = B[k]
      /\ \A k \in 1 .. Len(C) : \E m \in 1 .. Len(Agenda) : Agenda[m] = C[k]
  <2>1. /\ \A k \in 1 .. Len(A) : \E m \in 1 .. Len(AB) : AB[m] = A[k]
        /\ \A k \in 1 .. Len(B) : \E m \in 1 .. Len(AB) : AB[m] = B[k]
    BY <1>b, <1>c, <1>6
  <2> HIDE DEF AB
  <2>2. /\ \A k \in 1 .. Len(AB) : \E m \in 1 .. Len(AB \o C) : (AB \o C)[m] = AB[k]
        /\ \A k \in 1 .. Len(C) : \E m \in 1 .. Len(AB \o C) : (AB \o C)[m] = C[k]
    BY <1>d, <1>6, <1>7
  <2>3. /\ \A k \in 1 .. Len(AB) : \E m \in 1 .. Len(Agenda) : Agenda[m] = AB[k]
        /\ \A k \in 1 .. Len(C) : \E m \in 1 .. Len(Agenda) : Agenda[m] = C[k]
    BY <1>7, <2>2
  <2>4. ASSUME NEW k \in 1 .. Len(A) PROVE \E m \in 1 .. Len(Agenda) : Agenda[m] = A[k]
    <3>1. PICK n \in 1 .. Len(AB) : AB[n] = A[k]
      BY <2>1
    <3> QED
      BY <2>3, <3>1
  <2>5. ASSUME NEW k \in 1 .. Len(B) PROVE \E m \in 1 .. Len(Agenda) : Agenda[m] = B[k]
    <3>1. PICK n \in 1 .. Len(AB) : AB[n] = B[k]
      BY <2>1
    <3> QED
      BY <2>3, <3>1
  <2> QED
    BY <2>3, <2>4, <2>5
<1>9. ASSUME NEW item \in Items PROVE \E k \in 1 .. Len(Agenda) : Agenda[k] = item
  <2>1. \/ \E x \in Comments : item = [phase |-> "comment", id |-> x]
        \/ \E x \in Comments : item = [phase |-> "tombstone", id |-> x]
        \/ \E x \in Files : item = [phase |-> "file", id |-> x]
    BY DEF Items
  <2>2. \/ \E k \in 1 .. Len(A) : A[k] = item
        \/ \E k \in 1 .. Len(B) : B[k] = item
        \/ \E k \in 1 .. Len(C) : C[k] = item
    BY <1>5, <2>1
  <2> QED
    BY <1>8, <2>2
<1> QED
  BY <1>7, <1>9

\* e[k] is the journal after the first k items of the agenda.
Through(e, j, s, led) ==
  /\ e[0] = j
  /\ \A k \in 1 .. Len(Agenda) : e[k] = e[k - 1] \o ItemEvents(e[k - 1], s, led, Agenda[k])

\* Extended goes through the agenda, one item after the other.
LEMMA ExtendedSteps ==
  ASSUME NEW j, NEW s, NEW led
  PROVE  \E e : Through(e, j, s, led) /\ Extended(j, s, led) = e[Len(Agenda)]
<1> DEFINE N == Len(Agenda)
           Steps(f, n) == f = [k \in 0 .. n |->
                                 IF k = 0 THEN j ELSE f[k - 1] \o ItemEvents(f[k - 1], s, led, Agenda[k])]
           T == {n \in 0 .. N : ~ \E f : Steps(f, n)}
<1>1. N \in Nat
  BY AgendaFacts
<1>2. Extended(j, s, led) = (CHOOSE e : Steps(e, N))[N]
  BY DEF Extended
<1> HIDE DEF N, T, Steps
<1>3. T = {}
  <2> SUFFICES ASSUME T # {} PROVE FALSE
    OBVIOUS
  <2>1. T \in SUBSET Nat
    BY <1>1 DEF T
  <2>2. PICK n \in T : \A m \in T : n <= m
    BY <2>1, LeastOfSet
  <2>3. CASE n = 0
    <3>1. Steps([k \in 0 .. 0 |-> j], 0)
      BY DEF Steps
    <3> QED
      BY <2>2, <2>3, <3>1 DEF T
  <2>4. CASE n # 0
    <3>1. n - 1 \in 0 .. N /\ n - 1 \notin T
      <4>1. n \in 0 .. N
        BY <2>2 DEF T
      <4> QED
        BY <1>1, <2>2, <2>4, <4>1
    <3>2. PICK f : Steps(f, n - 1)
      BY <3>1 DEF T
    <3> DEFINE g == [k \in 0 .. n |->
                       IF k = n THEN f[n - 1] \o ItemEvents(f[n - 1], s, led, Agenda[n]) ELSE f[k]]
    <3>3. \A k \in 0 .. n : g[k] = IF k = 0 THEN j ELSE g[k - 1] \o ItemEvents(g[k - 1], s, led, Agenda[k])
      BY <2>1, <2>4, <3>2 DEF Steps
    <3>4. Steps(g, n)
      BY <3>3 DEF Steps
    <3> HIDE DEF g
    <3> QED
      BY <2>2, <3>4 DEF T
  <2> QED
    BY <2>3, <2>4
<1>4. \E e : Steps(e, N)
  BY <1>1, <1>3 DEF T
<1>5. PICK e : Steps(e, N) /\ Extended(j, s, led) = e[N]
  BY <1>2, <1>4
<1>6. \A k \in 0 .. N : e[k] = IF k = 0 THEN j ELSE e[k - 1] \o ItemEvents(e[k - 1], s, led, Agenda[k])
  BY <1>5 DEF Steps
<1>7. e[0] = j /\ \A k \in 1 .. N : e[k] = e[k - 1] \o ItemEvents(e[k - 1], s, led, Agenda[k])
  <2>1. 0 \in 0 .. N /\ \A k \in 1 .. N : k \in 0 .. N /\ k # 0
    BY <1>1
  <2> QED
    BY <1>6, <2>1
<1>8. Through(e, j, s, led)
  BY <1>7, Zenon DEF N, Through
<1> QED
  BY <1>5, <1>8 DEF N
-----------------------------------------------------------------------------
(* What the journal tells about a comment or file once an event is appended *)

\* Nothing changes for the other comments and files.
LEMMA OtherUntouched ==
  ASSUME NEW q \in Chains, NEW e \in Events, NEW x, e.id # x, NEW led
  PROVE  /\ Of(q \o <<e>>, x) = Of(q, x)
         /\ Deleted(q \o <<e>>, x) <=> Deleted(q, x)
         /\ Recorded(q \o <<e>>, x) = Recorded(q, x)
         /\ Known(q \o <<e>>, led, x) <=> Known(q, led, x)
         /\ MarkOf(q \o <<e>>, x) = MarkOf(q, x)
<1> DEFINE r == q \o <<e>>
<1>1. Of(r, x) = Of(q, x) /\ LastOf(r, x) = LastOf(q, x)
  <2>1. /\ Of(r, x) = Of(q, x) \cup (IF e.id = x THEN {Len(q) + 1} ELSE {})
        /\ LastOf(r, x) = IF e.id = x THEN Len(q) + 1 ELSE LastOf(q, x)
    BY OneMoreOf
  <2> HIDE DEF r
  <2> QED
    BY <2>1
<1>2. Begins(q, r)
  BY OneMore
<1>3. Of(q, x) \subseteq 1 .. Len(q) /\ (Of(q, x) # {} => LastOf(q, x) \in Of(q, x))
      /\ (Of(q, x) = {} => LastOf(q, x) = 0)
  BY LastOfFacts
<1> HIDE DEF r
<1>4. \A k \in Of(q, x) : r[k] = q[k]
  BY <1>2, <1>3 DEF Begins
<1>5. Deleted(r, x) <=> Deleted(q, x)
  BY <1>1, <1>3, <1>4 DEF Deleted
<1>6. {k \in Of(r, x) : r[k].kind # "deleted"} = {k \in Of(q, x) : q[k].kind # "deleted"}
  BY <1>1, <1>4
<1>7. Recorded(r, x) = Recorded(q, x)
  <2> DEFINE told == {k \in Of(q, x) : q[k].kind # "deleted"}
  <2>1. told # {} => Max(told) \in Of(q, x)
    <3> SUFFICES ASSUME told # {} PROVE Max(told) \in Of(q, x)
      OBVIOUS
    <3>1. told \in SUBSET (1 .. Len(q)) /\ Len(q) \in Nat /\ told \subseteq Of(q, x)
      BY <1>3 DEF Chains
    <3> HIDE DEF told
    <3>2. Max(told) \in told
      BY <3>1, MaxOfPositions
    <3> QED
      BY <3>1, <3>2
  <2>2. Recorded(q, x) = IF told = {} THEN Original ELSE q[Max(told)].value
    BY DEF Recorded
  <2>3. Recorded(r, x) = IF told = {} THEN Original ELSE r[Max(told)].value
    BY <1>6 DEF Recorded
  <2> HIDE DEF told
  <2> QED
    BY <1>4, <2>1, <2>2, <2>3
<1>8. MarkOf(r, x) = MarkOf(q, x)
  BY <1>1, <1>3, <1>4 DEF MarkOf
<1> QED
  BY <1>1, <1>5, <1>7, <1>8 DEF r, Known

\* The event is the latest about its own.
LEMMA OwnLatest ==
  ASSUME NEW q \in Chains, NEW e \in Events, NEW led
  PROVE  /\ LastOf(q \o <<e>>, e.id) = Len(q) + 1
         /\ Known(q \o <<e>>, led, e.id)
         /\ Deleted(q \o <<e>>, e.id) <=> e.kind = "deleted"
         /\ e.kind # "deleted" => Recorded(q \o <<e>>, e.id) = e.value
         /\ MarkOf(q \o <<e>>, e.id) = e.value.mark
<1> DEFINE r == q \o <<e>>
           x == e.id
<1>1. Of(r, x) = Of(q, x) \cup {Len(q) + 1} /\ LastOf(r, x) = Len(q) + 1
  BY OneMoreOf
<1>2. r \in Chains /\ Len(r) = Len(q) + 1 /\ r[Len(q) + 1] = e /\ Len(q) \in Nat
  BY OneMore DEF Chains
<1> HIDE DEF r
<1>3. e.kind # "deleted" => Recorded(r, x) = e.value
  <2> SUFFICES ASSUME e.kind # "deleted" PROVE Recorded(r, x) = e.value
    OBVIOUS
  <2> DEFINE told == {k \in Of(r, x) : r[k].kind # "deleted"}
  <2>1. /\ told \in SUBSET (1 .. Len(r)) /\ Len(q) + 1 \in told /\ Len(r) \in Nat
    BY <1>1, <1>2, LastOfFacts
  <2>2. Recorded(r, x) = IF told = {} THEN Original ELSE r[Max(told)].value
    BY DEF Recorded
  <2> HIDE DEF told
  <2>3. Max(told) \in told /\ \A y \in told : y <= Max(told)
    BY <2>1, MaxOfPositions
  <2>4. Max(told) = Len(q) + 1
    <3> DEFINE m == Max(told)
    <3>1. m \in 1 .. Len(r) /\ Len(q) + 1 <= m
      BY <2>1, <2>3
    <3> HIDE DEF m
    <3>2. m = Len(q) + 1
      BY <1>2, <3>1
    <3> QED
      BY <3>2 DEF m
  <2> QED
    BY <1>2, <2>1, <2>2, <2>4
<1>4. Deleted(r, x) <=> e.kind = "deleted"
  BY <1>1, <1>2 DEF Deleted
<1>5. MarkOf(r, x) = e.value.mark
  BY <1>1, <1>2 DEF MarkOf
<1> QED
  BY <1>1, <1>3, <1>4, <1>5 DEF r, Known
-----------------------------------------------------------------------------
(* What a plan adds *)

\* An event of a plan: only what the ledger does not know is added as a comment, and a
\* file's event carries the mark that was seen, which the journal j did not have.
NewEvent(e, j, s, led) ==
  /\ e.kind = "added" => e.id \in Comments \ led /\ s.comments[e.id] # None
  /\ e.id \in Files => e.value = s.marks[e.id] /\ s.marks[e.id].mark # MarkOf(j, e.id)

\* The chain q is j with events of a plan.
Grown(q, j, s, led) ==
  /\ q \in Chains /\ Begins(j, q) /\ Linear(q)
  /\ \A k \in Len(j) + 1 .. Len(q) : NewEvent(q[k], j, s, led)

\* The item has no more events to plan.
ItemDone(q, s, led, item) ==
  /\ item.phase = "comment" /\ s.comments[item.id] # None
       => /\ Known(q, led, item.id) /\ ~Deleted(q, item.id)
          /\ Recorded(q, item.id).text = s.comments[item.id].text
          /\ Recorded(q, item.id).life = s.comments[item.id].life
  /\ item.phase = "tombstone" /\ s.comments[item.id] = None
       => (Known(q, led, item.id) => Deleted(q, item.id))
  /\ item.phase = "file" => s.marks[item.id].mark = MarkOf(q, item.id)

\* One event of a plan.
LEMMA GrowOne ==
  ASSUME NEW j \in Chains, NEW s \in Seen, NEW led, NEW q, Grown(q, j, s, led),
         NEW e \in Events, e.supersedes = LastOf(q, e.id), NewEvent(e, j, s, led)
  PROVE  /\ Grown(q \o <<e>>, j, s, led)
         /\ \A it \in Items : it.id # e.id /\ ItemDone(q, s, led, it)
                              => ItemDone(q \o <<e>>, s, led, it)
<1> DEFINE r == q \o <<e>>
<1>1. q \in Chains /\ Begins(j, q) /\ Linear(q) /\ Len(q) \in Nat /\ Len(j) \in Nat
  BY DEF Grown, Chains
<1>2. r \in Chains /\ Len(r) = Len(q) + 1 /\ r[Len(q) + 1] = e /\ Begins(q, r)
  BY <1>1, OneMore
<1>3. Linear(r)
  BY <1>1, OneMoreLinear
<1>4. ASSUME NEW it \in Items, it.id # e.id, ItemDone(q, s, led, it)
      PROVE  ItemDone(r, s, led, it)
  <2>1. /\ Deleted(r, it.id) <=> Deleted(q, it.id)
        /\ Recorded(r, it.id) = Recorded(q, it.id)
        /\ Known(r, led, it.id) <=> Known(q, led, it.id)
        /\ MarkOf(r, it.id) = MarkOf(q, it.id)
    BY <1>1, <1>4, OtherUntouched
  <2> HIDE DEF r
  <2> QED
    BY <1>4, <2>1 DEF ItemDone
<1> HIDE DEF r
<1>5. Begins(j, r)
  BY <1>1, <1>2 DEF Begins
<1>6. ASSUME NEW k \in Len(j) + 1 .. Len(r) PROVE NewEvent(r[k], j, s, led)
  <2>1. CASE k <= Len(q)
    <3>1. k \in Len(j) + 1 .. Len(q) /\ r[k] = q[k]
      BY <1>1, <1>2, <2>1 DEF Begins
    <3> QED
      BY <3>1 DEF Grown
  <2>2. CASE k = Len(q) + 1
    BY <1>2, <2>2
  <2> QED
    BY <1>1, <1>2, <2>1, <2>2
<1>7. Grown(r, j, s, led)
  BY <1>2, <1>3, <1>5, <1>6 DEF Grown
<1> QED
  BY <1>4, <1>7 DEF r

LEMMA EventTyped ==
  ASSUME NEW kind \in Kinds, NEW x \in Ids, NEW v \in Content \cup Marks \cup {None},
         NEW n \in Nat, NEW b \in BOOLEAN
  PROVE  /\ Event(kind, x, v, n, b) \in Events
         /\ Event(kind, x, v, n, b).kind = kind /\ Event(kind, x, v, n, b).id = x
         /\ Event(kind, x, v, n, b).value = v /\ Event(kind, x, v, n, b).supersedes = n
  BY DEF Event, Events

\* One item of the agenda that has one event, the latest about its comment or file.
LEMMA ItemOneEvent ==
  ASSUME NEW j \in Chains, NEW s \in Seen, NEW led, NEW q, Grown(q, j, s, led),
         NEW item \in Items, NEW kind \in Kinds, NEW v \in Content \cup Marks \cup {None},
         NEW n, n = LastOf(q, item.id), NEW b \in BOOLEAN,
         NewEvent(Event(kind, item.id, v, n, b), j, s, led),
         \/ item.phase = "comment" /\ kind # "deleted" /\ v = s.comments[item.id] /\ v # None
         \/ item.phase = "tombstone" /\ kind = "deleted" /\ s.comments[item.id] = None
         \/ item.phase = "file" /\ v = s.marks[item.id]
  PROVE  /\ Grown(q \o <<Event(kind, item.id, v, n, b)>>, j, s, led)
         /\ ItemDone(q \o <<Event(kind, item.id, v, n, b)>>, s, led, item)
         /\ \A it \in Items : ItemDone(q, s, led, it)
              => ItemDone(q \o <<Event(kind, item.id, v, n, b)>>, s, led, it)
<1> DEFINE e == Event(kind, item.id, v, n, b)
           r == q \o <<e>>
<1>1. q \in Chains /\ n \in Nat /\ item.id \in Ids
  BY LastOfFacts DEF Grown, Items, Ids, Chains
<1>2. /\ e \in Events /\ e.kind = kind /\ e.id = item.id /\ e.value = v
      /\ e.supersedes = LastOf(q, e.id)
  BY <1>1, EventTyped
<1>3. NewEvent(e, j, s, led)
  OBVIOUS
<1> HIDE DEF e
<1>4. /\ Grown(r, j, s, led)
      /\ \A it \in Items : it.id # e.id /\ ItemDone(q, s, led, it) => ItemDone(r, s, led, it)
  BY <1>2, <1>3, GrowOne
<1>5. /\ Known(r, led, e.id)
      /\ Deleted(r, e.id) <=> e.kind = "deleted"
      /\ e.kind # "deleted" => Recorded(r, e.id) = e.value
      /\ MarkOf(r, e.id) = e.value.mark
  BY <1>1, <1>2, OwnLatest
<1> HIDE DEF r
<1>6. ASSUME NEW it \in Items, it.id = item.id PROVE ItemDone(r, s, led, it)
  <2>1. it.phase = item.phase \/ {it.phase, item.phase} \subseteq {"comment", "tombstone"}
    BY <1>6 DEF Items, Comments
  <2> QED
    BY <1>2, <1>5, <1>6, <2>1 DEF ItemDone
<1> QED
  BY <1>2, <1>4, <1>6 DEF r, e

\* One item of the agenda: its events continue the chain, it has no more of them, and no
\* item before it has new ones.
LEMMA ItemStep ==
  ASSUME NEW j \in Chains, NEW s \in Seen, NEW led, NEW q, Grown(q, j, s, led), NEW item \in Items
  PROVE  /\ Grown(q \o ItemEvents(q, s, led, item), j, s, led)
         /\ ItemDone(q \o ItemEvents(q, s, led, item), s, led, item)
         /\ \A it \in Items : ItemDone(q, s, led, it)
              => ItemDone(q \o ItemEvents(q, s, led, item), s, led, it)
<1> DEFINE Goal(r) == /\ Grown(r, j, s, led) /\ ItemDone(r, s, led, item)
                      /\ \A it \in Items : ItemDone(q, s, led, it) => ItemDone(r, s, led, it)
           c == item.id
           ev == ItemEvents(q, s, led, item)
<1>1. q \in Chains /\ q \o <<>> = q /\ Len(q) \in Nat
  BY ConcatEmptySeq DEF Grown, Chains
<1>2. ItemDone(q, s, led, item) => Goal(q)
  OBVIOUS
<1>3. ~Known(q, led, c) => LastOf(q, c) = 0 /\ c \notin led /\ ~Deleted(q, c)
  BY <1>1, LastOfFacts DEF Known, Deleted
<1>4. CASE item.phase = "comment"
  <2> DEFINE v == s.comments[c]
             old == Recorded(q, c)
  <2>1. c \in Comments /\ c \notin Files /\ v \in Content \cup {None} /\ ev = CommentEvents(q, v, led, c)
    BY <1>4 DEF Items, Seen, Comments, ItemEvents
  <2>2. CASE v = None
    <3>1. ev = <<>> /\ ItemDone(q, s, led, item)
      BY <1>4, <2>1, <2>2 DEF CommentEvents, ItemDone
    <3> QED
      BY <1>1, <1>2, <3>1
  <2>3. CASE v # None /\ ~Known(q, led, c)
    <3> DEFINE e == Event("added", c, v, 0, FALSE)
    <3>1. ev = <<e>>
      BY <1>3, <2>1, <2>3 DEF CommentEvents
    <3>2. NewEvent(e, j, s, led)
      BY <1>3, <2>1, <2>3 DEF NewEvent, Event
    <3>3. Goal(q \o <<e>>)
      BY <1>3, <1>4, <2>1, <2>3, <3>2, ItemOneEvent, ZenonT(40) DEF Kinds
    <3> QED
      BY <3>1, <3>3
  <2>4. CASE v # None /\ Known(q, led, c) /\ Deleted(q, c)
    <3> DEFINE e == Event("restored", c, v, LastOf(q, c), FALSE)
    <3>1. ev = <<e>>
      BY <2>1, <2>4 DEF CommentEvents
    <3>2. NewEvent(e, j, s, led)
      BY <2>1, <2>4 DEF NewEvent, Event
    <3>3. Goal(q \o <<e>>)
      BY <1>4, <2>1, <2>4, <3>2, ItemOneEvent, ZenonT(40) DEF Kinds
    <3> QED
      BY <3>1, <3>3
  <2>5. CASE v # None /\ Known(q, led, c) /\ ~Deleted(q, c)
    <3> DEFINE e1 == Event("revised", c, v, LastOf(q, c), c \in led)
               e2(n) == Event("lifecycle", c, v, n, FALSE)
    <3>0. (c \in led) \in BOOLEAN
      OBVIOUS
    <3>1. NewEvent(e1, j, s, led) /\ \A n : NewEvent(e2(n), j, s, led)
      BY <2>1 DEF NewEvent, Event
    <3>2. CASE old.text = v.text /\ old.life = v.life
      <4>1. ev = <<>>
        BY <2>1, <2>5, <3>2 DEF CommentEvents
      <4>2. ItemDone(q, s, led, item)
        BY <1>4, <2>5, <3>2 DEF ItemDone
      <4> QED
        BY <1>1, <1>2, <4>1, <4>2
    <3>3. CASE old.text = v.text /\ old.life # v.life
      <4>1. ev = <<e2(LastOf(q, c))>>
        <5>1. ev = <<>> \o <<e2(LastOf(q, c))>>
          BY <2>1, <2>5, <3>3 DEF CommentEvents
        <5>2. <<e2(LastOf(q, c))>> \in Seq({e2(LastOf(q, c))})
          OBVIOUS
        <5>3. <<>> \o <<e2(LastOf(q, c))>> = <<e2(LastOf(q, c))>>
          BY <5>2, ConcatEmptySeq
        <5> QED
          BY <5>1, <5>3
      <4>2. Goal(q \o <<e2(LastOf(q, c))>>)
        BY <1>4, <2>1, <2>5, <3>1, ItemOneEvent, ZenonT(40) DEF Kinds
      <4> QED
        BY <4>1, <4>2
    <3>4. CASE old.text # v.text
      <4>1. Goal(q \o <<e1>>)
        <5> DEFINE b == c \in led
        <5>1. b \in BOOLEAN /\ NewEvent(Event("revised", c, v, LastOf(q, c), b), j, s, led)
          BY <3>1
        <5> HIDE DEF b
        <5>2. Goal(q \o <<Event("revised", c, v, LastOf(q, c), b)>>)
          BY <1>4, <2>1, <2>5, <5>1, ItemOneEvent DEF Kinds
        <5> QED
          BY <5>2 DEF b
      <4>2. CASE old.life = v.life
        <5>1. ev = <<e1>>
          BY <2>1, <2>5, <3>4, <4>2 DEF CommentEvents
        <5> QED
          BY <4>1, <5>1
      <4>3. CASE old.life # v.life
        <5> DEFINE q1 == q \o <<e1>>
                   e3 == e2(Len(q) + 1)
        <5>1. ev = <<e1>> \o <<e3>>
          BY <2>1, <2>5, <3>4, <4>3 DEF CommentEvents
        <5>2. e1 \in Events /\ e1.id = c
          <6> DEFINE b == c \in led
          <6>1. b \in BOOLEAN
            OBVIOUS
          <6> HIDE DEF b
          <6>2. LastOf(q, c) \in Nat /\ c \in Ids
            BY <1>1, <2>1, LastOfFacts DEF Ids
          <6>3. /\ Event("revised", c, v, LastOf(q, c), b) \in Events
                /\ Event("revised", c, v, LastOf(q, c), b).id = c
            BY <2>1, <2>5, <6>1, <6>2, EventTyped DEF Kinds
          <6> QED
            BY <6>3 DEF b
        <5>3. LastOf(q1, c) = Len(q) + 1
          BY <1>1, <5>2, OwnLatest
        <5>4. e3 \in Events
          <6>1. /\ "lifecycle" \in Kinds /\ c \in Ids /\ v \in Content \cup Marks \cup {None}
                /\ Len(q) + 1 \in Nat /\ FALSE \in BOOLEAN
            BY <1>1, <2>1, <2>5 DEF Kinds, Ids
          <6> QED
            BY ONLY <6>1, EventTyped
        <5>5. q \o (<<e1>> \o <<e3>>) = q1 \o <<e3>>
          <6> HIDE DEF e1, e3
          <6>1. q \in Seq(Events) /\ <<e1>> \in Seq(Events) /\ <<e3>> \in Seq(Events)
            BY <1>1, <5>2, <5>4 DEF Chains
          <6>2. (q \o <<e1>>) \o <<e3>> = q \o (<<e1>> \o <<e3>>)
            BY ONLY <6>1, ConcatAssociative
          <6> QED
            BY <6>2
        <5> HIDE DEF q1
        <5>6. Grown(q1, j, s, led) /\ \A it \in Items : ItemDone(q, s, led, it) => ItemDone(q1, s, led, it)
          BY <4>1 DEF q1
        <5>7. /\ Grown(q1 \o <<e3>>, j, s, led) /\ ItemDone(q1 \o <<e3>>, s, led, item)
              /\ \A it \in Items : ItemDone(q1, s, led, it) => ItemDone(q1 \o <<e3>>, s, led, it)
          BY <1>4, <2>1, <2>5, <3>1, <5>3, <5>6, ItemOneEvent, ZenonT(40) DEF Kinds
        <5>8. Goal(q1 \o <<e3>>)
          BY <5>6, <5>7
        <5> QED
          BY <5>1, <5>5, <5>8
      <4> QED
        BY <4>2, <4>3
    <3> QED
      BY <3>2, <3>3, <3>4
  <2> QED
    BY <2>2, <2>3, <2>4, <2>5
<1>5. CASE item.phase = "tombstone"
  <2> DEFINE v == s.comments[c]
             e == Event("deleted", c, None, LastOf(q, c), FALSE)
  <2>1. c \in Comments /\ c \notin Files /\ ev = TombstoneEvents(q, v, led, c)
    BY <1>5 DEF Items, Comments, ItemEvents
  <2>2. CASE v = None /\ Known(q, led, c) /\ ~Deleted(q, c)
    <3>1. ev = <<e>>
      BY <2>1, <2>2 DEF TombstoneEvents
    <3>2. NewEvent(e, j, s, led)
      BY <2>1 DEF NewEvent, Event
    <3>3. Goal(q \o <<e>>)
      BY <1>5, <2>1, <2>2, <3>2, ItemOneEvent, ZenonT(40) DEF Kinds
    <3> QED
      BY <3>1, <3>3
  <2>3. CASE ~ (v = None /\ Known(q, led, c) /\ ~Deleted(q, c))
    <3>1. ev = <<>> /\ ItemDone(q, s, led, item)
      BY <1>5, <2>1, <2>3 DEF TombstoneEvents, ItemDone
    <3> QED
      BY <1>1, <1>2, <3>1
  <2> QED
    BY <2>2, <2>3
<1>6. CASE item.phase = "file"
  <2> DEFINE m == s.marks[c]
             e == Event("file_review", c, m, LastOf(q, c), FALSE)
  <2>1. c \in Files /\ m \in Marks /\ ev = FileEvents(q, m, c)
    BY <1>6 DEF Items, Seen, ItemEvents
  <2>2. CASE m.mark = MarkOf(q, c)
    <3>1. ev = <<>> /\ ItemDone(q, s, led, item)
      BY <1>6, <2>1, <2>2 DEF FileEvents, ItemDone
    <3> QED
      BY <1>1, <1>2, <3>1
  <2>3. CASE m.mark # MarkOf(q, c)
    <3>1. ev = <<e>>
      BY <2>1, <2>3 DEF FileEvents
    <3>2. m.mark # MarkOf(j, c)
      <4>1. CASE \E k \in Len(j) + 1 .. Len(q) : q[k].id = c
        BY <2>1, <4>1 DEF Grown, NewEvent
      <4>2. CASE ~ \E k \in Len(j) + 1 .. Len(q) : q[k].id = c
        <5>1. /\ Len(j) \in Nat /\ DOMAIN j = 1 .. Len(j) /\ DOMAIN q = 1 .. Len(q)
              /\ Len(j) <= Len(q) /\ \A k \in 1 .. Len(j) : q[k] = j[k]
          BY <1>1 DEF Grown, Begins, Chains
        <5>2. Of(q, c) = Of(j, c)
          BY <1>1, <4>2, <5>1 DEF Of
        <5>3. LastOf(q, c) = LastOf(j, c) /\ (Of(j, c) # {} => LastOf(j, c) \in 1 .. Len(j))
          BY <5>2, LastOfFacts DEF LastOf
        <5>4. MarkOf(q, c) = MarkOf(j, c)
          BY <5>1, <5>2, <5>3 DEF MarkOf
        <5> QED
          BY <2>3, <5>4
      <4> QED
        BY <4>1, <4>2
    <3>3. NewEvent(e, j, s, led)
      BY <2>1, <3>2 DEF NewEvent, Event
    <3>4. Goal(q \o <<e>>)
      BY <1>6, <2>1, <3>3, ItemOneEvent DEF Kinds
    <3> QED
      BY <3>1, <3>4
  <2> QED
    BY <2>2, <2>3
<1> QED
  BY <1>4, <1>5, <1>6 DEF Items

\* The journal with a plan is a chain that the journal begins, and nothing is left to plan.
LEMMA ExtendedFacts ==
  ASSUME NEW j \in Chains, Linear(j), NEW s \in Seen, NEW led
  PROVE  /\ Grown(Extended(j, s, led), j, s, led)
         /\ \A item \in Items : ItemDone(Extended(j, s, led), s, led, item)
<1> DEFINE N == Len(Agenda)
<1>1. N \in Nat /\ \A k \in 1 .. N : Agenda[k] \in Items
  BY AgendaFacts
<1>2. PICK e : Through(e, j, s, led) /\ Extended(j, s, led) = e[Len(Agenda)]
  BY ExtendedSteps
<1>3. /\ e[0] = j
      /\ \A k \in 1 .. N : e[k] = e[k - 1] \o ItemEvents(e[k - 1], s, led, Agenda[k])
      /\ Extended(j, s, led) = e[N]
  BY <1>2 DEF Through
<1> HIDE DEF N
<1> DEFINE P(n) == /\ Grown(e[n], j, s, led)
                   /\ \A m \in 1 .. n : ItemDone(e[n], s, led, Agenda[m])
           T == {n \in 0 .. N : ~P(n)}
<1>4. T = {}
  <2> SUFFICES ASSUME T # {} PROVE FALSE
    OBVIOUS
  <2>1. T \in SUBSET Nat
    BY <1>1
  <2> HIDE DEF T
  <2>2. PICK n \in T : \A m \in T : n <= m
    BY <2>1, LeastOfSet
  <2>3. n \in 0 .. N /\ ~P(n)
    BY <2>2 DEF T
  <2>4. n # 0
    <3>1. Grown(j, j, s, led)
      BY DEF Grown, Begins, Chains
    <3> QED
      BY <1>3, <2>3, <3>1
  <2>5. n - 1 \in 0 .. N /\ n - 1 \notin T /\ n \in 1 .. N
    BY <1>1, <2>2, <2>3, <2>4
  <2>6. P(n - 1)
    BY <2>5 DEF T
  <2> DEFINE q == e[n - 1]
  <2>7. /\ Grown(e[n], j, s, led)
        /\ ItemDone(e[n], s, led, Agenda[n])
        /\ \A it \in Items : ItemDone(q, s, led, it) => ItemDone(e[n], s, led, it)
    <3>1. e[n] = q \o ItemEvents(q, s, led, Agenda[n]) /\ Agenda[n] \in Items /\ Grown(q, j, s, led)
      BY <1>1, <1>3, <2>5, <2>6
    <3> HIDE DEF q
    <3> QED
      BY <3>1, ItemStep
  <2>8. ASSUME NEW m \in 1 .. n PROVE ItemDone(e[n], s, led, Agenda[m])
    <3>1. CASE m = n
      BY <2>7, <3>1
    <3>2. CASE m # n
      <4>1. m \in 1 .. n - 1 /\ m \in 1 .. N
        BY <1>1, <2>3, <3>2
      <4> QED
        BY <1>1, <2>6, <2>7, <4>1
    <3> QED
      BY <3>1, <3>2
  <2> QED
    BY <2>3, <2>7, <2>8
<1>5. P(N)
  <2> HIDE DEF P
  <2> QED
    BY <1>1, <1>4
<1>6. ASSUME NEW item \in Items PROVE ItemDone(e[N], s, led, item)
  <2>1. PICK k \in 1 .. N : Agenda[k] = item
    BY AgendaFacts DEF N
  <2> QED
    BY <1>5, <2>1
<1> QED
  BY <1>3, <1>5, <1>6

\* Nothing to plan, nothing planned.
LEMMA NothingPlanned ==
  ASSUME NEW q \in Chains, NEW s \in Seen, NEW led, \A item \in Items : ItemDone(q, s, led, item)
  PROVE  Extended(q, s, led) = q
<1> DEFINE N == Len(Agenda)
<1>1. N \in Nat /\ \A k \in 1 .. N : Agenda[k] \in Items
  BY AgendaFacts
<1>2. PICK e : Through(e, q, s, led) /\ Extended(q, s, led) = e[Len(Agenda)]
  BY ExtendedSteps
<1>3. /\ e[0] = q
      /\ \A k \in 1 .. N : e[k] = e[k - 1] \o ItemEvents(e[k - 1], s, led, Agenda[k])
      /\ Extended(q, s, led) = e[N]
  BY <1>2 DEF Through
<1>4. ASSUME NEW item \in Items PROVE ItemEvents(q, s, led, item) = <<>>
  <2> DEFINE c == item.id
  <2>0. ItemDone(q, s, led, item)
    OBVIOUS
  <2>1. CASE item.phase = "comment"
    <3>1. ItemEvents(q, s, led, item) = CommentEvents(q, s.comments[c], led, c)
      BY <2>1 DEF ItemEvents
    <3>2. CASE s.comments[c] = None
      BY <3>1, <3>2 DEF CommentEvents
    <3>3. CASE s.comments[c] # None
      <4>1. /\ Known(q, led, c) /\ ~Deleted(q, c)
            /\ Recorded(q, c).text = s.comments[c].text
            /\ Recorded(q, c).life = s.comments[c].life
        BY <2>0, <2>1, <3>3 DEF ItemDone
      <4>2. CommentEvents(q, s.comments[c], led, c) = <<>> \o <<>>
        BY <3>3, <4>1 DEF CommentEvents
      <4> QED
        BY <3>1, <4>2
    <3> QED
      BY <3>2, <3>3
  <2>2. CASE item.phase = "tombstone"
    BY <2>0, <2>2 DEF ItemEvents, TombstoneEvents, ItemDone
  <2>3. CASE item.phase = "file"
    BY <2>0, <2>3 DEF ItemEvents, FileEvents, ItemDone
  <2> QED
    BY <2>1, <2>2, <2>3 DEF Items
<1>5. q \o <<>> = q
  BY ConcatEmptySeq DEF Chains
<1> HIDE DEF N
<1> DEFINE T == {n \in 0 .. N : e[n] # q}
<1>6. T = {}
  <2> SUFFICES ASSUME T # {} PROVE FALSE
    OBVIOUS
  <2>1. T \in SUBSET Nat
    BY <1>1
  <2> HIDE DEF T
  <2>2. PICK n \in T : \A m \in T : n <= m
    BY <2>1, LeastOfSet
  <2>3. n \in 0 .. N /\ e[n] # q
    BY <2>2 DEF T
  <2>4. n # 0
    BY <1>3, <2>3
  <2>5. n - 1 \in 0 .. N /\ n - 1 \notin T /\ n \in 1 .. N
    BY <1>1, <2>2, <2>3, <2>4
  <2>6. e[n - 1] = q
    BY <2>5 DEF T
  <2>7. e[n] = q \o ItemEvents(q, s, led, Agenda[n]) /\ Agenda[n] \in Items
    BY <1>1, <1>3, <2>5, <2>6
  <2> QED
    BY <1>4, <1>5, <2>3, <2>7
<1> QED
  BY <1>1, <1>3, <1>6
-----------------------------------------------------------------------------
(* What every chain that reaches the disk is *)

\* The notes that were given up.
GivenUp(fates) == {n \in Notes : fates[n] = "given_up"}

\* Only a human's comment, or a note that was given up, is journaled as added.
AddedRight(q, fates) ==
  \A k \in DOMAIN q : q[k].kind = "added" => q[k].id \in Humans \cup GivenUp(fates)

\* The positive marks of a file all carry one hash.
OneHash(q) == \A f \in Files : \A a, b \in Positive(q, f) : q[a].value.hash = q[b].value.hash

Sound(q, fates) == Linear(q) /\ AddedRight(q, fates) /\ OneHash(q) /\ Len(q) <= JournalCap

\* What a crash leaves of a sound chain is sound.
LEMMA SoundPrefix ==
  ASSUME NEW p \in Chains, NEW q \in Chains, Begins(p, q), NEW fates, Sound(q, fates)
  PROVE  Sound(p, fates)
<1>1. /\ Len(p) \in Nat /\ Len(q) \in Nat /\ DOMAIN p = 1 .. Len(p) /\ DOMAIN q = 1 .. Len(q)
      /\ Len(p) <= Len(q) /\ \A k \in 1 .. Len(p) : q[k] = p[k]
  BY DEF Begins, Chains
<1>2. Linear(p)
  BY LinearPrefix DEF Sound
<1>3. AddedRight(p, fates)
  BY <1>1 DEF Sound, AddedRight
<1>4. \A f \in Files : \A a \in Positive(p, f) : a \in Positive(q, f) /\ q[a] = p[a]
  BY <1>1 DEF Positive, Of
<1>5. OneHash(p)
  BY <1>4 DEF Sound, OneHash
<1> QED
  BY <1>1, <1>2, <1>3, <1>5 DEF Sound

\* A mark that plan_files accepts carries the hash of the marks before it.
LEMMA PinnedHash ==
  ASSUME NEW j \in Chains, OneHash(j), NEW f \in Files, NEW m, ~StaleMark(j, m, f),
         m.mark \notin {"off", MarkOf(j, f)}, NEW a \in Positive(j, f)
  PROVE  j[a].value.hash = m.hash
<1> DEFINE S == Positive(j, f)
<1>1. S \in SUBSET Nat /\ S # {}
  BY DEF Positive, Of, Chains
<1>2. PICK n \in S : \A y \in S : n <= y
  <2> HIDE DEF S
  <2> QED
    BY <1>1, LeastOfSet
<1>3. Min(S) \in S
  <2> HIDE DEF S
  <2> QED
    BY <1>2 DEF Min
<1>4. Pinned(j, f) = {j[Min(S)].value.hash}
  BY <1>1 DEF Pinned
<1>5. j[Min(S)].value.hash = m.hash
  BY <1>4 DEF StaleMark
<1>6. j[a].value.hash = j[Min(S)].value.hash
  BY <1>3 DEF OneHash
<1> QED
  BY <1>5, <1>6

\* What an import plans, from a session whose notes are all in the ledger or given up, and
\* whose marks are not stale, is sound.
LEMMA ExtendedSound ==
  ASSUME NEW j \in Chains, NEW fates, Sound(j, fates), NEW s \in Seen, NEW led,
         \A n \in Notes : s.comments[n] # None => n \in led \cup GivenUp(fates),
         \A f \in Files : ~StaleMark(j, s.marks[f], f),
         Len(Extended(j, s, led)) <= JournalCap
  PROVE  Sound(Extended(j, s, led), fates)
<1> DEFINE x == Extended(j, s, led)
<1>1. Grown(x, j, s, led)
  BY ExtendedFacts DEF Sound
<1> HIDE DEF x
<1>2. /\ Len(j) \in Nat /\ Len(x) \in Nat /\ DOMAIN j = 1 .. Len(j) /\ DOMAIN x = 1 .. Len(x)
      /\ Len(j) <= Len(x) /\ \A k \in 1 .. Len(j) : x[k] = j[k]
      /\ \A k \in Len(j) + 1 .. Len(x) : NewEvent(x[k], j, s, led)
  BY <1>1 DEF Grown, Begins, Chains
<1>3. AddedRight(x, fates)
  <2> SUFFICES ASSUME NEW k \in DOMAIN x, x[k].kind = "added"
               PROVE  x[k].id \in Humans \cup GivenUp(fates)
    BY DEF AddedRight
  <2>1. CASE k \in 1 .. Len(j)
    BY <1>2, <2>1 DEF Sound, AddedRight
  <2>2. CASE k \in Len(j) + 1 .. Len(x)
    <3>1. x[k].id \in Comments \ led /\ s.comments[x[k].id] # None
      BY <1>2, <2>2 DEF NewEvent
    <3> QED
      BY <3>1 DEF Comments
  <2> QED
    BY <1>2, <2>1, <2>2
<1>4. OneHash(x)
  <2> SUFFICES ASSUME NEW f \in Files, NEW a \in Positive(x, f), NEW b \in Positive(x, f)
               PROVE  x[a].value.hash = x[b].value.hash
    BY DEF OneHash
  <2> DEFINE old(k) == k \in Positive(j, f) /\ x[k] = j[k]
             new(k) == /\ x[k].value = s.marks[f]
                       /\ s.marks[f].mark \notin {"off", MarkOf(j, f)}
  <2>1. \A k \in Positive(x, f) : old(k) \/ new(k)
    <3> SUFFICES ASSUME NEW k \in Positive(x, f) PROVE old(k) \/ new(k)
      OBVIOUS
    <3>1. k \in 1 .. Len(x) /\ x[k].id = f /\ x[k].value.mark # "off"
      BY <1>2 DEF Positive, Of
    <3>2. CASE k \in 1 .. Len(j)
      BY <1>2, <3>1, <3>2 DEF Positive, Of
    <3>3. CASE k \in Len(j) + 1 .. Len(x)
      BY <1>2, <3>1, <3>3 DEF NewEvent
    <3> QED
      BY <1>2, <3>1, <3>2, <3>3
  <2>2. \A k \in Positive(x, f) : new(k) => \A d \in Positive(j, f) : j[d].value.hash = x[k].value.hash
    BY PinnedHash DEF Sound
  <2>3. CASE old(a) /\ old(b)
    BY <2>3 DEF Sound, OneHash
  <2>4. CASE new(a) /\ new(b)
    BY <2>4
  <2>5. CASE old(a) /\ new(b)
    BY <2>2, <2>5
  <2>6. CASE new(a) /\ old(b)
    BY <2>2, <2>6
  <2> HIDE DEF old, new
  <2> QED
    BY <2>1, <2>3, <2>4, <2>5, <2>6
<1> QED
  BY <1>1, <1>3, <1>4 DEF Sound, Grown, x

\* A chain and the events of a plan after it.
LEMMA Joined ==
  ASSUME NEW j \in Chains, NEW p \in Chains
  PROVE  /\ j \o p \in Chains /\ Len(j \o p) = Len(j) + Len(p) /\ Begins(j, j \o p)
         /\ \A k \in 1 .. Len(p) : (j \o p)[Len(j) + k] = p[k]
         /\ Len(j) \in Nat /\ Len(p) \in Nat
<1>1. /\ j \o p \in Seq(Events) /\ Len(j \o p) = Len(j) + Len(p)
      /\ \A i \in 1 .. Len(j) + Len(p) : (j \o p)[i] = IF i <= Len(j) THEN j[i] ELSE p[i - Len(j)]
  BY ConcatProperties DEF Chains
<1>2. Len(j) \in Nat /\ Len(p) \in Nat
  BY DEF Chains
<1>3. \A k \in 1 .. Len(p) : (j \o p)[Len(j) + k] = p[k]
  BY <1>1, <1>2
<1>4. Begins(j, j \o p)
  BY <1>1, <1>2 DEF Begins
<1> QED
  BY <1>1, <1>2, <1>3, <1>4 DEF Chains

\* What of a plan is written is a beginning of the chain with all of it.
LEMMA PartWritten ==
  ASSUME NEW j \in Chains, NEW p \in Chains, NEW k \in 0 .. Len(p)
  PROVE  /\ j \o SubSeq(p, 1, k) \in Chains /\ Begins(j, j \o SubSeq(p, 1, k))
         /\ Begins(j \o SubSeq(p, 1, k), j \o p)
<1> DEFINE t == SubSeq(p, 1, k)
<1>1. t \in Chains /\ Len(t) = k /\ \A m \in 1 .. k : t[m] = p[m]
  BY ChainPrefix
<1> HIDE DEF t
<1> DEFINE x == j \o t
           y == j \o p
<1>2. /\ x \in Chains /\ Len(x) = Len(j) + k /\ Begins(j, x)
      /\ \A m \in 1 .. k : x[Len(j) + m] = t[m]
  BY <1>1, Joined
<1>3. /\ y \in Chains /\ Len(y) = Len(j) + Len(p) /\ Begins(j, y)
      /\ \A m \in 1 .. Len(p) : y[Len(j) + m] = p[m]
      /\ Len(j) \in Nat /\ Len(p) \in Nat
  BY Joined
<1> HIDE DEF x, y
<1>4. ASSUME NEW m \in 1 .. Len(x) PROVE y[m] = x[m]
  <2>1. CASE m <= Len(j)
    BY <1>2, <1>3, <2>1 DEF Begins
  <2>2. CASE m > Len(j)
    <3>1. m - Len(j) \in 1 .. k /\ m - Len(j) \in 1 .. Len(p) /\ Len(j) + (m - Len(j)) = m
      BY <1>2, <1>3, <2>2
    <3> QED
      BY <1>1, <1>2, <1>3, <3>1, SMTT(20)
  <2> QED
    BY <1>2, <1>3, <2>1, <2>2
<1>5. Begins(x, y)
  BY <1>2, <1>3, <1>4 DEF Begins
<1> QED
  BY <1>2, <1>5 DEF x, y, t

\* A plan is what Extended adds.
LEMMA PlanIsRest ==
  ASSUME NEW j \in Chains, Linear(j), NEW s \in Seen, NEW led
  PROVE  /\ Plan(j, s, led) \in Chains /\ j \o Plan(j, s, led) = Extended(j, s, led)
         /\ Len(Extended(j, s, led)) = Len(j) + Len(Plan(j, s, led))
<1> DEFINE x == Extended(j, s, led)
           p == SubSeq(x, Len(j) + 1, Len(x))
<1>1. x \in Chains /\ Begins(j, x)
  BY ExtendedFacts DEF Grown
<1>2. Plan(j, s, led) = p
  BY DEF Plan
<1> HIDE DEF x
<1>3. /\ Len(j) \in Nat /\ Len(x) \in Nat /\ Len(j) <= Len(x)
      /\ \A k \in 1 .. Len(j) : x[k] = j[k]
      /\ \A k \in 1 .. Len(x) : x[k] \in Events
  BY <1>1 DEF Begins, Chains
<1> DEFINE lo == Len(j) + 1
           hi == Len(x)
<1>4. lo \in Int /\ hi \in Int /\ \A k \in lo .. hi : x[k] \in Events
  BY <1>3
<1>5. /\ p \in Seq(Events)
      /\ Len(p) = IF lo <= hi THEN hi - lo + 1 ELSE 0
      /\ \A k \in 1 .. hi - lo + 1 : p[k] = x[lo + k - 1]
  <2> HIDE DEF lo, hi
  <2>1. /\ SubSeq(x, lo, hi) \in Seq(Events)
        /\ Len(SubSeq(x, lo, hi)) = IF lo <= hi THEN hi - lo + 1 ELSE 0
        /\ \A k \in 1 .. hi - lo + 1 : SubSeq(x, lo, hi)[k] = x[lo + k - 1]
    BY ONLY <1>4, SubSeqProperties
  <2> QED
    BY <2>1 DEF lo, hi
<1> HIDE DEF p
<1>6. p \in Chains /\ Len(p) = Len(x) - Len(j) /\ \A k \in 1 .. Len(p) : p[k] = x[Len(j) + k]
  <2>1. Len(p) = Len(x) - Len(j)
    BY <1>3, <1>5
  <2>2. ASSUME NEW k \in 1 .. Len(p) PROVE p[k] = x[Len(j) + k]
    <3>1. k \in 1 .. hi - lo + 1 /\ lo + k - 1 = Len(j) + k
      BY <1>3, <2>1
    <3> QED
      BY <1>5, <3>1
  <2> QED
    BY <1>5, <2>1, <2>2 DEF Chains
<1> DEFINE y == j \o p
<1>7. /\ y \in Chains /\ Len(y) = Len(j) + Len(p) /\ Begins(j, y)
      /\ \A k \in 1 .. Len(p) : y[Len(j) + k] = p[k]
  BY <1>6, Joined
<1> HIDE DEF y
<1>8. ASSUME NEW k \in 1 .. Len(y) PROVE y[k] = x[k]
  <2>1. CASE k <= Len(j)
    BY <1>3, <1>7, <2>1 DEF Begins
  <2>2. CASE k > Len(j)
    <3>1. k - Len(j) \in 1 .. Len(p) /\ Len(j) + (k - Len(j)) = k
      BY <1>3, <1>6, <1>7, <2>2
    <3> QED
      BY <1>6, <1>7, <3>1
  <2> QED
    BY <1>3, <1>6, <1>7, <2>1, <2>2
<1>9. Len(y) = Len(x)
  BY <1>3, <1>6, <1>7
<1>10. y = x
  BY <1>1, <1>7, <1>8, <1>9, SameChain
<1> QED
  BY <1>2, <1>6, <1>7, <1>9, <1>10 DEF x, y
-----------------------------------------------------------------------------
(* The inductive invariant *)

Locals == [seen : Seen \cup {None}, ledger : SUBSET Notes, base : Chains, plan : Chains]
Holding == {"locked", "planned", "checked", "written", "synced"}

Types ==
  /\ session \in [Comments -> Content \cup {None}]
  /\ marks \in [Files -> Marks]
  /\ filed \in [Notes -> Fates]
  /\ pc \in [Importers -> PCs]
  /\ loc \in [Importers -> Locals]

Flags == torn \in BOOLEAN /\ spoilt \in BOOLEAN /\ lock \in BOOLEAN

\* A note is in the session only once the export has added it.
NotesFiled(comments, fates) ==
  \A n \in Notes : comments[n] # None => fates[n] \in {"added", "recorded", "given_up"}

\* The journal on disk is sound, and what the checkpoints name survives a power loss.
DiskOK(j, y, cps, fates) ==
  /\ j \in Chains /\ Sound(j, fates)
  /\ y \in Nat /\ y <= Len(j)
  /\ \A p \in cps : p \in Chains /\ Begins(p, j) /\ Len(p) <= y

\* The journal with the whole plan of l is sound and leaves nothing to plan.
PlanOK(l, fates) ==
  /\ Sound(l.base \o l.plan, fates)
  /\ \A item \in Items : ItemDone(l.base \o l.plan, l.seen, l.ledger, item)

\* A note that the import saw is in its ledger or given up.
NotesKnown(l, fates) ==
  \A n \in Notes : l.seen.comments[n] # None => n \in l.ledger \cup GivenUp(fates)

\* An import that is at `at` with locals l, the journal being j, synced to y.
ImportOK(at, l, j, y, fates) ==
  /\ at # "idle" => l.seen \in Seen /\ NotesFiled(l.seen.comments, fates)
  /\ at \notin {"idle", "read"} => NotesKnown(l, fates)
  /\ at \in {"planned", "checked"} => l.base = j /\ PlanOK(l, fates)
  /\ at \in {"written", "synced"} => l.base \o l.plan = j /\ PlanOK(l, fates)
  /\ at = "synced" => y = Len(j)

\* One import at a time is past the lock, and then the lock file is there.
OneHolder ==
  \A i \in Importers : pc[i] \in Holding
    => lock /\ \A k \in Importers : pc[k] \in Holding => i = k

JournalInv ==
  /\ Types
  /\ NotesFiled(session, filed)
  /\ DiskOK(journal, synced, checkpoints, filed)
  /\ \A i \in Importers : ImportOK(pc[i], loc[i], journal, synced, filed)
  /\ OneHolder

LEMMA NoLocalsTyped == NoLocals \in Locals
<1>1. <<>> \in Chains
  BY DEF Chains
<1> QED
  BY <1>1 DEF NoLocals, Locals

\* An import that does not hold the lock knows nothing of the journal.
LEMMA NotHolding ==
  ASSUME NEW at \in PCs \ Holding, NEW l, NEW j, NEW y, NEW fates, ImportOK(at, l, j, y, fates),
         NEW j2, NEW y2
  PROVE  ImportOK(at, l, j2, y2, fates)
  BY DEF ImportOK, Holding, PCs

LEMMA InitJournal == Init => JournalInv
<1> SUFFICES ASSUME Init PROVE JournalInv
  OBVIOUS
<1>1. Types
  BY NoLocalsTyped DEF Init, Types, Fates, PCs, Marks
<1>2. NotesFiled(session, filed)
  BY DEF Init, NotesFiled, Comments
<1>3. DiskOK(journal, synced, checkpoints, filed)
  <2>1. journal = <<>> /\ synced = 0 /\ checkpoints = {}
    BY DEF Init
  <2>2. <<>> \in Chains /\ Len(<<>>) = 0 /\ DOMAIN <<>> = {}
    BY DEF Chains
  <2>3. Sound(<<>>, filed)
    <3>1. Linear(<<>>)
      BY <2>2 DEF Linear
    <3>2. AddedRight(<<>>, filed)
      BY <2>2 DEF AddedRight
    <3>3. OneHash(<<>>)
      BY <2>2 DEF OneHash, Positive, Of
    <3> QED
      BY <2>2, <3>1, <3>2, <3>3 DEF Sound
  <2> QED
    BY <2>1, <2>2, <2>3 DEF DiskOK
<1>4. \A i \in Importers : ImportOK(pc[i], loc[i], journal, synced, filed) /\ pc[i] \notin Holding
  BY DEF Init, ImportOK, Holding
<1> QED
  BY <1>1, <1>2, <1>3, <1>4 DEF JournalInv, OneHolder

\* A note that is filed stays filed, and one that was given up stays that.
Later(fates, now) ==
  \A n \in Notes : /\ fates[n] \in {"added", "recorded"} => now[n] \in {"added", "recorded", "given_up"}
                   /\ fates[n] = "given_up" => now[n] = "given_up"

\* What was sound, with the notes that were given up, stays sound.
LEMMA SoundLater ==
  ASSUME NEW q \in Chains, NEW fates, NEW now, Later(fates, now), Sound(q, fates)
  PROVE  Sound(q, now)
<1>1. GivenUp(fates) \subseteq GivenUp(now)
  BY DEF GivenUp, Later
<1> QED
  BY <1>1 DEF Sound, AddedRight

\* The session and the export change nothing of the journal.
LEMMA OutsideStep ==
  ASSUME JournalInv, UNCHANGED <<disk, lock, pc, loc>>,
         session' \in [Comments -> Content \cup {None}], marks' \in [Files -> Marks],
         filed' \in [Notes -> Fates], NotesFiled(session', filed'),
         Later(filed, filed')
  PROVE  JournalInv'
<1>1. Types'
  BY DEF JournalInv, Types
<1>2. DiskOK(journal', synced', checkpoints', filed')
  <2>1. DiskOK(journal, synced, checkpoints, filed)
    BY DEF JournalInv
  <2>2. Sound(journal, filed')
    BY <2>1, SoundLater DEF DiskOK
  <2> QED
    BY <2>1, <2>2 DEF DiskOK, disk
<1>3. \A i \in Importers : ImportOK(pc'[i], loc'[i], journal', synced', filed')
  <2> SUFFICES ASSUME NEW i \in Importers PROVE ImportOK(pc[i], loc[i], journal, synced, filed')
    BY DEF disk
  <2>1. ImportOK(pc[i], loc[i], journal, synced, filed) /\ loc[i] \in Locals
    BY DEF JournalInv, Types
  <2>2. pc[i] # "idle" => loc[i].seen \in Seen /\ NotesFiled(loc[i].seen.comments, filed')
    BY <2>1 DEF ImportOK, NotesFiled, Later
  <2>3. pc[i] \notin {"idle", "read"} => NotesKnown(loc[i], filed')
    BY <2>1 DEF ImportOK, NotesKnown, GivenUp, Later
  <2>4. PlanOK(loc[i], filed) => PlanOK(loc[i], filed')
    <3>1. loc[i].base \o loc[i].plan \in Chains
      BY <2>1, Joined DEF Locals
    <3> QED
      BY <3>1, SoundLater DEF PlanOK
  <2> QED
    BY <2>1, <2>2, <2>3, <2>4 DEF ImportOK
<1>4. OneHolder'
  BY DEF JournalInv, OneHolder
<1> QED
  BY <1>1, <1>2, <1>3, <1>4 DEF JournalInv

LEMMA OutsideSteps ==
  ASSUME JournalInv,
         \/ \E c \in Comments, v \in Content \cup {None} : ChangeComment(c, v)
         \/ \E f \in Files, m \in Marks : ChangeMark(f, m)
         \/ \E n \in Notes : \/ ExportIntent(n) \/ ExportAdds(n)
                            \/ ExportFails(n) \/ ExportGivesUp(n) \/ ExportRecords(n)
  PROVE  JournalInv'
<1> USE DEF NotesFiled, Later
<1>0. /\ session \in [Comments -> Content \cup {None}] /\ marks \in [Files -> Marks]
      /\ filed \in [Notes -> Fates] /\ NotesFiled(session, filed) /\ Notes \subseteq Comments
      /\ {"no", "pending", "added", "recorded", "given_up"} = Fates /\ Original \in Content
  BY DEF JournalInv, Types, Fates, Comments, Original, Content, Lives
<1>1. ASSUME NEW c \in Comments, NEW v \in Content \cup {None}, ChangeComment(c, v)
      PROVE  JournalInv'
  BY <1>0, <1>1, OutsideStep DEF ChangeComment
<1>2. ASSUME NEW f \in Files, NEW m \in Marks, ChangeMark(f, m) PROVE JournalInv'
  BY <1>0, <1>2, OutsideStep DEF ChangeMark
<1>3. ASSUME NEW n \in Notes, ExportIntent(n) PROVE JournalInv'
  BY <1>0, <1>3, OutsideStep DEF ExportIntent, tuicr
<1>4. ASSUME NEW n \in Notes, ExportAdds(n) PROVE JournalInv'
  BY <1>0, <1>4, OutsideStep DEF ExportAdds
<1>5. ASSUME NEW n \in Notes, ExportFails(n) PROVE JournalInv'
  BY <1>0, <1>5, OutsideStep DEF ExportFails, tuicr
<1>6. ASSUME NEW n \in Notes, ExportGivesUp(n) PROVE JournalInv'
  BY <1>0, <1>6, OutsideStep DEF ExportGivesUp, tuicr
<1>7. ASSUME NEW n \in Notes, ExportRecords(n) PROVE JournalInv'
  BY <1>0, <1>7, OutsideStep DEF ExportRecords, tuicr
<1> QED
  BY <1>1, <1>2, <1>3, <1>4, <1>5, <1>6, <1>7

\* An import moves: only the holder of the lock touches the journal, and only who finds no
\* lock file becomes the holder.
LEMMA ImportMoves ==
  ASSUME JournalInv, NEW i \in Importers, NEW at \in PCs, NEW l \in Locals,
         pc' = [pc EXCEPT ![i] = at], loc' = [loc EXCEPT ![i] = l],
         UNCHANGED <<session, marks, filed>>,
         DiskOK(journal', synced', checkpoints', filed),
         ImportOK(at, l, journal', synced', filed),
         (journal' = journal /\ synced' = synced) \/ pc[i] \in Holding,
         at \in Holding => lock' /\ (pc[i] \in Holding \/ ~lock),
         (lock => lock') \/ pc[i] \in Holding
  PROVE  JournalInv'
<1>1. pc \in [Importers -> PCs] /\ loc \in [Importers -> Locals]
  BY DEF JournalInv, Types
<1>2. /\ pc'[i] = at /\ loc'[i] = l
      /\ \A k \in Importers \ {i} : pc'[k] = pc[k] /\ loc'[k] = loc[k]
  BY <1>1
<1>3. Types'
  BY <1>1 DEF JournalInv, Types
<1>4. NotesFiled(session', filed')
  BY DEF JournalInv
<1>5. ASSUME NEW k \in Importers PROVE ImportOK(pc'[k], loc'[k], journal', synced', filed')
  <2>1. CASE k = i
    BY <1>2, <2>1
  <2>2. CASE k # i
    <3>1. ImportOK(pc[k], loc[k], journal, synced, filed) /\ pc'[k] = pc[k] /\ loc'[k] = loc[k]
      BY <1>2, <2>2 DEF JournalInv
    <3>2. CASE journal' = journal /\ synced' = synced
      BY <3>1, <3>2
    <3>3. CASE pc[i] \in Holding
      <4>1. pc[k] \in PCs \ Holding
        BY <1>1, <2>2, <3>3 DEF JournalInv, OneHolder
      <4>2. ImportOK(pc[k], loc[k], journal', synced', filed)
        BY <3>1, <4>1, NotHolding
      <4> QED
        BY <3>1, <4>2
    <3> QED
      BY <3>2, <3>3
  <2> QED
    BY <2>1, <2>2
<1>6. OneHolder'
  BY <1>2 DEF JournalInv, OneHolder
<1> QED
  BY <1>3, <1>4, <1>5, <1>6 DEF JournalInv

\* An import ends, refused, failed or dead; the holder may have touched the disk.
LEMMA LeaveKeeps ==
  ASSUME JournalInv, NEW i \in Importers, Leave(i), UNCHANGED <<tuicr, filed>>,
         DiskOK(journal', synced', checkpoints', filed),
         (journal' = journal /\ synced' = synced) \/ pc[i] \in Holding,
         (lock => lock') \/ pc[i] \in Holding
  PROVE  JournalInv'
<1>1. /\ pc' = [pc EXCEPT ![i] = "idle"] /\ loc' = [loc EXCEPT ![i] = NoLocals]
      /\ UNCHANGED <<session, marks, filed>>
  BY DEF Leave, Goto, tuicr
<1>2. "idle" \in PCs /\ "idle" \notin Holding /\ NoLocals \in Locals
  BY NoLocalsTyped DEF PCs, Holding
<1>3. ImportOK("idle", NoLocals, journal', synced', filed)
  BY DEF ImportOK
<1> QED
  BY <1>1, <1>2, <1>3, ImportMoves

\* Before the lock: the session and the ledger are read.
LEMMA ReadSteps ==
  ASSUME JournalInv, NEW i \in Importers, ReadSession(i) \/ LoadLedger(i) \/ Acquire(i)
  PROVE  JournalInv'
<1>0. /\ pc \in [Importers -> PCs] /\ loc[i] \in Locals /\ loc \in [Importers -> Locals]
      /\ DiskOK(journal, synced, checkpoints, filed)
      /\ ImportOK(pc[i], loc[i], journal, synced, filed)
      /\ "idle" \notin Holding /\ "read" \notin Holding /\ "bound" \notin Holding
      /\ "read" \in PCs /\ "bound" \in PCs /\ "locked" \in PCs
  BY DEF JournalInv, Types, Holding, PCs
<1>1. CASE ReadSession(i)
  <2> DEFINE l == [loc[i] EXCEPT !.seen = Observed]
  <2>1. /\ pc' = [pc EXCEPT ![i] = "read"] /\ loc' = [loc EXCEPT ![i] = l]
        /\ UNCHANGED <<session, marks, filed, journal, synced, checkpoints, lock>>
    BY <1>1 DEF ReadSession, Goto, tuicr, disk
  <2>2. Observed \in Seen /\ NotesFiled(Observed.comments, filed)
    BY DEF Observed, Seen, JournalInv, Types
  <2>3. l \in Locals /\ l.seen = Observed
    BY <1>0, <2>2 DEF Locals
  <2>4. ImportOK("read", l, journal, synced, filed)
    BY <2>2, <2>3 DEF ImportOK
  <2> HIDE DEF l
  <2> QED
    BY <1>0, <2>1, <2>3, <2>4, ImportMoves
<1>2. CASE LoadLedger(i) /\ intents \subseteq records
  <2> DEFINE l == [loc[i] EXCEPT !.ledger = records]
  <2>1. /\ pc' = [pc EXCEPT ![i] = "bound"] /\ loc' = [loc EXCEPT ![i] = l] /\ pc[i] = "read"
        /\ UNCHANGED <<session, marks, filed, journal, synced, checkpoints, lock>>
    BY <1>2 DEF LoadLedger, Goto, tuicr, disk
  <2>2. l \in Locals /\ l.seen = loc[i].seen /\ l.ledger = records
    BY <1>0 DEF Locals, records
  <2>3. l.seen \in Seen /\ NotesFiled(l.seen.comments, filed)
    BY <1>0, <2>1, <2>2 DEF ImportOK
  <2>4. NotesKnown(l, filed)
    BY <1>2, <2>2, <2>3 DEF NotesKnown, NotesFiled, GivenUp, intents, records
  <2> HIDE DEF l
  <2>5. ImportOK("bound", l, journal, synced, filed)
    BY <2>3, <2>4 DEF ImportOK
  <2> QED
    BY <1>0, <2>1, <2>2, <2>5, ImportMoves
<1>3. CASE LoadLedger(i) /\ ~ (intents \subseteq records)
  BY <1>0, <1>3, LeaveKeeps DEF LoadLedger, disk
<1>4. CASE Acquire(i) /\ Leave(i)
  BY <1>0, <1>4, LeaveKeeps DEF Acquire, disk
<1>5. CASE Acquire(i) /\ ~lock /\ Goto(i, "locked") /\ UNCHANGED loc
  <2>1. /\ pc' = [pc EXCEPT ![i] = "locked"] /\ loc' = [loc EXCEPT ![i] = loc[i]] /\ pc[i] = "bound"
        /\ UNCHANGED <<session, marks, filed, journal, synced, checkpoints>>
        /\ lock' /\ ~lock
    BY <1>0, <1>5 DEF Acquire, Goto, tuicr, disk
  <2>2. ImportOK("locked", loc[i], journal, synced, filed)
    BY <1>0, <2>1 DEF ImportOK
  <2> QED
    BY <1>0, <2>1, <2>2, ImportMoves
<1> QED
  BY <1>1, <1>2, <1>3, <1>4, <1>5 DEF Acquire

\* The plan is made, or refused.
LEMMA PlanSteps ==
  ASSUME JournalInv, NEW i \in Importers, MakePlan(i) \/ RefusePlan(i) \/ CheckLength(i)
  PROVE  JournalInv'
<1>0. /\ pc \in [Importers -> PCs] /\ loc[i] \in Locals /\ loc \in [Importers -> Locals]
      /\ DiskOK(journal, synced, checkpoints, filed) /\ journal \in Chains /\ Sound(journal, filed)
      /\ ImportOK(pc[i], loc[i], journal, synced, filed)
      /\ "planned" \in PCs /\ "checked" \in PCs
      /\ "locked" \in Holding /\ "planned" \in Holding /\ "checked" \in Holding
      /\ pc[i] \in Holding => lock
  BY DEF JournalInv, Types, Holding, PCs, DiskOK, OneHolder
<1> DEFINE s == loc[i].seen
           led == loc[i].ledger
           p == Plan(journal, s, led)
<1>1. CASE MakePlan(i) /\ p # <<>>
  <2> DEFINE l == [[loc[i] EXCEPT !.base = journal] EXCEPT !.plan = p]
  <2>1. /\ pc' = [pc EXCEPT ![i] = "planned"] /\ pc[i] = "locked"
        /\ loc' = [loc EXCEPT ![i].base = journal, ![i].plan = p]
        /\ UNCHANGED <<session, marks, filed, journal, synced, checkpoints, lock>>
        /\ \A f \in Files : ~StaleMark(journal, s.marks[f], f)
        /\ Capped(journal, p)
    BY <1>1 DEF MakePlan, Goto, tuicr, disk
  <2>2. /\ s \in Seen /\ NotesFiled(s.comments, filed) /\ NotesKnown(loc[i], filed)
        /\ \A n \in Notes : s.comments[n] # None => n \in led \cup GivenUp(filed)
    BY <1>0, <2>1 DEF ImportOK, NotesKnown
  <2>3. /\ p \in Chains /\ journal \o p = Extended(journal, s, led)
        /\ Len(Extended(journal, s, led)) = Len(journal) + Len(p)
    BY <1>0, <2>2, PlanIsRest DEF Sound
  <2>4. Sound(Extended(journal, s, led), filed)
    <3>1. Len(Extended(journal, s, led)) <= JournalCap
      BY <2>1, <2>3 DEF Capped
    <3> HIDE DEF p, s, led
    <3> QED
      BY <1>0, <2>1, <2>2, <3>1, ExtendedSound
  <2>5. \A item \in Items : ItemDone(Extended(journal, s, led), s, led, item)
    <3> HIDE DEF p, s, led
    <3> QED
      BY <1>0, <2>2, ExtendedFacts DEF Sound
  <2>6. loc' = [loc EXCEPT ![i] = l]
    <3> HIDE DEF p
    <3> QED
      BY <1>0, <2>1 DEF Locals
  <2>7. l \in Locals /\ l.seen = s /\ l.ledger = led /\ l.base = journal /\ l.plan = p
    <3>1. p \in Chains
      BY <2>3
    <3> HIDE DEF p
    <3> QED
      BY <1>0, <3>1 DEF Locals
  <2> HIDE DEF l, p, s, led
  <2>8. ImportOK("planned", l, journal, synced, filed)
    BY <2>2, <2>3, <2>4, <2>5, <2>7 DEF ImportOK, PlanOK, NotesKnown, s, led
  <2>9. /\ pc' = [pc EXCEPT ![i] = "planned"] /\ UNCHANGED <<session, marks, filed>>
        /\ DiskOK(journal', synced', checkpoints', filed)
        /\ ImportOK("planned", l, journal', synced', filed)
        /\ journal' = journal /\ synced' = synced
        /\ lock' /\ pc[i] \in Holding /\ "planned" \in PCs /\ l \in Locals
    BY <1>0, <2>1, <2>7, <2>8
  <2> QED
    BY <2>6, <2>9, ImportMoves
<1>2. CASE MakePlan(i) /\ p = <<>>
  BY <1>0, <1>2, LeaveKeeps DEF MakePlan, disk
<1>3. CASE RefusePlan(i)
  BY <1>0, <1>3, LeaveKeeps DEF RefusePlan, disk
<1>4. CASE CheckLength(i) /\ Len(journal) = Len(loc[i].base)
  <2>1. /\ pc' = [pc EXCEPT ![i] = "checked"] /\ loc' = [loc EXCEPT ![i] = loc[i]] /\ pc[i] = "planned"
        /\ UNCHANGED <<session, marks, filed, journal, synced, checkpoints, lock>>
    BY <1>0, <1>4 DEF CheckLength, Goto, tuicr, disk
  <2>2. ImportOK("checked", loc[i], journal, synced, filed)
    BY <1>0, <2>1 DEF ImportOK
  <2> QED
    BY <1>0, <2>1, <2>2, ImportMoves
<1>5. CASE CheckLength(i) /\ Len(journal) # Len(loc[i].base)
  BY <1>0, <1>5, LeaveKeeps DEF CheckLength, disk
<1> QED
  BY <1>1, <1>2, <1>3, <1>4, <1>5

\* The lines are written, all of them or some.
LEMMA WriteSteps ==
  ASSUME JournalInv, NEW i \in Importers
  PROVE  /\ WriteAll(i) => JournalInv'
         /\ WriteFails(i) => JournalInv'
         /\ pc[i] = "checked" /\ Dies(i) => JournalInv'
<1>0. /\ pc \in [Importers -> PCs] /\ loc[i] \in Locals /\ loc \in [Importers -> Locals]
      /\ DiskOK(journal, synced, checkpoints, filed) /\ journal \in Chains
      /\ ImportOK(pc[i], loc[i], journal, synced, filed)
      /\ "checked" \in Holding /\ "written" \in Holding /\ "written" \in PCs
      /\ pc[i] \in Holding => lock
  BY DEF JournalInv, Types, Holding, PCs, DiskOK, OneHolder
<1> DEFINE p == loc[i].plan
<1>1. p \in Chains /\ (pc[i] = "checked" => Sound(journal \o p, filed) /\ loc[i].base = journal /\ PlanOK(loc[i], filed))
  BY <1>0 DEF Locals, ImportOK, PlanOK
<1>2. ASSUME NEW j \in Chains, Begins(journal, j), Sound(j, filed)
      PROVE  DiskOK(j, synced, checkpoints, filed)
  <2>1. Len(journal) \in Nat /\ Len(j) \in Nat
    BY <1>0 DEF Chains
  <2>2. \A c \in checkpoints : c \in Chains /\ Begins(c, journal) /\ Len(c) <= synced
    BY <1>0 DEF DiskOK
  <2>3. ASSUME NEW c \in checkpoints PROVE Begins(c, j)
    <3>1. Len(c) \in Nat /\ Len(c) <= Len(journal) /\ Len(journal) <= Len(j)
      BY <1>2, <2>2, <2>3 DEF Begins, Chains
    <3>2. \A k \in 1 .. Len(c) : j[k] = c[k]
      BY <1>2, <2>1, <2>2, <2>3, <3>1 DEF Begins
    <3> QED
      BY <2>1, <3>1, <3>2 DEF Begins
  <2>4. synced \in Nat /\ synced <= Len(j)
    BY <1>0, <1>2, <2>1 DEF DiskOK, Begins
  <2> QED
    BY <1>2, <2>2, <2>3, <2>4 DEF DiskOK
<1>3. ASSUME pc[i] = "checked", NEW k \in 0 .. Len(p), journal' = journal \o SubSeq(p, 1, k)
      PROVE  DiskOK(journal', synced, checkpoints, filed)
  <2>1. /\ journal' \in Chains /\ Begins(journal, journal') /\ Begins(journal', journal \o p)
        /\ journal \o p \in Chains
    <3> HIDE DEF p
    <3> QED
      BY <1>0, <1>1, <1>3, PartWritten, Joined
  <2>2. Sound(journal', filed)
    BY <1>1, <1>3, <2>1, SoundPrefix
  <2> QED
    BY <1>2, <2>1, <2>2
<1>4. CASE WriteAll(i)
  <2>1. /\ pc' = [pc EXCEPT ![i] = "written"] /\ loc' = [loc EXCEPT ![i] = loc[i]] /\ pc[i] = "checked"
        /\ UNCHANGED <<session, marks, filed, synced, checkpoints, lock>> /\ journal' = journal \o p
    BY <1>0, <1>4 DEF WriteAll, Goto, tuicr
  <2>2. journal' \in Chains /\ Begins(journal, journal')
    BY <1>0, <1>1, <2>1, Joined
  <2>3. DiskOK(journal', synced', checkpoints', filed)
    <3>1. DiskOK(journal', synced, checkpoints, filed)
      BY <1>1, <1>2, <2>1, <2>2
    <3> QED
      BY <2>1, <3>1
  <2>4. ImportOK("written", loc[i], journal', synced', filed)
    BY <1>0, <1>1, <2>1 DEF ImportOK
  <2>5. lock' /\ pc[i] \in Holding /\ "written" \in PCs
    BY <1>0, <2>1
  <2> QED
    BY <1>0, <2>1, <2>3, <2>4, <2>5, ImportMoves
<1>5. ASSUME pc[i] = "checked", \E k \in 0 .. Len(p) : Partly(i, k), Leave(i),
             UNCHANGED <<tuicr, filed, synced, checkpoints>>
      PROVE  JournalInv'
  <2>1. PICK k \in 0 .. Len(p) : journal' = journal \o SubSeq(p, 1, k)
    BY <1>5 DEF Partly
  <2>2. DiskOK(journal', synced, checkpoints, filed)
    BY <1>3, <1>5, <2>1
  <2>3. DiskOK(journal', synced', checkpoints', filed) /\ pc[i] \in Holding
    BY <1>0, <1>5, <2>2
  <2> QED
    BY <1>5, <2>3, LeaveKeeps
<1>6. WriteFails(i) => JournalInv'
  BY <1>5 DEF WriteFails
<1>7. pc[i] = "checked" /\ Dies(i) => JournalInv'
  BY <1>5 DEF Dies
<1> QED
  BY <1>4, <1>6, <1>7

\* The journal is synced and named by a checkpoint.
LEMMA SyncSteps ==
  ASSUME JournalInv, NEW i \in Importers
  PROVE  /\ Sync(i) => JournalInv'
         /\ WriteCheckpoint(i) \/ CheckpointFails(i) => JournalInv'
         /\ pc[i] # "checked" /\ Dies(i) => JournalInv'
<1>0. /\ pc \in [Importers -> PCs] /\ loc[i] \in Locals /\ loc \in [Importers -> Locals]
      /\ DiskOK(journal, synced, checkpoints, filed) /\ journal \in Chains /\ Len(journal) \in Nat
      /\ ImportOK(pc[i], loc[i], journal, synced, filed)
      /\ "written" \in Holding /\ "synced" \in Holding /\ "synced" \in PCs
      /\ pc[i] \in Holding => lock
  BY DEF JournalInv, Types, Holding, PCs, DiskOK, OneHolder, Chains
<1>1. CASE Sync(i)
  <2>1. /\ pc' = [pc EXCEPT ![i] = "synced"] /\ loc' = [loc EXCEPT ![i] = loc[i]] /\ pc[i] = "written"
        /\ UNCHANGED <<session, marks, filed, journal, checkpoints, lock>> /\ synced' = Len(journal)
    BY <1>0, <1>1 DEF Sync, Goto, tuicr
  <2>2. DiskOK(journal, Len(journal), checkpoints, filed)
    BY <1>0 DEF DiskOK, Begins
  <2>3. DiskOK(journal', synced', checkpoints', filed)
    BY <2>1, <2>2
  <2>4. ImportOK("synced", loc[i], journal', synced', filed)
    BY <1>0, <2>1 DEF ImportOK
  <2>5. lock' /\ pc[i] \in Holding /\ "synced" \in PCs
    BY <1>0, <2>1
  <2> QED
    BY <1>0, <2>1, <2>3, <2>4, <2>5, ImportMoves
<1>2. ASSUME pc[i] = "synced" PROVE DiskOK(journal, synced, checkpoints \cup {NewHead(i)}, filed)
  <2>1. NewHead(i) = journal /\ synced = Len(journal)
    BY <1>0, <1>2 DEF ImportOK, NewHead
  <2>2. Begins(journal, journal)
    BY <1>0 DEF Begins
  <2> QED
    BY <1>0, <2>1, <2>2 DEF DiskOK
<1>3. ASSUME pc[i] = "synced", Unfinished(i) PROVE DiskOK(journal, synced, checkpoints', filed)
  BY <1>0, <1>2, <1>3 DEF Unfinished
<1>4. CASE WriteCheckpoint(i)
  <2>1. DiskOK(journal', synced', checkpoints', filed) /\ pc[i] \in Holding
    BY <1>0, <1>2, <1>4 DEF WriteCheckpoint
  <2> QED
    BY <1>4, <2>1, LeaveKeeps DEF WriteCheckpoint
<1>5. CASE CheckpointFails(i)
  <2>1. DiskOK(journal', synced', checkpoints', filed) /\ pc[i] \in Holding
    BY <1>0, <1>3, <1>5 DEF CheckpointFails
  <2> QED
    BY <1>5, <2>1, LeaveKeeps DEF CheckpointFails
<1>6. CASE pc[i] # "checked" /\ Dies(i)
  <2>1. UNCHANGED <<journal, synced, lock, tuicr, filed>> /\ Leave(i)
    BY <1>6 DEF Dies
  <2>2. DiskOK(journal, synced, checkpoints', filed)
    <3>1. CASE pc[i] = "synced"
      BY <1>3, <1>6, <3>1 DEF Dies
    <3>2. CASE pc[i] # "synced"
      BY <1>0, <1>6, <3>2 DEF Dies
    <3> QED
      BY <3>1, <3>2
  <2>3. DiskOK(journal', synced', checkpoints', filed)
    BY <2>1, <2>2
  <2> QED
    BY <2>1, <2>3, LeaveKeeps
<1> QED
  BY <1>1, <1>4, <1>5, <1>6

\* A power loss takes the lines that no checkpoint names.
LEMMA PowerLossStep ==
  ASSUME JournalInv, PowerLoss
  PROVE  JournalInv'
<1>0. journal \in Chains /\ Len(journal) \in Nat /\ DiskOK(journal, synced, checkpoints, filed)
  BY DEF JournalInv, DiskOK, Chains
<1>1. PICK k \in synced .. Len(journal) : journal' = SubSeq(journal, 1, k)
  BY DEF PowerLoss
<1>2. k \in 0 .. Len(journal) /\ synced <= k
  BY <1>0, <1>1 DEF DiskOK
<1>3. journal' \in Chains /\ Len(journal') = k /\ \A m \in 1 .. k : journal'[m] = journal[m]
  BY <1>0, <1>1, <1>2, ChainPrefix
<1>4. Sound(journal', filed)
  <2>1. Begins(journal', journal)
    BY <1>0, <1>2, <1>3 DEF Begins
  <2> QED
    BY <1>0, <1>3, <2>1, SoundPrefix DEF DiskOK
<1>5. ASSUME NEW c \in checkpoints PROVE c \in Chains /\ Begins(c, journal') /\ Len(c) <= k
  <2>1. c \in Chains /\ Begins(c, journal) /\ Len(c) <= synced /\ Len(c) \in Nat
    BY <1>0, <1>5 DEF DiskOK, Chains
  <2>2. Len(c) <= k
    BY <1>0, <1>2, <2>1 DEF DiskOK
  <2> QED
    BY <1>2, <1>3, <2>1, <2>2 DEF Begins
<1>6. DiskOK(journal', synced', checkpoints', filed)
  <2>1. synced' = k /\ checkpoints' = checkpoints /\ k \in Nat
    BY <1>2, <1>3 DEF PowerLoss
  <2> QED
    BY <1>3, <1>4, <1>5, <2>1 DEF DiskOK
<1>7. /\ pc' = [i \in Importers |-> "idle"] /\ loc' = [i \in Importers |-> NoLocals]
      /\ UNCHANGED <<session, marks, filed>>
  BY DEF PowerLoss, tuicr
<1>8. Types'
  BY <1>7, NoLocalsTyped DEF JournalInv, Types, PCs
<1>9. \A i \in Importers : ImportOK(pc'[i], loc'[i], journal', synced', filed') /\ pc'[i] \notin Holding
  BY <1>7 DEF ImportOK, Holding
<1>10. NotesFiled(session', filed')
  BY <1>7 DEF JournalInv
<1>11. DiskOK(journal', synced', checkpoints', filed')
  BY <1>6, <1>7
<1> QED
  BY <1>8, <1>9, <1>10, <1>11 DEF JournalInv, OneHolder

LEMMA UnlockStep ==
  ASSUME JournalInv, OperatorUnlocks
  PROVE  JournalInv'
<1>1. UNCHANGED <<session, marks, filed, journal, synced, checkpoints, pc, loc>>
  BY DEF OperatorUnlocks, tuicr, disk
<1>2. \A i \in Importers : pc[i] \notin Holding
  BY DEF OperatorUnlocks, Holding
<1> QED
  BY <1>1, <1>2 DEF JournalInv, Types, OneHolder

\* Every step keeps the invariant.
LEMMA JournalStep ==
  ASSUME JournalInv, [Next]_vars
  PROVE  JournalInv'
<1>1. CASE UNCHANGED vars
  BY <1>1 DEF vars, JournalInv, Types, OneHolder
<1>2. ASSUME NEW i \in Importers, Dies(i) PROVE JournalInv'
  BY <1>2, WriteSteps, SyncSteps
<1> QED
  BY <1>1, <1>2, OutsideSteps, ReadSteps, PlanSteps, WriteSteps, SyncSteps, PowerLossStep, UnlockStep
     DEF Next

\* The flags of the disk are flags.
LEMMA FlagsStep ==
  ASSUME Flags, [Next]_vars
  PROVE  Flags'
<1> USE DEF Flags
<1>1. CASE UNCHANGED vars
  BY <1>1 DEF vars
<1>2. CASE \/ \E c \in Comments, v \in Content \cup {None} : ChangeComment(c, v)
           \/ \E f \in Files, m \in Marks : ChangeMark(f, m)
           \/ \E n \in Notes : \/ ExportIntent(n) \/ ExportAdds(n)
                              \/ ExportFails(n) \/ ExportGivesUp(n) \/ ExportRecords(n)
  BY <1>2 DEF ChangeComment, ChangeMark, ExportIntent, ExportAdds, ExportFails, ExportGivesUp,
              ExportRecords, disk
<1>3. ASSUME NEW i \in Importers,
             \/ ReadSession(i) \/ LoadLedger(i) \/ Acquire(i) \/ MakePlan(i)
             \/ RefusePlan(i) \/ CheckLength(i) \/ WriteAll(i)
      PROVE  Flags'
  BY <1>3 DEF ReadSession, LoadLedger, Acquire, MakePlan, RefusePlan, CheckLength, WriteAll, disk
<1>4. ASSUME NEW i \in Importers, \E k \in 0 .. Len(loc[i].plan) : Partly(i, k) PROVE torn' \in BOOLEAN
  <2>1. PICK k \in 0 .. Len(loc[i].plan) : torn' \in {torn, k < Len(loc[i].plan)}
    BY <1>4 DEF Partly
  <2>2. torn' = torn \/ torn' = (k < Len(loc[i].plan))
    BY <2>1, Zenon
  <2>3. (k < Len(loc[i].plan)) \in BOOLEAN
    OBVIOUS
  <2> QED
    BY <2>2, <2>3, Zenon
<1>5. ASSUME NEW i \in Importers, Unfinished(i) PROVE spoilt' \in BOOLEAN
  BY <1>5 DEF Unfinished
<1>6. ASSUME NEW i \in Importers,
             WriteFails(i) \/ Sync(i) \/ WriteCheckpoint(i) \/ CheckpointFails(i) \/ Dies(i)
      PROVE  Flags'
  <2>1. CASE WriteFails(i)
    BY <1>4, <2>1 DEF WriteFails
  <2>2. CASE Sync(i) \/ WriteCheckpoint(i)
    BY <2>2 DEF Sync, WriteCheckpoint
  <2>3. CASE CheckpointFails(i)
    BY <1>5, <2>3 DEF CheckpointFails
  <2>4. CASE Dies(i)
    <3>1. torn' \in BOOLEAN
      BY <1>4, <2>4 DEF Dies
    <3>2. spoilt' \in BOOLEAN
      BY <1>5, <2>4 DEF Dies
    <3> QED
      BY <2>4, <3>1, <3>2 DEF Dies
  <2> QED
    BY <1>6, <2>1, <2>2, <2>3, <2>4
<1>7. CASE PowerLoss
  <2>1. PICK k \in synced .. Len(journal) : torn' \in {FALSE, torn \/ k < Len(journal)}
    BY <1>7 DEF PowerLoss
  <2>2. torn' = FALSE \/ torn' = (torn \/ k < Len(journal))
    BY <2>1, Zenon
  <2>3. (torn \/ k < Len(journal)) \in BOOLEAN
    OBVIOUS
  <2>4. torn' \in BOOLEAN
    BY <2>2, <2>3, Zenon
  <2>5. spoilt' \in {spoilt, spoilt \/ \E i \in Importers : pc[i] = "synced"} /\ lock' = lock
    BY <1>7 DEF PowerLoss
  <2>6. (spoilt \/ \E i \in Importers : pc[i] = "synced") \in BOOLEAN
    OBVIOUS
  <2>7. spoilt' \in BOOLEAN
    BY <2>5, <2>6, Zenon
  <2> QED
    BY <2>4, <2>5, <2>7
<1>8. CASE OperatorUnlocks
  BY <1>8 DEF OperatorUnlocks, disk
<1> QED
  BY <1>1, <1>2, <1>3, <1>6, <1>7, <1>8 DEF Next

\* Until a human changes the session, the notes that have landed are as they were filed, and
\* none was given up.
Untouched ==
  /\ changes \in Nat
  /\ changes = 0 => /\ \A n \in Notes : filed[n] = "added" => session[n] = Original
                    /\ abandoned = {}

LEMMA UntouchedStep ==
  ASSUME JournalInv, Untouched, [Next]_vars
  PROVE  Untouched'
<1>0. /\ session \in [Comments -> Content \cup {None}] /\ filed \in [Notes -> Fates]
      /\ Notes \subseteq Comments /\ Original \in [text : {Filed}, life : Lives]
  BY DEF JournalInv, Types, Comments, Original, Lives
<1>1. CASE UNCHANGED <<session, changes, filed>>
  BY <1>1 DEF Untouched, abandoned
<1>2. ASSUME NEW c \in Comments, NEW v \in Content \cup {None}, ChangeComment(c, v)
      PROVE  Untouched'
  BY <1>2 DEF ChangeComment, Untouched
<1>3. ASSUME NEW f \in Files, NEW m \in Marks, ChangeMark(f, m) PROVE Untouched'
  BY <1>3 DEF ChangeMark, Untouched
<1>4. ASSUME NEW n \in Notes, ExportIntent(n) \/ ExportFails(n) \/ ExportRecords(n)
      PROVE  Untouched'
  BY <1>0, <1>4 DEF ExportIntent, ExportFails, ExportRecords, tuicr, Untouched, abandoned
<1>5. ASSUME NEW n \in Notes, ExportAdds(n) PROVE Untouched'
  BY <1>0, <1>5 DEF ExportAdds, Untouched, abandoned
<1>6. ASSUME NEW n \in Notes, ExportGivesUp(n) PROVE Untouched'
  <2>1. changes # 0
    BY <1>0, <1>6 DEF ExportGivesUp, HoldsAsFiled, Untouched
  <2> QED
    BY <1>6, <2>1 DEF ExportGivesUp, tuicr, Untouched
<1>7. CASE UNCHANGED vars
  BY <1>1, <1>7 DEF vars
<1>8. ASSUME NEW i \in Importers,
             \/ ReadSession(i) \/ LoadLedger(i) \/ Acquire(i) \/ MakePlan(i)
             \/ RefusePlan(i) \/ CheckLength(i) \/ WriteAll(i) \/ WriteFails(i)
             \/ Sync(i) \/ WriteCheckpoint(i) \/ CheckpointFails(i) \/ Dies(i)
      PROVE  Untouched'
  BY <1>1, <1>8 DEF ReadSession, LoadLedger, Acquire, MakePlan, RefusePlan, CheckLength, WriteAll,
                    WriteFails, Sync, WriteCheckpoint, CheckpointFails, Dies, tuicr
<1>9. CASE PowerLoss \/ OperatorUnlocks
  BY <1>1, <1>9 DEF PowerLoss, OperatorUnlocks, tuicr
<1> QED
  BY <1>2, <1>3, <1>4, <1>5, <1>6, <1>7, <1>8, <1>9 DEF Next

LEMMA JournalInvHolds == Spec => [](JournalInv /\ Flags /\ Untouched)
<1>1. Init => JournalInv /\ Flags /\ Untouched
  <2>1. Init => Flags
    BY DEF Init, Flags
  <2>2. Init => Untouched
    BY DEF Init, Untouched, abandoned
  <2> QED
    BY <2>1, <2>2, InitJournal
<1>2. JournalInv /\ Flags /\ Untouched /\ [Next]_vars => (JournalInv /\ Flags /\ Untouched)'
  BY JournalStep, FlagsStep, UntouchedStep
<1> QED
  BY <1>1, <1>2, PTL DEF Spec
-----------------------------------------------------------------------------
(* The theorems *)

\* Whatever imports overlap, fail, die or lose power, decisions.jsonl stays one linear chain
\* within the reader's cap, and every checkpoint names a part of it (journal.rs, the planners,
\* Lock::acquire, append and write_checkpoint).
THEOREM ChainAlwaysLinear == Spec => []ChainLinear
<1>1. ASSUME JournalInv, Flags PROVE ChainLinear
  <2>0. /\ journal \in Chains /\ Len(journal) \in Nat /\ DOMAIN journal = 1 .. Len(journal)
        /\ Sound(journal, filed) /\ Linear(journal)
        /\ synced <= Len(journal) /\ Len(journal) <= JournalCap
        /\ \A p \in checkpoints : p \in Chains /\ Begins(p, journal)
    BY <1>1 DEF JournalInv, DiskOK, Chains, Sound
  <2>1. EventsLinear
    BY <2>0 DEF EventsLinear, Linear
  <2>2. ASSUME NEW k \in DOMAIN journal
        PROVE  journal[k].kind \in Kinds /\ journal[k].supersedes \in 0 .. k - 1
    <3>1. journal[k] \in Events
      BY <2>0 DEF Chains
    <3> DEFINE t == SubSeq(journal, 1, k - 1)
    <3>2. t \in Chains /\ Len(t) = k - 1
      <4>1. k - 1 \in 0 .. Len(journal)
        BY <2>0
      <4> QED
        BY <2>0, <4>1, ChainPrefix
    <3>3. journal[k].supersedes = LastOf(t, journal[k].id)
      BY <2>1 DEF EventsLinear
    <3> HIDE DEF t
    <3>4. LastOf(t, journal[k].id) \in 0 .. k - 1
      BY <3>2, LastOfFacts
    <3> QED
      BY <3>1, <3>3, <3>4 DEF Events
  <2>3. TypeOK
    BY <1>1, <2>0, <2>2 DEF TypeOK, JournalInv, Types, Flags
  <2>4. CheckpointsHeld
    <3> SUFFICES ASSUME NEW p \in checkpoints PROVE IsPrefix(p, journal)
      BY DEF CheckpointsHeld
    <3>1. p \in Chains /\ Begins(p, journal) /\ Len(p) \in 0 .. Len(p)
      BY <2>0 DEF Chains
    <3>2. SubSeq(p, 1, Len(p)) = SubSeq(journal, 1, Len(p))
      BY <2>0, <3>1, SamePrefix
    <3> QED
      BY <3>1, <3>2 DEF IsPrefix, Begins
  <2> QED
    BY <2>1, <2>3, <2>4 DEF ChainLinear
<1> QED
  BY <1>1, JournalInvHolds, PTL

\* A note of the council is journaled as a human's comment only if the export gave it up, and
\* then a human has changed the session, however the export and an import interleave; and all
\* the marks of a file were made on one diff (execute, Ledger::load, plan_comments, plan_files).
THEOREM AlwaysAttributedRight == Spec => []AttributedRight
<1>1. ASSUME JournalInv, Untouched PROVE AttributedRight
  <2>1. AddedRight(journal, filed) /\ OneHash(journal)
    BY <1>1 DEF JournalInv, DiskOK, Sound
  <2>2. AddedByHumans
    BY <1>1, <2>1 DEF AddedByHumans, AddedRight, GivenUp, abandoned, Untouched
  <2>3. PinnedOnce
    BY <2>1 DEF PinnedOnce, OneHash
  <2> QED
    BY <2>2, <2>3 DEF AttributedRight
<1> QED
  BY <1>1, JournalInvHolds, PTL

\* Once the lines of a plan are all written, planning again from what the import saw plans
\* nothing (import_tuicr): no comment, tombstone or file is left with an event.
THEOREM AlwaysIdempotent == Spec => []Idempotent
<1>1. ASSUME JournalInv PROVE Idempotent
  <2> SUFFICES ASSUME NEW i \in Importers, pc[i] \in {"written", "synced"}
               PROVE  Plan(journal, loc[i].seen, loc[i].ledger) = <<>>
    BY DEF Idempotent
  <2>1. ImportOK(pc[i], loc[i], journal, synced, filed) /\ journal \in Chains
    BY <1>1 DEF JournalInv, DiskOK
  <2>2. /\ loc[i].seen \in Seen
        /\ \A item \in Items : ItemDone(journal, loc[i].seen, loc[i].ledger, item)
    BY <2>1 DEF ImportOK, PlanOK
  <2>3. Extended(journal, loc[i].seen, loc[i].ledger) = journal
    BY <2>1, <2>2, NothingPlanned
  <2>4. Plan(journal, loc[i].seen, loc[i].ledger) = SubSeq(journal, Len(journal) + 1, Len(journal))
    BY <2>3 DEF Plan
  <2>5. SubSeq(journal, Len(journal) + 1, Len(journal)) = <<>>
    <3>1. Len(journal) \in Nat
      BY <2>1 DEF Chains
    <3> DEFINE lo == Len(journal) + 1
               hi == Len(journal)
    <3>2. lo \in Int /\ hi \in Int /\ ~ (lo <= hi) /\ \A k \in lo .. hi : journal[k] \in Events
      BY <3>1
    <3> HIDE DEF lo, hi
    <3>3. /\ SubSeq(journal, lo, hi) \in Seq(Events)
          /\ Len(SubSeq(journal, lo, hi)) = IF lo <= hi THEN hi - lo + 1 ELSE 0
      BY ONLY <3>2, SubSeqProperties
    <3>4. SubSeq(journal, lo, hi) = <<>>
      BY <3>2, <3>3, EmptySeq
    <3> QED
      BY <3>4 DEF lo, hi
  <2> QED
    BY <2>4, <2>5
<1> QED
  BY <1>1, JournalInvHolds, PTL
-----------------------------------------------------------------------------
(* The export to tuicr *)

\* Exporter e made the marker of n and has not settled what became of its comment.
Answers(e, n) == AtNote(e, xpc[e]) /\ xpc[e] \in {"add", "failed", "unmark"} /\ Current(e) = n

\* A note without a marker is not in the session and not on its way there; with a marker it
\* is on its way or there, at most once.
NoteOK(n) ==
  /\ copies[n] \in {0, 1}
  /\ n \in inFlight => copies[n] = 0
  /\ n \notin markers => copies[n] = 0 /\ n \notin inFlight

\* Who answers for a note made its marker, alone; an exporter that gives up on it has seen
\* tuicr end, and one that removes the marker has seen that the comment is not there.
AnswersOK(e, n) ==
  Answers(e, n) =>
    /\ n \in markers
    /\ \A d \in Exporters : Answers(d, n) => d = e
    /\ xpc[e] \in {"failed", "unmark"} => n \notin inFlight
    /\ xpc[e] = "unmark" => copies[n] = 0

ExportInv ==
  /\ DOMAIN xpc = Exporters /\ DOMAIN todo = Exporters /\ DOMAIN copies = XNotes
  /\ \A n \in XNotes : NoteOK(n) /\ \A e \in Exporters : AnswersOK(e, n)

\* A step that makes no exporter answer for a note, and touches no note, keeps the invariant.
LEMMA ExporterMoves ==
  ASSUME ExportInv, UNCHANGED <<markers, copies, inFlight>>,
         DOMAIN xpc' = Exporters, DOMAIN todo' = Exporters,
         \A d \in Exporters, n \in XNotes : Answers(d, n)' => Answers(d, n) /\ xpc'[d] = xpc[d]
  PROVE  ExportInv'
<1>1. ASSUME NEW n \in XNotes PROVE NoteOK(n)'
  BY DEF ExportInv, NoteOK
<1>2. ASSUME NEW n \in XNotes, NEW e \in Exporters PROVE AnswersOK(e, n)'
  <2>1. AnswersOK(e, n)
    BY DEF ExportInv
  <2> QED
    BY <2>1 DEF AnswersOK
<1> QED
  BY <1>1, <1>2 DEF ExportInv

\* The other exporters are where they were.
LEMMA OtherExporters ==
  ASSUME ExportInv, NEW e \in Exporters, NEW at, Step(e, at),
         UNCHANGED todo \/ \E t : todo' = [todo EXCEPT ![e] = t]
  PROVE  /\ DOMAIN xpc' = Exporters /\ DOMAIN todo' = Exporters /\ xpc'[e] = at
         /\ \A d \in Exporters \ {e}, n \in XNotes :
              xpc'[d] = xpc[d] /\ (Answers(d, n)' <=> Answers(d, n))
<1>1. /\ DOMAIN xpc' = Exporters /\ xpc'[e] = at
      /\ \A d \in Exporters \ {e} : xpc'[d] = xpc[d]
  BY DEF Step, ExportInv
<1>2. DOMAIN todo' = Exporters /\ \A d \in Exporters \ {e} : todo'[d] = todo[d]
  BY DEF ExportInv
<1> QED
  BY <1>1, <1>2 DEF Answers, AtNote, Current

LEMMA QuietExporter ==
  ASSUME ExportInv, NEW e \in Exporters, UNCHANGED <<markers, copies, inFlight>>,
         NEW at, at \notin {"add", "failed", "unmark"}, Step(e, at),
         UNCHANGED todo \/ \E t : todo' = [todo EXCEPT ![e] = t]
  PROVE  ExportInv'
<1>1. /\ DOMAIN xpc' = Exporters /\ DOMAIN todo' = Exporters /\ xpc'[e] = at
      /\ \A d \in Exporters \ {e}, n \in XNotes : xpc'[d] = xpc[d] /\ (Answers(d, n)' <=> Answers(d, n))
  BY OtherExporters
<1>2. \A n \in XNotes : ~Answers(e, n)'
  BY <1>1 DEF Answers
<1> QED
  BY <1>1, <1>2, ExporterMoves

LEMMA QuietExporters ==
  ASSUME ExportInv, NEW e \in Exporters,
         \/ export_tuicr(e) \/ preflight(e) \/ Adopt(e) \/ SeeNoMarker(e)
         \/ VerifySession(e) \/ WriteRecord(e) \/ ExporterDies(e)
  PROVE  ExportInv'
<1> USE QuietExporter
<1>1. CASE export_tuicr(e)
  BY <1>1 DEF export_tuicr
<1>2. ASSUME Stop(e), UNCHANGED <<markers, copies, inFlight>> PROVE ExportInv'
  BY <1>2 DEF Stop
<1>3. CASE preflight(e)
  BY <1>2, <1>3 DEF preflight
<1>4. CASE Adopt(e)
  BY <1>2, <1>4 DEF Adopt
<1>5. CASE SeeNoMarker(e)
  BY <1>5 DEF SeeNoMarker
<1>6. CASE VerifySession(e)
  BY <1>2, <1>6 DEF VerifySession
<1>7. CASE WriteRecord(e)
  BY <1>2, <1>7 DEF WriteRecord
<1>8. CASE ExporterDies(e)
  BY <1>2, <1>8 DEF ExporterDies
<1> QED
  BY <1>1, <1>3, <1>4, <1>5, <1>6, <1>7, <1>8

\* The exporter makes the marker: nobody else answers for the note.
LEMMA MarkerStep ==
  ASSUME ExportInv, NEW e \in Exporters, WriteMarker(e)
  PROVE  ExportInv'
<1>1. CASE Current(e) \in markers
  BY <1>1, QuietExporter DEF WriteMarker, Stop
<1>2. CASE Current(e) \notin markers
  <2> DEFINE m == Current(e)
  <2>1. /\ markers' = markers \cup {m} /\ inFlight' \in {inFlight \cup {m}, inFlight}
        /\ Step(e, "add") /\ UNCHANGED <<todo, copies>>
    BY <1>2 DEF WriteMarker
  <2>2. /\ DOMAIN xpc' = Exporters /\ DOMAIN todo' = Exporters /\ xpc'[e] = "add"
        /\ \A d \in Exporters \ {e}, n \in XNotes : xpc'[d] = xpc[d] /\ (Answers(d, n)' <=> Answers(d, n))
    BY <2>1, OtherExporters
  <2>3. \A n \in XNotes : Answers(e, n)' => n = m
    BY <2>1 DEF Answers, Current
  <2> HIDE DEF m
  <2>4. m \notin markers
    BY <1>2 DEF m
  <2>5. \A d \in Exporters, n \in XNotes : Answers(d, n) => n # m
    BY <2>4 DEF ExportInv, AnswersOK
  <2>6. ASSUME NEW n \in XNotes PROVE NoteOK(n)'
    <3>1. NoteOK(n)
      BY DEF ExportInv
    <3> QED
      BY <2>1, <2>4, <3>1 DEF NoteOK
  <2>7. ASSUME NEW n \in XNotes, NEW d \in Exporters, Answers(d, n)' PROVE AnswersOK(d, n)'
    <3>1. CASE d = e
      BY <2>1, <2>2, <2>3, <2>5, <2>7, <3>1 DEF AnswersOK
    <3>2. CASE d # e
      <4>1. Answers(d, n) /\ AnswersOK(d, n) /\ n # m /\ xpc'[d] = xpc[d]
        BY <2>2, <2>5, <2>7, <3>2 DEF ExportInv
      <4> QED
        BY <2>1, <2>2, <2>3, <4>1 DEF AnswersOK
    <3> QED
      BY <3>1, <3>2
  <2> QED
    BY <2>1, <2>2, <2>6, <2>7 DEF ExportInv, AnswersOK
<1> QED
  BY <1>1, <1>2

\* The exporter settles what became of the comment.
LEMMA SettleSteps ==
  ASSUME ExportInv, NEW e \in Exporters, AddReturns(e) \/ FindAfterError(e)
  PROVE  ExportInv'
<1>1. CASE AddReturns(e) /\ Step(e, "verify")
  BY <1>1, QuietExporter DEF AddReturns
<1>2. CASE FindAfterError(e) /\ copies[Current(e)] # 0
  BY <1>2, QuietExporter DEF FindAfterError, Stop
<1>3. ASSUME NEW at \in {"failed", "unmark"}, Step(e, at), UNCHANGED <<todo, markers, copies, inFlight>>,
             AtNote(e, xpc[e]), xpc[e] \in {"add", "failed"},
             Current(e) \in XNotes => Current(e) \notin inFlight,
             at = "unmark" => copies[Current(e)] = 0
      PROVE  ExportInv'
  <2>1. /\ DOMAIN xpc' = Exporters /\ DOMAIN todo' = Exporters /\ xpc'[e] = at
        /\ \A d \in Exporters \ {e}, n \in XNotes : xpc'[d] = xpc[d] /\ (Answers(d, n)' <=> Answers(d, n))
    BY <1>3, OtherExporters
  <2>2. \A n \in XNotes : Answers(e, n)' => Answers(e, n) /\ n = Current(e)
    BY <1>3 DEF Answers, Current
  <2>3. ASSUME NEW n \in XNotes PROVE NoteOK(n)'
    BY <1>3 DEF ExportInv, NoteOK
  <2>4. ASSUME NEW n \in XNotes, NEW d \in Exporters, Answers(d, n)' PROVE AnswersOK(d, n)'
    <3>1. Answers(d, n) /\ AnswersOK(d, n)
      BY <2>1, <2>2, <2>4 DEF ExportInv
    <3>2. \A c \in Exporters : Answers(c, n)' => Answers(c, n)
      BY <2>1, <2>2
    <3>3. CASE d = e
      BY <1>3, <2>1, <2>2, <2>4, <3>1, <3>2, <3>3 DEF AnswersOK
    <3>4. CASE d # e
      BY <1>3, <2>1, <3>1, <3>2, <3>4 DEF AnswersOK
    <3> QED
      BY <3>3, <3>4
  <2> QED
    BY <1>3, <2>1, <2>3, <2>4 DEF ExportInv, AnswersOK
<1>4. CASE AddReturns(e) /\ Step(e, "failed")
  BY <1>3, <1>4 DEF AddReturns, AtNote
<1>5. CASE FindAfterError(e) /\ copies[Current(e)] = 0
  <2>1. Current(e) \in XNotes => Current(e) \notin inFlight
    BY <1>5 DEF FindAfterError, AtNote, Answers, AnswersOK, ExportInv
  <2> QED
    BY <1>3, <1>5, <2>1 DEF FindAfterError, AtNote
<1> QED
  BY <1>1, <1>2, <1>4, <1>5 DEF AddReturns

\* The marker goes with the note it was for, which is neither there nor on its way.
LEMMA UnmarkStep ==
  ASSUME ExportInv, NEW e \in Exporters, RemoveMarker(e)
  PROVE  ExportInv'
<1> DEFINE m == Current(e)
<1>1. /\ markers' = markers \ {m} /\ Stop(e) /\ UNCHANGED <<copies, inFlight>>
      /\ xpc[e] = "unmark" /\ AtNote(e, xpc[e])
  BY DEF RemoveMarker, AtNote
<1>2. m \in XNotes => copies[m] = 0 /\ m \notin inFlight /\ \A d \in Exporters : Answers(d, m) => d = e
  BY <1>1 DEF ExportInv, AnswersOK, Answers
<1>3. /\ DOMAIN xpc' = Exporters /\ DOMAIN todo' = Exporters /\ xpc'[e] = "idle"
      /\ \A d \in Exporters \ {e}, n \in XNotes : xpc'[d] = xpc[d] /\ (Answers(d, n)' <=> Answers(d, n))
  BY <1>1, OtherExporters DEF Stop
<1>4. \A n \in XNotes : ~Answers(e, n)'
  BY <1>3 DEF Answers
<1> HIDE DEF m
<1>5. ASSUME NEW n \in XNotes PROVE NoteOK(n)'
  BY <1>1, <1>2 DEF ExportInv, NoteOK
<1>6. ASSUME NEW n \in XNotes, NEW d \in Exporters, Answers(d, n)' PROVE AnswersOK(d, n)'
  <2>1. d # e /\ Answers(d, n) /\ AnswersOK(d, n) /\ xpc'[d] = xpc[d]
    BY <1>3, <1>4, <1>6 DEF ExportInv
  <2>2. n # m
    BY <1>2, <2>1
  <2> QED
    BY <1>1, <1>3, <1>4, <2>1, <2>2 DEF AnswersOK
<1> QED
  BY <1>1, <1>3, <1>5, <1>6 DEF ExportInv, AnswersOK

\* tuicr, a human and the operator.
LEMMA NoteSteps ==
  ASSUME ExportInv, NEW m \in XNotes, TuicrEnds(m) \/ HumanRemoves(m) \/ OperatorClears(m)
  PROVE  ExportInv'
<1>0. /\ DOMAIN copies = XNotes /\ copies[m] \in {0, 1} /\ NoteOK(m)
  BY DEF ExportInv, NoteOK
<1>1. CASE TuicrEnds(m)
  <2>1. /\ UNCHANGED <<markers, xpc, todo>> /\ inFlight' = inFlight \ {m} /\ m \in inFlight
        /\ DOMAIN copies' = XNotes /\ copies'[m] \in {0, 1}
        /\ \A n \in XNotes \ {m} : copies'[n] = copies[n]
    BY <1>0, <1>1 DEF TuicrEnds, NoteOK
  <2>2. \A d \in Exporters, n \in XNotes : Answers(d, n)' <=> Answers(d, n)
    BY <2>1 DEF Answers, AtNote, Current
  <2>3. ASSUME NEW n \in XNotes PROVE NoteOK(n)'
    BY <2>1 DEF ExportInv, NoteOK
  <2>4. ASSUME NEW n \in XNotes, NEW d \in Exporters PROVE AnswersOK(d, n)'
    <3>1. AnswersOK(d, n)
      BY DEF ExportInv
    <3>2. n = m => ~ (Answers(d, n) /\ xpc[d] \in {"failed", "unmark"})
      BY <2>1, <3>1 DEF AnswersOK
    <3> QED
      BY <2>1, <2>2, <3>1, <3>2 DEF AnswersOK
  <2> QED
    BY <2>1, <2>3, <2>4 DEF ExportInv
<1>2. CASE HumanRemoves(m)
  <2>1. /\ UNCHANGED <<markers, inFlight, xpc, todo>> /\ copies[m] = 1 /\ copies'[m] = 0
        /\ DOMAIN copies' = XNotes /\ \A n \in XNotes \ {m} : copies'[n] = copies[n]
    BY <1>0, <1>2 DEF HumanRemoves
  <2>2. \A d \in Exporters, n \in XNotes : Answers(d, n)' <=> Answers(d, n)
    BY <2>1 DEF Answers, AtNote, Current
  <2>3. ASSUME NEW n \in XNotes PROVE NoteOK(n)'
    BY <2>1 DEF ExportInv, NoteOK
  <2>4. ASSUME NEW n \in XNotes, NEW d \in Exporters PROVE AnswersOK(d, n)'
    <3>1. AnswersOK(d, n)
      BY DEF ExportInv
    <3> QED
      BY <2>1, <2>2, <3>1 DEF AnswersOK
  <2> QED
    BY <2>1, <2>3, <2>4 DEF ExportInv
<1>3. CASE OperatorClears(m)
  <2>1. /\ UNCHANGED <<copies, inFlight, xpc, todo>> /\ markers' = markers \ {m}
        /\ m \notin inFlight /\ copies[m] = 0 /\ \A e \in Exporters : todo[e] = <<>>
    BY <1>3 DEF OperatorClears
  <2>2. \A d \in Exporters, n \in XNotes : ~Answers(d, n)'
    BY <2>1 DEF Answers, AtNote
  <2>3. ASSUME NEW n \in XNotes PROVE NoteOK(n)'
    BY <2>1 DEF ExportInv, NoteOK
  <2> QED
    BY <2>1, <2>2, <2>3 DEF ExportInv, AnswersOK
<1> QED
  BY <1>1, <1>2, <1>3

\* However exporters overlap, die and are run again, and whatever tuicr answered, the session
\* never holds a council note twice (tuicr.rs, execute: the marker is made with create-new,
\* and taken back only by who made it and saw that the session lacks the note).
THEOREM AlwaysFiledOnce == XSpec => []FiledOnce
<1>1. XInit => ExportInv
  <2> SUFFICES ASSUME XInit PROVE ExportInv
    OBVIOUS
  <2>1. /\ DOMAIN xpc = Exporters /\ DOMAIN todo = Exporters /\ DOMAIN copies = XNotes
        /\ \A n \in XNotes : copies[n] = 0 /\ n \notin inFlight
        /\ \A e \in Exporters : todo[e] = <<>>
    BY DEF XInit
  <2> QED
    BY <2>1 DEF ExportInv, NoteOK, AnswersOK, Answers, AtNote
<1>2. ExportInv /\ [XNext]_xvars => ExportInv'
  <2> SUFFICES ASSUME ExportInv, [XNext]_xvars PROVE ExportInv'
    OBVIOUS
  <2>1. CASE UNCHANGED xvars
    BY <2>1 DEF xvars, ExportInv, NoteOK, AnswersOK, Answers, AtNote, Current
  <2> QED
    BY <2>1, QuietExporters, MarkerStep, SettleSteps, UnmarkStep, NoteSteps DEF XNext
<1>3. ExportInv => FiledOnce
  BY DEF ExportInv, NoteOK, FiledOnce
<1> QED
  BY <1>1, <1>2, <1>3, PTL DEF XSpec
=============================================================================
