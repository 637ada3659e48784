--------------------------- MODULE SessionsProofs ----------------------------
(***************************************************************************)
(* Proofs about the session table and the request handlers, for every      *)
(* number of sessions, ids and ticks, every budget and set of sizes, and   *)
(* every number of requests.                                               *)
(***************************************************************************)
EXTENDS Handlers, WeightsProofs

USE SizesNat, MaxSessionsPos, MaxRetainedNat, MaxIdEnough, MaxTickEnough, MaxServedNat

Tables == [live : SUBSET Ids, bytes : [Ids -> Nat], last_tick : [Ids -> 0 .. MaxTick],
           next_session : Ids, tick : 0 .. MaxTick, retained_bytes : Nat]

\* The bytes counted are those of the entries.
CountsBytes(t) == t.retained_bytes = Total(t.live, t.bytes)

\* Every entry has a tick of its own, none of them in the future.
OwnTicks(t) == /\ \A i, j \in t.live : i # j => t.last_tick[i] # t.last_tick[j]
               /\ \A i \in t.live : t.last_tick[i] \in 1 .. t.tick

WithinLimits(t) == t.retained_bytes <= MaxRetained /\ Cardinality(t.live) <= MaxSessions

TableOK(t) == t \in Tables /\ CountsBytes(t) /\ OwnTicks(t) /\ WithinLimits(t)
-----------------------------------------------------------------------------
(* Finite sets and sums *)

LEMMA IdsFinite == IsFiniteSet(Ids) /\ \A S \in SUBSET Ids : IsFiniteSet(S)
<1>1. IsFiniteSet(Ids)
  BY FS_Interval DEF Ids
<1> QED
  BY <1>1, FS_Subset

LEMMA Parts ==
  ASSUME NEW L, IsFiniteSet(L), NEW S \in SUBSET L
  PROVE  /\ IsFiniteSet(S) /\ IsFiniteSet(L \ S)
         /\ Cardinality(L) \in Nat /\ Cardinality(S) \in Nat
         /\ Cardinality(L \ S) = Cardinality(L) - Cardinality(S)
         /\ Cardinality(S) <= Cardinality(L)
         /\ S # L => Cardinality(S) < Cardinality(L)
<1>1. IsFiniteSet(S) /\ IsFiniteSet(L \ S) /\ Cardinality(L) \in Nat /\ Cardinality(S) \in Nat
  BY FS_Subset, FS_CardinalityType
<1>2. Cardinality(S) <= Cardinality(L) /\ (S # L => Cardinality(S) < Cardinality(L))
  BY <1>1, FS_Subset
<1>3. L \cap S = S
  OBVIOUS
<1>4. Cardinality(L \ S) = Cardinality(L) - Cardinality(L \cap S)
  BY FS_Difference
<1> QED
  BY <1>1, <1>2, <1>3, <1>4

\* The bytes of what is left and of what is gone.
LEMMA TotalParts ==
  ASSUME NEW L, IsFiniteSet(L), NEW S \in SUBSET L, NEW w, \A h \in L : w[h] \in Nat
  PROVE  /\ Total(L, w) \in Nat /\ Total(S, w) \in Nat
         /\ Total(L \ S, w) = Total(L, w) - Total(S, w)
         /\ Total(S, w) <= Total(L, w)
<1>1. IsFiniteSet(Bytes(L, w)) /\ Total(L, w) \in Nat
  BY BytesFinite
<1>2. Bytes(S, w) \subseteq Bytes(L, w) /\ Bytes(L \ S, w) = Bytes(L, w) \ Bytes(S, w)
  BY DEF Bytes
<1>3. /\ Cardinality(Bytes(S, w)) \in Nat
      /\ Cardinality(Bytes(L, w) \ Bytes(S, w)) = Cardinality(Bytes(L, w)) - Cardinality(Bytes(S, w))
      /\ Cardinality(Bytes(S, w)) <= Cardinality(Bytes(L, w))
  <2> DEFINE B == Bytes(L, w)
             C == Bytes(S, w)
  <2>1. IsFiniteSet(B) /\ C \in SUBSET B
    BY <1>1, <1>2
  <2> HIDE DEF B, C
  <2>2. /\ Cardinality(C) \in Nat /\ Cardinality(B \ C) = Cardinality(B) - Cardinality(C)
        /\ Cardinality(C) <= Cardinality(B)
    BY <2>1, Parts
  <2> QED
    BY <2>2 DEF B, C
<1> QED
  BY <1>1, <1>2, <1>3 DEF Total
-----------------------------------------------------------------------------
(* The methods on a table *)

LEMMA TablesClosed ==
  ASSUME NEW t \in Tables, NEW L \in SUBSET Ids, NEW b \in [Ids -> Nat],
         NEW k \in [Ids -> 0 .. MaxTick], NEW n \in Nat
  PROVE  [t EXCEPT !.live = L, !.bytes = b, !.last_tick = k, !.retained_bytes = n] \in Tables
BY DEF Tables

LEMMA EmptyOK == TableOK(Empty)
<1>1. Empty \in Tables
  BY DEF Empty, Tables, Ids
<1>2. Total({}, Empty.bytes) = 0 /\ Cardinality({}) = 0
  BY TotalEmpty, FS_EmptySet
<1>3. Empty.live = {} /\ Empty.retained_bytes = 0
  BY DEF Empty
<1> QED
  BY <1>1, <1>2, <1>3 DEF TableOK, CountsBytes, OwnTicks, WithinLimits

LEMMA ResetOK ==
  ASSUME NEW t \in Tables
  PROVE  TableOK(Reset(t)) /\ Reset(t).live = {} /\ Reset(t).next_session = t.next_session
<1>1. /\ Reset(t) \in Tables /\ Reset(t).live = {} /\ Reset(t).retained_bytes = 0
      /\ Reset(t).next_session = t.next_session
  BY DEF Reset, Empty, Tables
<1>2. Total({}, Reset(t).bytes) = 0 /\ Cardinality({}) = 0
  BY TotalEmpty, FS_EmptySet
<1> QED
  BY <1>1, <1>2 DEF TableOK, CountsBytes, OwnTicks, WithinLimits

\* The table r is the table t without the entries S.
IsWithout(r, t, S) ==
  /\ r.live = t.live \ S
  /\ r.retained_bytes = Total(t.live \ S, t.bytes)
  /\ r.bytes = [i \in Ids |-> IF i \in S THEN 0 ELSE t.bytes[i]]
  /\ r.last_tick = [i \in Ids |-> IF i \in S THEN 0 ELSE t.last_tick[i]]
  /\ r.next_session = t.next_session /\ r.tick = t.tick

\* Entries that are removed give back exactly their bytes.
LEMMA RemovedOK ==
  ASSUME NEW t, TableOK(t), NEW S \in SUBSET t.live
  PROVE  TableOK(Removed(t, S)) /\ IsWithout(Removed(t, S), t, S)
<1> DEFINE r == Removed(t, S)
<1>0. t \in Tables /\ t.live \in SUBSET Ids /\ t.bytes \in [Ids -> Nat] /\ IsFiniteSet(t.live)
  BY IdsFinite DEF TableOK, Tables
<1>1. /\ r.live = t.live \ S
      /\ r.bytes = [i \in Ids |-> IF i \in S THEN 0 ELSE t.bytes[i]]
      /\ r.last_tick = [i \in Ids |-> IF i \in S THEN 0 ELSE t.last_tick[i]]
      /\ r.next_session = t.next_session /\ r.tick = t.tick
      /\ r.retained_bytes = SatSub(t.retained_bytes, Total(S, t.bytes))
  BY <1>0 DEF Removed, Tables
<1>2. /\ Total(t.live, t.bytes) \in Nat /\ Total(S, t.bytes) \in Nat
      /\ Total(t.live \ S, t.bytes) = Total(t.live, t.bytes) - Total(S, t.bytes)
      /\ Total(S, t.bytes) <= Total(t.live, t.bytes)
  BY <1>0, TotalParts
<1>3. r.retained_bytes = Total(t.live \ S, t.bytes) /\ r.retained_bytes \in Nat
  BY <1>1, <1>2 DEF SatSub, TableOK, CountsBytes
<1>4. Total(t.live \ S, r.bytes) = Total(t.live \ S, t.bytes)
  <2>1. \A i \in t.live \ S : r.bytes[i] = t.bytes[i]
    BY <1>0, <1>1
  <2> QED
    BY <2>1, TotalSame
<1>5. r \in Tables
  <2>1. /\ r.live \in SUBSET Ids /\ r.bytes \in [Ids -> Nat] /\ r.last_tick \in [Ids -> 0 .. MaxTick]
        /\ r.retained_bytes \in Nat
    BY <1>0, <1>1, <1>3 DEF Tables
  <2>2. r = [t EXCEPT !.live = t.live \ S,
                      !.bytes = [i \in Ids |-> IF i \in S THEN 0 ELSE t.bytes[i]],
                      !.last_tick = [i \in Ids |-> IF i \in S THEN 0 ELSE t.last_tick[i]],
                      !.retained_bytes = SatSub(t.retained_bytes, Total(S, t.bytes))]
    BY DEF Removed
  <2> HIDE DEF r
  <2> QED
    BY <1>0, <1>1, <2>1, <2>2, TablesClosed
<1> HIDE DEF r
<1>6. OwnTicks(r)
  BY <1>0, <1>1 DEF TableOK, OwnTicks
<1>7. WithinLimits(r)
  <2>1. Cardinality(t.live \ S) <= Cardinality(t.live)
    BY <1>0, Parts
  <2>2. Cardinality(t.live \ S) \in Nat /\ Cardinality(t.live) \in Nat
    BY <1>0, Parts, FS_CardinalityType
  <2> QED
    BY <1>1, <1>2, <1>3, <2>1, <2>2 DEF TableOK, WithinLimits, CountsBytes
<1>8. TableOK(r)
  BY <1>1, <1>3, <1>4, <1>5, <1>6, <1>7 DEF TableOK, CountsBytes
<1>9. IsWithout(r, t, S)
  BY <1>1, <1>3 DEF IsWithout
<1> QED
  BY <1>8, <1>9 DEF r

\* The entries used before another are fewer, the later it was used.
LEMMA BeforeFacts ==
  ASSUME NEW t, TableOK(t), NEW i \in t.live
  PROVE  /\ Cardinality(Before(t, i)) \in Nat
         /\ Cardinality(Before(t, i)) < Cardinality(t.live)
         /\ \A j \in t.live : t.last_tick[i] < t.last_tick[j] =>
              Cardinality(Before(t, i)) < Cardinality(Before(t, j))
<1>1. IsFiniteSet(t.live) /\ t.last_tick \in [Ids -> 0 .. MaxTick] /\ t.live \in SUBSET Ids
  BY IdsFinite DEF TableOK, Tables
<1>2. Before(t, i) \in SUBSET t.live /\ Before(t, i) # t.live
  BY <1>1 DEF Before
<1>3. Cardinality(Before(t, i)) \in Nat /\ Cardinality(Before(t, i)) < Cardinality(t.live)
  BY <1>1, <1>2, Parts
<1>4. ASSUME NEW j \in t.live, t.last_tick[i] < t.last_tick[j]
      PROVE  Cardinality(Before(t, i)) < Cardinality(Before(t, j))
  <2>1. Before(t, j) \in SUBSET t.live
    BY DEF Before
  <2>2. IsFiniteSet(Before(t, j))
    BY <1>1, <2>1, FS_Subset
  <2>3. Before(t, i) \in SUBSET Before(t, j) /\ Before(t, i) # Before(t, j)
    BY <1>1, <1>4 DEF Before
  <2> QED
    BY <2>2, <2>3, Parts
<1> QED
  BY <1>3, <1>4

\* A tick is later than those of all entries, which keep their order, also where they
\* are numbered again.
LEMMA NextTickOK ==
  ASSUME NEW t, TableOK(t)
  PROVE  LET r == NextTick(t)
         IN  /\ TableOK(r)
             /\ r.live = t.live /\ r.bytes = t.bytes /\ r.retained_bytes = t.retained_bytes
             /\ r.next_session = t.next_session /\ r.tick >= 1
             /\ \A i \in t.live : r.last_tick[i] < r.tick
             /\ \A i, j \in t.live : r.last_tick[i] < r.last_tick[j] <=> t.last_tick[i] < t.last_tick[j]
<1> DEFINE r == NextTick(t)
           L == [i \in Ids |-> IF i \in t.live THEN Cardinality(Before(t, i)) + 1 ELSE 0]
<1>1. /\ t \in Tables /\ t.live \in SUBSET Ids /\ t.bytes \in [Ids -> Nat] /\ t.tick \in 0 .. MaxTick
      /\ t.last_tick \in [Ids -> 0 .. MaxTick] /\ IsFiniteSet(t.live) /\ t.next_session \in Ids
      /\ t.retained_bytes \in Nat
  BY IdsFinite DEF TableOK, Tables
<1>2. Cardinality(t.live) \in Nat /\ Cardinality(t.live) <= MaxSessions
  BY <1>1, FS_CardinalityType DEF TableOK, WithinLimits
<1>3. CASE t.tick < MaxTick
  <2>1. r = [t EXCEPT !.tick = t.tick + 1]
    BY <1>3 DEF NextTick
  <2>2. /\ r.live = t.live /\ r.bytes = t.bytes /\ r.retained_bytes = t.retained_bytes
        /\ r.next_session = t.next_session /\ r.last_tick = t.last_tick /\ r.tick = t.tick + 1
    BY <1>1, <2>1 DEF Tables
  <2>3. r \in Tables
    BY <1>1, <1>3, <2>1 DEF Tables
  <2> HIDE DEF r
  <2>4. OwnTicks(r) /\ \A i \in t.live : r.last_tick[i] < r.tick
    BY <1>1, <2>2 DEF TableOK, OwnTicks
  <2>5. TableOK(r)
    BY <2>2, <2>3, <2>4 DEF TableOK, CountsBytes, WithinLimits
  <2> QED
    BY <1>1, <2>2, <2>4, <2>5 DEF r
<1>4. CASE ~(t.tick < MaxTick)
  <2>1. r = [t EXCEPT !.last_tick = L, !.tick = Cardinality(t.live) + 1]
    BY <1>4 DEF NextTick
  <2>2. /\ r.live = t.live /\ r.bytes = t.bytes /\ r.retained_bytes = t.retained_bytes
        /\ r.next_session = t.next_session /\ r.last_tick = L /\ r.tick = Cardinality(t.live) + 1
    BY <1>1, <2>1 DEF Tables
  <2>3. \A i \in t.live : L[i] \in 1 .. Cardinality(t.live)
    BY <1>1, <1>2, BeforeFacts
  <2>4. \A i, j \in t.live : L[i] < L[j] <=> t.last_tick[i] < t.last_tick[j]
    <3> SUFFICES ASSUME NEW i \in t.live, NEW j \in t.live
                 PROVE  L[i] < L[j] <=> t.last_tick[i] < t.last_tick[j]
      OBVIOUS
    <3>1. /\ L[i] = Cardinality(Before(t, i)) + 1 /\ L[j] = Cardinality(Before(t, j)) + 1
          /\ Cardinality(Before(t, i)) \in Nat /\ Cardinality(Before(t, j)) \in Nat
      BY <1>1, BeforeFacts
    <3>2. t.last_tick[i] \in 0 .. MaxTick /\ t.last_tick[j] \in 0 .. MaxTick
      BY <1>1
    <3>3. CASE i = j
      BY <3>1, <3>2, <3>3
    <3>4. CASE i # j
      <4>1. t.last_tick[i] # t.last_tick[j]
        BY <3>4 DEF TableOK, OwnTicks
      <4>2. /\ t.last_tick[i] < t.last_tick[j] => Cardinality(Before(t, i)) < Cardinality(Before(t, j))
            /\ t.last_tick[j] < t.last_tick[i] => Cardinality(Before(t, j)) < Cardinality(Before(t, i))
        BY BeforeFacts
      <4> HIDE DEF L
      <4> QED
        BY <3>1, <3>2, <4>1, <4>2
    <3> QED
      BY <3>3, <3>4
  <2>5. L \in [Ids -> 0 .. MaxTick] /\ Cardinality(t.live) + 1 \in 0 .. MaxTick
    <3>1. ASSUME NEW i \in Ids PROVE L[i] \in 0 .. MaxTick
      <4>1. CASE i \in t.live
        <5>1. L[i] \in 1 .. Cardinality(t.live)
          BY <2>3, <4>1
        <5> HIDE DEF L
        <5> QED
          BY <1>2, <5>1
      <4>2. CASE i \notin t.live
        BY <4>2
      <4> QED
        BY <4>1, <4>2
    <3>2. L = [i \in Ids |-> L[i]]
      OBVIOUS
    <3> HIDE DEF L
    <3>3. L \in [Ids -> 0 .. MaxTick]
      BY <3>1, <3>2
    <3> QED
      BY <1>2, <3>3
  <2> HIDE DEF L
  <2>6. r \in Tables
    BY <1>1, <2>1, <2>5 DEF Tables
  <2> HIDE DEF r
  <2>7. OwnTicks(r)
    <3>1. ASSUME NEW i \in t.live, NEW j \in t.live, i # j PROVE L[i] # L[j]
      <4>1. t.last_tick[i] # t.last_tick[j] /\ t.last_tick[i] \in 0 .. MaxTick /\ t.last_tick[j] \in 0 .. MaxTick
        BY <1>1, <3>1 DEF TableOK, OwnTicks
      <4>2. L[i] \in 1 .. Cardinality(t.live) /\ L[j] \in 1 .. Cardinality(t.live)
        BY <2>3
      <4> QED
        BY <1>2, <2>4, <4>1, <4>2
    <3>2. \A i \in t.live : L[i] \in 1 .. Cardinality(t.live) + 1
      BY <1>2, <2>3
    <3> QED
      BY <2>2, <3>1, <3>2 DEF OwnTicks
  <2>8. TableOK(r)
    BY <2>2, <2>6, <2>7 DEF TableOK, CountsBytes, WithinLimits
  <2>9. r.tick >= 1 /\ \A i \in t.live : r.last_tick[i] < r.tick
    BY <1>2, <2>2, <2>3
  <2> QED
    BY <2>2, <2>4, <2>8, <2>9 DEF r
<1> QED
  BY <1>3, <1>4

\* As many evictions as there are entries take all of them, and leave room.
LEMMA LruFacts ==
  ASSUME NEW t, TableOK(t), NEW w \in Nat, w <= MaxRetained
  PROVE  /\ Cardinality(t.live) \in Nat
         /\ \A k : Lru(t, k) \in SUBSET t.live
         /\ ~Over(Removed(t, Lru(t, Cardinality(t.live))), w)
<1>1. IsFiniteSet(t.live) /\ Cardinality(t.live) \in Nat
  BY IdsFinite, FS_CardinalityType DEF TableOK, Tables
<1>2. \A k : Lru(t, k) \in SUBSET t.live
  BY DEF Lru
<1>3. Lru(t, Cardinality(t.live)) = t.live
  BY BeforeFacts DEF Lru
<1> DEFINE r == Removed(t, t.live)
<1>4. r.live = {} /\ r.retained_bytes = Total({}, t.bytes)
  <2>1. IsWithout(r, t, t.live)
    BY RemovedOK
  <2>2. t.live \ t.live = {}
    OBVIOUS
  <2> HIDE DEF r
  <2> QED
    BY <2>1, <2>2 DEF IsWithout
<1>5. r.retained_bytes = 0 /\ Cardinality(r.live) = 0
  BY <1>4, TotalEmpty, FS_EmptySet
<1> HIDE DEF r
<1>6. ~Over(r, w)
  BY <1>5 DEF Over
<1> QED
  BY <1>1, <1>2, <1>3, <1>6 DEF r

\* The loop of open_session ends, with room for w and with no eviction too many.
LEMMA MakeRoomOK ==
  ASSUME NEW t, TableOK(t), NEW w \in Nat, w <= MaxRetained
  PROVE  \E k \in 0 .. Cardinality(t.live) :
           /\ MakeRoom(t, w) = Removed(t, Lru(t, k))
           /\ ~Over(Removed(t, Lru(t, k)), w)
           /\ \A m \in 0 .. k - 1 : Over(Removed(t, Lru(t, m)), w)
<1> DEFINE n == Cardinality(t.live)
           Enough(k) == ~Over(Removed(t, Lru(t, k)), w)
           P(k) == /\ Enough(k) \/ k = n
                   /\ \A m \in 0 .. k - 1 : ~Enough(m)
           K == CHOOSE k \in 0 .. n : P(k)
<1>1. MakeRoom(t, w) = Removed(t, Lru(t, K))
  BY DEF MakeRoom
<1>2. n \in Nat /\ Enough(n)
  BY LruFacts
<1> HIDE DEF Enough
<1>3. \E k \in 0 .. n : P(k)
  <2> DEFINE T == {k \in 0 .. n : Enough(k)}
  <2>1. T \in SUBSET Nat /\ T # {}
    BY <1>2
  <2> HIDE DEF T
  <2>2. PICK k \in T : \A m \in T : k <= m
    BY <2>1, LeastOfSet
  <2>3. k \in 0 .. n /\ Enough(k)
    BY DEF T
  <2>4. \A m \in 0 .. k - 1 : ~Enough(m)
    BY <1>2, <2>2, <2>3 DEF T
  <2> QED
    BY <2>3, <2>4
<1>4. K \in 0 .. n /\ P(K)
  BY <1>3
<1> HIDE DEF K
<1>5. Enough(K) /\ \A m \in 0 .. K - 1 : ~Enough(m)
  BY <1>2, <1>4
<1> QED
  BY <1>1, <1>4, <1>5 DEF Enough

\* What the loop leaves is a table with room for w.
LEMMA RoomOK ==
  ASSUME NEW t, TableOK(t), NEW w \in Nat, w <= MaxRetained
  PROVE  /\ TableOK(MakeRoom(t, w)) /\ ~Over(MakeRoom(t, w), w)
         /\ MakeRoom(t, w).live \in SUBSET t.live
         /\ MakeRoom(t, w).next_session = t.next_session
<1>1. PICK k \in 0 .. Cardinality(t.live) :
        MakeRoom(t, w) = Removed(t, Lru(t, k)) /\ ~Over(Removed(t, Lru(t, k)), w)
  BY MakeRoomOK
<1> DEFINE S == Lru(t, k)
<1>2. S \in SUBSET t.live
  BY LruFacts
<1> HIDE DEF S
<1>3. TableOK(Removed(t, S)) /\ Removed(t, S).live = t.live \ S /\ Removed(t, S).next_session = t.next_session
  BY <1>2, RemovedOK, ZenonT(40) DEF IsWithout
<1> QED
  BY <1>1, <1>3 DEF S
-----------------------------------------------------------------------------
(* Ids *)

\* The candidate ids count up and come round to 1.
LEMMA CandidateIs ==
  ASSUME NEW t, t.next_session \in Ids, NEW k \in 0 .. MaxId
  PROVE  Candidate(t, k) = IF t.next_session + k <= MaxId THEN t.next_session + k
                           ELSE t.next_session + k - MaxId
<1> DEFINE a == t.next_session - 1 + k
<1>1. MaxId \in Nat /\ MaxId > 0 /\ t.next_session \in 1 .. MaxId
  BY DEF Ids
<1>2. a \in 0 .. 2 * MaxId - 1
  BY <1>1
<1> HIDE DEF a
<1>3. a % MaxId = IF a < MaxId THEN a ELSE a - MaxId
  BY <1>1, <1>2
<1>4. Candidate(t, k) = (a % MaxId) + 1
  BY DEF Candidate, a
<1> QED
  BY <1>1, <1>3, <1>4 DEF a

\* With room in the table, one of the candidates is free: the search ends.
LEMMA FreeAtOK ==
  ASSUME NEW t, t.next_session \in Ids, t.live \in SUBSET Ids, Cardinality(t.live) <= MaxSessions
  PROVE  FreeAt(t) \in 0 .. MaxSessions /\ NewId(t) \in Ids /\ NewId(t) \notin t.live
<1> DEFINE P(k) == /\ Candidate(t, k) \notin t.live
                   /\ \A m \in 0 .. k - 1 : Candidate(t, m) \in t.live
           C == 0 .. MaxSessions
           F == {k \in C : Candidate(t, k) \notin t.live}
<1>1. C \in SUBSET (0 .. MaxId)
  OBVIOUS
<1>2. F # {}
  <2> SUFFICES ASSUME F = {} PROVE FALSE
    OBVIOUS
  <2> DEFINE f == [k \in C |-> Candidate(t, k)]
  <2>1. f \in [C -> t.live]
    OBVIOUS
  <2>2. IsFiniteSet(C) /\ Cardinality(C) = MaxSessions + 1
    <3>1. Cardinality(C) = IF 0 > MaxSessions THEN 0 ELSE MaxSessions - 0 + 1
      BY FS_Interval
    <3> QED
      BY <3>1, FS_Interval
  <2>3. IsFiniteSet(t.live) /\ Cardinality(t.live) \in Nat
    BY IdsFinite, FS_CardinalityType
  <2>4. Cardinality(t.live) < Cardinality(C)
    BY <2>2, <2>3
  <2>5. ASSUME NEW x \in C, NEW y \in C, x # y PROVE f[x] # f[y]
    <3>1. /\ Candidate(t, x) = IF t.next_session + x <= MaxId THEN t.next_session + x
                               ELSE t.next_session + x - MaxId
          /\ Candidate(t, y) = IF t.next_session + y <= MaxId THEN t.next_session + y
                               ELSE t.next_session + y - MaxId
      BY <1>1, CandidateIs
    <3>2. t.next_session \in 1 .. MaxId
      BY DEF Ids
    <3> QED
      BY <2>5, <3>1, <3>2
  <2> HIDE DEF f, C
  <2> QED
    BY <2>1, <2>2, <2>3, <2>4, <2>5, FS_PigeonHole
<1>3. F \in SUBSET Nat
  OBVIOUS
<1> HIDE DEF F
<1>4. PICK k \in F : \A m \in F : k <= m
  BY <1>2, <1>3, LeastOfSet
<1>5. k \in C /\ P(k)
  BY <1>4 DEF F
<1>6. FreeAt(t) \in C /\ P(FreeAt(t))
  <2>1. FreeAt(t) = CHOOSE j \in C : P(j)
    BY DEF FreeAt
  <2> HIDE DEF C
  <2> QED
    BY <1>5, <2>1
<1>7. NewId(t) \in Ids
  <2>1. FreeAt(t) \in 0 .. MaxId /\ t.next_session \in 1 .. MaxId
    BY <1>1, <1>6 DEF Ids
  <2> QED
    BY <2>1, CandidateIs DEF NewId, Ids
<1> QED
  BY <1>6, <1>7 DEF NewId

\* Where the new id lies, and what next_session moves to.
LEMMA DrawIdOK ==
  ASSUME NEW t, TableOK(t), t.next_session \in Ids
  PROVE  /\ TableOK(DrawId(t)) /\ DrawId(t).live = t.live /\ DrawId(t).bytes = t.bytes
         /\ DrawId(t).last_tick = t.last_tick /\ DrawId(t).retained_bytes = t.retained_bytes
         /\ DrawId(t).next_session = IF NewId(t) = MaxId THEN 1 ELSE NewId(t) + 1
<1>1. t \in Tables /\ t.live \in SUBSET Ids /\ Cardinality(t.live) <= MaxSessions
  BY DEF TableOK, Tables, WithinLimits
<1> DEFINE k == FreeAt(t)
           c == Candidate(t, k + 1)
<1>2. k \in 0 .. MaxSessions /\ NewId(t) \in Ids
  BY <1>1, FreeAtOK
<1>3. c = IF NewId(t) = MaxId THEN 1 ELSE NewId(t) + 1
  <2>1. k \in 0 .. MaxId /\ k + 1 \in 0 .. MaxId
    BY <1>2
  <2> HIDE DEF k
  <2>2. /\ Candidate(t, k) = IF t.next_session + k <= MaxId THEN t.next_session + k
                             ELSE t.next_session + k - MaxId
        /\ c = IF t.next_session + (k + 1) <= MaxId THEN t.next_session + (k + 1)
               ELSE t.next_session + (k + 1) - MaxId
    BY <2>1, CandidateIs
  <2>3. t.next_session \in 1 .. MaxId /\ NewId(t) = Candidate(t, k)
    BY DEF Ids, NewId, k
  <2> HIDE DEF c
  <2> QED
    BY <1>2, <2>1, <2>2, <2>3
<1>4. c \in Ids
  BY <1>2, <1>3 DEF Ids
<1>5. DrawId(t) = [t EXCEPT !.next_session = c]
  BY DEF DrawId
<1> HIDE DEF c
<1>6. DrawId(t) \in Tables
  BY <1>1, <1>4, <1>5 DEF Tables
<1>7. /\ DrawId(t).live = t.live /\ DrawId(t).bytes = t.bytes /\ DrawId(t).tick = t.tick
      /\ DrawId(t).last_tick = t.last_tick /\ DrawId(t).retained_bytes = t.retained_bytes
      /\ DrawId(t).next_session = c
  BY <1>1, <1>5 DEF Tables
<1>8. TableOK(DrawId(t))
  BY <1>6, <1>7 DEF TableOK, CountsBytes, OwnTicks, WithinLimits
<1> QED
  BY <1>3, <1>7, <1>8

\* What session.open has seen to before it inserts an entry i, and what it has after.
CanInsert(t, i, w) == /\ TableOK(t) /\ w \in Nat /\ ~Over(t, w) /\ i \in Ids /\ i \notin t.live
                      /\ t.tick >= 1 /\ \A j \in t.live : t.last_tick[j] < t.tick
Inserted(r, t, i, w) ==
  /\ TableOK(r) /\ r.live = t.live \cup {i} /\ r.next_session = t.next_session
  /\ r.bytes = [t.bytes EXCEPT ![i] = w] /\ r.last_tick = [t.last_tick EXCEPT ![i] = t.tick]
  /\ Cardinality(r.live) = Cardinality(t.live) + 1

\* A new entry is stamped with a tick of its own, and its bytes are counted.
LEMMA InsertOK ==
  ASSUME NEW t, NEW i, NEW w, CanInsert(t, i, w)
  PROVE  Inserted(Insert(t, i, w), t, i, w)
<1> USE DEF CanInsert
<1> DEFINE r == Insert(t, i, w)
<1>1. /\ t \in Tables /\ t.live \in SUBSET Ids /\ t.bytes \in [Ids -> Nat] /\ t.tick \in 0 .. MaxTick
      /\ t.last_tick \in [Ids -> 0 .. MaxTick] /\ IsFiniteSet(t.live) /\ t.retained_bytes \in Nat
      /\ Cardinality(t.live) \in Nat
  BY IdsFinite, FS_CardinalityType DEF TableOK, Tables
<1> DEFINE b == [t.bytes EXCEPT ![i] = w]
           l == [t.last_tick EXCEPT ![i] = t.tick]
<1>2. b \in [Ids -> Nat] /\ l \in [Ids -> 0 .. MaxTick]
  BY <1>1
<1>3. r = [t EXCEPT !.live = t.live \cup {i}, !.bytes = b, !.last_tick = l,
                    !.retained_bytes = t.retained_bytes + w]
  BY <1>1 DEF Insert, Tables
<1>4. /\ r.live = t.live \cup {i} /\ r.next_session = t.next_session /\ r.tick = t.tick
      /\ r.bytes = b /\ r.last_tick = l /\ r.retained_bytes = t.retained_bytes + w
  <2> HIDE DEF b, l
  <2> QED
    BY <1>1, <1>3 DEF Tables
<1>5. r \in Tables
  <2> DEFINE L == t.live \cup {i}
             n == t.retained_bytes + w
  <2>1. L \in SUBSET Ids /\ n \in Nat /\ t \in Tables
    BY <1>1
  <2>2. r = [t EXCEPT !.live = L, !.bytes = b, !.last_tick = l, !.retained_bytes = n]
    BY <1>3
  <2> HIDE DEF b, l, L, n, r
  <2> QED
    BY ONLY <1>2, <2>1, <2>2, TablesClosed
<1> HIDE DEF r
<1>6. OwnTicks(r)
  <2>1. \A j \in t.live : l[j] = t.last_tick[j] /\ l[j] \in 1 .. t.tick
    BY <1>1 DEF TableOK, OwnTicks
  <2>2. l[i] = t.tick
    BY <1>1
  <2> HIDE DEF l
  <2>3. ASSUME NEW x \in r.live, NEW y \in r.live, x # y PROVE l[x] # l[y]
    <3>1. CASE x = i
      BY <1>1, <1>4, <2>1, <2>2, <2>3, <3>1
    <3>2. CASE y = i
      BY <1>1, <1>4, <2>1, <2>2, <2>3, <3>2
    <3>3. CASE x \in t.live /\ y \in t.live
      BY <2>1, <2>3, <3>3 DEF TableOK, OwnTicks
    <3> QED
      BY <1>4, <3>1, <3>2, <3>3
  <2>4. \A x \in r.live : l[x] \in 1 .. t.tick
    BY <1>1, <1>4, <2>1, <2>2
  <2> QED
    BY <1>4, <2>3, <2>4 DEF OwnTicks
<1>7. Total(r.live, b) = t.retained_bytes + w
  <2>1. \A j \in t.live : b[j] = t.bytes[j] /\ b[j] \in Nat
    BY <1>1
  <2>2. b[i] = w
    BY <1>1
  <2> HIDE DEF b
  <2>3. Total(t.live, b) = Total(t.live, t.bytes)
    BY <2>1, TotalSame
  <2>4. Total(t.live \cup {i}, b) = Total(t.live, b) + b[i]
    BY <1>1, <2>1, <2>2, TotalAdd
  <2> QED
    BY <1>4, <2>2, <2>3, <2>4 DEF TableOK, CountsBytes
<1>8. Cardinality(r.live) = Cardinality(t.live) + 1
  BY <1>1, <1>4, FS_AddElement, ZenonT(40)
<1>9. WithinLimits(r)
  BY <1>1, <1>4, <1>8 DEF Over, WithinLimits
<1>10. TableOK(r)
  BY <1>4, <1>5, <1>6, <1>7, <1>9 DEF TableOK, CountsBytes
<1>11. Inserted(r, t, i, w)
  BY <1>4, <1>8, <1>10 DEF Inserted
<1> QED
  BY <1>11 DEF r
-----------------------------------------------------------------------------
(* The table's invariant *)

\* next_session has not come to the ids from n on, in this lap.
DrawnOnce(d, n) == \A i \in Ids : d[i] <= 1 /\ (i >= n => d[i] = 0)

\* A poisoned table need not be in order: Engine::sessions will not use it.
TableInv == /\ table \in Tables /\ poisoned \in BOOLEAN /\ drawn \in [Ids -> Nat]
            /\ poisoned \/ TableOK(table)
            /\ DrawnOnce(drawn, table.next_session)

LEMMA LockedOK ==
  ASSUME TableInv
  PROVE  TableOK(Locked) /\ Locked.next_session = table.next_session /\ Locked.next_session \in Ids
<1>1. table.next_session \in Ids
  BY DEF TableInv, Tables
<1> QED
  BY <1>1, ResetOK DEF TableInv, Locked

\* The table t of session.open: with room made, the id i drawn, and with the entry.
Opened(t, room, i, ready, r, w) ==
  /\ i \in Ids /\ i \notin room.live /\ room.live \in SUBSET t.live /\ room \in Tables
  /\ room.next_session = t.next_session
  /\ TableOK(ready) /\ ready.next_session = (IF i = MaxId THEN 1 ELSE i + 1) /\ ready.live = room.live
  /\ TableOK(r) /\ r.next_session = ready.next_session /\ r.live = room.live \cup {i}
  /\ Cardinality(r.live) = Cardinality(room.live) + 1
  /\ r.bytes = [room.bytes EXCEPT ![i] = w]
  /\ \A x \in room.live : r.last_tick[x] < r.last_tick[i]
  /\ \A x, y \in room.live : r.last_tick[x] < r.last_tick[y] <=> room.last_tick[x] < room.last_tick[y]

LEMMA OpenedOK ==
  ASSUME NEW t, TableOK(t), NEW w \in Nat, w <= MaxRetained
  PROVE  LET room == MakeRoom(t, w)
             i == NewId(room)
             ready == NextTick(DrawId(room))
         IN  Opened(t, room, i, ready, Insert(ready, i, w), w)
<1> DEFINE room == MakeRoom(t, w)
           i == NewId(room)
           d == DrawId(room)
           ready == NextTick(d)
           r == Insert(ready, i, w)
           next == IF i = MaxId THEN 1 ELSE i + 1
<1>1. TableOK(room) /\ ~Over(room, w) /\ room.live \in SUBSET t.live /\ room.next_session = t.next_session
  BY RoomOK
<1> HIDE DEF room
<1>2. /\ room.next_session \in Ids /\ room.live \in SUBSET Ids /\ Cardinality(room.live) <= MaxSessions
      /\ room \in Tables
  BY <1>1 DEF TableOK, Tables, WithinLimits
<1>3. i \in Ids /\ i \notin room.live
  BY <1>2, FreeAtOK
<1>4. /\ TableOK(d) /\ d.live = room.live /\ d.retained_bytes = room.retained_bytes
      /\ d.next_session = next /\ d.bytes = room.bytes /\ d.last_tick = room.last_tick
  BY <1>1, <1>2, DrawIdOK
<1> HIDE DEF d, i
<1>5. /\ TableOK(ready) /\ ready.live = d.live /\ ready.retained_bytes = d.retained_bytes
      /\ ready.next_session = d.next_session /\ ready.tick >= 1
      /\ ready.bytes = d.bytes /\ \A j \in d.live : ready.last_tick[j] < ready.tick
      /\ \A x, y \in d.live : ready.last_tick[x] < ready.last_tick[y] <=> d.last_tick[x] < d.last_tick[y]
  BY <1>4, NextTickOK
<1> HIDE DEF ready
<1>6. CanInsert(ready, i, w)
  BY <1>1, <1>3, <1>4, <1>5 DEF Over, CanInsert
<1>7. /\ TableOK(r) /\ r.live = ready.live \cup {i} /\ r.next_session = ready.next_session
      /\ Cardinality(r.live) = Cardinality(ready.live) + 1
      /\ r.bytes = [ready.bytes EXCEPT ![i] = w]
      /\ r.last_tick = [ready.last_tick EXCEPT ![i] = ready.tick]
  <2>1. Inserted(r, ready, i, w)
    BY <1>6, InsertOK
  <2> HIDE DEF r
  <2> QED
    BY <2>1 DEF Inserted
<1> HIDE DEF r
<1>8. /\ r.last_tick[i] = ready.tick
      /\ \A x \in room.live : r.last_tick[x] = ready.last_tick[x]
  <2>1. ready.last_tick \in [Ids -> 0 .. MaxTick]
    BY <1>5 DEF TableOK, Tables
  <2> QED
    BY <1>2, <1>3, <1>7, <2>1
<1>9. Opened(t, room, i, ready, r, w)
  BY <1>1, <1>2, <1>3, <1>4, <1>5, <1>7, <1>8 DEF Opened
<1> QED
  BY <1>9 DEF room, i, d, ready, r

\* An id is drawn once in a lap.
LEMMA DrawOK ==
  ASSUME NEW i \in Ids, NEW n \in Ids, drawn \in [Ids -> Nat], DrawnOnce(drawn, n), Draw(i, n)
  PROVE  drawn' \in [Ids -> Nat] /\ DrawnOnce(drawn', IF i = MaxId THEN 1 ELSE i + 1)
<1> DEFINE lap == IF i < n THEN [j \in Ids |-> 0] ELSE drawn
<1>1. drawn' = IF i = MaxId THEN [j \in Ids |-> 0] ELSE [lap EXCEPT ![i] = @ + 1]
  BY DEF Draw
<1>2. /\ lap \in [Ids -> Nat] /\ lap[i] = 0 /\ \A j \in Ids : lap[j] <= 1 /\ (j > i => lap[j] = 0)
  BY DEF DrawnOnce, Ids
<1> HIDE DEF lap
<1>3. CASE i = MaxId
  BY <1>1, <1>3 DEF DrawnOnce
<1>4. CASE i # MaxId
  <2>1. drawn' = [lap EXCEPT ![i] = 1]
    BY <1>1, <1>2, <1>4
  <2>2. i + 1 = IF i = MaxId THEN 1 ELSE i + 1
    BY <1>4
  <2>3. drawn' \in [Ids -> Nat] /\ \A j \in Ids : drawn'[j] <= 1 /\ (j >= i + 1 => drawn'[j] = 0)
    BY <1>2, <2>1 DEF Ids
  <2> QED
    BY <2>2, <2>3 DEF DrawnOnce
<1> QED
  BY <1>3, <1>4

\* session.open: the table holds one session more than the evictions left.
LEMMA OpenStep ==
  ASSUME TableInv, NEW w \in Sizes, Open(w)
  PROVE  /\ TableInv' /\ ~poisoned'
         /\ Cardinality(Locked.live) \in Nat /\ Cardinality(table'.live) \in Nat
         /\ Cardinality(table'.live) <= Cardinality(Locked.live) + 1
<1> DEFINE t == Locked
           room == MakeRoom(t, w)
           i == NewId(room)
           next == IF i = MaxId THEN 1 ELSE i + 1
<1>1. TableOK(t) /\ t.next_session = table.next_session /\ table.next_session \in Ids
  BY LockedOK
<1>0. w \in Nat /\ w <= MaxRetained
  BY DEF Open
<1>2. w \in Nat /\ w <= MaxRetained /\ table' = Insert(NextTick(DrawId(room)), i, w) /\ ~poisoned'
      /\ poisoned' \in BOOLEAN /\ Draw(i, table.next_session)
  BY DEF Open
<1> HIDE DEF t
<1> DEFINE r == Insert(NextTick(DrawId(room)), i, w)
<1>3. /\ TableOK(r) /\ r.next_session = next /\ room.live \in SUBSET t.live
      /\ Cardinality(r.live) = Cardinality(room.live) + 1 /\ i \in Ids
  <2>1. Opened(t, room, i, NextTick(DrawId(room)), r, w)
    BY <1>0, <1>1, OpenedOK
  <2> HIDE DEF i, room, r
  <2> QED
    BY <2>1 DEF Opened
<1>4. table' = r
  BY <1>2
<1> HIDE DEF r
<1> HIDE DEF i, room
<1>5. drawn' \in [Ids -> Nat] /\ DrawnOnce(drawn', next)
  BY <1>1, <1>2, <1>3, DrawOK DEF TableInv
<1>6. IsFiniteSet(t.live)
  BY <1>1, IdsFinite DEF TableOK, Tables
<1>7. /\ Cardinality(t.live) \in Nat /\ Cardinality(room.live) \in Nat
      /\ Cardinality(room.live) <= Cardinality(t.live)
  BY <1>3, <1>6, Parts
<1>8. TableInv'
  BY <1>2, <1>3, <1>4, <1>5 DEF TableInv, TableOK
<1> QED
  BY <1>2, <1>3, <1>4, <1>7, <1>8 DEF t

\* session.open that panics leaves a poisoned table, and at most the id drawn.
LEMMA OpenPanicsStep ==
  ASSUME TableInv, NEW w \in Sizes, OpenPanics(w)
  PROVE  TableInv' /\ poisoned'
<1> DEFINE t == Locked
           room == MakeRoom(t, w)
           i == NewId(room)
           ready == NextTick(DrawId(room))
           next == IF i = MaxId THEN 1 ELSE i + 1
<1>1. TableOK(t) /\ t.next_session = table.next_session /\ table.next_session \in Ids
  BY LockedOK
<1>0. w \in Nat /\ w <= MaxRetained
  BY DEF OpenPanics
<1>2. /\ w \in Nat /\ w <= MaxRetained /\ poisoned' = TRUE
      /\ \/ table' = room /\ drawn' = drawn
         \/ /\ table' = ready \/ table' = [ready EXCEPT !.retained_bytes = @ + w]
            /\ Draw(i, table.next_session)
  BY DEF OpenPanics
<1> HIDE DEF t
<1>3. /\ i \in Ids /\ room \in Tables /\ room.next_session = t.next_session
      /\ ready \in Tables /\ ready.next_session = next
  <2>1. Opened(t, room, i, ready, Insert(ready, i, w), w)
    BY <1>0, <1>1, OpenedOK
  <2> HIDE DEF i, room, ready
  <2> QED
    BY <2>1 DEF TableOK, Opened
<1> HIDE DEF i, room, ready, next
<1>4. CASE table' = room /\ drawn' = drawn
  BY <1>1, <1>2, <1>3, <1>4 DEF TableInv
<1>5. CASE /\ table' = ready \/ table' = [ready EXCEPT !.retained_bytes = @ + w]
           /\ Draw(i, table.next_session)
  <2>1. drawn' \in [Ids -> Nat] /\ DrawnOnce(drawn', next)
    BY <1>1, <1>3, <1>5, DrawOK DEF TableInv, next
  <2>2. table' \in Tables /\ table'.next_session = next
    BY <1>2, <1>3, <1>5 DEF Tables
  <2> QED
    BY <1>2, <2>1, <2>2 DEF TableInv
<1> QED
  BY <1>2, <1>4, <1>5

\* Every other call that takes the table finds it in order and leaves it so.
LEMMA KeepStep ==
  ASSUME TableInv, TableOK(table'), table'.next_session = Locked.next_session,
         poisoned' = FALSE, drawn' = drawn
  PROVE  TableInv'
<1>1. table'.next_session = table.next_session
  BY LockedOK
<1> QED
  BY <1>1 DEF TableInv, TableOK

LEMMA LookStep ==
  ASSUME TableInv, Look
  PROVE  TableInv' /\ ~poisoned' /\ table'.live = Locked.live
<1>1. table' = Locked /\ poisoned' = FALSE /\ drawn' = drawn
  BY DEF Look
<1>2. TableOK(table') /\ table'.next_session = Locked.next_session
  BY <1>1, LockedOK
<1> QED
  BY <1>1, <1>2, KeepStep

LEMMA SnapshotStep ==
  ASSUME TableInv, NEW i \in Ids, Snapshot(i)
  PROVE  TableInv' /\ ~poisoned' /\ table'.live = Locked.live
<1> DEFINE l == Locked
           t == NextTick(l)
           u == [t.last_tick EXCEPT ![i] = t.tick]
           r == [t EXCEPT !.last_tick = u]
<1>1. TableOK(l)
  BY LockedOK
<1>2. table' = (IF i \in t.live THEN r ELSE t) /\ poisoned' = FALSE /\ drawn' = drawn
  BY DEF Snapshot
<1> HIDE DEF l
<1>3. /\ TableOK(t) /\ t.live = l.live /\ t.next_session = l.next_session /\ t.tick >= 1
      /\ \A j \in l.live : t.last_tick[j] < t.tick
  BY <1>1, NextTickOK
<1> HIDE DEF t
<1>4. ASSUME i \in t.live
      PROVE  TableOK(r) /\ r.live = t.live /\ r.next_session = t.next_session
  <2>1. t \in Tables /\ t.last_tick \in [Ids -> 0 .. MaxTick] /\ t.tick \in 0 .. MaxTick
        /\ t.live \in SUBSET Ids
    BY <1>3 DEF TableOK, Tables
  <2>2. u \in [Ids -> 0 .. MaxTick] /\ u[i] = t.tick /\ \A j \in t.live \ {i} : u[j] = t.last_tick[j]
    BY <2>1
  <2> HIDE DEF u
  <2>3. /\ r \in Tables /\ r.live = t.live /\ r.bytes = t.bytes /\ r.last_tick = u /\ r.tick = t.tick
        /\ r.next_session = t.next_session /\ r.retained_bytes = t.retained_bytes
    BY <2>1, <2>2 DEF Tables
  <2> HIDE DEF r
  <2>4. OwnTicks(r)
    <3>1. ASSUME NEW x \in t.live, NEW y \in t.live, x # y PROVE u[x] # u[y]
      <4>1. \A j \in t.live : t.last_tick[j] \in 1 .. t.tick /\ t.last_tick[j] # t.tick
        BY <1>3, <2>1 DEF TableOK, OwnTicks
      <4>2. t.last_tick[x] # t.last_tick[y]
        BY <1>3, <3>1 DEF TableOK, OwnTicks
      <4> QED
        BY <2>2, <3>1, <4>1, <4>2
    <3>2. \A x \in t.live : u[x] \in 1 .. t.tick
      BY <1>3, <2>1, <2>2 DEF TableOK, OwnTicks
    <3> QED
      BY <2>3, <3>1, <3>2 DEF OwnTicks
  <2> QED
    BY <1>3, <2>3, <2>4 DEF TableOK, CountsBytes, WithinLimits
<1> HIDE DEF r
<1>5. TableOK(table') /\ table'.next_session = l.next_session /\ table'.live = l.live
  BY <1>2, <1>3, <1>4
<1> QED
  BY <1>2, <1>5, KeepStep DEF l

LEMMA CloseStep ==
  ASSUME TableInv, NEW i \in Ids, Close(i)
  PROVE  /\ TableInv' /\ ~poisoned'
         /\ Cardinality(Locked.live) \in Nat /\ Cardinality(table'.live) \in Nat
         /\ Cardinality(Locked.live) = Cardinality(table'.live) + (IF i \in Locked.live THEN 1 ELSE 0)
<1> DEFINE t == Locked
           r == Removed(t, {i})
<1>1. TableOK(t) /\ IsFiniteSet(t.live)
  BY LockedOK, IdsFinite DEF TableOK, Tables
<1>2. table' = (IF i \in t.live THEN r ELSE t) /\ poisoned' = FALSE /\ drawn' = drawn
  BY DEF Close
<1> HIDE DEF t
<1>3. Cardinality(t.live) \in Nat
  BY <1>1, FS_CardinalityType
<1>4. CASE i \in t.live
  <2>1. {i} \in SUBSET t.live
    BY <1>4
  <2>2. TableOK(r) /\ r.live = t.live \ {i} /\ r.next_session = t.next_session
    <3>1. TableOK(r) /\ IsWithout(r, t, {i})
      BY <1>1, <2>1, RemovedOK
    <3> HIDE DEF r
    <3> QED
      BY <3>1 DEF IsWithout
  <2> HIDE DEF r
  <2>3. Cardinality(r.live) = Cardinality(t.live) - 1 /\ Cardinality(r.live) \in Nat
    <3>1. Cardinality(t.live \ {i}) = Cardinality(t.live) - 1 /\ IsFiniteSet(t.live \ {i})
      BY <1>1, <1>4, FS_RemoveElement
    <3> QED
      BY <2>2, <3>1, FS_CardinalityType
  <2>4. table' = r
    BY <1>2, <1>4
  <2>5. TableInv'
    BY <1>2, <2>2, <2>4, KeepStep DEF t
  <2> QED
    BY <1>2, <1>3, <1>4, <2>3, <2>4, <2>5 DEF t
<1>5. CASE i \notin t.live
  <2>1. table' = t
    BY <1>2, <1>5
  <2>2. TableInv'
    BY <1>1, <1>2, <2>1, KeepStep DEF t
  <2> QED
    BY <1>2, <1>3, <1>5, <2>1, <2>2 DEF t
<1> QED
  BY <1>4, <1>5

LEMMA TableInit == Init => TableInv
<1> SUFFICES ASSUME Init PROVE TableInv
  OBVIOUS
<1>1. TableOK(table) /\ table.next_session = 1
  BY EmptyOK DEF Init, Empty
<1>2. drawn \in [Ids -> Nat] /\ DrawnOnce(drawn, 1) /\ poisoned = FALSE
  BY DEF Init, DrawnOnce
<1> QED
  BY <1>1, <1>2 DEF TableInv, TableOK

LEMMA TableStep == TableInv /\ [Next]_vars => TableInv'
<1> SUFFICES ASSUME TableInv, [Next]_vars PROVE TableInv'
  OBVIOUS
<1>1. CASE \E w \in Sizes : Open(w)
  BY <1>1, OpenStep
<1>2. CASE \E w \in Sizes : OpenPanics(w)
  BY <1>2, OpenPanicsStep
<1>3. CASE Look
  BY <1>3, LookStep
<1>4. CASE \E i \in Ids : Snapshot(i)
  BY <1>4, SnapshotStep
<1>5. CASE \E i \in Ids : Close(i)
  BY <1>5, CloseStep
<1>6. CASE UNCHANGED vars
  BY <1>6 DEF vars, TableInv
<1> QED
  BY <1>1, <1>2, <1>3, <1>4, <1>5, <1>6 DEF Next

\* What the invariant says of the table a caller finds.
LEMMA TableFacts == TableInv => TypeOK /\ RetainedExact /\ TicksOrdered /\ NoIdReused
<1> SUFFICES ASSUME TableInv PROVE TypeOK /\ RetainedExact /\ TicksOrdered /\ NoIdReused
  OBVIOUS
<1>1. TableOK(Locked)
  BY LockedOK
<1>2. TypeOK
  BY DEF TableInv, Tables, TypeOK
<1>3. RetainedExact /\ TicksOrdered
  BY <1>1 DEF TableOK, CountsBytes, OwnTicks, WithinLimits, RetainedExact, TicksOrdered
<1>4. NoIdReused
  BY DEF TableInv, DrawnOnce, NoIdReused
<1> QED
  BY <1>2, <1>3, <1>4
-----------------------------------------------------------------------------
(* The scripts of the methods *)

\* After a stage of work comes a check, and after "open" its count.
Follows(a, b) == (a \in Work => b = "check") /\ (b = "count_open" <=> a = "open")

Shape(s) == /\ Len(s) \in Nat /\ Len(s) >= 2 /\ s[1] = "check" /\ s[Len(s)] # "open"
            /\ \A k \in 1 .. Len(s) - 1 : Follows(s[k], s[k + 1])

LEMMA ScriptShape ==
  ASSUME NEW m \in Methods
  PROVE  Shape(Script(m))
<1>1. CASE m = "engine.initialize"
  <2>1. Script(m) = <<"check">> \o <<"answer">>
    BY <1>1 DEF Script, parse_patch_param, sealed, session_open, review_change
  <2>2. Len(Script(m)) = 2 /\ Script(m)[1] = "check" /\ Script(m)[2] = "answer"
    BY <2>1
  <2> QED
    BY <2>2 DEF Shape, Follows, Work
<1>2. CASE m = "daemon.health"
  <2>1. Script(m) = <<"check">> \o <<"look">>
    BY <1>2 DEF Script, parse_patch_param, sealed, session_open, review_change
  <2>2. Len(Script(m)) = 2 /\ Script(m)[1] = "check" /\ Script(m)[2] = "look"
    BY <2>1
  <2> QED
    BY <2>2 DEF Shape, Follows, Work
<1>3. CASE m = "daemon.shutdown"
  <2>1. Script(m) = <<"check">> \o <<"stop">>
    BY <1>3 DEF Script, parse_patch_param, sealed, session_open, review_change
  <2>2. Len(Script(m)) = 2 /\ Script(m)[1] = "check" /\ Script(m)[2] = "stop"
    BY <2>1
  <2> QED
    BY <2>2 DEF Shape, Follows, Work
<1>4. CASE m = "diff.plan"
  <2>1. Script(m) = <<"check">> \o (<<"parse", "check">> \o <<"rank">>)
    BY <1>4 DEF Script, parse_patch_param, sealed, session_open, review_change
  <2>2. /\ Len(Script(m)) = 4 /\ Script(m)[1] = "check" /\ Script(m)[2] = "parse"
        /\ Script(m)[3] = "check" /\ Script(m)[4] = "rank"
    BY <2>1
  <2> QED
    BY <2>2 DEF Shape, Follows, Work
<1>5. CASE m = "diff.compute"
  <2>1. Script(m) = <<"check">> \o (<<"parse", "check">> \o <<"render">>)
    BY <1>5 DEF Script, parse_patch_param, sealed, session_open, review_change
  <2>2. /\ Len(Script(m)) = 4 /\ Script(m)[1] = "check" /\ Script(m)[2] = "parse"
        /\ Script(m)[3] = "check" /\ Script(m)[4] = "render"
    BY <2>1
  <2> QED
    BY <2>2 DEF Shape, Follows, Work
<1>6. CASE m = "review.change"
  <2>1. Script(m) = <<"check">> \o <<"dirs", "check", "acquire", "check", "seal", "check", "view">>
    BY <1>6 DEF Script, parse_patch_param, sealed, session_open, review_change
  <2>2. /\ Len(Script(m)) = 8 /\ Script(m)[1] = "check" /\ Script(m)[2] = "dirs"
        /\ Script(m)[3] = "check" /\ Script(m)[4] = "acquire" /\ Script(m)[5] = "check"
        /\ Script(m)[6] = "seal" /\ Script(m)[7] = "check" /\ Script(m)[8] = "view"
    BY <2>1
  <2> QED
    BY <2>2 DEF Shape, Follows, Work
<1>7. CASE m = "review.outline"
  <2>1. Script(m) = <<"check">> \o (<<"parse", "check">> \o <<"view">>)
    BY <1>7 DEF Script, parse_patch_param, sealed, session_open, review_change
  <2>2. /\ Len(Script(m)) = 4 /\ Script(m)[1] = "check" /\ Script(m)[2] = "parse"
        /\ Script(m)[3] = "check" /\ Script(m)[4] = "view"
    BY <2>1
  <2> QED
    BY <2>2 DEF Shape, Follows, Work
<1>8. CASE m = "session.open"
  <2>1. Script(m) = <<"check">> \o (<<"parse", "check">> \o <<"open", "count_open">>)
    BY <1>8 DEF Script, parse_patch_param, sealed, session_open, review_change
  <2>2. /\ Len(Script(m)) = 5 /\ Script(m)[1] = "check" /\ Script(m)[2] = "parse"
        /\ Script(m)[3] = "check" /\ Script(m)[4] = "open" /\ Script(m)[5] = "count_open"
    BY <2>1
  <2> QED
    BY <2>2 DEF Shape, Follows, Work
<1>9. CASE m = "session.snapshot"
  <2>1. Script(m) = <<"check">> \o <<"snapshot", "check", "rank">>
    BY <1>9 DEF Script, parse_patch_param, sealed, session_open, review_change
  <2>2. /\ Len(Script(m)) = 4 /\ Script(m)[1] = "check" /\ Script(m)[2] = "snapshot"
        /\ Script(m)[3] = "check" /\ Script(m)[4] = "rank"
    BY <2>1
  <2> QED
    BY <2>2 DEF Shape, Follows, Work
<1>10. CASE m = "session.close"
  <2>1. Script(m) = <<"check">> \o <<"close">>
    BY <1>10 DEF Script, parse_patch_param, sealed, session_open, review_change
  <2>2. Len(Script(m)) = 2 /\ Script(m)[1] = "check" /\ Script(m)[2] = "close"
    BY <2>1
  <2> QED
    BY <2>2 DEF Shape, Follows, Work
<1>11. CASE m = "findings.verify"
  <2>1. Script(m) = <<"check">> \o (<<"parse", "check">> \o <<"verify">>)
    BY <1>11 DEF Script, parse_patch_param, sealed, session_open, review_change
  <2>2. /\ Len(Script(m)) = 4 /\ Script(m)[1] = "check" /\ Script(m)[2] = "parse"
        /\ Script(m)[3] = "check" /\ Script(m)[4] = "verify"
    BY <2>1
  <2> QED
    BY <2>2 DEF Shape, Follows, Work
<1> QED
  BY <1>1, <1>2, <1>3, <1>4, <1>5, <1>6, <1>7, <1>8, <1>9, <1>10, <1>11 DEF Methods

-----------------------------------------------------------------------------
(* The requests *)

ReqType == [method : Methods \cup {"none"}, at : Nat, late : BOOLEAN, past : Nat, evicted : Nat]

\* A request that did work after its deadline is about to find that out.
ReqOK(q) == /\ q \in ReqType /\ q.past <= 1
            /\ q.method # "none" =>
                 /\ q.at \in 1 .. Len(Script(q.method))
                 /\ q.past # 0 => q.late /\ Script(q.method)[q.at] = "check"

Counting(q) == q.method # "none" /\ Script(q.method)[q.at] = "count_open"

ReqInv == req \in [Requests -> ReqType] /\ \A r \in Requests : ReqOK(req[r])

\* The request r goes on as q.
Moves(r, q) == req' = [req EXCEPT ![r] = q] /\ ReqOK(q)

LEMMA NoneIsNoMethod == "none" \notin Methods
BY DEF Methods

LEMMA ReqStep ==
  ASSUME ReqInv, NEW r \in Requests, NEW q, Moves(r, q)
  PROVE  ReqInv'
BY DEF ReqInv, Moves, ReqOK

\* The stage a request is in, and the work it may do there past its deadline.
LEMMA StageFacts ==
  ASSUME ReqInv, NEW r \in Requests, req[r].method # "none"
  PROVE  /\ req[r] \in ReqType /\ ReqOK(req[r]) /\ Shape(Script(req[r].method))
         /\ Past(r) \in 0 .. 1
         /\ Past(r) # 0 => req[r].late /\ (Stage(r) \in Work \/ Stage(r) = "check")
<1>1. req[r] \in ReqType /\ ReqOK(req[r])
  BY DEF ReqInv
<1>2. Shape(Script(req[r].method))
  <2>1. req[r].method \in Methods
    BY <1>1 DEF ReqType
  <2> QED
    BY <2>1, ScriptShape
<1>3. req[r].past \in Nat /\ req[r].past <= 1 /\ req[r].late \in BOOLEAN
  BY <1>1 DEF ReqOK, ReqType
<1>4. req[r].past # 0 => req[r].late /\ Stage(r) = "check"
  BY <1>1 DEF ReqOK, Stage
<1>5. Stage(r) = "check" => Stage(r) \notin Work
  BY DEF Work
<1>6. CASE req[r].late /\ Stage(r) \in Work
  BY <1>1, <1>2, <1>3, <1>4, <1>5, <1>6 DEF Past
<1>7. CASE ~(req[r].late /\ Stage(r) \in Work)
  <2>1. Past(r) = req[r].past + 0
    BY <1>7 DEF Past
  <2> QED
    BY <1>1, <1>2, <1>3, <1>4, <2>1
<1> QED
  BY <1>6, <1>7

\* What a request leaves in its slot.
LEMMA NoMethod ==
  ASSUME NEW n \in Nat
  PROVE  LET q == [Idle EXCEPT !.past = n]
         IN  q \in ReqType /\ q.method = "none" /\ q.past = n /\ q.evicted = 0
BY DEF Idle, ReqType

LEMMA Finishes ==
  ASSUME ReqInv, NEW r \in Requests, req[r].method # "none", Finish(r)
  PROVE  \E q : Moves(r, q) /\ ~Counting(q)
<1> DEFINE q == [Idle EXCEPT !.past = Past(r)]
<1>1. Past(r) \in 0 .. 1
  BY StageFacts
<1>3. q \in ReqType /\ q.method = "none" /\ q.past <= 1
  <2> DEFINE n == Past(r)
  <2>1. n \in 0 .. 1 /\ n \in Nat
    BY <1>1
  <2> HIDE DEF n
  <2>2. /\ [Idle EXCEPT !.past = n] \in ReqType /\ [Idle EXCEPT !.past = n].method = "none"
        /\ [Idle EXCEPT !.past = n].past = n
    BY <2>1, NoMethod
  <2> QED
    BY <2>1, <2>2 DEF n
<1>4. req' = [req EXCEPT ![r] = q]
  BY DEF Finish
<1> HIDE DEF q
<1> QED
  BY <1>3, <1>4 DEF Moves, ReqOK, Counting

\* A request that goes on is counted next exactly if it has opened a session.
LEMMA Advances ==
  ASSUME ReqInv, NEW r \in Requests, req[r].method # "none",
         NEW f \in ReqType, f.method = req[r].method, f.at = req[r].at, f.late = req[r].late,
         Stage(r) = "check" => ~req[r].late, Advance(r, f)
  PROVE  \E q : /\ Moves(r, q) /\ (Counting(q) <=> Stage(r) = "open")
                /\ Counting(q) => q.evicted = f.evicted
<1> DEFINE s == Script(f.method)
<1>1. /\ Shape(s) /\ Past(r) \in 0 .. 1 /\ ReqOK(req[r])
      /\ Past(r) # 0 => req[r].late /\ (Stage(r) \in Work \/ Stage(r) = "check")
  BY StageFacts
<1>2. f.at \in 1 .. Len(s) /\ Stage(r) = s[f.at] /\ Len(s) \in Nat
  BY <1>1 DEF ReqOK, Stage, Shape
<1>3. CASE f.at = Len(s)
  <2>1. Finish(r) /\ Stage(r) # "open"
    BY <1>1, <1>2, <1>3 DEF Advance, Shape
  <2> QED
    BY <2>1, Finishes
<1>4. CASE f.at # Len(s)
  <2> DEFINE q == [f EXCEPT !.at = f.at + 1, !.past = Past(r)]
  <2>1. req' = [req EXCEPT ![r] = q]
    BY <1>4 DEF Advance
  <2>2. f.at \in 1 .. Len(s) - 1 /\ f.at + 1 \in 1 .. Len(s)
    BY <1>2, <1>4
  <2>3. Follows(s[f.at], s[f.at + 1])
    BY <1>1, <2>2 DEF Shape
  <2>4. /\ q \in ReqType /\ q.method = f.method /\ q.at = f.at + 1 /\ q.late = f.late
        /\ q.past = Past(r) /\ q.evicted = f.evicted
    <3> DEFINE n == Past(r)
               k == f.at + 1
    <3>1. n \in Nat /\ k \in Nat
      BY <1>1, <1>2
    <3> HIDE DEF n, k
    <3>2. LET p == [f EXCEPT !.at = k, !.past = n]
          IN  /\ p \in ReqType /\ p.method = f.method /\ p.at = k /\ p.late = f.late
              /\ p.past = n /\ p.evicted = f.evicted
      BY ONLY f \in ReqType, <3>1 DEF ReqType
    <3> QED
      BY <3>2 DEF n, k
  <2> HIDE DEF q
  <2>5. q.past # 0 => q.late /\ s[q.at] = "check"
    BY <1>1, <1>2, <2>3, <2>4 DEF Follows
  <2>6. ReqOK(q)
    BY <1>1, <2>2, <2>4, <2>5 DEF ReqOK
  <2>7. Counting(q) <=> Stage(r) = "open"
    BY <1>2, <2>3, <2>4 DEF Counting, Follows
  <2> QED
    BY <2>1, <2>4, <2>6, <2>7 DEF Moves
<1> QED
  BY <1>3, <1>4
-----------------------------------------------------------------------------
(* The counters of daemon.metrics *)

\* The requests about to count an open, and the evictions they will count.
CountingOf(rq) == {r \in Requests : Counting(rq[r])}
Evictions(rq) == [r \in Requests |-> rq[r].evicted]
Uncounted(rq) == Total(CountingOf(rq), Evictions(rq))

MetricsType == [opened : Nat, closed : Nat, evicted : Nat, resets : Nat]

AddUp == metrics.resets = 0 /\ ~poisoned =>
           metrics.opened + Cardinality(CountingOf(req))
             = metrics.closed + metrics.evicted + Uncounted(req) + Cardinality(table.live)

LEMMA CountTypes ==
  ASSUME ReqInv
  PROVE  /\ IsFiniteSet(CountingOf(req)) /\ Cardinality(CountingOf(req)) \in Nat
         /\ Evictions(req) \in [Requests -> Nat] /\ Uncounted(req) \in Nat
<1>1. CountingOf(req) \in SUBSET Requests
  BY DEF CountingOf
<1>2. IsFiniteSet(CountingOf(req)) /\ Cardinality(CountingOf(req)) \in Nat
  BY <1>1, RequestsFinite, FS_Subset, FS_CardinalityType
<1>3. \A r \in Requests : req[r].evicted \in Nat
  BY DEF ReqInv, ReqType
<1>4. Evictions(req) \in [Requests -> Nat]
  BY <1>3 DEF Evictions
<1>5. \A r \in CountingOf(req) : Evictions(req)[r] \in Nat
  BY <1>1, <1>4
<1> QED
  BY <1>2, <1>4, <1>5, BytesFinite DEF Uncounted

\* A request that is not counting and will not be changes nothing of the sums.
LEMMA NotCounted ==
  ASSUME ReqInv, NEW r \in Requests, NEW q, req' = [req EXCEPT ![r] = q],
         Counting(q) <=> Counting(req[r]), Counting(q) => q.evicted = req[r].evicted
  PROVE  CountingOf(req') = CountingOf(req) /\ Uncounted(req') = Uncounted(req)
<1>1. req \in [Requests -> ReqType]
  BY DEF ReqInv
<1>2. req'[r] = q /\ \A x \in Requests \ {r} : req'[x] = req[x]
  BY <1>1
<1>3. CountingOf(req') = CountingOf(req)
  BY <1>2 DEF CountingOf
<1>4. \A x \in CountingOf(req) : Evictions(req')[x] = Evictions(req)[x]
  BY <1>2 DEF CountingOf, Evictions
<1> DEFINE C == CountingOf(req)
           v == Evictions(req')
           w == Evictions(req)
<1>5. Total(C, v) = Total(C, w)
  <2> HIDE DEF C, v, w
  <2>1. \A x \in C : v[x] = w[x]
    BY <1>4 DEF C, v, w
  <2> QED
    BY <2>1, TotalSame
<1> QED
  BY <1>3, <1>5 DEF Uncounted

\* A request that has opened a session will count it and its evictions.
LEMMA StartsCounting ==
  ASSUME ReqInv, NEW r \in Requests, NEW q, req' = [req EXCEPT ![r] = q],
         ~Counting(req[r]), Counting(q), q.evicted \in Nat
  PROVE  /\ Cardinality(CountingOf(req')) = Cardinality(CountingOf(req)) + 1
         /\ Uncounted(req') = Uncounted(req) + q.evicted
<1>1. req \in [Requests -> ReqType]
  BY DEF ReqInv
<1>2. req'[r] = q /\ \A x \in Requests \ {r} : req'[x] = req[x]
  BY <1>1
<1> DEFINE C == CountingOf(req)
           v == Evictions(req')
           w == Evictions(req)
<1>3. CountingOf(req') = C \cup {r} /\ r \notin C /\ C \in SUBSET Requests
  BY <1>2 DEF CountingOf
<1>4. v[r] = q.evicted /\ \A x \in C : v[x] = w[x] /\ v[x] \in Nat
  <2>1. \A x \in C : w[x] \in Nat
    BY <1>3, CountTypes
  <2> QED
    BY <1>2, <1>3, <2>1 DEF Evictions
<1>5. IsFiniteSet(C)
  BY CountTypes
<1>6. Uncounted(req') = Total(C \cup {r}, v) /\ Uncounted(req) = Total(C, w)
  BY <1>3 DEF Uncounted
<1> HIDE DEF C, v, w
<1>7. Total(C \cup {r}, v) = Total(C, v) + v[r]
  BY <1>3, <1>4, <1>5, TotalAdd
<1>8. Total(C, v) = Total(C, w)
  BY <1>4, TotalSame
<1>9. Cardinality(C \cup {r}) = Cardinality(C) + 1
  BY <1>3, <1>5, FS_AddElement
<1> QED
  BY <1>3, <1>4, <1>6, <1>7, <1>8, <1>9 DEF C

\* A request that has counted is no longer about to.
LEMMA HasCounted ==
  ASSUME ReqInv, NEW r \in Requests, NEW q, req' = [req EXCEPT ![r] = q],
         Counting(req[r]), ~Counting(q)
  PROVE  /\ Cardinality(CountingOf(req')) = Cardinality(CountingOf(req)) - 1
         /\ Uncounted(req') = Uncounted(req) - req[r].evicted
<1>1. req \in [Requests -> ReqType]
  BY DEF ReqInv
<1>2. req'[r] = q /\ \A x \in Requests \ {r} : req'[x] = req[x]
  BY <1>1
<1> DEFINE C == CountingOf(req)
           v == Evictions(req')
           w == Evictions(req)
<1>3. CountingOf(req') = C \ {r} /\ r \in C /\ C \in SUBSET Requests
  BY <1>2 DEF CountingOf
<1>4. w[r] = req[r].evicted /\ \A x \in C \ {r} : v[x] = w[x]
  BY <1>2, <1>3 DEF Evictions
<1>5. IsFiniteSet(C) /\ \A x \in C : w[x] \in Nat
  BY <1>3, CountTypes
<1>6. Uncounted(req') = Total(C \ {r}, v) /\ Uncounted(req) = Total(C, w)
  BY <1>3 DEF Uncounted
<1> HIDE DEF C, v, w
<1>7. Total(C \ {r}, w) = Total(C, w) - w[r]
  BY <1>3, <1>5, TotalRemove
<1>8. Total(C \ {r}, v) = Total(C \ {r}, w)
  BY <1>4, TotalSame
<1>9. Cardinality(C \ {r}) = Cardinality(C) - 1
  BY <1>3, <1>5, FS_RemoveElement
<1> QED
  BY <1>3, <1>4, <1>6, <1>7, <1>8, <1>9 DEF C
-----------------------------------------------------------------------------
(* The handlers' invariant *)

HInv == TableInv /\ ReqInv /\ metrics \in MetricsType /\ AddUp

\* The counters are those of before, and if they still count the table is too.
SameCounts == /\ metrics' \in MetricsType
              /\ metrics'.opened = metrics.opened /\ metrics'.closed = metrics.closed
              /\ metrics'.evicted = metrics.evicted
              /\ metrics'.resets = 0 /\ ~poisoned' => /\ metrics.resets = 0 /\ ~poisoned
                                                      /\ table'.live = table.live

\* A step of r that neither starts nor ends a count keeps the sums.
LEMMA QuietStep ==
  ASSUME HInv, NEW r \in Requests, NEW q, Moves(r, q), TableInv', SameCounts,
         Counting(q) <=> Counting(req[r]), Counting(q) => q.evicted = req[r].evicted
  PROVE  HInv'
<1>1. ReqInv'
  BY ReqStep DEF HInv
<1>2. CountingOf(req') = CountingOf(req) /\ Uncounted(req') = Uncounted(req)
  BY NotCounted DEF HInv, Moves
<1>3. AddUp'
  BY <1>2 DEF AddUp, SameCounts, HInv
<1> QED
  BY <1>1, <1>3 DEF HInv, SameCounts

\* A request's stage, from the guard of its step.
LEMMA AtFacts ==
  ASSUME HInv, NEW r \in Requests, NEW S, At(r, S)
  PROVE  /\ req[r].method # "none" /\ Stage(r) \in S /\ req[r] \in ReqType
         /\ Counting(req[r]) <=> Stage(r) = "count_open"
BY DEF HInv, ReqInv, At, Stage, Counting

\* A step of r that ends it, or takes it on from a stage outside the table.
LEMMA QuietMove ==
  ASSUME HInv, NEW r \in Requests, req[r].method # "none", TableInv', SameCounts,
         Stage(r) \notin {"open", "count_open"}, Stage(r) = "check" => ~req[r].late,
         Advance(r, req[r])
  PROVE  HInv'
<1>1. PICK q : Moves(r, q) /\ (Counting(q) <=> Stage(r) = "open")
  BY Advances DEF HInv, ReqInv
<1>2. ~Counting(q) /\ ~Counting(req[r])
  BY <1>1 DEF Counting, Stage
<1> QED
  BY <1>1, <1>2, QuietStep

LEMMA QuietEnd ==
  ASSUME HInv, NEW r \in Requests, req[r].method # "none", TableInv', SameCounts,
         Stage(r) # "count_open", Finish(r)
  PROVE  HInv'
<1>1. PICK q : Moves(r, q) /\ ~Counting(q)
  BY Finishes DEF HInv
<1>2. ~Counting(req[r])
  BY DEF Counting, Stage
<1> QED
  BY <1>1, <1>2, QuietStep

\* The steps that leave the table and the counters alone.
LEMMA OutsideTable ==
  ASSUME HInv, metrics' = metrics, UNCHANGED vars
  PROVE  TableInv' /\ SameCounts
BY DEF HInv, TableInv, vars, SameCounts

LEMMA TakeStep ==
  ASSUME HInv, NEW r \in Requests, NEW m \in Methods, Take(r, m)
  PROVE  HInv'
<1> DEFINE q == [Idle EXCEPT !.method = m, !.at = 1]
<1>1. /\ req[r].method = "none" /\ req' = [req EXCEPT ![r] = q]
      /\ metrics' = metrics /\ UNCHANGED vars
  BY DEF Take, NoTable
<1>2. q \in ReqType /\ q.method = m /\ q.at = 1 /\ q.past = 0
  BY DEF Idle, ReqType
<1> HIDE DEF q
<1>3. Shape(Script(m))
  BY ScriptShape
<1>4. ReqOK(q) /\ ~Counting(q)
  BY <1>2, <1>3 DEF ReqOK, Counting, Shape
<1>5. ~Counting(req[r])
  BY <1>1 DEF Counting
<1> QED
  BY <1>1, <1>4, <1>5, QuietStep, OutsideTable DEF Moves

LEMMA DeadlineStep ==
  ASSUME HInv, NEW r \in Requests, DeadlinePasses(r)
  PROVE  HInv'
<1> DEFINE q == [req[r] EXCEPT !.late = TRUE]
<1>1. /\ req[r].method # "none" /\ ~req[r].late /\ metrics' = metrics /\ UNCHANGED vars
      /\ req[r] \in ReqType /\ ReqOK(req[r]) /\ req \in [Requests -> ReqType]
  BY DEF DeadlinePasses, NoTable, HInv, ReqInv
<1>2. req' = [req EXCEPT ![r] = q]
  BY <1>1 DEF DeadlinePasses
<1>3. /\ q \in ReqType /\ q.method = req[r].method /\ q.at = req[r].at /\ q.past = req[r].past
      /\ q.evicted = req[r].evicted /\ q.late = TRUE
  BY <1>1 DEF ReqType
<1> HIDE DEF q
<1>4. ReqOK(q) /\ (Counting(q) <=> Counting(req[r]))
  BY <1>1, <1>3 DEF ReqOK, Counting
<1> QED
  BY <1>1, <1>2, <1>3, <1>4, QuietStep, OutsideTable DEF Moves

LEMMA CheckStep ==
  ASSUME HInv, NEW r \in Requests, check(r)
  PROVE  HInv'
<1>1. /\ At(r, {"check"}) /\ metrics' = metrics /\ UNCHANGED vars
      /\ IF req[r].late THEN Finish(r) ELSE Advance(r, req[r])
  BY DEF check, NoTable
<1>2. req[r].method # "none" /\ Stage(r) = "check" /\ TableInv' /\ SameCounts
  BY <1>1, AtFacts, OutsideTable
<1>3. CASE req[r].late
  BY <1>1, <1>2, <1>3, QuietEnd
<1>4. CASE ~req[r].late
  BY <1>1, <1>2, <1>4, QuietMove
<1> QED
  BY <1>3, <1>4

LEMMA WorkSteps ==
  ASSUME HInv, NEW r \in Requests, DoWork(r) \/ stop(r)
  PROVE  HInv'
<1>1. /\ At(r, Work \cup {"stop"}) /\ metrics' = metrics /\ UNCHANGED vars
      /\ Advance(r, req[r]) \/ Finish(r)
  BY DEF DoWork, stop, NoTable, At
<1>2. req[r].method # "none" /\ Stage(r) \notin {"check", "open", "count_open"} /\ TableInv' /\ SameCounts
  BY <1>1, AtFacts, OutsideTable DEF Work
<1> QED
  BY <1>1, <1>2, QuietEnd, QuietMove

\* A call that takes the table counts the reset of a poisoned one.
LEMMA ResetCounted ==
  ASSUME HInv, metrics' = [metrics EXCEPT !.resets = Resets],
         ~poisoned' => table'.live = Locked.live
  PROVE  SameCounts
<1>1. metrics \in MetricsType /\ poisoned \in BOOLEAN
  BY DEF HInv, TableInv
<1>2. CASE poisoned
  <2>1. metrics' = [metrics EXCEPT !.resets = metrics.resets + 1]
    BY <1>2 DEF Resets
  <2> QED
    BY <1>1, <2>1 DEF MetricsType, SameCounts
<1>3. CASE ~poisoned
  <2>1. metrics' = [metrics EXCEPT !.resets = metrics.resets + 0] /\ Locked = table
    BY <1>3 DEF Resets, Locked
  <2> QED
    BY <1>1, <1>3, <2>1 DEF MetricsType, SameCounts
<1> QED
  BY <1>2, <1>3

LEMMA LookingSteps ==
  ASSUME HInv, NEW r \in Requests, health(r) \/ \E i \in Ids : snapshot(r, i)
  PROVE  HInv'
<1>1. /\ At(r, {"look", "snapshot"}) /\ metrics' = [metrics EXCEPT !.resets = Resets]
      /\ Advance(r, req[r])
      /\ Look \/ \E i \in Ids : Snapshot(i)
  <2>1. CASE health(r)
    BY <2>1 DEF health, CountReset, At
  <2>2. CASE \E i \in Ids : snapshot(r, i)
    BY <2>2 DEF snapshot, CountReset, At
  <2> QED
    BY <2>1, <2>2
<1>2. TableInv' /\ table'.live = Locked.live
  BY <1>1, LookStep, SnapshotStep DEF HInv
<1>3. SameCounts
  BY <1>1, <1>2, ResetCounted
<1>4. req[r].method # "none" /\ Stage(r) \notin {"check", "open", "count_open"}
  BY <1>1, AtFacts
<1> QED
  BY <1>1, <1>2, <1>3, <1>4, QuietMove

LEMMA CloseSessionStep ==
  ASSUME HInv, NEW r \in Requests, NEW i \in Ids, close_session(r, i)
  PROVE  HInv'
<1> DEFINE e == IF i \in Locked.live THEN 1 ELSE 0
<1>1. /\ At(r, {"close"}) /\ Close(i) /\ Advance(r, req[r])
      /\ metrics' = [metrics EXCEPT !.resets = Resets, !.closed = metrics.closed + e]
  BY DEF close_session
<1>2. /\ TableInv' /\ Cardinality(Locked.live) \in Nat /\ Cardinality(table'.live) \in Nat
      /\ Cardinality(Locked.live) = Cardinality(table'.live) + e
  BY <1>1, CloseStep DEF HInv
<1>3. req[r].method # "none" /\ Stage(r) = "close" /\ req[r] \in ReqType /\ ~Counting(req[r])
  BY <1>1, AtFacts
<1>4. PICK q : Moves(r, q) /\ (Counting(q) <=> Stage(r) = "open")
  BY <1>1, <1>3, Advances DEF HInv
<1>5. ReqInv' /\ CountingOf(req') = CountingOf(req) /\ Uncounted(req') = Uncounted(req)
  BY <1>3, <1>4, ReqStep, NotCounted DEF HInv, Moves
<1>6. e \in Nat
  OBVIOUS
<1> HIDE DEF e
<1>7. /\ metrics \in MetricsType /\ poisoned \in BOOLEAN /\ metrics' \in MetricsType
      /\ metrics'.closed = metrics.closed + e /\ metrics'.opened = metrics.opened
      /\ metrics'.evicted = metrics.evicted /\ metrics'.resets = Resets
  <2>1. metrics \in MetricsType /\ poisoned \in BOOLEAN
    BY DEF HInv, TableInv
  <2>2. Resets \in Nat
    BY <2>1 DEF MetricsType, Resets
  <2> DEFINE n == Resets
             c == metrics.closed + e
  <2>3. n \in Nat /\ c \in Nat /\ metrics' = [metrics EXCEPT !.resets = n, !.closed = c]
    BY <1>1, <1>6, <2>1, <2>2 DEF MetricsType
  <2> HIDE DEF n, c
  <2>4. /\ metrics' \in MetricsType /\ metrics'.closed = c /\ metrics'.resets = n
        /\ metrics'.opened = metrics.opened /\ metrics'.evicted = metrics.evicted
    BY <2>1, <2>3 DEF MetricsType
  <2> QED
    BY <2>1, <2>4 DEF n, c
<1>8. metrics'.resets = 0 => metrics.resets = 0 /\ ~poisoned
  BY <1>7 DEF Resets, MetricsType
<1>9. AddUp'
  <2> SUFFICES ASSUME metrics'.resets = 0, ~poisoned'
               PROVE  metrics'.opened + Cardinality(CountingOf(req'))
                        = metrics'.closed + metrics'.evicted + Uncounted(req') + Cardinality(table'.live)
    BY DEF AddUp
  <2>1. /\ metrics.opened + Cardinality(CountingOf(req))
             = metrics.closed + metrics.evicted + Uncounted(req) + Cardinality(table.live)
        /\ Locked = table
    BY <1>8 DEF HInv, AddUp, Locked
  <2>2. Cardinality(CountingOf(req)) \in Nat /\ Uncounted(req) \in Nat
    BY CountTypes DEF HInv
  <2>3. metrics.opened \in Nat /\ metrics.closed \in Nat /\ metrics.evicted \in Nat
    BY <1>7 DEF MetricsType
  <2> QED
    BY <1>2, <1>5, <1>6, <1>7, <2>1, <2>2, <2>3
<1> QED
  BY <1>2, <1>5, <1>7, <1>9 DEF HInv

\* session.open: what the table gains is what will be counted as opened and evicted.
LEMMA OpenSessionStep ==
  ASSUME HInv, NEW r \in Requests, NEW w \in Sizes, open_session(r, w)
  PROVE  HInv'
<1> DEFINE e == Cardinality(Locked.live) + 1 - Cardinality(table'.live)
           f == [req[r] EXCEPT !.evicted = e]
<1>1. /\ At(r, {"open"}) /\ metrics' = [metrics EXCEPT !.resets = Resets]
      /\ \/ Open(w) /\ Advance(r, f)
         \/ Look /\ Finish(r)
         \/ OpenPanics(w) /\ Finish(r)
  BY DEF open_session, CountReset
<1>2. req[r].method # "none" /\ Stage(r) = "open" /\ req[r] \in ReqType /\ ~Counting(req[r])
  BY <1>1, AtFacts
<1>3. CASE Look /\ Finish(r)
  <2>1. TableInv' /\ table'.live = Locked.live
    BY <1>3, LookStep DEF HInv
  <2>2. SameCounts
    BY <1>1, <2>1, ResetCounted
  <2> QED
    BY <1>2, <1>3, <2>1, <2>2, QuietEnd
<1>4. CASE OpenPanics(w) /\ Finish(r)
  <2>1. TableInv' /\ poisoned'
    BY <1>4, OpenPanicsStep DEF HInv
  <2>2. SameCounts
    BY <1>1, <2>1, ResetCounted
  <2> QED
    BY <1>2, <1>4, <2>1, <2>2, QuietEnd
<1>5. CASE Open(w) /\ Advance(r, f)
  <2>1. /\ TableInv' /\ ~poisoned' /\ Cardinality(Locked.live) \in Nat /\ Cardinality(table'.live) \in Nat
        /\ Cardinality(table'.live) <= Cardinality(Locked.live) + 1
    BY <1>5, OpenStep DEF HInv
  <2>2. e \in Nat
    BY <2>1
  <2>3. Advance(r, f)
    BY <1>5
  <2>4. /\ f \in ReqType /\ f.method = req[r].method /\ f.at = req[r].at /\ f.late = req[r].late
        /\ f.evicted = e
    <3> HIDE DEF e
    <3> QED
      BY <1>2, <2>2 DEF ReqType
  <2>5. e = Cardinality(Locked.live) + 1 - Cardinality(table'.live)
    OBVIOUS
  <2> HIDE DEF f, e
  <2>6. PICK q : /\ Moves(r, q) /\ (Counting(q) <=> Stage(r) = "open")
                 /\ Counting(q) => q.evicted = f.evicted
    BY <1>2, <2>3, <2>4, Advances DEF HInv
  <2>7. Counting(q) /\ q.evicted = e
    BY <1>2, <2>4, <2>6
  <2>8. ReqInv' /\ Cardinality(CountingOf(req')) = Cardinality(CountingOf(req)) + 1
        /\ Uncounted(req') = Uncounted(req) + e
    BY <1>2, <2>2, <2>6, <2>7, ReqStep, StartsCounting DEF HInv, Moves
  <2>9. /\ metrics \in MetricsType /\ poisoned \in BOOLEAN /\ metrics' \in MetricsType
        /\ metrics'.closed = metrics.closed /\ metrics'.opened = metrics.opened
        /\ metrics'.evicted = metrics.evicted /\ metrics'.resets = Resets
    <3>1. metrics \in MetricsType /\ poisoned \in BOOLEAN
      BY DEF HInv, TableInv
    <3>2. Resets \in Nat
      BY <3>1 DEF MetricsType, Resets
    <3> DEFINE n == Resets
    <3>3. n \in Nat /\ metrics' = [metrics EXCEPT !.resets = n]
      BY <1>1, <3>2
    <3> HIDE DEF n
    <3>4. /\ metrics' \in MetricsType /\ metrics'.resets = n /\ metrics'.closed = metrics.closed
          /\ metrics'.opened = metrics.opened /\ metrics'.evicted = metrics.evicted
      BY <3>1, <3>3 DEF MetricsType
    <3> QED
      BY <3>1, <3>4 DEF n
  <2>10. metrics'.resets = 0 => metrics.resets = 0 /\ ~poisoned
    BY <2>9 DEF Resets, MetricsType
  <2>11. AddUp'
    <3> SUFFICES ASSUME metrics'.resets = 0, ~poisoned'
                 PROVE  metrics'.opened + Cardinality(CountingOf(req'))
                          = metrics'.closed + metrics'.evicted + Uncounted(req') + Cardinality(table'.live)
      BY DEF AddUp
    <3>1. /\ metrics.opened + Cardinality(CountingOf(req))
               = metrics.closed + metrics.evicted + Uncounted(req) + Cardinality(table.live)
          /\ Locked = table
      BY <2>10 DEF HInv, AddUp, Locked
    <3>2. Cardinality(CountingOf(req)) \in Nat /\ Uncounted(req) \in Nat
      BY CountTypes DEF HInv
    <3>3. metrics.opened \in Nat /\ metrics.closed \in Nat /\ metrics.evicted \in Nat
      BY <2>9 DEF MetricsType
    <3>4. /\ Cardinality(table.live) \in Nat /\ Cardinality(table'.live) \in Nat
          /\ e = Cardinality(table.live) + 1 - Cardinality(table'.live)
      BY <2>1, <2>5, <3>1
    <3>5. /\ metrics'.opened = metrics.opened /\ metrics'.closed = metrics.closed
          /\ metrics'.evicted = metrics.evicted
      BY <2>9
    <3> QED
      BY ONLY <2>2, <2>8, <3>1, <3>2, <3>3, <3>4, <3>5
  <2> QED
    BY <2>1, <2>8, <2>9, <2>11 DEF HInv
<1> QED
  BY <1>1, <1>3, <1>4, <1>5

LEMMA CountOpenStep ==
  ASSUME HInv, NEW r \in Requests, count_open(r)
  PROVE  HInv'
<1>1. /\ At(r, {"count_open"}) /\ Advance(r, req[r]) /\ UNCHANGED vars
      /\ metrics' = [metrics EXCEPT !.opened = metrics.opened + 1,
                                    !.evicted = metrics.evicted + req[r].evicted]
  BY DEF count_open, NoTable
<1>2. req[r].method # "none" /\ Stage(r) = "count_open" /\ req[r] \in ReqType /\ Counting(req[r])
  BY <1>1, AtFacts
<1>3. PICK q : Moves(r, q) /\ (Counting(q) <=> Stage(r) = "open")
  BY <1>1, <1>2, Advances DEF HInv
<1>4. /\ ReqInv' /\ Cardinality(CountingOf(req')) = Cardinality(CountingOf(req)) - 1
      /\ Uncounted(req') = Uncounted(req) - req[r].evicted
  BY <1>2, <1>3, ReqStep, HasCounted DEF HInv, Moves
<1>5. TableInv' /\ table' = table /\ poisoned' = poisoned
  BY <1>1 DEF HInv, TableInv, vars
<1>6. /\ metrics \in MetricsType /\ metrics' \in MetricsType /\ req[r].evicted \in Nat
      /\ metrics'.opened = metrics.opened + 1 /\ metrics'.evicted = metrics.evicted + req[r].evicted
      /\ metrics'.closed = metrics.closed /\ metrics'.resets = metrics.resets
  <2>1. metrics \in MetricsType /\ req[r].evicted \in Nat
    BY <1>2 DEF HInv, ReqType
  <2> DEFINE e == metrics.evicted + req[r].evicted
             o == metrics.opened + 1
  <2>2. e \in Nat /\ o \in Nat
    BY <2>1 DEF MetricsType
  <2>3. metrics' = [metrics EXCEPT !.opened = o, !.evicted = e]
    BY <1>1
  <2> HIDE DEF e, o
  <2>4. /\ metrics' \in MetricsType /\ metrics'.opened = o /\ metrics'.evicted = e
        /\ metrics'.closed = metrics.closed /\ metrics'.resets = metrics.resets
    BY <2>1, <2>2, <2>3 DEF MetricsType
  <2> QED
    BY <2>1, <2>4 DEF e, o
<1>7. AddUp'
  <2> SUFFICES ASSUME metrics'.resets = 0, ~poisoned'
               PROVE  metrics'.opened + Cardinality(CountingOf(req'))
                        = metrics'.closed + metrics'.evicted + Uncounted(req') + Cardinality(table'.live)
    BY DEF AddUp
  <2>1. metrics.opened + Cardinality(CountingOf(req))
          = metrics.closed + metrics.evicted + Uncounted(req) + Cardinality(table.live)
    BY <1>5, <1>6 DEF HInv, AddUp
  <2>2. Cardinality(CountingOf(req)) \in Nat /\ Uncounted(req) \in Nat
    BY CountTypes DEF HInv
  <2>3. metrics.opened \in Nat /\ metrics.closed \in Nat /\ metrics.evicted \in Nat
    BY <1>6 DEF MetricsType
  <2>4. Cardinality(table.live) \in Nat
    BY IdsFinite, FS_CardinalityType DEF HInv, TableInv, Tables
  <2> QED
    BY <1>4, <1>5, <1>6, <2>1, <2>2, <2>3, <2>4
<1> QED
  BY <1>4, <1>5, <1>6, <1>7 DEF HInv

LEMMA HandlersInit == Init /\ HInit => HInv
<1> SUFFICES ASSUME Init, HInit PROVE HInv
  OBVIOUS
<1>1. TableInv /\ Cardinality(table.live) = 0
  BY TableInit, FS_EmptySet DEF Init, Empty
<1>2. ReqInv
  BY DEF HInit, Idle, ReqInv, ReqType, ReqOK
<1>3. CountingOf(req) = {}
  BY DEF CountingOf, Counting, HInit, Idle
<1>4. Cardinality(CountingOf(req)) = 0 /\ Uncounted(req) = 0
  BY <1>3, FS_EmptySet, TotalEmpty DEF Uncounted
<1>5. metrics \in MetricsType /\ metrics.opened = 0 /\ metrics.closed = 0 /\ metrics.evicted = 0
  BY DEF HInit, MetricsType
<1> QED
  BY <1>1, <1>2, <1>4, <1>5 DEF HInv, AddUp

LEMMA HandlersStep == HInv /\ [HNext]_<<vars, handlerVars>> => HInv'
<1> SUFFICES ASSUME HInv, [HNext]_<<vars, handlerVars>> PROVE HInv'
  OBVIOUS
<1>1. ASSUME NEW r \in Requests,
             \/ \E m \in Methods : Take(r, m)
             \/ DeadlinePasses(r) \/ check(r) \/ DoWork(r) \/ stop(r) \/ health(r)
             \/ \E i \in Ids : snapshot(r, i) \/ close_session(r, i)
             \/ \E w \in Sizes : open_session(r, w)
             \/ count_open(r)
      PROVE  HInv'
  <2>1. CASE \E m \in Methods : Take(r, m)
    BY <2>1, TakeStep
  <2>2. CASE DeadlinePasses(r) \/ check(r)
    BY <2>2, DeadlineStep, CheckStep
  <2>3. CASE DoWork(r) \/ stop(r)
    BY <2>3, WorkSteps
  <2>4. CASE health(r) \/ \E i \in Ids : snapshot(r, i)
    BY <2>4, LookingSteps
  <2>5. CASE \E i \in Ids : close_session(r, i)
    BY <2>5, CloseSessionStep
  <2>6. CASE \E w \in Sizes : open_session(r, w)
    BY <2>6, OpenSessionStep
  <2>7. CASE count_open(r)
    BY <2>7, CountOpenStep
  <2> QED
    BY <1>1, <2>1, <2>2, <2>3, <2>4, <2>5, <2>6, <2>7
<1>2. CASE UNCHANGED <<vars, handlerVars>>
  BY <1>2 DEF vars, handlerVars, HInv, TableInv, ReqInv, AddUp
<1> QED
  BY <1>1, <1>2 DEF HNext

LEMMA HandlersAlways == HSpec => []HInv
<1> QED
  BY HandlersInit, HandlersStep, PTL DEF HSpec

\* A request overruns its client's deadline by one stage of work at most (deadline.rs), whatever
\* the number of requests and however they interleave.
THEOREM OverrunsAlwaysBounded == HSpec => []OverrunsOneStage
<1>1. HInv => OverrunsOneStage
  BY DEF HInv, ReqInv, ReqOK, OverrunsOneStage
<1> QED
  BY <1>1, HandlersAlways, PTL

\* What the daemon keeps of its sessions always agrees: bytes, ticks, ids and the counters of
\* daemon.metrics, for any limits and any number of requests.
THEOREM SessionsAlwaysAddUp == HSpec => []SessionsAddUp
<1>1. HInv => SessionsAddUp
  <2> SUFFICES ASSUME HInv PROVE SessionsAddUp
    OBVIOUS
  <2>1. TypeOK /\ RetainedExact /\ TicksOrdered /\ NoIdReused
    BY TableFacts DEF HInv
  <2>2. CountersAddUp
    <3>1. {r \in Requests : At(r, {"count_open"})} = CountingOf(req)
      BY DEF At, Stage, CountingOf, Counting
    <3>2. [r \in Requests |-> req[r].evicted] = Evictions(req)
      BY DEF Evictions
    <3> QED
      BY <3>1, <3>2 DEF CountersAddUp, HInv, AddUp, Uncounted
  <2> QED
    BY <2>1, <2>2 DEF SessionsAddUp
<1> QED
  BY <1>1, HandlersAlways, PTL
-----------------------------------------------------------------------------
(* The table keeps the contract *)

\* The entries used before each one.
OlderOf(t) == [i \in Ids |-> IF i \in t.live THEN Before(t, i) ELSE {}]

LEMMA OlderIs == Older = OlderOf(Locked) /\ Older' = OlderOf(Locked')
BY DEF Older, OlderOf

LEMMA ContractCounts ==
  /\ \A S : Contract!Cardinality(S) = Cardinality(S)
  /\ \A S, w : Contract!Total(S, w) = Total(S, w)
BY DEF Total, Bytes, Cardinality, IsFiniteSet, Contract!Total, Contract!Bytes,
       Contract!Cardinality, Contract!IsFiniteSet

\* Entries that keep their order keep who is older.
LEMMA OlderSame ==
  ASSUME NEW t, NEW r, r.live = t.live,
         \A x, y \in t.live : r.last_tick[x] < r.last_tick[y] <=> t.last_tick[x] < t.last_tick[y]
  PROVE  OlderOf(r) = OlderOf(t)
BY DEF OlderOf, Before

\* Entries that are removed are older than none.
LEMMA OlderRemoved ==
  ASSUME NEW t, TableOK(t), NEW S \in SUBSET t.live, NEW r, IsWithout(r, t, S)
  PROVE  OlderOf(r) = [j \in Ids |-> IF j \in S THEN {} ELSE OlderOf(t)[j] \ S]
<1>1. t.live \in SUBSET Ids /\ r.live = t.live \ S
  BY DEF TableOK, Tables, IsWithout
<1>2. \A x \in t.live \ S : r.last_tick[x] = t.last_tick[x]
  BY <1>1 DEF IsWithout
<1>3. ASSUME NEW j \in Ids
      PROVE  OlderOf(r)[j] = IF j \in S THEN {} ELSE OlderOf(t)[j] \ S
  BY <1>1, <1>2 DEF OlderOf, Before
<1> QED
  BY <1>3 DEF OlderOf

\* The entry used last is older than none, and all others are older than it.
LEMMA OlderNewest ==
  ASSUME NEW t, NEW r, NEW i \in Ids, t.live \in SUBSET Ids, r.live = t.live \cup {i},
         \A x \in t.live \cup {i} : r.last_tick[x] \in Nat,
         \A x \in t.live \ {i} : r.last_tick[x] < r.last_tick[i],
         \A x, y \in t.live \ {i} : r.last_tick[x] < r.last_tick[y] <=> t.last_tick[x] < t.last_tick[y]
  PROVE  OlderOf(r) = [j \in Ids |-> IF j = i THEN t.live \ {i}
                                     ELSE IF j \in t.live THEN OlderOf(t)[j] \ {i} ELSE {}]
<1>1. OlderOf(r)[i] = t.live \ {i}
  BY DEF OlderOf, Before
<1>2. ASSUME NEW j \in t.live \ {i}
      PROVE  OlderOf(r)[j] = OlderOf(t)[j] \ {i}
  <2>1. ~(r.last_tick[i] < r.last_tick[j])
    BY <1>2
  <2> QED
    BY <1>2, <2>1 DEF OlderOf, Before
<1>3. ASSUME NEW j \in Ids, j \notin t.live, j # i
      PROVE  OlderOf(r)[j] = {}
  BY <1>3 DEF OlderOf
<1> QED
  BY <1>1, <1>2, <1>3 DEF OlderOf

\* A set of entries that holds what is older than its members is what some number of
\* evictions removes.
LEMMA OldestAreLru ==
  ASSUME NEW t, TableOK(t), NEW S \in SUBSET t.live, \A x \in S : Before(t, x) \subseteq S
  PROVE  Cardinality(S) \in Nat /\ S = Lru(t, Cardinality(S))
<1>1. /\ IsFiniteSet(t.live) /\ IsFiniteSet(S) /\ Cardinality(S) \in Nat
      /\ t.live \in SUBSET Ids /\ t.last_tick \in [Ids -> 0 .. MaxTick]
  BY IdsFinite, FS_Subset, FS_CardinalityType DEF TableOK, Tables
<1>2. ASSUME NEW x \in S PROVE x \in Lru(t, Cardinality(S))
  <2>1. Before(t, x) \in SUBSET S /\ Before(t, x) # S
    BY <1>1, <1>2 DEF Before
  <2>2. Cardinality(Before(t, x)) < Cardinality(S)
    BY <1>1, <2>1, Parts
  <2> QED
    BY <1>2, <2>2 DEF Lru
<1>3. ASSUME NEW x \in Lru(t, Cardinality(S)), x \notin S PROVE FALSE
  <2>1. x \in t.live /\ Cardinality(Before(t, x)) < Cardinality(S)
    BY <1>3 DEF Lru
  <2>2. ASSUME NEW y \in S PROVE y \in Before(t, x)
    <3>1. t.last_tick[y] # t.last_tick[x]
      BY <1>3, <2>1, <2>2 DEF TableOK, OwnTicks
    <3>2. ~(t.last_tick[x] < t.last_tick[y])
      BY <1>3, <2>1, <2>2 DEF Before
    <3> QED
      BY <1>1, <2>1, <2>2, <3>1, <3>2 DEF Before
  <2>3. IsFiniteSet(Before(t, x)) /\ S \in SUBSET Before(t, x)
    BY <1>1, <2>2, FS_Subset DEF Before
  <2>4. Cardinality(S) <= Cardinality(Before(t, x)) /\ Cardinality(Before(t, x)) \in Nat
    BY <2>3, Parts
  <2> QED
    BY <1>1, <2>1, <2>4
<1> QED
  BY <1>1, <1>2, <1>3

\* The entries removed by k evictions are the oldest.
LEMMA LruIsOldest ==
  ASSUME NEW t, TableOK(t), NEW k \in Nat, NEW x \in Lru(t, k)
  PROVE  Before(t, x) \subseteq Lru(t, k)
<1>1. x \in t.live /\ Cardinality(Before(t, x)) < k
  BY DEF Lru
<1> SUFFICES ASSUME NEW y \in Before(t, x) PROVE y \in Lru(t, k)
  OBVIOUS
<1>2. y \in t.live /\ t.last_tick[y] < t.last_tick[x]
  BY DEF Before
<1>3. /\ Cardinality(Before(t, y)) < Cardinality(Before(t, x))
      /\ Cardinality(Before(t, y)) \in Nat /\ Cardinality(Before(t, x)) \in Nat
  BY <1>1, <1>2, BeforeFacts
<1> QED
  BY <1>1, <1>2, <1>3 DEF Lru

\* session.open drops the least recently used sessions, and no more than it must.
LEMMA OpenRefines ==
  ASSUME TableInv, NEW w \in Sizes, Open(w)
  PROVE  Contract!Next
<1> DEFINE t == Locked
           room == MakeRoom(t, w)
           i == NewId(room)
           ready == NextTick(DrawId(room))
           r == Insert(ready, i, w)
<1>1. TableOK(t) /\ w \in Nat /\ w <= MaxRetained
  BY LockedOK DEF Open
<1>2. Locked' = r
  BY DEF Open, Locked
<1>3. Older = OlderOf(t) /\ Older' = OlderOf(r)
  BY <1>2, OlderIs
<1> HIDE DEF t
<1>4. Opened(t, room, i, ready, r, w)
  BY <1>1, OpenedOK
<1>5. PICK k \in 0 .. Cardinality(t.live) :
        /\ room = Removed(t, Lru(t, k)) /\ ~Over(room, w)
        /\ \A m \in 0 .. k - 1 : Over(Removed(t, Lru(t, m)), w)
  BY <1>1, MakeRoomOK
<1> DEFINE gone == Lru(t, k)
           kept == t.live \ gone
<1>6. /\ gone \in SUBSET t.live /\ k \in Nat /\ t.live \in SUBSET Ids /\ IsFiniteSet(t.live)
      /\ t.bytes \in [Ids -> Nat]
  <2>1. Cardinality(t.live) \in Nat /\ gone \in SUBSET t.live
    BY <1>1, LruFacts
  <2> QED
    BY <1>1, <1>5, <2>1, IdsFinite DEF TableOK, Tables
<1>7. TableOK(room) /\ IsWithout(room, t, gone)
  BY <1>1, <1>5, <1>6, RemovedOK
<1> HIDE DEF i, room, ready, r
<1>8. Contract!Oldest(gone)
  <2>1. \A x \in gone : Before(t, x) \subseteq gone
    BY <1>1, <1>6, LruIsOldest
  <2>2. \A x \in gone : Older[x] = Before(t, x)
    BY <1>3, <1>6 DEF OlderOf
  <2> QED
    BY <2>1, <2>2 DEF Contract!Oldest
<1>9. ASSUME NEW S \in SUBSET gone, Contract!Oldest(S), Contract!HasRoom(t.live \ S, w)
      PROVE  S = gone
  <2>1. \A x \in S : Before(t, x) \subseteq S
    BY <1>3, <1>6, <1>9 DEF Contract!Oldest, OlderOf
  <2> DEFINE m == Cardinality(S)
  <2>2. m \in Nat /\ S = Lru(t, m) /\ S \in SUBSET t.live
    BY <1>1, <1>6, <2>1, OldestAreLru
  <2>3. ~(m \in 0 .. k - 1)
    <3> SUFFICES ASSUME m \in 0 .. k - 1 PROVE FALSE
      OBVIOUS
    <3>1. Over(Removed(t, S), w)
      BY <1>5, <2>2
    <3>2. Removed(t, S).live = t.live \ S /\ Removed(t, S).retained_bytes = Total(t.live \ S, t.bytes)
      BY <1>1, <2>2, RemovedOK DEF IsWithout
    <3>3. Cardinality(t.live \ S) < MaxSessions /\ Total(t.live \ S, t.bytes) + w <= MaxRetained
      BY <1>9, ContractCounts DEF Contract!HasRoom, t
    <3>4. Cardinality(t.live \ S) \in Nat /\ Total(t.live \ S, t.bytes) \in Nat
      <4>1. IsFiniteSet(t.live \ S) /\ \A x \in t.live \ S : t.bytes[x] \in Nat
        BY <1>6, FS_Subset
      <4> QED
        BY <4>1, FS_CardinalityType, BytesFinite
    <3> QED
      BY <1>1, <3>1, <3>2, <3>3, <3>4 DEF Over
  <2> HIDE DEF m
  <2>4. Lru(t, k) \subseteq Lru(t, m)
    <3> SUFFICES ASSUME NEW x \in Lru(t, k) PROVE x \in Lru(t, m)
      OBVIOUS
    <3>1. x \in t.live /\ Cardinality(Before(t, x)) < k /\ Cardinality(Before(t, x)) \in Nat
      BY <1>1, BeforeFacts DEF Lru
    <3> QED
      BY <1>6, <2>2, <2>3, <3>1 DEF Lru
  <2> QED
    BY <2>2, <2>4
<1>10. Contract!HasRoom(kept, w)
  <2>1. room.live = kept /\ room.retained_bytes = Total(kept, t.bytes)
    BY <1>7 DEF IsWithout
  <2>2. Cardinality(kept) \in Nat /\ Total(kept, t.bytes) \in Nat
    <3>1. IsFiniteSet(kept) /\ \A x \in kept : t.bytes[x] \in Nat
      BY <1>6, FS_Subset
    <3> QED
      BY <3>1, FS_CardinalityType, BytesFinite
  <2>3. Cardinality(kept) < MaxSessions /\ Total(kept, t.bytes) + w <= MaxRetained
    BY <1>1, <1>5, <2>1, <2>2 DEF Over
  <2> QED
    BY <2>3, ContractCounts DEF Contract!HasRoom, t
<1> HIDE DEF gone
<1>11. /\ i \in Ids /\ i \notin kept /\ r.live = kept \cup {i}
       /\ r.bytes = [[j \in Ids |-> IF j \in gone THEN 0 ELSE t.bytes[j]] EXCEPT ![i] = w]
  BY <1>4, <1>7 DEF Opened, IsWithout
<1>12. OlderOf(r) = [j \in Ids |-> CASE j = i -> kept
                                     [] j \in kept -> OlderOf(t)[j] \ gone
                                     [] OTHER -> {}]
  <2>1. room.live = kept /\ OlderOf(room) = [j \in Ids |-> IF j \in gone THEN {} ELSE OlderOf(t)[j] \ gone]
    <3>1. OlderOf(room) = [j \in Ids |-> IF j \in gone THEN {} ELSE OlderOf(t)[j] \ gone]
      BY ONLY <1>1, <1>6, <1>7, OlderRemoved
    <3>2. room.live = kept
      BY <1>7 DEF IsWithout
    <3> QED
      BY <3>1, <3>2
  <2>2. /\ room.live \in SUBSET Ids /\ i \in Ids /\ i \notin room.live /\ r.live = room.live \cup {i}
        /\ \A x \in room.live \cup {i} : r.last_tick[x] \in Nat
        /\ \A x \in room.live \ {i} : r.last_tick[x] < r.last_tick[i]
        /\ \A x, y \in room.live \ {i} :
             r.last_tick[x] < r.last_tick[y] <=> room.last_tick[x] < room.last_tick[y]
    BY <1>4 DEF Opened, TableOK, Tables
  <2>3. OlderOf(r) = [j \in Ids |-> IF j = i THEN room.live \ {i}
                                    ELSE IF j \in room.live THEN OlderOf(room)[j] \ {i} ELSE {}]
    BY ONLY <2>2, OlderNewest
  <2>4. ASSUME NEW j \in kept PROVE OlderOf(room)[j] \ {i} = OlderOf(t)[j] \ gone
    <3>1. j \in Ids /\ j \notin gone
      BY <1>6
    <3>2. OlderOf(room)[j] = OlderOf(t)[j] \ gone
      BY <2>1, <3>1
    <3>3. i \notin OlderOf(room)[j]
      BY <2>1, <2>2, <3>1 DEF OlderOf, Before
    <3> QED
      BY <3>2, <3>3
  <2>5. kept \ {i} = kept
    BY <1>11
  <2> HIDE DEF kept
  <2> QED
    BY <2>1, <2>3, <2>4, <2>5
<1>13. Contract!Open(i, w)
  <2>1. /\ Locked'.live = kept \cup {i}
        /\ Locked'.bytes = [Contract!Without(Locked.bytes, gone, 0) EXCEPT ![i] = w]
    BY <1>2, <1>11 DEF Contract!Without, t
  <2>2. Older' = [j \in Ids |-> CASE j = i -> kept
                                 [] j \in kept -> Older[j] \ gone
                                 [] OTHER -> {}]
    BY <1>3, <1>12
  <2>3. kept = Locked.live \ gone /\ gone \in SUBSET Locked.live
    BY <1>6 DEF t
  <2>4. \A S \in SUBSET gone : Contract!Oldest(S) /\ Contract!HasRoom(Locked.live \ S, w) => S = gone
    BY <1>9 DEF t
  <2> HIDE DEF kept
  <2>5. LET left == Locked.live \ gone
        IN  /\ Contract!Oldest(gone)
            /\ Contract!HasRoom(left, w)
            /\ \A S \in SUBSET gone : Contract!Oldest(S) /\ Contract!HasRoom(Locked.live \ S, w) => S = gone
            /\ i \notin left
            /\ Locked'.live = left \cup {i}
            /\ Older' = [j \in Ids |-> CASE j = i -> left
                                         [] j \in left -> Older[j] \ gone
                                         [] OTHER -> {}]
            /\ Locked'.bytes = [Contract!Without(Locked.bytes, gone, 0) EXCEPT ![i] = w]
    BY ONLY <1>8, <1>10, <1>11, <2>1, <2>2, <2>3, <2>4
  <2> QED
    BY ONLY <2>3, <2>5, Zenon DEF Contract!Open
<1> QED
  BY <1>11, <1>13 DEF Contract!Next

\* A table with the entries, the order and the bytes of before is no step.
LEMMA SameTable ==
  ASSUME Locked'.live = Locked.live, Locked'.bytes = Locked.bytes, OlderOf(Locked') = OlderOf(Locked)
  PROVE  UNCHANGED Contract!vars
<1>1. Older' = Older
  BY OlderIs
<1> QED
  BY <1>1 DEF Contract!vars

\* A panic loses every session: the next call empties the table.
LEMMA PanicRefines ==
  ASSUME NEW w \in Sizes, OpenPanics(w)
  PROVE  Contract!Next
<1>1. Locked' = Reset(table')
  BY DEF OpenPanics, Locked
<1>2. Locked'.live = {} /\ Locked'.bytes = [i \in Ids |-> 0]
  BY <1>1 DEF Reset, Empty
<1>3. Older' = [i \in Ids |-> {}]
  BY <1>2, OlderIs DEF OlderOf
<1>4. Contract!Lose
  BY <1>2, <1>3 DEF Contract!Lose
<1> QED
  BY <1>4 DEF Contract!Next

LEMMA LookRefines ==
  ASSUME Look
  PROVE  UNCHANGED Contract!vars
<1>1. Locked' = Locked
  BY DEF Look, Locked
<1> QED
  BY <1>1, SameTable

\* session.snapshot makes the session the most recently used one.
LEMMA SnapshotRefines ==
  ASSUME TableInv, NEW i \in Ids, Snapshot(i)
  PROVE  Contract!Next \/ UNCHANGED Contract!vars
<1> DEFINE l == Locked
           t == NextTick(l)
           u == [t.last_tick EXCEPT ![i] = t.tick]
           r == [t EXCEPT !.last_tick = u]
<1>1. TableOK(l)
  BY LockedOK
<1>2. Locked' = IF i \in t.live THEN r ELSE t
  BY DEF Snapshot, Locked
<1>3. Older = OlderOf(l) /\ Older' = OlderOf(Locked')
  BY OlderIs
<1> HIDE DEF l
<1>4. /\ TableOK(t) /\ t.live = l.live /\ t.bytes = l.bytes /\ t.tick >= 1
      /\ \A j \in l.live : t.last_tick[j] < t.tick
      /\ \A x, y \in l.live : t.last_tick[x] < t.last_tick[y] <=> l.last_tick[x] < l.last_tick[y]
  BY <1>1, NextTickOK
<1> HIDE DEF t
<1>5. OlderOf(t) = OlderOf(l)
  BY ONLY <1>4, OlderSame
<1>6. CASE i \notin t.live
  <2>1. Locked' = t
    BY <1>2, <1>6
  <2> QED
    BY <1>4, <1>5, <2>1, SameTable DEF l
<1>7. CASE i \in t.live
  <2>1. Locked' = r
    BY <1>2, <1>7
  <2>2. t \in Tables /\ t.last_tick \in [Ids -> 0 .. MaxTick] /\ t.tick \in 0 .. MaxTick
        /\ t.live \in SUBSET Ids
    BY <1>4 DEF TableOK, Tables
  <2>3. u \in [Ids -> 0 .. MaxTick] /\ u[i] = t.tick /\ \A j \in t.live \ {i} : u[j] = t.last_tick[j]
    BY <2>2
  <2> HIDE DEF u
  <2>4. r.live = t.live /\ r.bytes = t.bytes /\ r.last_tick = u
    BY <2>2 DEF Tables
  <2> HIDE DEF r
  <2>5. /\ r.live = t.live \cup {i} /\ \A x \in t.live \cup {i} : r.last_tick[x] \in Nat
        /\ \A x \in t.live \ {i} : r.last_tick[x] < r.last_tick[i]
        /\ \A x, y \in t.live \ {i} : r.last_tick[x] < r.last_tick[y] <=> t.last_tick[x] < t.last_tick[y]
    BY <1>4, <1>7, <2>2, <2>3, <2>4
  <2>6. OlderOf(r) = [j \in Ids |-> IF j = i THEN t.live \ {i}
                                    ELSE IF j \in t.live THEN OlderOf(t)[j] \ {i} ELSE {}]
    BY ONLY <2>2, <2>5, i \in Ids, OlderNewest
  <2>7. OlderOf(r) = [j \in Ids |-> IF j = i THEN t.live \ {i} ELSE OlderOf(t)[j] \ {i}]
    BY <2>6 DEF OlderOf
  <2>8. /\ i \in Locked.live /\ Locked'.live = Locked.live /\ Locked'.bytes = Locked.bytes
        /\ Older' = [j \in Ids |-> IF j = i THEN Locked.live \ {i} ELSE Older[j] \ {i}]
    BY <1>3, <1>4, <1>5, <1>7, <2>1, <2>4, <2>7 DEF l
  <2>9. Contract!Touch(i)
    BY ONLY <2>8 DEF Contract!Touch
  <2> QED
    BY <2>9 DEF Contract!Next
<1> QED
  BY <1>6, <1>7

LEMMA CloseRefines ==
  ASSUME TableInv, NEW i \in Ids, Close(i)
  PROVE  Contract!Next \/ UNCHANGED Contract!vars
<1> DEFINE t == Locked
           r == Removed(t, {i})
<1>1. TableOK(t)
  BY LockedOK
<1>2. Locked' = IF i \in t.live THEN r ELSE t
  BY DEF Close, Locked
<1>3. Older = OlderOf(t) /\ Older' = OlderOf(Locked')
  BY OlderIs
<1>4. CASE i \notin t.live
  BY <1>2, <1>4, SameTable
<1>5. CASE i \in t.live
  <2> HIDE DEF t
  <2>1. {i} \in SUBSET t.live
    BY <1>5
  <2>2. IsWithout(r, t, {i})
    BY <1>1, <2>1, RemovedOK
  <2> HIDE DEF r
  <2>3. OlderOf(r) = [j \in Ids |-> IF j \in {i} THEN {} ELSE OlderOf(t)[j] \ {i}]
    BY ONLY <1>1, <2>1, <2>2, OlderRemoved
  <2>4. Locked' = r
    BY <1>2, <1>5
  <2>5. /\ i \in Locked.live /\ Locked'.live = Locked.live \ {i}
        /\ Locked'.bytes = Contract!Without(Locked.bytes, {i}, 0)
        /\ Older' = [j \in Ids |-> IF j = i THEN {} ELSE Older[j] \ {i}]
    BY <1>3, <1>5, <2>2, <2>3, <2>4 DEF IsWithout, Contract!Without, t
  <2>6. Contract!Close(i)
    BY ONLY <2>5 DEF Contract!Close
  <2> QED
    BY <2>6 DEF Contract!Next
<1> QED
  BY <1>4, <1>5

\* The session table keeps its contract: an open drops exactly the least recently used
\* sessions that it must and takes over no live session's id, for any limits, sizes and order
\* of calls, across rebased ticks, wrapped ids and panics.
THEOREM TableKeepsLru == Spec => KeepsLru
<1>1. Init => Contract!Init
  <2> SUFFICES ASSUME Init PROVE Contract!Init
    OBVIOUS
  <2>1. Locked.live = {} /\ Locked.bytes = [i \in Ids |-> 0]
    BY DEF Init, Locked, Empty
  <2>2. Older = [i \in Ids |-> {}]
    BY <2>1, OlderIs DEF OlderOf
  <2> QED
    BY <2>1, <2>2 DEF Contract!Init
<1>2. TableInv /\ [Next]_vars => [Contract!Next]_(Contract!vars)
  <2> SUFFICES ASSUME TableInv, [Next]_vars
               PROVE  Contract!Next \/ UNCHANGED Contract!vars
    OBVIOUS
  <2>1. CASE \E w \in Sizes : Open(w)
    BY <2>1, OpenRefines
  <2>2. CASE \E w \in Sizes : OpenPanics(w)
    BY <2>2, PanicRefines
  <2>3. CASE Look
    BY <2>3, LookRefines
  <2>4. CASE \E i \in Ids : Snapshot(i)
    BY <2>4, SnapshotRefines
  <2>5. CASE \E i \in Ids : Close(i)
    BY <2>5, CloseRefines
  <2>6. CASE UNCHANGED vars
    <3>1. Locked' = Locked
      BY <2>6 DEF vars, Locked
    <3> QED
      BY <3>1, SameTable
  <2> QED
    BY <2>1, <2>2, <2>3, <2>4, <2>5, <2>6 DEF Next
<1> QED
  BY <1>1, <1>2, TableInit, TableStep, PTL DEF Spec, KeepsLru, Contract!Spec

\* Every step of a handler is a call of the table, or leaves it alone.
LEMMA HandlersCall == HNext => [Next]_vars
<1> SUFFICES ASSUME HNext PROVE Next \/ UNCHANGED vars
  OBVIOUS
<1>1. PICK r \in Requests :
        \/ \E m \in Methods : Take(r, m)
        \/ DeadlinePasses(r) \/ check(r) \/ DoWork(r) \/ stop(r) \/ health(r)
        \/ \E i \in Ids : snapshot(r, i) \/ close_session(r, i)
        \/ \E w \in Sizes : open_session(r, w)
        \/ count_open(r)
  BY DEF HNext
<1>2. CASE \/ \E m \in Methods : Take(r, m)
           \/ DeadlinePasses(r) \/ check(r) \/ DoWork(r) \/ stop(r) \/ count_open(r)
  BY <1>2 DEF Take, DeadlinePasses, check, DoWork, stop, count_open, NoTable
<1>3. CASE health(r)
  BY <1>3 DEF health, Next
<1>4. CASE \E i \in Ids : snapshot(r, i) \/ close_session(r, i)
  BY <1>4 DEF snapshot, close_session, Next
<1>5. CASE \E w \in Sizes : open_session(r, w)
  BY <1>5 DEF open_session, Next
<1> QED
  BY <1>1, <1>2, <1>3, <1>4, <1>5

\* The requests' use of the table keeps its contract, however they interleave.
THEOREM HandlersKeepLru == HSpec => KeepsLru
<1>1. HNext \/ UNCHANGED <<vars, handlerVars>> => Next \/ UNCHANGED vars
  BY HandlersCall DEF vars, handlerVars
<1>2. HSpec => Spec
  BY <1>1, PTL DEF HSpec, Spec
<1> QED
  BY <1>2, TableKeepsLru, PTL
=============================================================================
