--------------------------- MODULE AdmissionProofs ---------------------------
(***************************************************************************)
(* Proofs about the admission gate for every set of requests, budget and   *)
(* set of weights: types, exact counters, the budget, the owned turn, no   *)
(* lost wakeup, and that the gate implements AdmissionContract.            *)
(***************************************************************************)
EXTENDS Admission, WeightsProofs

USE RequestsFinite, BudgetNat, SizesNat, MaxTicketsNat

\* The line: the tickets from serving to next are those of the requests in
\* line and the abandoned ones, each in one place only.  This is what makes
\* TurnIsOwned inductive.
LineInv ==
  /\ serving <= next
  /\ \A r \in Waiting : /\ ticket[r] \in serving .. (next - 1)
                        /\ ticket[r] \notin abandoned
  /\ \A q, r \in Waiting : ticket[q] = ticket[r] => q = r
  /\ abandoned \subseteq (serving + 1) .. (next - 1)
  /\ \A t \in serving .. (next - 1) :
       t \in abandoned \/ \E r \in Waiting : ticket[r] = t

\* A thread that is in admit asks for one of the possible weights.
WeightsKnown == \A r \in Requests :
  pc[r] \in {"calling", "asleep", "awake"} => weight[r] \in Sizes

\* Queue::advance stops at the first ticket that nobody abandoned.
LEMMA AdvanceStops ==
  ASSUME NEW t \in Nat, NEW last \in Nat, t < last,
         abandoned \subseteq Nat, last \notin abandoned
  PROVE  /\ TurnAfter(t, last) \in (t + 1) .. last
         /\ TurnAfter(t, last) \notin abandoned
         /\ \A m \in (t + 1) .. (TurnAfter(t, last) - 1) : m \in abandoned
<1> DEFINE T == {n \in (t + 1) .. last : n \notin abandoned}
<1>1. last \in T /\ T \in SUBSET Nat
  OBVIOUS
<1>2. PICK n \in T : \A m \in T : n <= m
  BY <1>1, LeastOfSet
<1>3. \A m \in (t + 1) .. (n - 1) : m \in abandoned
  BY <1>2
<1>4. \E k \in (t + 1) .. last :
        k \notin abandoned /\ \A m \in (t + 1) .. (k - 1) : m \in abandoned
  BY <1>2, <1>3
<1> QED
  BY <1>4 DEF TurnAfter

-----------------------------------------------------------------------------
\* What one round of the loop may do, with the values it may do it with.
LEMMA RoundCases ==
  ASSUME NEW r, NEW t, NEW w, NEW last, Round(r, t, w, last)
  PROVE  \/ MayStart(t, w) /\ Admit(r, w, last)
         \/ ~MayStart(t, w) /\ r \in expired /\ Refuse(r, t, last)
         \/ ~MayStart(t, w) /\ r \notin expired /\ Sleep(r, t, w)
  BY DEF Round

\* Types and the line, together: the turn's range needs the line.
LEMMA TypeAndLine == Spec => [](TypeOK /\ LineInv)
<1> DEFINE I == TypeOK /\ LineInv
<1>1. Init => I
  BY DEF Init, TypeOK, LineInv, Waiting, PCs
<1>2. I /\ [Next]_vars => I'
  <2> SUFFICES ASSUME I, [Next]_vars
               PROVE  I'
    OBVIOUS
  <2>a. next \in Nat /\ serving \in Nat /\ abandoned \subseteq Nat
        /\ next \notin abandoned /\ next + 1 \notin abandoned
    BY DEF TypeOK, LineInv
  <2>1. ASSUME NEW r \in Requests, Enter(r)
        PROVE  I'
    <3> DEFINE w == weight[r]
    <3>1. /\ pc[r] = "calling" /\ r \notin Waiting
          /\ next < MaxTickets /\ next' = next + 1
          /\ Round(r, next, w, next + 1)
          /\ w \in Nat
      BY <2>1 DEF Enter, Waiting, TypeOK
    <3>2. CASE MayStart(next, w) /\ Admit(r, w, next + 1)
      <4>1. serving = next /\ abandoned = {} /\ Waiting = {}
        BY <3>2 DEF MayStart, LineInv, TypeOK
      <4>2. TurnAfter(serving, next + 1) = next + 1
        BY <4>1, <2>a, AdvanceStops
      <4>3. serving' = next + 1 /\ abandoned' = {}
        BY <3>2, <4>1, <4>2 DEF Admit, advance
      <4>4. TypeOK'
        BY <3>1, <3>2, <4>3 DEF Admit, TypeOK, PCs
      <4>5. Waiting' = {}
        BY <3>2, <4>1 DEF Admit, Waiting, TypeOK
      <4> QED
        BY <3>1, <4>3, <4>4, <4>5, <2>a DEF LineInv
    <3>3. CASE ~MayStart(next, w) /\ r \in expired /\ Refuse(r, next, next + 1)
      <4>1. Waiting' = Waiting /\ \A q \in Waiting : ticket'[q] = ticket[q]
        BY <3>1, <3>3 DEF Refuse, Waiting, TypeOK
      <4>2. CASE serving = next
        <5>1. abandoned = {} /\ Waiting = {}
          BY <4>2 DEF LineInv, TypeOK
        <5>2. TurnAfter(serving, next + 1) = next + 1
          BY <4>2, <5>1, <2>a, AdvanceStops
        <5>3. serving' = next + 1 /\ abandoned' = {}
          BY <3>3, <4>2, <5>1, <5>2 DEF Refuse, advance
        <5>4. TypeOK'
          BY <3>1, <3>3, <5>3 DEF Refuse, TypeOK, PCs
        <5> QED
          BY <3>1, <4>1, <5>1, <5>3, <5>4, <2>a DEF LineInv
      <4>3. CASE serving # next
        <5>1. serving' = serving /\ abandoned' = abandoned \cup {next}
          BY <3>3, <4>3 DEF Refuse
        <5>2. TypeOK'
          BY <3>1, <3>3, <5>1 DEF Refuse, TypeOK, PCs
        <5>3. serving < next
          BY <4>3, <2>a DEF LineInv
        <5>4. \A q \in Waiting : /\ ticket[q] \in serving .. (next - 1)
                                  /\ ticket[q] \notin abandoned \cup {next}
          BY <2>a DEF LineInv
        <5>5. \A u \in serving .. next :
                u \in abandoned \cup {next} \/ \E q \in Waiting : ticket[q] = u
          BY <2>a DEF LineInv
        <5>6. abandoned \cup {next} \subseteq (serving + 1) .. next
          BY <5>3, <2>a DEF LineInv
        <5>7. next' - 1 = next /\ serving' <= next'
          BY <3>1, <5>1, <5>3, <2>a
        <5>8. LineInv'
          BY <4>1, <5>1, <5>4, <5>5, <5>6, <5>7, <2>a DEF LineInv
        <5> QED
          BY <5>2, <5>8
      <4> QED
        BY <4>2, <4>3
    <3>4. CASE ~MayStart(next, w) /\ r \notin expired /\ Sleep(r, next, w)
      <4>1. TypeOK'
        BY <3>1, <3>4 DEF Sleep, TypeOK, PCs
      <4>2. Waiting' = Waiting \cup {r}
        BY <3>1, <3>4 DEF Sleep, Waiting, TypeOK
      <4>3. ticket'[r] = next /\ \A q \in Waiting : ticket'[q] = ticket[q]
        BY <3>1, <3>4 DEF Sleep, Waiting, TypeOK
      <4>4. serving' = serving /\ abandoned' = abandoned
        BY <3>4 DEF Sleep
      <4>5. LineInv'
        BY <3>1, <4>2, <4>3, <4>4, <2>a DEF LineInv, TypeOK
      <4> QED
        BY <4>1, <4>5
    <3> QED
      BY <3>1, <3>2, <3>3, <3>4, RoundCases
  <2>2. ASSUME NEW r \in Requests, Recheck(r)
        PROVE  I'
    <3> DEFINE w == weight[r]
               t == ticket[r]
    <3>1. /\ r \in Waiting /\ next' = next
          /\ Round(r, t, w, next)
          /\ w \in Nat /\ t \in Nat
          /\ t \in serving .. (next - 1) /\ t \notin abandoned
      BY <2>2 DEF Recheck, Waiting, TypeOK, LineInv
    <3>2. ASSUME serving = t, advance(next), Waiting' = Waiting \ {r},
                 \A q \in Waiting \ {r} : ticket'[q] = ticket[q]
          PROVE  /\ LineInv'
                 /\ serving' \in 0 .. MaxTickets
                 /\ abandoned' \subseteq 0 .. MaxTickets
      <4> DEFINE n == TurnAfter(serving, next)
      <4>1. /\ n \in (serving + 1) .. next
            /\ n \notin abandoned
            /\ \A m \in (serving + 1) .. (n - 1) : m \in abandoned
        <5>1. serving < next
          BY <3>1, <3>2, <2>a
        <5> QED
          BY <5>1, <2>a, AdvanceStops
      <4>2. serving' = n /\ abandoned' = {u \in abandoned : u > n}
        BY <3>2 DEF advance
      <4> HIDE DEF n
      <4>3. \A q \in Waiting' : ticket'[q] \in n .. (next - 1)
        BY <3>1, <3>2, <4>1 DEF LineInv, TypeOK
      <4>4. \A u \in n .. (next - 1) :
              u \in abandoned' \/ \E q \in Waiting' : ticket'[q] = u
        BY <3>1, <3>2, <4>1, <4>2, <2>a DEF LineInv
      <4>5. abandoned' \subseteq (n + 1) .. (next - 1)
        <5> SUFFICES ASSUME NEW u \in abandoned, u > n
                     PROVE  u \in (n + 1) .. (next - 1)
          BY <4>2
        <5>1. u \in (serving + 1) .. (next - 1)
          BY DEF LineInv
        <5> QED
          BY <5>1, <4>1, <2>a
      <4>6. \A p, q \in Waiting' : ticket'[p] = ticket'[q] => p = q
        BY <3>2 DEF LineInv
      <4>7. \A q \in Waiting' : ticket'[q] \notin abandoned'
        BY <3>2, <4>2 DEF LineInv
      <4>8. LineInv'
        BY <3>1, <4>1, <4>2, <4>3, <4>4, <4>5, <4>6, <4>7, <2>a DEF LineInv
      <4> QED
        <5>1. n \in 0 .. MaxTickets
          BY <4>1, <2>a DEF TypeOK
        <5>2. abandoned' \subseteq 0 .. MaxTickets
          BY <4>2 DEF TypeOK
        <5> QED
          BY <4>2, <4>8, <5>1, <5>2
    <3>3. CASE MayStart(t, w) /\ Admit(r, w, next)
      <4>1. Waiting' = Waiting \ {r}
        BY <3>3 DEF Admit, Waiting, TypeOK
      <4>2. \A q \in Waiting \ {r} : ticket'[q] = ticket[q]
        BY <3>3 DEF Admit, Waiting, TypeOK
      <4>3. serving = t /\ advance(next)
        BY <3>3 DEF Admit, MayStart
      <4>4. LineInv' /\ serving' \in 0 .. MaxTickets
            /\ abandoned' \subseteq 0 .. MaxTickets
        BY <3>2, <4>1, <4>2, <4>3
      <4>5. TypeOK'
        BY <3>1, <3>3, <4>4 DEF Admit, TypeOK, PCs
      <4> QED
        BY <4>4, <4>5
    <3>4. CASE ~MayStart(t, w) /\ r \in expired /\ Refuse(r, t, next)
      <4>1. Waiting' = Waiting \ {r}
        BY <3>4 DEF Refuse, Waiting, TypeOK
      <4>2. \A q \in Waiting \ {r} : ticket'[q] = ticket[q]
        BY <3>4 DEF Refuse, Waiting, TypeOK
      <4>3. CASE serving = t
        <5>1. advance(next)
          BY <3>4, <4>3 DEF Refuse
        <5>2. LineInv' /\ serving' \in 0 .. MaxTickets
              /\ abandoned' \subseteq 0 .. MaxTickets
          BY <3>2, <4>1, <4>2, <4>3, <5>1
        <5>3. TypeOK'
          BY <3>1, <3>4, <5>2 DEF Refuse, TypeOK, PCs
        <5> QED
          BY <5>2, <5>3
      <4>4. CASE serving # t
        <5>1. serving' = serving /\ abandoned' = abandoned \cup {t}
          BY <3>4, <4>4 DEF Refuse
        <5>2. TypeOK'
          <6>1. abandoned' \subseteq 0 .. MaxTickets /\ serving' \in 0 .. MaxTickets
            BY <3>1, <5>1 DEF TypeOK
          <6> QED
            BY <3>1, <3>4, <6>1 DEF Refuse, TypeOK, PCs
        <5>3. \A q \in Waiting' : /\ ticket'[q] \in serving .. (next - 1)
                                   /\ ticket'[q] \notin abandoned \cup {t}
          BY <3>1, <4>1, <4>2 DEF LineInv
        <5>4. \A u \in serving .. (next - 1) :
                u \in abandoned \cup {t} \/ \E q \in Waiting' : ticket'[q] = u
          BY <4>1, <4>2 DEF LineInv
        <5>5. abandoned \cup {t} \subseteq (serving + 1) .. (next - 1)
          <6>1. t \in (serving + 1) .. (next - 1)
            BY <3>1, <4>4, <2>a
          <6>2. abandoned \subseteq (serving + 1) .. (next - 1)
            BY DEF LineInv
          <6> QED
            BY <6>1, <6>2
        <5>6. \A p, q \in Waiting' : ticket'[p] = ticket'[q] => p = q
          BY <4>1, <4>2 DEF LineInv
        <5>7. LineInv'
          BY <3>1, <5>1, <5>3, <5>4, <5>5, <5>6 DEF LineInv
        <5> QED
          BY <5>2, <5>7
      <4> QED
        BY <4>3, <4>4
    <3>5. CASE ~MayStart(t, w) /\ r \notin expired /\ Sleep(r, t, w)
      <4>1. TypeOK'
        BY <3>1, <3>5 DEF Sleep, TypeOK, PCs
      <4>2. Waiting' = Waiting /\ ticket' = ticket
        BY <3>1, <3>5 DEF Sleep, Waiting, TypeOK
      <4>3. serving' = serving /\ abandoned' = abandoned
        BY <3>5 DEF Sleep
      <4> QED
        BY <3>1, <4>1, <4>2, <4>3 DEF LineInv
    <3> QED
      BY <3>1, <3>3, <3>4, <3>5, RoundCases
  <2>3. ASSUME UNCHANGED <<next, serving, abandoned, ticket>>,
               Waiting' = Waiting
        PROVE  LineInv'
    BY <2>3 DEF LineInv
  <2>4. ASSUME NEW r \in Requests, NEW x \in Sizes, Call(r, x)
        PROVE  I'
    <3>1. TypeOK' /\ Waiting' = Waiting
      BY <2>4 DEF Call, queue, TypeOK, PCs, Waiting
    <3> QED
      BY <2>3, <2>4, <3>1 DEF Call, queue
  <2>5. ASSUME NEW r \in Requests, Expire(r)
        PROVE  I'
    <3>1. TypeOK' /\ Waiting' = Waiting
      BY <2>5 DEF Expire, queue, TypeOK, Waiting
    <3> QED
      BY <2>3, <2>5, <3>1 DEF Expire, queue
  <2>6. ASSUME NEW r \in Requests, TimedOut(r) \/ SpuriousWakeup(r)
        PROVE  I'
    <3>1. TypeOK' /\ Waiting' = Waiting
      BY <2>6 DEF TimedOut, SpuriousWakeup, queue, TypeOK, PCs, Waiting
    <3> QED
      BY <2>3, <2>6, <3>1 DEF TimedOut, SpuriousWakeup, queue
  <2>7. ASSUME NEW r \in Requests, NotifyAll(r)
        PROVE  I'
    <3>1. TypeOK' /\ Waiting' = Waiting
      BY <2>7 DEF NotifyAll, AfterNotify, Notifying, queue, TypeOK, PCs, Waiting
    <3> QED
      BY <2>3, <2>7, <3>1 DEF NotifyAll, queue
  <2>8. ASSUME NEW r \in Requests, Release(r)
        PROVE  I'
    <3>1. TypeOK' /\ Waiting' = Waiting
      BY <2>8 DEF Release, TypeOK, PCs, Waiting
    <3> QED
      BY <2>3, <2>8, <3>1 DEF Release
  <2>9. CASE UNCHANGED vars
    <3>1. TypeOK' /\ Waiting' = Waiting
      BY <2>9 DEF vars, TypeOK, Waiting
    <3> QED
      BY <2>3, <2>9, <3>1 DEF vars
  <2> QED
    BY <2>1, <2>2, <2>4, <2>5, <2>6, <2>7, <2>8, <2>9 DEF Next, Step
<1> QED
  BY <1>1, <1>2, PTL DEF Spec

\* The gate's counters and every thread's place in it keep their types.
THEOREM TypeCorrect == Spec => []TypeOK
  BY TypeAndLine, PTL

\* The turn is always owned by a request in line (advance and the refusal
\* branch of admit_for): the line is complete, so serving cannot name a request
\* that left.
THEOREM TurnAlwaysOwned == Spec => []TurnIsOwned
<1>1. TypeOK /\ LineInv => TurnIsOwned
  <2> SUFFICES ASSUME TypeOK, LineInv, serving < next
               PROVE  \E r \in Waiting : ticket[r] = serving
    BY DEF TurnIsOwned
  <2>1. serving \in serving .. (next - 1) /\ serving \notin (serving + 1) .. (next - 1)
    BY DEF TypeOK
  <2> QED
    BY <2>1 DEF LineInv
<1> QED
  BY <1>1, TypeAndLine, PTL

-----------------------------------------------------------------------------
\* The holders and their weights when r joins them.
LEMMA HoldersGrow ==
  ASSUME TypeOK, CountersExact, NEW r \in Requests, r \notin Holders,
         NEW w \in Nat, NEW last, Admit(r, w, last)
  PROVE  CountersExact'
<1>1. Holders' = Holders \cup {r}
  BY DEF Admit, Holders, TypeOK
<1>2. IsFiniteSet(Holders)
  BY FS_Subset DEF Holders
<1>3. running' = Cardinality(Holders')
  BY <1>1, <1>2, FS_AddElement, FS_CardinalityType DEF Admit, CountersExact
<1>4. \A h \in Holders : weight'[h] = weight[h] /\ weight'[h] \in Nat
  BY DEF Admit, TypeOK, Holders
<1>5. weight'[r] = w
  BY DEF Admit, TypeOK
<1>6. Total(Holders \cup {r}, weight') = Total(Holders, weight') + w
  BY <1>2, <1>4, <1>5, TotalAdd
<1>7. Total(Holders, weight') = Total(Holders, weight)
  BY <1>4, TotalSame
<1>8. in_flight' = in_flight + w
  BY DEF Admit
<1>9. in_flight' = Total(Holders', weight')
  BY <1>1, <1>6, <1>7, <1>8 DEF CountersExact
<1> QED
  BY <1>3, <1>9 DEF CountersExact

\* The holders and their weights when r drops its permit: neither saturating
\* subtraction saturates.
LEMMA HoldersShrink ==
  ASSUME TypeOK, CountersExact, NEW r \in Requests, Release(r)
  PROVE  /\ CountersExact'
         /\ in_flight' = in_flight - weight[r]
         /\ running' = running - 1
         /\ Holders' = Holders \ {r}
<1>1. Holders' = Holders \ {r} /\ r \in Holders
  BY DEF Release, Holders, TypeOK
<1>2. IsFiniteSet(Holders)
  BY FS_Subset DEF Holders
<1>3. \A h \in Holders : weight[h] \in Nat
  BY DEF TypeOK, Holders
<1>4. /\ Total(Holders \ {r}, weight) = Total(Holders, weight) - weight[r]
      /\ weight[r] <= Total(Holders, weight)
  BY <1>1, <1>2, <1>3, TotalRemove
<1>5. \A h \in Holders \ {r} : weight'[h] = weight[h]
  BY DEF Release, TypeOK, Holders
<1>6. Total(Holders \ {r}, weight') = Total(Holders \ {r}, weight)
  BY <1>5, TotalSame
<1>7. in_flight' = in_flight - weight[r]
  BY <1>4, <1>3, <1>1 DEF Release, CountersExact, TypeOK
<1>8. Cardinality(Holders) # 0 /\ Cardinality(Holders) \in Nat
  BY <1>1, <1>2, FS_EmptySet, FS_CardinalityType
<1>9. Cardinality(Holders \ {r}) = Cardinality(Holders) - 1
  BY <1>1, <1>2, FS_RemoveElement
<1>10. running' = running - 1
  BY <1>8 DEF Release, CountersExact
<1> QED
  BY <1>1, <1>4, <1>6, <1>7, <1>9, <1>10 DEF CountersExact

\* A step that leaves the counters, the holders and their weights alone.
LEMMA HoldersSame ==
  ASSUME CountersExact, UNCHANGED <<in_flight, running>>, Holders' = Holders,
         \A h \in Holders : weight'[h] = weight[h]
  PROVE  CountersExact'
<1>1. Total(Holders, weight') = Total(Holders, weight)
  BY TotalSame
<1> QED
  BY <1>1 DEF CountersExact

\* Every step admits one request, lets one go, or leaves the holders alone.
LEMMA HoldersStep ==
  ASSUME TypeOK, [Next]_vars
  PROVE  \/ \E r \in Requests, w \in Nat, last \in Nat :
              r \notin Holders /\ fits(w) /\ Admit(r, w, last)
         \/ \E r \in Requests : Release(r)
         \/ /\ UNCHANGED <<in_flight, running>>
            /\ Holders' = Holders
            /\ \A h \in Holders : weight'[h] = weight[h]
<1>1. ASSUME NEW r \in Requests, NEW t, NEW last \in Nat,
             pc[r] \in {"calling", "awake"}, Round(r, t, weight[r], last)
      PROVE  \/ \E w \in Nat : r \notin Holders /\ fits(w) /\ Admit(r, w, last)
             \/ /\ UNCHANGED <<in_flight, running>>
                /\ Holders' = Holders
                /\ \A h \in Holders : weight'[h] = weight[h]
  <2>1. r \notin Holders /\ weight[r] \in Nat
    BY <1>1 DEF Holders, TypeOK
  <2>2. CASE MayStart(t, weight[r]) /\ Admit(r, weight[r], last)
    BY <2>1, <2>2 DEF MayStart
  <2>3. CASE Refuse(r, t, last)
    BY <2>1, <2>3, <1>1 DEF Refuse, Holders, TypeOK
  <2>4. CASE Sleep(r, t, weight[r])
    BY <2>1, <2>4, <1>1 DEF Sleep, Holders, TypeOK
  <2> QED
    BY <1>1, <2>2, <2>3, <2>4, RoundCases
<1>2. ASSUME NEW r \in Requests, Enter(r) \/ Recheck(r)
      PROVE  \/ \E w \in Nat, last \in Nat :
                  r \notin Holders /\ fits(w) /\ Admit(r, w, last)
             \/ /\ UNCHANGED <<in_flight, running>>
                /\ Holders' = Holders
                /\ \A h \in Holders : weight'[h] = weight[h]
  <2>1. next \in Nat /\ next + 1 \in Nat
    BY DEF TypeOK
  <2>2. CASE Enter(r)
    BY <1>1, <2>1, <2>2 DEF Enter
  <2>3. CASE Recheck(r)
    BY <1>1, <2>1, <2>3 DEF Recheck
  <2> QED
    BY <1>2, <2>2, <2>3
<1>3. ASSUME NEW r \in Requests, NEW x \in Sizes, Call(r, x)
      PROVE  /\ UNCHANGED <<in_flight, running>>
             /\ Holders' = Holders
             /\ \A h \in Holders : weight'[h] = weight[h]
  BY <1>3 DEF Call, queue, Holders, TypeOK
<1>4. ASSUME NEW r \in Requests,
             Expire(r) \/ TimedOut(r) \/ SpuriousWakeup(r) \/ NotifyAll(r)
      PROVE  /\ UNCHANGED <<in_flight, running>>
             /\ Holders' = Holders
             /\ \A h \in Holders : weight'[h] = weight[h]
  BY <1>4 DEF Expire, TimedOut, SpuriousWakeup, NotifyAll, AfterNotify,
              Notifying, queue, Holders, TypeOK
<1>5. CASE UNCHANGED vars
  BY <1>5 DEF vars, Holders
<1> QED
  BY <1>2, <1>3, <1>4, <1>5 DEF Next, Step

\* in_flight is the sum of the weights of the permits held and running their
\* number (admit_for and Permit::drop), so the saturating arithmetic of
\* Permit::drop never hides a leak.
THEOREM CountersAlwaysExact == Spec => []CountersExact
<1>1. Init => CountersExact
  <2> SUFFICES ASSUME Init PROVE CountersExact
    OBVIOUS
  <2>1. Holders = {}
    BY DEF Init, Holders
  <2> QED
    BY <2>1, TotalEmpty, FS_EmptySet DEF Init, CountersExact
<1>2. TypeOK /\ CountersExact /\ [Next]_vars => CountersExact'
  BY HoldersStep, HoldersGrow, HoldersShrink, HoldersSame
<1> QED
  BY <1>1, <1>2, TypeCorrect, PTL DEF Spec

\* Two or more requests that run together hold at most Budget bytes (fits and
\* admit_for); with one, it may be any weight.
THEOREM BudgetAlwaysRespected == Spec => []BudgetRespected
<1> DEFINE B == running <= 1 \/ in_flight <= Budget
<1>1. Init => B
  BY DEF Init
<1>2. TypeOK /\ CountersExact /\ B /\ [Next]_vars => B'
  <2> SUFFICES ASSUME TypeOK, CountersExact, B, [Next]_vars
               PROVE  B'
    OBVIOUS
  <2>1. ASSUME NEW r \in Requests, NEW w \in Nat, NEW last \in Nat,
               fits(w), Admit(r, w, last)
        PROVE  B'
    BY <2>1 DEF fits, Admit, TypeOK
  <2>2. ASSUME NEW r \in Requests, Release(r)
        PROVE  B'
    <3>1. in_flight' = in_flight - weight[r] /\ running' = running - 1
      BY <2>2, HoldersShrink
    <3>2. weight[r] \in Nat
      BY DEF TypeOK
    <3> QED
      BY <3>1, <3>2 DEF TypeOK
  <2>3. CASE UNCHANGED <<in_flight, running>>
    BY <2>3
  <2> QED
    BY <2>1, <2>2, <2>3, HoldersStep
<1>3. CountersExact /\ B => BudgetRespected
  BY DEF CountersExact, BudgetRespected
<1> QED
  BY <1>1, <1>2, <1>3, TypeCorrect, CountersAlwaysExact, PTL DEF Spec

\* No wakeup is lost: admit_for and Permit::drop release the mutex before they
\* call notify_all, and in that window the sleeper's call is still to come.
THEOREM WakeupAlwaysComing == Spec => []WakeupIsComing
<1>1. Init => WakeupIsComing
  BY DEF Init, WakeupIsComing
<1>2. TypeOK /\ WakeupIsComing /\ [Next]_vars => WakeupIsComing'
  <2> SUFFICES ASSUME TypeOK, WakeupIsComing, [Next]_vars
               PROVE  WakeupIsComing'
    OBVIOUS
  <2>1. ASSUME NEW r \in Requests, r \in Notifying'
        PROVE  WakeupIsComing'
    BY <2>1 DEF WakeupIsComing
  <2>2. ASSUME NEW r \in Requests, NEW t, NEW last,
               pc[r] \in {"calling", "awake"}, Round(r, t, weight[r], last)
        PROVE  WakeupIsComing'
    <3>1. CASE Admit(r, weight[r], last) \/ Refuse(r, t, last)
      <4>1. r \in Notifying'
        BY <3>1 DEF Admit, Refuse, Notifying, TypeOK
      <4> QED
        BY <2>1, <4>1
    <3>2. CASE ~MayStart(t, weight[r]) /\ Sleep(r, t, weight[r])
      <4>1. Notifying' = Notifying
        BY <2>2, <3>2 DEF Sleep, Notifying, TypeOK
      <4>2. /\ ticket'[r] = t /\ weight'[r] = weight[r]
            /\ \A q \in Requests \ {r} : /\ pc'[q] = pc[q]
                                         /\ ticket'[q] = ticket[q]
                                         /\ weight'[q] = weight[q]
        BY <3>2 DEF Sleep, TypeOK
      <4>3. ~MayStart(ticket[r], weight[r])'
        BY <3>2, <4>2 DEF Sleep, MayStart, fits
      <4>4. \A q \in Requests \ {r} :
              MayStart(ticket[q], weight[q])' => MayStart(ticket[q], weight[q])
        BY <3>2, <4>2 DEF Sleep, MayStart, fits
      <4> QED
        BY <4>1, <4>2, <4>3, <4>4 DEF WakeupIsComing
    <3> QED
      BY <2>2, <3>1, <3>2, RoundCases
  <2>3. ASSUME NEW r \in Requests, Enter(r) \/ Recheck(r)
        PROVE  WakeupIsComing'
    BY <2>2, <2>3 DEF Enter, Recheck
  <2>4. ASSUME NEW r \in Requests, NEW x \in Sizes, Call(r, x)
        PROVE  WakeupIsComing'
    BY <2>4 DEF Call, queue, WakeupIsComing, Notifying, MayStart, fits, TypeOK
  <2>5. ASSUME NEW r \in Requests, Expire(r) \/ TimedOut(r) \/ SpuriousWakeup(r)
        PROVE  WakeupIsComing'
    BY <2>5 DEF Expire, TimedOut, SpuriousWakeup, queue, WakeupIsComing,
                Notifying, MayStart, fits, TypeOK
  <2>6. ASSUME NEW r \in Requests, NotifyAll(r)
        PROVE  WakeupIsComing'
    <3>1. \A q \in Requests : pc'[q] # "asleep"
      BY <2>6 DEF NotifyAll, AfterNotify
    <3> QED
      BY <3>1 DEF WakeupIsComing
  <2>7. ASSUME NEW r \in Requests, Release(r)
        PROVE  WakeupIsComing'
    <3>1. r \in Notifying'
      BY <2>7 DEF Release, Notifying, TypeOK
    <3> QED
      BY <2>1, <3>1
  <2>8. CASE UNCHANGED vars
    BY <2>8 DEF vars, WakeupIsComing, Notifying, MayStart, fits
  <2> QED
    BY <2>3, <2>4, <2>5, <2>6, <2>7, <2>8 DEF Next, Step
<1> QED
  BY <1>1, <1>2, TypeCorrect, PTL DEF Spec

\* The gate is sound, for every set of requests, every budget and all weights: its
\* counters are exact, its budget is kept, its turn is owned and no wakeup is lost.
THEOREM GateAlwaysSound == Spec => []GateSound
  BY TypeCorrect, CountersAlwaysExact, BudgetAlwaysRespected, TurnAlwaysOwned,
     WakeupAlwaysComing, PTL DEF GateSound

-----------------------------------------------------------------------------
\* The weights of the requests in admit stay among the possible ones.
LEMMA WeightsStayKnown == Spec => []WeightsKnown
<1>1. Init => WeightsKnown
  BY DEF Init, WeightsKnown
<1>2. TypeOK /\ WeightsKnown /\ [Next]_vars => WeightsKnown'
  <2> SUFFICES ASSUME TypeOK, WeightsKnown, [Next]_vars
               PROVE  WeightsKnown'
    OBVIOUS
  <2>1. ASSUME NEW r \in Requests, NEW t, NEW last,
               pc[r] \in {"calling", "awake"}, Round(r, t, weight[r], last)
        PROVE  WeightsKnown'
    BY <2>1 DEF Round, Admit, Refuse, Sleep, WeightsKnown, TypeOK
  <2>2. ASSUME NEW r \in Requests, Enter(r) \/ Recheck(r)
        PROVE  WeightsKnown'
    BY <2>1, <2>2 DEF Enter, Recheck
  <2>3. ASSUME NEW r \in Requests, NEW x \in Sizes, Call(r, x)
        PROVE  WeightsKnown'
    BY <2>3 DEF Call, WeightsKnown, TypeOK
  <2>4. ASSUME NEW r \in Requests,
               Expire(r) \/ TimedOut(r) \/ SpuriousWakeup(r) \/ NotifyAll(r)
        PROVE  WeightsKnown'
    BY <2>4 DEF Expire, TimedOut, SpuriousWakeup, NotifyAll, AfterNotify,
                Notifying, WeightsKnown, TypeOK
  <2>5. ASSUME NEW r \in Requests, Release(r)
        PROVE  WeightsKnown'
    BY <2>5 DEF Release, WeightsKnown, TypeOK
  <2>6. CASE UNCHANGED vars
    BY <2>6 DEF vars, WeightsKnown
  <2> QED
    BY <2>2, <2>3, <2>4, <2>5, <2>6 DEF Next, Step
<1> QED
  BY <1>1, <1>2, TypeCorrect, PTL DEF Spec

\* The gate's test of the budget is the contract's.
LEMMA FitsIsHasRoom ==
  ASSUME TypeOK, CountersExact, NEW w \in Nat, fits(w)
  PROVE  Contract!HasRoom(w)
<1>1. IsFiniteSet(Holders)
  BY FS_Subset DEF Holders
<1>2. running = 0 => Holders = {}
  BY <1>1, FS_EmptySet DEF CountersExact
<1>3. \A h \in Holders : Asked[h] = weight[h]
  BY DEF Asked, Holders
<1>4. Total(Holders, Asked) = Total(Holders, weight)
  BY <1>3, TotalSame
<1>5. Contract!Total(Holders, Asked) = Total(Holders, Asked)
  BY DEF Total, Bytes, Cardinality, IsFiniteSet, Contract!Total, Contract!Bytes,
         Contract!Cardinality, Contract!IsFiniteSet
<1> QED
  BY <1>2, <1>4, <1>5 DEF fits, CountersExact, Contract!HasRoom

\* A step that changes nobody's place changes nothing the contract sees.
LEMMA SameView ==
  ASSUME Waiting' = Waiting, Holders' = Holders,
         \A r \in Waiting : ticket'[r] = ticket[r],
         \A r \in Waiting \cup Holders : weight'[r] = weight[r]
  PROVE  UNCHANGED Contract!vars
<1>1. Ahead' = Ahead
  BY DEF Ahead
<1>2. Asked' = Asked
  BY DEF Asked
<1> QED
  BY <1>1, <1>2 DEF Contract!vars

\* The gate implements its contract: every step of the ticket queue is a step
\* of the first-come, first-served line or invisible to it.
THEOREM GateKeepsContract == Spec => KeepsContract
<1> DEFINE I == TypeOK /\ LineInv /\ CountersExact /\ WeightsKnown
<1>1. Init => Contract!Init
  BY DEF Init, Contract!Init, Waiting, Holders, Ahead, Asked
<1>2. I /\ [Next]_vars => [Contract!Next]_(Contract!vars)
  <2> SUFFICES ASSUME I, [Next]_vars
               PROVE  Contract!Next \/ UNCHANGED Contract!vars
    OBVIOUS
  <2>1. ASSUME NEW r \in Requests, Enter(r)
        PROVE  Contract!Next \/ UNCHANGED Contract!vars
    <3> DEFINE w == weight[r]
    <3>1. /\ pc[r] = "calling" /\ r \notin Waiting /\ r \notin Holders
          /\ Round(r, next, w, next + 1)
          /\ w \in Sizes /\ w \in Nat
          /\ next \in Nat
      BY <2>1 DEF Enter, Waiting, Holders, TypeOK, WeightsKnown
    <3>2. CASE MayStart(next, w) /\ Admit(r, w, next + 1)
      <4>1. Waiting = {} /\ Waiting' = {}
        BY <3>1, <3>2 DEF MayStart, Admit, Waiting, LineInv, TypeOK
      <4>2. Holders' = Holders \cup {r}
        BY <3>1, <3>2 DEF Admit, Holders, TypeOK
      <4>3. Contract!HasRoom(w)
        BY <3>1, <3>2, FitsIsHasRoom DEF MayStart
      <4>4. Ahead' = Ahead
        BY <4>1 DEF Ahead
      <4>5. Asked' = [Asked EXCEPT ![r] = w]
        BY <3>1, <3>2, <4>1, <4>2 DEF Asked, Admit, TypeOK
      <4>6. Contract!Pass(r, w)
        BY <3>1, <4>1, <4>2, <4>3, <4>4, <4>5 DEF Contract!Pass
      <4> QED
        BY <3>1, <4>6 DEF Contract!Next
    <3>3. CASE Refuse(r, next, next + 1)
      <4>1. Waiting' = Waiting /\ Holders' = Holders
        BY <3>1, <3>3 DEF Refuse, Waiting, Holders, TypeOK
      <4>2. \A q \in Waiting \cup Holders :
              ticket'[q] = ticket[q] /\ weight'[q] = weight[q]
        BY <3>1, <3>3 DEF Refuse, Waiting, Holders, TypeOK
      <4> QED
        BY <4>1, <4>2, SameView
    <3>4. CASE Sleep(r, next, w)
      <4>1. Waiting' = Waiting \cup {r} /\ Holders' = Holders
        BY <3>1, <3>4 DEF Sleep, Waiting, Holders, TypeOK
      <4>2. ticket'[r] = next /\ weight'[r] = w
        BY <3>4 DEF Sleep, TypeOK
      <4>3. \A q \in Waiting \cup Holders :
              ticket'[q] = ticket[q] /\ weight'[q] = weight[q]
        BY <3>1, <3>4 DEF Sleep, Waiting, Holders, TypeOK
      <4>4. \A q \in Waiting : ticket[q] < next /\ ~(next < ticket[q])
        BY <3>1 DEF LineInv, TypeOK
      <4>5. Ahead' = [Ahead EXCEPT ![r] = Waiting]
        <5>1. \A p \in Requests : Ahead'[p] = {q \in Waiting' : p \in Waiting' /\ ticket'[q] < ticket'[p]}
          BY DEF Ahead
        <5>2. Ahead'[r] = Waiting
          <6>1. Ahead'[r] = {q \in Waiting \cup {r} : ticket'[q] < next}
            BY <4>1, <4>2, <5>1
          <6>2. ~(next < next)
            BY <3>1
          <6> QED
            BY <3>1, <4>2, <4>3, <4>4, <6>1, <6>2
        <5>3. \A p \in Requests \ {r} : Ahead'[p] = Ahead[p]
          BY <3>1, <4>1, <4>2, <4>3, <4>4, <5>1 DEF Ahead
        <5> QED
          BY <5>2, <5>3 DEF Ahead
      <4>6. Asked' = [Asked EXCEPT ![r] = w]
        BY <3>1, <4>1, <4>2, <4>3 DEF Asked
      <4>7. Contract!Join(r, w)
        BY <3>1, <4>1, <4>5, <4>6 DEF Contract!Join
      <4> QED
        BY <3>1, <4>7 DEF Contract!Next
    <3> QED
      BY <3>1, <3>2, <3>3, <3>4, RoundCases
  <2>2. ASSUME NEW r \in Requests, Recheck(r)
        PROVE  Contract!Next \/ UNCHANGED Contract!vars
    <3> DEFINE w == weight[r]
               t == ticket[r]
    <3>1. /\ pc[r] = "awake" /\ r \in Waiting /\ r \notin Holders
          /\ Round(r, t, w, next)
          /\ w \in Nat
      BY <2>2 DEF Recheck, Waiting, Holders, TypeOK
    <3>2. ASSUME Waiting' = Waiting \ {r},
                 \A q \in Waiting \ {r} : ticket'[q] = ticket[q]
          PROVE  Contract!OutOfLine(r)
      <4>1. Ahead' = [q \in Requests |-> IF q = r THEN {} ELSE Ahead[q] \ {r}]
        BY <3>2 DEF Ahead
      <4> QED
        BY <3>2, <4>1 DEF Contract!OutOfLine
    <3>3. CASE MayStart(t, w) /\ Admit(r, w, next)
      <4>1. Waiting' = Waiting \ {r} /\ Holders' = Holders \cup {r}
        BY <3>1, <3>3 DEF Admit, Waiting, Holders, TypeOK
      <4>2. \A q \in Requests \ {r} : ticket'[q] = ticket[q]
        BY <3>3 DEF Admit, TypeOK
      <4>3. weight' = weight
        BY <3>3 DEF Admit, TypeOK
      <4>4. Ahead[r] = {}
        <5>1. \A q \in Waiting : ~(ticket[q] < ticket[r])
          BY <3>3 DEF MayStart, LineInv, TypeOK
        <5> QED
          BY <5>1 DEF Ahead
      <4>5. Contract!HasRoom(Asked[r])
        <5>1. Asked[r] = w
          BY <3>1 DEF Asked
        <5> QED
          BY <3>1, <3>3, <5>1, FitsIsHasRoom DEF MayStart
      <4>6. Asked' = Asked
        BY <3>1, <4>1, <4>3 DEF Asked
      <4>7. Contract!OutOfLine(r)
        BY <3>2, <4>1, <4>2 DEF Waiting
      <4>8. Contract!Start(r)
        BY <3>1, <4>1, <4>4, <4>5, <4>6, <4>7 DEF Contract!Start
      <4> QED
        BY <4>8 DEF Contract!Next
    <3>4. CASE Refuse(r, t, next)
      <4>1. Waiting' = Waiting \ {r} /\ Holders' = Holders
        BY <3>1, <3>4 DEF Refuse, Waiting, Holders, TypeOK
      <4>2. \A q \in Requests \ {r} : ticket'[q] = ticket[q] /\ weight'[q] = weight[q]
        BY <3>4 DEF Refuse, TypeOK
      <4>3. Asked' = [Asked EXCEPT ![r] = 0]
        BY <3>1, <4>1, <4>2 DEF Asked
      <4>4. Contract!OutOfLine(r)
        BY <3>2, <4>1, <4>2 DEF Waiting
      <4>5. Contract!Leave(r)
        BY <3>1, <4>1, <4>3, <4>4 DEF Contract!Leave
      <4> QED
        BY <4>5 DEF Contract!Next
    <3>5. CASE Sleep(r, t, w)
      <4>1. Waiting' = Waiting /\ Holders' = Holders
        BY <3>1, <3>5 DEF Sleep, Waiting, Holders, TypeOK
      <4>2. ticket' = ticket /\ weight' = weight
        BY <3>5 DEF Sleep, TypeOK
      <4> QED
        BY <4>1, <4>2, SameView
    <3> QED
      BY <3>1, <3>3, <3>4, <3>5, RoundCases
  <2>3. ASSUME NEW r \in Requests, NEW x \in Sizes, Call(r, x)
        PROVE  UNCHANGED Contract!vars
    <3>1. Waiting' = Waiting /\ Holders' = Holders /\ ticket' = ticket
      BY <2>3 DEF Call, Waiting, Holders, TypeOK
    <3>2. \A q \in Waiting \cup Holders : weight'[q] = weight[q]
      BY <2>3 DEF Call, Waiting, Holders, TypeOK
    <3> QED
      BY <3>1, <3>2, SameView
  <2>4. ASSUME NEW r \in Requests,
               Expire(r) \/ TimedOut(r) \/ SpuriousWakeup(r) \/ NotifyAll(r)
        PROVE  UNCHANGED Contract!vars
    <3>1. Waiting' = Waiting /\ Holders' = Holders
      BY <2>4 DEF Expire, TimedOut, SpuriousWakeup, NotifyAll, AfterNotify,
                  Notifying, Waiting, Holders, TypeOK
    <3>2. ticket' = ticket /\ weight' = weight
      BY <2>4 DEF Expire, TimedOut, SpuriousWakeup, NotifyAll
    <3> QED
      BY <3>1, <3>2, SameView
  <2>5. ASSUME NEW r \in Requests, Release(r)
        PROVE  Contract!Next
    <3>1. Waiting' = Waiting /\ Holders' = Holders \ {r} /\ r \in Holders
          /\ r \notin Waiting
      BY <2>5 DEF Release, Waiting, Holders, TypeOK
    <3>2. ticket' = ticket /\ \A q \in Requests \ {r} : weight'[q] = weight[q]
      BY <2>5 DEF Release, TypeOK
    <3>3. Ahead' = Ahead
      BY <3>1, <3>2 DEF Ahead
    <3>4. Asked' = [Asked EXCEPT ![r] = 0]
      BY <3>1, <3>2 DEF Asked
    <3>5. Contract!Finish(r)
      BY <3>1, <3>3, <3>4 DEF Contract!Finish
    <3> QED
      BY <3>5 DEF Contract!Next
  <2>6. CASE UNCHANGED vars
    BY <2>6 DEF vars, Contract!vars, Waiting, Holders, Ahead, Asked
  <2> QED
    BY <2>1, <2>2, <2>3, <2>4, <2>5, <2>6 DEF Next, Step
<1> QED
  BY <1>1, <1>2, TypeAndLine, CountersAlwaysExact, WeightsStayKnown, PTL
     DEF Spec, KeepsContract, Contract!Spec
=============================================================================
