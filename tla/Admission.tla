------------------------------ MODULE Admission ------------------------------
(***************************************************************************)
(* The daemon's admission gate,                                            *)
(* crates/deep-diff-forge-daemon/src/admission.rs: a ticket queue under a  *)
(* mutex, with a condition variable, that keeps the weights of the         *)
(* requests running together within a byte budget.                         *)
(*                                                                         *)
(* One step is what a thread does while it holds the mutex.  notify_all is *)
(* called after the mutex is released, so it is a step of its own.  A      *)
(* thread asleep on the condition variable wakes when it is notified, when *)
(* its deadline passes, or spuriously.                                     *)
(*                                                                         *)
(* Simplifications: the wall clock is the action Expire, which may pass a  *)
(* deadline at any time; tickets are natural numbers (a u64 that wraps     *)
(* after 2^64 requests), capped at MaxTickets.                             *)
(***************************************************************************)
EXTENDS Weights

CONSTANTS Requests,  \* the threads that call admit, one call at a time
          Budget,    \* Admission::budget
          Sizes,     \* the weights a request can have
          MaxTickets \* bound: the tickets handed out in a behaviour

ASSUME RequestsFinite == IsFiniteSet(Requests)
ASSUME BudgetNat == Budget \in Nat
ASSUME SizesNat == Sizes \subseteq Nat
ASSUME MaxTicketsNat == MaxTickets \in Nat

VARIABLES next,      \* Queue::next, the next ticket to hand out
          serving,   \* Queue::serving, the ticket whose turn it is
          abandoned, \* Queue::abandoned, the tickets to skip
          in_flight, \* Queue::in_flight
          running,   \* Queue::running
          pc,        \* pc[r]: where thread r is in admit or in Permit::drop
          ticket,    \* ticket[r]: the local `ticket`, 0 outside the line
          weight,    \* weight[r]: the local `weight`, 0 when r is idle
          expired    \* the requests whose deadline has passed

queue == <<next, serving, abandoned, in_flight, running>>
vars == <<next, serving, abandoned, in_flight, running,
          pc, ticket, weight, expired>>

PCs == {"idle",      \* not in admit, holding no permit
        "calling",   \* the deadline is set, the mutex not yet taken
        "asleep",    \* in turn.wait_timeout
        "awake",     \* returning from it, to test the loop condition again
        "admitting", \* admitted, notify_all not yet called
        "refusing",  \* ticket given up, notify_all not yet called
        "working",   \* holds a Permit
        "releasing"} \* Permit::drop gave the bytes back, notify_all pending

Waiting == {r \in Requests : pc[r] \in {"asleep", "awake"}}
Holders == {r \in Requests : pc[r] \in {"admitting", "working"}}
Notifying == {r \in Requests : pc[r] \in {"admitting", "refusing", "releasing"}}

Init == /\ next = 0
        /\ serving = 0
        /\ abandoned = {}
        /\ in_flight = 0
        /\ running = 0
        /\ pc = [r \in Requests |-> "idle"]
        /\ ticket = [r \in Requests |-> 0]
        /\ weight = [r \in Requests |-> 0]
        /\ expired = {}
-----------------------------------------------------------------------------
\* Queue::advance: the first ticket after t that nobody abandoned.  The tickets
\* handed out end before `last`.
TurnAfter(t, last) ==
  CHOOSE n \in (t + 1) .. last :
    /\ n \notin abandoned
    /\ \A m \in (t + 1) .. (n - 1) : m \in abandoned

\* Queue::advance: the turn moves on and the skipped tickets are forgotten.
advance(last) ==
  LET n == TurnAfter(serving, last)
  IN  /\ serving' = n
      /\ abandoned' = {t \in abandoned : t > n}

fits(w) == running = 0 \/ in_flight + w <= Budget

\* A fault of MayStart: a request that fits overtakes the one whose turn it is.
MayOvertake(t, w) == serving <= t /\ fits(w)

\* The loop condition of admit_for, negated.
MayStart(t, w) == serving = t /\ fits(w)

\* The rest of admit_for once its turn has come and its weight fits.
Admit(r, w, last) ==
  /\ advance(last)
  /\ in_flight' = in_flight + w
  /\ running' = running + 1
  /\ pc' = [pc EXCEPT ![r] = "admitting"]
  /\ ticket' = [ticket EXCEPT ![r] = 0]
  /\ weight' = [weight EXCEPT ![r] = w]
  /\ expired' = expired \ {r}

\* The deadline has passed: the ticket is given up, and the turn moves on if it
\* was this request's.
Refuse(r, t, last) ==
  /\ IF serving = t
       THEN advance(last)
       ELSE abandoned' = abandoned \cup {t} /\ UNCHANGED serving
  /\ pc' = [pc EXCEPT ![r] = "refusing"]
  /\ ticket' = [ticket EXCEPT ![r] = 0]
  /\ weight' = [weight EXCEPT ![r] = 0]
  /\ expired' = expired \ {r}
  /\ UNCHANGED <<in_flight, running>>

\* turn.wait_timeout: the mutex is released and the thread sleeps.
Sleep(r, t, w) ==
  /\ pc' = [pc EXCEPT ![r] = "asleep"]
  /\ ticket' = [ticket EXCEPT ![r] = t]
  /\ weight' = [weight EXCEPT ![r] = w]
  /\ UNCHANGED <<serving, abandoned, in_flight, running, expired>>

\* One round of the while loop of admit_for.
Round(r, t, w, last) ==
  \/ MayStart(t, w) /\ Admit(r, w, last)
  \/ ~MayStart(t, w) /\ r \in expired /\ Refuse(r, t, last)
  \/ ~MayStart(t, w) /\ r \notin expired /\ Sleep(r, t, w)
-----------------------------------------------------------------------------
\* admit_for is called: the deadline is fixed before the mutex is taken.
Call(r, w) == /\ pc[r] = "idle"
              /\ pc' = [pc EXCEPT ![r] = "calling"]
              /\ weight' = [weight EXCEPT ![r] = w]
              /\ UNCHANGED <<queue, ticket, expired>>

\* The mutex is taken, the ticket drawn, and the loop condition tested.
Enter(r) == /\ pc[r] = "calling"
            /\ next < MaxTickets
            /\ next' = next + 1
            /\ Round(r, next, weight[r], next + 1)

\* wait_timeout returns with the mutex held and the loop goes round again.
Recheck(r) == /\ pc[r] = "awake"
              /\ UNCHANGED next
              /\ Round(r, ticket[r], weight[r], next)

\* The wall clock passes r's deadline.
Expire(r) == /\ pc[r] \in {"calling", "asleep", "awake"}
             /\ r \notin expired
             /\ expired' = expired \cup {r}
             /\ UNCHANGED <<queue, pc, ticket, weight>>

\* A fault of TimedOut: the thread waits with no timeout.
WaitsForever(r) == pc[r] = "asleep" /\ FALSE

\* wait_timeout times out.
TimedOut(r) == /\ pc[r] = "asleep"
               /\ r \in expired
               /\ pc' = [pc EXCEPT ![r] = "awake"]
               /\ UNCHANGED <<queue, ticket, weight, expired>>

\* wait_timeout returns for no reason, as a condition variable may.
SpuriousWakeup(r) == /\ pc[r] = "asleep"
                     /\ r \notin expired
                     /\ pc' = [pc EXCEPT ![r] = "awake"]
                     /\ UNCHANGED <<queue, ticket, weight, expired>>

\* Where thread r goes after its notify_all.
AfterNotify(r) == IF pc[r] = "admitting" THEN "working" ELSE "idle"

\* A fault of NotifyAll: notify_one.
NotifyOne(r) == /\ r \in Notifying
                /\ \E q \in {q \in Requests : pc[q] = "asleep"} \cup {r} :
                     /\ q = r => \A s \in Requests : pc[s] # "asleep"
                     /\ pc' = [pc EXCEPT ![q] = "awake", ![r] = AfterNotify(r)]
                /\ UNCHANGED <<queue, ticket, weight, expired>>

\* turn.notify_all wakes every sleeping thread.
NotifyAll(r) == /\ r \in Notifying
                /\ pc' = [q \in Requests |->
                            CASE q = r -> AfterNotify(r)
                              [] pc[q] = "asleep" -> "awake"
                              [] OTHER -> pc[q]]
                /\ UNCHANGED <<queue, ticket, weight, expired>>

\* Permit::drop, also when the request panicked: the bytes go back.
Release(r) ==
  /\ pc[r] = "working"
  /\ in_flight' = IF in_flight >= weight[r] THEN in_flight - weight[r] ELSE 0
  /\ running' = IF running >= 1 THEN running - 1 ELSE 0
  /\ pc' = [pc EXCEPT ![r] = "releasing"]
  /\ weight' = [weight EXCEPT ![r] = 0]
  /\ UNCHANGED <<next, serving, abandoned, ticket, expired>>

\* A step of thread r that needs nothing but the processor and the mutex.
Step(r) == Enter(r) \/ Recheck(r) \/ TimedOut(r) \/ NotifyAll(r)

Next == \E r \in Requests :
          \/ \E w \in Sizes : Call(r, w)
          \/ Step(r)
          \/ Expire(r)
          \/ SpuriousWakeup(r)
          \/ Release(r)

Spec == Init /\ [][Next]_vars

\* Threads run; and either requests that were admitted finish, with no deadline
\* that need pass, or time passes, with admitted requests that may never finish.
FairSpec == /\ Spec
            /\ \A r \in Requests : WF_vars(Step(r))
            /\ \/ \A r \in Requests : WF_vars(Release(r))
               \/ \A r \in Requests : WF_vars(Expire(r))
-----------------------------------------------------------------------------
\* The types of the gate's counters and of each thread's place in it.
TypeOK == /\ next \in 0 .. MaxTickets
          /\ serving \in 0 .. MaxTickets
          /\ abandoned \subseteq 0 .. MaxTickets
          /\ in_flight \in Nat
          /\ running \in Nat
          /\ pc \in [Requests -> PCs]
          /\ ticket \in [Requests -> 0 .. MaxTickets]
          /\ weight \in [Requests -> Nat]
          /\ expired \subseteq Requests

\* The counters Permit::drop maintains with saturating subtraction are exact:
\* in_flight is the sum of the weights of the permits held, running their
\* number, so no interleaving of admissions and drops leaks or loses bytes.
CountersExact == /\ in_flight = Total(Holders, weight)
                 /\ running = Cardinality(Holders)

\* The weights of the requests running together stay within the budget; only a
\* request that runs alone may be heavier than it (admission.rs:8-10).
BudgetRespected == \/ Cardinality(Holders) <= 1
                   \/ Total(Holders, weight) <= Budget

\* The ticket whose turn it is belongs to a request that is in line: a turn is
\* never left with a request that was refused, whatever order the requests
\* behind and ahead of it gave up in (admission.rs:44-50, 134-140).
TurnIsOwned == serving < next => \E r \in Waiting : ticket[r] = serving

\* No lost wakeup: a request asleep although it may start has a notify_all on
\* its way, sent by the thread whose admission, refusal or drop let it start.
WakeupIsComing == \A r \in Requests :
  pc[r] = "asleep" /\ MayStart(ticket[r], weight[r]) => Notifying # {}

\* The gate is sound: whatever order threads enter, wake, give up and drop their
\* permits in, the counters are exact, the budget is kept, the turn has an owner
\* and no wakeup is lost.
GateSound == /\ TypeOK
             /\ CountersExact
             /\ BudgetRespected
             /\ TurnIsOwned
             /\ WakeupIsComing

\* The contract's view of the line: who is ahead of whom, and the bytes that the
\* requests in line or running ask for.
Ahead == [r \in Requests |->
            {q \in Waiting : r \in Waiting /\ ticket[q] < ticket[r]}]
Asked == [r \in Requests |-> IF r \in Waiting \cup Holders THEN weight[r] ELSE 0]

Contract == INSTANCE AdmissionContract
              WITH waiting <- Waiting, inside <- Holders,
                   ahead <- Ahead, weight <- Asked

\* Every behaviour of the gate is one the contract allows (admission.rs:8-12:
\* "Admission is first come, first served: a waiting heavy request is not
\* overtaken by lighter ones").
KeepsContract == Contract!Spec

\* A request in line is eventually admitted or refused ("No request waits
\* forever", admission.rs:11).  By FairSpec the wakeups alone must bring it
\* about, and so must the deadlines alone.
NoRequestWaitsForever == \A r \in Requests :
  pc[r] \in {"asleep", "awake"} ~> pc[r] \in {"working", "idle"}
=============================================================================
