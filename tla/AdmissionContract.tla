-------------------------- MODULE AdmissionContract --------------------------
(***************************************************************************)
(* What the daemon's admission gate promises (the head comment of          *)
(* crates/deep-diff-forge-daemon/src/admission.rs), without tickets, turns *)
(* or condition variables: requests wait in arrival order, only the one    *)
(* with nobody ahead of it starts, and it starts when it fits the byte     *)
(* budget or when nothing runs.                                            *)
(***************************************************************************)
EXTENDS Weights

CONSTANTS Requests, \* the callers of admit
          Budget,   \* the bytes that may be in flight together
          Sizes     \* the weights a request can have

VARIABLES waiting,  \* the requests in line
          ahead,    \* ahead[r]: the requests in line that arrived before r
          inside,   \* the requests holding a permit
          weight    \* weight[r]: the bytes r asks for or holds

vars == <<waiting, ahead, inside, weight>>

Init == /\ waiting = {}
        /\ ahead = [r \in Requests |-> {}]
        /\ inside = {}
        /\ weight = [r \in Requests |-> 0]

HasRoom(w) == inside = {} \/ Total(inside, weight) + w <= Budget

\* r leaves the line, whatever its place in it.
OutOfLine(r) == /\ waiting' = waiting \ {r}
                /\ ahead' = [q \in Requests |->
                               IF q = r THEN {} ELSE ahead[q] \ {r}]

\* r joins the line behind everyone in it.
Join(r, w) == /\ r \notin waiting \cup inside
              /\ waiting' = waiting \cup {r}
              /\ ahead' = [ahead EXCEPT ![r] = waiting]
              /\ weight' = [weight EXCEPT ![r] = w]
              /\ UNCHANGED inside

\* r finds the line empty and room in the budget, and starts at once.
Pass(r, w) == /\ r \notin waiting \cup inside
              /\ waiting = {}
              /\ HasRoom(w)
              /\ inside' = inside \cup {r}
              /\ weight' = [weight EXCEPT ![r] = w]
              /\ UNCHANGED <<waiting, ahead>>

\* r, with nobody ahead of it, starts.
Start(r) == /\ r \in waiting
            /\ ahead[r] = {}
            /\ HasRoom(weight[r])
            /\ OutOfLine(r)
            /\ inside' = inside \cup {r}
            /\ UNCHANGED weight

\* r gives up waiting.
Leave(r) == /\ r \in waiting
            /\ OutOfLine(r)
            /\ weight' = [weight EXCEPT ![r] = 0]
            /\ UNCHANGED inside

\* r is done and gives its bytes back.
Finish(r) == /\ r \in inside
             /\ inside' = inside \ {r}
             /\ weight' = [weight EXCEPT ![r] = 0]
             /\ UNCHANGED <<waiting, ahead>>

Next == \E r \in Requests :
          \/ \E w \in Sizes : Join(r, w) \/ Pass(r, w)
          \/ Start(r)
          \/ Leave(r)
          \/ Finish(r)

Spec == Init /\ [][Next]_vars
=============================================================================
