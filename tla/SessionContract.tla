--------------------------- MODULE SessionContract ---------------------------
(***************************************************************************)
(* What the daemon's session table promises (the comments of Sessions in   *)
(* crates/deep-diff-forge-daemon/src/handler.rs), without ticks or a byte  *)
(* counter: at most MaxSessions sessions of at most MaxRetained bytes      *)
(* together; an open drops the least recently used ones, and no more of    *)
(* them than it must.                                                      *)
(***************************************************************************)
EXTENDS Weights

CONSTANTS Ids, Sizes, MaxSessions, MaxRetained

VARIABLES live,  \* the sessions held
          older, \* older[i]: the sessions used less recently than i
          bytes  \* bytes[i]: what i retains

vars == <<live, older, bytes>>

Init == /\ live = {}
        /\ older = [i \in Ids |-> {}]
        /\ bytes = [i \in Ids |-> 0]

\* A session of w bytes can join the sessions S.
HasRoom(S, w) == /\ Cardinality(S) < MaxSessions
                 /\ Total(S, bytes) + w <= MaxRetained

\* S holds, with a session, every session used less recently.
Oldest(S) == \A i \in S : older[i] \subseteq S

\* The sessions S are dropped from a function of the sessions.
Without(f, S, none) == [i \in Ids |-> IF i \in S THEN none ELSE f[i]]

Open(i, w) ==
  \E gone \in SUBSET live :
    LET kept == live \ gone
    IN  /\ Oldest(gone)
        /\ HasRoom(kept, w)
        /\ \A S \in SUBSET gone : Oldest(S) /\ HasRoom(live \ S, w) => S = gone
        /\ i \notin kept
        /\ live' = kept \cup {i}
        /\ older' = [j \in Ids |-> CASE j = i -> kept
                                     [] j \in kept -> older[j] \ gone
                                     [] OTHER -> {}]
        /\ bytes' = [Without(bytes, gone, 0) EXCEPT ![i] = w]

\* A snapshot makes i the most recently used session.
Touch(i) == /\ i \in live
            /\ older' = [j \in Ids |-> IF j = i THEN live \ {i} ELSE older[j] \ {i}]
            /\ UNCHANGED <<live, bytes>>

Close(i) == /\ i \in live
            /\ live' = live \ {i}
            /\ older' = [j \in Ids |-> IF j = i THEN {} ELSE older[j] \ {i}]
            /\ bytes' = Without(bytes, {i}, 0)

\* A panic while the table was held: every session is lost.
Lose == /\ live' = {}
        /\ older' = [i \in Ids |-> {}]
        /\ bytes' = [i \in Ids |-> 0]

Next == \/ \E i \in Ids : \/ \E w \in Sizes : Open(i, w)
                          \/ Touch(i) \/ Close(i)
        \/ Lose

Spec == Init /\ [][Next]_vars
=============================================================================
