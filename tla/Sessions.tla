------------------------------ MODULE Sessions -------------------------------
(***************************************************************************)
(* The daemon's session table, struct Sessions in                          *)
(* crates/deep-diff-forge-daemon/src/handler.rs: bounded in sessions and   *)
(* in retained bytes, the least recently used session going first.         *)
(*                                                                         *)
(* Every method runs under Engine::sessions, so a call is one step; it     *)
(* starts by emptying the table if the call before it panicked.  The u64   *)
(* counters wrap or are rebased at MaxId and MaxTick.  A session is the    *)
(* bytes it retains.                                                       *)
(***************************************************************************)
EXTENDS Weights

CONSTANTS Sizes,       \* the retained sizes a patch can have
          MaxSessions, \* MAX_SESSIONS
          MaxRetained, \* Sessions::max_retained_bytes
          MaxId,       \* u64::MAX for next_session
          MaxTick      \* u64::MAX for tick

ASSUME SizesNat == Sizes \subseteq Nat
ASSUME MaxSessionsPos == MaxSessions \in Nat \ {0}
ASSUME MaxRetainedNat == MaxRetained \in Nat
ASSUME MaxIdEnough == MaxId \in Nat /\ MaxId > MaxSessions
ASSUME MaxTickEnough == MaxTick \in Nat /\ MaxTick > MaxSessions

VARIABLES table,    \* the Sessions value
          poisoned, \* a call panicked while it held the table
          drawn     \* history: drawn[i] is how often next_session gave the id i
                    \* since it last came round to 1

vars == <<table, poisoned, drawn>>

Ids == 1 .. MaxId

\* Sessions::new.
Empty == [live |-> {},                          \* the keys of entries
          bytes |-> [i \in Ids |-> 0],          \* SessionEntry::retained_bytes
          last_tick |-> [i \in Ids |-> 0],
          next_session |-> 1,
          tick |-> 0,
          retained_bytes |-> 0]

Init == table = Empty /\ poisoned = FALSE /\ drawn = [i \in Ids |-> 0]
-----------------------------------------------------------------------------
(* The methods, as functions of a table t. *)

Reset(t) == [Empty EXCEPT !.next_session = t.next_session]

SatSub(a, b) == IF a >= b THEN a - b ELSE 0

\* The entries S are removed and their bytes given back.
Removed(t, S) ==
  [t EXCEPT !.live = @ \ S,
            !.bytes = [i \in Ids |-> IF i \in S THEN 0 ELSE @[i]],
            !.last_tick = [i \in Ids |-> IF i \in S THEN 0 ELSE @[i]],
            !.retained_bytes = SatSub(@, Total(S, t.bytes))]

\* The live entries used before i.
Before(t, i) == {j \in t.live : t.last_tick[j] < t.last_tick[i]}

\* next_tick: at the limit the entries are numbered again in their order.
NextTick(t) ==
  IF t.tick < MaxTick
  THEN [t EXCEPT !.tick = @ + 1]
  ELSE [t EXCEPT !.last_tick = [i \in Ids |-> IF i \in t.live
                                              THEN Cardinality(Before(t, i)) + 1
                                              ELSE 0],
                 !.tick = Cardinality(t.live) + 1]

\* A fault of Lru: the most recently used go first.
Mru(t, k) == {i \in t.live : Cardinality(t.live \ Before(t, i)) <= k}

\* The entries that k calls of evict_lru remove.
Lru(t, k) == {i \in t.live : Cardinality(Before(t, i)) < k}

\* The loop of open_session goes on.
Over(t, w) == \/ Cardinality(t.live) >= MaxSessions
              \/ t.retained_bytes + w > MaxRetained

\* The loop of open_session: as many evictions as it takes.
MakeRoom(t, w) ==
  LET Enough(k) == ~Over(Removed(t, Lru(t, k)), w)
      k == CHOOSE k \in 0 .. Cardinality(t.live) :
             /\ Enough(k) \/ k = Cardinality(t.live)
             /\ \A m \in 0 .. k - 1 : ~Enough(m)
  IN  Removed(t, Lru(t, k))

\* The candidate ids of open_session, next_session wrapping to 1.
Candidate(t, k) == ((t.next_session - 1 + k) % MaxId) + 1

\* The first candidate that is not live; next_session moves past it.
FreeAt(t) == CHOOSE k \in 0 .. MaxSessions :
               /\ Candidate(t, k) \notin t.live
               /\ \A m \in 0 .. k - 1 : Candidate(t, m) \in t.live
NewId(t) == Candidate(t, FreeAt(t))
DrawId(t) == [t EXCEPT !.next_session = Candidate(t, FreeAt(t) + 1)]

\* The entry is stamped with the tick and inserted.
Insert(t, i, w) == [t EXCEPT !.live = @ \cup {i},
                             !.bytes[i] = w,
                             !.last_tick[i] = t.tick,
                             !.retained_bytes = @ + w]

\* Engine::sessions: a poisoned table is emptied before it is used.
Locked == IF poisoned THEN Reset(table) ELSE table
-----------------------------------------------------------------------------
\* The id i was drawn, next_session having been n: i below n means that it came
\* round before i, and i = MaxId that it does so now.
Draw(i, n) ==
  LET lap == IF i < n THEN [j \in Ids |-> 0] ELSE drawn
  IN  drawn' = IF i = MaxId THEN [j \in Ids |-> 0] ELSE [lap EXCEPT ![i] = @ + 1]

\* session.open of a patch that retains w bytes.
Open(w) ==
  LET room == MakeRoom(Locked, w)
      i == NewId(room)
  IN  /\ w <= MaxRetained
      /\ table' = Insert(NextTick(DrawId(room)), i, w)
      /\ poisoned' = FALSE
      /\ Draw(i, table.next_session)

\* session.open of a patch over the whole budget, daemon.health, and every other
\* call that takes the table and leaves its entries alone.
Look == /\ table' = Locked
        /\ poisoned' = FALSE
        /\ UNCHANGED drawn

\* session.snapshot: the tick advances whether or not the session is there.
Snapshot(i) ==
  LET t == NextTick(Locked)
  IN  /\ table' = IF i \in t.live THEN [t EXCEPT !.last_tick[i] = t.tick] ELSE t
      /\ poisoned' = FALSE
      /\ UNCHANGED drawn

\* session.close.
Close(i) == /\ table' = IF i \in Locked.live THEN Removed(Locked, {i}) ELSE Locked
            /\ poisoned' = FALSE
            /\ UNCHANGED drawn

\* session.open panics at some point of open_session: with the room made, the id
\* drawn, or the bytes counted and the entry not inserted.
OpenPanics(w) ==
  LET room == MakeRoom(Locked, w)
      ready == NextTick(DrawId(room))
  IN  /\ w <= MaxRetained
      /\ \/ table' = room /\ UNCHANGED drawn
         \/ /\ table' \in {ready, [ready EXCEPT !.retained_bytes = @ + w]}
            /\ Draw(NewId(room), table.next_session)
      /\ poisoned' = TRUE

Next == \/ \E w \in Sizes : Open(w) \/ OpenPanics(w)
        \/ Look
        \/ \E i \in Ids : Snapshot(i) \/ Close(i)

Spec == Init /\ [][Next]_vars
-----------------------------------------------------------------------------
\* The types of the table's fields.
TypeOK == /\ table.live \subseteq Ids
          /\ table.bytes \in [Ids -> Nat]
          /\ table.last_tick \in [Ids -> 0 .. MaxTick]
          /\ table.next_session \in Ids
          /\ table.tick \in 0 .. MaxTick
          /\ table.retained_bytes \in Nat
          /\ poisoned \in BOOLEAN
          /\ drawn \in [Ids -> Nat]

\* What a caller finds in the table is within both limits, and retained_bytes is
\* the sum over its entries: no sequence of opens, evictions, closes and panics
\* leaks or loses bytes, although the counter is only ever adjusted.
RetainedExact == /\ Locked.retained_bytes = Total(Locked.live, Locked.bytes)
                 /\ Locked.retained_bytes <= MaxRetained
                 /\ Cardinality(Locked.live) <= MaxSessions

\* Every live session was used at a tick of its own, none of them in the future:
\* evict_lru has one candidate, also after ticks were rebased.
TicksOrdered == /\ \A i, j \in Locked.live :
                     i # j => Locked.last_tick[i] # Locked.last_tick[j]
                /\ \A i \in Locked.live : Locked.last_tick[i] \in 1 .. Locked.tick

\* handler.rs:284-285: the session-id counter is "kept, so no old id is reused":
\* next_session gives an id once a lap, also across resets, so that an evicted
\* session's id does not name another client's session.
NoIdReused == \A i \in Ids : drawn[i] <= 1

\* The contract's view: a table that a panic poisoned is as good as empty.
Older == [i \in Ids |-> IF i \in Locked.live THEN Before(Locked, i) ELSE {}]

Contract == INSTANCE SessionContract
              WITH live <- Locked.live, older <- Older, bytes <- Locked.bytes

\* Opens evict exactly the least recently used sessions that they must, and never
\* take over a live session's id (handler.rs:66-72, 163-164).
KeepsLru == Contract!Spec
=============================================================================
