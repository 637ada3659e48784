-------------------------------- MODULE Serve --------------------------------
(***************************************************************************)
(* The daemon's server, crates/deep-diff-forge-daemon/src/serve.rs: the    *)
(* accept loop, the connection threads, the signal watcher, and the stop,  *)
(* with the read budget and the count of answers in progress               *)
(* (admission.rs) that they share.                                         *)
(*                                                                         *)
(* Threads interleave at every point where they touch shared state.  A     *)
(* request line is its size and its kind.  process_line is one phase,      *)
(* "working": how long it waits for admission is module Admission.  A      *)
(* deadline may pass at any time.  ReadBudget::take is one step: it takes  *)
(* effect at its compare_exchange, a refusal at its load.                  *)
(***************************************************************************)
EXTENDS Weights, Sequences

CONSTANTS Clients,      \* client processes; each has one connection at a time
          DataSlots,    \* MAX_CONNECTIONS
          ControlSlots, \* CONTROL_CONNECTIONS
          LineCap,      \* MAX_REQUEST_BYTES
          ReadLimit     \* MAX_READ_BYTES

ASSUME ClientsFinite == IsFiniteSet(Clients)
ASSUME SlotsNat == DataSlots \in Nat /\ ControlSlots \in Nat
ASSUME LineCapPos == LineCap \in Nat \ {0}
ASSUME ReadLimitNat == ReadLimit \in Nat

VARIABLES is_running, \* Engine::is_running
          loop,       \* where the accept loop's thread is
          wake,       \* a wake-up is pending on the pair the loop polls
          watcher,    \* the signal watcher: "waiting", or between stop and wake
          failure,    \* the loop ended on an accept or poll error
          drained,    \* what wait_idle returned
          forced,     \* a second signal ended the process
          backlog,    \* the connections waiting for accept, oldest first
          conn,       \* conn[c]: where c's connection is
          role,       \* role[c]: the slot it was admitted on
          held,       \* held[c]: the bytes its ReadReservation holds
          active,     \* active_connections
          control,    \* control_connections
          answering,  \* Answering::count
          read_held   \* ReadBudget::held

loopVars == <<loop, failure, drained, forced>>
connVars == <<backlog, conn, role, held, active, control, answering, read_held>>
vars == <<is_running, loop, wake, watcher, failure, drained, forced,
          backlog, conn, role, held, active, control, answering, read_held>>

Loop == {"top",      \* before the first running check
         "poll",     \* in wait_for_client_or_wake
         "woken",    \* before the second running check
         "accept",   \* in listener.accept
         "cleanup",  \* left the loop, the socket file still there
         "close",    \* the socket file removed, the listener open
         "drain",    \* the listener closed, in wait_idle
         "leaving",  \* the drain is over, the process has not exited
         "exited"}

Conn == {"away",      \* no connection
         "queued",    \* in the listener's backlog
         "idle",      \* its thread blocks with nothing of a line read
         "reading",   \* part of a line is read
         "line",      \* a line is read
         "working",   \* in process_line
         "writing",   \* its response is being written
         "rejecting", \* a refusal is being written, then the next line
         "refusing",  \* a refusal is being written, then the end
         "ending"}    \* the handler returned, its slot is still held

\* The requests read and not yet answered.
Counted == {"reading", "line", "working", "writing", "rejecting", "refusing"}
\* The connections with a thread, and so with a slot.
Served == Counted \cup {"idle", "ending"}

Init == /\ is_running = TRUE
        /\ loop = "top"
        /\ wake = FALSE
        /\ watcher = "waiting"
        /\ failure = FALSE /\ drained = FALSE /\ forced = FALSE
        /\ backlog = <<>>
        /\ conn = [c \in Clients |-> "away"]
        /\ role = [c \in Clients |-> "none"]
        /\ held = [c \in Clients |-> 0]
        /\ active = 0 /\ control = 0 /\ answering = 0 /\ read_held = 0

Alive == loop # "exited"
-----------------------------------------------------------------------------
(* The accept loop, serve_bound. *)

\* The running check at the top of the loop.
Top == /\ loop = "top"
       /\ loop' = IF is_running THEN "poll" ELSE "cleanup"
       /\ UNCHANGED <<is_running, wake, watcher, failure, drained, forced, connVars>>

\* A fault of Woken: only the wake-up is polled for.
WokenByWake == /\ loop = "poll"
               /\ wake
               /\ loop' = "woken"
               /\ UNCHANGED <<is_running, wake, watcher, failure, drained, forced, connVars>>

\* poll returns: a client is queued or a wake-up is pending.
Woken == /\ loop = "poll"
         /\ wake \/ backlog # <<>>
         /\ loop' = "woken"
         /\ UNCHANGED <<is_running, wake, watcher, failure, drained, forced, connVars>>

\* The running check after the poll.
Recheck == /\ loop = "woken"
           /\ loop' = IF is_running THEN "accept" ELSE "cleanup"
           /\ UNCHANGED <<is_running, wake, watcher, failure, drained, forced, connVars>>

\* A poll or accept error that is not retried ends the loop.
Fail == /\ loop \in {"poll", "accept"}
        /\ loop' = "cleanup"
        /\ failure' = TRUE
        /\ UNCHANGED <<is_running, wake, watcher, drained, forced, connVars>>

\* accept finds no client, since the one that was queued gave up.
AcceptNone == /\ loop = "accept"
              /\ backlog = <<>>
              /\ loop' = "top"
              /\ UNCHANGED <<is_running, wake, watcher, failure, drained, forced, connVars>>

\* accept returns the client that has waited longest.
Accepts(c) == /\ loop = "accept"
              /\ backlog # <<>> /\ c = Head(backlog)
              /\ backlog' = Tail(backlog)

\* admit: the client gets a data slot, else a control slot.
AcceptServed(c) ==
  /\ Accepts(c)
  /\ \/ /\ active < DataSlots
        /\ active' = active + 1
        /\ role' = [role EXCEPT ![c] = "data"]
        /\ UNCHANGED control
     \/ /\ active >= DataSlots
        /\ control < ControlSlots
        /\ control' = control + 1
        /\ role' = [role EXCEPT ![c] = "control"]
        /\ UNCHANGED active
  /\ conn' = [conn EXCEPT ![c] = "idle"]
  /\ loop' = "top"
  /\ UNCHANGED <<is_running, wake, watcher, failure, drained, forced,
                 held, answering, read_held>>

\* admit: no slot is left, the peer is another user, or the thread could not be
\* spawned and its slot was given back at once.
AcceptDropped(c) ==
  /\ Accepts(c)
  /\ conn' = [conn EXCEPT ![c] = "away"]
  /\ loop' = "top"
  /\ UNCHANGED <<is_running, wake, watcher, failure, drained, forced,
                 role, held, active, control, answering, read_held>>

\* cleanup_owned_socket.
Cleanup == /\ loop = "cleanup"
           /\ loop' = "close"
           /\ UNCHANGED <<is_running, wake, watcher, failure, drained, forced, connVars>>

\* close_listener: the connections in the backlog are refused.
Close == /\ loop = "close"
         /\ loop' = "drain"
         /\ backlog' = <<>>
         /\ conn' = [c \in Clients |-> IF conn[c] = "queued" THEN "away" ELSE conn[c]]
         /\ UNCHANGED <<is_running, wake, watcher, failure, drained, forced,
                        role, held, active, control, answering, read_held>>

\* Answering::wait_idle returns: the count is zero, or DRAIN_WAIT has passed.
WaitIdle == /\ loop = "drain"
            /\ loop' = "leaving"
            /\ drained' = (answering = 0)
            /\ UNCHANGED <<is_running, wake, watcher, failure, forced, connVars>>

\* The watcher is joined, the start lock dropped, and main returns.
Exit == /\ loop = "leaving"
        /\ watcher = "waiting"
        /\ loop' = "exited"
        /\ UNCHANGED <<is_running, wake, watcher, failure, drained, forced, connVars>>

LoopStep == \/ Top \/ Woken \/ Recheck \/ AcceptNone
            \/ \E c \in Clients : AcceptServed(c) \/ AcceptDropped(c)
            \/ Cleanup \/ Close \/ WaitIdle \/ Exit
-----------------------------------------------------------------------------
(* The signal watcher, watch_signals. *)

\* The first signal stops the engine; its wake-up is the next step.
SignalStops == /\ loop \notin {"leaving", "exited"}
               /\ watcher = "waiting"
               /\ is_running
               /\ is_running' = FALSE
               /\ watcher' = "waking"
               /\ UNCHANGED <<loopVars, wake, connVars>>

SignalWakes == /\ Alive
               /\ watcher = "waking"
               /\ watcher' = "waiting"
               /\ wake' = TRUE
               /\ UNCHANGED <<is_running, loopVars, connVars>>

\* A signal that finds the engine stopping ends the process at once.
SignalForces == /\ loop \notin {"leaving", "exited"}
                /\ watcher = "waiting"
                /\ ~is_running
                /\ forced' = TRUE
                /\ loop' = "exited"
                /\ UNCHANGED <<is_running, wake, watcher, failure, drained, connVars>>
-----------------------------------------------------------------------------
(* A connection: handle_connection and handle_control_connection. *)

\* A client connects while the socket is there and the listener open.
Connect(c) == /\ loop \notin {"close", "drain", "leaving", "exited"}
              /\ conn[c] = "away"
              /\ conn' = [conn EXCEPT ![c] = "queued"]
              /\ backlog' = Append(backlog, c)
              /\ UNCHANGED <<is_running, wake, watcher, loopVars,
                             role, held, active, control, answering, read_held>>

\* A client leaves the backlog before it is accepted.
GiveUp(c) == /\ Alive
             /\ conn[c] = "queued"
             /\ conn' = [conn EXCEPT ![c] = "away"]
             /\ \E i \in DOMAIN backlog :
                  /\ backlog[i] = c
                  /\ backlog' = SubSeq(backlog, 1, i - 1) \o SubSeq(backlog, i + 1, Len(backlog))
             /\ UNCHANGED <<is_running, wake, watcher, loopVars,
                            role, held, active, control, answering, read_held>>

\* A fault of Move: a connection that ends leaves its bytes behind.
MoveLeavesBytes(c, s, bytes) ==
  /\ UNCHANGED backlog
  /\ conn' = [conn EXCEPT ![c] = s]
  /\ held' = [held EXCEPT ![c] = bytes]
  /\ read_held' = IF s = "ending" THEN read_held ELSE read_held - held[c] + bytes
  /\ answering' = answering + (IF s \in Counted THEN 1 ELSE 0)
                            - (IF conn[c] \in Counted THEN 1 ELSE 0)

\* c's thread goes to state s and gives back what the state's guards held: the
\* bytes of its reservation, and its count among the answers in progress.
Move(c, s, bytes) ==
  /\ UNCHANGED backlog
  /\ conn' = [conn EXCEPT ![c] = s]
  /\ held' = [held EXCEPT ![c] = bytes]
  /\ read_held' = read_held - held[c] + bytes
  /\ answering' = answering + (IF s \in Counted THEN 1 ELSE 0)
                            - (IF conn[c] \in Counted THEN 1 ELSE 0)

\* The states that the read of a line can end in, n bytes being held.
AfterChunk(c, n) == IF role[c] = "data" /\ n > LineCap THEN {"line"}
                                                       ELSE {"reading", "line"}

\* A chunk of n bytes arrives and the budget has room for it.  A control
\* connection reads at most 4 KiB and reserves nothing.
ReadChunk(c, n) ==
  /\ Alive
  /\ conn[c] \in {"idle", "reading"}
  /\ n <= LineCap + 1 - held[c]
  /\ \/ role[c] = "control" /\ \E s \in AfterChunk(c, 0) : Move(c, s, 0)
     \/ /\ role[c] = "data"
        /\ read_held + n <= ReadLimit
        /\ \E s \in AfterChunk(c, held[c] + n) : Move(c, s, held[c] + n)
  /\ UNCHANGED <<is_running, wake, watcher, loopVars, role, active, control>>

\* The budget has no room for the chunk: the request is answered busy.
ReadRefused(c, n) ==
  /\ Alive
  /\ conn[c] \in {"idle", "reading"}
  /\ role[c] = "data"
  /\ n <= LineCap + 1 - held[c]
  /\ read_held + n > ReadLimit
  /\ Move(c, "refusing", held[c])
  /\ UNCHANGED <<is_running, wake, watcher, loopVars, role, active, control>>

\* End of file within a line: what was read is the line.
ReadEof(c) ==
  /\ Alive
  /\ conn[c] = "reading"
  /\ Move(c, "line", held[c])
  /\ UNCHANGED <<is_running, wake, watcher, loopVars, role, active, control>>

\* End of file with nothing read, the read deadline, or a read error.
ReadEnds(c) ==
  /\ Alive
  /\ conn[c] \in {"idle", "reading"}
  /\ Move(c, "ending", 0)
  /\ UNCHANGED <<is_running, wake, watcher, loopVars, role, active, control>>

\* A fault of DataLine: work begins without a check that the engine runs.
DataLineUnchecked(c) ==
  \/ held[c] > LineCap /\ Move(c, "refusing", held[c])
  \/ held[c] <= LineCap /\ Move(c, "working", held[c])

\* What becomes of a line of a data connection before it is processed.
DataLine(c) ==
  \/ held[c] > LineCap /\ Move(c, "refusing", held[c])
  \/ /\ held[c] <= LineCap
     /\ \/ Move(c, "rejecting", held[c]) \* not UTF-8
        \/ Move(c, "idle", 0)            \* blank
        \/ ~is_running /\ Move(c, "refusing", held[c])
        \/ is_running /\ Move(c, "working", held[c])

\* A control connection answers a control method, whatever the engine does, and
\* refuses any other line.
ControlLine(c) == Move(c, "working", 0) \/ Move(c, "refusing", 0)

TakeLine(c) ==
  /\ Alive
  /\ conn[c] = "line"
  /\ IF role[c] = "data" THEN DataLine(c) ELSE ControlLine(c)
  /\ UNCHANGED <<is_running, wake, watcher, loopVars, role, active, control>>

\* The request being processed is daemon.shutdown.
Shutdown(c) ==
  /\ Alive
  /\ conn[c] = "working"
  /\ is_running' = FALSE
  /\ UNCHANGED <<wake, watcher, loopVars, connVars>>

\* process_line returns; the read reservation is dropped before the response is
\* written.
Respond(c) ==
  /\ Alive
  /\ conn[c] = "working"
  /\ Move(c, "writing", 0)
  /\ UNCHANGED <<is_running, wake, watcher, loopVars, role, active, control>>

\* Where a connection goes once its response or refusal is written.
AfterWrite(c) ==
  IF \/ role[c] = "control"
     \/ conn[c] = "refusing"
     \/ conn[c] = "writing" /\ ~is_running
  THEN "ending"
  ELSE "idle"

Written(c) ==
  /\ Alive
  /\ conn[c] \in {"writing", "rejecting", "refusing"}
  /\ Move(c, AfterWrite(c), 0)
  /\ UNCHANGED <<is_running, wake, watcher, loopVars, role, active, control>>

\* write_line_within fails: the client left, or did not read in time.
WriteFails(c) ==
  /\ Alive
  /\ conn[c] \in {"writing", "rejecting", "refusing"}
  /\ Move(c, "ending", 0)
  /\ UNCHANGED <<is_running, wake, watcher, loopVars, role, active, control>>

\* The end of the connection's thread: it wakes the loop if the engine stopped,
\* and gives its slot back.
EndThread(c) ==
  /\ Alive
  /\ conn[c] = "ending"
  /\ wake' = (wake \/ ~is_running)
  /\ IF role[c] = "data" THEN active' = active - 1 /\ UNCHANGED control
                         ELSE control' = control - 1 /\ UNCHANGED active
  /\ conn' = [conn EXCEPT ![c] = "away"]
  /\ role' = [role EXCEPT ![c] = "none"]
  /\ UNCHANGED <<is_running, watcher, loopVars, backlog, held, answering, read_held>>

\* The steps that c's thread takes by itself once a line is read: the deadlines
\* of the work and of the write make it take them.
Finish(c) == TakeLine(c) \/ Respond(c) \/ Written(c) \/ WriteFails(c) \/ EndThread(c)

Next == \/ LoopStep
        \/ Fail
        \/ SignalStops \/ SignalWakes \/ SignalForces
        \/ \E c \in Clients :
             \/ Connect(c) \/ GiveUp(c)
             \/ \E n \in 1 .. LineCap + 1 : ReadChunk(c, n) \/ ReadRefused(c, n)
             \/ ReadEof(c) \/ ReadEnds(c)
             \/ Shutdown(c)
             \/ Finish(c)

Spec == Init /\ [][Next]_vars

\* The threads run, and the read of every line meets its end or its deadline.
\* Clients need not connect or send, and nothing need fail or signal.
FairSpec == /\ Spec
            /\ WF_vars(LoopStep)
            /\ WF_vars(SignalWakes)
            /\ \A c \in Clients : WF_vars(Finish(c)) /\ WF_vars(ReadEnds(c))
-----------------------------------------------------------------------------
\* The types of the shared state and of each connection's place.
TypeOK == /\ is_running \in BOOLEAN /\ wake \in BOOLEAN
          /\ loop \in Loop
          /\ watcher \in {"waiting", "waking"}
          /\ failure \in BOOLEAN /\ drained \in BOOLEAN /\ forced \in BOOLEAN
          /\ backlog \in Seq(Clients)
          /\ conn \in [Clients -> Conn]
          /\ role \in [Clients -> {"none", "data", "control"}]
          /\ held \in [Clients -> 0 .. LineCap + 1]
          /\ active \in Nat /\ control \in Nat
          /\ answering \in Nat /\ read_held \in Nat

\* The connections in one of the states S.
In(S) == {c \in Clients : conn[c] \in S}

\* The count a stop waits on is the number of requests read and not answered,
\* on every path of handle_connection: refusals, errors and closes too.
AnsweringExact == answering = Cardinality(In(Counted))

\* The read budget holds the bytes of the lines being read, refused or worked
\* on, within MAX_READ_BYTES, and nothing else: no path leaks a reservation.
ReadBudgetExact == /\ read_held = Total(Clients, held)
                   /\ read_held <= ReadLimit
                   /\ \A c \in In({"away", "queued", "idle", "writing", "ending"}) :
                        held[c] = 0

\* Each connection thread holds one slot of its kind, and the slots are never
\* more than MAX_CONNECTIONS and CONTROL_CONNECTIONS.
SlotsExact ==
  /\ active = Cardinality({c \in In(Served) : role[c] = "data"})
  /\ control = Cardinality({c \in In(Served) : role[c] = "control"})
  /\ active <= DataSlots /\ control <= ControlSlots

\* What the connection threads, the accept loop and the drain keep together is exact:
\* the slots, the bytes of the lines being read, the answers a stop waits for.
AccountsExact == TypeOK /\ AnsweringExact /\ ReadBudgetExact /\ SlotsExact

\* A drained exit: wait_idle found no answer in progress and main returned.
DrainedExit == loop = "exited" /\ drained /\ ~forced

\* The requests of data connections whose work began and whose answer is not
\* written.
Unanswered == {c \in In({"working", "writing"}) : role[c] = "data"}

\* serve.rs:773-774, for a stop: "none is cut off after its work began".  A stop
\* whose drain ended leaves no data request worked on and unanswered, also
\* when its first byte came after the drain.
StopCutsNothingOff == DrainedExit /\ ~failure => Unanswered = {}

\* The same for every end of the loop: "A persistent accept error ends the loop
\* like a shutdown" (serve.rs:1289).  It does not hold (README, Findings).
LoopEndCutsNothingOff == DrainedExit => Unanswered = {}

\* A stop, whoever asked for it, ends the process: the loop is woken even when
\* no client connects again, and the drain is bounded.
StopEnds == ~is_running ~> loop = "exited"

\* A client in the backlog is taken out of it, even when every data slot is
\* held by clients that send nothing.
BacklogMoves == \A c \in Clients :
  conn[c] = "queued" ~> conn[c] # "queued" \/ loop = "exited"

\* Nobody waits for ever on the accept loop: a stop ends the process, and a queued
\* client is taken or refused.
ServerMovesOn == StopEnds /\ BacklogMoves
=============================================================================
