------------------------------- MODULE Startup -------------------------------
(***************************************************************************)
(* `daemon start` and `daemon stop` at one socket path                     *)
(* (crates/deep-diff-forge-daemon/src/serve.rs: bind_locked,               *)
(* take_start_lock, remove_stale_socket, cleanup_owned_socket, the end of  *)
(* serve_bound, StopWaiter; crates/deep-diff-forge-cli/src/main.rs:        *)
(* daemon_stop).                                                           *)
(*                                                                         *)
(* Processes share the socket file and the start lock beside it; one step  *)
(* is one system call on either.  A process may be killed between any two  *)
(* steps, and an outsider may remove the socket file.  The lock file, once *)
(* created, is never removed, and nobody else binds at the path.           *)
(*                                                                         *)
(* Each process runs once, so a socket is named by the process that bound  *)
(* it: (dev, ino) is taken to identify a socket for good.                  *)
(***************************************************************************)
EXTENDS FiniteSets, Naturals

CONSTANTS Starts,    \* the `daemon start` processes
          Stops,     \* the `daemon stop` processes
          None,      \* no process
          LockExists \* a daemon was started at this path before

ASSUME DistinctProcesses == Starts \cap Stops = {} /\ None \notin Starts \cup Stops
ASSUME LockExistsBoolean == LockExists \in BOOLEAN

VARIABLES file,      \* the daemon whose socket is at the path
          lock_file, \* the lock file exists
          exclusive, \* the process with the exclusive flock
          shared,    \* the `daemon stop` processes with a shared flock
          removed,   \* an outsider removed the socket file
          pc,        \* pc[p]: where the process is
          watcher,   \* watcher[p]: where the signal watcher of p is
          opened,    \* opened[q]: the StopWaiter of q found a lock file
          asked      \* asked[q]: the daemon that q connected to

vars == <<file, lock_file, exclusive, shared, removed, pc, watcher, opened, asked>>

Procs == Starts \cup Stops

StartPCs == {"new",       \* not started
             "probe",     \* holds the start lock, before remove_stale_socket
             "connect",   \* there is a socket, before connecting to it
             "stale",     \* the socket there is dead, before remove_file
             "bind",      \* before UnixListener::bind
             "bound",     \* before set_permissions
             "owned",     \* before serve_bound stats the socket
             "serving",   \* in the accept loop
             "cleanup",   \* the loop has ended, before the stat of the socket
             "unlink",    \* the socket is its own, before remove_file
             "close",     \* the socket file removed, the listener open
             "drain",     \* the listener closed, in wait_idle
             "exited",    \* ended after its cleanup
             "refused",   \* ended: the start lock is held
             "failed",    \* ended on another error of the bind
             "killed"}

StopPCs == {"new",
            "opened",  \* stop_waiter returned
            "asking",  \* connected, waiting for the answer
            "blocked", \* the helper is in flock(LockShared)
            "locked",  \* the helper has the shared lock
            "dropped", \* the helper closed the file
            "true",    \* exit 0: the daemon has exited
            "false",   \* exit 6: the wait timed out
            "failed"}  \* exit 6: no daemon answered

WatcherPCs == {"none",   \* the process has none: not yet, or no more
               "waits",  \* for a second signal
               "unlink"} \* it came and the socket is its own, before remove_file

\* The loop runs or has ended; the watcher runs beside it.
StoppingPCs == {"serving", "cleanup", "unlink", "close", "drain"}

\* The daemons that have a listening socket.
Listening == {p \in Starts : pc[p] \in {"bound", "owned", "serving", "cleanup", "unlink", "close"}}

Init == /\ file = None
        /\ lock_file = LockExists
        /\ exclusive = None
        /\ shared = {}
        /\ removed = FALSE
        /\ pc = [p \in Procs |-> "new"]
        /\ watcher = [p \in Starts |-> "none"]
        /\ opened = [q \in Stops |-> FALSE]
        /\ asked = [q \in Stops |-> None]

Goto(p, s) == pc' = [pc EXCEPT ![p] = s]

\* The process ends in s with its threads, and the kernel closes its lock file.
End(p, s) == /\ Goto(p, s)
             /\ watcher' = [q \in Starts |-> IF q = p THEN "none" ELSE watcher[q]]
             /\ exclusive' = IF exclusive = p THEN None ELSE exclusive
             /\ shared' = shared \ {p}
-----------------------------------------------------------------------------
(* A `daemon start`. *)

\* take_start_lock: the file is created if absent and flocked without waiting.
TakeStartLock(p) ==
  /\ pc[p] = "new"
  /\ lock_file' = TRUE
  /\ IF exclusive = None /\ shared = {}
       THEN exclusive' = p /\ Goto(p, "probe")
       ELSE UNCHANGED exclusive /\ Goto(p, "refused")
  /\ UNCHANGED <<file, shared, removed, opened, asked, watcher>>

\* remove_stale_socket: is there a socket at the path?
Stat(p) ==
  /\ pc[p] = "probe"
  /\ Goto(p, IF file = None THEN "bind" ELSE "connect")
  /\ UNCHANGED <<file, lock_file, exclusive, shared, removed, opened, asked, watcher>>

\* remove_stale_socket: a daemon answers, or the socket is gone meanwhile, or
\* nobody listens on it any more.
Probe(p) ==
  /\ pc[p] = "connect"
  /\ IF file \in Listening \cup {None}
       THEN End(p, "failed")
       ELSE Goto(p, "stale") /\ UNCHANGED <<exclusive, shared, watcher>>
  /\ UNCHANGED <<file, lock_file, removed, opened, asked>>

\* remove_file of the stale socket; an error if it is gone meanwhile.
RemoveStale(p) ==
  /\ pc[p] = "stale"
  /\ IF file = None THEN End(p, "failed")
                    ELSE Goto(p, "bind") /\ UNCHANGED <<exclusive, shared, watcher>>
  /\ file' = None
  /\ UNCHANGED <<lock_file, removed, opened, asked>>

\* UnixListener::bind creates the socket file, and fails if there is one.
Bind(p) ==
  /\ pc[p] = "bind"
  /\ IF file = None
       THEN file' = p /\ Goto(p, "bound") /\ UNCHANGED <<exclusive, shared, watcher>>
       ELSE End(p, "failed") /\ UNCHANGED file
  /\ UNCHANGED <<lock_file, removed, opened, asked>>

\* set_permissions, then serve_bound's symlink_metadata: each fails when the path
\* is empty.  After them the signal watcher is started.
Settle(p) ==
  /\ pc[p] \in {"bound", "owned"}
  /\ IF file = None THEN End(p, "failed")
     ELSE /\ Goto(p, IF pc[p] = "bound" THEN "owned" ELSE "serving")
          /\ watcher' = [watcher EXCEPT ![p] = IF pc[p] = "bound" THEN "none" ELSE "waits"]
          /\ UNCHANGED <<exclusive, shared>>
  /\ UNCHANGED <<file, lock_file, removed, opened, asked>>

\* The setup after it fails, or the loop ends: a stop, a signal, an accept error.
LeaveLoop(p) ==
  /\ pc[p] = "serving"
  /\ Goto(p, "cleanup")
  /\ UNCHANGED <<file, lock_file, exclusive, shared, removed, opened, asked, watcher>>

\* cleanup_owned_socket: is the socket at the path still this daemon's?
StatOwned(p) ==
  /\ pc[p] = "cleanup"
  /\ Goto(p, IF file = p THEN "unlink" ELSE "close")
  /\ UNCHANGED <<file, lock_file, exclusive, shared, removed, opened, asked, watcher>>

\* cleanup_owned_socket: remove_file takes what is at the path by then.
RemoveOwned(p) ==
  /\ pc[p] = "unlink"
  /\ file' = None
  /\ Goto(p, "close")
  /\ UNCHANGED <<lock_file, exclusive, shared, removed, opened, asked, watcher>>

\* A fault of CloseListener: the start lock goes with the listener.
CloseAndUnlock(p) ==
  /\ pc[p] = "close"
  /\ exclusive' = None
  /\ Goto(p, "drain")
  /\ UNCHANGED <<file, lock_file, shared, removed, opened, asked, watcher>>

\* close_listener keeps the start lock.
CloseListener(p) ==
  /\ pc[p] = "close"
  /\ Goto(p, "drain")
  /\ UNCHANGED <<file, lock_file, exclusive, shared, removed, opened, asked, watcher>>

\* A fault of Exit: the signal watcher is joined and never told to end.
ExitBlocked(p) == pc[p] = "drain" /\ FALSE

\* The drain is over: the watcher is told to end and joined, the start lock is dropped
\* and the process returns.
Exit(p) ==
  /\ pc[p] = "drain" /\ watcher[p] = "waits"
  /\ End(p, "exited")
  /\ UNCHANGED <<file, lock_file, removed, opened, asked>>

\* A second signal while stopping: the watcher goes through cleanup_owned_socket beside
\* the main thread, and ends the process as soon as it returns.
ForceStat(p) ==
  /\ pc[p] \in StoppingPCs /\ watcher[p] = "waits" /\ file = p
  /\ watcher' = [watcher EXCEPT ![p] = "unlink"]
  /\ UNCHANGED <<file, lock_file, exclusive, shared, removed, pc, opened, asked>>
ForcedExit(p) ==
  /\ pc[p] \in StoppingPCs
  /\ \/ watcher[p] = "waits" /\ file # p /\ UNCHANGED file
     \/ watcher[p] = "unlink" /\ file' = None
  /\ End(p, "exited")
  /\ UNCHANGED <<lock_file, removed, opened, asked>>

\* SIGKILL or a crash: the kernel closes the listener and the lock.
Killed(p) ==
  /\ pc[p] \notin {"new", "exited", "refused", "failed", "killed"}
  /\ End(p, "killed")
  /\ UNCHANGED <<file, lock_file, removed, opened, asked>>

\* Somebody removes the socket file by hand.
OutsiderRemoves ==
  /\ file # None
  /\ file' = None
  /\ removed' = TRUE
  /\ UNCHANGED <<lock_file, exclusive, shared, pc, opened, asked, watcher>>
-----------------------------------------------------------------------------
(* A `daemon stop`: daemon_stop, stop_waiter and StopWaiter::wait. *)

\* stop_waiter opens the lock file, if there is one.
OpenLock(q) ==
  /\ pc[q] = "new"
  /\ opened' = [opened EXCEPT ![q] = lock_file]
  /\ Goto(q, "opened")
  /\ UNCHANGED <<file, lock_file, exclusive, shared, removed, asked, watcher>>

\* daemon_client connects, or ends the process.
Ask(q) ==
  /\ pc[q] = "opened"
  /\ IF file \in Listening THEN /\ asked' = [asked EXCEPT ![q] = file]
                                /\ Goto(q, "asking")
                           ELSE Goto(q, "failed") /\ UNCHANGED asked
  /\ UNCHANGED <<file, lock_file, exclusive, shared, removed, opened, watcher>>

\* The daemon answers, and the wait begins: at once true with no lock file.
Answered(q) ==
  /\ pc[q] = "asking"
  /\ pc[asked[q]] \in StoppingPCs
  /\ Goto(q, IF opened[q] THEN "blocked" ELSE "true")
  /\ UNCHANGED <<file, lock_file, exclusive, shared, removed, opened, asked, watcher>>

\* No answer: the daemon is gone, or did not answer in time.
Unanswered(q) ==
  /\ pc[q] = "asking"
  /\ Goto(q, "failed")
  /\ UNCHANGED <<file, lock_file, exclusive, shared, removed, opened, asked, watcher>>

\* The helper gets the shared lock.
LockShared(q) ==
  /\ pc[q] = "blocked"
  /\ exclusive = None
  /\ shared' = shared \cup {q}
  /\ Goto(q, "locked")
  /\ UNCHANGED <<file, lock_file, exclusive, removed, opened, asked, watcher>>

\* The helper closes the file before it reports.
DropLock(q) ==
  /\ pc[q] = "locked"
  /\ shared' = shared \ {q}
  /\ Goto(q, "dropped")
  /\ UNCHANGED <<file, lock_file, exclusive, removed, opened, asked, watcher>>

Report(q) ==
  /\ pc[q] = "dropped"
  /\ Goto(q, "true")
  /\ UNCHANGED <<file, lock_file, exclusive, shared, removed, opened, asked, watcher>>

\* recv_timeout runs out; the process exits, and the helper with it.
WaitTimesOut(q) ==
  /\ pc[q] \in {"blocked", "locked", "dropped"}
  /\ End(q, "false")
  /\ UNCHANGED <<file, lock_file, removed, opened, asked>>

\* The steps of a start and of a stop that nothing outside them has to cause.
StartStep(p) == \/ Stat(p) \/ Probe(p) \/ RemoveStale(p) \/ Bind(p) \/ Settle(p)
                \/ StatOwned(p) \/ RemoveOwned(p) \/ CloseListener(p) \/ Exit(p)
StopStep(q) == \/ Ask(q) \/ Answered(q) \/ Unanswered(q)
               \/ LockShared(q) \/ DropLock(q) \/ Report(q)

Next == \/ \E p \in Starts : \/ TakeStartLock(p) \/ StartStep(p) \/ LeaveLoop(p)
                             \/ ForceStat(p) \/ ForcedExit(p) \/ Killed(p)
        \/ \E q \in Stops : OpenLock(q) \/ StopStep(q) \/ WaitTimesOut(q)
        \/ OutsiderRemoves

Spec == Init /\ [][Next]_vars

\* Processes run.  A daemon that was asked to stop leaves its loop (module Serve,
\* StopEnds); no wait need time out.
FairSpec ==
  /\ Spec
  /\ \A p \in Starts : /\ WF_vars(StartStep(p))
                       /\ WF_vars(watcher[p] = "unlink" /\ ForcedExit(p))
                       /\ WF_vars((\E q \in Stops : pc[q] = "blocked" /\ asked[q] = p)
                                  /\ LeaveLoop(p))
  /\ \A q \in Stops : WF_vars(StopStep(q))
-----------------------------------------------------------------------------
\* The types of the files, the locks and each process's place.
TypeOK == /\ file \in Starts \cup {None}
          /\ lock_file \in BOOLEAN /\ removed \in BOOLEAN
          /\ exclusive \in Starts \cup {None}
          /\ shared \subseteq Stops
          /\ \A p \in Starts : pc[p] \in StartPCs /\ watcher[p] \in WatcherPCs
          /\ \A q \in Stops : pc[q] \in StopPCs
          /\ opened \in [Stops -> BOOLEAN]
          /\ asked \in [Stops -> Starts \cup {None}]

\* However starts, stops, kills and removals of the socket interleave, two
\* daemons never listen at the path (serve.rs:219-228).
OneDaemonListens == Cardinality(Listening) <= 1

\* No start, stop or exit of another process takes a running daemon's socket from
\* the path: it stays reachable unless an outsider removes the file.
NotOrphaned == \A p \in Starts :
  pc[p] \in {"bound", "owned", "serving"} /\ ~removed => file = p

\* A daemon that ends by itself, forced or not, leaves no socket file behind.
NoSocketLeft == \A p \in Starts : pc[p] = "exited" => file # p

\* main.rs:620-621: "`stop` returns once the daemon has exited (its drain done,
\* its start lock free)": the daemon that answered it is gone.
StopMeansExited == \A q \in Stops :
  pc[q] = "true" => pc[asked[q]] \in {"exited", "failed", "killed"}

\* What the path and a stop's exit 0 tell is so: there is one daemon at the path and it
\* keeps its socket, one that ended left none, and a stop that says so has outlived
\* the daemon it asked.
PathTellsTruth == TypeOK /\ OneDaemonListens /\ NotOrphaned /\ NoSocketLeft /\ StopMeansExited

\* serve.rs:197-198: "so a `daemon start` right after a `true` finds the lock
\* free": a start that comes after a stop's true is refused only for a daemon.  It does
\* not hold with two stops (README, Findings).
StartAfterStopFindsLockFree ==
  [][(\E q \in Stops : pc[q] = "true")
       /\ (\E p \in Starts : pc[p] = "new" /\ pc'[p] = "refused")
     => exclusive # None]_vars

\* A stop returns before its timeout, unless a start takes the lock that its
\* helper waits for: no order of stops and kills leaves the helper blocked.
StopReturns == \A q \in Stops :
  pc[q] # "new" ~> \/ pc[q] \in {"true", "false", "failed"}
                  \/ exclusive \notin {None, asked[q]}
=============================================================================
