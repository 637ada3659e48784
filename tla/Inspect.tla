------------------------------- MODULE Inspect --------------------------------
(***************************************************************************)
(* What a daemon location allows, told three ways: the rules a start       *)
(* applies (crates/deep-diff-forge-daemon/src/serve.rs, security.rs), the  *)
(* ones a client meets, and what `deploy doctor` says of the same place    *)
(* without changing it (daemon/src/inspect.rs, cli/src/doctor.rs).         *)
(*                                                                         *)
(* A place is the directory, the socket and the start lock as other        *)
(* programs and earlier daemons may leave them, at the default location or *)
(* one that --socket names.                                                *)
(***************************************************************************)
EXTENDS Naturals

VARIABLE place

Provenance == {"EngineDefault", "Explicit"}
Dirs == {"absent", "private", "open", "foreign", "file", "symlink"}  \* "open": ours, with group or other access
Sockets == {"absent", "live", "troubled", "odd", "silent", "stale", "foreign", "file"}
Locks == {"absent", "usable", "held", "foreign", "dir", "symlink"}

\* Nothing is in a directory that does not exist; a daemon that answers holds its lock.
Possible(p) ==
  /\ p.dir \in {"absent", "file"} => p.socket = "absent" /\ p.lock = "absent"
  /\ p.socket \in {"live", "troubled", "odd", "silent"} => p.lock = "held"

DInit == place \in {p \in [provenance : Provenance, dir : Dirs, socket : Sockets, lock : Locks] : Possible(p)}

\* validate_private_dir
validate_private_dir(dir) == CASE dir = "absent" -> "Missing"
                               [] dir = "symlink" -> "Symlink"
                               [] dir = "file" -> "NotADirectory"
                               [] dir = "foreign" -> "WrongOwner"
                               [] dir = "open" -> "TooPermissive"
                               [] dir = "private" -> "Ok"

\* ensure_runtime_dir: created when it is absent, and made private; chmod refuses one that
\* is another user's.
ensure_runtime_dir(dir) == IF dir \in {"absent", "open", "private"} THEN "private" ELSE "refused"

\* bind_explicit: created when it is absent, and otherwise only looked at.
explicit_dir(dir) == IF dir = "absent" \/ validate_private_dir(dir) = "Ok" THEN "private" ELSE "refused"

\* take_start_lock
take_start_lock(lock) == lock \in {"absent", "usable"}

\* remove_stale_socket: nothing there, or a socket nobody answers on.
remove_stale_socket(socket) == socket \in {"absent", "stale"}

\* bind: bind_secure or bind_explicit, then bind_locked; the place after it.
DirAfter(p) == IF p.provenance = "EngineDefault" THEN ensure_runtime_dir(p.dir) ELSE explicit_dir(p.dir)
Starts(p) == /\ DirAfter(p) = "private"
             /\ take_start_lock(p.lock)
             /\ remove_stale_socket(p.socket)

bind == /\ place' = IF Starts(place)
                    THEN [place EXCEPT !.dir = "private", !.socket = "live", !.lock = "held"]
                    ELSE [place EXCEPT !.dir = IF DirAfter(place) = "private" THEN "private" ELSE @,
                                       !.lock = IF DirAfter(place) = "private" /\ @ = "absent" THEN "usable" ELSE @]
\* The daemon ends: cleanly, or killed with its socket left behind.
Ends == /\ place.socket \in {"live", "troubled", "odd", "silent"}
        /\ \E s \in {"absent", "stale"} : place' = [place EXCEPT !.socket = s, !.lock = "usable"]
\* While it runs it may come to trouble.
Trouble == /\ place.socket = "live" /\ place' = [place EXCEPT !.socket = "troubled"]

DNext == bind \/ Ends \/ Trouble

DSpec == DInit /\ [][DNext]_place

\* request: it connects, the daemon is of this user and answers.
Answers(p) == p.socket \in {"live", "troubled", "odd"}

\* inspect
dir_state(dir) == IF dir = "absent" THEN "Absent"
                  ELSE IF validate_private_dir(dir) = "Ok" THEN "Private" ELSE "Refused"
socket_state(s) == CASE s = "absent" -> "Absent"
                     [] s = "file" -> "NotASocket"
                     [] s \in {"live", "troubled"} -> "Live"
                     [] s \in {"odd", "silent"} -> "Unreachable"
                     [] s = "stale" -> "Stale"
                     [] s = "foreign" -> "Foreign"
lock_state(l) == CASE l = "absent" -> "Absent"
                   [] l \in {"usable", "held"} -> "Usable"
                   [] l \in {"foreign", "dir", "symlink"} -> "Refused"

\* checks and exit_code: a check that fails is exit 6.
checks(p) == [socket_dir |-> IF dir_state(p.dir) = "Refused" THEN "fail" ELSE "ok",
              daemon |-> CASE socket_state(p.socket) \in {"Foreign", "NotASocket", "Unreachable"} -> "fail"
                           [] p.socket \in {"stale", "troubled"} -> "warn"
                           [] OTHER -> "ok",
              start_lock |-> IF lock_state(p.lock) = "Refused" THEN "fail" ELSE "ok"]
Healthy(p) == \A c \in DOMAIN checks(p) : checks(p)[c] # "fail"
-----------------------------------------------------------------------------
\* At every place that no daemon runs at, a check that fails is one a start fails on
\* (doctor.rs:9-10: "every failing check is one a `daemon start` or a daemon client would
\* also fail on").
DoctorFailsOnlyWhatFails == ~Healthy(place) /\ ~Answers(place) => ~Starts(place)
=============================================================================
