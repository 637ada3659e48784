------------------------------- MODULE Textfile -------------------------------
(***************************************************************************)
(* `daemon metrics --out PATH`, crates/deep-diff-forge-cli/src/textfile.rs: *)
(* a file is replaced through a temporary beside it, by runs that may      *)
(* overlap and may be killed between any two system calls.  A pid may be   *)
(* used again once its run is over.  A reader of PATH, node_exporter's     *)
(* textfile collector, may look at any moment.                             *)
(***************************************************************************)
EXTENDS Naturals

CONSTANTS Writers,                \* the runs, each of which writes its own contents
          Pids,
          TEMPORARY_ATTEMPTS

\* Whose contents a file has: a run's, or of what was at PATH before.
Origins == {"before", "link", "dir", "none"}

ASSUME AttemptsPos == TEMPORARY_ATTEMPTS \in Nat \ {0}
ASSUME RunsAreNew == Writers \cap Origins = {}

VARIABLES at,       \* what is at PATH: Nothing, Link, Dir, or a file of a run
          temp,     \* temp[p, k]: the file at the temporary name of pid p, attempt k
          run       \* run[r]: [pc, pid, try]

textVars == <<at, temp, run>>

\* A file's contents: whose, and how much of it; 2 is all of it.
File(r, size) == [of |-> r, size |-> size]
Old == File("before", 2)
Link == File("link", 0)
Dir == File("dir", 0)
Nothing == File("none", 0)
Live(r) == run[r].pc \notin {"new", "done", "refused", "killed"}

TInit == /\ at \in {Nothing, Old, Link, Dir}
         /\ temp = [n \in Pids \X (0 .. TEMPORARY_ATTEMPTS - 1) |-> Nothing]
         /\ run = [r \in Writers |-> [pc |-> "new", pid |-> "none", try |-> 0]]

Becomes(r, pc) == run' = [run EXCEPT ![r].pc = pc]

\* A process starts with a pid no running process has, and looks at what is at PATH:
\* anything but a file, or nothing, is refused.
Begin(r) == /\ run[r].pc = "new"
            /\ \E p \in Pids :
                 /\ \A q \in Writers : Live(q) => run[q].pid # p
                 /\ run' = [run EXCEPT ![r] =
                      [pc |-> IF at \in {Link, Dir} THEN "refused" ELSE "create", pid |-> p, try |-> 0]]
            /\ UNCHANGED <<at, temp>>

Mine(r) == <<run[r].pid, run[r].try>>

\* create_new: only a name nothing has.
Free(r) == temp[Mine(r)] = Nothing

\* create_temporary: the next name while one is taken, the first that is free.
create_temporary(r) ==
  /\ run[r].pc = "create"
  /\ IF Free(r)
     THEN /\ temp' = [temp EXCEPT ![Mine(r)] = File(r, 0)]
          /\ Becomes(r, "write")
     ELSE /\ run' = [run EXCEPT ![r].pc = IF run[r].try + 1 < TEMPORARY_ATTEMPTS THEN "create" ELSE "refused",
                                ![r].try = IF run[r].try + 1 < TEMPORARY_ATTEMPTS THEN @ + 1 ELSE @]
          /\ UNCHANGED temp
  /\ UNCHANGED at

\* set_permissions, write_all, sync_all: the bytes arrive, or the disk is full.
Writes(r) == /\ run[r].pc = "write" 
             /\ temp' = [temp EXCEPT ![Mine(r)] = File(r, @.size + 1)]
             /\ Becomes(r, IF temp[Mine(r)].size + 1 = 2 THEN "rename" ELSE "write")
             /\ UNCHANGED at

\* A fault of OnError: the error is dropped.
CarryOn == "rename"

\* Any error on the way to the rename ends in the temporary's removal.
OnError == "remove"
WriteFails(r) == /\ run[r].pc \in {"write", "rename"}
                 /\ Becomes(r, OnError)
                 /\ UNCHANGED <<at, temp>>

\* rename over PATH; a directory there refuses it.
Renames(r) == /\ run[r].pc = "rename" /\ at # Dir
              /\ at' = temp[Mine(r)]
              /\ temp' = [temp EXCEPT ![Mine(r)] = Nothing]
              /\ Becomes(r, "done")

\* remove_file, after an error; what it says does not matter.
Removes(r) == /\ run[r].pc = "remove"
              /\ temp' = [temp EXCEPT ![Mine(r)] = Nothing]
              /\ Becomes(r, "refused")
              /\ UNCHANGED at

RunKilled(r) == /\ Live(r)
                /\ Becomes(r, "killed")
                /\ UNCHANGED <<at, temp>>

TNext == \E r \in Writers : \/ Begin(r) \/ create_temporary(r) \/ Writes(r) \/ WriteFails(r)
                         \/ Renames(r) \/ Removes(r) \/ RunKilled(r)

TSpec == TInit /\ [][TNext]_textVars
-----------------------------------------------------------------------------
\* What is at PATH is what was there before or the whole contents of one run, whoever else
\* was writing or was killed; a run that said it wrote has replaced it, so of the runs that
\* are done one wrote what is there; and a run that was not killed leaves no file of its
\* own beside it (textfile.rs: "the old contents or the new, never half of either").
FileIsWhole ==
  /\ at \in {Nothing, Link, Dir, Old} \cup {File(r, 2) : r \in Writers}
  /\ (\E r \in Writers : run[r].pc = "done") <=> (\E r \in Writers : at = File(r, 2))
  /\ \A r \in Writers : run[r].pc \in {"done", "refused"} => \A n \in DOMAIN temp : temp[n] = Nothing \/ temp[n].of # r
=============================================================================
