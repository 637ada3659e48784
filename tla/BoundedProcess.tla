--------------------------- MODULE BoundedProcess ----------------------------
(***************************************************************************)
(* run_bounded (core process.rs), and Runner::output of Git acquisition,    *)
(* which waits the same way: a child with its three pipes on threads of     *)
(* their own, polled by the caller until it exits, writes too much or runs  *)
(* past the deadline.                                                       *)
(*                                                                          *)
(* The child may start a helper that inherits its pipes and outlives it.    *)
(* Neither is trusted to end.  Output is counted in units.                  *)
(***************************************************************************)
EXTENDS Naturals

CONSTANTS
    StdoutLimit,  \* Limits::stdout_bytes
    MaxWritten,   \* bound: what the child and its helper write
    PipeSize      \* what the pipe holds before a write blocks

ASSUME LimitsNat == StdoutLimit \in Nat /\ MaxWritten \in Nat /\ PipeSize \in Nat

VARIABLES proc

processVars == <<proc>>

\* The three threads are `done` when their function has returned.
Spawned == [child |-> "running", helper |-> "none", written |-> 0, kept |-> 0, over |-> FALSE,
            stdoutDone |-> FALSE, stderrDone |-> FALSE, writerDone |-> FALSE,
            late |-> FALSE, caller |-> "poll", result |-> "none"]
ProcessInit == proc = Spawned

Holding == proc.child = "running" \/ proc.helper = "running"
Returned == proc.caller = "returned"

------------------------------------------------------------------------------
(* The child and its helper *)

StartHelper ==
    /\ proc.child = "running" /\ proc.helper = "none"
    /\ proc' = [proc EXCEPT !.helper = "running"]
WriteOutput ==
    /\ Holding /\ ~proc.stdoutDone
    /\ proc.written < MaxWritten /\ proc.written - proc.kept < PipeSize
    /\ proc' = [proc EXCEPT !.written = @ + 1]
ChildExits == proc.child = "running" /\ proc' = [proc EXCEPT !.child = "exited"]
HelperExits == proc.helper = "running" /\ proc' = [proc EXCEPT !.helper = "exited"]

------------------------------------------------------------------------------
(* The threads *)

ReadOutput ==
    /\ ~proc.stdoutDone /\ proc.kept < proc.written /\ proc.kept <= StdoutLimit
    /\ proc' = [proc EXCEPT !.kept = @ + 1]
\* `read_to_end` of the capped pipe ends at the byte over the cap or when no one holds the pipe.
EndOutput ==
    /\ ~proc.stdoutDone
    /\ proc.kept > StdoutLimit \/ (~Holding /\ proc.kept = proc.written)
    /\ proc' = [proc EXCEPT !.stdoutDone = TRUE, !.over = proc.kept > StdoutLimit]
\* Standard error is read and dropped past its cap, to its end.
EndErrors == ~proc.stderrDone /\ ~Holding /\ proc' = [proc EXCEPT !.stderrDone = TRUE]
\* The input is taken, or its reader is gone.
EndInput == ~proc.writerDone /\ proc' = [proc EXCEPT !.writerDone = TRUE]

------------------------------------------------------------------------------
(* The caller *)

DeadlinePasses == ~proc.late /\ proc' = [proc EXCEPT !.late = TRUE]

\* The child is killed and reaped, the threads are left to themselves.
Stopped(why) ==
    proc' = [proc EXCEPT !.child = "exited", !.caller = "returned", !.result = why]

PollNoDeadline ==
    /\ proc.caller = "poll"
    /\ \/ proc.over /\ Stopped("OutputLimit")
       \/ ~proc.over /\ proc.child = "exited" /\ proc' = [proc EXCEPT !.caller = "join"]
Poll ==
    /\ proc.caller = "poll"
    /\ \/ proc.over /\ Stopped("OutputLimit")
       \/ ~proc.over /\ proc.child = "exited" /\ proc' = [proc EXCEPT !.caller = "join"]
       \/ ~proc.over /\ proc.child = "running" /\ proc.late /\ Stopped("TimedOut")

JoinOutputOnly ==
    /\ proc.caller = "join" /\ proc.stderrDone /\ proc.writerDone
    /\ proc' = [proc EXCEPT !.caller = "returned", !.result = "Finished"]
\* The child can exit before the reader sees the byte over the cap.
Join ==
    /\ proc.caller = "join" /\ proc.stdoutDone /\ proc.stderrDone /\ proc.writerDone
    /\ proc' = [proc EXCEPT !.caller = "returned",
                            !.result = IF proc.kept > StdoutLimit THEN "OutputLimit" ELSE "Finished"]

ProcessNext ==
    \/ StartHelper \/ WriteOutput \/ ChildExits \/ HelperExits
    \/ ReadOutput \/ EndOutput \/ EndErrors \/ EndInput
    \/ DeadlinePasses \/ Poll \/ Join

\* The threads run, the clock moves and the caller polls; nothing is assumed of the child.
OwnFairness ==
    /\ WF_processVars(ReadOutput) /\ WF_processVars(EndOutput) /\ WF_processVars(EndErrors)
    /\ WF_processVars(EndInput) /\ WF_processVars(DeadlinePasses)
    /\ WF_processVars(Poll) /\ WF_processVars(Join)
ProcessSpec == ProcessInit /\ [][ProcessNext]_processVars /\ OwnFairness

------------------------------------------------------------------------------
\* A finished run has all that was written, within the limit; a run that was stopped has left
\* no child behind.
FinishedIsWhole ==
    /\ proc.result = "Finished" => proc.kept = proc.written /\ proc.kept <= StdoutLimit /\ ~Holding
    /\ Returned => proc.child = "exited"

\* The caller comes back when the helper that holds the pipes does, however long the child itself
\* runs and whatever it writes: a stopped child is not waited for through its pipes.
CallerReturns == (proc.helper # "running") ~> (Returned \/ proc.helper = "running")

\* The deadline bounds the caller, "so a hung or chatty child cannot hang its caller".
DeadlineBoundsCaller == proc.late ~> Returned
==============================================================================
