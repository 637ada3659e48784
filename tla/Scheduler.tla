------------------------------ MODULE Scheduler ------------------------------
(***************************************************************************)
(* The parallel lanes (cluster scheduler.rs, cluster.rs): the files are cut *)
(* into contiguous chunks, one scoped thread computes each, and the results *)
(* are joined in the order of the chunks.  A lane may panic on a file.      *)
(***************************************************************************)
EXTENDS Integers, Sequences

CONSTANTS
    Cpus,         \* available_parallelism()
    MaxLaneFiles,     \* bound: files of a review
    MaxFixed      \* bound: the worker count asked for

ASSUME LaneBounds == Cpus \in Nat \ {0} /\ MaxLaneFiles \in Nat /\ MaxFixed \in Nat

VARIABLES lane

laneVars == <<lane>>

MAX_FIXED_WORKERS_CPU_MULTIPLE == 4
least(a, b) == IF a < b THEN a ELSE b
most(a, b) == IF a > b THEN a ELSE b

\* -1 stands for Auto and 0 for Serial; Fixed(0) is the same request as Fixed(1).
resolve_workers(parallelism, items) ==
    LET requested == CASE parallelism = -1 -> Cpus
                       [] parallelism = 0  -> 1
                       [] OTHER -> most(least(parallelism, Cpus * MAX_FIXED_WORKERS_CPU_MULTIPLE), 1)
    IN  least(most(requested, 1), most(items, 1))

\* Half-open ranges of indices counted from 0.
FloorChunks(n, workers) == [w \in 1 .. workers |-> <<(w - 1) * (n \div workers), w * (n \div workers)>>]
contiguous_chunks(n, workers) ==
    LET k == least(most(workers, 1), n)
        Before(w) == w * (n \div k) + least(w, n % k)
    IN  IF n = 0 THEN <<>> ELSE [w \in 1 .. k |-> <<Before(w - 1), Before(w)>>]

LaneInit ==
    \E n \in 0 .. MaxLaneFiles, parallelism \in -1 .. MaxFixed, panics \in 0 .. MaxLaneFiles :
        lane = [files |-> n, workers |-> resolve_workers(parallelism, n), panics |-> panics,
                done |-> {}, joined |-> 0, result |-> <<>>, end |-> "running"]

Chunks == contiguous_chunks(lane.files, lane.workers)
PanicsIn(c) == lane.panics \in Chunks[c][1] + 1 .. Chunks[c][2]
ChunkResult(c) == [i \in 1 .. Chunks[c][2] - Chunks[c][1] |-> Chunks[c][1] + i]

\* A thread finishes its chunk, or dies in it; they finish in any order.
FinishChunk ==
    /\ lane.end = "running"
    /\ \E c \in DOMAIN Chunks \ lane.done : lane' = [lane EXCEPT !.done = @ \cup {c}]

\* The threads are joined in the order of their chunks.  A panic is passed on at its join, once
\* the scope has waited for the other threads.  One worker runs the lane in the caller's thread.
JoinChunk ==
    /\ lane.end = "running" /\ lane.joined < Len(Chunks)
    /\ LET c == lane.joined + 1
       IN  /\ c \in lane.done
           /\ IF PanicsIn(c) THEN /\ lane.done = DOMAIN Chunks
                                  /\ lane' = [lane EXCEPT !.end = "panicked"]
              ELSE lane' = [lane EXCEPT !.joined = c, !.result = @ \o ChunkResult(c)]
LaneReturns ==
    /\ lane.end = "running" /\ lane.joined = Len(Chunks)
    /\ lane' = [lane EXCEPT !.end = "returned"]

LaneNext == FinishChunk \/ JoinChunk \/ LaneReturns
LaneSpec == LaneInit /\ [][LaneNext]_lane

------------------------------------------------------------------------------
\* A lane that returns has one result for every file, in the order of the files, for every worker
\* count and order of finishing; a panic is passed on and never a shorter result.
LaneIsTotal ==
    /\ lane.end = "returned" => lane.result = [i \in 1 .. lane.files |-> i] /\ lane.panics \notin 1 .. lane.files
    /\ lane.workers \in 1 .. most(lane.files, 1)
==============================================================================
