----------------------------- MODULE ToolProofs -----------------------------
(***************************************************************************)
(* Proofs about the small machines beside the daemon: a bounded child       *)
(* process that finished is whole, lanes lose no file, the learning store   *)
(* no receipt, notes of findings point where they say, and the right        *)
(* reading of a hunk's lines is kept until readings had to be dropped.      *)
(***************************************************************************)
EXTENDS BoundedProcess, Scheduler, Receipts, Findings, CodeEvidence, WeightsProofs, SequenceTheorems,
        FiniteSetTheorems, WellFoundedInduction

-----------------------------------------------------------------------------
(* run_bounded *)

ProcOK ==
  proc \in [child : {"running", "exited"}, helper : {"none", "running", "exited"},
            written : Nat, kept : Nat, over : BOOLEAN,
            stdoutDone : BOOLEAN, stderrDone : BOOLEAN, writerDone : BOOLEAN,
            late : BOOLEAN, caller : {"poll", "join", "returned"},
            result : {"none", "OutputLimit", "TimedOut", "Finished"}]

\* What a thread that is done has seen stays so: past the cap the pipe is not read again,
\* and once nobody holds the pipe nobody will.
ProcInv ==
  /\ ProcOK
  /\ proc.kept <= proc.written
  /\ proc.stdoutDone => proc.kept > StdoutLimit \/ (~Holding /\ proc.kept = proc.written)
  /\ proc.stderrDone => ~Holding
  /\ proc.caller \in {"join", "returned"} => proc.child = "exited"
  /\ proc.result = "Finished" => proc.stdoutDone /\ proc.stderrDone /\ proc.kept <= StdoutLimit

\* A child process that run_bounded reports as finished has been read to its end within
\* the cap, with no helper left that could still write, and no return leaves the child
\* running, whatever the child and its helper do.
THEOREM FinishedAlwaysWhole == ProcessSpec => []FinishedIsWhole
<1> USE LimitsNat DEF Holding
<1>1. ProcessInit => ProcInv
  BY DEF ProcessInit, Spawned, ProcInv, ProcOK
<1>2. ProcInv /\ [ProcessNext]_processVars => ProcInv'
  <2> SUFFICES ASSUME ProcInv, [ProcessNext]_processVars PROVE ProcInv'
    OBVIOUS
  <2> USE DEF ProcInv, ProcOK
  <2>1. CASE StartHelper
    BY <2>1 DEF StartHelper
  <2>2. CASE WriteOutput
    BY <2>2 DEF WriteOutput
  <2>3. CASE ChildExits \/ HelperExits
    BY <2>3 DEF ChildExits, HelperExits
  <2>4. CASE ReadOutput
    BY <2>4 DEF ReadOutput
  <2>5. CASE EndOutput
    <3>1. PICK over \in BOOLEAN :
            proc' = [proc EXCEPT !.stdoutDone = TRUE, !.over = over]
      <4>1. (proc.kept > StdoutLimit) \in BOOLEAN
        OBVIOUS
      <4>2. proc' = [proc EXCEPT !.stdoutDone = TRUE, !.over = proc.kept > StdoutLimit]
        BY <2>5, Zenon DEF EndOutput
      <4> QED
        BY <4>1, <4>2, Zenon
    <3>2. ProcOK'
      BY <3>1
    <3>3. /\ proc'.child = proc.child /\ proc'.helper = proc.helper
          /\ proc'.kept = proc.kept /\ proc'.written = proc.written
          /\ proc'.stderrDone = proc.stderrDone /\ proc'.stdoutDone
          /\ proc'.caller = proc.caller /\ proc'.result = proc.result
      BY <3>1
    <3>4. proc.kept > StdoutLimit \/ (~Holding /\ proc.kept = proc.written)
      BY <2>5 DEF EndOutput
    <3> HIDE DEF ProcOK
    <3> QED
      BY <3>2, <3>3, <3>4
  <2>6. CASE EndErrors \/ EndInput \/ DeadlinePasses
    BY <2>6 DEF EndErrors, EndInput, DeadlinePasses
  <2>7. CASE Poll
    BY <2>7, ZenonT(40) DEF Poll, Stopped
  <2>8. CASE Join
    <3>1. CASE proc.kept > StdoutLimit
      <4>1. proc' = [proc EXCEPT !.caller = "returned", !.result = "OutputLimit"]
        BY <2>8, <3>1 DEF Join
      <4> QED
        BY <2>8, <4>1 DEF Join
    <3>2. CASE ~ (proc.kept > StdoutLimit)
      <4>1. proc' = [proc EXCEPT !.caller = "returned", !.result = "Finished"]
        BY <2>8, <3>2 DEF Join
      <4>2. ProcOK'
        BY <4>1
      <4>3. proc.stdoutDone /\ proc.stderrDone /\ proc.kept <= StdoutLimit
        BY <2>8, <3>2 DEF Join
      <4>4. /\ proc'.child = proc.child /\ proc'.helper = proc.helper
            /\ proc'.kept = proc.kept /\ proc'.written = proc.written
            /\ proc'.stderrDone = proc.stderrDone /\ proc'.stdoutDone = proc.stdoutDone
            /\ proc'.caller = "returned" /\ proc'.result = "Finished"
        BY <4>1
      <4>5. proc.child = "exited"
        BY <2>8 DEF Join
      <4> HIDE DEF ProcOK
      <4> QED
        BY <4>2, <4>3, <4>4, <4>5
    <3> QED
      BY <3>1, <3>2
  <2>9. CASE UNCHANGED processVars
    BY <2>9 DEF processVars
  <2> QED
    BY <2>1, <2>2, <2>3, <2>4, <2>5, <2>6, <2>7, <2>8, <2>9 DEF ProcessNext
<1>3. ProcInv => FinishedIsWhole
  BY DEF ProcInv, ProcOK, FinishedIsWhole, Returned
<1> QED
  BY <1>1, <1>2, <1>3, PTL DEF ProcessSpec

-----------------------------------------------------------------------------
(* Lanes *)

\* What division is, for the quotient and remainder of two numbers.
LEMMA Divided ==
  ASSUME NEW n \in Nat, NEW k \in Nat \ {0}
  PROVE  /\ n \div k \in Nat /\ n % k \in 0 .. k - 1
         /\ n = k * (n \div k) + (n % k)
  BY SMTT(30)

\* What the sum of the first c chunks is made of.
LEMMA Multiples ==
  ASSUME NEW c \in Nat \ {0}, NEW q \in Nat
  PROVE  c * q = (c - 1) * q + q /\ (c - 1) * q \in Nat
  BY SMT

LEMMA Leasts ==
  ASSUME NEW c \in Nat \ {0}, NEW r \in Nat
  PROVE  /\ least(c - 1, r) \in Nat /\ least(c, r) \in Nat /\ least(c - 1, r) <= least(c, r)
         /\ least(0, r) = 0 /\ (r <= c => least(c, r) = r)
  BY DEF least

LEMMA ChunksLength ==
  ASSUME NEW n \in Nat, NEW w \in Nat \ {0}
  PROVE  Len(contiguous_chunks(n, w)) \in Nat
<1>1. CASE n = 0
  <2>1. contiguous_chunks(n, w) = <<>>
    BY <1>1 DEF contiguous_chunks
  <2> QED
    BY <2>1
<1>2. CASE n # 0
  <2>1. PICK m \in 1 .. n : m = least(most(w, 1), n)
    BY <1>2 DEF least, most
  <2> DEFINE B(c) == c * (n \div m) + least(c, n % m)
  <2>2. contiguous_chunks(n, w) = [c \in 1 .. m |-> <<B(c - 1), B(c)>>]
    BY <1>2, <2>1 DEF contiguous_chunks
  <2> HIDE DEF B
  <2> QED
    BY <2>1, <2>2
<1> QED
  BY <1>1, <1>2

\* k chunks follow one another from 0 to n, no more than w of them and none of them empty.
Follow(ch, k, n, w) ==
  /\ ch \in Seq(Nat \X Nat) /\ DOMAIN ch = 1 .. k
  /\ n = 0 => k = 0
  /\ n > 0 => k \in 1 .. n /\ k <= w /\ ch[1][1] = 0 /\ ch[k][2] = n
  /\ \A c \in 1 .. k : ch[c][1] < ch[c][2]
  /\ \A c \in 1 .. k : c + 1 \in 1 .. k => ch[c][2] = ch[c + 1][1]

LEMMA ChunksFollow ==
  ASSUME NEW n \in Nat, NEW w \in Nat \ {0}, NEW k \in Nat, NEW ch,
         ch = contiguous_chunks(n, w), k = Len(ch)
  PROVE  Follow(ch, k, n, w)
<1>1. CASE n = 0
  <2>1. contiguous_chunks(n, w) = <<>>
    BY <1>1 DEF contiguous_chunks
  <2> QED
    BY <2>1, <1>1 DEF Follow
<1>2. CASE n # 0
  <2>1. PICK m \in 1 .. n : m = least(most(w, 1), n) /\ m <= w
    BY <1>2 DEF least, most
  <2>2. PICK q \in Nat, r \in 0 .. m - 1 : n = m * q + r /\ q = n \div m /\ r = n % m
    <3>1. n \in Nat /\ m \in Nat \ {0}
      BY <2>1
    <3> QED
      BY ONLY <3>1, Divided
  <2> DEFINE B(c) == c * q + least(c, r)
  <2>3. contiguous_chunks(n, w) = [c \in 1 .. m |-> <<B(c - 1), B(c)>>]
    BY <1>2, <2>1, <2>2 DEF contiguous_chunks
  <2>4. q >= 1
    <3>1. ASSUME q = 0 PROVE FALSE
      <4>1. m * q = 0
        BY <2>1, <3>1
      <4> QED
        BY ONLY <2>1, <2>2, <4>1
    <3> QED
      BY ONLY <2>2, <3>1
  <2>5. ASSUME NEW c \in 1 .. m PROVE B(c - 1) \in Nat /\ B(c) \in Nat /\ B(c - 1) < B(c)
    <3>0. c \in Nat \ {0} /\ r \in Nat
      BY ONLY c \in 1 .. m, m \in Nat, r \in 0 .. m - 1
    <3>1. c * q = (c - 1) * q + q /\ (c - 1) * q \in Nat
      BY ONLY <3>0, q \in Nat, Multiples
    <3>2. least(c - 1, r) \in Nat /\ least(c, r) \in Nat /\ least(c - 1, r) <= least(c, r)
      BY ONLY <3>0, Leasts
    <3> QED
      BY ONLY <3>0, <3>1, <3>2, <2>2, <2>4
  <2>6. B(0) = 0 /\ B(m) = n
    <3>1. 0 * q = 0 /\ m * q \in Nat
      BY ONLY m \in Nat, q \in Nat
    <3>2. least(0, r) = 0 /\ least(m, r) = r
      BY ONLY m \in Nat \ {0}, r \in 0 .. m - 1, Leasts
    <3> QED
      BY ONLY <3>1, <3>2, <2>2, <2>1
  <2> HIDE DEF B
  <2> DEFINE cs == [c \in 1 .. m |-> <<B(c - 1), B(c)>>]
  <2>7. cs \in Seq(Nat \X Nat) /\ Len(cs) = m /\ DOMAIN cs = 1 .. m
    BY <2>1, <2>5
  <2>8. \A c \in 1 .. m : cs[c][1] = B(c - 1) /\ cs[c][2] = B(c)
    OBVIOUS
  <2> HIDE DEF cs
  <2>9. ch = cs
    BY <2>3 DEF cs
  <2>10. ch \in Seq(Nat \X Nat) /\ DOMAIN ch = 1 .. m /\ k = m
    BY <2>7, <2>9
  <2>11. \A c \in 1 .. m : ch[c][1] = B(c - 1) /\ ch[c][2] = B(c)
    BY <2>8, <2>9
  <2>12. \A c \in 1 .. m : c + 1 \in 1 .. m => ch[c][2] = ch[c + 1][1]
    BY <2>1, <2>11
  <2>13. ch[1][1] = 0 /\ ch[m][2] = n
    BY <2>1, <2>6, <2>11
  <2>14. \A c \in 1 .. m : ch[c][1] < ch[c][2]
    BY <2>5, <2>11
  <2> QED
    BY <1>2, <2>1, <2>10, <2>12, <2>13, <2>14 DEF Follow
<1> QED
  BY <1>1, <1>2

LEMMA WorkersOK ==
  ASSUME NEW p \in -1 .. MaxFixed, NEW n \in Nat
  PROVE  resolve_workers(p, n) \in 1 .. most(n, 1)
  BY LaneBounds DEF resolve_workers, least, most, MAX_FIXED_WORKERS_CPU_MULTIPLE

Lane == [files : Nat, workers : Nat \ {0}, panics : Nat, done : SUBSET Nat, joined : Nat,
         result : Seq(Nat), end : {"running", "panicked", "returned"}]

\* How many files the joined chunks have.
LaneEnd == IF lane.joined = 0 THEN 0 ELSE Chunks[lane.joined][2]

LEMMA Concatenated ==
  ASSUME NEW e \in Nat, NEW h \in Nat, e < h
  PROVE  /\ [i \in 1 .. e |-> i] \o [i \in 1 .. h - e |-> e + i] = [i \in 1 .. h |-> i]
         /\ [i \in 1 .. h |-> i] \in Seq(Nat)
<1>1. PICK d \in Nat : d = h - e /\ h = e + d
  OBVIOUS
<1> DEFINE s == [i \in 1 .. e |-> i]
           t == [i \in 1 .. d |-> e + i]
           u == [i \in 1 .. h |-> i]
           v == s \o t
<1>2. s \in Seq(Nat) /\ Len(s) = e /\ \A i \in 1 .. e : s[i] = i
  OBVIOUS
<1>3. t \in Seq(Nat) /\ Len(t) = d /\ \A i \in 1 .. d : t[i] = e + i
  OBVIOUS
<1>4. u \in Seq(Nat) /\ Len(u) = h /\ \A i \in 1 .. h : u[i] = i
  OBVIOUS
<1> HIDE DEF s, t, u
<1>5. /\ v \in Seq(Nat) /\ Len(v) = e + d
      /\ \A i \in 1 .. e + d : v[i] = IF i <= e THEN s[i] ELSE t[i - e]
  <2>1. /\ v \in Seq(Nat) /\ Len(v) = Len(s) + Len(t)
        /\ \A i \in 1 .. Len(s) + Len(t) : v[i] = IF i <= Len(s) THEN s[i] ELSE t[i - Len(s)]
    BY ONLY <1>2, <1>3, ConcatProperties DEF v
  <2> QED
    BY ONLY <1>2, <1>3, <2>1
<1> HIDE DEF v
<1>6. \A i \in 1 .. h : v[i] = u[i]
  <2> SUFFICES ASSUME NEW i \in 1 .. h PROVE v[i] = u[i]
    OBVIOUS
  <2>1. u[i] = i /\ i \in 1 .. e + d
    BY <1>1, <1>4
  <2>2. CASE i <= e
    <3>1. i \in 1 .. e
      BY <2>2
    <3> QED
      BY <1>2, <1>5, <2>1, <2>2, <3>1
  <2>3. CASE ~(i <= e)
    <3>1. i - e \in 1 .. d /\ e + (i - e) = i
      BY <1>1, <2>3
    <3>2. t[i - e] = e + (i - e)
      BY <1>3, <3>1
    <3> QED
      BY <1>5, <2>1, <2>3, <3>1, <3>2
  <2> QED
    BY <2>2, <2>3
<1>7. v = u
  BY <1>1, <1>4, <1>5, <1>6, SeqEqual
<1> QED
  BY <1>1, <1>4, <1>7 DEF s, t, u, v

\* What has been joined is one result for each of the first files, and no panic.
LaneInv ==
  /\ lane \in Lane /\ lane.workers \in 1 .. most(lane.files, 1)
  /\ lane.joined \in 0 .. Len(Chunks)
  /\ lane.result = [i \in 1 .. LaneEnd |-> i]
  /\ lane.panics \notin 1 .. LaneEnd
  /\ lane.end = "returned" => lane.joined = Len(Chunks)

LEMMA LaneStarts == LaneInit => LaneInv
<1> SUFFICES ASSUME LaneInit PROVE LaneInv
  OBVIOUS
<1>1. PICK n \in 0 .. MaxLaneFiles, p \in -1 .. MaxFixed, x \in 0 .. MaxLaneFiles :
        lane = [files |-> n, workers |-> resolve_workers(p, n), panics |-> x,
                done |-> {}, joined |-> 0, result |-> <<>>, end |-> "running"]
  BY DEF LaneInit
<1>2. n \in Nat /\ x \in Nat
  BY LaneBounds
<1>3. resolve_workers(p, n) \in 1 .. most(n, 1)
  BY <1>2, WorkersOK
<1>4. most(n, 1) \in Nat
  BY <1>2 DEF most
<1>5. lane \in Lane /\ lane.workers \in 1 .. most(lane.files, 1) /\ LaneEnd = 0
  BY <1>1, <1>2, <1>3, <1>4 DEF Lane, LaneEnd
<1>6. Chunks \in Seq(Nat \X Nat)
  <2>1. PICK k \in Nat : k = Len(Chunks)
    BY <1>5, ChunksLength DEF Lane, Chunks
  <2> QED
    BY <1>5, <2>1, ChunksFollow DEF Lane, Chunks, Follow
<1>7. lane.result = [i \in 1 .. 0 |-> i]
  BY <1>1
<1> QED
  BY <1>1, <1>5, <1>6, <1>7 DEF LaneInv

\* The next chunk begins where the joined ones end.
LEMMA NextChunk ==
  ASSUME LaneInv
  PROVE  /\ Len(Chunks) \in Nat /\ DOMAIN Chunks = 1 .. Len(Chunks)
         /\ LaneEnd \in Nat
         /\ lane.joined = Len(Chunks) => LaneEnd = lane.files
         /\ lane.joined < Len(Chunks) =>
              LET ch == Chunks[lane.joined + 1]
              IN  ch[1] = LaneEnd /\ ch[2] \in Nat /\ ch[1] < ch[2]
<1>1. PICK n \in Nat : n = lane.files
  BY DEF LaneInv, Lane
<1>2. PICK w \in Nat \ {0} : w = lane.workers
  BY DEF LaneInv, Lane
<1>3. PICK k \in Nat : k = Len(Chunks) /\ k = Len(contiguous_chunks(n, w))
  BY <1>1, <1>2, ChunksLength DEF Chunks
<1>4. PICK j \in 0 .. k : j = lane.joined
  BY <1>3 DEF LaneInv
<1>5. PICK ch : ch = Chunks
  OBVIOUS
<1>6. ch = contiguous_chunks(n, w) /\ k = Len(ch)
  BY <1>1, <1>2, <1>3, <1>5 DEF Chunks
<1>7. Follow(ch, k, n, w)
  BY ONLY n \in Nat, w \in Nat \ {0}, k \in Nat, <1>6, ChunksFollow
<1>8. /\ ch \in Seq(Nat \X Nat) /\ DOMAIN ch = 1 .. k
      /\ n = 0 => k = 0
      /\ n > 0 => k \in 1 .. n /\ k <= w /\ ch[1][1] = 0 /\ ch[k][2] = n
      /\ \A c \in 1 .. k : ch[c][1] < ch[c][2]
      /\ \A c \in 1 .. k : c + 1 \in 1 .. k => ch[c][2] = ch[c + 1][1]
  BY <1>7 DEF Follow
<1>9. \A c \in 1 .. k : ch[c][1] \in Nat /\ ch[c][2] \in Nat
  BY <1>5, <1>8
<1>10. LaneEnd = IF j = 0 THEN 0 ELSE ch[j][2]
  BY <1>4, <1>5 DEF LaneEnd
<1>11. LaneEnd \in Nat
  BY <1>4, <1>9, <1>10
<1>12. j = k => LaneEnd = n
  BY <1>1, <1>4, <1>8, <1>10
<1>13. j < k => ch[j + 1][1] = LaneEnd /\ ch[j + 1][2] \in Nat /\ ch[j + 1][1] < ch[j + 1][2]
  <2> SUFFICES ASSUME j < k PROVE ch[j + 1][1] = LaneEnd /\ ch[j + 1][2] \in Nat /\ ch[j + 1][1] < ch[j + 1][2]
    OBVIOUS
  <2>1. j + 1 \in 1 .. k /\ n > 0
    BY <1>4, <1>8
  <2>2. ch[j + 1][1] = LaneEnd
    BY <1>4, <1>8, <1>10, <2>1
  <2> QED
    BY <1>8, <1>9, <2>1, <2>2
<1> QED
  BY <1>1, <1>3, <1>4, <1>5, <1>8, <1>11, <1>12, <1>13

LEMMA LaneSteps == LaneInv /\ [LaneNext]_lane => LaneInv'
<1> SUFFICES ASSUME LaneInv, [LaneNext]_lane PROVE LaneInv'
  OBVIOUS
<1>0. PICK n \in Nat, w \in Nat \ {0} : n = lane.files /\ w = lane.workers
  BY DEF LaneInv, Lane
<1>1. CASE FinishChunk
  <2>1. PICK c \in DOMAIN Chunks : lane' = [lane EXCEPT !.done = @ \cup {c}]
    BY <1>1 DEF FinishChunk
  <2>2. c \in Nat
    BY <2>1, NextChunk
  <2>3. lane' \in Lane
    BY <2>1, <2>2 DEF LaneInv, Lane
  <2>4. /\ lane'.files = lane.files /\ lane'.workers = lane.workers /\ lane'.panics = lane.panics
        /\ lane'.joined = lane.joined /\ lane'.result = lane.result /\ lane'.end = lane.end
    BY <2>1 DEF LaneInv, Lane
  <2> QED
    BY <2>3, <2>4 DEF LaneInv, LaneEnd, Chunks
<1>2. CASE JoinChunk
  <2>1. PICK c \in Nat : c = lane.joined + 1
    BY DEF LaneInv, Lane
  <2>2. PICK e \in Nat : e = LaneEnd
    BY NextChunk
  <2>3. PICK h \in Nat : h = Chunks[c][2] /\ Chunks[c][1] = e /\ e < h /\ c \in 1 .. Len(Chunks)
    BY <1>2, <2>1, <2>2, NextChunk, SMTT(30) DEF JoinChunk, LaneInv, Lane
  <2>4. CASE PanicsIn(c)
    <3>1. lane' = [lane EXCEPT !.end = "panicked"]
      BY <1>2, <2>1, <2>4 DEF JoinChunk
    <3>2. lane' \in Lane
      BY <3>1 DEF LaneInv, Lane
    <3>3. /\ lane'.files = lane.files /\ lane'.workers = lane.workers /\ lane'.panics = lane.panics
          /\ lane'.joined = lane.joined /\ lane'.result = lane.result /\ lane'.end = "panicked"
      BY <3>1 DEF LaneInv, Lane
    <3> QED
      BY <3>2, <3>3 DEF LaneInv, LaneEnd, Chunks
  <2>5. CASE ~PanicsIn(c)
    <3>1. lane' = [lane EXCEPT !.joined = c, !.result = @ \o ChunkResult(c)]
      BY <1>2, <2>1, <2>5 DEF JoinChunk
    <3>2. ChunkResult(c) = [i \in 1 .. h - e |-> e + i]
      BY <2>3 DEF ChunkResult
    <3>3. PICK s \in Seq(Nat) : s = lane.result /\ s = [i \in 1 .. e |-> i]
      BY <2>2 DEF LaneInv, Lane
    <3>4. PICK t \in Seq(Nat) : t = s \o ChunkResult(c) /\ t = [i \in 1 .. h |-> i]
      <4>1. s \o ChunkResult(c) = [i \in 1 .. e |-> i] \o [i \in 1 .. h - e |-> e + i]
        BY ONLY <3>2, <3>3
      <4>2. /\ [i \in 1 .. e |-> i] \o [i \in 1 .. h - e |-> e + i] = [i \in 1 .. h |-> i]
            /\ [i \in 1 .. h |-> i] \in Seq(Nat)
        BY ONLY <2>2, <2>3, Concatenated
      <4> QED
        BY ONLY <4>1, <4>2
    <3>5. lane' = [lane EXCEPT !.joined = c, !.result = t]
      BY <3>1, <3>3, <3>4
    <3>6. lane' \in Lane
      BY <3>5 DEF LaneInv, Lane
    <3>7. /\ lane'.files = lane.files /\ lane'.workers = lane.workers /\ lane'.panics = lane.panics
          /\ lane'.joined = c /\ lane'.result = t /\ lane'.end = lane.end
      BY <3>5 DEF LaneInv, Lane
    <3>8. Chunks' = Chunks
      BY <3>7 DEF Chunks
    <3>9. LaneEnd' = h
      BY <2>1, <2>3, <3>7, <3>8 DEF LaneEnd, LaneInv, Lane
    <3>10. lane.panics \notin 1 .. h
      <4>1. lane.panics \in Nat /\ lane.panics \notin 1 .. e /\ lane.panics \notin e + 1 .. h
        BY <2>2, <2>3, <2>5 DEF LaneInv, Lane, PanicsIn
      <4> QED
        BY <4>1, <2>2, <2>3
    <3>11. lane'.end # "returned"
      BY <1>2, <3>7 DEF JoinChunk
    <3> QED
      BY <2>3, <3>4, <3>6, <3>7, <3>8, <3>9, <3>10, <3>11 DEF LaneInv
  <2> QED
    BY <2>4, <2>5
<1>3. CASE LaneReturns
  <2>1. lane' = [lane EXCEPT !.end = "returned"] /\ lane.joined = Len(Chunks)
    BY <1>3 DEF LaneReturns
  <2>2. lane' \in Lane
    BY <2>1 DEF LaneInv, Lane
  <2>3. /\ lane'.files = lane.files /\ lane'.workers = lane.workers /\ lane'.panics = lane.panics
        /\ lane'.joined = lane.joined /\ lane'.result = lane.result
    BY <2>1 DEF LaneInv, Lane
  <2> QED
    BY <2>1, <2>2, <2>3 DEF LaneInv, LaneEnd, Chunks
<1>4. CASE UNCHANGED lane
  BY <1>4 DEF LaneInv, LaneEnd, Chunks
<1> QED
  BY <1>1, <1>2, <1>3, <1>4 DEF LaneNext

\* A lane that returns has one result for every file, in the order of the files, whatever the
\* number of workers and the order they finish in; a panic is passed on, never a short result.
THEOREM LaneAlwaysTotal == LaneSpec => []LaneIsTotal
<1>1. LaneInv => LaneIsTotal
  BY NextChunk DEF LaneInv, LaneIsTotal
<1> QED
  BY <1>1, LaneStarts, LaneSteps, PTL DEF LaneSpec

-----------------------------------------------------------------------------
(* Receipts *)

Pieces == {Newline} \cup {<<a, k>> : a \in Appenders, k \in {1, 2}}
Store == [kind : {"absent", "private", "shared", "link"}, pieces : Seq(Pieces), dir : {"secure", "foreign"}]
AppenderStates == [pc : {"begin", "look", "open", "check", "write", "end"},
             saw : {"", "absent", "private", "shared", "link"}, glue : BOOLEAN,
             result : {"none", "ok", "crashed", "InvalidReceipt", "InvalidData", "Io"}, alone : BOOLEAN]
StoreTyped == store \in Store /\ appender \in [Appenders -> AppenderStates]

\* Nothing is in a store that is not there, and who is about to write has seen it.
AbsentIsEmpty ==
  /\ store.kind = "absent" => store.pieces = <<>>
  /\ \A a \in Appenders :
       \/ appender[a].pc \in {"check", "write"}
       \/ appender[a].pc = "open" /\ appender[a].saw # "absent"
       => store.kind # "absent"
\* A piece of a text is there once, written by a valid append that has ended.
PiecesWritten ==
  /\ \A i \in DOMAIN store.pieces : store.pieces[i] # Newline =>
       /\ store.pieces[i][1] \notin BadReceipts
       /\ appender[store.pieces[i][1]].pc = "end"
  /\ \A i, j \in DOMAIN store.pieces : store.pieces[i] # Newline /\ store.pieces[i] = store.pieces[j] => i = j
\* Where the text of an append that reported success begins.
IsAt(a, p) == /\ p \in Nat \ {0} /\ p + 2 <= Len(store.pieces)
              /\ store.pieces[p] = <<a, 1>> /\ store.pieces[p + 1] = <<a, 2>> /\ store.pieces[p + 2] = Newline
KeptPlaced ==
  \A a \in Appenders :
    /\ appender[a].pc \in {"look", "open", "check", "write"} => a \notin BadReceipts
    /\ appender[a].pc # "end" => appender[a].result = "none"
    /\ appender[a].result = "ok" =>
         \E p \in 1 .. Len(store.pieces) : IsAt(a, p) /\ (appender[a].alone => p = 1 \/ store.pieces[p - 1] = Newline)
AloneInFlight ==
  \A a \in InFlight : appender[a].alone =>
    /\ InFlight = {a}
    /\ appender[a].pc = "write" =>
         (appender[a].glue <=> store.pieces # <<>> /\ store.pieces[Len(store.pieces)] # Newline)
Writing == {a \in Appenders : appender[a].pc = "write"}
Gluing == {a \in Writing : appender[a].glue}
SizeBudget == Len(store.pieces) + 3 * Cardinality(Writing) + Cardinality(Gluing)
                <= MaxPieces + 4 * (Cardinality(Appenders) - 1)

\* What every step of every append keeps.
StoreInv == StoreTyped /\ AbsentIsEmpty /\ PiecesWritten /\ KeptPlaced /\ AloneInFlight /\ SizeBudget

\* What is written, with o pieces before the text of the receipt.
LEMMA Lines ==
  ASSUME NEW a \in Appenders, NEW g \in BOOLEAN
  PROVE  \E o \in {0, 1} :
           /\ o = 1 <=> g
           /\ line(a, g) \in Seq(Pieces) /\ Len(line(a, g)) = o + 3
           /\ o = 1 => line(a, g)[1] = Newline
           /\ line(a, g)[o + 1] = <<a, 1>> /\ line(a, g)[o + 2] = <<a, 2>> /\ line(a, g)[o + 3] = Newline
<1>1. PICK x \in Pieces, y \in Pieces, z \in Pieces : x = <<a, 1>> /\ y = <<a, 2>> /\ z = Newline
  <2>1. <<a, 1>> \in Pieces /\ <<a, 2>> \in Pieces /\ Newline \in Pieces
    BY DEF Pieces
  <2> QED
    BY <2>1
<1>2. CASE g
  <2>1. line(a, g) = <<z, x, y, z>>
    BY <1>1, <1>2 DEF line
  <2>2. line(a, g) \in Seq(Pieces) /\ Len(line(a, g)) = 1 + 3 /\ line(a, g)[1] = z
        /\ line(a, g)[2] = x /\ line(a, g)[3] = y /\ line(a, g)[4] = z
    BY <2>1
  <2>3. 1 \in {0, 1} /\ 1 + 1 = 2 /\ 1 + 2 = 3 /\ 1 + 3 = 4
    OBVIOUS
  <2> WITNESS 1 \in {0, 1}
  <2> QED
    BY <1>1, <1>2, <2>2, <2>3
<1>3. CASE ~g
  <2>1. line(a, g) = <<x, y, z>>
    BY <1>1, <1>3 DEF line
  <2>2. line(a, g) \in Seq(Pieces) /\ Len(line(a, g)) = 0 + 3
        /\ line(a, g)[1] = x /\ line(a, g)[2] = y /\ line(a, g)[3] = z
    BY <2>1
  <2>3. 0 \in {0, 1} /\ 0 # 1 /\ 0 + 1 = 1 /\ 0 + 2 = 2 /\ 0 + 3 = 3
    OBVIOUS
  <2> WITNESS 0 \in {0, 1}
  <2> QED
    BY <1>1, <1>3, <2>2, <2>3
<1> QED
  BY <1>2, <1>3

\* What an append leaves: what was there, and the first n pieces of what was written.
LEMMA Appended ==
  ASSUME NEW S, NEW s \in Seq(S), NEW t \in Seq(S), NEW n \in 0 .. Len(t), NEW u, u = s \o SubSeq(t, 1, n)
  PROVE  /\ u \in Seq(S) /\ Len(u) = Len(s) + n
         /\ \A i \in 1 .. Len(s) : u[i] = s[i]
         /\ \A i \in 1 .. n : u[Len(s) + i] = t[i]
<1> DEFINE v == SubSeq(t, 1, n)
<1>1. v \in Seq(S) /\ Len(v) = n /\ \A i \in 1 .. n : v[i] = t[i]
  BY SubSeqProperties
<1>4. u = s \o v
  OBVIOUS
<1> HIDE DEF v
<1>2. u \in Seq(S) /\ Len(u) = Len(s) + Len(v)
      /\ \A i \in 1 .. Len(s) + Len(v) : u[i] = IF i <= Len(s) THEN s[i] ELSE v[i - Len(s)]
  BY <1>1, <1>4, ConcatProperties
<1>3. ASSUME NEW i \in 1 .. n PROVE u[Len(s) + i] = t[i]
  <2>1. Len(s) + i \in 1 .. Len(s) + Len(v) /\ ~(Len(s) + i <= Len(s)) /\ (Len(s) + i) - Len(s) = i
    BY <1>1
  <2> QED
    BY <1>1, <1>2, <2>1
<1> QED
  BY <1>1, <1>2, <1>3

LEMMA StoreStarts == ReceiptsInit => StoreInv
<1> SUFFICES ASSUME ReceiptsInit PROVE StoreInv
  OBVIOUS
<1>1. store \in Store /\ store.pieces = <<>> /\ Len(store.pieces) = 0
  <2>1. PICK k \in {"absent", "private", "shared", "link"}, d \in {"secure", "foreign"} :
          store = [kind |-> k, pieces |-> <<>>, dir |-> d]
    BY DEF ReceiptsInit
  <2>2. <<>> \in Seq(Pieces) /\ Len(<<>>) = 0
    OBVIOUS
  <2> QED
    BY <2>1, <2>2 DEF Store
<1>2. appender \in [Appenders -> AppenderStates]
      /\ \A a \in Appenders : appender[a].pc = "begin" /\ appender[a].result = "none"
  BY DEF ReceiptsInit, AppenderStates
<1>3. AbsentIsEmpty /\ PiecesWritten /\ KeptPlaced /\ AloneInFlight
  BY <1>1, <1>2 DEF AbsentIsEmpty, PiecesWritten, KeptPlaced, AloneInFlight, InFlight
<1>4. Writing = {} /\ Gluing = {}
  BY <1>2 DEF Writing, Gluing
<1>5. Cardinality(Appenders) \in Nat \ {0} /\ Cardinality({}) = 0
  BY StoreLimits, FS_EmptySet, FS_CardinalityType
<1>6. SizeBudget
  BY <1>1, <1>4, <1>5, StoreLimits DEF SizeBudget
<1> QED
  BY <1>1, <1>2, <1>3, <1>6 DEF StoreInv, StoreTyped

\* A step that writes nothing, of an append that has not ended and is not well at its end.
LEMMA QuietStep ==
  ASSUME StoreInv, NEW a \in Appenders, store'.pieces = store.pieces,
         appender[a].pc # "end", appender'[a].result # "ok",
         appender'[a].pc # "end" => appender'[a].result = "none",
         appender'[a].pc \in {"look", "open", "check", "write"} => a \notin BadReceipts,
         \A b \in Appenders : b # a =>
            /\ appender'[b].pc = appender[b].pc /\ appender'[b].result = appender[b].result
            /\ appender'[b].alone => appender[b].alone
  PROVE  PiecesWritten' /\ KeptPlaced'
<1>1. PiecesWritten'
  <2>1. ASSUME NEW i \in DOMAIN store'.pieces, store'.pieces[i] # Newline
        PROVE  store'.pieces[i][1] \notin BadReceipts /\ appender'[store'.pieces[i][1]].pc = "end"
    <3>1. PICK c \in Appenders : c = store.pieces[i][1]
      BY <2>1 DEF StoreInv, StoreTyped, Store, Pieces
    <3>2. c \notin BadReceipts /\ appender[c].pc = "end" /\ c # a
      BY <2>1, <3>1 DEF StoreInv, PiecesWritten
    <3> QED
      BY <3>1, <3>2
  <2> QED
    BY <2>1 DEF StoreInv, PiecesWritten, Newline
<1>2. KeptPlaced'
  <2> SUFFICES ASSUME NEW b \in Appenders
      PROVE  /\ appender'[b].pc \in {"look", "open", "check", "write"} => b \notin BadReceipts
             /\ appender'[b].pc # "end" => appender'[b].result = "none"
             /\ appender'[b].result = "ok" =>
                  \E p \in 1 .. Len(store'.pieces) :
                     IsAt(b, p)' /\ (appender'[b].alone => p = 1 \/ store'.pieces[p - 1] = Newline)
    BY DEF KeptPlaced, Newline
  <2>1. CASE b = a
    BY <2>1
  <2>2. CASE b # a
    <3>1. /\ appender[b].pc \in {"look", "open", "check", "write"} => b \notin BadReceipts
          /\ appender[b].pc # "end" => appender[b].result = "none"
      BY DEF StoreInv, KeptPlaced
    <3>2. ASSUME appender'[b].result = "ok"
          PROVE  \E p \in 1 .. Len(store'.pieces) :
                     IsAt(b, p)' /\ (appender'[b].alone => p = 1 \/ store'.pieces[p - 1] = Newline)
      <4>1. PICK p \in 1 .. Len(store.pieces) :
               IsAt(b, p) /\ (appender[b].alone => p = 1 \/ store.pieces[p - 1] = Newline)
        BY <2>2, <3>2 DEF StoreInv, KeptPlaced
      <4>2. IsAt(b, p)'
        BY <4>1 DEF IsAt, Newline
      <4> QED
        BY <2>2, <4>1, <4>2
    <3> QED
      BY <2>2, <3>1, <3>2
  <2> QED
    BY <2>1, <2>2
<1> QED
  BY <1>1, <1>2

\* A step that neither checks nor writes leaves the budget as it was.
LEMMA BudgetStays ==
  ASSUME StoreInv, store'.pieces = store.pieces,
         \A b \in Appenders : (appender'[b].pc = "write") = (appender[b].pc = "write")
                              /\ (appender[b].pc = "write" => appender'[b].glue = appender[b].glue)
  PROVE  SizeBudget'
<1>1. Writing' = Writing /\ Gluing' = Gluing
  BY DEF Writing, Gluing
<1> QED
  BY <1>1 DEF StoreInv, SizeBudget

LEMMA RefuseStep ==
  ASSUME StoreInv, NEW a \in Appenders, NEW why \in {"InvalidReceipt", "InvalidData", "Io"},
         Refuse(a, why), UNCHANGED store, appender[a].pc \notin {"write", "end"}
  PROVE  StoreInv'
<1>1. StoreTyped'
  <2>1. PICK r \in AppenderStates : r = [appender[a] EXCEPT !.pc = "end", !.result = why]
    BY DEF StoreInv, StoreTyped, AppenderStates
  <2>2. appender' = [appender EXCEPT ![a] = r]
    BY <2>1 DEF Refuse
  <2> QED
    BY <2>2 DEF StoreInv, StoreTyped, Store, Pieces, Newline
<1>2. /\ appender'[a].pc = "end" /\ appender'[a].result = why
      /\ \A b \in Appenders : b # a => appender'[b] = appender[b]
  BY DEF StoreInv, StoreTyped, AppenderStates, Refuse
<1>3. PiecesWritten' /\ KeptPlaced'
  BY <1>2, QuietStep
<1>4. AbsentIsEmpty'
  BY <1>2 DEF StoreInv, AbsentIsEmpty
<1>5. AloneInFlight'
  <2> SUFFICES ASSUME NEW b \in InFlight', appender'[b].alone
      PROVE  /\ InFlight' = {b}
             /\ appender'[b].pc = "write" =>
                  (appender'[b].glue <=> store'.pieces # <<>> /\ store'.pieces[Len(store'.pieces)] # Newline')
    BY DEF AloneInFlight
  <2>1. b \in InFlight /\ b # a /\ appender'[b] = appender[b] /\ InFlight' \subseteq InFlight
    BY <1>2 DEF InFlight
  <2> QED
    BY <2>1 DEF StoreInv, AloneInFlight, Newline
<1>6. SizeBudget'
  BY <1>2, BudgetStays
<1> QED
  BY <1>1, <1>3, <1>4, <1>5, <1>6 DEF StoreInv

LEMMA BeginStep == ASSUME StoreInv, NEW a \in Appenders, BeginAppend(a) PROVE StoreInv'
<1>0. UNCHANGED store /\ appender[a].pc = "begin"
  BY DEF BeginAppend
<1>1. CASE \E why \in {"InvalidReceipt", "InvalidData"} : Refuse(a, why)
  BY <1>0, <1>1, RefuseStep
<1>2. CASE /\ a \notin BadReceipts
           /\ appender' = [b \in Appenders |->
                IF b = a THEN [appender[a] EXCEPT !.pc = "look", !.alone = InFlight = {}]
                ELSE IF b \in InFlight THEN [appender[b] EXCEPT !.alone = FALSE] ELSE appender[b]]
  <2>1. appender' \in [Appenders -> AppenderStates]
    <3>1. ASSUME NEW b \in Appenders
          PROVE  /\ [appender[b] EXCEPT !.pc = "look", !.alone = InFlight = {}] \in AppenderStates
                 /\ [appender[b] EXCEPT !.alone = FALSE] \in AppenderStates
                 /\ appender[b] \in AppenderStates
      <4>1. PICK x \in BOOLEAN : x = (InFlight = {})
        OBVIOUS
      <4> QED
        BY <4>1 DEF StoreInv, StoreTyped, AppenderStates
    <3> QED
      BY <1>2, <3>1
  <2>2. appender'[a].pc = "look" /\ appender'[a].alone = (InFlight = {}) /\ appender'[a].result = "none"
    BY <1>0, <1>2 DEF StoreInv, StoreTyped, AppenderStates, KeptPlaced
  <2>3. \A b \in Appenders : b # a =>
          /\ appender'[b].pc = appender[b].pc /\ appender'[b].result = appender[b].result
          /\ appender'[b].saw = appender[b].saw /\ appender'[b].glue = appender[b].glue
          /\ appender'[b].alone => appender[b].alone /\ b \notin InFlight
    BY <1>2 DEF StoreInv, StoreTyped, AppenderStates
  <2>4. StoreTyped'
    BY <1>0, <2>1 DEF StoreInv, StoreTyped, Store, Pieces, Newline
  <2>5. PiecesWritten' /\ KeptPlaced'
    BY <1>0, <1>2, <2>2, <2>3, QuietStep
  <2>6. AbsentIsEmpty'
    BY <1>0, <2>2, <2>3 DEF StoreInv, AbsentIsEmpty
  <2>7. AloneInFlight'
    <3> SUFFICES ASSUME NEW b \in InFlight', appender'[b].alone
        PROVE  /\ InFlight' = {b}
               /\ appender'[b].pc = "write" =>
                    (appender'[b].glue <=> store'.pieces # <<>> /\ store'.pieces[Len(store'.pieces)] # Newline')
      BY DEF AloneInFlight
    <3>1. InFlight' = InFlight \cup {a}
      BY <2>2, <2>3 DEF InFlight
    <3>2. b = a
      BY <2>3, <3>1 DEF InFlight
    <3>3. InFlight = {}
      BY <2>2, <3>2
    <3> QED
      BY <2>2, <3>1, <3>2, <3>3
  <2>8. SizeBudget'
    BY <1>0, <2>2, <2>3, BudgetStays
  <2> QED
    BY <2>4, <2>5, <2>6, <2>7, <2>8 DEF StoreInv
<1> QED
  BY <1>1, <1>2 DEF BeginAppend, validate_receipt_for_storage

\* Looking at the store and opening it.
LEMMA MoveStep ==
  ASSUME StoreInv, NEW a \in Appenders, NEW r \in AppenderStates, appender' = [appender EXCEPT ![a] = r],
         store' \in Store, store'.pieces = store.pieces, store'.kind = "absent" => store.kind = "absent",
         appender[a].pc \in {"look", "open"}, r.pc \in {"open", "check"},
         r.result = "none", r.alone = appender[a].alone,
         r.pc = "check" \/ r.saw # "absent" => store'.kind # "absent"
  PROVE  StoreInv'
<1>1. appender'[a] = r /\ \A b \in Appenders : b # a => appender'[b] = appender[b]
  BY DEF StoreInv, StoreTyped
<1>2. StoreTyped'
  BY DEF StoreInv, StoreTyped, Store, Pieces, Newline
<1>3. a \in InFlight /\ a \notin BadReceipts
  BY DEF InFlight, StoreInv, KeptPlaced
<1>4. PiecesWritten' /\ KeptPlaced'
  BY <1>1, <1>3, QuietStep
<1>5. AbsentIsEmpty'
  BY <1>1 DEF StoreInv, AbsentIsEmpty
<1>6. AloneInFlight'
  <2>1. InFlight' = InFlight
    BY <1>1, <1>3 DEF InFlight
  <2> SUFFICES ASSUME NEW b \in InFlight, appender'[b].alone
      PROVE  /\ InFlight = {b}
             /\ appender'[b].pc = "write" =>
                  (appender'[b].glue <=> store'.pieces # <<>> /\ store'.pieces[Len(store'.pieces)] # Newline)
    BY <2>1 DEF AloneInFlight, Newline
  <2>2. b \in Appenders /\ appender[b].alone
    BY <1>1 DEF InFlight
  <2> QED
    BY <1>1, <2>2 DEF StoreInv, AloneInFlight
<1>7. SizeBudget'
  BY <1>1, BudgetStays
<1> QED
  BY <1>2, <1>4, <1>5, <1>6, <1>7 DEF StoreInv

LEMMA LookStep == ASSUME StoreInv, NEW a \in Appenders, Look(a) PROVE StoreInv'
<1>0. UNCHANGED store /\ appender[a].pc = "look"
  BY DEF Look
<1>1. CASE Refuse(a, "InvalidData")
  BY <1>0, <1>1, RefuseStep
<1>2. CASE appender' = [appender EXCEPT ![a].pc = "open", ![a].saw = store.kind]
  <2>1. PICK r \in AppenderStates : r = [appender[a] EXCEPT !.pc = "open", !.saw = store.kind]
    BY DEF StoreInv, StoreTyped, AppenderStates, Store
  <2>2. appender' = [appender EXCEPT ![a] = r]
    BY <1>2, <2>1
  <2>3. r.pc = "open" /\ r.saw = store.kind /\ r.alone = appender[a].alone /\ r.result = appender[a].result
    BY <2>1 DEF StoreInv, StoreTyped, AppenderStates
  <2>4. r.result = "none"
    BY <1>0, <2>3 DEF StoreInv, KeptPlaced
  <2>5. store' \in Store
    BY <1>0 DEF StoreInv, StoreTyped
  <2> QED
    BY <1>0, <2>2, <2>3, <2>4, <2>5, MoveStep
<1> QED
  BY <1>1, <1>2 DEF Look

LEMMA OpenStep == ASSUME StoreInv, NEW a \in Appenders, Open(a) PROVE StoreInv'
<1>0. appender[a].pc = "open"
  BY DEF Open
<1>1. CASE (\E why \in {"Io", "InvalidData"} : Refuse(a, why)) /\ UNCHANGED store
  BY <1>0, <1>1, RefuseStep
<1>2. CASE /\ Step(a, "check")
           /\ \/ store' = [store EXCEPT !.kind = "private"]
              \/ UNCHANGED store /\ appender[a].saw # "absent"
  <2>1. PICK r \in AppenderStates : r = [appender[a] EXCEPT !.pc = "check"]
    BY DEF StoreInv, StoreTyped, AppenderStates
  <2>2. appender' = [appender EXCEPT ![a] = r]
    BY <1>2, <2>1 DEF Step
  <2>3. r.pc = "check" /\ r.alone = appender[a].alone /\ r.result = "none"
    BY <1>0, <2>1 DEF StoreInv, StoreTyped, AppenderStates, KeptPlaced
  <2>4. store' \in Store /\ store'.pieces = store.pieces /\ store'.kind # "absent"
    BY <1>0, <1>2 DEF StoreInv, StoreTyped, Store, AbsentIsEmpty
  <2> QED
    BY <1>0, <2>2, <2>3, <2>4, MoveStep
<1> QED
  BY <1>1, <1>2 DEF Open

\* How many append at most while one of them checks the size.
LEMMA OthersWrite ==
  ASSUME StoreInv, NEW a \in Appenders, appender[a].pc = "check"
  PROVE  /\ Cardinality(Appenders) \in Nat /\ Cardinality(Writing) \in Nat /\ Cardinality(Gluing) \in Nat
         /\ Cardinality(Gluing) <= Cardinality(Writing)
         /\ Cardinality(Writing) <= Cardinality(Appenders) - 1
         /\ Cardinality(Writing \cup {a}) = Cardinality(Writing) + 1
         /\ Cardinality(Gluing \cup {a}) = Cardinality(Gluing) + 1
<1>1. Writing \subseteq Appenders \ {a} /\ Gluing \subseteq Writing /\ a \notin Writing /\ a \notin Gluing
  BY DEF Writing, Gluing
<1>2. IsFiniteSet(Appenders \ {a}) /\ Cardinality(Appenders \ {a}) = Cardinality(Appenders) - 1
  BY StoreLimits, FS_RemoveElement
<1>3. IsFiniteSet(Writing) /\ Cardinality(Writing) <= Cardinality(Appenders \ {a})
  BY <1>1, <1>2, FS_Subset
<1>4. IsFiniteSet(Gluing) /\ Cardinality(Gluing) <= Cardinality(Writing)
  BY <1>1, <1>3, FS_Subset
<1>5. Cardinality(Writing \cup {a}) = Cardinality(Writing) + 1
  BY <1>1, <1>3, FS_AddElement
<1>6. Cardinality(Gluing \cup {a}) = Cardinality(Gluing) + 1
  BY <1>1, <1>4, FS_AddElement
<1>7. Cardinality(Appenders) \in Nat /\ Cardinality(Writing) \in Nat /\ Cardinality(Gluing) \in Nat
  BY <1>3, <1>4, StoreLimits, FS_CardinalityType
<1> QED
  BY <1>2, <1>3, <1>4, <1>5, <1>6, <1>7

LEMMA CheckStep == ASSUME StoreInv, NEW a \in Appenders, CheckSize(a) PROVE StoreInv'
<1>0. UNCHANGED store /\ appender[a].pc = "check"
  BY DEF CheckSize
<1>1. PICK g \in BOOLEAN : g = (store.pieces # <<>> /\ store.pieces[Len(store.pieces)] # Newline)
  OBVIOUS
<1>2. CASE Refuse(a, "InvalidData")
  BY <1>0, <1>2, RefuseStep
<1>3. CASE /\ ~(Len(store.pieces) + Len(line(a, g)) > MaxPieces)
           /\ appender' = [appender EXCEPT ![a].pc = "write", ![a].glue = g]
  <2>1. PICK r \in AppenderStates : r = [appender[a] EXCEPT !.pc = "write", !.glue = g]
    BY DEF StoreInv, StoreTyped, AppenderStates
  <2>2. appender' = [appender EXCEPT ![a] = r]
    BY <1>3, <2>1
  <2>3. r.pc = "write" /\ r.glue = g /\ r.alone = appender[a].alone /\ r.result = "none"
    BY <1>0, <2>1 DEF StoreInv, StoreTyped, AppenderStates, KeptPlaced
  <2>4. appender'[a] = r /\ \A b \in Appenders : b # a => appender'[b] = appender[b]
    BY <2>2 DEF StoreInv, StoreTyped
  <2>5. StoreTyped'
    BY <1>0, <2>2 DEF StoreInv, StoreTyped, Store, Pieces, Newline
  <2>6. a \in InFlight /\ a \notin BadReceipts /\ store.kind # "absent"
    BY <1>0 DEF InFlight, StoreInv, KeptPlaced, AbsentIsEmpty
  <2>7. PiecesWritten' /\ KeptPlaced'
    BY <1>0, <2>3, <2>4, <2>6, QuietStep
  <2>8. AbsentIsEmpty'
    BY <1>0, <2>4, <2>6 DEF StoreInv, AbsentIsEmpty
  <2>9. AloneInFlight'
    <3>1. InFlight' = InFlight
      BY <2>3, <2>4, <2>6 DEF InFlight
    <3> SUFFICES ASSUME NEW b \in InFlight, appender'[b].alone
        PROVE  /\ InFlight = {b}
               /\ appender'[b].pc = "write" =>
                    (appender'[b].glue <=> store'.pieces # <<>> /\ store'.pieces[Len(store'.pieces)] # Newline)
      BY <3>1 DEF AloneInFlight, Newline
    <3>2. b \in Appenders /\ appender[b].alone
      BY <2>3, <2>4 DEF InFlight
    <3>3. InFlight = {b} /\ b = a
      BY <2>6, <3>2 DEF StoreInv, AloneInFlight
    <3> QED
      BY <1>0, <1>1, <2>3, <2>4, <3>3
  <2>10. SizeBudget'
    <3>1. Writing' = Writing \cup {a} /\ Gluing' = IF g THEN Gluing \cup {a} ELSE Gluing
      BY <1>0, <2>3, <2>4 DEF Writing, Gluing
    <3>2. PICK o \in {0, 1} : (o = 1 <=> g) /\ Len(line(a, g)) = o + 3
      BY Lines
    <3>3. PICK n \in Nat : n = Len(store.pieces)
      BY DEF StoreInv, StoreTyped, Store
    <3>4. PICK v \in Nat, w \in Nat, k \in Nat :
            /\ v = Cardinality(Writing) /\ w = Cardinality(Gluing) /\ k = Cardinality(Appenders)
            /\ w <= v /\ v <= k - 1 /\ Cardinality(Writing \cup {a}) = v + 1
            /\ Cardinality(Gluing \cup {a}) = w + 1
      BY <1>0, OthersWrite
    <3>5. n + (o + 3) <= MaxPieces
      BY <1>3, <3>2, <3>3, StoreLimits
    <3>6. n + 3 * (v + 1) + (w + o) <= MaxPieces + 4 * (k - 1)
      BY <3>4, <3>5, StoreLimits
    <3>7. Cardinality(Gluing') = w + o
      <4>1. CASE g
        BY <3>1, <3>2, <3>4, <4>1
      <4>2. CASE ~g
        BY <3>1, <3>2, <3>4, <4>2
      <4> QED
        BY <4>1, <4>2
    <3> QED
      <4>1. Len(store'.pieces) = n /\ Cardinality(Writing') = v + 1 /\ Cardinality(Appenders) = k
        BY <1>0, <3>1, <3>3, <3>4
      <4> QED
        BY ONLY <3>6, <3>7, <4>1 DEF SizeBudget
  <2> QED
    BY <2>5, <2>7, <2>8, <2>9, <2>10 DEF StoreInv
<1> QED
  BY <1>1, <1>2, <1>3 DEF CheckSize

LEMMA WriteStep == ASSUME StoreInv, NEW a \in Appenders, WriteLine(a) PROVE StoreInv'
<1>0. appender[a].pc = "write" /\ a \in InFlight /\ a \notin BadReceipts /\ store.kind # "absent"
  BY DEF WriteLine, InFlight, StoreInv, KeptPlaced, AbsentIsEmpty
<1>1. PICK g \in BOOLEAN : g = appender[a].glue
  BY DEF StoreInv, StoreTyped, AppenderStates
<1>2. PICK t \in Seq(Pieces), o \in {0, 1} :
        /\ t = line(a, g) /\ Len(t) = o + 3 /\ (o = 1 <=> g)
        /\ o = 1 => t[1] = Newline
        /\ t[o + 1] = <<a, 1>> /\ t[o + 2] = <<a, 2>> /\ t[o + 3] = Newline
  BY Lines
<1>3. PICK n \in 0 .. o + 3 :
        /\ store' = [store EXCEPT !.pieces = @ \o SubSeq(t, 1, n)]
        /\ appender' = [appender EXCEPT ![a].pc = "end", ![a].result = IF n = o + 3 THEN "ok" ELSE "crashed"]
  <2>1. line(a, appender[a].glue) = t /\ Len(line(a, appender[a].glue)) = o + 3
    BY <1>1, <1>2
  <2> QED
    BY <2>1 DEF WriteLine
<1>4. PICK s \in Seq(Pieces), m \in Nat : s = store.pieces /\ m = Len(s)
  BY DEF StoreInv, StoreTyped, Store
<1>5. PICK u \in Seq(Pieces) :
        /\ u = store'.pieces /\ Len(u) = m + n
        /\ \A i \in 1 .. m : u[i] = s[i]
        /\ \A i \in 1 .. n : u[m + i] = t[i]
  <2>1. PICK w : w = store'.pieces
    OBVIOUS
  <2>2. w = s \o SubSeq(t, 1, n) /\ n \in 0 .. Len(t)
    BY <1>2, <1>3, <1>4, <2>1 DEF StoreInv, StoreTyped, Store
  <2>3. /\ w \in Seq(Pieces) /\ Len(w) = Len(s) + n
        /\ \A i \in 1 .. Len(s) : w[i] = s[i]
        /\ \A i \in 1 .. n : w[Len(s) + i] = t[i]
    BY ONLY s \in Seq(Pieces), t \in Seq(Pieces), <2>2, Appended
  <2> QED
    BY <1>4, <2>1, <2>3
<1>6. PICK r \in AppenderStates :
        r = [appender[a] EXCEPT !.pc = "end", !.result = IF n = o + 3 THEN "ok" ELSE "crashed"]
  <2>1. PICK q \in AppenderStates : q = appender[a]
    BY DEF StoreInv, StoreTyped
  <2>2. PICK z \in {"ok", "crashed"} : z = IF n = o + 3 THEN "ok" ELSE "crashed"
    OBVIOUS
  <2>3. [q EXCEPT !.pc = "end", !.result = z] \in AppenderStates
    BY ONLY q \in AppenderStates, z \in {"ok", "crashed"} DEF AppenderStates
  <2> QED
    BY ONLY <2>1, <2>2, <2>3
<1>7. r.pc = "end" /\ r.result = (IF n = o + 3 THEN "ok" ELSE "crashed") /\ r.alone = appender[a].alone
  BY <1>6 DEF StoreInv, StoreTyped, AppenderStates
<1>8. appender' = [appender EXCEPT ![a] = r]
  BY <1>3, <1>6
<1>9. appender'[a] = r /\ \A b \in Appenders : b # a => appender'[b] = appender[b]
  BY <1>8 DEF StoreInv, StoreTyped
<1>10. StoreTyped'
  <2>1. store' \in Store
    BY <1>3, <1>5 DEF StoreInv, StoreTyped, Store
  <2> QED
    BY <1>8, <2>1 DEF StoreInv, StoreTyped, Store, Pieces, Newline
<1>11. AbsentIsEmpty'
  <2>1. store'.kind = store.kind
    BY <1>3 DEF StoreInv, StoreTyped, Store
  <2> QED
    BY <1>0, <1>7, <1>9, <2>1 DEF StoreInv, AbsentIsEmpty
\* What was written is new: a has written nothing before.
<1>12. \A i \in 1 .. m : s[i] # Newline => s[i][1] # a /\ s[i][1] \in Appenders
  <2> SUFFICES ASSUME NEW i \in 1 .. m, s[i] # Newline PROVE s[i][1] # a /\ s[i][1] \in Appenders
    OBVIOUS
  <2>1. s[i] \in Pieces /\ i \in DOMAIN store.pieces /\ s = store.pieces
    BY <1>4
  <2>2. s[i][1] \in Appenders
    BY ONLY <2>1, s[i] # Newline DEF Pieces, Newline
  <2>3. appender[s[i][1]].pc = "end"
    BY <2>1 DEF StoreInv, PiecesWritten
  <2> QED
    BY <1>0, <2>2, <2>3
<1>13. \A i \in 1 .. n : t[i] # Newline => t[i][1] = a /\ (t[i][2] = 1 \/ t[i][2] = 2)
  <2>1. \A i \in 1 .. n : t[i] = Newline \/ t[i] = <<a, 1>> \/ t[i] = <<a, 2>>
    BY <1>2
  <2> QED
    BY <2>1
<1>14. \A i, j \in 1 .. n : t[i] # Newline /\ t[i] = t[j] => i = j
  <2>1. \A i \in 1 .. n : t[i] = Newline \/ i = o + 1 \/ i = o + 2
    BY <1>2
  <2>2. <<a, 1>> # <<a, 2>>
    OBVIOUS
  <2> QED
    BY <1>2, <2>1, <2>2
<1>15. PiecesWritten'
  <2>1. \A i \in DOMAIN u : i \in 1 .. m \/ (i - m \in 1 .. n /\ u[i] = t[i - m])
    <3> SUFFICES ASSUME NEW i \in DOMAIN u, ~(i \in 1 .. m)
        PROVE i - m \in 1 .. n /\ u[i] = t[i - m]
      OBVIOUS
    <3>1. i - m \in 1 .. n /\ m + (i - m) = i
      BY <1>5
    <3> QED
      BY <1>5, <3>1
  <2>2. ASSUME NEW i \in DOMAIN u, u[i] # Newline
        PROVE  u[i][1] \notin BadReceipts /\ appender'[u[i][1]].pc = "end"
    <3>1. CASE i \in 1 .. m
      <4>1. u[i] = s[i] /\ s[i][1] \in Appenders /\ s[i][1] # a
        BY <1>5, <1>12, <2>2, <3>1
      <4>2. s[i][1] \notin BadReceipts /\ appender[s[i][1]].pc = "end"
        BY <1>4, <2>2, <3>1, <4>1 DEF StoreInv, PiecesWritten
      <4> QED
        BY <1>9, <4>1, <4>2
    <3>2. CASE i - m \in 1 .. n /\ u[i] = t[i - m]
      BY <1>0, <1>7, <1>9, <1>13, <2>2, <3>2
    <3> QED
      BY <2>1, <3>1, <3>2
  <2>3. ASSUME NEW i \in DOMAIN u, NEW j \in DOMAIN u, u[i] # Newline, u[i] = u[j]
        PROVE  i = j
    <3>1. CASE i \in 1 .. m /\ j \in 1 .. m
      <4>1. u[i] = s[i] /\ u[j] = s[j]
        BY <1>5, <3>1
      <4>2. \A x, y \in DOMAIN s : s[x] # Newline /\ s[x] = s[y] => x = y
        BY <1>4 DEF StoreInv, PiecesWritten
      <4>3. i \in DOMAIN s /\ j \in DOMAIN s
        BY <1>4, <3>1
      <4> QED
        BY ONLY <2>3, <4>1, <4>2, <4>3
    <3>2. CASE i \notin 1 .. m /\ j \notin 1 .. m
      <4>1. PICK x \in 1 .. n, y \in 1 .. n : x = i - m /\ y = j - m /\ u[i] = t[x] /\ u[j] = t[y]
        BY <2>1, <3>2
      <4>2. x = y
        BY <1>14, <2>3, <4>1
      <4> QED
        BY <4>1, <4>2
    <3>3. ASSUME NEW x \in 1 .. m, NEW y \in DOMAIN u, y \notin 1 .. m, u[x] # Newline, u[x] = u[y]
          PROVE  FALSE
      <4>1. PICK z \in 1 .. n : u[y] = t[z]
        BY <2>1, <3>3
      <4>2. t[z][1] = a
        BY <1>13, <3>3, <4>1
      <4>3. u[x] = s[x] /\ s[x][1] # a
        BY <1>5, <1>12, <3>3
      <4> QED
        BY <3>3, <4>1, <4>2, <4>3
    <3> QED
      BY <2>3, <3>1, <3>2, <3>3
  <2> QED
    BY <1>5, <2>2, <2>3 DEF PiecesWritten, Newline
<1>16. KeptPlaced'
  <2> SUFFICES ASSUME NEW b \in Appenders
      PROVE  /\ appender'[b].pc \in {"look", "open", "check", "write"} => b \notin BadReceipts
             /\ appender'[b].pc # "end" => appender'[b].result = "none"
             /\ appender'[b].result = "ok" =>
                  \E p \in 1 .. Len(u) :
                     IsAt(b, p)' /\ (appender'[b].alone => p = 1 \/ u[p - 1] = Newline)
    BY <1>5 DEF KeptPlaced, Newline
  <2>1. CASE b # a
    <3>1. ASSUME appender[b].result = "ok"
          PROVE  \E p \in 1 .. Len(u) : IsAt(b, p)' /\ (appender[b].alone => p = 1 \/ u[p - 1] = Newline)
      <4>1. PICK p \in 1 .. m : IsAt(b, p) /\ (appender[b].alone => p = 1 \/ s[p - 1] = Newline)
        BY <1>4, <3>1 DEF StoreInv, KeptPlaced
      <4>2. p + 1 \in 1 .. m /\ p + 2 \in 1 .. m /\ (p # 1 => p - 1 \in 1 .. m)
        BY <1>4, <4>1 DEF IsAt
      <4>3. IsAt(b, p)'
        BY <1>4, <1>5, <4>1, <4>2, SMTT(30) DEF IsAt, Newline
      <4> QED
        BY <1>5, <4>1, <4>2, <4>3
    <3>2. appender[b].pc \in {"look", "open", "check", "write"} => b \notin BadReceipts
      BY DEF StoreInv, KeptPlaced
    <3>3. appender[b].pc # "end" => appender[b].result = "none"
      BY DEF StoreInv, KeptPlaced
    <3> QED
      BY <1>9, <2>1, <3>1, <3>2, <3>3
  <2>2. CASE b = a
    <3>1. ASSUME n = o + 3
          PROVE  \E p \in 1 .. Len(u) : IsAt(a, p)' /\ (appender[a].alone => p = 1 \/ u[p - 1] = Newline)
      <4>2. u[m + (o + 1)] = <<a, 1>> /\ u[m + (o + 2)] = <<a, 2>> /\ u[m + (o + 3)] = Newline
        <5>1. o + 1 \in 1 .. n /\ o + 2 \in 1 .. n /\ o + 3 \in 1 .. n
          BY <3>1
        <5> QED
          BY <1>2, <1>5, <3>1, <5>1
      <4>3. PICK p \in 1 .. Len(u) : p = m + (o + 1) /\ p + 1 = m + (o + 2) /\ p + 2 = m + (o + 3)
                                     /\ p + 2 <= Len(u)
        <5>1. m \in Nat /\ o \in Nat /\ Len(u) = m + n
          BY <1>2, <1>5
        <5>2. m + (o + 1) \in 1 .. Len(u) /\ m + (o + 3) <= Len(u)
          BY <3>1, <5>1
        <5> QED
          BY ONLY <5>1, <5>2
      <4>4. IsAt(a, p)'
        BY <1>5, <4>2, <4>3 DEF IsAt, Newline
      <4>5. ASSUME appender[a].alone PROVE p = 1 \/ u[p - 1] = Newline
        <5>1. g = (s # <<>> /\ s[m] # Newline)
          BY <1>0, <1>1, <1>4, <4>5 DEF StoreInv, AloneInFlight
        <5>2. CASE g
          <6>2. o = 1 /\ t[1] = Newline
            BY <1>2, <5>2
          <6>1. o = 1 /\ p - 1 = m + 1 /\ t[1] = Newline /\ 1 \in 1 .. n
            BY <3>1, <4>3, <6>2
          <6> QED
            BY <1>5, <6>1
        <5>3. CASE ~g /\ s = <<>>
          <6>2. o = 0
            BY <1>2, <5>3
          <6>1. o = 0 /\ m = 0
            BY <1>4, <5>3, <6>2
          <6> QED
            BY <4>3, <6>1
        <5>4. CASE ~g /\ s # <<>>
          <6>2. o = 0
            BY <1>2, <5>4
          <6>3. m # 0
            BY <1>4, <5>4
          <6>4. s[m] = Newline
            BY <1>4, <5>1, <5>4, Zenon
          <6>1. o = 0 /\ m \in 1 .. m /\ p - 1 = m /\ s[m] = Newline
            BY <4>3, <6>2, <6>3, <6>4
          <6> QED
            BY <1>5, <6>1
        <5> QED
          BY <5>2, <5>3, <5>4
      <4> QED
        BY <4>4, <4>5
    <3> QED
      BY <1>7, <1>9, <2>2, <3>1
  <2> QED
    BY <2>1, <2>2
<1>17. AloneInFlight'
  <2>1. InFlight' \subseteq InFlight \ {a}
    BY <1>7, <1>9 DEF InFlight
  <2>2. ASSUME NEW b \in InFlight', appender'[b].alone PROVE FALSE
    <3>1. b \in InFlight /\ appender[b].alone /\ b # a
      BY <1>9, <2>1, <2>2 DEF InFlight
    <3> QED
      BY <1>0, <3>1 DEF StoreInv, AloneInFlight
  <2> QED
    BY <2>2 DEF AloneInFlight
<1>18. SizeBudget'
  <2>1. Writing' = Writing \ {a} /\ Gluing' = Gluing \ {a} /\ a \in Writing /\ (a \in Gluing <=> g)
    BY <1>0, <1>1, <1>7, <1>9 DEF Writing, Gluing
  <2>2. IsFiniteSet(Writing) /\ IsFiniteSet(Gluing)
    BY StoreLimits, FS_Subset DEF Writing, Gluing
  <2>3. PICK v \in Nat, w \in Nat :
          /\ v = Cardinality(Writing) /\ w = Cardinality(Gluing)
          /\ Cardinality(Writing \ {a}) = v - 1
          /\ Cardinality(Gluing \ {a}) = w - o
    <3>1. Cardinality(Writing) \in Nat /\ Cardinality(Gluing) \in Nat
      BY <2>2, FS_CardinalityType
    <3>2. Cardinality(Writing \ {a}) = Cardinality(Writing) - 1
      BY <2>1, <2>2, FS_RemoveElement
    <3>3. CASE g
      <4>1. Cardinality(Gluing \ {a}) = Cardinality(Gluing) - 1
        BY <2>1, <2>2, <3>3, FS_RemoveElement
      <4>2. o = 1
        BY <1>2, <3>3
      <4> QED
        BY <3>1, <3>2, <4>1, <4>2
    <3>4. CASE ~g
      <4>1. Cardinality(Gluing \ {a}) = Cardinality(Gluing)
        <5>1. Gluing \ {a} = Gluing
          BY <2>1, <3>4
        <5> QED
          BY <5>1
      <4>2. o = 0
        BY <1>2, <3>4
      <4> QED
        BY <3>1, <3>2, <4>1, <4>2
    <3> QED
      BY <3>3, <3>4
  <2>4. PICK k \in Nat : k = Cardinality(Appenders)
    BY StoreLimits, FS_CardinalityType
  <2>5. m + 3 * v + w <= MaxPieces + 4 * (k - 1)
    BY <1>4, <2>3, <2>4 DEF StoreInv, SizeBudget
  <2>6. Len(u) + 3 * (v - 1) + (w - o) <= MaxPieces + 4 * (k - 1)
    <3>1. m \in Nat /\ o \in Nat /\ n \in Nat /\ n <= o + 3 /\ Len(u) = m + n /\ MaxPieces \in Nat
      BY <1>2, <1>5, StoreLimits
    <3> QED
      BY ONLY <2>5, <3>1, v \in Nat, w \in Nat, k \in Nat
  <2> QED
    BY <1>5, <2>1, <2>3, <2>4, <2>6 DEF SizeBudget
<1> QED
  BY <1>10, <1>11, <1>15, <1>16, <1>17, <1>18 DEF StoreInv

LEMMA LeastOne ==
  ASSUME NEW T \in SUBSET Nat, T # {}
  PROVE  \E x \in T : \A y \in T : ~(y < x)
<1>1. PICK x \in T : \A y \in T : ~(<<y, x>> \in OpToRel(<, Nat))
  BY NatLessThanWellFounded, WFMin
<1> QED
  BY <1>1 DEF OpToRel

\* The span of a line that holds a receipt, and what is in it.
LEMMA SpansOfLines ==
  ASSUME StoreTyped, NEW b \in Appenders, NEW f \in 1 .. Len(store.pieces) + 1, NEW e \in 1 .. Len(store.pieces) + 1, f <= e
  PROVE  Holds(<<f, e>>, b) <=> e = f + 2 /\ store.pieces[f] = <<b, 1>> /\ store.pieces[f + 1] = <<b, 2>>
<1>1. PICK s \in Seq(Pieces), m \in Nat : s = store.pieces /\ m = Len(s) /\ DOMAIN s = 1 .. m
  BY DEF StoreTyped, Store
<1>2. PICK v : v = SubSeq(s, f, e - 1) /\ v \in Seq(Pieces) /\ Len(v) = e - f
               /\ \A i \in 1 .. e - f : v[i] = s[f + i - 1]
  <2>1. f \in Int /\ e - 1 \in Int /\ (e - 1) - f + 1 = e - f /\ \A i \in f .. e - 1 : i \in 1 .. m
    BY <1>1
  <2>2. \A i \in f .. e - 1 : s[i] \in Pieces
    BY <1>1, <2>1
  <2> DEFINE x == SubSeq(s, f, e - 1)
  <2>3. x \in Seq(Pieces) /\ Len(x) = (IF f <= e - 1 THEN (e - 1) - f + 1 ELSE 0)
        /\ \A i \in 1 .. (e - 1) - f + 1 : x[i] = s[f + i - 1]
    BY ONLY <2>1, <2>2, SubSeqProperties
  <2> HIDE DEF x
  <2>4. Len(x) = e - f /\ \A i \in 1 .. e - f : x[i] = s[f + i - 1]
    BY <1>1, <2>1, <2>3
  <2> QED
    BY <2>3, <2>4 DEF x
<1>3. Holds(<<f, e>>, b) <=> v = Text(b)
  BY <1>1, <1>2 DEF Holds
<1>4. PICK w \in Seq(Pieces) : w = Text(b) /\ Len(w) = 2 /\ w[1] = <<b, 1>> /\ w[2] = <<b, 2>>
  <2>1. PICK x \in Pieces, y \in Pieces : x = <<b, 1>> /\ y = <<b, 2>>
    <3>1. <<b, 1>> \in Pieces /\ <<b, 2>> \in Pieces
      BY DEF Pieces
    <3> QED
      BY <3>1
  <2> DEFINE w == <<x, y>>
  <2>2. w \in Seq(Pieces) /\ Len(w) = 2 /\ w[1] = x /\ w[2] = y
    OBVIOUS
  <2>3. w = Text(b)
    BY <2>1 DEF Text
  <2> HIDE DEF w
  <2> QED
    BY <2>1, <2>2, <2>3
<1>5. ASSUME v = w PROVE e = f + 2 /\ s[f] = <<b, 1>> /\ s[f + 1] = <<b, 2>>
  <2>1. e - f = 2
    BY <1>2, <1>4, <1>5
  <2>2. 1 \in 1 .. e - f /\ 2 \in 1 .. e - f /\ f + 1 - 1 = f /\ f + 2 - 1 = f + 1 /\ e = f + 2
    BY <1>1, <2>1
  <2>3. v[1] = s[f + 1 - 1] /\ v[2] = s[f + 2 - 1]
    BY <1>2, <2>2
  <2> QED
    BY <1>4, <1>5, <2>2, <2>3
<1>6. ASSUME e = f + 2, s[f] = <<b, 1>>, s[f + 1] = <<b, 2>> PROVE v = w
  <2>1. e - f = 2 /\ f + 1 - 1 = f /\ f + 2 - 1 = f + 1 /\ 1 \in 1 .. e - f /\ 2 \in 1 .. e - f
    BY <1>1, <1>6
  <2>2. Len(v) = 2 /\ v[1] = <<b, 1>> /\ v[2] = <<b, 2>>
    BY <1>2, <1>6, <2>1
  <2>3. \A i \in 1 .. Len(v) : v[i] = w[i]
    <3>1. \A i \in 1 .. 2 : i = 1 \/ i = 2
      OBVIOUS
    <3> QED
      BY <1>4, <2>2, <3>1
  <2>4. v \in Seq(Pieces) /\ Len(v) = Len(w)
    BY <1>2, <1>4, <2>2
  <2> QED
    BY <2>3, <2>4, SeqEqual
<1> QED
  BY <1>1, <1>3, <1>4, <1>5, <1>6

\* The text of an append that reported success is between two line ends, of which the second is next to it.
LEMMA KeptIsLine ==
  ASSUME StoreInv, NEW a \in Appenders, NEW p \in 1 .. Len(store.pieces), IsAt(a, p)
  PROVE  /\ Holds(<<p, p + 2>>, a)
         /\ p = 1 \/ store.pieces[p - 1] = Newline => <<p, p + 2>> \in records
         /\ \E f \in 1 .. p : <<f, p + 2>> \in records
         /\ \A l \in records : Holds(l, a) => l = <<p, p + 2>>
<1>1. PICK s \in Seq(Pieces), m \in Nat : s = store.pieces /\ m = Len(s) /\ DOMAIN s = 1 .. m
  BY DEF StoreInv, StoreTyped, Store
<1>2. p \in Nat \ {0} /\ p + 2 <= m /\ s[p] = <<a, 1>> /\ s[p + 1] = <<a, 2>> /\ s[p + 2] = Newline
  BY <1>1 DEF IsAt
<1>3. s[p] # Newline /\ s[p + 1] # Newline
  BY <1>2 DEF Newline
<1>4. Holds(<<p, p + 2>>, a)
  <2>1. p \in 1 .. Len(store.pieces) + 1 /\ p + 2 \in 1 .. Len(store.pieces) + 1 /\ p <= p + 2
    BY <1>1, <1>2
  <2>2. store.pieces[p] = <<a, 1>> /\ store.pieces[p + 1] = <<a, 2>>
    BY <1>1, <1>2
  <2> QED
    BY <2>1, <2>2, SpansOfLines DEF StoreInv
<1>5. ASSUME NEW f \in 1 .. p, f = 1 \/ s[f - 1] = Newline, \A i \in f .. p : s[i] # Newline
      PROVE  <<f, p + 2>> \in records
  <2>1. \A i \in f .. (p + 2) - 1 : i \in f .. p \/ i = p + 1
    BY <1>2
  <2>2. \A i \in f .. (p + 2) - 1 : s[i] # Newline
    BY <1>3, <1>5, <2>1
  <2>3. f \in 1 .. m + 1 /\ p + 2 \in 1 .. m + 1 /\ f <= p + 2 /\ f < p + 2
    BY <1>2
  <2>4. <<f, p + 2>> \in StoreLines
    BY <1>1, <1>2, <1>5, <2>2, <2>3 DEF StoreLines
  <2> QED
    BY <2>3, <2>4 DEF records
<1>6. \E f \in 1 .. p : (f = 1 \/ s[f - 1] = Newline) /\ \A i \in f .. p : s[i] # Newline
  <2> DEFINE T == {f \in 1 .. p : \A i \in f .. p : s[i] # Newline}
  <2>1. p \in T
    <3>1. \A i \in p .. p : i = p
      OBVIOUS
    <3> QED
      BY <1>3, <3>1
  <2>2. PICK f \in T : \A y \in T : ~(y < f)
    <3>1. T \subseteq Nat
      OBVIOUS
    <3>2. T # {}
      BY <2>1
    <3> HIDE DEF T
    <3> QED
      BY <3>1, <3>2, LeastOne
  <2>3. ASSUME f # 1, s[f - 1] # Newline PROVE FALSE
    <3>1. f - 1 \in 1 .. p /\ \A i \in f - 1 .. p : i = f - 1 \/ i \in f .. p
      BY <2>3
    <3>2. f - 1 \in T
      BY <2>3, <3>1
    <3>3. f - 1 < f
      OBVIOUS
    <3> QED
      BY <2>2, <3>2, <3>3
  <2> QED
    BY <2>2, <2>3
<1>7. ASSUME NEW l \in records, Holds(l, a) PROVE l = <<p, p + 2>>
  <2>1. PICK f \in 1 .. m + 1, e \in 1 .. m + 1 : l = <<f, e>> /\ f <= e
    BY <1>1 DEF records, StoreLines
  <2>2. e = f + 2 /\ s[f] = <<a, 1>>
    BY <1>1, <1>7, <2>1, SpansOfLines DEF StoreInv
  <2>3. f \in 1 .. m /\ p \in 1 .. m
    BY <1>2, <2>1, <2>2
  <2>4. f = p
    BY <1>1, <1>2, <1>3, <2>2, <2>3 DEF StoreInv, PiecesWritten
  <2> QED
    BY <2>1, <2>2, <2>4
<1>8. p \in 1 .. p /\ (p = 1 \/ s[p - 1] = Newline => \A i \in p .. p : s[i] # Newline)
  <2>1. \A i \in p .. p : i = p
    OBVIOUS
  <2> QED
    BY <1>3, <2>1
<1> QED
  BY <1>1, <1>4, <1>5, <1>6, <1>7, <1>8

LEMMA StoreSteps == StoreInv /\ [ReceiptsNext]_receiptVars => StoreInv'
<1> SUFFICES ASSUME StoreInv, [ReceiptsNext]_receiptVars PROVE StoreInv'
  OBVIOUS
<1>1. CASE ReceiptsNext
  BY <1>1, BeginStep, LookStep, OpenStep, CheckStep, WriteStep DEF ReceiptsNext
<1>2. CASE UNCHANGED receiptVars
  <2>1. store' = store /\ appender' = appender
    BY <1>2 DEF receiptVars
  <2>2. StoreTyped' /\ AbsentIsEmpty' /\ PiecesWritten'
    BY <2>1 DEF StoreInv, StoreTyped, AbsentIsEmpty, PiecesWritten, Newline
  <2>3. InFlight' = InFlight /\ Writing' = Writing /\ Gluing' = Gluing
    BY <2>1 DEF InFlight, Writing, Gluing
  <2>4. \A b, p : IsAt(b, p)' <=> IsAt(b, p)
    BY <2>1 DEF IsAt, Newline
  <2> HIDE DEF InFlight, Writing, Gluing, IsAt
  <2>5. AloneInFlight'
    BY <2>1, <2>3 DEF StoreInv, AloneInFlight, Newline
  <2>6. KeptPlaced'
    BY <2>1, <2>4 DEF StoreInv, KeptPlaced, Newline
  <2>7. SizeBudget'
    BY <2>1, <2>3 DEF StoreInv, SizeBudget
  <2> QED
    BY <2>2, <2>5, <2>6, <2>7 DEF StoreInv
<1> QED
  BY <1>1, <1>2

\* Whatever the appends overlap with and wherever one of them is killed, a load that succeeds has
\* every receipt that was reported stored, once; an append that overlapped no other is a line of
\* its own; and the store exceeds its size by less than a line for each overlapping append.
THEOREM ReceiptsAlwaysKept == ReceiptsSpec => []ReceiptsKept
<1>1. StoreInv => ReceiptsKept
  <2> SUFFICES ASSUME StoreInv PROVE ReceiptsKept
    OBVIOUS
  <2>1. ASSUME NEW a \in Appenders, appender[a].result = "ok", load_receipts.ok
        PROVE  \E l \in load_receipts.receipts :
                  Holds(l, a) /\ \A m \in load_receipts.receipts : Holds(m, a) => m = l
    <3>1. PICK p \in 1 .. Len(store.pieces) : IsAt(a, p)
      BY <2>1 DEF StoreInv, KeptPlaced
    <3>2. store.kind # "absent"
      BY <3>1 DEF StoreInv, AbsentIsEmpty
    <3>3. load_receipts.receipts = records /\ \A l \in records : \E b \in Appenders : Holds(l, b)
      BY <2>1, <3>2 DEF load_receipts
    <3>4. PICK f \in 1 .. p : <<f, p + 2>> \in records
      BY <3>1, KeptIsLine
    <3>5. PICK b \in Appenders : Holds(<<f, p + 2>>, b)
      BY <3>3, <3>4
    <3>6. p + 2 = f + 2
      <4>1. Len(store.pieces) \in Nat
        BY DEF StoreInv, StoreTyped, Store
      <4>2. f \in 1 .. Len(store.pieces) + 1 /\ p + 2 \in 1 .. Len(store.pieces) + 1 /\ f <= p + 2
        BY <3>1, <4>1 DEF IsAt
      <4> QED
        BY <3>5, <4>2, SpansOfLines DEF StoreInv
    <3>7. f = p
      BY <3>6
    <3> QED
      BY <3>1, <3>3, <3>4, <3>7, KeptIsLine
  <2>2. load_receipts.ok => Cardinality(load_receipts.receipts) = count_receipts
    <3>1. CASE store.kind = "absent"
      <4>1. records = {}
        BY <3>1 DEF StoreInv, AbsentIsEmpty, records, StoreLines
      <4> QED
        BY <3>1, <4>1 DEF load_receipts, count_receipts
    <3>2. CASE store.kind # "absent"
      BY <3>2 DEF load_receipts, count_receipts
    <3> QED
      BY <3>1, <3>2
  <2>3. ASSUME NEW a \in Appenders, appender[a].result = "ok", appender[a].alone
        PROVE  \E l \in StoreLines : Holds(l, a)
    <3>1. PICK p \in 1 .. Len(store.pieces) : IsAt(a, p) /\ (p = 1 \/ store.pieces[p - 1] = Newline)
      BY <2>3 DEF StoreInv, KeptPlaced
    <3> QED
      BY <3>1, KeptIsLine DEF records
  <2>4. Len(store.pieces) <= MaxPieces + 4 * (Cardinality(Appenders) - 1)
    <3>1. PICK n \in Nat, v \in Nat, w \in Nat, k \in Nat :
            n = Len(store.pieces) /\ v = Cardinality(Writing) /\ w = Cardinality(Gluing) /\ k = Cardinality(Appenders)
      <4>1. IsFiniteSet(Writing) /\ IsFiniteSet(Gluing)
        BY StoreLimits, FS_Subset DEF Writing, Gluing
      <4> QED
        BY <4>1, StoreLimits, FS_CardinalityType DEF StoreInv, StoreTyped, Store
    <3>2. n + 3 * v + w <= MaxPieces + 4 * (k - 1)
      BY <3>1 DEF StoreInv, SizeBudget
    <3>3. n <= MaxPieces + 4 * (k - 1)
      BY <3>2, StoreLimits
    <3> QED
      BY <3>1, <3>3
  <2> QED
    BY <2>1, <2>2, <2>3, <2>4 DEF ReceiptsKept
<1> QED
  BY <1>1, StoreStarts, StoreSteps, PTL DEF ReceiptsSpec
-----------------------------------------------------------------------------
(* Findings *)

\* The first of some places of a review is one of them.
LEMMA FirstIsOne ==
  ASSUME NEW S, S \subseteq Nat \X Nat, S # {}
  PROVE  First(S) \in S
<1> DEFINE F == {p[1] : p \in S}
<1>1. F \in SUBSET Nat /\ F # {}
  OBVIOUS
<1>2. PICK f \in F : \A y \in F : ~(y < f)
  BY <1>1, LeastOne
<1> DEFINE H == {p[2] : p \in {r \in S : r[1] = f}}
<1>3. H \in SUBSET Nat /\ H # {}
  OBVIOUS
<1>4. PICK h \in H : \A y \in H : ~(y < h)
  BY <1>3, LeastOne
<1>5. <<f, h>> \in S /\ f \in Nat /\ h \in Nat
  BY <1>1, <1>3, <1>4
<1>6. \A q \in S : <<f, h>> = q \/ Before(<<f, h>>, q)
  <2> SUFFICES ASSUME NEW q \in S PROVE <<f, h>> = q \/ Before(<<f, h>>, q)
    OBVIOUS
  <2>1. PICK a \in Nat, b \in Nat : q = <<a, b>>
    OBVIOUS
  <2>2. a \in F /\ ~(a < f)
    BY <2>1, <1>2
  <2>3. a = f => b \in H /\ ~(b < h)
    BY <2>1, <1>4
  <2> QED
    BY <1>5, <2>1, <2>2, <2>3 DEF Before
<1> QED
  BY <1>5, <1>6 DEF First

\* The least of some positions is one of them.
LEMMA MinIsOne ==
  ASSUME NEW S \in SUBSET Nat, S # {}
  PROVE  Min(S) \in S
<1>1. PICK m \in S : \A y \in S : ~(y < m)
  BY LeastOne
<1>2. \A y \in S : m <= y
  BY <1>1
<1> QED
  BY <1>2 DEF Min

LEMMA PlacesAreNumbered ==
  ASSUME sections \in Reviews
  PROVE  Places \subseteq (Nat \ {0}) \X (Nat \ {0}) /\ <<0, 0>> \notin Places
<1>1. \A p \in Places : \E f \in DOMAIN sections : \E h \in DOMAIN sections[f].hunks :
         p = <<f, h>> /\ f \in Nat \ {0} /\ h \in Nat \ {0}
  BY FindingValues DEF Places
<1> QED
  BY <1>1

\* A line of an accepted finding is the line of the hunk it is shown with.
IsLine(said, shown) ==
  /\ said.number = IF said.side = "new" THEN shown.new ELSE shown.old
  /\ said.text = shown.text /\ said.kind = shown.kind
HoldsLine(hunk, said) == \E l \in DOMAIN hunk.lines : IsLine(said, hunk.lines[l])
\* An accepted finding is of a file as a whole, or of a hunk of its path that holds its lines.
Points(a) ==
  \/ a.address = {} /\ a.line = {}
  \/ \E p \in Places : /\ sections[p[1]].path = a.path /\ a.address = {AddressAt(p)}
                       /\ \A said \in a.line : HoldsLine(HunkAt(p), said)

LEMMA LinesAreTheHunks ==
  ASSUME NEW hunk, DOMAIN hunk.lines \subseteq Nat, NEW side, NEW n, line_in(hunk, side, n) # {}
  PROVE  HoldsLine(hunk, AcceptedLine(hunk, side, n))
<1>1. PICK l : l = Min(line_in(hunk, side, n))
  OBVIOUS
<1>2. l \in line_in(hunk, side, n)
  <2>1. line_in(hunk, side, n) \in SUBSET Nat
    BY DEF line_in
  <2> QED
    BY <1>1, <2>1, MinIsOne
<1>3. l \in DOMAIN hunk.lines /\ n = IF side = "new" THEN hunk.lines[l].new ELSE hunk.lines[l].old
  BY <1>2 DEF line_in
<1>4. AcceptedLine(hunk, side, n) = [side |-> side, number |-> n, kind |-> hunk.lines[l].kind, text |-> hunk.lines[l].text]
  BY <1>1 DEF AcceptedLine
<1> QED
  BY <1>3, <1>4 DEF HoldsLine, IsLine

\* Where a finding resolves to: a file as a whole, or a hunk of the path it is put under.
LEMMA ResolvedIsThere ==
  ASSUME sections \in Reviews, NEW found \in GivenFindings, resolve(found).refusal = "none"
  PROVE  \/ resolve(found).place = <<0, 0>>
         \/ resolve(found).place \in Places /\ sections[resolve(found).place[1]].path = resolve(found).path
<1> DEFINE places == {p \in Places : AddressAt(p) \in found.address}
           named == {f \in DOMAIN sections : sections[f].path \in found.path}
           holding == {p \in Places : p[1] \in named /\ \E n \in found.line : line_in(HunkAt(p), found.side, n) # {}}
<1>0. Places \subseteq Nat \X Nat
  BY PlacesAreNumbered
<1>1. \A why \in {"unknown_address", "unknown_path", "line_outside_hunk"} : Refused(why).refusal # "none"
  BY DEF Refused
<1>2. CASE found.address # {}
  <2>1. places # {} /\ resolve(found) = Resolved(sections[First(places)[1]].path, "address", First(places))
    BY <1>1, <1>2 DEF resolve
  <2>2. First(places) \in places
    BY <1>0, <2>1, FirstIsOne
  <2> QED
    BY <2>1, <2>2 DEF Resolved
<1>3. CASE found.address = {} /\ found.line = {}
  <2>1. resolve(found) = Resolved(PathOfSection(named), "file", <<0, 0>>)
    BY <1>1, <1>3 DEF resolve
  <2> QED
    BY <2>1 DEF Resolved
<1>4. CASE found.address = {} /\ found.line # {}
  <2>1. named # {} /\ holding # {} /\ resolve(found) = Resolved(PathOfSection(named), "line", First(holding))
    BY <1>1, <1>4 DEF resolve
  <2>2. First(holding) \in holding
    BY <1>0, <2>1, FirstIsOne
  <2>3. named \in SUBSET Nat
    BY FindingValues
  <2>4. Min(named) \in named
    BY <2>1, <2>3, MinIsOne
  <2>5. sections[First(holding)[1]].path = PathOfSection(named)
    <3>1. First(holding)[1] \in named
      BY <2>2
    <3>2. sections[First(holding)[1]].path \in found.path /\ sections[Min(named)].path \in found.path
      BY ONLY <2>4, <3>1
    <3>3. \A p, q \in found.path : p = q
      BY FindingValues
    <3> QED
      BY ONLY <3>2, <3>3 DEF PathOfSection
  <2>6. resolve(found).place = First(holding) /\ resolve(found).path = PathOfSection(named)
    BY ONLY <2>1 DEF Resolved
  <2> QED
    BY ONLY <2>2, <2>5, <2>6
<1> QED
  BY <1>2, <1>3, <1>4

LEMMA CheckedPoints ==
  ASSUME sections \in Reviews, NEW found \in GivenFindings, check(found).refusal = "none"
  PROVE  Points(check(found))
<1>1. PICK at : at = resolve(found)
  OBVIOUS
<1>2. \A why \in {"malformed", "stale_review", "too_long", "line_outside_hunk"} : Refused(why).refusal # "none"
  BY DEF Refused
<1>3. /\ at.refusal = "none"
      /\ \A n \in found.line : at.place # <<0, 0>> /\ line_in(HunkAt(at.place), found.side, n) # {}
      /\ check(found).path = at.path
      /\ check(found).address = {AddressAt(p) : p \in {at.place} \ {<<0, 0>>}}
      /\ check(found).line = {AcceptedLine(HunkAt(at.place), found.side, n) : n \in found.line}
  <2>1. ~(~found.wellFormed \/ found.agent = [says |-> "", hidden |-> FALSE] \/ (found.address = {} /\ found.path = {}))
    BY <1>2 DEF check
  <2>2. found.review \subseteq {"this"} /\ ~found.long
    BY <1>2, <2>1 DEF check
  <2>3. at.refusal = "none"
    BY <1>1, <2>1, <2>2 DEF check
  <2>4. ~ \E n \in found.line : at.place = <<0, 0>> \/ line_in(HunkAt(at.place), found.side, n) = {}
    BY <1>1, <1>2, <2>1, <2>2, <2>3 DEF check
  <2>5. check(found) = [refusal |-> "none", agent |-> clean(found.agent), title |-> clean(found.title),
               path |-> at.path, anchor |-> at.anchor,
               address |-> {AddressAt(p) : p \in {at.place} \ {<<0, 0>>}},
               line |-> {AcceptedLine(HunkAt(at.place), found.side, n) : n \in found.line}]
    BY <1>1, <2>1, <2>2, <2>3, <2>4 DEF check
  <2> QED
    BY <2>3, <2>4, <2>5
<1>4. CASE at.place = <<0, 0>>
  BY <1>3, <1>4 DEF Points
<1>5. CASE at.place # <<0, 0>>
  <2>1. at.place \in Places /\ sections[at.place[1]].path = at.path
    BY <1>1, <1>3, <1>5, ResolvedIsThere
  <2>2. check(found).address = {AddressAt(at.place)}
    BY <1>3, <1>5
  <2>3. DOMAIN HunkAt(at.place).lines \subseteq Nat
    BY <2>1, FindingValues DEF Places, HunkAt
  <2>4. \A said \in check(found).line : HoldsLine(HunkAt(at.place), said)
    BY <1>3, <2>3, LinesAreTheHunks
  <2> QED
    BY <1>3, <2>1, <2>2, <2>4 DEF Points
<1> QED
  BY <1>4, <1>5

\* The findings that are not blank lines, and what a check may say of them.
Real == {k \in DOMAIN given : ~given[k].blank}
Checks == {check(found) : found \in GivenFindings}
AcceptedOnes == [index : Nat, found : Checks]
RefusedOnes == [index : Nat, reason : {c.refusal : c \in Checks} \cup {"duplicate"}]
AcceptedIndices == {verdict.accepted[k].index : k \in DOMAIN verdict.accepted}
RefusedIndices == {verdict.refused[k].index : k \in DOMAIN verdict.refused}

VerdictOK ==
  /\ sections \in Reviews
  /\ given \in Seq(GivenFindings)
  /\ verdict \in [accepted : Seq(AcceptedOnes), refused : Seq(RefusedOnes), overLimit : Nat, index : Nat]
\* Every finding up to the limit has an index of its own, accepted or refused; the rest is counted.
VerdictCounts ==
  /\ IsFiniteSet(Real)
  /\ Cardinality(Real) = verdict.index + verdict.overLimit
  /\ verdict.index <= MAX_FINDINGS
  /\ verdict.overLimit > 0 => verdict.index = MAX_FINDINGS
  /\ Len(verdict.accepted) + Len(verdict.refused) = verdict.index
  /\ AcceptedIndices \cup RefusedIndices = 0 .. verdict.index - 1
AcceptedOnce ==
  \A j, k \in DOMAIN verdict.accepted : j # k =>
     /\ verdict.accepted[j].index # verdict.accepted[k].index
     /\ DuplicateKey(verdict.accepted[j].found) # DuplicateKey(verdict.accepted[k].found)
AcceptedPoint == \A k \in DOMAIN verdict.accepted : Points(verdict.accepted[k].found)
VerdictInv == VerdictOK /\ VerdictCounts /\ AcceptedOnce /\ AcceptedPoint

\* The least of two numbers is one of them.
LEMMA MinOfTwo ==
  ASSUME NEW a \in Nat, NEW b \in Nat
  PROVE  Min({a, b}) = IF a <= b THEN a ELSE b
<1>1. Min({a, b}) \in {a, b}
  BY MinIsOne
<1>2. PICK m \in {a, b} : \A y \in {a, b} : m <= y
  <2>1. CASE a <= b
    BY <2>1
  <2>2. CASE ~(a <= b)
    BY <2>2
  <2> QED
    BY <2>1, <2>2
<1>3. \A y \in {a, b} : Min({a, b}) <= y
  BY <1>2 DEF Min
<1> QED
  BY <1>1, <1>3

\* The note of an accepted finding is at the first hunk with its path and its address.
LEMMA NotesPoint ==
  ASSUME VerdictInv, NEW k \in DOMAIN verdict.accepted
  PROVE  LET a == verdict.accepted[k].found
             at == annotation(verdict.accepted[k]).hunk
         IN  /\ (a.address = {}) <=> (at = <<0, 0>>)
             /\ \A said \in a.line : HoldsLine(HunkAt(at), said)
<1> DEFINE a == verdict.accepted[k].found
           places == {p \in Places : sections[p[1]].path = a.path /\ AddressAt(p) \in a.address}
<1>1. PICK at : at = annotation(verdict.accepted[k]).hunk /\ at = IF places = {} THEN <<0, 0>> ELSE First(places)
  BY DEF annotation
<1>2. Points(a) /\ sections \in Reviews
  BY DEF VerdictInv, AcceptedPoint, VerdictOK
<1>3. Places \subseteq Nat \X Nat /\ <<0, 0>> \notin Places
  BY <1>2, PlacesAreNumbered
<1> HIDE DEF a
<1>4. CASE a.address = {} /\ a.line = {}
  <2>1. places = {}
    BY <1>4
  <2> QED
    BY <1>1, <1>4, <2>1 DEF a
<1>5. CASE ~(a.address = {} /\ a.line = {})
  <2>1. PICK p \in Places : /\ sections[p[1]].path = a.path /\ a.address = {AddressAt(p)}
                            /\ \A said \in a.line : HoldsLine(HunkAt(p), said)
    BY <1>2, <1>5 DEF Points
  <2>2. p \in places
    BY <2>1
  <2>3. at \in places
    BY <1>1, <1>3, <2>2, FirstIsOne
  <2>4. AddressAt(at) = AddressAt(p)
    BY <2>1, <2>3
  <2>5. HunkAt(at).lines = HunkAt(p).lines
    BY <2>4 DEF AddressAt, address
  <2>6. \A said \in a.line : HoldsLine(HunkAt(at), said)
    BY <2>1, <2>5 DEF HoldsLine
  <2>7. a.address # {} /\ at # <<0, 0>>
    BY <1>3, <2>1, <2>3
  <2> QED
    BY <1>1, <2>6, <2>7 DEF a
<1> QED
  BY <1>4, <1>5

LEMMA VerdictTells == VerdictInv => NotesPointTrue
<1> SUFFICES ASSUME VerdictInv PROVE NotesPointTrue
  OBVIOUS
<1> USE DEF VerdictInv
<1>1. PICK acc \in Seq(AcceptedOnes), ref \in Seq(RefusedOnes), over \in Nat, index \in Nat :
        verdict.accepted = acc /\ verdict.refused = ref /\ verdict.overLimit = over /\ verdict.index = index
  BY DEF VerdictOK
<1>2. PICK card : card = Cardinality(Real) /\ card = index + over
  BY <1>1 DEF VerdictCounts
<1>3. Len(acc) + Len(ref) + over = card
  BY <1>1, <1>2 DEF VerdictCounts
<1>4. index = Min({card, MAX_FINDINGS})
  <2>1. card \in Nat /\ MAX_FINDINGS \in Nat /\ index <= MAX_FINDINGS /\ (over > 0 => index = MAX_FINDINGS)
    BY <1>1, <1>2, FindingValues DEF VerdictCounts
  <2>2. index = IF card <= MAX_FINDINGS THEN card ELSE MAX_FINDINGS
    BY <1>2, <2>1
  <2> QED
    BY <2>1, <2>2, MinOfTwo
<1>5. AcceptedIndices \cup RefusedIndices = 0 .. Min({card, MAX_FINDINGS}) - 1
  BY <1>1, <1>4 DEF VerdictCounts
<1>6. ASSUME NEW k \in DOMAIN acc
      PROVE  /\ (acc[k].found.address = {}) <=> (annotation(acc[k]).hunk = <<0, 0>>)
             /\ \A said \in acc[k].found.line : HoldsLine(HunkAt(annotation(acc[k]).hunk), said)
  BY <1>1, NotesPoint
<1>7. ASSUME NEW k \in DOMAIN acc
      PROVE  source_of(annotation(acc[k])) = "agent" /\ ~annotation(acc[k]).grounded
  <2>1. <<"agent:", acc[k].found.agent>> # SystemAgent
    BY DEF SystemAgent
  <2> QED
    BY <2>1 DEF source_of, annotation
<1>8. ASSUME NEW k \in DOMAIN acc, NEW j \in DOMAIN acc \ {k}
      PROVE  annotation(acc[j]).id # annotation(acc[k]).id /\ DuplicateKey(acc[j].found) # DuplicateKey(acc[k].found)
  <2>1. acc[j].index # acc[k].index /\ DuplicateKey(acc[j].found) # DuplicateKey(acc[k].found)
    BY <1>1 DEF AcceptedOnce
  <2> QED
    BY <2>1 DEF annotation
<1> HIDE DEF VerdictInv
<1>9. ASSUME NEW k \in DOMAIN acc
      PROVE  \A said \in acc[k].found.line : \E l \in DOMAIN HunkAt(annotation(acc[k]).hunk).lines :
                IsLine(said, HunkAt(annotation(acc[k]).hunk).lines[l])
  BY <1>6 DEF HoldsLine
<1>10. \A k \in DOMAIN verdict.accepted :
         /\ (verdict.accepted[k].found.address = {}) <=> (annotation(verdict.accepted[k]).hunk = <<0, 0>>)
         /\ \A said \in verdict.accepted[k].found.line : \E l \in DOMAIN HunkAt(annotation(verdict.accepted[k]).hunk).lines :
               IsLine(said, HunkAt(annotation(verdict.accepted[k]).hunk).lines[l])
         /\ source_of(annotation(verdict.accepted[k])) = "agent" /\ ~annotation(verdict.accepted[k]).grounded
         /\ \A j \in DOMAIN verdict.accepted \ {k} :
               /\ annotation(verdict.accepted[j]).id # annotation(verdict.accepted[k]).id
               /\ DuplicateKey(verdict.accepted[j].found) # DuplicateKey(verdict.accepted[k].found)
  BY <1>1, <1>6, <1>7, <1>8, <1>9, Zenon
<1>11. /\ Len(verdict.accepted) + Len(verdict.refused) + verdict.overLimit = Cardinality({k \in DOMAIN given : ~given[k].blank})
       /\ {verdict.accepted[k].index : k \in DOMAIN verdict.accepted} \cup {verdict.refused[k].index : k \in DOMAIN verdict.refused}
            = 0 .. Min({Cardinality({k \in DOMAIN given : ~given[k].blank}), MAX_FINDINGS}) - 1
  BY <1>1, <1>2, <1>3, <1>5 DEF AcceptedIndices, RefusedIndices, Real
<1> QED
  BY ONLY <1>10, <1>11, Zenon DEF NotesPointTrue, IsLine

\* What points where it says goes on doing so: the review does not change.
LEMMA PointsStays ==
  ASSUME NEW a, Points(a), UNCHANGED sections
  PROVE  Points(a)'
BY DEF Points, Places, AddressAt, HunkAt

\* What a finding is found to be depends on the review alone.
LEMMA ChecksStay ==
  ASSUME UNCHANGED sections
  PROVE  Checks' = Checks /\ AcceptedOnes' = AcceptedOnes /\ RefusedOnes' = RefusedOnes
<1>1. \A p : HunkAt(p)' = HunkAt(p) /\ AddressAt(p)' = AddressAt(p)
  BY DEF AddressAt, HunkAt
<1>2. Places' = Places
  BY DEF Places
<1>3. \A named : PathOfSection(named)' = PathOfSection(named)
  BY DEF PathOfSection
<1>4. \A found \in GivenFindings : resolve(found)' = resolve(found)
  BY ONLY <1>1, <1>2, <1>3, UNCHANGED sections, ZenonT(60) DEF resolve
<1>5. \A found \in GivenFindings : check(found)' = check(found)
  BY ONLY <1>1, <1>4, ZenonT(60) DEF check
<1>6. Checks' = Checks
  BY <1>5 DEF Checks
<1> QED
  BY <1>6 DEF AcceptedOnes, RefusedOnes

\* A sequence that grows by one has the indices it had and one more.
LEMMA OneMoreIndex ==
  ASSUME NEW R, NEW s \in Seq(R), NEW x \in R
  PROVE  LET t == Append(s, x) IN
         /\ t \in Seq(R) /\ Len(t) = Len(s) + 1
         /\ DOMAIN t = 1 .. Len(s) + 1 /\ DOMAIN s = 1 .. Len(s)
         /\ t[Len(s) + 1] = x /\ \A k \in DOMAIN s : t[k] = s[k]
         /\ {t[k].index : k \in DOMAIN t} = {s[k].index : k \in DOMAIN s} \cup {x.index}
<1>1. PICK t : t = Append(s, x)
  OBVIOUS
<1>0. PICK n \in Nat : n = Len(s)
  OBVIOUS
<1>2. /\ t \in Seq(R) /\ Len(t) = n + 1
      /\ DOMAIN t = 1 .. n + 1 /\ DOMAIN s = 1 .. n
      /\ t[n + 1] = x /\ \A k \in DOMAIN s : t[k] = s[k]
  BY <1>1, <1>0
<1>3. \A k \in 1 .. n + 1 : k \in 1 .. n \/ k = n + 1
  BY <1>1, <1>0
<1>4. n + 1 \in DOMAIN t /\ \A k \in DOMAIN s : k \in DOMAIN t
  BY <1>0, <1>1, <1>2
<1>5. {t[k].index : k \in DOMAIN t} = {s[k].index : k \in DOMAIN s} \cup {x.index}
  BY ONLY <1>2, <1>3, <1>4
<1> QED
  BY <1>0, <1>1, <1>2, <1>5

\* The set of the findings that are not blank grows by the one just read, unless it is.
LEMMA OneMoreReal ==
  ASSUME given \in Seq(GivenFindings), IsFiniteSet(Real), NEW found \in GivenFindings, given' = Append(given, found)
  PROVE  /\ given' \in Seq(GivenFindings) /\ IsFiniteSet(Real')
         /\ found.blank => Real' = Real
         /\ ~found.blank => Cardinality(Real') = Cardinality(Real) + 1
<1>1. PICK n \in Nat : n = Len(given) /\ DOMAIN given = 1 .. n
  OBVIOUS
<1>2. /\ given' \in Seq(GivenFindings) /\ DOMAIN given' = 1 .. n + 1
      /\ given'[n + 1] = found /\ \A k \in 1 .. n : given'[k] = given[k]
  BY <1>1
<1>3. Real' = {k \in 1 .. n + 1 : ~given'[k].blank}
  BY <1>2 DEF Real
<1>4. Real = {k \in 1 .. n : ~given[k].blank}
  BY <1>1 DEF Real
<1>5. found.blank => Real' = Real
  BY <1>1, <1>2, <1>3, <1>4
<1>6. ~found.blank => Real' = Real \cup {n + 1} /\ n + 1 \notin Real
  BY <1>1, <1>2, <1>3, <1>4
<1>7. ~found.blank => IsFiniteSet(Real \cup {n + 1}) /\ Cardinality(Real \cup {n + 1}) = Cardinality(Real) + 1
  BY <1>6, FS_AddElement
<1> QED
  BY <1>2, <1>5, <1>6, <1>7

LEMMA VerdictInit == FindingsInit => VerdictInv
<1> SUFFICES ASSUME FindingsInit PROVE VerdictInv
  OBVIOUS
<1>1. sections \in Reviews /\ given = <<>> /\ verdict = [accepted |-> <<>>, refused |-> <<>>, overLimit |-> 0, index |-> 0]
  BY DEF FindingsInit
<1>2. VerdictOK
  BY <1>1 DEF VerdictOK
<1>3. Real = {} /\ IsFiniteSet(Real) /\ Cardinality(Real) = 0
  <2>1. Real = {}
    BY <1>1 DEF Real
  <2> QED
    BY <2>1, FS_EmptySet
<1>4. AcceptedIndices \cup RefusedIndices = 0 .. 0 - 1
  BY <1>1 DEF AcceptedIndices, RefusedIndices
<1>5. VerdictCounts
  BY <1>1, <1>3, <1>4, FindingValues DEF VerdictCounts
<1>6. AcceptedOnce /\ AcceptedPoint
  BY <1>1 DEF AcceptedOnce, AcceptedPoint
<1> QED
  BY <1>2, <1>5, <1>6 DEF VerdictInv

LEMMA VerdictStep ==
  ASSUME VerdictInv, NEW found \in GivenFindings, verify(found)
  PROVE  VerdictInv'
<1> USE DEF VerdictInv
<1>1. PICK acc \in Seq(AcceptedOnes), ref \in Seq(RefusedOnes), over \in Nat, index \in Nat :
        verdict = [accepted |-> acc, refused |-> ref, overLimit |-> over, index |-> index]
  BY DEF VerdictOK
<1>2. PICK checked : checked = check(found) /\ checked \in Checks /\ (checked.refusal = "none" => Points(checked))
  BY CheckedPoints DEF VerdictOK, Checks
<1>3. sections' = sections /\ given' = Append(given, found) /\ verdict' = Judge(found, checked)
  BY <1>2 DEF verify
<1>4. /\ given' \in Seq(GivenFindings) /\ IsFiniteSet(Real')
      /\ found.blank => Real' = Real
      /\ ~found.blank => Cardinality(Real') = Cardinality(Real) + 1
  BY <1>3, OneMoreReal DEF VerdictOK, VerdictCounts
<1>5. Checks' = Checks /\ AcceptedOnes' = AcceptedOnes /\ RefusedOnes' = RefusedOnes
  BY <1>3, ChecksStay
<1>6. MAX_FINDINGS \in Nat /\ verdict.index = index /\ verdict.accepted = acc
  BY <1>1, FindingValues
<1>7. /\ Cardinality(Real) = index + over /\ index <= MAX_FINDINGS /\ (over > 0 => index = MAX_FINDINGS)
      /\ Len(acc) + Len(ref) = index
      /\ {acc[k].index : k \in DOMAIN acc} \cup {ref[k].index : k \in DOMAIN ref} = 0 .. index - 1
  BY <1>1 DEF VerdictCounts, AcceptedIndices, RefusedIndices
<1>8. /\ \A j, k \in DOMAIN acc : j # k => /\ acc[j].index # acc[k].index
                                          /\ DuplicateKey(acc[j].found) # DuplicateKey(acc[k].found)
      /\ \A k \in DOMAIN acc : Points(acc[k].found)
  BY <1>1 DEF AcceptedOnce, AcceptedPoint
<1>9. \A k \in DOMAIN acc : Points(acc[k].found)'
  BY <1>3, <1>8, PointsStays
<1>10. CASE found.blank
  <2>1. verdict' = verdict
    BY <1>3, <1>10 DEF Judge
  <2>2. VerdictOK'
    BY <1>3, <1>4, <1>5, <2>1 DEF VerdictOK
  <2>3. VerdictCounts'
    BY <1>4, <1>10, <2>1 DEF VerdictCounts, AcceptedIndices, RefusedIndices
  <2>4. AcceptedOnce'
    BY <2>1 DEF AcceptedOnce
  <2>5. AcceptedPoint'
    BY <1>1, <1>9, <2>1 DEF AcceptedPoint
  <2> QED
    BY <2>2, <2>3, <2>4, <2>5
<1>11. CASE ~found.blank /\ index >= MAX_FINDINGS
  <2>1. verdict' = [accepted |-> acc, refused |-> ref, overLimit |-> over + 1, index |-> index]
    BY <1>1, <1>3, <1>11 DEF Judge
  <2>2. VerdictOK'
    BY <1>3, <1>4, <1>5, <2>1 DEF VerdictOK
  <2>3. VerdictCounts'
    <3>1. AcceptedIndices' \cup RefusedIndices' = 0 .. index - 1
      BY <1>7, <2>1 DEF AcceptedIndices, RefusedIndices
    <3>2. Cardinality(Real') = index + (over + 1) /\ index = MAX_FINDINGS
      BY <1>4, <1>6, <1>7, <1>11
    <3> QED
      BY <1>4, <1>7, <2>1, <3>1, <3>2 DEF VerdictCounts
  <2>4. AcceptedOnce'
    BY <1>8, <2>1 DEF AcceptedOnce
  <2>5. AcceptedPoint'
    BY <1>9, <2>1 DEF AcceptedPoint
  <2> QED
    BY <2>2, <2>3, <2>4, <2>5
<1>12. CASE ~found.blank /\ index < MAX_FINDINGS
  <2> DEFINE seen == {DuplicateKey(acc[k].found) : k \in DOMAIN acc}
  <2>1. CASE checked.refusal # "none" \/ DuplicateKey(checked) \in seen
    <3>1. PICK one \in RefusedOnes :
            /\ one.index = index
            /\ verdict' = [accepted |-> acc, refused |-> Append(ref, one), overLimit |-> over, index |-> index + 1]
      <4>1. CASE checked.refusal # "none"
        <5>1. PICK one : one = [index |-> index, reason |-> checked.refusal]
          OBVIOUS
        <5>2. ~found.blank /\ ~(verdict.index >= MAX_FINDINGS)
          BY <1>6, <1>12
        <5>3. verdict' = [verdict EXCEPT !.refused = Append(@, one), !.index = @ + 1]
          BY ONLY <1>3, <1>6, <4>1, <5>1, <5>2, Zenon DEF Judge
        <5> QED
          <6>1. one \in RefusedOnes /\ one.index = index
            BY <1>2, <5>1 DEF RefusedOnes
          <6>2. verdict' = [accepted |-> acc, refused |-> Append(ref, one), overLimit |-> over, index |-> index + 1]
            BY ONLY <1>1, <5>3
          <6> QED
            BY <6>1, <6>2
      <4>2. CASE checked.refusal = "none"
        <5>1. PICK one : one = [index |-> index, reason |-> "duplicate"]
          OBVIOUS
        <5>2. ~found.blank /\ ~(verdict.index >= MAX_FINDINGS) /\ DuplicateKey(checked) \in seen
          BY <1>6, <1>12, <2>1, <4>2
        <5>3. verdict' = [verdict EXCEPT !.refused = Append(@, one), !.index = @ + 1]
          BY ONLY <1>3, <1>6, <4>2, <5>1, <5>2, Zenon DEF Judge
        <5> QED
          <6>1. one \in RefusedOnes /\ one.index = index
            BY <5>1 DEF RefusedOnes
          <6>2. verdict' = [accepted |-> acc, refused |-> Append(ref, one), overLimit |-> over, index |-> index + 1]
            BY ONLY <1>1, <5>3
          <6> QED
            BY <6>1, <6>2
      <4> QED
        BY <4>1, <4>2
    <3>2. PICK later : later = Append(ref, one) /\ later \in Seq(RefusedOnes) /\ Len(later) = Len(ref) + 1
                     /\ {later[k].index : k \in DOMAIN later} = {ref[k].index : k \in DOMAIN ref} \cup {index}
      <4> DEFINE Later == Append(ref, one)
      <4>1. /\ Later \in Seq(RefusedOnes) /\ Len(Later) = Len(ref) + 1
            /\ DOMAIN Later = 1 .. Len(ref) + 1 /\ DOMAIN ref = 1 .. Len(ref)
            /\ Later[Len(ref) + 1] = one /\ \A k \in DOMAIN ref : Later[k] = ref[k]
            /\ {Later[k].index : k \in DOMAIN Later} = {ref[k].index : k \in DOMAIN ref} \cup {one.index}
        BY ONLY ref \in Seq(RefusedOnes), one \in RefusedOnes, OneMoreIndex
      <4> QED
        BY <3>1, <4>1, Zenon
    <3>3. VerdictOK'
      BY <1>3, <1>4, <1>5, <3>1, <3>2 DEF VerdictOK
    <3>4. VerdictCounts'
      <4>1. {acc[k].index : k \in DOMAIN acc} \cup {later[k].index : k \in DOMAIN later} = 0 .. (index + 1) - 1
        <5>1. {acc[k].index : k \in DOMAIN acc} \cup {later[k].index : k \in DOMAIN later} = (0 .. index - 1) \cup {index}
          BY ONLY <1>7, <3>2
        <5> QED
          BY ONLY <5>1, index \in Nat
      <4>2. AcceptedIndices' \cup RefusedIndices' = 0 .. (index + 1) - 1
        <5>1. AcceptedIndices' = {acc[k].index : k \in DOMAIN acc}
          BY ONLY <3>1, <3>2 DEF AcceptedIndices
        <5>2. RefusedIndices' = {later[k].index : k \in DOMAIN later}
          BY ONLY <3>1, <3>2 DEF RefusedIndices
        <5> QED
          BY ONLY <4>1, <5>1, <5>2
      <4>3. /\ Cardinality(Real') = (index + 1) + over /\ index + 1 <= MAX_FINDINGS
            /\ ~(over > 0) /\ Len(acc) + Len(later) = index + 1
        <5>1. Cardinality(Real') = (index + over) + 1
          BY <1>4, <1>7, <1>12
        <5>2. index < MAX_FINDINGS /\ ~(over > 0) /\ MAX_FINDINGS \in Nat
          BY <1>6, <1>7, <1>12
        <5>3. Len(acc) \in Nat /\ Len(ref) \in Nat
          OBVIOUS
        <5>4. Len(later) = Len(ref) + 1 /\ Len(acc) + Len(ref) = index
          BY ONLY <1>7, <3>2
        <5> QED
          BY ONLY <5>1, <5>2, <5>3, <5>4, index \in Nat, over \in Nat
      <4> QED
        BY <1>4, <3>1, <3>2, <4>2, <4>3 DEF VerdictCounts
    <3>5. AcceptedOnce'
      BY <1>8, <3>1 DEF AcceptedOnce
    <3>6. AcceptedPoint'
      BY <1>9, <3>1 DEF AcceptedPoint
    <3> QED
      BY <3>3, <3>4, <3>5, <3>6
  <2>2. CASE checked.refusal = "none" /\ DuplicateKey(checked) \notin seen
    <3>1. PICK one \in AcceptedOnes :
            /\ one.index = index /\ one.found = checked
            /\ verdict' = [accepted |-> Append(acc, one), refused |-> ref, overLimit |-> over, index |-> index + 1]
      <4>1. PICK one : one = [index |-> index, found |-> checked]
        OBVIOUS
      <4>2. ~found.blank /\ ~(verdict.index >= MAX_FINDINGS)
        BY <1>6, <1>12
      <4>3. verdict' = [verdict EXCEPT !.accepted = Append(@, one), !.index = @ + 1]
        BY ONLY <1>3, <1>6, <2>2, <4>1, <4>2, Zenon DEF Judge
      <4> QED
        <5>1. one \in AcceptedOnes /\ one.index = index /\ one.found = checked
          BY <1>2, <4>1 DEF AcceptedOnes
        <5>2. verdict' = [accepted |-> Append(acc, one), refused |-> ref, overLimit |-> over, index |-> index + 1]
          BY ONLY <1>1, <4>3
        <5> QED
          BY <5>1, <5>2
    <3>2. PICK later : later = Append(acc, one) /\ later \in Seq(AcceptedOnes) /\ Len(later) = Len(acc) + 1
                     /\ {later[k].index : k \in DOMAIN later} = {acc[k].index : k \in DOMAIN acc} \cup {index}
                     /\ DOMAIN later = 1 .. Len(acc) + 1 /\ later[Len(acc) + 1] = one
                     /\ DOMAIN acc = 1 .. Len(acc) /\ \A k \in DOMAIN acc : later[k] = acc[k]
      <4> DEFINE Later == Append(acc, one)
      <4>1. /\ Later \in Seq(AcceptedOnes) /\ Len(Later) = Len(acc) + 1
            /\ DOMAIN Later = 1 .. Len(acc) + 1 /\ DOMAIN acc = 1 .. Len(acc)
            /\ Later[Len(acc) + 1] = one /\ \A k \in DOMAIN acc : Later[k] = acc[k]
            /\ {Later[k].index : k \in DOMAIN Later} = {acc[k].index : k \in DOMAIN acc} \cup {one.index}
        BY ONLY acc \in Seq(AcceptedOnes), one \in AcceptedOnes, OneMoreIndex
      <4> QED
        BY <3>1, <4>1, Zenon
    <3>3. VerdictOK'
      BY <1>3, <1>4, <1>5, <3>1, <3>2 DEF VerdictOK
    <3>4. VerdictCounts'
      <4>1. {later[k].index : k \in DOMAIN later} \cup {ref[k].index : k \in DOMAIN ref} = 0 .. (index + 1) - 1
        <5>1. {later[k].index : k \in DOMAIN later} \cup {ref[k].index : k \in DOMAIN ref} = (0 .. index - 1) \cup {index}
          BY ONLY <1>7, <3>2
        <5> QED
          BY ONLY <5>1, index \in Nat
      <4>2. AcceptedIndices' \cup RefusedIndices' = 0 .. (index + 1) - 1
        <5>1. AcceptedIndices' = {later[k].index : k \in DOMAIN later}
          BY ONLY <3>1, <3>2 DEF AcceptedIndices
        <5>2. RefusedIndices' = {ref[k].index : k \in DOMAIN ref}
          BY ONLY <3>1, <3>2 DEF RefusedIndices
        <5> QED
          BY ONLY <4>1, <5>1, <5>2
      <4>3. /\ Cardinality(Real') = (index + 1) + over /\ index + 1 <= MAX_FINDINGS
            /\ ~(over > 0) /\ Len(later) + Len(ref) = index + 1
        <5>1. Cardinality(Real') = (index + over) + 1
          BY <1>4, <1>7, <1>12
        <5>2. index < MAX_FINDINGS /\ ~(over > 0) /\ MAX_FINDINGS \in Nat
          BY <1>6, <1>7, <1>12
        <5>3. Len(acc) \in Nat /\ Len(ref) \in Nat
          OBVIOUS
        <5>4. Len(later) = Len(acc) + 1 /\ Len(acc) + Len(ref) = index
          BY ONLY <1>7, <3>2
        <5> QED
          BY ONLY <5>1, <5>2, <5>3, <5>4, index \in Nat, over \in Nat
      <4> QED
        BY <1>4, <3>1, <3>2, <4>2, <4>3 DEF VerdictCounts
    <3>5. \A j, k \in DOMAIN later : j # k => /\ later[j].index # later[k].index
                                              /\ DuplicateKey(later[j].found) # DuplicateKey(later[k].found)
      <4>1. \A k \in DOMAIN acc : acc[k].index # index /\ DuplicateKey(acc[k].found) # DuplicateKey(checked)
        BY <1>7, <2>2
      <4>2. \A k \in DOMAIN later : k \in DOMAIN acc \/ k = Len(acc) + 1
        BY <3>2
      <4> QED
        BY ONLY <1>8, <3>1, <3>2, <4>1, <4>2
    <3>6. AcceptedOnce'
      BY <3>1, <3>2, <3>5 DEF AcceptedOnce
    <3>7. AcceptedPoint'
      <4>1. Points(checked)'
        BY <1>2, <1>3, <2>2, PointsStays
      <4>2. \A k \in DOMAIN later : Points(later[k].found)'
        BY <1>9, <3>1, <3>2, <4>1
      <4> QED
        BY <3>1, <3>2, <4>2 DEF AcceptedPoint
    <3> QED
      BY <3>3, <3>4, <3>6, <3>7
  <2> QED
    BY <2>1, <2>2
<1> QED
  BY <1>1, <1>6, <1>10, <1>11, <1>12

\* Whatever findings a file holds of whatever review: each is counted once, nothing is accepted
\* twice, and every note is at a hunk of its path that holds the line it names.
THEOREM NotesAlwaysPointTrue == FindingsSpec => []NotesPointTrue
<1>1. VerdictInv /\ [FindingsNext]_findingsVars => VerdictInv'
  <2>1. ASSUME VerdictInv, UNCHANGED findingsVars PROVE VerdictInv'
    <3>1. sections' = sections /\ given' = given /\ verdict' = verdict
      BY <2>1 DEF findingsVars
    <3>2. VerdictOK'
      BY <2>1, <3>1, ChecksStay DEF VerdictInv, VerdictOK
    <3>3. VerdictCounts'
      BY <2>1, <3>1 DEF VerdictInv, VerdictCounts, Real, AcceptedIndices, RefusedIndices
    <3>4. AcceptedOnce'
      BY <2>1, <3>1 DEF VerdictInv, AcceptedOnce
    <3>5. AcceptedPoint'
      BY <2>1, <3>1, PointsStays DEF VerdictInv, AcceptedPoint
    <3> QED
      BY <3>2, <3>3, <3>4, <3>5 DEF VerdictInv
  <2> QED
    BY <2>1, VerdictStep DEF FindingsNext
<1> QED
  BY VerdictInit, <1>1, VerdictTells, PTL DEF FindingsSpec

-----------------------------------------------------------------------------
(* The readings of a hunk's lines *)

\* A sequence of something.
IsSequence(q) == \E S : q \in Seq(S)

\* The readings carried begin with the plain one, and while none was past the cap the right one
\* is among them.
Carried(s) ==
  /\ IsSequence(scan[s]) /\ Len(scan[s]) > 0
  /\ scan[s][1] = bare[s]
  /\ ~dropped[s] => \E k \in 1 .. Len(scan[s]) : scan[s][k] = truth[s]
EvidenceInv == (\A s \in Sides : Carried(s)) /\ CodeIsFound

\* What is joined from sequences that are not empty is not, and holds what the first begins
\* with first, and what each holds.
LEMMA FlattenedHolds ==
  ASSUME NEW S, NEW ss \in Seq(Seq(S))
  PROVE  /\ FlattenSeq(ss) \in Seq(S)
         /\ \A k \in 1 .. Len(ss) : \A p \in 1 .. Len(ss[k]) :
              \E i \in 1 .. Len(FlattenSeq(ss)) : FlattenSeq(ss)[i] = ss[k][p]
         /\ Len(ss) > 0 /\ Len(ss[1]) > 0 => Len(FlattenSeq(ss)) > 0 /\ FlattenSeq(ss)[1] = ss[1][1]
<1>1. PICK f : Joins(f, ss, S) /\ FlattenSeq(ss) = f[Len(ss)]
  BY Flattened
<1>2. InPlace(f, ss)
  BY <1>1, JoinedInPlace
<1>3. ASSUME NEW k \in 1 .. Len(ss), NEW p \in 1 .. Len(ss[k])
      PROVE  \E i \in 1 .. Len(FlattenSeq(ss)) : FlattenSeq(ss)[i] = ss[k][p]
  BY <1>1, <1>2, <1>3 DEF InPlace
<1>4. ASSUME Len(ss) > 0, Len(ss[1]) > 0
      PROVE  Len(FlattenSeq(ss)) > 0 /\ FlattenSeq(ss)[1] = ss[1][1]
  <2>1. 1 \in 1 .. Len(ss) /\ ss[1] \in Seq(S)
    BY <1>4
  <2>2. 1 \in 1 .. Len(ss[1])
    BY <1>4, <2>1
  <2>3. f[1 - 1] = <<>> /\ Len(f[1 - 1]) + 1 = 1
    BY <1>1 DEF Joins
  <2>4. Len(f[1 - 1]) + 1 \in 1 .. Len(f[Len(ss)]) /\ f[Len(ss)][Len(f[1 - 1]) + 1] = ss[1][1]
    BY <1>2, <2>1, <2>2 DEF InPlace
  <2> QED
    BY <1>1, <2>3, <2>4
<1> QED
  BY <1>1, <1>3, <1>4, FlattenedType

\* Every reading is read as code, and as resuming the string it left open.
LEMMA AllAreRead ==
  ASSUME NEW text, NEW state, IsSequence(state), Len(state) > 0
  PROVE  /\ IsSequence(code_view(text, state)) /\ Len(code_view(text, state)) > 0
         /\ code_view(text, state)[1] = scan_line(text, state[1], NoString)
         /\ \A k \in 1 .. Len(state) : \E i \in 1 .. Len(code_view(text, state)) :
              code_view(text, state)[i] = scan_line(text, state[k], state[k].string)
<1> DEFINE n == Len(state)
           Of(k) == [r \in 1 .. Len(Readings(state[k])) |-> scan_line(text, state[k], Readings(state[k])[r])]
           ss == [k \in 1 .. n |-> Of(k)]
           S == UNION {{Of(k)[r] : r \in 1 .. Len(Readings(state[k]))} : k \in 1 .. n}
<1>1. n \in Nat \ {0}
  BY DEF IsSequence
<1>2. ASSUME NEW k \in 1 .. n
      PROVE  /\ Of(k) \in Seq(S) /\ Len(Of(k)) \in {1, 2} /\ Of(k)[1] = scan_line(text, state[k], NoString)
             /\ \E r \in 1 .. Len(Of(k)) : Of(k)[r] = scan_line(text, state[k], state[k].string)
  <2> DEFINE q == Readings(state[k])
  <2>1. /\ Len(q) \in {1, 2} /\ q[1] = NoString
        /\ \E r \in 1 .. Len(q) : q[r] = state[k].string
    BY DEF Readings
  <2>2. /\ Of(k) = [r \in 1 .. Len(q) |-> Of(k)[r]]
        /\ \A r \in 1 .. Len(q) : Of(k)[r] \in S /\ Of(k)[r] = scan_line(text, state[k], q[r])
    OBVIOUS
  <2> HIDE DEF q, S, Of
  <2>3. Of(k) \in Seq(S) /\ Len(Of(k)) = Len(q)
    BY <2>1, <2>2
  <2> QED
    BY <2>1, <2>2, <2>3
<1>3. ss \in Seq(Seq(S)) /\ Len(ss) = n /\ \A k \in 1 .. n : ss[k] = Of(k)
  <2> HIDE DEF Of, n, S
  <2> QED
    BY <1>1, <1>2
<1>4. code_view(text, state) = FlattenSeq(ss)
  BY DEF code_view
<1> HIDE DEF ss, S, Of, n
<1>5. Len(ss[1]) > 0 /\ ss[1][1] = scan_line(text, state[1], NoString)
  BY <1>1, <1>2, <1>3
<1>6. /\ FlattenSeq(ss) \in Seq(S) /\ Len(FlattenSeq(ss)) > 0 /\ FlattenSeq(ss)[1] = ss[1][1]
      /\ \A k \in 1 .. n : \A p \in 1 .. Len(ss[k]) :
           \E i \in 1 .. Len(FlattenSeq(ss)) : FlattenSeq(ss)[i] = ss[k][p]
  <2>1. ss \in Seq(Seq(S)) /\ n = Len(ss)
    BY <1>3
  <2>2. Len(ss) > 0 /\ Len(ss[1]) > 0
    BY <1>1, <2>1, <1>5
  <2> QED
    BY ONLY <2>1, <2>2, FlattenedHolds
<1>7. ASSUME NEW k \in 1 .. n
      PROVE  \E i \in 1 .. Len(FlattenSeq(ss)) : FlattenSeq(ss)[i] = scan_line(text, state[k], state[k].string)
  <2>1. PICK r \in 1 .. Len(ss[k]) : ss[k][r] = scan_line(text, state[k], state[k].string)
    BY <1>2, <1>3
  <2> QED
    BY <1>6, <2>1
<1> QED
  BY <1>4, <1>5, <1>6, <1>7 DEF IsSequence, n

\* What is carried on: the plain reading first, and all of them when there is room.
LEMMA CarriedOn ==
  ASSUME NEW views, IsSequence(views), Len(views) > 0
  PROVE  /\ IsSequence(from_readings(views)) /\ Len(from_readings(views)) > 0
         /\ from_readings(views)[1] = views[1].left
         /\ IsSequence(Distinct(views))
         /\ Len(Distinct(views)) <= 1 + MORE_READINGS =>
              \A k \in 1 .. Len(views) : \E i \in 1 .. Len(from_readings(views)) :
                from_readings(views)[i] = views[k].left
<1> DEFINE n == Len(views)
           Repeats(k) == \E j \in 1 .. k - 1 : views[j].left = views[k].left
           ss == [k \in 1 .. n |-> IF Repeats(k) THEN <<>> ELSE <<views[k].left>>]
           S == {views[k].left : k \in 1 .. n}
           d == Distinct(views)
<1>1. n \in Nat \ {0}
  BY DEF IsSequence
<1>2. /\ ss \in Seq(Seq(S)) /\ Len(ss) = n
      /\ \A k \in 1 .. n : ss[k] = IF Repeats(k) THEN <<>> ELSE <<views[k].left>>
  <2>1. \A k \in 1 .. n : views[k].left \in S
    OBVIOUS
  <2> HIDE DEF n, S, Repeats
  <2>2. \A k \in 1 .. n : <<views[k].left>> \in Seq(S) /\ <<>> \in Seq(S)
    BY <2>1
  <2> QED
    BY <1>1, <2>2
<1>3. d = FlattenSeq(ss)
  BY DEF Distinct
<1> HIDE DEF ss, S, d
<1>4. ss[1] = <<views[1].left>>
  <2>1. ~Repeats(1) /\ 1 \in 1 .. n
    BY <1>1
  <2> QED
    BY <1>2, <2>1
<1>5. /\ d \in Seq(S) /\ Len(d) > 0 /\ d[1] = views[1].left
      /\ \A k \in 1 .. n : \A p \in 1 .. Len(ss[k]) : \E i \in 1 .. Len(d) : d[i] = ss[k][p]
  <2>1. Len(ss) > 0 /\ Len(ss[1]) > 0 /\ ss[1][1] = views[1].left
    BY <1>1, <1>2, <1>4
  <2> QED
    BY <1>2, <1>3, <2>1, FlattenedHolds
<1>6. ASSUME NEW k \in 1 .. n
      PROVE  \E i \in 1 .. Len(d) : d[i] = views[k].left
  <2> DEFINE T == {j \in Nat : j \in 1 .. n /\ views[j].left = views[k].left}
  <2>1. T \in SUBSET Nat /\ T # {}
    OBVIOUS
  <2>2. PICK j \in T : \A m \in T : j <= m
    BY <2>1, LeastOfSet
  <2>3. ~Repeats(j)
    BY <2>2
  <2>4. ss[j] = <<views[k].left>> /\ j \in 1 .. n
    BY <1>2, <2>2, <2>3
  <2>5. 1 \in 1 .. Len(ss[j]) /\ ss[j][1] = views[k].left
    BY <2>4
  <2>6. PICK i \in 1 .. Len(d) : d[i] = ss[j][1]
    BY <1>5, <2>4, <2>5
  <2> QED
    BY <2>5, <2>6
<1>7. PICK m \in 1 .. Len(d) : /\ from_readings(views) = SubSeq(d, 1, m)
                               /\ Len(d) <= 1 + MORE_READINGS => m = Len(d)
  <2>1. Len(d) \in Nat /\ Len(d) > 0 /\ 1 + MORE_READINGS \in Nat /\ 1 + MORE_READINGS > 0
    BY <1>5, ReadingsCapped
  <2>2. PICK l \in Nat, c \in Nat : l = Len(d) /\ c = 1 + MORE_READINGS /\ l > 0 /\ c > 0
    BY <2>1
  <2>3. Min({l, c}) = IF l <= c THEN l ELSE c
    BY DEF Min
  <2>4. from_readings(views) = SubSeq(d, 1, Min({l, c}))
    BY <2>2 DEF from_readings, d
  <2> HIDE DEF d
  <2>5. CASE l <= c
    <3>1. from_readings(views) = SubSeq(d, 1, l)
      BY <2>3, <2>4, <2>5
    <3>2. l \in 1 .. l
      BY <2>2
    <3> QED
      BY <2>2, <3>1, <3>2
  <2>6. CASE c < l
    <3>2. c \in 1 .. l /\ ~(l <= c)
      BY <2>2, <2>6
    <3>1. from_readings(views) = SubSeq(d, 1, c)
      BY <2>3, <2>4, <3>2
    <3> QED
      BY <2>2, <3>1, <3>2
  <2> QED
    BY <2>2, <2>5, <2>6
<1>8. /\ SubSeq(d, 1, m) \in Seq(S) /\ Len(SubSeq(d, 1, m)) = m
      /\ \A i \in 1 .. m : SubSeq(d, 1, m)[i] = d[i]
  BY <1>5, SubSeqProperties
<1>9. m > 0 /\ 1 \in 1 .. m
  BY <1>5
<1> QED
  BY <1>5, <1>6, <1>7, <1>8, <1>9 DEF IsSequence, n, d

\* What a line is found to hold from a reading depends on the string it carries only when the
\* line is read as resuming it.
LEMMA PlainIsPlain ==
  ASSUME NEW text, NEW r
  PROVE  scan_line(text, [r EXCEPT !.string = NoString], NoString) = scan_line(text, r, NoString)
<1>1. [[r EXCEPT !.string = NoString] EXCEPT !.string = NoString] = [r EXCEPT !.string = NoString]
  OBVIOUS
<1> QED
  BY <1>1 DEF scan_line, Scanned

\* What the line of a side leaves, and what is found on it.
ReadOn(s, text, views, right, plain) ==
  /\ IsSequence(from_readings(views)) /\ Len(from_readings(views)) > 0
  /\ from_readings(views)[1] = plain.left
  /\ ~dropped[s] /\ ~(Len(Distinct(views)) > 1 + MORE_READINGS) =>
       \E k \in 1 .. Len(from_readings(views)) : from_readings(views)[k] = finish(right, text).left
  /\ ~dropped[s] => Kept(right) \subseteq union_views(views)
  /\ plain.kept \subseteq union_views(views)

LEMMA LineIsRead ==
  ASSUME NEW text, NEW s \in Sides, Carried(s)
  PROVE  ReadOn(s, text, code_view(text, scan[s]), Scanned(text, truth[s], truth[s].string),
                scan_line(text, [bare[s] EXCEPT !.string = NoString], NoString))
<1> DEFINE views == code_view(text, scan[s])
           right == Scanned(text, truth[s], truth[s].string)
           plain == scan_line(text, [bare[s] EXCEPT !.string = NoString], NoString)
<1>1. /\ IsSequence(views) /\ Len(views) > 0 /\ views[1] = scan_line(text, scan[s][1], NoString)
      /\ \A k \in 1 .. Len(scan[s]) : \E i \in 1 .. Len(views) :
           views[i] = scan_line(text, scan[s][k], scan[s][k].string)
  BY AllAreRead DEF Carried
<1>2. views[1] = plain
  BY <1>1, PlainIsPlain DEF Carried
<1>3. /\ IsSequence(from_readings(views)) /\ Len(from_readings(views)) > 0
      /\ from_readings(views)[1] = views[1].left /\ IsSequence(Distinct(views))
      /\ Len(Distinct(views)) <= 1 + MORE_READINGS =>
           \A k \in 1 .. Len(views) : \E i \in 1 .. Len(from_readings(views)) :
             from_readings(views)[i] = views[k].left
  BY <1>1, CarriedOn
<1>4. ASSUME ~dropped[s]
      PROVE  \E i \in 1 .. Len(views) : views[i] = finish(right, text)
  <2>1. PICK k \in 1 .. Len(scan[s]) : scan[s][k] = truth[s]
    BY <1>4 DEF Carried
  <2> QED
    BY <1>1, <2>1 DEF scan_line
<1>5. Len(Distinct(views)) \in Nat /\ 1 + MORE_READINGS \in Nat
  BY <1>3, ReadingsCapped DEF IsSequence
<1>6. ASSUME ~dropped[s], ~(Len(Distinct(views)) > 1 + MORE_READINGS)
      PROVE  \E k \in 1 .. Len(from_readings(views)) : from_readings(views)[k] = finish(right, text).left
  <2>1. Len(Distinct(views)) <= 1 + MORE_READINGS
    BY <1>5, <1>6
  <2>2. PICK i \in 1 .. Len(views) : views[i] = finish(right, text)
    BY <1>4, <1>6
  <2> QED
    BY <1>3, <2>1, <2>2
<1>7. \A i \in 1 .. Len(views) : views[i].kept \subseteq union_views(views)
  <2>1. \A i \in 1 .. Len(views) : views[i] \in Range(views)
    <3>1. DOMAIN views = 1 .. Len(views)
      BY <1>1 DEF IsSequence
    <3> QED
      BY <3>1 DEF Range
  <2> QED
    BY <2>1 DEF union_views
<1>8. ASSUME ~dropped[s] PROVE Kept(right) \subseteq union_views(views)
  <2>1. PICK i \in 1 .. Len(views) : views[i] = finish(right, text)
    BY <1>4, <1>8
  <2>2. Kept(right) \subseteq finish(right, text).kept
    BY DEF finish
  <2> QED
    BY <1>7, <2>1, <2>2
<1>9. plain.kept \subseteq union_views(views)
  <2>1. 1 \in 1 .. Len(views)
    BY <1>1 DEF IsSequence
  <2> QED
    BY <1>2, <1>7, <2>1
<1> QED
  BY <1>2, <1>3, <1>6, <1>8, <1>9 DEF ReadOn

LEMMA ReadingStarts == EvidenceInit => EvidenceInv
<1> SUFFICES ASSUME NEW l \in Languages, ReadingFrom(l, 0)
             PROVE  EvidenceInv
  BY DEF EvidenceInit
<1>1. <<Fresh>> \in Seq({Fresh}) /\ Len(<<Fresh>>) = 1 /\ <<Fresh>>[1] = Fresh
  OBVIOUS
<1>2. ASSUME NEW s \in Sides PROVE Carried(s)
  <2>1. scan[s] = <<Fresh>> /\ truth[s] = Fresh /\ bare[s] = Fresh
    BY DEF ReadingFrom
  <2>2. IsSequence(scan[s])
    BY <1>1, <2>1 DEF IsSequence
  <2> QED
    BY <1>1, <2>1, <2>2 DEF Carried
<1> QED
  BY <1>2 DEF EvidenceInv, CodeIsFound, ReadingFrom

LEMMA ReadingSteps == EvidenceInv /\ [EvidenceNext]_evidenceVars => EvidenceInv'
<1>1. ASSUME EvidenceInv, UNCHANGED evidenceVars
      PROVE  EvidenceInv'
  BY <1>1 DEF EvidenceInv, Carried, CodeIsFound, evidenceVars
<1>2. ASSUME EvidenceInv, NEW kind \in {"context", "removed", "added"}, NEW text, ReadLine(kind, text)
      PROVE  EvidenceInv'
  <2> DEFINE sides == CASE kind = "context" -> Sides [] kind = "removed" -> {"old"} [] kind = "added" -> {"new"}
             right == [s \in sides |-> Scanned(text, truth[s], truth[s].string)]
             views == [s \in sides |-> code_view(text, scan[s])]
             plain == [s \in sides |-> scan_line(text, [bare[s] EXCEPT !.string = NoString], NoString)]
  <2>1. sides \subseteq Sides /\ (kind # "context" => sides # {})
    BY DEF Sides
  <2>2. Read(kind, text, sides, right, views, plain)
    BY <1>2 DEF ReadLine
  <2>3. \A s \in sides : /\ right[s] = Scanned(text, truth[s], truth[s].string)
                         /\ views[s] = code_view(text, scan[s])
                         /\ plain[s] = scan_line(text, [bare[s] EXCEPT !.string = NoString], NoString)
    OBVIOUS
  <2> HIDE DEF sides, right, views, plain
  <2>4. ASSUME NEW s \in sides PROVE ReadOn(s, text, views[s], right[s], plain[s])
    <3>1. s \in Sides /\ Carried(s)
      BY <1>2, <2>1 DEF EvidenceInv
    <3> QED
      BY <2>3, <3>1, LineIsRead
  <2>5. ASSUME NEW s \in Sides PROVE Carried(s)'
    <3>1. CASE s \in sides
      <4>1. /\ scan'[s] = from_readings(views[s]) /\ truth'[s] = finish(right[s], text).left
            /\ bare'[s] = plain[s].left
            /\ dropped'[s] = (dropped[s] \/ Len(Distinct(views[s])) > 1 + MORE_READINGS)
        BY <2>2, <3>1 DEF Read
      <4> QED
        BY <2>4, <3>1, <4>1 DEF Carried, ReadOn
    <3>2. CASE s \notin sides
      <4>1. scan'[s] = scan[s] /\ truth'[s] = truth[s] /\ bare'[s] = bare[s] /\ (dropped'[s] <=> dropped[s])
        BY <2>2, <3>2 DEF Read
      <4> QED
        BY <1>2, <4>1 DEF EvidenceInv, Carried
    <3> QED
      BY <3>1, <3>2
  <2>6. CodeIsFound'
    <3>1. CASE kind = "context"
      BY <2>2, <3>1 DEF Read, CodeIsFound
    <3>2. CASE kind # "context"
      <4> DEFINE s == CHOOSE side \in sides : TRUE
                 found == Tokens(text, union_views(views[s]))
      <4>1. s \in sides
        BY <2>1, <3>2
      <4>2. missed' = [code |-> IF dropped[s] THEN {} ELSE Tokens(text, Kept(right[s])) \ found,
                       bare |-> Tokens(text, plain[s].kept) \ found]
        BY <2>2, <3>2 DEF Read
      <4> HIDE DEF s
      <4>3. ~dropped[s] => Tokens(text, Kept(right[s])) \subseteq found
        BY <2>4, <4>1 DEF ReadOn, Tokens
      <4>4. Tokens(text, plain[s].kept) \subseteq found
        BY <2>4, <4>1 DEF ReadOn, Tokens
      <4> QED
        BY <4>2, <4>3, <4>4 DEF CodeIsFound
    <3> QED
      BY <3>1, <3>2
  <2> QED
    BY <2>5, <2>6 DEF EvidenceInv
<1> QED
  BY <1>1, <1>2 DEF EvidenceNext

\* However long a hunk, a token that is code on a changed line is found unless a reading was past
\* the cap before it, and one that a scan without strings finds always is (lexical.rs code_view,
\* ScanState::from_readings; evidence.rs hunk_matches).
THEOREM CodeAlwaysFound == EvidenceSpec => []CodeIsFound
<1>1. EvidenceInv => CodeIsFound
  BY DEF EvidenceInv
<1> QED
  BY <1>1, ReadingStarts, ReadingSteps, PTL DEF EvidenceSpec

=============================================================================
