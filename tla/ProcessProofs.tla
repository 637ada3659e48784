----------------------------- MODULE ProcessProofs ----------------------------
(***************************************************************************)
(* Proofs about the processes that are started by hand and the things they  *)
(* share: the file that `daemon metrics --out` replaces is whole, the       *)
(* envelope of a command says what its child did, a command line is read    *)
(* as it was admitted and a command ends as its exit code says, a cockpit   *)
(* gives the terminal back and takes a click for what was seen there, an    *)
(* MCP server answers every line, and starts and stops at one socket path   *)
(* leave a path, a lock and answers that tell the truth.                    *)
(***************************************************************************)
EXTENDS Textfile, Cli, Cockpit, Startup, Mcp, WeightsProofs, SequenceTheorems

-----------------------------------------------------------------------------
(* daemon metrics --out *)

Names == Pids \X (0 .. TEMPORARY_ATTEMPTS - 1)
Placed == {"write", "rename", "remove"} \* the run has created its temporary
Phases == Placed \cup {"new", "create", "done", "refused", "killed"}

TextOK ==
  /\ at \in {Nothing, Link, Dir, Old} \cup {File(r, 2) : r \in Writers}
  /\ temp \in [Names -> {Nothing} \cup {File(r, k) : r \in Writers, k \in 0 .. 2}]
  /\ run \in [Writers -> [pc : Phases, pid : Pids \cup {"none"}, try : 0 .. TEMPORARY_ATTEMPTS - 1]]
  /\ \A r \in Writers : Live(r) => run[r].pid \in Pids

\* No two live runs share a pid, so none touches another's temporary; a run that was not
\* killed has at most the one it works on, and it has all its bytes when it is renamed.
TempsInv ==
  /\ \A r, q \in Writers : Live(r) /\ Live(q) /\ run[r].pid = run[q].pid => r = q
  /\ \A r \in Writers : run[r].pc \in Placed => temp[Mine(r)].of = r
  /\ \A r \in Writers : run[r].pc = "write" => temp[Mine(r)].size < 2
  /\ \A r \in Writers : run[r].pc = "rename" => temp[Mine(r)].size = 2
  /\ \A n \in Names, r \in Writers :
       temp[n].of = r /\ run[r].pc # "killed" => run[r].pc \in Placed /\ n = Mine(r)

TextInv ==
  /\ TextOK /\ TempsInv
  /\ (\E r \in Writers : run[r].pc = "done") <=> (\E r \in Writers : at = File(r, 2))

LEMMA TextStep ==
  ASSUME TextInv, [TNext]_textVars
  PROVE  TextInv'
<1> USE AttemptsPos, RunsAreNew
    DEF File, Nothing, Link, Dir, Old, Origins, Names, Placed, Phases, Mine, Live
<1>1. CASE UNCHANGED textVars
  BY <1>1 DEF textVars, TextInv, TextOK, TempsInv
<1>2. ASSUME NEW r \in Writers, Begin(r) PROVE TextInv'
  BY <1>2 DEF Begin, TextInv, TextOK, TempsInv
<1>3. ASSUME NEW r \in Writers, create_temporary(r) PROVE TextInv'
  <2>1. /\ run[r].pc = "create" /\ run[r].pid \in Pids /\ Mine(r) \in Names /\ UNCHANGED at
        /\ \A q \in Writers \ {r} : run[q].pc \in Placed => Mine(q) # Mine(r)
    BY <1>3, SMTT(20) DEF create_temporary, TextInv, TextOK, TempsInv
  <2>2. CASE Free(r)
    <3>1. /\ temp[Mine(r)] = Nothing
          /\ temp' = [temp EXCEPT ![Mine(r)] = File(r, 0)]
          /\ run' = [run EXCEPT ![r].pc = "write"]
      BY <1>3, <2>2 DEF create_temporary, Free, Becomes
    <3>2. TextOK'
      <4>1. temp' \in [Names -> {Nothing} \cup {File(q, k) : q \in Writers, k \in 0 .. 2}]
        BY <2>1, <3>1 DEF TextInv, TextOK
      <4>2. run' \in [Writers -> [pc : Phases, pid : Pids \cup {"none"}, try : 0 .. TEMPORARY_ATTEMPTS - 1]]
        BY <2>1, <3>1 DEF TextInv, TextOK
      <4>3. \A q \in Writers : Live(q)' => run'[q].pid \in Pids
        BY <2>1, <3>1 DEF TextInv, TextOK
      <4> QED
        BY <2>1, <4>1, <4>2, <4>3 DEF TextInv, TextOK
    <3>3. TempsInv'
      BY <2>1, <3>1 DEF TextInv, TextOK, TempsInv
    <3> QED
      BY <2>1, <3>1, <3>2, <3>3 DEF TextInv, TextOK
  <2>3. CASE ~Free(r)
    <3>1. PICK next \in {"create", "refused"}, k \in 0 .. TEMPORARY_ATTEMPTS - 1 :
            run' = [run EXCEPT ![r].pc = next, ![r].try = k]
      <4> DEFINE more == run[r].try + 1 < TEMPORARY_ATTEMPTS
                 next == IF more THEN "create" ELSE "refused"
                 k == IF more THEN run[r].try + 1 ELSE run[r].try
      <4>1. run' = [run EXCEPT ![r].pc = next, ![r].try = k]
        BY <1>3, <2>3 DEF create_temporary, TextInv, TextOK
      <4>2. next \in {"create", "refused"} /\ k \in 0 .. TEMPORARY_ATTEMPTS - 1
        BY DEF TextInv, TextOK
      <4> QED
        BY <4>1, <4>2
    <3>2. UNCHANGED temp
      BY <1>3, <2>3 DEF create_temporary
    <3>3. TextOK'
      <4>1. run' \in [Writers -> [pc : Phases, pid : Pids \cup {"none"}, try : 0 .. TEMPORARY_ATTEMPTS - 1]]
        <5>1. run' = [run EXCEPT ![r] = [run[r] EXCEPT !.pc = next, !.try = k]]
          BY <3>1 DEF TextInv, TextOK
        <5>2. [run[r] EXCEPT !.pc = next, !.try = k]
                \in [pc : Phases, pid : Pids \cup {"none"}, try : 0 .. TEMPORARY_ATTEMPTS - 1]
          <6>1. run[r] \in [pc : Phases, pid : Pids \cup {"none"}, try : 0 .. TEMPORARY_ATTEMPTS - 1]
            BY DEF TextInv, TextOK
          <6>2. next \in Phases /\ k \in 0 .. TEMPORARY_ATTEMPTS - 1
            OBVIOUS
          <6> HIDE DEF Phases
          <6> QED
            BY ONLY <6>1, <6>2
        <5> QED
          BY <5>1, <5>2 DEF TextInv, TextOK
      <4>2. \A q \in Writers : Live(q)' => run'[q].pid \in Pids
        BY <2>1, <3>1 DEF TextInv, TextOK
      <4> QED
        BY <2>1, <3>2, <4>1, <4>2 DEF TextInv, TextOK
    <3>4. TempsInv'
      <4>1. /\ run'[r].pc = next /\ run'[r].pid = run[r].pid
            /\ next \notin Placed /\ next # "killed" /\ next # "rename" /\ next # "write"
            /\ (Live(r)' => Live(r)) /\ run[r].pc \notin Placed \cup {"killed"}
        BY <2>1, <3>1 DEF TextInv, TextOK
      <4>2. \A q \in Writers \ {r} : run'[q] = run[q] /\ Mine(q)' = Mine(q) /\ (Live(q)' <=> Live(q))
        BY <3>1 DEF TextInv, TextOK
      <4> HIDE DEF Live, Mine, Placed, Names
      <4>3. \A x, y \in Writers : Live(x)' /\ Live(y)' /\ run'[x].pid = run'[y].pid => x = y
        BY <4>1, <4>2 DEF TextInv, TempsInv
      <4>4. \A x \in Writers : x # r => run'[x].pc = run[x].pc /\ temp'[Mine(x)'] = temp[Mine(x)]
        BY <3>2, <4>2
      <4>5. \A n \in Names, x \in Writers :
              temp'[n].of = x /\ run'[x].pc # "killed" => run'[x].pc \in Placed /\ n = Mine(x)'
        BY <3>2, <4>1, <4>2 DEF TextInv, TempsInv
      <4> QED
        BY <4>1, <4>3, <4>4, <4>5 DEF TextInv, TempsInv, Placed, Names
    <3> QED
      BY <2>1, <3>1, <3>2, <3>3, <3>4 DEF TextInv, TextOK
  <2> QED
    BY <2>2, <2>3
<1>4. ASSUME NEW r \in Writers, Writes(r) PROVE TextInv'
  <2>1. /\ run[r].pc = "write" /\ run[r].pid \in Pids /\ Mine(r) \in Names /\ UNCHANGED at
        /\ temp[Mine(r)] \in {File(r, k) : k \in 0 .. 1}
        /\ \A q \in Writers \ {r} : run[q].pc \in Placed => Mine(q) # Mine(r)
    BY <1>4 DEF Writes, TextInv, TextOK, TempsInv
  <2>2. CASE temp[Mine(r)] = File(r, 0)
    BY <1>4, <2>1, <2>2 DEF Writes, Becomes, TextInv, TextOK, TempsInv
  <2>3. CASE temp[Mine(r)] = File(r, 1)
    BY <1>4, <2>1, <2>3, SMTT(20) DEF Writes, Becomes, TextInv, TextOK, TempsInv
  <2> QED
    BY <2>1, <2>2, <2>3
<1>5. ASSUME NEW r \in Writers, WriteFails(r) PROVE TextInv'
  BY <1>5 DEF WriteFails, OnError, Becomes, TextInv, TextOK, TempsInv
<1>6. ASSUME NEW r \in Writers, Renames(r) PROVE TextInv'
  <2>1. /\ run[r].pc = "rename" /\ run[r].pid \in Pids /\ Mine(r) \in Names
        /\ temp[Mine(r)] = File(r, 2) /\ at' = File(r, 2)
        /\ \A q \in Writers \ {r} : run[q].pc \in Placed => Mine(q) # Mine(r)
    BY <1>6 DEF Renames, TextInv, TextOK, TempsInv
  <2>2. TextOK'
    BY <1>6, <2>1 DEF Renames, Becomes, TextInv, TextOK
  <2>3. TempsInv'
    BY <1>6, <2>1 DEF Renames, Becomes, TextInv, TextOK, TempsInv
  <2>4. run'[r].pc = "done" /\ at' = File(r, 2)
    BY <1>6, <2>1 DEF Renames, Becomes, TextInv, TextOK
  <2> QED
    BY <2>2, <2>3, <2>4 DEF TextInv
<1>7. ASSUME NEW r \in Writers, Removes(r) PROVE TextInv'
  BY <1>7 DEF Removes, Becomes, TextInv, TextOK, TempsInv
<1>8. ASSUME NEW r \in Writers, RunKilled(r) PROVE TextInv'
  BY <1>8 DEF RunKilled, Becomes, TextInv, TextOK, TempsInv
<1> QED
  BY <1>1, <1>2, <1>3, <1>4, <1>5, <1>6, <1>7, <1>8 DEF TNext

\* What a reader finds at PATH is the old contents or the whole of one run's, and only a
\* killed run leaves a temporary behind, for any number of overlapping runs, reused pids
\* and attempts (textfile.rs, write_atomically).
THEOREM FileAlwaysWhole == TSpec => []FileIsWhole
<1>1. TInit => TextInv
  BY AttemptsPos, RunsAreNew DEF TInit, TextInv, TextOK, TempsInv, File, Nothing, Link, Dir, Old,
     Origins, Names, Placed, Phases, Mine, Live
<1>2. TextInv /\ [TNext]_textVars => TextInv'
  BY TextStep
<1>3. TextInv => FileIsWhole
  BY RunsAreNew DEF TextInv, TextOK, TempsInv, FileIsWhole, Names, Placed
<1> QED
  BY <1>1, <1>2, <1>3, PTL DEF TSpec

-----------------------------------------------------------------------------
(* The envelope of a command *)

ChildCodes == {0, 3, 7, 101}
EnvelopeTyped ==
  /\ will \in [Streams -> Nat] /\ sent \in [Streams -> Nat]
  /\ pipe \in [Streams -> Nat] /\ got \in [Streams -> Nat]
  /\ status \in {Alive, Signal} \cup ChildCodes
  /\ ended \in [Streams -> {"not", "read", "failed"}]
\* Nothing is lost between the child and the readers; a reader that has read to the end has all
\* of a child that has ended; and a child that ended well wrote all, or a reader let it down.
EnvelopeInv ==
  /\ EnvelopeTyped
  /\ \A s \in Streams : /\ sent[s] = got[s] + pipe[s]
                        /\ ended[s] = "read" => pipe[s] = 0 /\ status # Alive
  /\ status = 0 => (\A s \in Streams : will[s] = 0) \/ \E s \in Streams : ended[s] = "failed"
  /\ result # NoResult =>
       /\ result.done
       /\ result.out # "error" => /\ \A s \in Streams : ended[s] = "read"
                                  /\ result.out \in {"written", "closed", "failed"} /\ result.doc = wrap
                                  /\ result.out # "failed" => (result.code = 0 <=> status = 0)

LEMMA EnvelopeStarts == EInit => EnvelopeInv
BY EnvelopeValues DEF EInit, EnvelopeInv, EnvelopeTyped, ChildCodes, Streams, NoResult

\* What the document says of a child that both readers have read to its end.
LEMMA Wrapped ==
  ASSUME NEW doc, doc = wrap
  PROVE  /\ doc.kept = [s \in Streams |-> Kept(s)]
         /\ doc.ok <=> status = 0 /\ \A s \in Streams : ~Cut(s)
         /\ doc.format = "json" => Kept("stdout") # 0 /\ ~(Kept("stdout") > 0 /\ Cut("stdout"))
<1>1. PICK ok \in BOOLEAN : ok <=> status = 0 /\ \A s \in Streams : ~Cut(s)
  OBVIOUS
<1>2. PICK format : format = CASE Kept("stdout") = 0 -> "empty"
                               [] Kept("stdout") > 0 /\ (Cut("stdout") \/ text = "bytes") -> "text"
                               [] OTHER -> text
  OBVIOUS
<1>3. PICK k : k = [s \in Streams |-> Kept(s)]
  OBVIOUS
<1>4. PICK c, o, cut :
        doc = [exit_code |-> c, outcome |-> o, ok |-> ok, format |-> format, kept |-> k, truncated |-> cut]
  BY <1>1, <1>2, <1>3 DEF wrap
<1>5. doc.ok = ok /\ doc.format = format /\ doc.kept = k
  BY <1>4
<1>6. format = "json" => Kept("stdout") # 0 /\ ~(Kept("stdout") > 0 /\ Cut("stdout"))
  BY <1>2
<1>7. doc.kept = [s \in Streams |-> Kept(s)]
  BY <1>3, <1>5, Zenon
<1>8. doc.ok <=> status = 0 /\ \A s \in Streams : ~Cut(s)
  BY <1>1, <1>5, Zenon
<1> QED
  BY <1>5, <1>6, <1>7, <1>8, Zenon

LEMMA DocumentTells ==
  ASSUME EnvelopeInv, result # NoResult
  PROVE  result.done /\ Told
<1>1. CASE result.out = "error"
  BY <1>1 DEF EnvelopeInv, Told
<1>2. CASE result.out # "error"
  <2>1. /\ result.doc = wrap
        /\ result.out # "failed" => (result.code = 0 <=> status = 0)
        /\ \A s \in Streams : ended[s] = "read" /\ pipe[s] = 0 /\ sent[s] = got[s] /\ sent[s] \in Nat
    BY <1>2 DEF EnvelopeInv, EnvelopeTyped
  <2>2. \A s \in Streams : Cut(s) <=> ~(sent[s] <= Cap(s))
    BY <2>1, EnvelopeValues DEF Cut, Cap
  <2>3. result.doc.kept = [s \in Streams |-> IF sent[s] <= Cap(s) THEN sent[s] ELSE Cap(s)]
    <3>1. \A s \in Streams : Kept(s) = IF sent[s] <= Cap(s) THEN sent[s] ELSE Cap(s)
      BY <2>1, <2>2 DEF Kept
    <3>2. result.doc.kept = [s \in Streams |-> Kept(s)]
      BY <2>1, Wrapped, Zenon
    <3> QED
      BY <3>1, <3>2, Zenon
  <2>4. status = 0 => \A s \in Streams : will[s] = 0
    BY <2>1 DEF EnvelopeInv
  <2>5. result.doc.ok <=> status = 0 /\ \A s \in Streams : sent[s] <= Cap(s) /\ will[s] = 0
    <3>1. result.doc.ok <=> status = 0 /\ \A s \in Streams : ~Cut(s)
      BY <2>1, Wrapped, Zenon
    <3> QED
      BY <2>2, <2>4, <3>1, Zenon
  <2>6. result.doc.format = "json" => sent["stdout"] <= Cap("stdout") /\ sent["stdout"] > 0
    <3>1. "stdout" \in Streams
      BY DEF Streams
    <3>2. Kept("stdout") \in Nat
      BY <2>1, <3>1, EnvelopeValues DEF Kept, Cap
    <3>3. result.doc.format = "json" => Kept("stdout") > 0 /\ ~Cut("stdout")
      <4>1. result.doc.format = "json" => Kept("stdout") # 0 /\ ~(Kept("stdout") > 0 /\ Cut("stdout"))
        BY <2>1, Wrapped, Zenon
      <4>2. Kept("stdout") # 0 => Kept("stdout") > 0
        BY <3>2
      <4> QED
        BY <4>1, <4>2, Zenon
    <3> QED
      BY <2>1, <2>2, <3>1, <3>3 DEF Kept
  <2> QED
    BY <2>1, <2>3, <2>5, <2>6 DEF Told, EnvelopeInv
<1> QED
  BY <1>1, <1>2

LEMMA EnvelopeSteps == EnvelopeInv /\ [ENext]_envVars => EnvelopeInv'
<1> SUFFICES ASSUME EnvelopeInv, [ENext]_envVars PROVE EnvelopeInv'
  OBVIOUS
<1> USE EnvelopeValues DEF Streams, ChildCodes
<1>1. ASSUME NEW s \in Streams, ChildWrites(s) PROVE EnvelopeInv'
  <2>1. /\ status = Alive /\ pipe' = [pipe EXCEPT ![s] = @ + 1] /\ sent' = [sent EXCEPT ![s] = @ + 1]
        /\ will' = [will EXCEPT ![s] = @ - 1] /\ will[s] > 0 /\ ended[s] # "failed"
        /\ UNCHANGED <<status, text, family, got, ended, result>>
    BY <1>1 DEF ChildWrites
  <2>2. EnvelopeTyped'
    BY <2>1 DEF EnvelopeInv, EnvelopeTyped
  <2>3. \A x \in Streams : sent'[x] = got'[x] + pipe'[x] /\ (ended'[x] = "read" => pipe'[x] = 0 /\ status' # Alive)
    BY <2>1 DEF EnvelopeInv, EnvelopeTyped
  <2>4. result # NoResult => result.out = "error"
    BY <2>1 DEF EnvelopeInv
  <2> QED
    BY <2>1, <2>2, <2>3, <2>4 DEF EnvelopeInv
<1>2. ASSUME NEW s \in Streams, Read(s) PROVE EnvelopeInv'
  <2>1. PICK n \in 1 .. pipe[s] :
          /\ ended[s] = "not" /\ got' = [got EXCEPT ![s] = @ + n] /\ pipe' = [pipe EXCEPT ![s] = @ - n]
          /\ UNCHANGED <<will, status, text, family, sent, ended, result>>
    BY <1>2 DEF Read
  <2>2. EnvelopeTyped'
    BY <2>1 DEF EnvelopeInv, EnvelopeTyped
  <2>3. \A x \in Streams : sent'[x] = got'[x] + pipe'[x] /\ (ended'[x] = "read" => pipe'[x] = 0 /\ status' # Alive)
    BY <2>1 DEF EnvelopeInv, EnvelopeTyped
  <2>4. result # NoResult => result.out = "error"
    BY <2>1 DEF EnvelopeInv
  <2> QED
    BY <2>1, <2>2, <2>3, <2>4 DEF EnvelopeInv
<1>3. ASSUME NEW s \in Streams, NEW e \in {"read", "failed"},
             ended[s] = "not", ended' = [ended EXCEPT ![s] = e], e = "read" => pipe[s] = 0 /\ status # Alive,
             UNCHANGED <<will, status, text, family, sent, pipe, got, result>>
      PROVE  EnvelopeInv'
  <2>1. ended' \in [Streams -> {"not", "read", "failed"}]
        /\ ended'[s] = e /\ \A x \in Streams : x # s => ended'[x] = ended[x]
    BY <1>3 DEF EnvelopeInv, EnvelopeTyped
  <2>2. EnvelopeTyped'
    BY <1>3, <2>1 DEF EnvelopeInv, EnvelopeTyped
  <2>3. \A x \in Streams : sent'[x] = got'[x] + pipe'[x] /\ (ended'[x] = "read" => pipe'[x] = 0 /\ status' # Alive)
    BY <1>3, <2>1 DEF EnvelopeInv
  <2>4. result # NoResult => result.done /\ result.out = "error"
    BY <1>3 DEF EnvelopeInv
  <2>5. status' = 0 => (\A x \in Streams : will'[x] = 0) \/ \E x \in Streams : ended'[x] = "failed"
    BY <1>3, <2>1 DEF EnvelopeInv
  <2> QED
    BY <1>3, <2>2, <2>3, <2>4, <2>5 DEF EnvelopeInv
<1>4. ASSUME NEW v \in {Signal} \cup ChildCodes, status = Alive, status' = v,
             v = 0 => (\A s \in Streams : will[s] = 0) \/ \E s \in Streams : ended[s] = "failed",
             UNCHANGED <<will, text, family, sent, pipe, got, ended, result>>
      PROVE  EnvelopeInv'
  <2>1. result # NoResult => result.done /\ result.out = "error"
    BY <1>4 DEF EnvelopeInv
  <2>2. EnvelopeTyped'
    BY <1>4 DEF EnvelopeInv, EnvelopeTyped
  <2> QED
    BY <1>4, <2>1, <2>2 DEF EnvelopeInv
<1>5. CASE envelope
  <2>1. UNCHANGED <<will, status, text, family, sent, pipe, got, ended>>
    BY <1>5 DEF envelope
  <2>2. /\ result'.done
        /\ result'.out # "error" => /\ \A s \in Streams : ended'[s] = "read"
                                    /\ result'.out \in {"written", "closed", "failed"} /\ result'.doc = wrap
                                    /\ result'.out # "failed" => (result'.code = 0 <=> status' = 0)
    <3>1. CASE result' = [done |-> TRUE, out |-> "error", doc |-> <<>>, code |-> USAGE]
      BY <3>1
    <3>2. CASE /\ \A s \in Streams : ended[s] = "read"
               /\ \E out \in {"written", "closed", "failed"} :
                    result' = [done |-> TRUE, out |-> out, doc |-> wrap,
                        code |-> CASE out = "failed" -> IO
                                   [] out # "failed" /\ status = Signal -> SIGNAL_BASE + 9
                                   [] OTHER -> status]
      BY <2>1, <3>2 DEF SIGNAL_BASE
    <3> QED
      BY <1>5, <3>1, <3>2 DEF envelope
  <2>3. wrap' = wrap
    BY <2>1 DEF wrap, Kept, Cut
  <2>4. EnvelopeTyped'
    BY <2>1 DEF EnvelopeInv, EnvelopeTyped
  <2>5. result'.out # "error" => /\ \A s \in Streams : ended'[s] = "read"
                                 /\ result'.out \in {"written", "closed", "failed"} /\ result'.doc = wrap'
                                 /\ result'.out # "failed" => (result'.code = 0 <=> status' = 0)
    BY <2>2, <2>3, Zenon
  <2> QED
    BY <2>1, <2>2, <2>4, <2>5 DEF EnvelopeInv
<1>6. CASE UNCHANGED envVars
  <2>1. UNCHANGED <<will, status, text, family, sent, pipe, got, ended, result>>
    BY <1>6 DEF envVars
  <2>2. wrap' = wrap
    BY <2>1 DEF wrap, Kept, Cut
  <2> QED
    BY <2>1, <2>2 DEF EnvelopeInv, EnvelopeTyped
<1>7. ASSUME NEW s \in Streams, ReadEnds(s) \/ ReadFails(s) PROVE EnvelopeInv'
  BY <1>3, <1>7 DEF ReadEnds, ReadFails
<1>8. ASSUME NEW s \in Streams, ChildWriteFails(s) PROVE EnvelopeInv'
  BY <1>4, <1>8 DEF ChildWriteFails
<1>9. CASE CommandExits \/ ChildKilled
  BY <1>4, <1>9 DEF CommandExits, ChildKilled
<1> QED
  BY <1>1, <1>2, <1>5, <1>6, <1>7, <1>8, <1>9 DEF ENext

\* However the child writes, is ended and is read, and whatever the caps and the pipe hold, a
\* document the envelope ends with says what the child did.
THEOREM EnvelopeAlwaysTells == ESpec => [](result # NoResult => result.done /\ Told)
<1>1. EnvelopeInv => (result # NoResult => result.done /\ Told)
  BY DocumentTells
<1> QED
  BY <1>1, EnvelopeStarts, EnvelopeSteps, PTL DEF ESpec

-----------------------------------------------------------------------------
(* The terminal of the cockpit *)

Stages == {"start", "enter", "loop", "read", "drain", "finish", "drop", "done"}
Terminal == [raw : BOOLEAN, screen : BOOLEAN, pc : Stages, armed : BOOLEAN,
             failed : SUBSET {"raw", "screen"}, result : {"none", "ok", "error", "panic"}]

\* The guard is armed from the first change of the terminal until it has given it back.
TerminalInv ==
  /\ tty \in Terminal
  /\ tty.pc = "start" => ~tty.raw /\ ~tty.screen
  /\ tty.pc \notin {"start", "done"} => tty.armed
  /\ tty.pc = "drop" => tty.result # "ok"
  /\ TerminalGivenBack

App == [selected : Nat, scroll : Nat, viewed : SUBSET Nat, overlay : {"none", "help", "palette", "panel"},
        palette : Nat, panel : Nat, panelScroll : Nat, focus : {"sidebar", "diff"}, side : BOOLEAN,
        fold : BOOLEAN, wrap : BOOLEAN, notes : BOOLEAN, theme : Nat, running : BOOLEAN]
\* An application means a file of the review, if there is any, and a command of the palette.
Means(a) ==
  /\ a.selected \in Files \/ (dirs = <<>> /\ a.selected = 1)
  /\ a.viewed \subseteq Files
  /\ a.palette \in 1 .. CommandCount
PointsAtSomething == Means(app)
Points(a) == a \in App /\ Means(a)
PointsInv == dirs \in Seq(Directories) /\ Points(app)

LEMMA TerminalStep == ASSUME TerminalInv, [CockpitNext]_cockpitVars PROVE TerminalInv'
<1>1. CASE RawOn
  BY <1>1 DEF RawOn, TerminalInv, Terminal, Stages, TerminalGivenBack
<1>2. CASE EnterScreen
  BY <1>2 DEF EnterScreen, TerminalInv, Terminal, Stages, TerminalGivenBack
<1>3. CASE Draw \/ LoopEnds \/ LoopFails \/ Panics \/ PollEvents \/ Redraws
  BY <1>3 DEF Draw, LoopEnds, LoopFails, Panics, PollEvents, Redraws, TerminalInv, Terminal, Stages, TerminalGivenBack
<1>4. CASE Key \/ Click
  <2>1. PICK e : dispatch(e)
    BY <1>4 DEF Key, Click
  <2> QED
    <3>1. tty.pc = "read" /\ tty' = [tty EXCEPT !.pc = "drain"] /\ tty \in Terminal /\ tty.armed
      BY <2>1 DEF dispatch, TerminalInv
    <3>2. tty' \in Terminal /\ tty'.pc = "drain" /\ tty'.armed
      BY ONLY <3>1 DEF Terminal, Stages
    <3> QED
      BY <3>2 DEF TerminalInv, TerminalGivenBack
<1>5. ASSUME NEW rawOff \in BOOLEAN, NEW left \in BOOLEAN,
             NEW how \in {"none", "ok", "error", "panic"}, EndSession(rawOff, left, how),
             how = "ok" => rawOff /\ left
      PROVE  TerminalInv'
  <2>1. PICK f \in SUBSET {"raw", "screen"} : f = {h \in {"raw", "screen"} : ~IF h = "raw" THEN rawOff ELSE left}
    <3>1. {h \in {"raw", "screen"} : ~IF h = "raw" THEN rawOff ELSE left} \subseteq {"raw", "screen"}
      BY ONLY Zenon
    <3> QED
      BY ONLY <3>1
  <2>2. /\ tty' \in Terminal /\ tty'.pc = "done" /\ tty'.result = how /\ tty'.failed = f
        /\ tty'.raw = ~rawOff /\ tty'.screen = (tty.screen /\ ~left)
    <3>1. PICK x \in BOOLEAN, y \in BOOLEAN : x = ~rawOff /\ y = (tty.screen /\ ~left)
      BY Zenon
    <3>2. restore(rawOff, left).raw = x /\ restore(rawOff, left).screen = y
      BY <3>1, Zenon DEF restore
    <3>3. tty' = [tty EXCEPT !.raw = x, !.screen = y, !.failed = f, !.armed = FALSE, !.pc = "done", !.result = how]
      BY <1>5, <2>1, <3>2 DEF EndSession
    <3>4. tty \in Terminal
      BY DEF TerminalInv
    <3>5. /\ tty' \in Terminal /\ tty'.pc = "done" /\ tty'.result = how /\ tty'.failed = f
          /\ tty'.raw = x /\ tty'.screen = y
      BY ONLY <3>3, <3>4, how \in {"none", "ok", "error", "panic"}, f \in SUBSET {"raw", "screen"},
         x \in BOOLEAN, y \in BOOLEAN DEF Terminal, Stages
    <3> QED
      BY <3>1, <3>5
  <2>3. ("raw" \in f <=> ~rawOff) /\ ("screen" \in f <=> ~left)
    BY <2>1
  <2> QED
    BY <1>5, <2>2, <2>3 DEF TerminalInv, TerminalGivenBack
<1>6. CASE Finish
  <2>1. PICK rawOff \in BOOLEAN, left \in BOOLEAN, cursor \in BOOLEAN :
          EndSession(rawOff, left, IF rawOff /\ left /\ cursor THEN tty.result ELSE "error")
    BY <1>6 DEF Finish
  <2>2. PICK how \in {"none", "ok", "error", "panic"} :
          how = (IF rawOff /\ left /\ cursor THEN tty.result ELSE "error")
    BY DEF TerminalInv, Terminal
  <2>3. how = "ok" => rawOff /\ left
    BY <2>2
  <2> QED
    BY <1>5, <2>1, <2>2, <2>3
<1>7. CASE DropGuard
  <2>1. tty.armed /\ tty.result # "ok"
    BY <1>7 DEF DropGuard, TerminalInv
  <2>2. PICK rawOff \in BOOLEAN, left \in BOOLEAN : EndSession(rawOff, left, tty.result)
    BY <1>7, <2>1 DEF DropGuard
  <2> QED
    BY <1>5, <2>1, <2>2 DEF TerminalInv, Terminal
<1>8. CASE UNCHANGED cockpitVars
  BY <1>8 DEF cockpitVars, TerminalInv, TerminalGivenBack
<1> QED
  BY <1>1, <1>2, <1>3, <1>4, <1>6, <1>7, <1>8 DEF CockpitNext

\* What division is, for the quotient and remainder of two numbers.
LEMMA Divided ==
  ASSUME NEW n \in Nat, NEW k \in Nat \ {0}
  PROVE  /\ n \div k \in Nat /\ n % k \in 0 .. k - 1
         /\ n = k * (n \div k) + (n % k)
  BY SMTT(30)

\* The larger of two numbers.
LEMMA MaxOfTwo == ASSUME NEW a \in Int, NEW b \in Int PROVE Max({a, b}) = IF a >= b THEN a ELSE b
<1> DEFINE m == IF a >= b THEN a ELSE b
<1>1. m \in {a, b} /\ \A y \in {a, b} : m >= y
  OBVIOUS
<1>2. \A x \in {a, b} : (\A y \in {a, b} : x >= y) => x = m
  OBVIOUS
<1> QED
  BY <1>1, <1>2 DEF Max

LEMMA Selecting ==
  ASSUME dirs \in Seq(Directories), NEW a, Points(a), NEW i \in Nat,
         i \in Files \/ (dirs = <<>> /\ i = 1)
  PROVE  Points(select(a, i))
  BY DEF Points, Means, App, select, Files

\* Where the application is scrolled to, its theme and its palette are no matter to the files.
LEMMA Scrolling ==
  ASSUME NEW a, Points(a), NEW i \in Nat, NEW o \in {"none", "help", "palette", "panel"}
  PROVE  /\ Points([a EXCEPT !.scroll = i]) /\ Points([a EXCEPT !.panelScroll = i])
         /\ Points([a EXCEPT !.theme = i]) /\ Points([a EXCEPT !.overlay = o])
         /\ i \in 1 .. CommandCount => Points([a EXCEPT !.palette = i])
<1>1. Points([a EXCEPT !.scroll = i]) /\ Points([a EXCEPT !.panelScroll = i])
  BY DEF Points, Means, App
<1>2. Points([a EXCEPT !.theme = i]) /\ Points([a EXCEPT !.overlay = o])
  BY DEF Points, Means, App
<1>3. i \in 1 .. CommandCount => Points([a EXCEPT !.palette = i])
  BY DEF Points, Means, App
<1> QED
  BY <1>1, <1>2, <1>3

LEMMA HandlePoints ==
  ASSUME dirs \in Seq(Directories), NEW a, Points(a), NEW e
  PROVE  Points(handle(a, e))
<1>0. PICK n \in Nat : n = Len(dirs) /\ Files = 1 .. n /\ (dirs = <<>> <=> n = 0)
  BY DEF Files
<1>1. Points(select_next(a)) /\ Points(select_prev(a)) /\ Points(select(a, 1))
      /\ Points(select(a, Max({Len(dirs), 1})))
  <2>1. Max({n, 1}) \in Nat /\ (n > 0 => Max({n, 1}) = n) /\ (n = 0 => Max({n, 1}) = 1)
    BY MaxOfTwo
  <2>2. a.selected \in Nat /\ (a.selected \in 1 .. n \/ (n = 0 /\ a.selected = 1))
    BY <1>0 DEF Points, Means, App
  <2>3. Points(select(a, 1)) /\ Points(select(a, Max({Len(dirs), 1})))
    BY <1>0, <2>1, Selecting
  <2>4. Points(select_next(a))
    BY <1>0, <2>2, Selecting DEF select_next
  <2>5. Points(select_prev(a))
    BY <1>0, <2>2, Selecting DEF select_prev
  <2> QED
    BY <2>3, <2>4, <2>5
<1>2. Points(toggle_viewed(a))
  <2>1. ASSUME a.selected \in Files PROVE Points(select_next([a EXCEPT !.viewed = @ \cup {a.selected}]))
    <3>1. PICK b : b = [a EXCEPT !.viewed = @ \cup {a.selected}]
      OBVIOUS
    <3>2. Points(b) /\ b.selected = a.selected
      BY <1>0, <2>1, <3>1 DEF Points, Means, App
    <3>3. Points(select_next(b))
      BY <1>0, <2>1, <3>2, Selecting DEF select_next
    <3> QED
      BY <3>1, <3>3
  <2>2. ASSUME a.selected \in Files PROVE Points([a EXCEPT !.viewed = @ \ {a.selected}])
    BY <2>2 DEF Points, Means, App
  <2> QED
    BY <2>1, <2>2 DEF toggle_viewed
<1>3. ASSUME NEW at_row PROVE Points(select_tree_row(a, at_row))
  <2>1. PICK i \in Files \cup {0} : i = file_index_at_row(at_row)
    BY DEF file_index_at_row
  <2>2. CASE i = 0
    BY <2>1, <2>2 DEF select_tree_row
  <2>3. CASE i # 0
    <3>1. i \in Nat /\ i \in Files
      BY <1>0, <2>3
    <3>2. PICK b : b = select(a, i) /\ Points(b)
      BY <3>1, Selecting
    <3>3. Points([b EXCEPT !.focus = "sidebar"])
      BY <3>2 DEF Points, Means, App
    <3> QED
      BY <2>1, <2>3, <3>2, <3>3 DEF select_tree_row
  <2> QED
    BY <2>2, <2>3
<1>4. a.scroll \in Nat /\ a.theme \in Nat /\ a.panelScroll \in Nat /\ a.palette \in 1 .. CommandCount
      /\ CommandCount \in Nat \ {0}
  BY PaletteNotEmpty DEF Points, Means, App
<1>5. Max({a.scroll - 1, 0}) \in Nat /\ Max({a.panelScroll - 1, 0}) \in Nat
  BY <1>4, MaxOfTwo
<1>6. Points(handle_review(a, e))
  <2>1. /\ Points([a EXCEPT !.side = ~@]) /\ Points([a EXCEPT !.fold = ~@])
        /\ Points([a EXCEPT !.wrap = ~@]) /\ Points([a EXCEPT !.notes = ~@])
    BY DEF Points, Means, App
  <2>2. Points([a EXCEPT !.scroll = Max({@ - 1, 0})]) /\ Points([a EXCEPT !.scroll = @ + 1])
    <3>1. a.scroll + 1 \in Nat
      BY <1>4
    <3> QED
      BY <1>5, <3>1, Scrolling
  <2>3. Points([a EXCEPT !.theme = (@ + 1) % 4])
    <3>1. (a.theme + 1) % 4 \in Nat
      BY <1>4
    <3> QED
      BY <3>1, Scrolling
  <2>4. /\ Points([a EXCEPT !.focus = "sidebar"]) /\ Points([a EXCEPT !.focus = "diff"])
        /\ Points([a EXCEPT !.overlay = "help"]) /\ Points([a EXCEPT !.running = FALSE])
    BY DEF Points, Means, App
  <2>5. Points([a EXCEPT !.overlay = "palette", !.palette = 1])
    <3>1. PICK b : b = [a EXCEPT !.overlay = "palette"] /\ Points(b)
      BY Scrolling
    <3>2. 1 \in 1 .. CommandCount
      BY <1>4
    <3>3. Points([b EXCEPT !.palette = 1])
      BY <3>1, <3>2, Scrolling
    <3> QED
      BY <3>1, <3>3
  <2> HIDE DEF Points
  <2> QED
    BY <1>1, <1>2, <1>3, <2>1, <2>2, <2>3, <2>4, <2>5 DEF handle_review
<1>7. Points(handle_help(a, e))
  BY DEF handle_help, Points, Means, App
<1>8. Points(handle_palette(a, e))
  <2>1. /\ (a.palette % CommandCount) + 1 \in 1 .. CommandCount
        /\ ((a.palette + CommandCount - 2) % CommandCount) + 1 \in 1 .. CommandCount
    <3>1. PICK c \in Nat \ {0}, q \in Nat : c = CommandCount /\ q = a.palette /\ q >= 1
      BY <1>4
    <3>2. q + c - 2 \in Nat
      BY ONLY <3>1, c \in Nat \ {0}, q \in Nat
    <3>3. q % c \in 0 .. c - 1 /\ (q + c - 2) % c \in 0 .. c - 1
      BY ONLY <3>2, c \in Nat \ {0}, q \in Nat, Divided
    <3>4. (q % c) + 1 \in 1 .. c /\ ((q + c - 2) % c) + 1 \in 1 .. c
      BY ONLY <3>3, c \in Nat \ {0}
    <3> QED
      BY ONLY <3>1, <3>4
  <2>2. /\ Points([a EXCEPT !.palette = (@ % CommandCount) + 1])
        /\ Points([a EXCEPT !.palette = ((@ + CommandCount - 2) % CommandCount) + 1])
    <3>1. /\ (a.palette % CommandCount) + 1 \in Nat
          /\ ((a.palette + CommandCount - 2) % CommandCount) + 1 \in Nat
      BY <1>4, <2>1
    <3> QED
      BY <2>1, <3>1, Scrolling
  <2>3. Points([a EXCEPT !.palette = 1]) /\ Points([a EXCEPT !.palette = CommandCount])
    <3>1. 1 \in 1 .. CommandCount /\ CommandCount \in 1 .. CommandCount
      BY <1>4
    <3> QED
      BY <1>4, <3>1, Scrolling
  <2>4. Points(run_selected_command(a))
    BY <1>4 DEF run_selected_command, Points, Means, App
  <2>5. Points([a EXCEPT !.overlay = "none"])
    BY DEF Points, Means, App
  <2> HIDE DEF Points
  <2> QED
    BY <2>2, <2>3, <2>4, <2>5 DEF handle_palette
<1>9. Points(handle_panel(a, e))
  <2>1. /\ Points([a EXCEPT !.panelScroll = @ + 1]) /\ Points([a EXCEPT !.panelScroll = Max({@ - 1, 0})])
        /\ Points([a EXCEPT !.panelScroll = 0])
    <3>1. a.panelScroll + 1 \in Nat
      BY <1>4
    <3> QED
      BY <1>5, <3>1, Scrolling
  <2>2. Points([a EXCEPT !.overlay = "palette"]) /\ Points([a EXCEPT !.overlay = "none"])
    BY DEF Points, Means, App
  <2> HIDE DEF Points
  <2> QED
    BY <2>1, <2>2 DEF handle_panel
<1>10. Points([a EXCEPT !.running = FALSE])
  BY DEF Points, Means, App
<1>11. a.overlay \in {"none", "help", "palette", "panel"}
  BY DEF Points, Means, App
<1> HIDE DEF Points
<1> QED
  BY <1>6, <1>7, <1>8, <1>9, <1>10, <1>11 DEF handle

LEMMA PointsStep == ASSUME PointsInv, [CockpitNext]_cockpitVars PROVE PointsInv'
<1>1. dirs' = dirs
  BY DEF CockpitNext, RawOn, EnterScreen, Draw, LoopEnds, LoopFails, Panics, Key, Click, dispatch, PollEvents,
     Redraws, Finish, DropGuard, cockpitVars
<1>2. CASE UNCHANGED app
  BY <1>1, <1>2 DEF PointsInv, Points, Means, Files
<1>3. ASSUME NEW e, app' = handle(app, e) PROVE PointsInv'
  <2>1. dirs \in Seq(Directories) /\ Points(app)
    BY DEF PointsInv
  <2>2. Points(app')
    BY <1>3, <2>1, HandlePoints
  <2> QED
    BY <1>1, <2>1, <2>2 DEF PointsInv, Points, Means, Files
<1>4. UNCHANGED app \/ \E e : app' = handle(app, e)
  BY DEF CockpitNext, RawOn, EnterScreen, Draw, LoopEnds, LoopFails, Panics, Key, Click, dispatch, PollEvents,
     Redraws, Finish, DropGuard, cockpitVars
<1> QED
  BY <1>2, <1>3, <1>4

LEMMA CockpitStarts == CockpitInit => TerminalInv /\ PointsInv
<1>1. CockpitInit => TerminalInv
  BY DEF CockpitInit, TerminalInv, Terminal, Stages, TerminalGivenBack
<1>2. CockpitInit => PointsInv
  <2> SUFFICES ASSUME CockpitInit PROVE PointsInv
    OBVIOUS
  <2>1. dirs \in Seq(Directories)
    BY DEF CockpitInit, BoundedSeq, SeqOf
  <2>2. dirs # <<>> => 1 \in Files
    BY <2>1 DEF Files
  <2> QED
    BY <2>1, <2>2, PaletteNotEmpty DEF CockpitInit, PointsInv, Points, Means, App, AppStart
<1> QED
  BY <1>1, <1>2

\* However a session of the cockpit ends, the terminal is given back (run.rs session,
\* TerminalGuard); and whatever keys and clicks came, the application means a file of the review
\* and a command of the palette (state.rs handle).
THEOREM TerminalAlwaysGivenBack == CockpitSpec => [](TerminalGivenBack /\ PointsAtSomething)
<1>1. TerminalInv /\ PointsInv => TerminalGivenBack /\ PointsAtSomething
  BY DEF TerminalInv, PointsInv, Points, PointsAtSomething
<1> QED
  BY <1>1, CockpitStarts, TerminalStep, PointsStep, PTL DEF CockpitSpec

-----------------------------------------------------------------------------
(* What the reviewer saw where they clicked *)

\* The files 1 .. n in groups, F[j] the first of j's group: a group, all of them each below a
\* header, and the place of a file there.
GroupOf(F, n, i) == FlattenSeq([j \in 1 .. n |-> IF F[j] = i THEN <<j>> ELSE <<>>])
AllGroups(F, n) ==
  FlattenSeq([i \in 1 .. n |-> IF GroupOf(F, n, i) = <<>> THEN <<>> ELSE <<0>> \o GroupOf(F, n, i)])
Before(F, i, j) == {k \in 1 .. j : F[k] = i}
PlaceOf(F, n, i) ==
  Cardinality({F[j] : j \in {k \in 1 .. n : F[k] <= F[i]}})
  + Cardinality({j \in 1 .. n : F[j] < F[i] \/ (F[j] = F[i] /\ j < i)})

\* A group has its files, in order.
LEMMA GroupIs ==
  ASSUME NEW n \in Nat, NEW F \in [1 .. n -> 1 .. n], NEW i \in 1 .. n
  PROVE  /\ GroupOf(F, n, i) \in Seq(Nat)
         /\ Len(GroupOf(F, n, i)) = Cardinality(Before(F, i, n))
         /\ \A j \in 1 .. n : F[j] = i =>
              /\ Cardinality(Before(F, i, j - 1)) + 1 \in 1 .. Len(GroupOf(F, n, i))
              /\ GroupOf(F, n, i)[Cardinality(Before(F, i, j - 1)) + 1] = j
<1> DEFINE ss == [j \in 1 .. n |-> IF F[j] = i THEN <<j>> ELSE <<>>]
<1>1. ss \in Seq(Seq(Nat)) /\ Len(ss) = n
  OBVIOUS
<1>2. \A j \in 1 .. n : /\ ss[j] = IF F[j] = i THEN <<j>> ELSE <<>>
                      /\ Len(ss[j]) \in {0, 1} /\ (Len(ss[j]) = 1 <=> F[j] = i)
  OBVIOUS
<1>3. GroupOf(F, n, i) = FlattenSeq(ss)
  BY DEF GroupOf
<1> HIDE DEF ss
<1>4. PICK f : Joins(f, ss, Nat) /\ FlattenSeq(ss) = f[n]
  BY <1>1, Flattened
<1>5. ss \in Seq(Seq(Nat)) /\ Joins(f, ss, Nat)
  BY <1>1, <1>4
<1>6. OneOrNone(ss)
  BY <1>1, <1>2 DEF OneOrNone
<1>7. InPlace(f, ss) /\ CountsThem(f, ss)
  BY <1>5, <1>6, JoinedInPlace, JoinedCount
<1>8. ASSUME NEW k \in 0 .. n PROVE Len(f[k]) = Cardinality(Before(F, i, k))
  <2>1. {j \in 1 .. k : Len(ss[j]) = 1} = Before(F, i, k)
    <3>1. \A j \in 1 .. k : j \in 1 .. n
      OBVIOUS
    <3>2. \A j \in 1 .. k : Len(ss[j]) = 1 <=> F[j] = i
      BY <1>2, <3>1
    <3> QED
      BY <3>2 DEF Before
  <2>3. Len(f[k]) = Cardinality({j \in 1 .. k : Len(ss[j]) = 1})
    <3>1. k \in 0 .. Len(ss)
      BY <1>1
    <3> QED
      BY <1>7, <3>1 DEF CountsThem
  <2> QED
    BY <2>1, <2>3
<1>9. f[n] \in Seq(Nat)
  BY <1>1, <1>4 DEF Joins
<1>10. ASSUME NEW j \in 1 .. n, F[j] = i
      PROVE  LET p == Cardinality(Before(F, i, j - 1)) + 1 IN p \in 1 .. Len(f[n]) /\ f[n][p] = j
  <2>1. j \in 1 .. Len(ss) /\ 1 \in 1 .. Len(ss[j]) /\ ss[j][1] = j
    BY <1>1, <1>2, <1>10
  <2>2. /\ Len(f[j - 1]) + 1 \in 1 .. Len(f[Len(ss)])
        /\ f[Len(ss)][Len(f[j - 1]) + 1] = ss[j][1]
    <3>1. j \in 1 .. Len(ss) /\ 1 \in 1 .. Len(ss[j])
      BY <2>1
    <3> QED
      BY <1>7, <3>1 DEF InPlace
  <2>3. j - 1 \in 0 .. n
    OBVIOUS
  <2>4. Len(f[j - 1]) = Cardinality(Before(F, i, j - 1))
    BY <1>8, <2>3
  <2> QED
    BY <1>1, <2>1, <2>2, <2>4
<1>11. Len(f[n]) = Cardinality(Before(F, i, n))
  <2>1. n \in 0 .. n
    OBVIOUS
  <2> QED
    BY <1>8, <2>1
<1> QED
  BY <1>3, <1>4, <1>9, <1>10, <1>11

\* What stands above the k-th group: the headers and the files of those before it.
Heads(F, n, k) == {F[j] : j \in {l \in 1 .. n : F[l] <= k}}
Above(F, n, k) == {j \in 1 .. n : F[j] <= k}

LEMMA HeadsAndFiles ==
  ASSUME NEW n \in Nat, NEW F \in [1 .. n -> 1 .. n], NEW k \in 1 .. n
  PROVE  /\ IsFiniteSet(Heads(F, n, k)) /\ IsFiniteSet(Above(F, n, k)) /\ IsFiniteSet(Before(F, k, n))
         /\ IsFiniteSet(Heads(F, n, k - 1)) /\ IsFiniteSet(Above(F, n, k - 1))
         /\ Cardinality(Above(F, n, k)) = Cardinality(Above(F, n, k - 1)) + Cardinality(Before(F, k, n))
         /\ Cardinality(Heads(F, n, k)) =
              Cardinality(Heads(F, n, k - 1)) + IF Before(F, k, n) = {} THEN 0 ELSE 1
<1>1. IsFiniteSet(1 .. n)
  BY FS_Interval
<1> DEFINE m == k - 1
<1>2. m \in Nat /\ k = m + 1
  OBVIOUS
<1>3. \A x \in 1 .. n : x <= k <=> x <= m \/ x = k
  BY <1>2
<1>4. \A x \in 1 .. n : x = k => ~(x <= m)
  BY <1>2
<1>5. \A j \in 1 .. n : F[j] \in 1 .. n
  OBVIOUS
<1> HIDE DEF m
<1>6. IsFiniteSet(Above(F, n, k)) /\ IsFiniteSet(Above(F, n, m)) /\ IsFiniteSet(Before(F, k, n))
  BY <1>1, FS_Subset DEF Above, Before
<1>7. Heads(F, n, k) \subseteq 1 .. n /\ Heads(F, n, m) \subseteq 1 .. n
  BY <1>5 DEF Heads
<1>8. IsFiniteSet(Heads(F, n, k)) /\ IsFiniteSet(Heads(F, n, m))
  BY <1>1, <1>7, FS_Subset
<1>9. Cardinality(Above(F, n, k)) = Cardinality(Above(F, n, m)) + Cardinality(Before(F, k, n))
  <2>1. Above(F, n, k) = Above(F, n, m) \cup Before(F, k, n)
    BY <1>3, <1>5 DEF Above, Before
  <2>2. Above(F, n, m) \cap Before(F, k, n) = {}
    BY <1>4, <1>5 DEF Above, Before
  <2>3. Cardinality(Above(F, n, m) \cup Before(F, k, n)) =
          Cardinality(Above(F, n, m)) + Cardinality(Before(F, k, n))
          - Cardinality(Above(F, n, m) \cap Before(F, k, n))
    BY <1>6, FS_Union
  <2>4. PICK a \in Nat, b \in Nat : a = Cardinality(Above(F, n, m)) /\ b = Cardinality(Before(F, k, n))
    BY <1>6, FS_CardinalityType
  <2>5. Cardinality(Above(F, n, m) \cap Before(F, k, n)) = 0
    BY <2>2, FS_EmptySet
  <2>6. Cardinality(Above(F, n, k)) = a + b - 0
    BY <2>1, <2>3, <2>4, <2>5
  <2> QED
    BY <2>4, <2>6
<1>10. Cardinality(Heads(F, n, k)) = Cardinality(Heads(F, n, m)) + IF Before(F, k, n) = {} THEN 0 ELSE 1
  <2>1. k \notin Heads(F, n, m)
    BY <1>4, <1>5 DEF Heads
  <2>2. CASE Before(F, k, n) = {}
    <3>1. Heads(F, n, k) = Heads(F, n, m)
      BY <1>3, <1>5, <2>2 DEF Heads, Before
    <3>2. Cardinality(Heads(F, n, m)) \in Nat
      BY <1>8, FS_CardinalityType
    <3> QED
      BY <2>2, <3>1, <3>2
  <2>3. CASE Before(F, k, n) # {}
    <3>1. PICK j \in 1 .. n : F[j] = k
      BY <2>3 DEF Before
    <3>2. Heads(F, n, k) = Heads(F, n, m) \cup {k}
      BY <1>3, <1>5, <3>1 DEF Heads
    <3>3. Cardinality(Heads(F, n, m) \cup {k}) = Cardinality(Heads(F, n, m)) + 1
      BY <1>8, <2>1, FS_AddElement
    <3> QED
      BY <2>3, <3>2, <3>3
  <2> QED
    BY <2>2, <2>3
<1> QED
  BY <1>6, <1>8, <1>9, <1>10 DEF m

\* Each file is at its place in the groups.
AtItsPlace(F, n, i) ==
  /\ PlaceOf(F, n, i) \in Nat /\ PlaceOf(F, n, i) + 1 \in 1 .. Len(AllGroups(F, n))
  /\ AllGroups(F, n)[PlaceOf(F, n, i) + 1] = i

LEMMA GroupsInPlace ==
  ASSUME NEW n \in Nat, NEW F \in [1 .. n -> 1 .. n]
  PROVE  AllGroups(F, n) \in Seq(Nat) /\ \A i \in 1 .. n : AtItsPlace(F, n, i)
<1> DEFINE tt == [i \in 1 .. n |-> IF GroupOf(F, n, i) = <<>> THEN <<>> ELSE <<0>> \o GroupOf(F, n, i)]
           Size(i) == Cardinality(Before(F, i, n)) + IF Before(F, i, n) = {} THEN 0 ELSE 1
           High(k) == Cardinality(Heads(F, n, k)) + Cardinality(Above(F, n, k))
<1>1. ASSUME NEW i \in 1 .. n
      PROVE  /\ tt[i] \in Seq(Nat) /\ Len(tt[i]) = Size(i)
             /\ \A p \in 1 .. Len(GroupOf(F, n, i)) : p + 1 \in 1 .. Len(tt[i]) /\ tt[i][p + 1] = GroupOf(F, n, i)[p]
  <2>1. PICK m : m = GroupOf(F, n, i) /\ m \in Seq(Nat) /\ Len(m) = Cardinality(Before(F, i, n))
    BY GroupIs
  <2>2. IsFiniteSet(Before(F, i, n))
    BY HeadsAndFiles
  <2>3. m = <<>> <=> Before(F, i, n) = {}
    <3>1. Cardinality(Before(F, i, n)) = 0 <=> Before(F, i, n) = {}
      BY <2>2, FS_EmptySet
    <3>2. m = <<>> <=> Len(m) = 0
      BY <2>1
    <3> QED
      BY <2>1, <3>1, <3>2
  <2>4. tt[i] = IF m = <<>> THEN <<>> ELSE <<0>> \o m
    BY <2>1
  <2> HIDE DEF tt
  <2>5. CASE m = <<>>
    <3>1. Len(m) = 0 /\ tt[i] = <<>>
      BY <2>4, <2>5
    <3>2. Size(i) = 0
      BY <2>1, <2>3, <2>5, <3>1
    <3>3. Len(tt[i]) = 0 /\ tt[i] \in Seq(Nat) /\ 1 .. Len(m) = {}
      BY <3>1
    <3> QED
      BY <2>1, <3>2, <3>3
  <2>6. CASE m # <<>>
    <3>1. tt[i] = <<0>> \o m
      BY <2>4, <2>6
    <3>2. Size(i) = Len(m) + 1
      BY <2>1, <2>3, <2>6
    <3>3. /\ tt[i] \in Seq(Nat) /\ Len(tt[i]) = Len(m) + 1
          /\ \A p \in 1 .. Len(m) : p + 1 \in 1 .. Len(tt[i]) /\ tt[i][p + 1] = m[p]
      BY <2>1, <3>1
    <3> QED
      BY <2>1, <3>2, <3>3
  <2> QED
    BY <2>5, <2>6
<1>2. tt \in Seq(Seq(Nat)) /\ Len(tt) = n
  <2>1. tt \in [1 .. n -> Seq(Nat)]
    BY <1>1
  <2> QED
    BY <2>1
<1>3. AllGroups(F, n) = FlattenSeq(tt)
  BY DEF AllGroups
<1> HIDE DEF tt
<1>4. PICK g : Joins(g, tt, Nat) /\ FlattenSeq(tt) = g[Len(tt)]
  BY <1>2, Flattened
<1>5. AllGroups(F, n) = g[n] /\ \A k \in 0 .. n : g[k] \in Seq(Nat)
  BY <1>2, <1>3, <1>4 DEF Joins
<1>6. InPlace(g, tt)
  BY <1>2, <1>4, JoinedInPlace
<1> DEFINE T == {k \in Nat : k <= n => Len(g[k]) = High(k)}
<1>7. 0 \in T
  <2>1. Heads(F, n, 0) = {} /\ Above(F, n, 0) = {}
    <3>1. \A j \in 1 .. n : ~(F[j] <= 0)
      <4>1. \A j \in 1 .. n : F[j] \in 1 .. n
        OBVIOUS
      <4> QED
        BY <4>1
    <3> QED
      BY <3>1 DEF Heads, Above
  <2>2. g[0] = <<>>
    BY <1>4 DEF Joins
  <2>3. Cardinality(Heads(F, n, 0)) = 0 /\ Cardinality(Above(F, n, 0)) = 0 /\ Len(g[0]) = 0
    BY <2>1, <2>2, FS_EmptySet
  <2> QED
    BY <2>3
<1>8. ASSUME NEW m \in Nat, m \in T PROVE m + 1 \in T
  <2> DEFINE k == m + 1
  <2> SUFFICES ASSUME k <= n PROVE Len(g[k]) = High(k)
    OBVIOUS
  <2>1. k \in 1 .. n /\ m = k - 1 /\ k - 1 \in 0 .. n /\ m <= n
    OBVIOUS
  <2>2. Len(g[m]) = High(m)
    BY <1>8, <2>1
  <2> HIDE DEF k
  <2>3. Len(g[k]) = Len(g[k - 1]) + Len(tt[k])
    <3>1. PICK a \in Seq(Nat), b \in Seq(Nat) : a = g[k - 1] /\ b = tt[k]
      BY <1>1, <1>5, <2>1
    <3>2. g[k] = a \o b
      BY <1>2, <1>4, <2>1, <3>1 DEF Joins
    <3>3. Len(a \o b) = Len(a) + Len(b)
      OBVIOUS
    <3> QED
      BY <3>1, <3>2, <3>3
  <2>4. Len(tt[k]) = Size(k)
    BY <1>1, <2>1
  <2>5. PICK a \in Nat, b \in Nat, c \in Nat :
          a = Cardinality(Heads(F, n, k - 1)) /\ b = Cardinality(Above(F, n, k - 1)) /\ c = Cardinality(Before(F, k, n))
    BY <2>1, HeadsAndFiles, FS_CardinalityType
  <2>6. /\ Cardinality(Above(F, n, k)) = b + c
        /\ Cardinality(Heads(F, n, k)) = a + IF Before(F, k, n) = {} THEN 0 ELSE 1
    BY <2>1, <2>5, HeadsAndFiles
  <2>7. High(m) = a + b
    BY <2>1, <2>5
  <2>8. PICK e \in {0, 1} : e = IF Before(F, k, n) = {} THEN 0 ELSE 1
    OBVIOUS
  <2>9. Size(k) = c + e /\ High(k) = (a + e) + (b + c)
    BY <2>5, <2>6, <2>8
  <2> HIDE DEF Size, High
  <2>10. Len(g[k]) = (a + b) + (c + e)
    BY <2>1, <2>2, <2>3, <2>4, <2>7, <2>9
  <2> QED
    BY <2>9, <2>10
<1> HIDE DEF T
<1>9. \A k \in 0 .. n : Len(g[k]) = High(k)
  <2>1. \A k \in Nat : k \in T
    BY <1>7, <1>8, Induction
  <2> QED
    BY <2>1 DEF T
<1>10. ASSUME NEW i \in 1 .. n PROVE AtItsPlace(F, n, i)
  <2> DEFINE l == F[i]
             c == Cardinality(Before(F, l, i - 1))
  <2>1. l \in 1 .. n /\ l - 1 \in 0 .. n
    <3>1. l \in 1 .. n
      OBVIOUS
    <3> QED
      BY <3>1
  <2>2. c + 1 \in 1 .. Len(GroupOf(F, n, l)) /\ GroupOf(F, n, l)[c + 1] = i
    BY <2>1, GroupIs
  <2>3. IsFiniteSet(Before(F, l, i - 1))
    <3>1. IsFiniteSet(1 .. i - 1)
      BY FS_Interval
    <3> QED
      BY <3>1, FS_Subset DEF Before
  <2>4. c \in Nat
    BY <2>3, FS_CardinalityType
  <2>5. (c + 1) + 1 \in 1 .. Len(tt[l]) /\ tt[l][(c + 1) + 1] = i
    BY <1>1, <2>1, <2>2
  <2>6. PICK a \in Nat, b \in Nat : a = Cardinality(Heads(F, n, l - 1)) /\ b = Cardinality(Above(F, n, l - 1))
    BY <2>1, HeadsAndFiles, FS_CardinalityType
  <2>7. Cardinality(Heads(F, n, l)) = a + 1
    <3>1. Before(F, l, n) # {}
      BY DEF Before
    <3> QED
      BY <2>1, <2>6, <3>1, HeadsAndFiles
  <2> DEFINE A == Above(F, n, l - 1)
             B == Before(F, l, i - 1)
  <2>8. Cardinality({j \in 1 .. n : F[j] < l \/ (F[j] = l /\ j < i)}) = b + c
    <3>1. {j \in 1 .. n : F[j] < l \/ (F[j] = l /\ j < i)} = A \cup B
      <4>1. \A j \in 1 .. n : F[j] \in 1 .. n
        OBVIOUS
      <4> HIDE DEF l
      <4>2. \A x \in 1 .. n : x < l <=> x <= l - 1
        BY <2>1
      <4>3. \A j \in 1 .. n : j \in 1 .. i - 1 <=> j < i
        OBVIOUS
      <4>4. \A j \in 1 .. i - 1 : j \in 1 .. n
        OBVIOUS
      <4> QED
        BY <4>1, <4>2, <4>3, <4>4 DEF Above, Before
    <3>2. A \cap B = {}
      <4>1. ~(l <= l - 1)
        BY <2>1
      <4> HIDE DEF l
      <4> QED
        BY <4>1 DEF Above, Before
    <3>3. IsFiniteSet(A) /\ IsFiniteSet(B)
      BY <2>1, <2>3, HeadsAndFiles
    <3> HIDE DEF A, B
    <3>4. Cardinality(A \cup B) = Cardinality(A) + Cardinality(B) - Cardinality(A \cap B)
      BY <3>3, FS_Union
    <3>5. Cardinality(A \cap B) = 0
      BY <3>2, FS_EmptySet
    <3>6. Cardinality(A) = b /\ Cardinality(B) = c
      BY <2>6 DEF A, B
    <3>7. Cardinality(A \cup B) = b + c - 0
      BY <3>4, <3>5, <3>6
    <3> HIDE DEF c, l
    <3>8. Cardinality(A \cup B) = b + c
      BY <2>4, <3>7
    <3> QED
      BY <3>1, <3>8
  <2>9. PlaceOf(F, n, i) = (a + 1) + (b + c)
    BY <2>7, <2>8 DEF PlaceOf, Heads
  <2>10. Len(g[l - 1]) = a + b
    BY <1>9, <2>1, <2>6
  <2>11. /\ Len(g[l - 1]) + ((c + 1) + 1) \in 1 .. Len(g[n])
         /\ g[n][Len(g[l - 1]) + ((c + 1) + 1)] = i
    <3>1. l \in 1 .. Len(tt)
      BY <1>2, <2>1
    <3> HIDE DEF l, c
    <3>2. /\ Len(g[l - 1]) + ((c + 1) + 1) \in 1 .. Len(g[Len(tt)])
          /\ g[Len(tt)][Len(g[l - 1]) + ((c + 1) + 1)] = tt[l][(c + 1) + 1]
      BY <1>6, <2>5, <3>1 DEF InPlace
    <3> QED
      BY <1>2, <2>5, <3>2
  <2> HIDE DEF l, c
  <2>12. PlaceOf(F, n, i) \in Nat /\ PlaceOf(F, n, i) + 1 = Len(g[l - 1]) + ((c + 1) + 1)
    BY <2>4, <2>9, <2>10
  <2> QED
    BY <1>5, <2>11, <2>12 DEF AtItsPlace
<1> QED
  <2>1. g[n] \in Seq(Nat)
    BY <1>5
  <2> QED
    BY <1>5, <1>10, <2>1

\* The tree has each file at its row.
LEMMA TreeIs ==
  ASSUME dirs \in Seq(Directories)
  PROVE  /\ Tree \in Seq(Nat)
         /\ \A i \in Files : RowOf(i) \in Nat /\ RowOf(i) + 1 \in 1 .. Len(Tree) /\ Tree[RowOf(i) + 1] = i
<1> DEFINE n == Len(dirs)
           F == [i \in 1 .. n |-> First(i)]
<1>1. n \in Nat /\ Files = 1 .. n
  BY DEF Files
<1>2. ASSUME NEW i \in Files PROVE First(i) \in Files
  <2> DEFINE S == {j \in Files : dirs[j] = dirs[i]}
  <2>1. S \in SUBSET Nat /\ S # {}
    BY <1>1
  <2>2. \E x \in S : \A y \in S : x <= y
    <3> HIDE DEF S
    <3> QED
      BY <2>1, LeastOfSet
  <2>3. First(i) \in S
    BY <2>2 DEF First, Min
  <2> QED
    BY <2>3
<1>3. F \in [1 .. n -> 1 .. n] /\ \A i \in 1 .. n : F[i] = First(i)
  BY <1>1, <1>2
<1> HIDE DEF n, F
<1>4. \A i \in 1 .. n : grouped[i] = GroupOf(F, n, i)
  <2> SUFFICES ASSUME NEW i \in 1 .. n PROVE grouped[i] = GroupOf(F, n, i)
    OBVIOUS
  <2>1. [j \in Files |-> IF First(j) = i THEN <<j>> ELSE <<>>]
        = [j \in 1 .. n |-> IF F[j] = i THEN <<j>> ELSE <<>>]
    BY <1>1, <1>3
  <2>2. grouped[i] = FlattenSeq([j \in Files |-> IF First(j) = i THEN <<j>> ELSE <<>>])
    BY <1>1 DEF grouped
  <2> QED
    BY <2>1, <2>2 DEF GroupOf
<1>5. Tree = AllGroups(F, n)
  <2>1. [i \in Files |-> IF grouped[i] = <<>> THEN <<>> ELSE <<0>> \o grouped[i]]
        = [i \in 1 .. n |-> IF GroupOf(F, n, i) = <<>> THEN <<>> ELSE <<0>> \o GroupOf(F, n, i)]
    BY <1>1, <1>4
  <2> QED
    BY <2>1 DEF Tree, AllGroups
<1>6. \A i \in 1 .. n : RowOf(i) = PlaceOf(F, n, i)
  <2> SUFFICES ASSUME NEW i \in 1 .. n PROVE RowOf(i) = PlaceOf(F, n, i)
    OBVIOUS
  <2>1. {First(j) : j \in {k \in Files : First(k) <= First(i)}} = {F[j] : j \in {k \in 1 .. n : F[k] <= F[i]}}
    BY <1>1, <1>3
  <2>2. {j \in Files : First(j) < First(i) \/ (First(j) = First(i) /\ j < i)}
        = {j \in 1 .. n : F[j] < F[i] \/ (F[j] = F[i] /\ j < i)}
    BY <1>1, <1>3
  <2> QED
    BY <2>1, <2>2 DEF RowOf, PlaceOf
<1>7. AllGroups(F, n) \in Seq(Nat) /\ \A i \in 1 .. n : AtItsPlace(F, n, i)
  BY <1>1, <1>3, GroupsInPlace
<1> QED
  BY <1>1, <1>5, <1>6, <1>7 DEF AtItsPlace

LEMMA LeastOfTwo == ASSUME NEW a \in Int, NEW b \in Int PROVE Min({a, b}) = IF a <= b THEN a ELSE b
<1> DEFINE m == IF a <= b THEN a ELSE b
<1>1. m \in {a, b} /\ \A y \in {a, b} : m <= y
  OBVIOUS
<1>2. \A x \in {a, b} : (\A y \in {a, b} : x <= y) => x = m
  OBVIOUS
<1> QED
  BY <1>1, <1>2 DEF Min

\* A row of the tree that is between the ends of a window is in it.
LEMMA InWindow ==
  ASSUME Tree \in Seq(Nat), NEW from \in Nat, NEW height \in Nat,
         NEW at_row \in Nat, at_row + 1 \in 1 .. Len(Tree), from <= at_row, at_row < from + height
  PROVE  /\ at_row - from + 1 \in DOMAIN tree_window(from, height)
         /\ tree_window(from, height)[at_row - from + 1] = Tree[at_row + 1]
<1>1. PICK N \in Nat : N = Len(Tree)
  OBVIOUS
<1>2. PICK to \in Nat : to = Min({from + height, Len(Tree)}) /\ to <= N /\ at_row + 1 <= to
  BY <1>1, LeastOfTwo
<1>3. tree_window(from, height) = SubSeq(Tree, from + 1, to)
  BY <1>2 DEF tree_window
<1> DEFINE w == SubSeq(Tree, from + 1, to)
<1>4. w \in Seq(Nat) /\ Len(w) = to - from /\ \A k \in 1 .. to - from : w[k] = Tree[k + from]
  <2>1. from + 1 \in Int /\ to \in Int /\ \A k \in from + 1 .. to : Tree[k] \in Nat
    <3>1. \A k \in 1 .. Len(Tree) : Tree[k] \in Nat
      OBVIOUS
    <3>2. \A k \in from + 1 .. to : k \in 1 .. Len(Tree)
      BY <1>1, <1>2
    <3> QED
      BY <3>1, <3>2
  <2>2. /\ w \in Seq(Nat) /\ Len(w) = IF from + 1 <= to THEN to - (from + 1) + 1 ELSE 0
        /\ \A k \in 1 .. to - (from + 1) + 1 : w[k] = Tree[(from + 1) + k - 1]
    <3> HIDE DEF w
    <3> QED
      BY <2>1, SubSeqProperties DEF w
  <2>3. from + 1 <= to /\ to - (from + 1) + 1 = to - from
    BY <1>2
  <2>4. \A k \in 1 .. to - from : (from + 1) + k - 1 = k + from
    OBVIOUS
  <2> HIDE DEF w
  <2> QED
    BY <2>2, <2>3, <2>4
<1>5. at_row - from + 1 \in 1 .. to - from /\ (at_row - from + 1) + from = at_row + 1
  BY <1>2
<1>6. DOMAIN w = 1 .. to - from
  BY <1>4
<1> HIDE DEF w
<1>7. at_row - from + 1 \in DOMAIN w /\ w[at_row - from + 1] = Tree[at_row + 1]
  BY <1>4, <1>5, <1>6
<1> QED
  BY <1>3, <1>7 DEF w

LEMMA KeptVisible ==
  ASSUME NEW at_row \in Nat, NEW height \in Nat
  PROVE  /\ keep_visible(at_row, height) \in Nat
         /\ height > 0 => keep_visible(at_row, height) <= at_row /\ at_row < keep_visible(at_row, height) + height
  BY DEF keep_visible

\* Nothing of the menu selects a file.
LEMMA MenuSelectsNothing ==
  ASSUME NEW a \in App, NEW e, e.name \in MenuEvents \cup {"None"}
  PROVE  handle(a, e).selected = a.selected
<1>1. handle_review(a, e).selected = a.selected
  BY DEF handle_review, MenuEvents, App
<1>2. handle_help(a, e).selected = a.selected
  BY DEF handle_help, App
<1>3. handle_palette(a, e).selected = a.selected
  BY DEF handle_palette, MenuEvents, App
<1>4. handle_panel(a, e).selected = a.selected
  BY DEF handle_panel, MenuEvents, App
<1>5. a.overlay \in {"none", "help", "palette", "panel"} /\ e.name # "Quit"
  BY DEF App, MenuEvents
<1> QED
  BY <1>1, <1>2, <1>3, <1>4, <1>5 DEF handle

\* A click on a row selects the file there, if any.
LEMMA RowSelects ==
  ASSUME NEW a \in App, NEW e, e.name = "SelectTreeRow", handle(a, e).selected # a.selected
  PROVE  handle(a, e).selected = file_index_at_row(e.row) /\ file_index_at_row(e.row) # 0
<1>1. handle_help(a, e) = a /\ handle_palette(a, e) = a /\ handle_panel(a, e) = a
  BY DEF handle_help, handle_palette, handle_panel
<1>2. handle(a, e) = select_tree_row(a, e.row)
  <2>1. handle_review(a, e) = select_tree_row(a, e.row)
    BY DEF handle_review
  <2>2. a.overlay \in {"none", "help", "palette", "panel"}
    BY DEF App
  <2> QED
    BY <1>1, <2>1, <2>2 DEF handle
<1> QED
  BY <1>2 DEF select_tree_row, select, App

\* The last frame is the window of the tree that its hit map says, and what was clicked was there.
SeenInv ==
  /\ frame.hits.rows \in Nat /\ frame.hits.scroll \in Nat
  /\ frame.rows = tree_window(frame.hits.scroll, frame.hits.rows)
  /\ ClickIsAsSeen

LEMMA SeenAtFirst == ASSUME CockpitInit, dirs \in Seq(Directories) PROVE SeenInv
<1>1. tree_window(0, 0) = <<>>
  <2>1. PICK N \in Nat : N = Len(Tree)
    BY TreeIs
  <2>2. Min({0 + 0, N}) = 0
    BY LeastOfTwo
  <2>3. tree_window(0, 0) = SubSeq(Tree, 0 + 1, 0)
    BY <2>1, <2>2 DEF tree_window
  <2>4. SubSeq(Tree, 1, 0) = <<>>
    BY TreeIs
  <2> QED
    BY <2>3, <2>4
<1> QED
  BY <1>1 DEF CockpitInit, SeenInv, ClickIsAsSeen, NoClick

LEMMA DrawShows == ASSUME PointsInv, SeenInv, Draw PROVE SeenInv'
<1>1. PICK height \in TermHeights : frame' = [rows |-> render_tree(height), hits |-> HitMap(height), of |-> app.selected]
  BY DEF Draw
<1>2. dirs' = dirs /\ app' = app /\ clicked' = NoClick
  BY DEF Draw
<1> DEFINE h == InnerHeight(height)
           s == tree_scroll(h)
<1>3. h \in Nat
  <2>1. height \in Nat
    BY HeightsAreNumbers
  <2> QED
    BY <2>1, MaxOfTwo DEF InnerHeight
<1>4. dirs \in Seq(Directories) /\ (app.selected \in Files \/ dirs = <<>>)
  BY DEF PointsInv, Points, Means
<1>5. selected_row \in Nat
  BY <1>4, TreeIs DEF selected_row
<1>6. frame'.rows = tree_window(s, h) /\ frame'.hits.rows = h /\ frame'.hits.scroll = s /\ frame'.of = app.selected
  BY <1>1 DEF render_tree, HitMap
<1> HIDE DEF h
<1>7. s \in Nat
  BY <1>3, <1>5, KeptVisible DEF tree_scroll
<1>8. ASSUME h > 0, dirs # <<>> PROVE app.selected \in Range(tree_window(s, h))
  <2>1. app.selected \in Files /\ selected_row = RowOf(app.selected)
    BY <1>4, <1>8 DEF selected_row
  <2> DEFINE at_row == RowOf(app.selected)
  <2>2. at_row \in Nat /\ at_row + 1 \in 1 .. Len(Tree) /\ Tree[at_row + 1] = app.selected /\ Tree \in Seq(Nat)
    BY <1>4, <2>1, TreeIs
  <2>3. s <= at_row /\ at_row < s + h
    BY <1>3, <1>5, <1>8, <2>1, KeptVisible DEF tree_scroll
  <2> HIDE DEF at_row, s
  <2>4. at_row - s + 1 \in DOMAIN tree_window(s, h) /\ tree_window(s, h)[at_row - s + 1] = app.selected
    BY <1>3, <1>7, <2>2, <2>3, InWindow
  <2> QED
    BY <2>4 DEF Range
<1>9. \A f, k : tree_window(f, k)' = tree_window(f, k)
  BY <1>2 DEF tree_window, Tree, grouped, First, Files
<1> HIDE DEF s
<1> QED
  BY <1>2, <1>3, <1>6, <1>7, <1>8, <1>9 DEF SeenInv, ClickIsAsSeen, NoClick

LEMMA ClickSelectsWhatIsThere ==
  ASSUME PointsInv, SeenInv, Click
  PROVE  SeenInv'
<1>1. PICK pane \in {"tree", "diff"}, at_row \in UNION {0 .. h - 1 : h \in TermHeights} : \E e \in map_mouse(pane, at_row) :
        /\ dispatch(e)
        /\ clicked' = IF pane = "tree" THEN [on |-> TRUE, row |-> at_row, from |-> app.selected] ELSE NoClick
  BY DEF Click
<1>2. PICK e \in map_mouse(pane, at_row) :
        /\ dispatch(e)
        /\ clicked' = IF pane = "tree" THEN [on |-> TRUE, row |-> at_row, from |-> app.selected] ELSE NoClick
  BY <1>1
<1>3. app' = handle(app, e) /\ dirs' = dirs /\ frame' = frame
  BY <1>2 DEF dispatch
<1>4. dirs \in Seq(Directories) /\ app \in App
  BY DEF PointsInv, Points
<1>5. at_row \in Nat
  BY HeightsAreNumbers
<1>6. ASSUME pane = "tree", handle(app, e).selected # app.selected
      PROVE  at_row - 1 \in DOMAIN frame.rows /\ frame.rows[at_row - 1] = handle(app, e).selected
  <2>1. e.name \notin MenuEvents \cup {"None"}
    BY <1>4, <1>6, MenuSelectsNothing
  <2>2. \A x \in {NoEvent} \cup {Event(x) : x \in MenuEvents} : x.name \in MenuEvents \cup {"None"}
    BY DEF NoEvent, Event
  <2>3. e \notin {NoEvent} \cup {Event(x) : x \in MenuEvents} /\ e \notin {NoEvent}
    BY <2>1, <2>2
  <2>4. /\ at_row # 0 /\ ~(at_row < 2 \/ at_row - 2 >= frame.hits.rows)
        /\ e = [name |-> "SelectTreeRow", row |-> frame.hits.scroll + at_row - 2]
    BY <1>2, <1>6, <2>3 DEF map_mouse
  <2> DEFINE y == frame.hits.scroll + at_row - 2
             i == file_index_at_row(y)
  <2>5. e.name = "SelectTreeRow" /\ e.row = y
    BY <2>4
  <2>6. handle(app, e).selected = i /\ i # 0
    BY <1>4, <1>6, <2>5, RowSelects
  <2> HIDE DEF y
  <2>7. i \in Files /\ RowOf(i) = y
    BY <2>6 DEF file_index_at_row
  <2>8. y + 1 \in 1 .. Len(Tree) /\ Tree[y + 1] = i /\ y \in Nat /\ Tree \in Seq(Nat)
    BY <1>4, <2>7, TreeIs
  <2>9. PICK from \in Nat, height \in Nat : from = frame.hits.scroll /\ height = frame.hits.rows
    BY DEF SeenInv
  <2>10. from <= y /\ y < from + height /\ y - from + 1 = at_row - 1
    BY <1>5, <2>4, <2>9 DEF y
  <2>11. /\ y - from + 1 \in DOMAIN tree_window(from, height)
         /\ tree_window(from, height)[y - from + 1] = Tree[y + 1]
    BY <2>8, <2>10, InWindow
  <2>12. frame.rows = tree_window(from, height)
    BY <2>9 DEF SeenInv
  <2> HIDE DEF i
  <2> QED
    BY <2>6, <2>8, <2>10, <2>11, <2>12
<1>7. \A f, k : tree_window(f, k)' = tree_window(f, k)
  BY <1>3 DEF tree_window, Tree, grouped, First, Files
<1>8. ClickIsAsSeen'
  <2>1. frame'.hits.rows > 0 /\ dirs' # <<>> => frame'.of \in Range(frame'.rows)
    BY <1>3 DEF SeenInv, ClickIsAsSeen
  <2>2. clicked'.on /\ app'.selected # clicked'.from =>
          clicked'.row - 1 \in DOMAIN frame'.rows /\ frame'.rows[clicked'.row - 1] = app'.selected
    <3>1. CASE pane = "tree"
      BY <1>2, <1>3, <1>6, <3>1
    <3>2. CASE pane # "tree"
      BY <1>2, <3>2 DEF NoClick
    <3> QED
      BY <3>1, <3>2
  <2> QED
    BY <2>1, <2>2 DEF ClickIsAsSeen
<1> QED
  BY <1>3, <1>7, <1>8 DEF SeenInv

LEMMA SeenStep == ASSUME PointsInv, SeenInv, [CockpitNext]_cockpitVars PROVE SeenInv'
<1>1. CASE Draw
  BY <1>1, DrawShows
<1>2. CASE Click
  BY <1>2, ClickSelectsWhatIsThere
<1>3. ASSUME dirs' = dirs, frame' = frame,
             (app' = app /\ clicked' = clicked) \/ clicked' = NoClick
      PROVE  SeenInv'
  <2>1. \A f, k : tree_window(f, k)' = tree_window(f, k)
    BY <1>3 DEF tree_window, Tree, grouped, First, Files
  <2>2. ClickIsAsSeen'
    BY <1>3 DEF SeenInv, ClickIsAsSeen, NoClick
  <2> QED
    BY <1>3, <2>1, <2>2 DEF SeenInv
<1>4. CASE RawOn \/ EnterScreen \/ LoopEnds \/ LoopFails \/ Panics \/ PollEvents \/ Redraws \/ Finish \/ DropGuard
  BY <1>3, <1>4 DEF RawOn, EnterScreen, LoopEnds, LoopFails, Panics, PollEvents, Redraws, Finish, DropGuard
<1>5. CASE Key
  BY <1>3, <1>5 DEF Key, dispatch
<1>6. CASE UNCHANGED cockpitVars
  BY <1>3, <1>6 DEF cockpitVars
<1> QED
  BY <1>1, <1>2, <1>4, <1>5, <1>6 DEF CockpitNext

\* A frame shows the file that is selected, and a click that moves the selection moves it to the
\* file that the last frame showed at that row, for every review, every terminal and every burst of
\* events (run.rs event_loop, ui.rs HitMap); and the terminal is given back.
THEOREM ClicksAlwaysMeanWhatWasSeen == CockpitSpec => []ClickMeansWhatWasSeen
<1>1. CockpitInit => TerminalInv /\ PointsInv /\ SeenInv
  BY CockpitStarts, SeenAtFirst DEF PointsInv
<1>2. TerminalInv /\ SeenInv => ClickMeansWhatWasSeen
  BY DEF TerminalInv, SeenInv, ClickMeansWhatWasSeen
<1> QED
  BY <1>1, <1>2, TerminalStep, PointsStep, SeenStep, PTL DEF CockpitSpec

-----------------------------------------------------------------------------
(* The words and the options of a command line *)

\* After each of the first k words that is the name comes a value.
AfterEach(ws, name, k) == [j \in 1 .. k |-> IF ws[j] = name THEN <<ws[j + 1]>> ELSE <<>>]

\* The words among the first k that are in X.
Among(X, ws, k) == {w \in X : \E j \in 1 .. k : ws[j] = w}

Wanted == Words \cup {""}
Taken == Wanted \X Words
AdmitStates ==
  [ok : BOOLEAN, want : Wanted, values : Seq(Taken), seen : SUBSET Words, flags : SUBSET Words,
   rest : Seq(Words)]

\* What admit has read of the first k words, unless it has refused one.
ReadTo(s, ws, k) ==
  s.ok =>
    /\ s.flags = Among(Flags, ws, k)
    /\ s.seen = Among(Valued, ws, k)
    /\ s.want = IF k # 0 /\ ws[k] \in Valued THEN ws[k] ELSE ""
    /\ \A name \in Valued : Given(s.values, name) = FlattenSeq(AfterEach(ws, name, k - 1))
    /\ \A i, j \in 1 .. k : ws[i] = ws[j] /\ ws[i] \in Valued \ REPEATABLE => i = j
    /\ \A j \in 1 .. k : ws[j] = "-h" => j > 1 /\ ws[j - 1] \in Valued

\* One more word is among them, or it is not in X.
LEMMA AmongMore ==
  ASSUME NEW X, NEW ws, NEW k \in Nat \ {0}
  PROVE  Among(X, ws, k) = Among(X, ws, k - 1) \cup (IF ws[k] \in X THEN {ws[k]} ELSE {})
<1>1. \A j : j \in 1 .. k <=> j = k \/ j \in 1 .. k - 1
  OBVIOUS
<1> QED
  BY <1>1 DEF Among

\* One more option and its value.
LEMMA GivenAppend ==
  ASSUME NEW values \in Seq(Taken), NEW p \in Taken, NEW name
  PROVE  Given(Append(values, p), name) = Given(values, name) \o (IF p[1] = name THEN <<p[2]>> ELSE <<>>)
<1> DEFINE Of(v) == [k \in DOMAIN v |-> IF v[k][1] = name THEN <<v[k][2]>> ELSE <<>>]
           x == IF p[1] = name THEN <<p[2]>> ELSE <<>>
           more == Append(values, p)
<1>1. x \in Seq(Words)
  <2>1. p[2] \in Words
    BY DEF Taken
  <2> QED
    BY <2>1
<1>2. ASSUME NEW v \in Seq(Taken) PROVE Of(v) \in Seq(Seq(Words)) /\ Len(Of(v)) = Len(v)
  <2>1. \A k \in 1 .. Len(v) : Of(v)[k] \in Seq(Words)
    <3> SUFFICES ASSUME NEW k \in 1 .. Len(v) PROVE Of(v)[k] \in Seq(Words)
      OBVIOUS
    <3>1. v[k] \in Taken
      OBVIOUS
    <3>2. v[k][2] \in Words
      BY <3>1 DEF Taken
    <3> QED
      BY <3>2
  <2>2. DOMAIN v = 1 .. Len(v) /\ Len(v) \in Nat
    OBVIOUS
  <2> QED
    BY <2>1, <2>2
<1>3. Of(more) = Append(Of(values), x)
  <2>1. more \in Seq(Taken) /\ Len(more) = Len(values) + 1 /\ DOMAIN more = 1 .. Len(values) + 1
    OBVIOUS
  <2>2. more[Len(values) + 1] = p /\ \A k \in 1 .. Len(values) : more[k] = values[k]
    OBVIOUS
  <2>3. Of(more) \in Seq(Seq(Words)) /\ Len(Of(more)) = Len(values) + 1
    BY <1>2, <2>1
  <2>4. Of(values) \in Seq(Seq(Words)) /\ Len(Of(values)) = Len(values)
    BY <1>2
  <2>5. Append(Of(values), x) \in Seq(Seq(Words)) /\ Len(Append(Of(values), x)) = Len(values) + 1
    BY <1>1, <2>4
  <2>6. \A k \in 1 .. Len(values) + 1 : Of(more)[k] = Append(Of(values), x)[k]
    <3> SUFFICES ASSUME NEW k \in 1 .. Len(values) + 1 PROVE Of(more)[k] = Append(Of(values), x)[k]
      OBVIOUS
    <3>1. CASE k = Len(values) + 1
      <4>1. Of(more)[k] = x
        BY <3>1, <2>1, <2>2
      <4>2. Append(Of(values), x)[k] = x
        BY <3>1, <2>4, <1>1
      <4> QED
        BY <4>1, <4>2
    <3>2. CASE k # Len(values) + 1
      <4>1. k \in 1 .. Len(values) /\ k \in DOMAIN values
        BY <3>2
      <4>2. Of(more)[k] = Of(values)[k]
        BY <4>1, <2>1, <2>2
      <4>3. Append(Of(values), x)[k] = Of(values)[k]
        <5> HIDE DEF Of
        <5> QED
          BY <4>1, <2>4, <1>1
      <4> QED
        BY <4>2, <4>3
    <3> QED
      BY <3>1, <3>2
  <2> DEFINE l == Of(more)
             r == Append(Of(values), x)
  <2>7. l \in Seq(Seq(Words)) /\ r \in Seq(Seq(Words)) /\ Len(l) = Len(r) /\ \A k \in 1 .. Len(l) : l[k] = r[k]
    BY <2>3, <2>5, <2>6
  <2> HIDE DEF l, r
  <2>8. l = r
    BY <2>7, SeqEqual
  <2> QED
    BY <2>8 DEF l, r
<1>4. Given(values, name) = FlattenSeq(Of(values)) /\ Given(more, name) = FlattenSeq(Of(more))
  BY DEF Given
<1>5. Of(values) \in Seq(Seq(Words))
  BY <1>2
<1> HIDE DEF Of, x
<1>6. FlattenSeq(Append(Of(values), x)) = FlattenSeq(Of(values)) \o x
  BY <1>1, <1>5, FlattenedAppend
<1> QED
  BY <1>3, <1>4, <1>6 DEF x

\* No word has a value after it before there is a second word.
LEMMA AfterNone ==
  ASSUME NEW ws, NEW name
  PROVE  FlattenSeq(AfterEach(ws, name, 0)) = <<>> /\ FlattenSeq(AfterEach(ws, name, -1)) = <<>>
<1>1. AfterEach(ws, name, 0) = <<>> /\ AfterEach(ws, name, -1) = <<>>
  BY DEF AfterEach
<1>2. FlattenSeq(<<>>) = <<>>
  BY DEF FlattenSeq
<1> QED
  BY <1>1, <1>2

\* The word that has a next one, and the words before it.
LEMMA AfterNext ==
  ASSUME NEW S, NEW ws \in Seq(S), NEW name, NEW k \in Nat, k < Len(ws)
  PROVE  /\ FlattenSeq(AfterEach(ws, name, k)) \in Seq(S)
         /\ k # 0 => FlattenSeq(AfterEach(ws, name, k))
                       = FlattenSeq(AfterEach(ws, name, k - 1)) \o (IF ws[k] = name THEN <<ws[k + 1]>> ELSE <<>>)
<1>1. ASSUME NEW m \in Nat, m <= k PROVE AfterEach(ws, name, m) \in Seq(Seq(S)) /\ Len(AfterEach(ws, name, m)) = m
  <2>1. \A j \in 1 .. m : AfterEach(ws, name, m)[j] \in Seq(S)
    <3> SUFFICES ASSUME NEW j \in 1 .. m PROVE AfterEach(ws, name, m)[j] \in Seq(S)
      OBVIOUS
    <3>1. ws[j + 1] \in S
      BY <1>1
    <3> QED
      BY <3>1 DEF AfterEach
  <2> DEFINE a == AfterEach(ws, name, m)
  <2>2. a = [j \in 1 .. m |-> a[j]] /\ \A j \in 1 .. m : a[j] \in Seq(S)
    BY <2>1 DEF AfterEach
  <2> HIDE DEF a
  <2>3. a \in Seq(Seq(S)) /\ Len(a) = m
    BY <1>1, <2>2
  <2> QED
    BY <2>3 DEF a
<1>4. FlattenSeq(AfterEach(ws, name, k)) \in Seq(S)
  BY <1>1, FlattenedType
<1>5. ASSUME k # 0
      PROVE  FlattenSeq(AfterEach(ws, name, k))
                       = FlattenSeq(AfterEach(ws, name, k - 1)) \o (IF ws[k] = name THEN <<ws[k + 1]>> ELSE <<>>)
  <2> DEFINE x == IF ws[k] = name THEN <<ws[k + 1]>> ELSE <<>>
             before == AfterEach(ws, name, k - 1)
             all == AfterEach(ws, name, k)
  <2>1. x \in Seq(S)
    <3>1. ws[k + 1] \in S
      OBVIOUS
    <3> QED
      BY <3>1
  <2>2. before \in Seq(Seq(S)) /\ Len(before) = k - 1 /\ all \in Seq(Seq(S)) /\ Len(all) = k
    BY <1>1, <1>5
  <2>3. \A j \in 1 .. k - 1 : all[j] = before[j]
    BY <1>5 DEF AfterEach
  <2>4. all[k] = x
    BY <1>5 DEF AfterEach
  <2> HIDE DEF x, before, all
  <2>5. all = Append(before, x)
    <3>1. Append(before, x) \in Seq(Seq(S)) /\ Len(Append(before, x)) = k
      BY <2>1, <2>2
    <3>2. \A j \in 1 .. k : all[j] = Append(before, x)[j]
      BY <2>1, <2>2, <2>3, <2>4
    <3> QED
      BY <2>2, <3>1, <3>2
  <2>6. FlattenSeq(Append(before, x)) = FlattenSeq(before) \o x
    BY <2>1, <2>2, FlattenedAppend
  <2> QED
    BY <2>5, <2>6 DEF x, before, all
<1> QED
  BY <1>4, <1>5

\* What admit has read stays one of its states.
LEMMA AdmitTyped ==
  ASSUME NEW s \in AdmitStates, NEW w \in Words
  PROVE  Admitting(s, w, 1) \in AdmitStates
<1> DEFINE t == Admitting(s, w, 1)
<1>1. CASE ~s.ok
  BY <1>1 DEF Admitting
<1>2. CASE s.ok /\ s.want # ""
  <2>1. t = [s EXCEPT !.ok = TakesValue(w), !.want = "", !.values = Append(@, <<s.want, w>>)]
    BY <1>2 DEF Admitting
  <2>2. TakesValue(w) \in BOOLEAN /\ "" \in Wanted
    BY DEF TakesValue, IsLong, Wanted
  <2>3. Append(s.values, <<s.want, w>>) \in Seq(Taken)
    <3> DEFINE p == <<s.want, w>>
               v == s.values
    <3>1. p \in Taken /\ v \in Seq(Taken)
      BY DEF Taken, AdmitStates
    <3> HIDE DEF p, v
    <3>2. Append(v, p) \in Seq(Taken)
      BY <3>1
    <3> QED
      BY <3>2 DEF p, v
  <2> QED
    BY <2>1, <2>2, <2>3 DEF AdmitStates
<1>3. CASE s.ok /\ s.want = "" /\ w \in Valued
  <2>1. w \notin Flags
    BY <1>3 DEF Valued, Flags
  <2>2. t = [s EXCEPT !.want = w, !.ok = w \notin s.seen \/ w \in REPEATABLE, !.seen = @ \cup {w}]
    BY <1>3, <2>1 DEF Admitting
  <2>3. w \in Wanted /\ (w \notin s.seen \/ w \in REPEATABLE) \in BOOLEAN /\ s.seen \cup {w} \in SUBSET Words
    BY DEF AdmitStates, Wanted
  <2> QED
    BY <2>2, <2>3 DEF AdmitStates
<1>4. CASE s.ok /\ s.want = "" /\ w \in Flags
  <2>1. w \notin Valued
    BY <1>4 DEF Valued, Flags
  <2>2. t = [s EXCEPT !.flags = @ \cup {w}]
    BY <1>4, <2>1 DEF Admitting
  <2> QED
    BY <2>2 DEF AdmitStates
<1>5. CASE s.ok /\ s.want = "" /\ w \notin Valued \cup Flags
  <2>1. t = [s EXCEPT !.ok = ~IsOption(w) /\ Len(s.rest) < 1, !.rest = Append(@, w)]
    BY <1>5 DEF Admitting
  <2>2. (~IsOption(w) /\ Len(s.rest) < 1) \in BOOLEAN
    OBVIOUS
  <2>3. s.rest \in Seq(Words)
    BY DEF AdmitStates
  <2>4. Append(s.rest, w) \in Seq(Words)
    BY <2>3
  <2> QED
    BY <2>1, <2>2, <2>4 DEF AdmitStates
<1>6. s.ok \in BOOLEAN
  BY DEF AdmitStates
<1> QED
  BY <1>1, <1>2, <1>3, <1>4, <1>5, <1>6

\* One more word is read: an option's value, an option, a flag or a positional.
LEMMA Admitted ==
  ASSUME NEW ws \in Seq(Words), NEW k \in 1 .. Len(ws), NEW s \in AdmitStates, ReadTo(s, ws, k - 1)
  PROVE  ReadTo(Admitting(s, ws[k], 1), ws, k)
<1> DEFINE w == ws[k]
           t == Admitting(s, w, 1)
<1>1. w \in Words /\ k - 1 \in Nat /\ k \in Nat /\ k <= Len(ws)
  OBVIOUS
<1>2. \A j \in 1 .. k : j = k \/ j \in 1 .. k - 1
  OBVIOUS
<1>3. \A j \in 1 .. k - 1 : j \in 1 .. k
  OBVIOUS
<1>8. /\ Among(Flags, ws, k) = Among(Flags, ws, k - 1) \cup (IF ws[k] \in Flags THEN {ws[k]} ELSE {})
      /\ Among(Valued, ws, k) = Among(Valued, ws, k - 1) \cup (IF ws[k] \in Valued THEN {ws[k]} ELSE {})
  BY AmongMore
<1> HIDE DEF w
<1>4. CASE ~s.ok
  <2>1. t = s
    BY <1>4 DEF Admitting
  <2> QED
    BY <1>4, <2>1 DEF ReadTo, w
<1>5. CASE s.ok /\ s.want # ""
  <2>1. t = [s EXCEPT !.ok = TakesValue(w), !.want = "", !.values = Append(@, <<s.want, w>>)]
    BY <1>5 DEF Admitting
  <2>2. s.want \in Wanted /\ s.values \in Seq(Taken)
    BY DEF AdmitStates
  <2>5. k - 1 # 0 /\ ws[k - 1] \in Valued /\ s.want = ws[k - 1]
    BY <1>5 DEF ReadTo
  <2>6. ASSUME t.ok PROVE w \notin Valued /\ w \notin Flags
    BY <2>1, <2>6 DEF TakesValue, IsLong, AdmitStates
  <2>7. t.flags = s.flags /\ t.seen = s.seen /\ t.want = "" /\ t.values = Append(s.values, <<s.want, w>>)
    BY <2>1 DEF AdmitStates
  <2>8. ASSUME NEW name \in Valued, t.ok PROVE Given(t.values, name) = FlattenSeq(AfterEach(ws, name, k - 1))
    <3>1. Given(t.values, name) = Given(s.values, name) \o (IF s.want = name THEN <<w>> ELSE <<>>)
      <4>1. s.values \in Seq(Taken) /\ s.want \in Wanted /\ w \in Words
        BY <1>1, <2>2
      <4> DEFINE v == s.values
                 p == <<s.want, w>>
      <4>2. v \in Seq(Taken) /\ p \in Taken /\ p[1] = s.want /\ p[2] = w
        BY <4>1 DEF Taken
      <4> HIDE DEF v, p
      <4>3. Given(Append(v, p), name) = Given(v, name) \o (IF p[1] = name THEN <<p[2]>> ELSE <<>>)
        BY <4>2, GivenAppend
      <4>4. Given(t.values, name) = Given(Append(v, p), name)
        BY <2>7 DEF v, p
      <4> QED
        BY <4>2, <4>3, <4>4 DEF v
    <3>2. Given(s.values, name) = FlattenSeq(AfterEach(ws, name, (k - 1) - 1))
      BY <1>5 DEF ReadTo
    <3>3. FlattenSeq(AfterEach(ws, name, k - 1))
            = FlattenSeq(AfterEach(ws, name, (k - 1) - 1)) \o (IF ws[k - 1] = name THEN <<ws[(k - 1) + 1]>> ELSE <<>>)
      <4> DEFINE a == k - 1
      <4>1. a \in Nat /\ a < Len(ws) /\ a # 0
        BY <1>1, <2>5
      <4> HIDE DEF a
      <4>2. FlattenSeq(AfterEach(ws, name, a))
              = FlattenSeq(AfterEach(ws, name, a - 1)) \o (IF ws[a] = name THEN <<ws[a + 1]>> ELSE <<>>)
        BY <4>1, AfterNext
      <4> QED
        BY <4>2 DEF a
    <3>4. ws[(k - 1) + 1] = w
      BY DEF w
    <3> QED
      BY <2>5, <3>1, <3>2, <3>3, <3>4
  <2>9. ASSUME t.ok
        PROVE  /\ \A i, j \in 1 .. k : ws[i] = ws[j] /\ ws[i] \in Valued \ REPEATABLE => i = j
               /\ \A j \in 1 .. k : ws[j] = "-h" => j > 1 /\ ws[j - 1] \in Valued
    <3>1. w \notin Valued /\ w = ws[k]
      BY <2>6, <2>9 DEF w
    <3>2. k > 1
      BY <1>1, <2>5
    <3> QED
      BY <1>2, <1>5, <2>5, <3>1, <3>2 DEF ReadTo
  <2>10. ASSUME t.ok
         PROVE  /\ t.flags = Among(Flags, ws, k)
                /\ t.seen = Among(Valued, ws, k)
    <3>1. w \notin Valued /\ w \notin Flags /\ w = ws[k]
      BY <2>6, <2>10 DEF w
    <3>2. s.flags = Among(Flags, ws, k - 1) /\ s.seen = Among(Valued, ws, k - 1)
      BY <1>5 DEF ReadTo
    <3> QED
      BY <1>8, <2>7, <3>1, <3>2
  <2>11. t.ok => t.want = IF k # 0 /\ ws[k] \in Valued THEN ws[k] ELSE ""
    BY <2>6, <2>7 DEF w
  <2> HIDE DEF t
  <2>12. ReadTo(t, ws, k)
    BY <2>8, <2>9, <2>10, <2>11 DEF ReadTo
  <2> QED
    BY <2>12 DEF t, w
<1>6. CASE s.ok /\ s.want = ""
  <2>0. /\ s.flags = Among(Flags, ws, k - 1)
        /\ s.seen = Among(Valued, ws, k - 1)
        /\ \A name \in Valued : Given(s.values, name) = FlattenSeq(AfterEach(ws, name, (k - 1) - 1))
        /\ \A i, j \in 1 .. k - 1 : ws[i] = ws[j] /\ ws[i] \in Valued \ REPEATABLE => i = j
        /\ \A j \in 1 .. k - 1 : ws[j] = "-h" => j > 1 /\ ws[j - 1] \in Valued
    BY <1>6 DEF ReadTo
  <2>1. k - 1 = 0 \/ ws[k - 1] \notin Valued
    <3>1. s.want = IF k - 1 # 0 /\ ws[k - 1] \in Valued THEN ws[k - 1] ELSE ""
      BY <1>6 DEF ReadTo
    <3>2. "" \notin Valued
      BY DEF Valued
    <3> QED
      BY <1>6, <3>1, <3>2
  <2>2. ASSUME NEW name \in Valued PROVE Given(s.values, name) = FlattenSeq(AfterEach(ws, name, k - 1))
    <3>1. Given(s.values, name) = FlattenSeq(AfterEach(ws, name, (k - 1) - 1))
      BY <2>0
    <3>2. CASE k - 1 = 0
      <4>1. FlattenSeq(AfterEach(ws, name, 0)) = <<>> /\ FlattenSeq(AfterEach(ws, name, -1)) = <<>>
        BY AfterNone
      <4>2. (k - 1) - 1 = -1
        BY <3>2
      <4> QED
        BY <3>1, <3>2, <4>1, <4>2
    <3>3. CASE k - 1 # 0
      <4>1. ws[k - 1] # name
        BY <2>1, <3>3
      <4>2. /\ FlattenSeq(AfterEach(ws, name, (k - 1) - 1)) \in Seq(Words)
            /\ FlattenSeq(AfterEach(ws, name, k - 1))
                 = FlattenSeq(AfterEach(ws, name, (k - 1) - 1)) \o (IF ws[k - 1] = name THEN <<ws[(k - 1) + 1]>> ELSE <<>>)
        <5> DEFINE a == k - 1
                   b == a - 1
        <5>1. a \in Nat /\ a < Len(ws) /\ b \in Nat /\ b < Len(ws) /\ a # 0
          BY <1>1, <3>3
        <5> HIDE DEF a, b
        <5>2. FlattenSeq(AfterEach(ws, name, b)) \in Seq(Words)
          BY <5>1, AfterNext
        <5>3. FlattenSeq(AfterEach(ws, name, a))
                = FlattenSeq(AfterEach(ws, name, a - 1)) \o (IF ws[a] = name THEN <<ws[a + 1]>> ELSE <<>>)
          BY <5>1, AfterNext
        <5> QED
          BY <5>2, <5>3 DEF a, b
      <4>3. FlattenSeq(AfterEach(ws, name, (k - 1) - 1)) \o <<>> = FlattenSeq(AfterEach(ws, name, (k - 1) - 1))
        BY <4>2
      <4> QED
        BY <3>1, <4>1, <4>2, <4>3
    <3> QED
      BY <3>2, <3>3
  <2>3. ws[k] = w
    BY DEF w
  <2>4. CASE w \in Valued
    <3>4. w \notin Flags /\ w # "-h"
      BY <2>4 DEF Valued, Flags
    <3>1. t = [s EXCEPT !.want = w, !.ok = w \notin s.seen \/ w \in REPEATABLE, !.seen = @ \cup {w}]
      BY <1>6, <2>4, <3>4 DEF Admitting
    <3>3. /\ t.flags = s.flags /\ t.seen = s.seen \cup {w} /\ t.want = w /\ t.values = s.values
          /\ t.ok <=> w \notin s.seen \/ w \in REPEATABLE
      BY <3>1 DEF AdmitStates
    <3>5. ASSUME t.ok PROVE \A i, j \in 1 .. k : ws[i] = ws[j] /\ ws[i] \in Valued \ REPEATABLE => i = j
      <4>1. w \in Valued \ REPEATABLE => \A j \in 1 .. k - 1 : ws[j] # w
        BY <2>0, <3>3, <3>5 DEF Among
      <4> QED
        BY <1>2, <2>0, <2>3, <4>1
    <3>6. \A j \in 1 .. k : ws[j] = "-h" => j > 1 /\ ws[j - 1] \in Valued
      BY <1>2, <2>0, <2>3, <3>4
    <3>7. /\ t.flags = Among(Flags, ws, k)
          /\ t.seen = Among(Valued, ws, k)
      BY <1>8, <2>0, <2>3, <2>4, <3>3, <3>4
    <3>8. t.want = IF k # 0 /\ ws[k] \in Valued THEN ws[k] ELSE ""
      <4>1. k # 0
        BY <1>1
      <4> QED
        BY <2>3, <2>4, <3>3, <4>1
    <3> HIDE DEF t
    <3>9. ReadTo(t, ws, k)
      BY <2>2, <3>3, <3>5, <3>6, <3>7, <3>8 DEF ReadTo
    <3> QED
      BY <3>9 DEF t, w
  <2>5. CASE w \in Flags
    <3>1. w \notin Valued /\ w # "-h"
      BY <2>5 DEF Valued, Flags
    <3>2. t = [s EXCEPT !.flags = @ \cup {w}]
      BY <1>6, <2>5, <3>1 DEF Admitting
    <3>4. t.flags = s.flags \cup {w} /\ t.seen = s.seen /\ t.want = "" /\ t.values = s.values
      BY <1>6, <3>2 DEF AdmitStates
    <3>5. \A i, j \in 1 .. k : ws[i] = ws[j] /\ ws[i] \in Valued \ REPEATABLE => i = j
      BY <1>2, <2>0, <2>3, <3>1
    <3>6. \A j \in 1 .. k : ws[j] = "-h" => j > 1 /\ ws[j - 1] \in Valued
      BY <1>2, <2>0, <2>3, <3>1
    <3>7. /\ t.flags = Among(Flags, ws, k)
          /\ t.seen = Among(Valued, ws, k)
      BY <1>8, <2>0, <2>3, <2>5, <3>1, <3>4
    <3>8. t.want = IF k # 0 /\ ws[k] \in Valued THEN ws[k] ELSE ""
      BY <2>3, <3>1, <3>4
    <3> HIDE DEF t
    <3>9. ReadTo(t, ws, k)
      BY <2>2, <3>4, <3>5, <3>6, <3>7, <3>8 DEF ReadTo
    <3> QED
      BY <3>9 DEF t, w
  <2>6. CASE w \notin Valued \cup Flags
    <3>1. t = [s EXCEPT !.ok = ~IsOption(w) /\ Len(s.rest) < 1, !.rest = Append(@, w)]
      BY <1>6, <2>6 DEF Admitting
    <3>4. /\ t.flags = s.flags /\ t.seen = s.seen /\ t.want = "" /\ t.values = s.values
          /\ t.ok => ~IsOption(w)
      BY <1>6, <3>1 DEF AdmitStates
    <3>5. \A i, j \in 1 .. k : ws[i] = ws[j] /\ ws[i] \in Valued \ REPEATABLE => i = j
      BY <1>2, <2>0, <2>3, <2>6
    <3>6. t.ok => \A j \in 1 .. k : ws[j] = "-h" => j > 1 /\ ws[j - 1] \in Valued
      <4>1. t.ok => w # "-h"
        BY <3>4 DEF IsOption
      <4> QED
        BY <1>2, <2>0, <2>3, <4>1
    <3>7. /\ t.flags = Among(Flags, ws, k)
          /\ t.seen = Among(Valued, ws, k)
      BY <1>8, <2>0, <2>3, <2>6, <3>4
    <3>8. t.want = IF k # 0 /\ ws[k] \in Valued THEN ws[k] ELSE ""
      BY <2>3, <2>6, <3>4
    <3> HIDE DEF t
    <3>9. ReadTo(t, ws, k)
      BY <2>2, <3>4, <3>5, <3>6, <3>7, <3>8 DEF ReadTo
    <3> QED
      BY <3>9 DEF t, w
  <2> QED
    BY <2>4, <2>5, <2>6
<1>7. s.ok \in BOOLEAN
  BY DEF AdmitStates
<1> QED
  BY <1>4, <1>5, <1>6, <1>7

\* What admit leaves of the words of a command line is what it has read of all of them.
LEMMA AdmitReads ==
  ASSUME NEW ws \in Seq(Words)
  PROVE  \E s \in AdmitStates : /\ ReadTo(s, ws, Len(ws))
                                /\ admit(ws, 1) = [s EXCEPT !.ok = @ /\ s.want = ""]
<1> DEFINE n == Len(ws)
           b == Unread
           G == [k \in 1 .. n |-> [s \in AdmitStates |-> Admitting(s, ws[k], 1)]]
           Folds(it) == it = [t \in SUBSET (1 .. n) |-> IF t = {} THEN b
                                                         ELSE Admitting(it[t \ {Max(t)}], ws[Max(t)], 1)]
           iter == CHOOSE it : Folds(it)
<1>1. n \in Nat /\ DOMAIN ws = 1 .. n /\ \A k \in 1 .. n : ws[k] \in Words
  OBVIOUS
<1>2. b \in AdmitStates
  BY DEF Unread, AdmitStates, Wanted
<1>3. G \in [1 .. n -> [AdmitStates -> AdmitStates]]
  BY <1>1, AdmitTyped
<1>4. PICK it : Iterates(it, n, AdmitStates, b, G)
  <2> HIDE DEF G, n, b
  <2> QED
    BY <1>1, <1>2, <1>3, Iteration
<1>5. \E i : Folds(i)
  <2>1. it = [t \in SUBSET (1 .. n) |-> it[t]] /\ \A t \in SUBSET (1 .. n) : it[t] \in AdmitStates
    BY <1>4 DEF Iterates
  <2>2. ASSUME NEW t \in SUBSET (1 .. n)
        PROVE  it[t] = IF t = {} THEN b ELSE Admitting(it[t \ {Max(t)}], ws[Max(t)], 1)
    <3>1. CASE t = {}
      BY <3>1, <1>4 DEF Iterates
    <3>2. CASE t # {}
      <4>1. Max(t) \in 1 .. n
        BY <3>2, <1>1, Greatest
      <4>2. it[t \ {Max(t)}] \in AdmitStates
        BY <2>1
      <4>3. it[t] = G[Max(t)][it[t \ {Max(t)}]]
        BY <3>2, <1>4 DEF Iterates
      <4> QED
        BY <3>2, <4>1, <4>2, <4>3
    <3> QED
      BY <3>1, <3>2
  <2> QED
    BY <2>1, <2>2
<1>6. admit(ws, 1) = [iter[1 .. n] EXCEPT !.ok = @ /\ iter[1 .. n].want = ""]
  BY <1>1 DEF admit, FoldLeft, MapThenFoldSet
<1> HIDE DEF iter
<1>7. Folds(iter)
  BY <1>5 DEF iter
<1>8. Folding(iter, n, AdmitStates, b, G)
  <2>1. iter[{}] = b
    BY <1>7
  <2>2. ASSUME NEW t \in SUBSET (1 .. n), t # {}, iter[t \ {Max(t)}] \in AdmitStates
        PROVE  iter[t] = G[Max(t)][iter[t \ {Max(t)}]]
    <3>1. Max(t) \in 1 .. n
      BY <2>2, <1>1, Greatest
    <3>2. iter[t] = Admitting(iter[t \ {Max(t)}], ws[Max(t)], 1)
      BY <2>2, <1>7
    <3> QED
      BY <2>2, <3>1, <3>2
  <2> QED
    BY <2>1, <2>2 DEF Folding
<1>9. StepsTo(n, AdmitStates, b, G, iter[1 .. n])
  <2> HIDE DEF G, n, b
  <2> QED
    BY <1>1, <1>2, <1>3, <1>8, FoldSteps
<1>10. PICK f : StepsFrom(f, n, AdmitStates, b, G) /\ iter[1 .. n] = f[n]
  BY <1>9 DEF StepsTo
<1>11. \A k \in 0 .. n : f[k] \in AdmitStates
  BY <1>10 DEF StepsFrom
<1> DEFINE T == {k \in Nat : k <= n => ReadTo(f[k], ws, k)}
<1>12. 0 \in T
  <2>1. f[0] = Unread
    BY <1>10 DEF StepsFrom
  <2>2. \A name : Given(<<>>, name) = <<>> /\ FlattenSeq(AfterEach(ws, name, 0 - 1)) = <<>>
    BY DEF Given, AfterEach, FlattenSeq
  <2>3. Among(Flags, ws, 0) = {} /\ Among(Valued, ws, 0) = {}
    BY DEF Among
  <2>4. ReadTo(Unread, ws, 0)
    BY <2>2, <2>3 DEF Unread, ReadTo
  <2> QED
    BY <2>1, <2>4
<1>13. ASSUME NEW k \in Nat, k \in T PROVE k + 1 \in T
  <2> SUFFICES ASSUME k + 1 <= n PROVE ReadTo(f[k + 1], ws, k + 1)
    OBVIOUS
  <2>1. k + 1 \in 1 .. n /\ (k + 1) - 1 = k /\ k \in 0 .. n /\ ReadTo(f[k], ws, k)
    BY <1>1, <1>13
  <2>2. f[k + 1] = G[k + 1][f[k]]
    <3> HIDE DEF G
    <3> QED
      BY <1>10, <2>1 DEF StepsFrom
  <2>3. f[k + 1] = Admitting(f[k], ws[k + 1], 1)
    BY <1>11, <2>1, <2>2
  <2>4. ReadTo(Admitting(f[k], ws[k + 1], 1), ws, k + 1)
    <3> DEFINE m == k + 1
    <3>1. m \in 1 .. Len(ws) /\ ReadTo(f[k], ws, m - 1) /\ f[k] \in AdmitStates
      BY <1>11, <2>1
    <3> HIDE DEF m
    <3>2. ReadTo(Admitting(f[k], ws[m], 1), ws, m)
      BY <3>1, Admitted
    <3> QED
      BY <3>2 DEF m
  <2> QED
    BY <2>3, <2>4
<1> HIDE DEF T
<1>14. n \in T
  BY <1>1, <1>12, <1>13, Induction
<1> DEFINE s == iter[1 .. n]
<1>15. s \in AdmitStates /\ ReadTo(s, ws, n)
  BY <1>1, <1>10, <1>11, <1>14 DEF T
<1>16. admit(ws, 1) = [s EXCEPT !.ok = @ /\ s.want = ""]
  BY <1>6
<1> HIDE DEF s
<1> QED
  BY <1>15, <1>16

\* When at most one word is the name, there is at most one value after it.
LEMMA OneValue ==
  ASSUME NEW ws \in Seq(Words), NEW name, NEW m \in Nat \ {0}, \A j \in 1 .. Len(ws) : ws[j] = name <=> j = m
  PROVE  \A k \in Nat : k < Len(ws) => FlattenSeq(AfterEach(ws, name, k)) = IF m <= k THEN <<ws[m + 1]>> ELSE <<>>
<1> DEFINE T == {k \in Nat : k < Len(ws) =>
                    FlattenSeq(AfterEach(ws, name, k)) = IF m <= k THEN <<ws[m + 1]>> ELSE <<>>}
<1>1. 0 \in T
  <2>1. FlattenSeq(AfterEach(ws, name, 0)) = <<>>
    BY AfterNone
  <2> QED
    BY <2>1
<1>2. ASSUME NEW k \in Nat, k \in T PROVE k + 1 \in T
  <2> SUFFICES ASSUME k + 1 < Len(ws)
               PROVE  FlattenSeq(AfterEach(ws, name, k + 1)) = IF m <= k + 1 THEN <<ws[m + 1]>> ELSE <<>>
    OBVIOUS
  <2> DEFINE a == k + 1
  <2>1. a \in Nat /\ a # 0 /\ a < Len(ws) /\ a - 1 = k /\ a \in 1 .. Len(ws)
    OBVIOUS
  <2>2. FlattenSeq(AfterEach(ws, name, k)) = IF m <= k THEN <<ws[m + 1]>> ELSE <<>>
    BY <1>2
  <2>3. ws[a] = name <=> a = m
    BY <2>1
  <2>4. ws[m + 1] \in Words \/ ~ m <= a
    BY <2>1
  <2> HIDE DEF a
  <2>5. FlattenSeq(AfterEach(ws, name, a))
          = FlattenSeq(AfterEach(ws, name, a - 1)) \o (IF ws[a] = name THEN <<ws[a + 1]>> ELSE <<>>)
    <3>1. a \in Nat /\ a < Len(ws) /\ a # 0
      BY <2>1
    <3> QED
      BY <3>1, AfterNext
  <2>6. CASE m <= k
    <3>1. a # m /\ m <= a
      BY <2>1, <2>6
    <3>2. <<ws[m + 1]>> \o <<>> = <<ws[m + 1]>>
      OBVIOUS
    <3> QED
      BY <2>1, <2>2, <2>3, <2>5, <2>6, <3>1, <3>2 DEF a
  <2>7. CASE m = a
    <3>1. ~ m <= k /\ m <= a
      BY <2>1, <2>7
    <3>2. <<>> \o <<ws[m + 1]>> = <<ws[m + 1]>>
      OBVIOUS
    <3> QED
      BY <2>1, <2>2, <2>3, <2>5, <2>7, <3>1, <3>2 DEF a
  <2>8. CASE ~ m <= a
    <3>1. ~ m <= k /\ m # a
      BY <2>1, <2>8
    <3>2. <<>> \o <<>> = <<>>
      OBVIOUS
    <3> QED
      BY <2>1, <2>2, <2>3, <2>5, <2>8, <3>1, <3>2 DEF a
  <2> QED
    BY <2>1, <2>6, <2>7, <2>8
<1> HIDE DEF T
<1>3. \A k \in Nat : k \in T
  BY <1>1, <1>2, Induction
<1> QED
  BY <1>3 DEF T

\* The scans for flags and values find what admit took for them.
LEMMA WordsAreRead == ASSUME words \in Seq(Words) PROVE ReadAsAdmitted
<1> DEFINE n == Len(words)
<1>1. PICK s \in AdmitStates : ReadTo(s, words, n) /\ admit(words, 1) = [s EXCEPT !.ok = @ /\ s.want = ""]
  BY AdmitReads
<1> DEFINE a == admit(words, 1)
<1>2. a.ok <=> s.ok /\ s.want = ""
  BY <1>1 DEF AdmitStates
<1>3. a.flags = s.flags /\ a.values = s.values
  BY <1>1 DEF AdmitStates
<1> HIDE DEF a
<1> SUFFICES ASSUME a.ok
             PROVE  /\ \A f \in Flags : f \in a.flags <=> Contains(words, f)
                    /\ \A name \in Valued :
                         /\ flag_values(words, name) = Given(a.values, name)
                         /\ name \notin REPEATABLE => flag_value(words, name) = Given(a.values, name)
                    /\ ~help_requested(words)
  BY DEF ReadAsAdmitted, a
<1>4. /\ s.flags = Among(Flags, words, n)
      /\ \A name \in Valued : Given(s.values, name) = FlattenSeq(AfterEach(words, name, n - 1))
      /\ \A i, j \in 1 .. n : words[i] = words[j] /\ words[i] \in Valued \ REPEATABLE => i = j
      /\ \A j \in 1 .. n : words[j] = "-h" => j > 1 /\ words[j - 1] \in Valued
  BY <1>1, <1>2 DEF ReadTo
<1>5. n \in Nat /\ DOMAIN words = 1 .. n
  OBVIOUS
<1>6. n = 0 \/ words[n] \notin Valued
  <2>1. s.want = IF n # 0 /\ words[n] \in Valued THEN words[n] ELSE ""
    BY <1>1, <1>2 DEF ReadTo
  <2>2. "" \notin Valued
    BY DEF Valued
  <2> QED
    BY <1>2, <2>1, <2>2
<1>7. \A f \in Flags : f \in a.flags <=> Contains(words, f)
  BY <1>3, <1>4 DEF Among, Contains
<1>8. ~help_requested(words)
  BY <1>4, <1>5 DEF help_requested
<1>9. ASSUME NEW name \in Valued PROVE flag_values(words, name) = FlattenSeq(AfterEach(words, name, n - 1))
  BY DEF flag_values, AfterEach
<1>10. ASSUME NEW name \in Valued \ REPEATABLE
       PROVE  flag_value(words, name) = FlattenSeq(AfterEach(words, name, n - 1))
  <2> DEFINE places == {k \in 1 .. n : words[k] = name}
  <2>1. flag_value(words, name) = IF places = {} \/ Min(places) = n THEN <<>> ELSE <<words[Min(places) + 1]>>
    BY <1>5 DEF flag_value
  <2>2. CASE n = 0
    <3>1. places = {}
      BY <2>2
    <3>2. FlattenSeq(AfterEach(words, name, n - 1)) = <<>>
      <4>1. n - 1 = -1
        BY <2>2
      <4> QED
        BY <4>1, AfterNone
    <3> QED
      BY <2>1, <3>1, <3>2
  <2>3. CASE n # 0 /\ places = {}
    <3> DEFINE m == n + 1
               l == n - 1
    <3>1. m \in Nat \ {0} /\ l \in Nat /\ l < n /\ ~ m <= l /\ \A j \in 1 .. n : words[j] = name <=> j = m
      BY <1>5, <2>3
    <3> HIDE DEF m, l
    <3>2. FlattenSeq(AfterEach(words, name, l)) = <<>>
      BY <3>1, OneValue
    <3> QED
      BY <2>1, <2>3, <3>2 DEF l
  <2>4. CASE n # 0 /\ places # {}
    <3>1. PICK m \in 1 .. n : words[m] = name
      BY <2>4
    <3>2. \A j \in 1 .. n : words[j] = name <=> j = m
      BY <1>4, <3>1
    <3>3. places = {m} /\ m \in Nat
      BY <3>1, <3>2
    <3>4. Min({m}) = m
      BY <3>3 DEF Min
    <3>5. m # n
      BY <1>6, <2>4, <3>1
    <3> DEFINE l == n - 1
    <3>6. l \in Nat /\ l < n /\ m <= l /\ m \in Nat \ {0}
      <4>1. n \in Nat
        BY <1>5
      <4> HIDE DEF n
      <4>2. m \in Nat /\ 1 <= m /\ m <= n
        BY <4>1
      <4> QED
        BY <3>5, <4>1, <4>2
    <3> HIDE DEF l, places
    <3>7. FlattenSeq(AfterEach(words, name, l)) = <<words[m + 1]>>
      BY <3>2, <3>6, OneValue
    <3>8. flag_value(words, name) = <<words[m + 1]>>
      BY <2>1, <3>3, <3>4, <3>5
    <3> QED
      BY <3>7, <3>8 DEF l
  <2> QED
    BY <2>2, <2>3, <2>4
<1> QED
  BY <1>3, <1>4, <1>7, <1>8, <1>9, <1>10

\* A set with at most one member.
LEMMA AtMostOne ==
  ASSUME NEW S, IsFiniteSet(S), Cardinality(S) <= 1, NEW x \in S, NEW y \in S
  PROVE  x = y
<1> SUFFICES ASSUME x # y PROVE FALSE
  OBVIOUS
<1>1. IsFiniteSet({x}) /\ Cardinality({x}) = 1
  BY FS_Singleton
<1>2. IsFiniteSet({x} \cup {y}) /\ Cardinality({x} \cup {y}) = Cardinality({x}) + 1
  <2>1. y \notin {x}
    OBVIOUS
  <2> QED
    BY <1>1, <2>1, FS_AddElement
<1>3. {x} \cup {y} \in SUBSET S
  OBVIOUS
<1>4. Cardinality({x} \cup {y}) <= Cardinality(S)
  BY <1>3, FS_Subset
<1>5. Cardinality(S) \in Nat
  BY FS_CardinalityType
<1> QED
  BY <1>1, <1>2, <1>4, <1>5

\* The source of a review, and options of it.
OptionsAre == source \in Sources /\ opts \subseteq OptionNames

\* By the one mode there is, or none: each option is read there, or was refused.
LEMMA AcceptedAreRead == ASSUME OptionsAre PROVE OptionsAreRead
<1> SUFFICES ASSUME opts \subseteq REVIEW_FLAGS(source), validate_review_options(opts),
                    NEW o \in opts, ~(o = "--json" /\ opts \cap {"--outline", "--hunks"} # {})
             PROVE  o \in Consulted(source, opts)
  BY DEF OptionsAreRead
<1> DEFINE modes == (opts \cap Modes) \cup (IF JsonIsAMode(opts) THEN {"--json"} ELSE {})
<1>1. IsFiniteSet(modes)
  <2>1. IsFiniteSet(Modes \cup {"--json"})
    <3>1. IsFiniteSet({}) 
      BY FS_EmptySet
    <3>2. \A S, x : IsFiniteSet(S) => IsFiniteSet(S \cup {x})
      BY FS_AddElement
    <3>3. Modes \cup {"--json"}
            = (((((((({} \cup {"--acquisition-json"}) \cup {"--outline"}) \cup {"--hunks"}) \cup {"--cluster"})
                \cup {"--rank"}) \cup {"--jsonl"}) \cup {"--layout"}) \cup {"--json"})
      BY DEF Modes
    <3> QED
      BY <3>1, <3>2, <3>3
  <2>2. modes \in SUBSET (Modes \cup {"--json"})
    OBVIOUS
  <2> HIDE DEF modes
  <2> QED
    BY <2>1, <2>2, FS_Subset
<1>2. \A x, y \in modes : x = y
  <2>1. Cardinality(modes) <= 1
    BY DEF validate_review_options
  <2> HIDE DEF modes
  <2> QED
    BY <1>1, <2>1, AtMostOne
<1>3. \A x \in Modes \cap opts : \A y \in Modes \cap opts : x = y
  BY <1>2
<1>4. JsonIsAMode(opts) => Modes \cap opts = {}
  <2>1. "--json" \notin Modes
    BY DEF Modes
  <2> QED
    BY <1>2, <2>1
<1>5. /\ ~({"--json", "--jsonl"} \subseteq opts)
      /\ "--outline" \in opts => opts \cap {"--address", "--path"} = {}
      /\ opts \cap {"--outline", "--hunks"} = {}
           => opts \cap {"--address", "--path", "--max-bytes", "--cursor"} = {}
      /\ ~({"--address", "--path"} \subseteq opts)
      /\ "--parallel" \in opts => "--cluster" \in opts
  BY DEF validate_review_options
<1>6. "--json" \in opts /\ opts \cap {"--rank", "--cluster", "--outline", "--hunks"} = {} => JsonIsAMode(opts)
  BY DEF JsonIsAMode
<1>7. "--include-untracked" \in opts => source = "working tree"
  BY DEF OptionsAre, Sources, REVIEW_FLAGS
<1>8. "--acquisition-json" \in opts => source \in {"working tree", "staged"}
  BY DEF OptionsAre, Sources, REVIEW_FLAGS
<1>9. CASE o \in Guards \/ o = "--include-untracked"
  BY <1>7, <1>9 DEF Consulted
<1>10. o \in Guards \/ o = "--include-untracked" \/ o \in Modes
         \/ o \in {"--json", "--parallel", "--address", "--path", "--max-bytes", "--cursor"}
  BY DEF OptionsAre, OptionNames
<1>11. CASE "--acquisition-json" \in opts
  <2>1. Consulted(source, opts) = Guards \cup (IF source = "working tree" THEN {"--include-untracked"} ELSE {})
                                    \cup {"--acquisition-json"}
    BY <1>8, <1>11 DEF Consulted
  <2>2. Modes \cap opts = {"--acquisition-json"}
    BY <1>3, <1>11 DEF Modes
  <2>3. o \notin {"--json", "--parallel", "--address", "--path", "--max-bytes", "--cursor"}
    BY <1>4, <1>5, <1>6, <2>2 DEF Modes
  <2> QED
    BY <1>9, <1>10, <2>1, <2>2, <2>3
<1>12. CASE "--jsonl" \in opts
  <2>1. Modes \cap opts = {"--jsonl"} /\ "--acquisition-json" \notin opts
    BY <1>3, <1>12 DEF Modes
  <2>2. Consulted(source, opts) = Guards \cup (IF source = "working tree" THEN {"--include-untracked"} ELSE {})
                                    \cup {"--jsonl"}
    BY <1>12, <2>1 DEF Consulted
  <2>3. o \notin {"--json", "--parallel", "--address", "--path", "--max-bytes", "--cursor"}
    BY <1>4, <1>5, <1>6, <2>1 DEF Modes
  <2> QED
    BY <1>9, <1>10, <2>1, <2>2, <2>3
<1>13. CASE "--acquisition-json" \notin opts /\ "--jsonl" \notin opts
  <2>1. Consulted(source, opts) = Guards \cup (IF source = "working tree" THEN {"--include-untracked"} ELSE {})
                                    \cup emit_review(opts)
    BY <1>13 DEF Consulted
  <2>2. ASSUME o \notin Guards, o # "--include-untracked" PROVE o \in emit_review(opts)
    <3>1. CASE "--outline" \in opts
      <4>1. Modes \cap opts = {"--outline"}
        BY <1>3, <3>1 DEF Modes
      <4>2. emit_review(opts) = {"--outline", "--max-bytes", "--cursor"}
        BY <3>1, <4>1 DEF emit_review, Modes
      <4>3. o \notin {"--json", "--parallel", "--address", "--path"}
        BY <1>5, <3>1, <4>1 DEF Modes
      <4> QED
        BY <1>10, <2>2, <4>1, <4>2, <4>3
    <3>2. CASE "--outline" \notin opts /\ "--hunks" \in opts
      <4>1. Modes \cap opts = {"--hunks"}
        BY <1>3, <3>2 DEF Modes
      <4>2. emit_review(opts) = {"--hunks", "--max-bytes", "--cursor",
                                 IF "--address" \in opts THEN "--address" ELSE "--path"}
        BY <3>2, <4>1 DEF emit_review, Modes
      <4>3. o \notin {"--json", "--parallel"} /\ (o = "--path" => "--address" \notin opts)
        BY <1>5, <3>2, <4>1 DEF Modes
      <4> QED
        BY <1>10, <2>2, <4>1, <4>2, <4>3
    <3>3. CASE opts \cap {"--outline", "--hunks"} = {}
      <4>1. o \notin {"--address", "--path", "--max-bytes", "--cursor"}
        BY <1>5, <3>3
      <4>2. CASE "--cluster" \in opts
        <5>1. Modes \cap opts = {"--cluster"}
          BY <1>3, <4>2 DEF Modes
        <5>2. emit_review(opts) = {"--cluster", "--parallel", "--json"}
          BY <3>3, <4>2, <5>1 DEF emit_review, Modes
        <5> QED
          BY <1>10, <2>2, <4>1, <5>1, <5>2
      <4>3. CASE "--cluster" \notin opts /\ "--rank" \in opts
        <5>1. Modes \cap opts = {"--rank"}
          BY <1>3, <4>3 DEF Modes
        <5>2. emit_review(opts) = {"--rank", "--json"}
          BY <3>3, <4>3, <5>1 DEF emit_review, Modes
        <5>3. o # "--parallel"
          BY <1>5, <4>3
        <5> QED
          BY <1>10, <2>2, <4>1, <5>1, <5>2, <5>3
      <4>4. CASE opts \cap {"--cluster", "--rank"} = {} /\ "--json" \in opts
        <5>1. Modes \cap opts = {}
          BY <1>4, <1>6, <3>3, <4>4
        <5>2. emit_review(opts) = {"--json"}
          BY <3>3, <4>4 DEF emit_review
        <5>3. o # "--parallel"
          BY <1>5, <4>4
        <5> QED
          BY <1>10, <2>2, <4>1, <5>1, <5>2, <5>3
      <4>5. CASE opts \cap {"--cluster", "--rank", "--json"} = {}
        <5>1. emit_review(opts) = {"--layout"}
          BY <3>3, <4>5 DEF emit_review
        <5>2. o \notin {"--json", "--parallel"}
          BY <1>5, <4>5
        <5>3. o \in Modes
          BY <1>10, <2>2, <4>1, <5>2
        <5>4. o = "--layout"
          BY <1>13, <3>3, <4>5, <5>3 DEF Modes
        <5> QED
          BY <5>1, <5>4
      <4> QED
        BY <4>2, <4>3, <4>4, <4>5
    <3> QED
      BY <3>1, <3>2, <3>3
  <2> QED
    BY <1>7, <2>1, <2>2
<1> QED
  BY <1>11, <1>12, <1>13

CliInv == words \in Seq(Words) /\ OptionsAre

LEMMA CliSteps == CliInv /\ [CNext]_cliVars => CliInv'
<1> SUFFICES ASSUME CliInv, [CNext]_cliVars
             PROVE  CliInv'
  OBVIOUS
<1>1. ASSUME NEW w \in Words, Type(w) PROVE CliInv'
  BY <1>1 DEF CliInv, OptionsAre, Type
<1>2. ASSUME NEW src \in Sources, NEW n \in 1 .. MaxOptions, NEW o \in kSubset(n, OptionNames), Choose(src, o)
      PROVE  CliInv'
  <2>1. o \subseteq OptionNames
    BY DEF kSubset
  <2> QED
    BY <1>2, <2>1 DEF CliInv, OptionsAre, Choose
<1>3. ASSUME UNCHANGED <<words, source, opts>> PROVE CliInv'
  BY <1>3 DEF CliInv, OptionsAre
<1>4. ASSUME \/ UNCHANGED cliVars \/ Fail \/ Done \/ emit \/ Return \/ \E c \in Commands : Start(c)
      PROVE  UNCHANGED <<words, source, opts>>
  BY <1>4 DEF cliVars, Fail, Done, emit, Return, Start
<1> QED
  BY <1>1, <1>2, <1>3, <1>4 DEF CNext

\* Of any command line, of whatever length, that was admitted, and of any options that were
\* let through with a review, nothing is read otherwise than it was taken for, or not at all
\* (args.rs admit, main.rs flag_value and flag_values, validate_review_options_or_exit).
THEOREM EveryOptionAlwaysCounts == CSpec => []EveryOptionCounts
<1>1. CInit => CliInv
  BY DEF CInit, CliInv, OptionsAre, Sources
<1>2. CliInv => EveryOptionCounts
  BY WordsAreRead, AcceptedAreRead DEF CliInv, EveryOptionCounts
<1> QED
  BY <1>1, <1>2, CliSteps, PTL DEF CSpec

-----------------------------------------------------------------------------
(* How a command ends *)

\* The codes a stage of an engine command may fail with, the stages, and those of them that
\* change nothing.
StageCodes == EXIT_CODES("engine") \ {SUCCESS}
StageKinds == {"check", "stdin", "keep", "write", "judge", "serve", "refuse"}
CommandStages == [does : StageKinds, codes : SUBSET StageCodes] \cup {Drain}
PlainStages == {st \in CommandStages : st.does \in {"check", "stdin"}}

\* What the order of a command's stages promises: a stage after one that keeps something does
\* not refuse the input, and one that may fail after something was written comes after all of it.
WellOrdered(s) ==
  /\ s \in Seq(CommandStages)
  /\ \A k \in DOMAIN s : s[k].does = "write" => s[k].codes = {}
  /\ \A j, k \in DOMAIN s : j < k /\ s[j].does = "keep" => s[k].codes \cap {USAGE, INVALID_INPUT} = {}
  /\ \A i, j, k \in DOMAIN s : i < j /\ s[i].does = "write" /\ s[j].codes # {} /\ s[k].does = "write" => k < j

LEMMA CodesAre ==
  StageCodes = {2, 3, 4, 6, 7, 101}
BY DEF StageCodes, EXIT_CODES, SUCCESS, USAGE, IO, INVALID_INPUT, DAEMON_OR_TERMINAL, INPUT_CONTRACT_REFUSED, PANIC

LEMMA ChecksArePlain ==
  ASSUME NEW C, C \subseteq StageCodes
  PROVE  Check(C) \in PlainStages
BY DEF Check, Stage, PlainStages, CommandStages, StageKinds, StageCodes

LEMMA StdinIsPlain == Stdin \in PlainStages
BY CodesAre DEF Stdin, Stage, PlainStages, CommandStages, StageKinds, StageCodes, IO, INVALID_INPUT

\* The stages of s are n that change nothing, and those of t.
ChecksThen(s, n, t) ==
  /\ s \in Seq(CommandStages) /\ n \in Nat /\ Len(s) = n + Len(t)
  /\ \A k \in 1 .. n : s[k] \in PlainStages
  /\ \A k \in 1 .. Len(t) : s[n + k] = t[k]

LEMMA OrderedThen ==
  ASSUME NEW s, NEW n, NEW t, WellOrdered(t), ChecksThen(s, n, t)
  PROVE  WellOrdered(s)
<1>1. t \in Seq(CommandStages) /\ n \in Nat /\ s \in Seq(CommandStages) /\ Len(s) = n + Len(t) /\ Len(t) \in Nat
  BY DEF WellOrdered, ChecksThen
<1>2. \A k \in DOMAIN s : IF k <= n THEN s[k] \in PlainStages ELSE k - n \in DOMAIN t /\ s[k] = t[k - n]
  <2> SUFFICES ASSUME NEW k \in DOMAIN s
               PROVE  IF k <= n THEN s[k] \in PlainStages ELSE k - n \in DOMAIN t /\ s[k] = t[k - n]
    OBVIOUS
  <2>1. k \in Nat /\ k >= 1 /\ k <= n + Len(t)
    BY <1>1
  <2>2. CASE k <= n
    BY <1>1, <2>1, <2>2 DEF ChecksThen
  <2>3. CASE k > n
    <3>1. k - n \in 1 .. Len(t) /\ n + (k - n) = k
      BY <1>1, <2>1, <2>3
    <3>2. s[n + (k - n)] = t[k - n]
      BY <3>1 DEF ChecksThen
    <3> QED
      BY <1>1, <2>1, <2>3, <3>1, <3>2
  <2> QED
    BY <1>1, <2>1, <2>2, <2>3
<1>3. ASSUME NEW k \in DOMAIN s, s[k].does \notin {"check", "stdin"}
      PROVE  k > n /\ k - n \in DOMAIN t /\ s[k] = t[k - n]
  BY <1>1, <1>2, <1>3 DEF PlainStages
<1>4. ASSUME NEW k \in DOMAIN s, s[k].does = "write"
      PROVE  s[k].codes = {}
  BY <1>3, <1>4 DEF WellOrdered
<1>5. ASSUME NEW j \in DOMAIN s, NEW k \in DOMAIN s, j < k, s[j].does = "keep"
      PROVE  s[k].codes \cap {USAGE, INVALID_INPUT} = {}
  <2>1. j > n /\ j - n \in DOMAIN t /\ s[j] = t[j - n]
    BY <1>3, <1>5
  <2>2. k > n /\ k - n \in DOMAIN t /\ s[k] = t[k - n] /\ j - n < k - n
    BY <1>1, <1>2, <1>5, <2>1
  <2> QED
    BY <2>1, <2>2, <1>5 DEF WellOrdered
<1>6. ASSUME NEW i \in DOMAIN s, NEW j \in DOMAIN s, NEW k \in DOMAIN s, i < j, s[i].does = "write",
             s[j].codes # {}, s[k].does = "write"
      PROVE  k < j
  <2>1. i > n /\ i - n \in DOMAIN t /\ s[i] = t[i - n]
    BY <1>3, <1>6
  <2>2. k > n /\ k - n \in DOMAIN t /\ s[k] = t[k - n]
    BY <1>3, <1>6
  <2>3. j > n /\ j - n \in DOMAIN t /\ s[j] = t[j - n] /\ i - n < j - n
    BY <1>1, <1>2, <1>6, <2>1
  <2>4. k - n < j - n
    BY <2>1, <2>2, <2>3, <1>6 DEF WellOrdered
  <2> QED
    BY <1>1, <1>2, <2>4
<1> QED
  BY <1>1, <1>4, <1>5, <1>6 DEF WellOrdered

LEMMA OrderedAfterChecks ==
  ASSUME NEW p \in Seq(PlainStages), NEW t, WellOrdered(t)
  PROVE  WellOrdered(p \o t)
<1>1. t \in Seq(CommandStages) /\ p \in Seq(CommandStages) /\ Len(p) \in Nat
  BY DEF WellOrdered, PlainStages
<1>2. /\ p \o t \in Seq(CommandStages) /\ Len(p \o t) = Len(p) + Len(t)
      /\ \A k \in 1 .. Len(p) : (p \o t)[k] \in PlainStages
      /\ \A k \in 1 .. Len(t) : (p \o t)[Len(p) + k] = t[k]
  BY <1>1, ConcatProperties
<1> QED
  BY <1>1, <1>2, OrderedThen DEF ChecksThen

LEMMA TheSixCodes ==
  /\ \A c \in {USAGE, IO, INVALID_INPUT, DAEMON_OR_TERMINAL, INPUT_CONTRACT_REFUSED, PANIC} : c \in StageCodes
  /\ INPUT_CONTRACT_REFUSED \notin {USAGE, INVALID_INPUT} /\ DAEMON_OR_TERMINAL \notin {USAGE, INVALID_INPUT}
BY CodesAre DEF USAGE, IO, INVALID_INPUT, DAEMON_OR_TERMINAL, INPUT_CONTRACT_REFUSED, PANIC

LEMMA ChecksAre ==
  /\ Admit \in PlainStages /\ Stdin \in PlainStages /\ read_source_file \in PlainStages
  /\ Check({USAGE}) \in PlainStages /\ Check({IO}) \in PlainStages /\ Check({INVALID_INPUT}) \in PlainStages
  /\ Check({INPUT_CONTRACT_REFUSED}) \in PlainStages /\ Check({DAEMON_OR_TERMINAL}) \in PlainStages
  /\ Check({IO, INVALID_INPUT}) \in PlainStages /\ Check({USAGE, IO, INVALID_INPUT}) \in PlainStages
<1>1. /\ {USAGE} \subseteq StageCodes /\ {IO} \subseteq StageCodes /\ {INVALID_INPUT} \subseteq StageCodes
      /\ {INPUT_CONTRACT_REFUSED} \subseteq StageCodes /\ {DAEMON_OR_TERMINAL} \subseteq StageCodes
      /\ {IO, INVALID_INPUT} \subseteq StageCodes /\ {USAGE, IO, INVALID_INPUT} \subseteq StageCodes
  BY TheSixCodes
<1> QED
  BY <1>1, ChecksArePlain, StdinIsPlain DEF Admit, read_source_file

LEMMA EndingStages ==
  /\ Write \in CommandStages /\ Write.does = "write" /\ Write.codes = {}
  /\ \A C \in SUBSET StageCodes : /\ Judge(C) \in CommandStages /\ Judge(C).does = "judge" /\ Judge(C).codes = C
                             /\ Keep(C) \in CommandStages /\ Keep(C).does = "keep" /\ Keep(C).codes = C
                             /\ Serve(C) \in CommandStages /\ Serve(C).does = "serve" /\ Serve(C).codes = C
                             /\ Stage("refuse", C) \in CommandStages /\ Stage("refuse", C).does = "refuse"
                             /\ Stage("refuse", C).codes = C
  /\ {IO} \in SUBSET StageCodes /\ {INPUT_CONTRACT_REFUSED} \in SUBSET StageCodes /\ {DAEMON_OR_TERMINAL} \in SUBSET StageCodes
  /\ {PANIC} \in SUBSET StageCodes /\ {USAGE} \in SUBSET StageCodes /\ {IO, INVALID_INPUT} \in SUBSET StageCodes
<1>1. \A C \in SUBSET StageCodes : /\ Judge(C) \in CommandStages /\ Judge(C).does = "judge" /\ Judge(C).codes = C
                              /\ Keep(C) \in CommandStages /\ Keep(C).does = "keep" /\ Keep(C).codes = C
                              /\ Serve(C) \in CommandStages /\ Serve(C).does = "serve" /\ Serve(C).codes = C
                              /\ Stage("refuse", C) \in CommandStages /\ Stage("refuse", C).does = "refuse"
                              /\ Stage("refuse", C).codes = C
  BY DEF Judge, Keep, Serve, Stage, CommandStages, StageKinds, StageCodes
<1>2. Write \in CommandStages /\ Write.does = "write" /\ Write.codes = {}
  BY DEF Write, Stage, CommandStages, StageKinds
<1> QED
  BY <1>1, <1>2, TheSixCodes

LEMMA DrainIs ==
  /\ Drain \in CommandStages /\ Drain.does = "drain" /\ Drain.codes = {6, 130, 143}
  /\ Forced = {130, 143}
<1>1. Forced = {130, 143}
  BY DEF Forced, StopSignals, SIGNAL_BASE
<1> QED
  BY <1>1 DEF CommandStages, Drain, Stage, DAEMON_OR_TERMINAL

\* The stages that end a command.
LEMMA Endings ==
  /\ WellOrdered(<<>>) /\ WellOrdered(<<Write>>) /\ WellOrdered(<<Write, Write>>)
  /\ WellOrdered(<<Write, Judge({INPUT_CONTRACT_REFUSED})>>) /\ WellOrdered(<<Write, Judge({DAEMON_OR_TERMINAL})>>)
  /\ WellOrdered(<<Write, Judge({PANIC})>>)
  /\ WellOrdered(<<Keep({IO, INVALID_INPUT}), Write>>) /\ WellOrdered(<<Keep({IO})>>)
  /\ WellOrdered(<<Keep({DAEMON_OR_TERMINAL}), Write, Judge({DAEMON_OR_TERMINAL})>>)
  /\ WellOrdered(<<Serve({DAEMON_OR_TERMINAL})>>) /\ WellOrdered(<<Serve({IO})>>) /\ WellOrdered(refuse_withdrawn)
  /\ WellOrdered(<<Serve({DAEMON_OR_TERMINAL}), Drain>>)
<1>1. Write \in CommandStages /\ Write.does = "write" /\ Write.codes = {}
  BY EndingStages
<1>3. WellOrdered(<<>>)
  BY DEF WellOrdered
<1>4. ASSUME NEW a \in CommandStages, a.does = "write" => a.codes = {}
      PROVE  WellOrdered(<<a>>)
  <2>1. <<a>> \in Seq(CommandStages) /\ DOMAIN <<a>> = {1} /\ <<a>>[1] = a
    OBVIOUS
  <2> QED
    BY <2>1, <1>4 DEF WellOrdered
<1>5. ASSUME NEW b \in CommandStages, b.codes = {} \/ b.does # "write", b.does # "keep" \/ b.codes = {}
      PROVE  WellOrdered(<<Write, b>>)
  <2>1. /\ <<Write, b>> \in Seq(CommandStages) /\ DOMAIN <<Write, b>> = {1, 2}
        /\ <<Write, b>>[1] = Write /\ <<Write, b>>[2] = b
    BY <1>1
  <2> QED
    BY <1>1, <1>5, <2>1 DEF WellOrdered
<1>7. WellOrdered(<<Keep({IO, INVALID_INPUT}), Write>>)
  <2> DEFINE a == Keep({IO, INVALID_INPUT})
  <2>1. a \in CommandStages /\ a.does = "keep"
    BY EndingStages
  <2> HIDE DEF a
  <2>2. /\ <<a, Write>> \in Seq(CommandStages) /\ DOMAIN <<a, Write>> = {1, 2}
        /\ <<a, Write>>[1] = a /\ <<a, Write>>[2] = Write
    BY <1>1, <2>1
  <2>4. WellOrdered(<<a, Write>>)
    BY <1>1, <2>1, <2>2 DEF WellOrdered
  <2> QED
    BY <2>4 DEF a
<1>8. WellOrdered(<<Keep({DAEMON_OR_TERMINAL}), Write, Judge({DAEMON_OR_TERMINAL})>>)
  <2> DEFINE a == Keep({DAEMON_OR_TERMINAL})  b == Judge({DAEMON_OR_TERMINAL})
  <2>1. a \in CommandStages /\ a.does = "keep" /\ b \in CommandStages /\ b.does = "judge"
        /\ b.codes \cap {USAGE, INVALID_INPUT} = {}
    BY EndingStages, TheSixCodes
  <2> HIDE DEF a, b
  <2>2. /\ <<a, Write, b>> \in Seq(CommandStages) /\ DOMAIN <<a, Write, b>> = {1, 2, 3}
        /\ <<a, Write, b>>[1] = a /\ <<a, Write, b>>[2] = Write /\ <<a, Write, b>>[3] = b
    BY <1>1, <2>1
  <2>5. WellOrdered(<<a, Write, b>>)
    BY <1>1, <2>1, <2>2 DEF WellOrdered
  <2> QED
    BY <2>5 DEF a, b
<1>9. /\ WellOrdered(<<Write, Judge({INPUT_CONTRACT_REFUSED})>>) /\ WellOrdered(<<Write, Judge({DAEMON_OR_TERMINAL})>>)
      /\ WellOrdered(<<Write, Judge({PANIC})>>)
  BY EndingStages, <1>5
<1>10. WellOrdered(<<Write>>) /\ WellOrdered(<<Write, Write>>)
  BY <1>1, <1>4, <1>5
<1>11. /\ WellOrdered(<<Keep({IO})>>) /\ WellOrdered(<<Serve({DAEMON_OR_TERMINAL})>>) /\ WellOrdered(<<Serve({IO})>>)
       /\ WellOrdered(refuse_withdrawn)
  BY EndingStages, <1>4 DEF refuse_withdrawn
<1>12. WellOrdered(<<Serve({DAEMON_OR_TERMINAL}), Drain>>)
  <2> DEFINE a == Serve({DAEMON_OR_TERMINAL})
  <2>1. a \in CommandStages /\ a.does = "serve" /\ Drain \in CommandStages /\ Drain.does = "drain"
    BY EndingStages, DrainIs
  <2> HIDE DEF a
  <2>2. /\ <<a, Drain>> \in Seq(CommandStages) /\ DOMAIN <<a, Drain>> = {1, 2}
        /\ <<a, Drain>>[1] = a /\ <<a, Drain>>[2] = Drain
    BY <2>1
  <2>3. WellOrdered(<<a, Drain>>)
    BY <2>1, <2>2 DEF WellOrdered
  <2> QED
    BY <2>3 DEF a
<1> QED
  BY <1>3, <1>7, <1>8, <1>9, <1>10, <1>11, <1>12

\* An ending after checks that are written out with it.
LEMMA ChecksThenEnding ==
  /\ \A a \in PlainStages : \A x \in CommandStages :
         WellOrdered(<<x>>) => WellOrdered(<<a, x>>)
  /\ \A a, b \in PlainStages : \A x \in CommandStages :
         WellOrdered(<<x>>) => WellOrdered(<<a, b, x>>)
  /\ \A a, b, c, d \in PlainStages : \A x \in CommandStages :
         WellOrdered(<<x>>) => WellOrdered(<<a, b, c, d, x>>)
  /\ \A a \in PlainStages : \A x, y \in CommandStages :
         WellOrdered(<<x, y>>) => WellOrdered(<<a, x, y>>)
  /\ \A a, b \in PlainStages : \A x, y \in CommandStages :
         WellOrdered(<<x, y>>) => WellOrdered(<<a, b, x, y>>)
  /\ \A a, b, c \in PlainStages : \A x, y \in CommandStages :
         WellOrdered(<<x, y>>) => WellOrdered(<<a, b, c, x, y>>)
  /\ \A a, b, c, d \in PlainStages : \A x, y \in CommandStages :
         WellOrdered(<<x, y>>) => WellOrdered(<<a, b, c, d, x, y>>)
<1>0. \A a \in PlainStages : a \in CommandStages
  BY DEF PlainStages
<1>1. \A a \in PlainStages : \A x \in CommandStages :
         WellOrdered(<<x>>) => WellOrdered(<<a, x>>)
  <2> SUFFICES ASSUME NEW a \in PlainStages,
                      NEW x \in CommandStages, WellOrdered(<<x>>)
               PROVE  WellOrdered(<<a, x>>)
    OBVIOUS
  <2>1. a \in CommandStages
    BY <1>0
  <2>2. ChecksThen(<<a, x>>, 1, <<x>>)
    BY <2>1 DEF ChecksThen
  <2> QED
    BY <2>2, OrderedThen
<1>2. \A a, b \in PlainStages : \A x \in CommandStages :
         WellOrdered(<<x>>) => WellOrdered(<<a, b, x>>)
  <2> SUFFICES ASSUME NEW a \in PlainStages, NEW b \in PlainStages,
                      NEW x \in CommandStages, WellOrdered(<<x>>)
               PROVE  WellOrdered(<<a, b, x>>)
    OBVIOUS
  <2>1. a \in CommandStages /\ b \in CommandStages
    BY <1>0
  <2>2. ChecksThen(<<a, b, x>>, 2, <<x>>)
    BY <2>1 DEF ChecksThen
  <2> QED
    BY <2>2, OrderedThen
<1>3. \A a, b, c, d \in PlainStages : \A x \in CommandStages :
         WellOrdered(<<x>>) => WellOrdered(<<a, b, c, d, x>>)
  <2> SUFFICES ASSUME NEW a \in PlainStages, NEW b \in PlainStages,
                      NEW c \in PlainStages, NEW d \in PlainStages,
                      NEW x \in CommandStages, WellOrdered(<<x>>)
               PROVE  WellOrdered(<<a, b, c, d, x>>)
    OBVIOUS
  <2>1. a \in CommandStages /\ b \in CommandStages /\ c \in CommandStages /\ d \in CommandStages
    BY <1>0
  <2>2. ChecksThen(<<a, b, c, d, x>>, 4, <<x>>)
    BY <2>1 DEF ChecksThen
  <2> QED
    BY <2>2, OrderedThen
<1>4. \A a \in PlainStages : \A x, y \in CommandStages :
         WellOrdered(<<x, y>>) => WellOrdered(<<a, x, y>>)
  <2> SUFFICES ASSUME NEW a \in PlainStages,
                      NEW x \in CommandStages, NEW y \in CommandStages, WellOrdered(<<x, y>>)
               PROVE  WellOrdered(<<a, x, y>>)
    OBVIOUS
  <2>1. a \in CommandStages
    BY <1>0
  <2>2. ChecksThen(<<a, x, y>>, 1, <<x, y>>)
    BY <2>1 DEF ChecksThen
  <2> QED
    BY <2>2, OrderedThen
<1>5. \A a, b \in PlainStages : \A x, y \in CommandStages :
         WellOrdered(<<x, y>>) => WellOrdered(<<a, b, x, y>>)
  <2> SUFFICES ASSUME NEW a \in PlainStages, NEW b \in PlainStages,
                      NEW x \in CommandStages, NEW y \in CommandStages, WellOrdered(<<x, y>>)
               PROVE  WellOrdered(<<a, b, x, y>>)
    OBVIOUS
  <2>1. a \in CommandStages /\ b \in CommandStages
    BY <1>0
  <2>2. ChecksThen(<<a, b, x, y>>, 2, <<x, y>>)
    BY <2>1 DEF ChecksThen
  <2> QED
    BY <2>2, OrderedThen
<1>6. \A a, b, c \in PlainStages : \A x, y \in CommandStages :
         WellOrdered(<<x, y>>) => WellOrdered(<<a, b, c, x, y>>)
  <2> SUFFICES ASSUME NEW a \in PlainStages, NEW b \in PlainStages,
                      NEW c \in PlainStages,
                      NEW x \in CommandStages, NEW y \in CommandStages, WellOrdered(<<x, y>>)
               PROVE  WellOrdered(<<a, b, c, x, y>>)
    OBVIOUS
  <2>1. a \in CommandStages /\ b \in CommandStages /\ c \in CommandStages
    BY <1>0
  <2>2. ChecksThen(<<a, b, c, x, y>>, 3, <<x, y>>)
    BY <2>1 DEF ChecksThen
  <2> QED
    BY <2>2, OrderedThen
<1>7. \A a, b, c, d \in PlainStages : \A x, y \in CommandStages :
         WellOrdered(<<x, y>>) => WellOrdered(<<a, b, c, d, x, y>>)
  <2> SUFFICES ASSUME NEW a \in PlainStages, NEW b \in PlainStages,
                      NEW c \in PlainStages, NEW d \in PlainStages,
                      NEW x \in CommandStages, NEW y \in CommandStages, WellOrdered(<<x, y>>)
               PROVE  WellOrdered(<<a, b, c, d, x, y>>)
    OBVIOUS
  <2>1. a \in CommandStages /\ b \in CommandStages /\ c \in CommandStages /\ d \in CommandStages
    BY <1>0
  <2>2. ChecksThen(<<a, b, c, d, x, y>>, 4, <<x, y>>)
    BY <2>1 DEF ChecksThen
  <2> QED
    BY <2>2, OrderedThen
<1> QED
  BY <1>1, <1>2, <1>3, <1>4, <1>5, <1>6, <1>7

\* The stages a command begins with change nothing.
LEMMA Beginnings ==
  /\ sealed_review \in Seq(PlainStages) /\ stdin_patch \in Seq(PlainStages) /\ git_input \in Seq(PlainStages)
  /\ file_pair \in Seq(PlainStages) /\ review_cmd \in Seq(PlainStages) /\ deploy_cmd \in Seq(PlainStages)
  /\ daemon_cmd \in Seq(PlainStages) /\ allowed_repos \in Seq(PlainStages)
  /\ <<Admit, Check({IO, INVALID_INPUT}), Stdin>> \in Seq(PlainStages)
<1>1. sealed_review \in Seq(PlainStages)
  BY ChecksAre DEF sealed_review
<1>2. <<Admit, Check({USAGE}), Stdin>> \in Seq(PlainStages)
  BY ChecksAre
<1>3. <<Admit, Check({USAGE}), Check({USAGE, IO, INVALID_INPUT})>> \in Seq(PlainStages)
  BY ChecksAre
<1>4. git_input \in Seq(PlainStages)
  BY ChecksAre DEF git_input
<1>5. review_cmd \in Seq(PlainStages)
  BY ChecksAre DEF review_cmd
<1>6. deploy_cmd \in Seq(PlainStages) /\ daemon_cmd \in Seq(PlainStages) /\ allowed_repos \in Seq(PlainStages)
  BY ChecksAre DEF deploy_cmd, daemon_cmd, allowed_repos
<1>7. <<Admit, Check({IO, INVALID_INPUT}), Stdin>> \in Seq(PlainStages)
  BY ChecksAre
<1>8. stdin_patch \in Seq(PlainStages) /\ file_pair \in Seq(PlainStages)
  BY <1>1, <1>2, <1>3, ConcatProperties DEF stdin_patch, file_pair
<1> QED
  BY <1>1, <1>4, <1>5, <1>6, <1>7, <1>8

\* Those whose stages are written out.
LEMMA WrittenOut ==
  /\ WellOrdered(analyze)
  /\ WellOrdered(structural_cmd)
  /\ WellOrdered(highlight_cmd)
  /\ WellOrdered(semantic_cmd)
  /\ WellOrdered(bench_cmd)
  /\ WellOrdered(eval_cmd)
  /\ WellOrdered(learn_status)
  /\ WellOrdered(learn_record)
  /\ WellOrdered(agent_setup)
  /\ WellOrdered(agent_doctor)
  /\ WellOrdered(contract_output)
  /\ WellOrdered(print_help)
  /\ WellOrdered(doctor)
  /\ WellOrdered(emit_view)
  /\ WellOrdered(layout)
  /\ WellOrdered(run_jsonl_pipeline)
<1>1. WellOrdered(analyze)
  BY ChecksAre, Endings, EndingStages, ChecksThenEnding DEF analyze
<1>2. WellOrdered(structural_cmd)
  BY ChecksAre, Endings, EndingStages, ChecksThenEnding DEF structural_cmd
<1>3. WellOrdered(highlight_cmd)
  BY ChecksAre, Endings, EndingStages, ChecksThenEnding DEF highlight_cmd
<1>4. WellOrdered(semantic_cmd)
  BY ChecksAre, Endings, EndingStages, ChecksThenEnding DEF semantic_cmd
<1>5. WellOrdered(bench_cmd)
  BY ChecksAre, Endings, EndingStages, ChecksThenEnding DEF bench_cmd
<1>6. WellOrdered(eval_cmd)
  BY ChecksAre, Endings, EndingStages, ChecksThenEnding DEF eval_cmd
<1>7. WellOrdered(learn_status)
  BY ChecksAre, Endings, EndingStages, ChecksThenEnding DEF learn_status
<1>8. WellOrdered(learn_record)
  BY ChecksAre, Endings, EndingStages, ChecksThenEnding DEF learn_record
<1>9. WellOrdered(agent_setup)
  BY ChecksAre, Endings, EndingStages, ChecksThenEnding DEF agent_setup
<1>10. WellOrdered(agent_doctor)
  BY ChecksAre, Endings, EndingStages, ChecksThenEnding DEF agent_doctor
<1>11. WellOrdered(contract_output)
  BY ChecksAre, Endings, EndingStages, ChecksThenEnding DEF contract_output
<1>12. WellOrdered(print_help)
  BY ChecksAre, Endings, EndingStages, ChecksThenEnding DEF print_help
<1>13. WellOrdered(doctor)
  BY ChecksAre, Endings, EndingStages, ChecksThenEnding DEF doctor
<1>14. WellOrdered(emit_view)
  BY ChecksAre, Endings, EndingStages, ChecksThenEnding DEF emit_view
<1>15. WellOrdered(layout)
  BY ChecksAre, Endings, EndingStages, ChecksThenEnding DEF layout
<1>16. WellOrdered(run_jsonl_pipeline)
  BY ChecksAre, Endings, EndingStages, ChecksThenEnding DEF run_jsonl_pipeline
<1> QED
  BY <1>1, <1>2, <1>3, <1>4, <1>5, <1>6, <1>7, <1>8, <1>9, <1>10, <1>11, <1>12, <1>13, <1>14, <1>15, <1>16

\* Those that go on where others have begun.
LEMMA WrittenAfter ==
  /\ WellOrdered(findings_cmd) /\ WellOrdered(deploy_status) /\ WellOrdered(deploy_release) /\ WellOrdered(deploy_doctor)
  /\ WellOrdered(daemon_start) /\ WellOrdered(daemon_client) /\ WellOrdered(daemon_metrics_prometheus)
  /\ WellOrdered(daemon_stop) /\ WellOrdered(run_rpc) /\ WellOrdered(run_mcp)
  /\ WellOrdered(review_cmd \o <<Write>>) /\ WellOrdered(review_cmd \o <<Serve({DAEMON_OR_TERMINAL})>>)
<1>1. \A C \in SUBSET PlainStages : \A a \in C : <<a>> \in Seq(PlainStages)
  OBVIOUS
<1>2. WellOrdered(findings_cmd)
  <2>1. <<Admit, Check({IO, INVALID_INPUT}), Stdin>> \o sealed_review \in Seq(PlainStages)
    BY Beginnings, ConcatProperties
  <2> QED
    BY <2>1, Endings, OrderedAfterChecks DEF findings_cmd
<1>3. WellOrdered(deploy_status) /\ WellOrdered(deploy_release) /\ WellOrdered(deploy_doctor)
  BY Beginnings, Endings, OrderedAfterChecks DEF deploy_status, deploy_release, deploy_doctor
<1>4. WellOrdered(daemon_start)
  <2>1. WellOrdered(<<Check({USAGE}), Serve({DAEMON_OR_TERMINAL}), Drain>>)
    BY ChecksAre, Endings, EndingStages, DrainIs, ChecksThenEnding
  <2> QED
    BY <2>1, Beginnings, OrderedAfterChecks DEF daemon_start
<1>5. WellOrdered(daemon_client)
  BY ChecksAre, Endings, EndingStages, ChecksThenEnding, Beginnings, OrderedAfterChecks DEF daemon_client
<1>6. WellOrdered(daemon_metrics_prometheus)
  BY ChecksAre, Endings, EndingStages, ChecksThenEnding, Beginnings, OrderedAfterChecks DEF daemon_metrics_prometheus
<1>7. WellOrdered(daemon_stop)
  BY Beginnings, Endings, OrderedAfterChecks DEF daemon_stop
<1>8. WellOrdered(run_rpc) /\ WellOrdered(run_mcp)
  BY ChecksAre, Endings, EndingStages, ChecksThenEnding, Beginnings, OrderedAfterChecks DEF run_rpc, run_mcp
<1>9. WellOrdered(review_cmd \o <<Write>>) /\ WellOrdered(review_cmd \o <<Serve({DAEMON_OR_TERMINAL})>>)
  BY Beginnings, Endings, OrderedAfterChecks
<1> QED
  BY <1>2, <1>3, <1>4, <1>5, <1>6, <1>7, <1>8, <1>9

LEMMA PrintsOrdered == ASSUME NEW m \in PrintModes PROVE WellOrdered(Prints(m))
<1>1. WellOrdered(print_rank) /\ WellOrdered(print_patch_summary)
  BY Endings DEF print_rank, print_patch_summary
<1>2. WellOrdered(run_cluster)
  <2>1. <<Check({USAGE})>> \in Seq(PlainStages)
    BY ChecksAre
  <2> QED
    BY <1>1, <2>1, OrderedAfterChecks DEF run_cluster
<1> QED
  BY <1>1, <1>2, WrittenOut, Endings DEF Prints, PrintModes

LEMMA NamedOrdered == ASSUME NEW n \in DOMAIN Named, n # "council" PROVE WellOrdered(Named[n])
<1>1. WellOrdered(refuse_withdrawn)
  BY Endings
<1>2. DOMAIN Named = {"findings", "analyze", "structural", "highlight", "semantic", "bench",
                     "eval", "deploy", "release", "deployDoctor", "learn", "record", "start",
                     "client", "metrics", "stop", "council", "setup", "agents", "contract",
                     "help", "doctor", "rpc", "mcp", "unknown", "probe", "cockpit"}
  BY DEF Named
<1>3. /\ Named.findings = findings_cmd
      /\ Named.analyze = analyze
      /\ Named.structural = structural_cmd
      /\ Named.highlight = highlight_cmd
      /\ Named.semantic = semantic_cmd
      /\ Named.bench = bench_cmd
      /\ Named.eval = eval_cmd
      /\ Named.deploy = deploy_status
      /\ Named.release = deploy_release
      /\ Named.deployDoctor = deploy_doctor
      /\ Named.learn = learn_status
      /\ Named.record = learn_record
      /\ Named.start = daemon_start
      /\ Named.client = daemon_client
      /\ Named.metrics = daemon_metrics_prometheus
      /\ Named.stop = daemon_stop
      /\ Named.council = council
      /\ Named.setup = agent_setup
      /\ Named.agents = agent_doctor
      /\ Named.contract = contract_output
      /\ Named.help = print_help
      /\ Named.doctor = doctor
      /\ Named.rpc = run_rpc
      /\ Named.mcp = run_mcp
      /\ Named.unknown = refuse_withdrawn
      /\ Named.probe = review_cmd \o <<Write>>
      /\ Named.cockpit = review_cmd \o <<Serve({DAEMON_OR_TERMINAL})>>
  BY DEF Named
<1>4. /\ WellOrdered(Named.findings)
      /\ WellOrdered(Named.analyze)
      /\ WellOrdered(Named.structural)
      /\ WellOrdered(Named.highlight)
      /\ WellOrdered(Named.semantic)
      /\ WellOrdered(Named.bench)
      /\ WellOrdered(Named.eval)
      /\ WellOrdered(Named.deploy)
      /\ WellOrdered(Named.release)
      /\ WellOrdered(Named.deployDoctor)
      /\ WellOrdered(Named.learn)
      /\ WellOrdered(Named.record)
      /\ WellOrdered(Named.start)
      /\ WellOrdered(Named.client)
      /\ WellOrdered(Named.metrics)
      /\ WellOrdered(Named.stop)
      /\ WellOrdered(Named.setup)
      /\ WellOrdered(Named.agents)
      /\ WellOrdered(Named.contract)
      /\ WellOrdered(Named.help)
      /\ WellOrdered(Named.doctor)
      /\ WellOrdered(Named.rpc)
      /\ WellOrdered(Named.mcp)
      /\ WellOrdered(Named.unknown)
      /\ WellOrdered(Named.probe)
      /\ WellOrdered(Named.cockpit)
  BY <1>1, <1>3, WrittenOut, WrittenAfter
<1> QED
  BY <1>2, <1>4

LEMMA ScriptsOrdered ==
  ASSUME NEW c \in Commands, Family(c) = "engine"
  PROVE  WellOrdered(Script(c))
<1>1. CASE c \in (DOMAIN Named) \X {""}
  <2> DEFINE Known == DOMAIN Named  Bare == {""}
  <2>1. c \in Known \X Bare
    BY <1>1
  <2> HIDE DEF Known, Bare
  <2>2. c[1] \in Known /\ c[2] \in Bare
    BY <2>1
  <2> DEFINE n == c[1]
  <2>3. n \in DOMAIN Named /\ n # "council" /\ Script(c) = Named[n]
    BY <2>2 DEF Family, Script, Known, Bare
  <2> QED
    BY <2>3, NamedOrdered
<1>2. \A n \in DOMAIN Sourced : Sourced[n] \in Seq(PlainStages)
  BY Beginnings DEF Sourced
<1>3. CASE c \in (DOMAIN Sourced) \X PrintModes
  <2> PICK n \in DOMAIN Sourced, m \in PrintModes : c = <<n, m>>
    BY <1>3
  <2>1. Script(c) = Sourced[n] \o Prints(m)
    BY DEF Script, PrintModes
  <2> QED
    BY <1>2, <2>1, PrintsOrdered, OrderedAfterChecks
<1>4. CASE c = <<"stdin", "jsonl">>
  <2>1. Script(c) = stdin_patch \o run_jsonl_pipeline
    BY <1>4 DEF Script, Sourced
  <2> QED
    BY <2>1, Beginnings, WrittenOut, OrderedAfterChecks
<1>5. \/ c \in (DOMAIN Named) \X {""} \/ c = <<"stdin", "jsonl">>
      \/ c \in (DOMAIN Sourced) \X PrintModes
  BY DEF Commands
<1> QED
  BY <1>1, <1>3, <1>4, <1>5

\* A command is where its stages have brought it: it has written or kept something only when
\* it has passed a stage that does, and it ends as ExitTellsOutcome says.
CommandInv ==
  /\ command \in Commands \cup {NoCommand}
  /\ command = NoCommand => stage = 1 /\ wrote = 0 /\ kept = FALSE /\ code = Running
  /\ command # NoCommand /\ Family(command) = "engine" =>
       LET script == Script(command)
           Past(what) == \E k \in DOMAIN script : k < stage /\ script[k].does = what
       IN  /\ stage \in 1 .. Len(script) + 1
           /\ wrote \in Nat /\ (wrote > 0 => Past("write"))
           /\ kept \in BOOLEAN /\ (kept => Past("keep"))
  /\ ExitTellsOutcome

LEMMA NoCommandIsOne == NoCommand \notin Commands
<1>1. "none" \notin DOMAIN Named /\ "none" \notin DOMAIN Sourced
  BY DEF Named, Sourced
<1>2. NoCommand = <<"none", "">> /\ NoCommand # <<"stdin", "jsonl">>
  BY DEF NoCommand
<1> QED
  BY <1>1, <1>2 DEF Commands

\* The last of the stages that write.
LEMMA LastWrite ==
  ASSUME NEW s, WellOrdered(s), NEW j \in DOMAIN s, s[j].codes # {}, NEW i \in DOMAIN s, i < j, s[i].does = "write"
  PROVE  Max({k \in DOMAIN s : s[k].does = "write"}) < j
<1> DEFINE W == {k \in DOMAIN s : s[k].does = "write"}
<1>1. Len(s) \in Nat /\ DOMAIN s = 1 .. Len(s)
  BY DEF WellOrdered
<1>2. W \in SUBSET (1 .. Len(s)) /\ i \in W
  BY <1>1
<1>3. \A k \in W : k < j
  BY DEF WellOrdered
<1>4. Max(W) \in W
  BY <1>1, <1>2, Greatest
<1> QED
  BY <1>3, <1>4

\* A stage that may fail fails as the exit code says.
LEMMA FailTells ==
  ASSUME CommandInv, Fail
  PROVE  CommandInv'
<1> DEFINE script == Script(command)
<1>1. /\ command \in Commands /\ command # NoCommand /\ stage <= Len(script) /\ code' \in script[stage].codes
      /\ UNCHANGED <<command, stage, wrote, kept>>
  BY DEF Fail, Runs, At, CommandInv
<1>2. SUFFICES ASSUME Family(command) = "engine"
               PROVE  ExitTellsOutcome'
  BY <1>1, <1>2 DEF CommandInv, ExitTellsOutcome
<1>3. WellOrdered(script)
  BY <1>1, <1>2, ScriptsOrdered
<1>4. /\ stage \in DOMAIN script /\ Len(script) \in Nat
      /\ wrote > 0 => \E k \in DOMAIN script : k < stage /\ script[k].does = "write"
      /\ kept => \E k \in DOMAIN script : k < stage /\ script[k].does = "keep"
  BY <1>1, <1>2, <1>3 DEF CommandInv, WellOrdered
<1> HIDE DEF script
<1>5. /\ code' \in EXIT_CODES("engine") \cup (IF Drains(script, stage) THEN Forced ELSE {})
      /\ code' # SUCCESS
  <2>1. script[stage] \in CommandStages
    BY <1>3, <1>4 DEF WellOrdered
  <2>2. CASE script[stage] = Drain
    <3>1. Drains(script, stage)
      BY <1>4, <2>2, DrainIs DEF Drains
    <3>2. 6 \in EXIT_CODES("engine") /\ SUCCESS = 0
      BY DEF EXIT_CODES, DAEMON_OR_TERMINAL, SUCCESS
    <3> QED
      BY <1>1, <2>2, <3>1, <3>2, DrainIs
  <2>3. CASE script[stage] # Drain
    BY <1>1, <2>1, <2>3 DEF CommandStages, StageCodes
  <2> QED
    BY <2>2, <2>3
<1>6. code' \in {USAGE, INVALID_INPUT} => ~kept
  BY <1>1, <1>3, <1>4 DEF WellOrdered
<1>7. wrote > 0 => Max({k \in DOMAIN script : script[k].does = "write"}) < stage
  <2> SUFFICES ASSUME wrote > 0
               PROVE  Max({k \in DOMAIN script : script[k].does = "write"}) < stage
    OBVIOUS
  <2>1. PICK i \in DOMAIN script : i < stage /\ script[i].does = "write"
    BY <1>4
  <2> QED
    BY <1>1, <1>3, <1>4, <2>1, LastWrite
<1> QED
  BY <1>1, <1>5, <1>6, <1>7 DEF ExitTellsOutcome, script

LEMMA DoneTells ==
  ASSUME CommandInv, Done
  PROVE  CommandInv'
<1> DEFINE script == Script(command)
<1>1. /\ command \in Commands /\ command # NoCommand /\ stage <= Len(script) /\ stage' = stage + 1
      /\ kept' = (kept \/ script[stage].does = "keep") /\ code = Running /\ UNCHANGED <<command, wrote, code>>
  BY DEF Done, Runs, At, CommandInv
<1>2. ExitTellsOutcome'
  BY <1>1 DEF ExitTellsOutcome
<1>3. SUFFICES ASSUME Family(command) = "engine"
               PROVE  /\ stage' \in 1 .. Len(script) + 1
                      /\ wrote \in Nat
                      /\ wrote > 0 => \E k \in DOMAIN script : k < stage' /\ script[k].does = "write"
                      /\ kept' \in BOOLEAN
                      /\ kept' => \E k \in DOMAIN script : k < stage' /\ script[k].does = "keep"
  BY <1>1, <1>2, <1>3 DEF CommandInv
<1>4. WellOrdered(script)
  BY <1>1, <1>3, ScriptsOrdered
<1>5. /\ stage \in DOMAIN script /\ Len(script) \in Nat /\ wrote \in Nat /\ kept \in BOOLEAN
      /\ DOMAIN script = 1 .. Len(script)
      /\ wrote > 0 => \E k \in DOMAIN script : k < stage /\ script[k].does = "write"
      /\ kept => \E k \in DOMAIN script : k < stage /\ script[k].does = "keep"
  BY <1>1, <1>3, <1>4 DEF CommandInv, WellOrdered
<1> HIDE DEF script
<1>6. stage \in Nat /\ stage' \in 1 .. Len(script) + 1 /\ stage < stage' /\ \A k \in DOMAIN script : k < stage => k < stage'
  BY <1>1, <1>5
<1> QED
  BY <1>1, <1>5, <1>6

LEMMA EmitTells ==
  ASSUME CommandInv, emit
  PROVE  CommandInv'
<1> DEFINE script == Script(command)
<1>1. /\ command \in Commands /\ command # NoCommand /\ stage <= Len(script) /\ script[stage].does = "write"
      /\ code = Running /\ UNCHANGED <<command, kept>>
      /\ \/ stage' = stage + 1 /\ wrote' = wrote + 1 /\ UNCHANGED code
         \/ code' \in {SUCCESS, IO} /\ UNCHANGED <<stage, wrote>>
  BY DEF emit, Runs, At, CommandInv
<1>2. CASE Family(command) # "engine"
  BY <1>1, <1>2 DEF CommandInv, ExitTellsOutcome
<1>3. CASE Family(command) = "engine"
  <2>1. WellOrdered(script)
    BY <1>1, <1>3, ScriptsOrdered
  <2>2. /\ stage \in DOMAIN script /\ Len(script) \in Nat /\ wrote \in Nat /\ kept \in BOOLEAN
        /\ DOMAIN script = 1 .. Len(script)
        /\ wrote > 0 => \E k \in DOMAIN script : k < stage /\ script[k].does = "write"
        /\ kept => \E k \in DOMAIN script : k < stage /\ script[k].does = "keep"
    BY <1>1, <1>3, <2>1 DEF CommandInv, WellOrdered
  <2>3. CASE stage' = stage + 1 /\ wrote' = wrote + 1 /\ UNCHANGED code
    <3>1. stage \in Nat /\ stage' \in 1 .. Len(script) + 1 /\ stage < stage' /\ wrote' \in Nat
          /\ \A k \in DOMAIN script : k < stage => k < stage'
      BY <2>2, <2>3
    <3>2. ExitTellsOutcome'
      BY <1>1, <2>3 DEF ExitTellsOutcome
    <3> HIDE DEF script
    <3>3. /\ \E k \in DOMAIN script : k < stage' /\ script[k].does = "write"
          /\ kept => \E k \in DOMAIN script : k < stage' /\ script[k].does = "keep"
      BY <1>1, <2>2, <3>1
    <3> QED
      BY <1>1, <2>2, <3>1, <3>2, <3>3 DEF CommandInv, script
  <2>4. CASE code' \in {SUCCESS, IO} /\ UNCHANGED <<stage, wrote>>
    <3>1. SUCCESS \in EXIT_CODES("engine") /\ IO \in EXIT_CODES("engine") /\ SUCCESS \notin {USAGE, INVALID_INPUT}
          /\ IO \notin {USAGE, INVALID_INPUT}
      BY DEF EXIT_CODES, SUCCESS, IO, USAGE, INVALID_INPUT
    <3>2. stage \in {k \in DOMAIN script : script[k].does = "write"}
      BY <1>1, <2>2
    <3>3. ExitTellsOutcome'
      BY <1>1, <2>4, <3>1, <3>2 DEF ExitTellsOutcome
    <3> QED
      BY <1>1, <2>4, <3>3 DEF CommandInv
  <2> QED
    BY <1>1, <2>3, <2>4
<1> QED
  BY <1>2, <1>3

LEMMA ReturnTells ==
  ASSUME CommandInv, Return
  PROVE  CommandInv'
<1>1. /\ command # NoCommand /\ stage > Len(Script(command)) /\ code' = SUCCESS
      /\ UNCHANGED <<command, stage, wrote, kept>>
  BY DEF Return, Runs
<1>2. SUCCESS \in EXIT_CODES("engine") /\ SUCCESS \notin {USAGE, INVALID_INPUT}
  BY DEF EXIT_CODES, SUCCESS, USAGE, INVALID_INPUT
<1>3. ExitTellsOutcome'
  BY <1>1, <1>2 DEF ExitTellsOutcome
<1> QED
  BY <1>1, <1>3 DEF CommandInv

LEMMA StartTells ==
  ASSUME CommandInv, NEW c \in Commands, Start(c)
  PROVE  CommandInv'
<1>1. /\ command' = c /\ c # NoCommand /\ stage = 1 /\ wrote = 0 /\ kept = FALSE /\ code' \in {Running, IO}
      /\ UNCHANGED <<stage, wrote, kept>>
  BY NoCommandIsOne DEF Start, CommandInv
<1>2. IO \in EXIT_CODES("engine") /\ IO \notin {USAGE, INVALID_INPUT} /\ IO # SUCCESS
  BY DEF EXIT_CODES, IO, SUCCESS, USAGE, INVALID_INPUT
<1>3. ExitTellsOutcome'
  BY <1>1, <1>2 DEF ExitTellsOutcome
<1>4. Family(c) = "engine" => stage \in 1 .. Len(Script(c)) + 1
  <2> SUFFICES ASSUME Family(c) = "engine"
               PROVE  1 \in 1 .. Len(Script(c)) + 1
    BY <1>1
  <2>1. Len(Script(c)) \in Nat
    BY ScriptsOrdered DEF WellOrdered
  <2> QED
    BY <2>1
<1>5. wrote' \in Nat /\ ~(wrote' > 0) /\ kept' = FALSE /\ stage' = 1
  BY <1>1
<1>6. Family(command') = "engine" => stage' \in 1 .. Len(Script(command')) + 1
  BY <1>1, <1>4, <1>5
<1> QED
  BY <1>1, <1>3, <1>5, <1>6 DEF CommandInv

LEMMA CommandSteps == CommandInv /\ [CNext]_cliVars => CommandInv'
<1> SUFFICES ASSUME CommandInv, [CNext]_cliVars
             PROVE  CommandInv'
  OBVIOUS
<1>1. ASSUME UNCHANGED <<command, stage, wrote, kept, code>> PROVE CommandInv'
  BY <1>1 DEF CommandInv, ExitTellsOutcome
<1>2. ASSUME NEW w \in Words, Type(w) PROVE CommandInv'
  BY <1>1, <1>2 DEF Type
<1>3. ASSUME NEW src, NEW o, Choose(src, o) PROVE CommandInv'
  BY <1>1, <1>3 DEF Choose
<1>4. UNCHANGED cliVars => CommandInv'
  BY <1>1 DEF cliVars
<1> QED
  BY <1>2, <1>3, <1>4, FailTells, DoneTells, EmitTells, ReturnTells, StartTells DEF CNext

\* However a command's stages fail, its output is closed or full, and its input is refused, its
\* exit code says what happened, and only a daemon that a second signal ended in its drain exits
\* with a code outside the registry (exit.rs, main.rs, output.rs emit, serve.rs watch_signals).
THEOREM ExitAlwaysTellsOutcome == CSpec => []ExitTellsOutcome
<1>1. CInit => CommandInv
  BY DEF CInit, Idle, CommandInv, ExitTellsOutcome
<1>2. CommandInv => ExitTellsOutcome
  BY DEF CommandInv
<1> QED
  BY <1>1, <1>2, CommandSteps, PTL DEF CSpec

-----------------------------------------------------------------------------
(* Starts and stops *)
USE DistinctProcesses, LockExistsBoolean

\* Where a start holds the start lock.
LockedPCs == {"probe", "connect", "stale", "bind", "bound", "owned", "serving",
              "cleanup", "unlink", "close", "drain"}
\* Where a daemon that once listened has ended.
EndedPCs == {"exited", "failed", "killed"}

\* The places of the processes, as one function.
PlacesOK == pc \in [Procs -> StartPCs \cup StopPCs] /\ watcher \in [Starts -> WatcherPCs]

\* The start lock is held by the one start that is between taking it and its end,
\* and then no stop holds it shared.
LockInv == /\ \A p \in Starts : pc[p] \in LockedPCs <=> exclusive = p
           /\ exclusive # None => shared = {}

\* A watcher runs beside a daemon that serves or stops, and what is at the path when it, or
\* the daemon, is about to remove the socket is that socket or nothing.
WatcherInv == \A p \in Starts :
  /\ watcher[p] # "none" => pc[p] \in StoppingPCs
  /\ pc[p] = "unlink" \/ watcher[p] = "unlink" => file \in {p, None}

\* A daemon past its cleanup has no socket at the path.
GoneInv == \A p \in Starts : pc[p] \in {"close", "drain", "exited"} => file # p

\* The daemon that a stop asked had the lock by then; once the stop's helper had
\* the lock, that daemon has ended.
AskedInv == \A q \in Stops :
  /\ pc[q] \in {"asking", "blocked", "locked", "dropped", "true"} =>
       asked[q] \in Starts /\ pc[asked[q]] \in LockedPCs \cup EndedPCs
  /\ pc[q] \in {"locked", "dropped"} => pc[asked[q]] \in EndedPCs

\* With a lock file there, every stop opens it.
OpenedInv == /\ lock_file
             /\ \A q \in Stops : pc[q] # "new" => opened[q]

LockedInv == TypeOK /\ PlacesOK /\ LockInv /\ NotOrphaned /\ WatcherInv /\ GoneInv /\ AskedInv

-----------------------------------------------------------------------------
\* The lock admits one start at a time, so what another start does to the file it
\* does before it, or after it.
LEMMA LockedInvHolds == Spec => []LockedInv
<1> USE DEF Procs, StartPCs, StopPCs, WatcherPCs, StoppingPCs, LockedPCs, EndedPCs
<1>1. Init => LockedInv
  BY DEF Init, LockedInv, TypeOK, PlacesOK, LockInv, NotOrphaned, WatcherInv, GoneInv, AskedInv
<1>2. LockedInv /\ [Next]_vars => LockedInv'
  <2> SUFFICES ASSUME LockedInv, [Next]_vars
               PROVE  LockedInv'
    OBVIOUS
  <2> USE DEF LockedInv, TypeOK, PlacesOK, LockInv, NotOrphaned, WatcherInv, GoneInv, AskedInv, Goto, End
  <2>1. ASSUME NEW p \in Starts, TakeStartLock(p)
        PROVE  LockedInv'
    BY <2>1 DEF TakeStartLock
  <2>2. ASSUME NEW p \in Starts, Stat(p)
        PROVE  LockedInv'
    BY <2>2 DEF Stat
  <2>3. ASSUME NEW p \in Starts, Probe(p)
        PROVE  LockedInv'
    BY <2>3 DEF Probe
  <2>4. ASSUME NEW p \in Starts, RemoveStale(p)
        PROVE  LockedInv'
    BY <2>4 DEF RemoveStale
  <2>5. ASSUME NEW p \in Starts, Bind(p)
        PROVE  LockedInv'
    BY <2>5 DEF Bind
  <2>6. ASSUME NEW p \in Starts, Settle(p)
        PROVE  LockedInv'
    BY <2>6 DEF Settle
  <2>7. ASSUME NEW p \in Starts, LeaveLoop(p)
        PROVE  LockedInv'
    BY <2>7 DEF LeaveLoop
  <2>8. ASSUME NEW p \in Starts, StatOwned(p)
        PROVE  LockedInv'
    BY <2>8 DEF StatOwned
  <2>23. ASSUME NEW p \in Starts, RemoveOwned(p)
         PROVE  LockedInv'
    BY <2>23 DEF RemoveOwned
  <2>24. ASSUME NEW p \in Starts, ForceStat(p)
         PROVE  LockedInv'
    BY <2>24 DEF ForceStat
  <2>9. ASSUME NEW p \in Starts, CloseListener(p)
        PROVE  LockedInv'
    BY <2>9 DEF CloseListener
  <2>10. ASSUME NEW p \in Starts, Exit(p)
         PROVE  LockedInv'
    BY <2>10 DEF Exit
  <2>11. ASSUME NEW p \in Starts, ForcedExit(p)
         PROVE  LockedInv'
    BY <2>11 DEF ForcedExit
  <2>12. ASSUME NEW p \in Starts, Killed(p)
         PROVE  LockedInv'
    BY <2>12 DEF Killed
  <2>13. ASSUME NEW q \in Stops, OpenLock(q)
         PROVE  LockedInv'
    BY <2>13 DEF OpenLock
  <2>14. ASSUME NEW q \in Stops, Ask(q)
         PROVE  LockedInv'
    BY <2>14 DEF Ask, Listening
  <2>15. ASSUME NEW q \in Stops, Answered(q)
         PROVE  LockedInv'
    BY <2>15 DEF Answered
  <2>16. ASSUME NEW q \in Stops, Unanswered(q)
         PROVE  LockedInv'
    BY <2>16 DEF Unanswered
  <2>17. ASSUME NEW q \in Stops, LockShared(q)
         PROVE  LockedInv'
    BY <2>17 DEF LockShared
  <2>18. ASSUME NEW q \in Stops, DropLock(q)
         PROVE  LockedInv'
    BY <2>18 DEF DropLock
  <2>19. ASSUME NEW q \in Stops, Report(q)
         PROVE  LockedInv'
    BY <2>19 DEF Report
  <2>20. ASSUME NEW q \in Stops, WaitTimesOut(q)
         PROVE  LockedInv'
    BY <2>20 DEF WaitTimesOut
  <2>21. CASE OutsiderRemoves
    BY <2>21 DEF OutsiderRemoves
  <2>22. CASE UNCHANGED vars
    BY <2>22 DEF vars
  <2> QED
    BY <2>1, <2>2, <2>3, <2>4, <2>5, <2>6, <2>7, <2>8, <2>9, <2>10, <2>11, <2>12,
       <2>13, <2>14, <2>15, <2>16, <2>17, <2>18, <2>19, <2>20, <2>21, <2>22, <2>23, <2>24
    DEF Next, StartStep, StopStep
<1> QED
  BY <1>1, <1>2, PTL DEF Spec

-----------------------------------------------------------------------------
\* Two daemons never listen at the path: who listens holds the start lock.
THEOREM OneDaemonAlwaysListens == Spec => []OneDaemonListens
<1>1. LockedInv => OneDaemonListens
  <2> SUFFICES ASSUME LockedInv
               PROVE  Cardinality(Listening) <= 1
    BY DEF OneDaemonListens
  <2>1. Listening \subseteq {exclusive}
    BY DEF LockedInv, LockInv, Listening, LockedPCs
  <2>2. IsFiniteSet({exclusive}) /\ Cardinality({exclusive}) = 1
    BY FS_Singleton
  <2>3. Cardinality(Listening) <= Cardinality({exclusive})
    BY <2>1, <2>2, FS_Subset
  <2> QED
    BY <2>2, <2>3
<1> QED
  BY <1>1, LockedInvHolds, PTL

\* Nobody takes a running daemon's socket from the path, and a daemon that ended by
\* itself left none there, whether or not there was a lock file before.
THEOREM SocketIsItsDaemons == Spec => [](TypeOK /\ NotOrphaned /\ NoSocketLeft)
<1>1. LockedInv => TypeOK /\ NotOrphaned /\ NoSocketLeft
  BY DEF LockedInv, GoneInv, NoSocketLeft
<1> QED
  BY <1>1, LockedInvHolds, PTL

\* Where a daemon was started before, a stop that exits 0 has outlived the daemon it
\* asked.  Without a lock file a stop that comes before the first start finds none to
\* wait on, and may say so too early.
LEMMA OpenedHolds == ASSUME LockExists PROVE Spec => [](OpenedInv /\ StopMeansExited)
<1> DEFINE I == OpenedInv /\ StopMeansExited
<1>1. Init => I
  BY DEF Init, OpenedInv, StopMeansExited, Procs
<1>2. LockedInv /\ I /\ [Next]_vars => I'
  <2> SUFFICES ASSUME LockedInv, I, [Next]_vars
               PROVE  I'
    OBVIOUS
  <2> USE DEF OpenedInv, StopMeansExited, LockedInv, TypeOK, PlacesOK, LockInv, AskedInv,
              Goto, End, Procs, LockedPCs, EndedPCs
  <2>1. ASSUME NEW p \in Starts,
               \/ TakeStartLock(p) \/ StartStep(p) \/ LeaveLoop(p)
               \/ ForceStat(p) \/ ForcedExit(p) \/ Killed(p)
        PROVE  I'
    <3> DEFINE PathsKept ==
                 /\ \A x \in Procs \ {p} : pc'[x] = pc[x]
                 /\ pc[p] \in EndedPCs => pc'[p] = pc[p]
                 /\ lock_file' = lock_file \/ lock_file' = TRUE
                 /\ opened' = opened /\ asked' = asked
    <3>1. PathsKept
      <4>1. CASE TakeStartLock(p)
        BY <4>1 DEF TakeStartLock
      <4>2. CASE Stat(p)
        BY <4>2 DEF Stat
      <4>3. CASE Probe(p)
        BY <4>3 DEF Probe
      <4>4. CASE RemoveStale(p)
        BY <4>4 DEF RemoveStale
      <4>5. CASE Bind(p)
        BY <4>5 DEF Bind
      <4>6. CASE Settle(p)
        BY <4>6 DEF Settle
      <4>7. CASE LeaveLoop(p)
        BY <4>7 DEF LeaveLoop
      <4>8. CASE StatOwned(p)
        BY <4>8 DEF StatOwned
      <4>13. CASE RemoveOwned(p)
        BY <4>13 DEF RemoveOwned
      <4>14. CASE ForceStat(p)
        BY <4>14 DEF ForceStat, StoppingPCs
      <4>9. CASE CloseListener(p)
        BY <4>9 DEF CloseListener
      <4>10. CASE Exit(p)
        BY <4>10 DEF Exit
      <4>11. CASE ForcedExit(p)
        BY <4>11 DEF ForcedExit, StoppingPCs
      <4>12. CASE Killed(p)
        BY <4>12 DEF Killed
      <4> QED
        BY <2>1, <4>1, <4>2, <4>3, <4>4, <4>5, <4>6, <4>7, <4>8, <4>9, <4>10, <4>11, <4>12, <4>13, <4>14 DEF StartStep
    <3>2. OpenedInv'
      BY <3>1, ZenonT(40)
    <3>3. StopMeansExited'
      <4> SUFFICES ASSUME NEW q \in Stops, pc'[q] = "true"
                   PROVE  pc'[asked[q]] \in EndedPCs
        BY <3>1
      <4>1. pc[q] = "true"
        BY <3>1
      <4>2. asked[q] \in Starts /\ pc[asked[q]] \in EndedPCs
        BY <4>1
      <4> QED
        BY <3>1, <4>2
    <3> QED
      BY <3>2, <3>3
  <2>2. ASSUME NEW q \in Stops, OpenLock(q)
        PROVE  I'
    BY <2>2 DEF OpenLock
  <2>3. ASSUME NEW q \in Stops, StopStep(q)
        PROVE  I'
    <3>1. CASE Ask(q)
      BY <3>1 DEF Ask
    <3>2. CASE Answered(q)
      BY <3>2 DEF Answered, StoppingPCs
    <3>3. CASE Unanswered(q)
      BY <3>3 DEF Unanswered
    <3>4. CASE LockShared(q)
      BY <3>4 DEF LockShared
    <3>5. CASE DropLock(q)
      BY <3>5 DEF DropLock
    <3>6. CASE Report(q)
      BY <3>6 DEF Report
    <3> QED
      BY <2>3, <3>1, <3>2, <3>3, <3>4, <3>5, <3>6 DEF StopStep
  <2>4. ASSUME NEW q \in Stops, WaitTimesOut(q)
        PROVE  I'
    BY <2>4 DEF WaitTimesOut
  <2>5. CASE OutsiderRemoves
    BY <2>5 DEF OutsiderRemoves
  <2>6. CASE UNCHANGED vars
    BY <2>6 DEF vars
  <2> QED
    BY <2>1, <2>2, <2>3, <2>4, <2>5, <2>6 DEF Next
<1> QED
  BY <1>1, <1>2, LockedInvHolds, PTL DEF Spec

\* The path and a stop's exit 0 tell the truth, for every number of starts and stops
\* and every order of their steps, kills and removals of the socket by hand.
THEOREM PathAlwaysTellsTruth == ASSUME LockExists PROVE Spec => []PathTellsTruth
<1>1. TypeOK /\ NotOrphaned /\ NoSocketLeft /\ OneDaemonListens /\ OpenedInv /\ StopMeansExited
        => PathTellsTruth
  BY DEF PathTellsTruth
<1> QED
  BY <1>1, OneDaemonAlwaysListens, SocketIsItsDaemons, OpenedHolds, PTL

-----------------------------------------------------------------------------
(* The MCP server *)

\* What serve_server says to row r, given the version that was agreed on before it.
Said(m, r, agreed) ==
  LET To(why) == <<[row |-> r, id |-> Null, body |-> [error |-> why]]>>
  IN  CASE m.len > LINE_CAP -> To("INVALID_REQUEST")
        [] ~(m.len > LINE_CAP) /\ m.text = "blank" -> <<>>
        [] ~(m.len > LINE_CAP) /\ m.text = "bytes" -> To("PARSE_ERROR")
        [] OTHER -> handle_line(m, r, agreed)

Versions == ToSet(LEGACY) \cup {Absent}
Rows == 1 .. Len(lines)
Possible == {Said(lines[r], r, g)[1] : r \in Rows, g \in Versions}

\* The version that was agreed on before row r is none just when no handshake came before.
Knows(ls, r, g) == g = Absent <=> ~\E q \in 1 .. r - 1 : Handshake(ls[q])

McpOK ==
  /\ lines \in Sent /\ ends \in BOOLEAN
  /\ row \in 1 .. Len(lines) + 1 /\ col \in Nat /\ buffered \in Nat
  /\ over \in BOOLEAN /\ legacy \in Versions /\ replies \in Seq(Possible)

\* What is buffered is of the input, and what is held of the line is what was read of it.
ReaderInv ==
  /\ buffered <= Left
  /\ row \in Rows => col <= lines[row].len
  /\ row = Len(lines) + 1 => col = 0
  /\ over <=> col > LINE_CAP
  /\ held = IF over THEN 0 ELSE col

\* Each reply is the one of its line, given what was agreed on before that.
RepliesInv ==
  /\ Knows(lines, row, legacy)
  /\ {replies[k].row : k \in DOMAIN replies} = {r \in 1 .. row - 1 : Owed(lines[r]) /\ lines[r].len > 0}
  /\ \A k, l \in DOMAIN replies : k < l => replies[k].row < replies[l].row
  /\ \A k \in DOMAIN replies : \E r \in 1 .. row - 1, g \in Versions :
       Knows(lines, r, g) /\ Said(lines[r], r, g) = <<replies[k]>>

McpInv == McpOK /\ ReaderInv /\ RepliesInv

\* What SentValues says of a line.
LineOK(m) ==
  /\ m.len \in Nat /\ m.text \in {"utf8", "blank", "bytes"} /\ (m.len = 0 => m.text = "blank")
  /\ m.json \in {"bad", "other", "object"} /\ m.rpc \in BOOLEAN
  /\ m.id \in {"ok", "none", "bad"} /\ m.params \in {"object", "other"}
  /\ m.meta \in {"modern", "bare", "other", "none"}
  /\ m.call # Absent =>
       /\ m.call.engine \in {"value", "refused", "failed", "panicked", "gone"}
       /\ m.call.files \in Seq(ToSet(m.call.files))
       /\ \A f \in ToSet(m.call.files) : f.size \in Nat

LEMMA LineIs ==
  ASSUME NEW s \in Sent, NEW r \in 1 .. Len(s)
  PROVE  s \in Seq(ToSet(s)) /\ LineOK(s[r])
<1>1. s \in Seq(ToSet(s)) /\ s[r] \in ToSet(s)
  BY SentValues DEF ToSet
<1> QED
  BY <1>1, SentValues DEF LineOK

\* How a request is answered, as far as the properties tell.
LEMMA Requested ==
  ASSUME NEW m, NEW g, m.meta \in {"modern", "bare", "other", "none"}
  PROVE  /\ m.meta = "modern" => request(m, g) = request(m, Absent)
         /\ m.meta = "none" =>
              (request(m, g) = [error |-> "INVALID_PARAMS"]
                 <=> \/ g = Absent
                     \/ m.method = "tools/call" /\ (m.call = Absent \/ m.call.tool \notin Tools))
<1>1. ASSUME m.meta = "modern" PROVE request(m, g) = request(m, Absent)
  BY <1>1 DEF request, era_of
<1>2. CASE m.meta = "none" /\ g = Absent
  BY <1>2 DEF request, era_of
<1>3. CASE m.meta = "none" /\ g # Absent
  <2>1. request(m, g) = CASE m.method = "ping" -> [result |-> "pong"]
                          [] m.method = "tools/list" -> [result |-> Tools]
                          [] m.method = "tools/call" -> call_tool(m)
                          [] OTHER -> [error |-> "METHOD_NOT_FOUND"]
    BY <1>3 DEF request, era_of
  <2>2. call_tool(m) = [error |-> "INVALID_PARAMS"] <=> m.call = Absent \/ m.call.tool \notin Tools
    <3>1. CASE m.call = Absent \/ m.call.tool \notin Tools
      BY <3>1 DEF call_tool
    <3>2. CASE ~(m.call = Absent \/ m.call.tool \notin Tools)
      <4>1. \E x : call_tool(m) = [result |-> x]
        BY <3>2, Zenon DEF call_tool
      <4> QED
        BY <4>1, <3>2
    <3> QED
      BY <3>1, <3>2
  <2>3. [error |-> "METHOD_NOT_FOUND"] # [error |-> "INVALID_PARAMS"]
    OBVIOUS
  <2> QED
    BY <1>3, <2>1, <2>2, <2>3
<1> QED
  BY <1>1, <1>2, <1>3

\* A line is answered once or not at all, and as what was agreed on before it says.
LEMMA Saying ==
  ASSUME NEW m, LineOK(m), NEW r, NEW g
  PROVE  LET s == Said(m, r, g)
         IN  /\ ~(Owed(m) /\ m.len > 0) => s = <<>>
             /\ Owed(m) /\ m.len > 0 =>
                  /\ s = <<s[1]>> /\ s[1].row = r
                  /\ s[1].id = IF Readable(m) /\ m.json = "object" /\ m.id = "ok" THEN r ELSE Null
                  /\ Readable(m) /\ Acts(m) /\ m.method # "initialize" => s[1].body = request(m, g)
                  /\ "result" \in DOMAIN s[1].body /\ m.method = "tools/call" =>
                       Readable(m) /\ Acts(m)
<1>1. /\ m.len \in Nat /\ m.text \in {"utf8", "blank", "bytes"} /\ (m.len = 0 => m.text = "blank")
      /\ m.json \in {"bad", "other", "object"} /\ m.rpc \in BOOLEAN
      /\ m.id \in {"ok", "none", "bad"} /\ m.params \in {"object", "other"} /\ LINE_CAP \in Nat
  BY SentValues DEF LineOK
<1>2. CASE m.len > LINE_CAP
  BY <1>1, <1>2 DEF Said, Owed, Readable
<1>3. CASE ~(m.len > LINE_CAP) /\ m.text # "utf8"
  BY <1>1, <1>3 DEF Said, Owed, Readable
<1>4. CASE ~(m.len > LINE_CAP) /\ m.text = "utf8"
  <2>1. Said(m, r, g) = handle_line(m, r, g) /\ (Owed(m) <=> Asks(m)) /\ m.len > 0 /\ Readable(m)
    BY <1>1, <1>4 DEF Said, Owed, Readable
  <2>2. CASE m.json # "object"
    BY <1>1, <2>1, <2>2 DEF handle_line, Asks, Acts
  <2>3. CASE m.json = "object" /\ ~m.rpc
    BY <1>1, <2>1, <2>3 DEF handle_line, Asks, Acts
  <2>4. CASE m.json = "object" /\ m.rpc /\ m.id # "ok"
    BY <1>1, <2>1, <2>4 DEF handle_line, Asks, Acts
  <2>5. CASE m.json = "object" /\ m.rpc /\ m.id = "ok" /\ (m.method = Absent \/ m.params # "object")
    BY <1>1, <2>1, <2>5 DEF handle_line, Asks, Acts
  <2>6. CASE Acts(m)
    BY <1>1, <2>1, <2>6 DEF handle_line, Asks, Acts
  <2> QED
    BY <1>1, <2>2, <2>3, <2>4, <2>5, <2>6 DEF Acts
<1> QED
  BY <1>1, <1>2, <1>3, <1>4

LEMMA MinOfTwo == ASSUME NEW a \in Int, NEW b \in Int PROVE Min({a, b}) = IF a <= b THEN a ELSE b
BY Z3 DEF Min

\* The bytes of the lines up to each.
BytesTo(ls, e) ==
  CHOOSE u : u = [r \in 0 .. Len(ls) |->
                    IF r = 0 THEN 0 ELSE u[r - 1] + (ls[r].len + (IF r < Len(ls) \/ e THEN 1 ELSE 0))]

LEMMA LeftIs == Left = BytesTo(lines, ends)[Len(lines)] - BytesTo(lines, ends)[row - 1] - col
BY DEF Left, BytesTo, Width

LEMMA BytesToAre ==
  ASSUME lines \in Sent, ends \in BOOLEAN
  PROVE  /\ BytesTo(lines, ends) \in [0 .. Len(lines) -> Nat] /\ BytesTo(lines, ends)[0] = 0
         /\ \A r \in Rows : Width(r) \in Nat /\ BytesTo(lines, ends)[r] = BytesTo(lines, ends)[r - 1] + Width(r)
<1> DEFINE n == Len(lines)
           G == [r \in 1 .. n |-> [a \in Nat |-> a + Width(r)]]
           Is(u) == u = [r \in 0 .. n |-> IF r = 0 THEN 0 ELSE u[r - 1] + Width(r)]
           z == 0
<1>1. n \in Nat /\ z \in Nat
  BY SentValues
<1>2. \A r \in 1 .. n : Width(r) \in Nat
  BY LineIs DEF Width, LineOK
<1>3. G \in [1 .. n -> [Nat -> Nat]]
  BY <1>2
<1>4. PICK u : StepsFrom(u, n, Nat, z, G)
  <2> HIDE DEF n, z, G
  <2> QED
    BY <1>1, <1>3, Recursion
<1>5. \A r \in 1 .. n : r - 1 \in 0 .. n
  BY <1>1
<1>6. Is(u)
  <2>1. ASSUME NEW r \in 0 .. n PROVE u[r] = IF r = 0 THEN 0 ELSE u[r - 1] + Width(r)
    <3>1. CASE r = 0
      BY <3>1, <1>4 DEF StepsFrom
    <3>2. CASE r # 0
      <4>1. r \in 1 .. n /\ u[r - 1] \in Nat
        BY <3>2, <1>4, <1>1 DEF StepsFrom
      <4>2. u[r] = G[r][u[r - 1]]
        BY <4>1, <1>4 DEF StepsFrom
      <4> QED
        BY <4>1, <4>2, <3>2
    <3> QED
      BY <3>1, <3>2
  <2>2. u = [r \in 0 .. n |-> u[r]]
    BY <1>4 DEF StepsFrom
  <2> QED
    BY <2>1, <2>2
<1>7. Is(BytesTo(lines, ends))
  BY <1>6 DEF BytesTo, Width
<1> DEFINE v == BytesTo(lines, ends)
<1> HIDE DEF v
<1>8. v = [k \in 0 .. n |-> v[k]] /\ v[0] = 0 /\ \A k \in 1 .. n : v[k] = v[k - 1] + Width(k)
  BY <1>1, <1>7 DEF v
<1>9. \A k \in 1 .. n : v[k - 1] \in Nat => v[k] \in Nat
  <2> SUFFICES ASSUME NEW k \in 1 .. n, v[k - 1] \in Nat PROVE v[k] \in Nat
    OBVIOUS
  <2>1. v[k] = v[k - 1] + Width(k) /\ Width(k) \in Nat
    BY <1>2, <1>8
  <2> QED
    BY <2>1
<1>10. v \in [0 .. n -> Nat]
  <2>1. v[0] \in Nat /\ v = [k \in 0 .. n |-> v[k]] /\ n \in Nat
    BY <1>1, <1>8
  <2> HIDE DEF n
  <2> QED
    BY <2>1, <1>9, StaysIn
<1> QED
  BY <1>2, <1>8, <1>10 DEF v, Rows

\* The row is done: what serve_server does with the line.
RowAnswered ==
  /\ row \in Rows /\ row' = row + 1
  /\ replies' = replies \o Said(lines[row], row, legacy)
  /\ legacy' = IF Readable(lines[row]) THEN Agreed(lines[row], legacy) ELSE legacy

\* The line answered is the one of the row, and too long just when it is over the cap.
LEMMA AnswersTheLine ==
  ASSUME McpOK, row \in Rows, row' = row + 1, NEW long \in BOOLEAN,
         long <=> lines[row].len > LINE_CAP, Answer(row, long)
  PROVE  RowAnswered
<1>1. LINE_CAP \in Nat /\ lines[row].len \in Nat
  BY SentValues, LineIs DEF McpOK, LineOK, Rows
<1>2. replies' = replies \o Said(lines[row], row, legacy)
  <2>1. CASE long
    BY <2>1 DEF Answer, Said
  <2>2. CASE ~long
    BY <2>2 DEF Answer, Said
  <2> QED
    BY <2>1, <2>2
<1>3. legacy' = IF Readable(lines[row]) THEN Agreed(lines[row], legacy) ELSE legacy
  BY <1>1 DEF Answer, Readable
<1> QED
  BY <1>2, <1>3 DEF RowAnswered

\* What is buffered of the input, told by the bytes of its lines.
LEMMA Buffered ==
  ASSUME McpOK, ReaderInv
  PROVE  /\ Left \in Int
         /\ row \notin Rows => Left = 0 /\ buffered = 0
         /\ row = Len(lines) /\ row \in Rows => Left = Width(row) - col
         /\ row \in Rows => /\ lines[row].len \in Nat /\ col <= lines[row].len
                            /\ Width(row) \in {lines[row].len, lines[row].len + 1}
                            /\ Width(row) = lines[row].len => row = Len(lines)
<1> DEFINE B == BytesTo(lines, ends)
<1>1. Len(lines) \in Nat /\ row \in 1 .. Len(lines) + 1 /\ col \in Nat /\ buffered \in Nat
  BY SentValues DEF McpOK
<1>2. B \in [0 .. Len(lines) -> Nat] /\ \A r \in Rows : Width(r) \in Nat /\ B[r] = B[r - 1] + Width(r)
  BY BytesToAre DEF McpOK
<1>3. Left = B[Len(lines)] - B[row - 1] - col
  BY LeftIs
<1> HIDE DEF B
<1>4. row - 1 \in 0 .. Len(lines) /\ Len(lines) \in 0 .. Len(lines) /\ (row \notin Rows => row = Len(lines) + 1)
  BY <1>1 DEF Rows
<1>5. B[row - 1] \in Nat /\ B[Len(lines)] \in Nat
  BY <1>2, <1>4
<1>6. Left \in Int
  BY <1>1, <1>3, <1>5
<1>7. row \notin Rows => Left = 0 /\ buffered = 0
  BY <1>1, <1>3, <1>4, <1>5 DEF ReaderInv
<1>8. row = Len(lines) /\ row \in Rows => Left = Width(row) - col
  BY <1>1, <1>2, <1>3, <1>5
<1>9. ASSUME row \in Rows
      PROVE  /\ lines[row].len \in Nat /\ col <= lines[row].len
             /\ Width(row) \in {lines[row].len, lines[row].len + 1}
             /\ Width(row) = lines[row].len => row = Len(lines)
  <2>1. lines[row].len \in Nat
    BY <1>9, LineIs DEF McpOK, LineOK, Rows
  <2>2. row <= Len(lines)
    BY <1>9, <1>1 DEF Rows
  <2> QED
    BY <1>1, <1>9, <2>1, <2>2 DEF ReaderInv, Width
<1> QED
  BY <1>6, <1>7, <1>8, <1>9

\* What the reader does leaves it so, and tells either nothing or what it is to tell.
LEMMA ReaderStep ==
  ASSUME McpOK, ReaderInv, [MNext]_mcpVars
  PROVE  /\ UNCHANGED <<lines, ends>>
         /\ row' \in 1 .. Len(lines) + 1 /\ col' \in Nat /\ buffered' \in Nat /\ over' \in BOOLEAN
         /\ ReaderInv'
         /\ UNCHANGED <<row, legacy, replies>> \/ RowAnswered
<1> DEFINE B == BytesTo(lines, ends)
           n == Len(lines)
<1>1. /\ n \in Nat /\ row \in 1 .. n + 1 /\ col \in Nat /\ buffered \in Nat /\ over \in BOOLEAN
      /\ Chunk \in Nat \ {0} /\ LINE_CAP \in Nat
  BY SentValues DEF McpOK
<1>2. /\ Left \in Int
      /\ row \notin Rows => Left = 0 /\ buffered = 0
      /\ row = n /\ row \in Rows => Left = Width(row) - col
      /\ row \in Rows => /\ lines[row].len \in Nat /\ col <= lines[row].len
                         /\ Width(row) \in {lines[row].len, lines[row].len + 1}
                         /\ Width(row) = lines[row].len => row = n
  BY Buffered
<1>3. B \in [0 .. n -> Nat] /\ \A r \in Rows : B[r] = B[r - 1] + Width(r)
  BY BytesToAre DEF McpOK
<1>4. Left = B[n] - B[row - 1] - col
  BY LeftIs
<1>5. ASSUME UNCHANGED <<lines, ends>> PROVE Left' = B[n] - B[row' - 1] - col'
  <2>1. Left' = BytesTo(lines', ends')[Len(lines')] - BytesTo(lines', ends')[row' - 1] - col'
    BY DEF Left, BytesTo, Width
  <2> QED
    BY <1>5, <2>1
<1> HIDE DEF B
<1>6. row - 1 \in 0 .. n /\ n \in 0 .. n /\ (row \in Rows => row \in 0 .. n /\ row + 1 \in 1 .. n + 1)
  BY <1>1 DEF Rows
<1>7. B[n] \in Nat /\ B[row - 1] \in Nat /\ (row \in Rows => B[row] \in Nat)
  BY <1>3, <1>6
<1>8. buffered <= Left /\ (over <=> col > LINE_CAP) /\ held = (IF over THEN 0 ELSE col)
      /\ (row = n + 1 => col = 0)
  BY DEF ReaderInv
<1>9. CASE UNCHANGED mcpVars
  <2>1. UNCHANGED <<lines, ends, row, col, buffered, held, over, legacy, replies>>
    BY <1>9 DEF mcpVars
  <2>2. Left' = Left
    BY <2>1, <1>4, <1>5
  <2> QED
    BY <2>1, <2>2, <1>1 DEF ReaderInv, Rows
<1>10. CASE fill_buf
  <2>1. /\ UNCHANGED <<lines, ends, row, col, held, over, legacy, replies>>
        /\ buffered' \in Nat /\ buffered' <= Left
    BY <1>10, <1>1, <1>2, MinOfTwo DEF fill_buf
  <2>2. Left' = Left
    BY <2>1, <1>4, <1>5
  <2> QED
    BY <2>1, <2>2, <1>1 DEF ReaderInv, Rows
<1>11. CASE read_line
  <2> DEFINE chunk == Min({buffered, lines[row].len - col})
             found == buffered > chunk
             len == lines[row].len
  <2>1. /\ buffered > 0 /\ buffered' = buffered - (chunk + (IF found THEN 1 ELSE 0))
        /\ UNCHANGED <<lines, ends>>
        /\ found => Answer(row, TooLong(chunk)) /\ held' = 0 /\ over' = FALSE /\ row' = row + 1 /\ col' = 0
        /\ ~found => /\ held' = (IF TooLong(chunk) THEN 0 ELSE held + chunk) /\ over' = TooLong(chunk)
                     /\ UNCHANGED <<legacy, replies>> /\ row' = row /\ col' = col + chunk
    BY <1>11 DEF read_line, After
  <2>2. row \in Rows /\ len \in Nat /\ col <= len
    BY <2>1, <1>1, <1>2
  <2>3. chunk = (IF buffered <= len - col THEN buffered ELSE len - col) /\ chunk \in Nat
    <3>1. buffered \in Int /\ len - col \in Int
      BY <2>2, <1>1
    <3>2. chunk = IF buffered <= len - col THEN buffered ELSE len - col
      BY <3>1, MinOfTwo
    <3> QED
      BY <3>2, <2>2, <1>1
  <2> HIDE DEF chunk
  <2>4. TooLong(chunk) \in BOOLEAN /\ (TooLong(chunk) <=> col + chunk > LINE_CAP)
    BY <2>3, <1>1, <1>8 DEF TooLong
  <2>5. Left' = B[n] - B[row' - 1] - col'
    BY <2>1, <1>5
  <2>6. CASE found
    <3>1. col + chunk = len /\ buffered > len - col
      BY <2>6, <2>2, <2>3, <1>1
    <3>2. Width(row) = len + 1
      BY <3>1, <2>2, <1>1, <1>2, <1>8
    <3>3. RowAnswered
      BY <2>1, <2>2, <2>4, <2>6, <3>1, AnswersTheLine
    <3>4. row' - 1 = row /\ B[row] = B[row - 1] + Width(row)
      BY <2>1, <2>2, <2>6, <1>1, <1>3
    <3>5. buffered' \in Nat /\ buffered' <= Left'
      <4>1. col' = 0 /\ B[row' - 1] = B[row] /\ B[row] \in Nat
        BY <2>1, <2>2, <2>6, <3>4, <1>7
      <4>2. Left' = Left - (chunk + 1)
        <5>1. Left' = B[n] - B[row]
          BY <2>5, <4>1, <1>7
        <5>2. B[row] = B[row - 1] + (len + 1) /\ chunk = len - col
          BY <3>1, <3>2, <3>4, <2>2, <2>3, <1>1
        <5>3. B[n] \in Int /\ B[row - 1] \in Int /\ len \in Int /\ col \in Int /\ B[row] \in Int
          BY <1>1, <1>7, <2>2
        <5>4. Left - (chunk + 1) = (B[n] - B[row - 1] - col) - ((len - col) + 1)
          <6>1. chunk = len - col /\ Left = B[n] - B[row - 1] - col
            BY <5>2, <1>4
          <6> QED
            BY <6>1
        <5>5. (B[n] - B[row - 1] - col) - ((len - col) + 1) = B[n] - (B[row - 1] + (len + 1))
          BY <5>3
        <5> QED
          BY <5>1, <5>2, <5>4, <5>5
      <4>3. buffered' = buffered - (chunk + 1) /\ buffered >= chunk + 1
        BY <2>1, <2>3, <2>6, <1>1
      <4>4. buffered \in Int /\ chunk \in Int /\ Left \in Int /\ buffered <= Left
        BY <2>3, <1>1, <1>2, <1>8
      <4> QED
        BY <4>2, <4>3, <4>4
    <3>6. ReaderInv'
      BY <2>1, <2>6, <3>5, <1>1, LineIs DEF ReaderInv, Rows, LineOK, McpOK
    <3>7. row' \in 1 .. n + 1 /\ col' \in Nat /\ over' \in BOOLEAN
      <4>1. row' = row + 1 /\ col' = 0 /\ over' = FALSE
        BY <2>1, <2>6
      <4> QED
        BY <4>1, <2>2, <1>6
    <3> QED
      BY <2>1, <3>3, <3>5, <3>6, <3>7
  <2>7. CASE ~found
    <3>1. row' = row /\ col' = col + chunk /\ buffered' = buffered - chunk /\ chunk = buffered
      BY <2>1, <2>2, <2>3, <2>7, <1>1
    <3>2. buffered' \in Nat /\ buffered' <= Left' /\ col' <= len /\ col' \in Nat /\ row \in 1 .. n
      <4>1. B[row' - 1] = B[row - 1]
        BY <3>1
      <4>2. Left' = Left - chunk
        <5>1. Left' = B[n] - B[row - 1] - (col + chunk)
          BY <2>5, <3>1, <4>1
        <5>2. B[n] \in Int /\ B[row - 1] \in Int /\ col \in Int /\ chunk \in Int
          BY <2>3, <1>1, <1>7
        <5> QED
          BY <5>1, <5>2, <1>4
      <4>3. buffered' = 0 /\ row \in 1 .. n /\ col + chunk <= len /\ col + chunk \in Nat
        BY <2>2, <2>3, <3>1, <1>1 DEF Rows
      <4> QED
        BY <4>2, <4>3, <3>1, <1>1, <1>2, <1>8
    <3>3. (over' <=> col' > LINE_CAP) /\ held' = IF over' THEN 0 ELSE col'
      <4>1. over' = TooLong(chunk) /\ held' = (IF TooLong(chunk) THEN 0 ELSE held + chunk)
        BY <2>1, <2>7
      <4>2. ~TooLong(chunk) => held + chunk = col'
        BY <3>1, <1>8 DEF TooLong
      <4> QED
        BY <2>4, <3>1, <4>1, <4>2
    <3>4. ReaderInv'
      BY <2>1, <3>1, <3>2, <3>3, <1>1 DEF ReaderInv, Rows
    <3> QED
      BY <2>1, <2>4, <2>7, <3>1, <3>2, <3>4, <1>1
  <2> QED
    BY <2>6, <2>7
<1>12. CASE end_of_input
  <2>1. /\ buffered = 0 /\ Left = 0 /\ row = n /\ row' = row + 1 /\ col' = 0 /\ held' = 0 /\ over' = FALSE
        /\ UNCHANGED <<lines, ends, buffered>>
        /\ IF held = 0 /\ ~over THEN UNCHANGED <<legacy, replies>> ELSE Answer(row, over)
    BY <1>12 DEF end_of_input
  <2>2. row \in Rows /\ lines[row].len \in Nat /\ col = lines[row].len
    <3>1. row \in Rows
      BY <2>1, <1>1 DEF Rows
    <3> QED
      BY <3>1, <2>1, <1>1, <1>2
  <2>3. over <=> lines[row].len > LINE_CAP
    BY <2>2, <1>8
  <2>4. RowAnswered
    <3>1. CASE held = 0 /\ ~over
      <4>1. lines[row].len = 0 /\ lines[row].text = "blank" /\ UNCHANGED <<legacy, replies>>
        BY <2>1, <2>2, <3>1, <1>8, LineIs DEF LineOK, McpOK, Rows
      <4>2. Said(lines[row], row, legacy) = <<>> /\ ~Readable(lines[row])
        BY <4>1, <1>1 DEF Said, Readable
      <4>3. replies \o <<>> = replies
        BY DEF McpOK
      <4> QED
        BY <2>1, <2>2, <4>1, <4>2, <4>3 DEF RowAnswered
    <3>2. CASE ~(held = 0 /\ ~over)
      BY <2>1, <2>2, <2>3, <3>2, <1>1, AnswersTheLine
    <3> QED
      BY <3>1, <3>2
  <2>5. Left' = 0
    <3>1. row' - 1 = n
      BY <2>1, <1>1
    <3> QED
      BY <3>1, <2>1, <1>5, <1>7
  <2>6. ReaderInv'
    BY <2>1, <2>5, <1>1 DEF ReaderInv, Rows
  <2> QED
    BY <2>1, <2>2, <2>4, <2>6, <1>1, <1>6
<1> QED
  BY <1>9, <1>10, <1>11, <1>12 DEF MNext

LEMMA RepliesStep ==
  ASSUME McpOK, RepliesInv, UNCHANGED lines, UNCHANGED <<row, legacy, replies>> \/ RowAnswered
  PROVE  legacy' \in Versions /\ replies' \in Seq(Possible) /\ RepliesInv'
<1>1. CASE UNCHANGED <<row, legacy, replies>>
  BY <1>1 DEF McpOK, RepliesInv, Knows
<1>2. CASE RowAnswered
  <2> DEFINE m == lines[row]
             s == Said(m, row, legacy)
             n == Len(replies)
  <2>1. /\ row \in Rows /\ row \in Nat /\ row' = row + 1 /\ lines' = lines /\ legacy \in Versions
        /\ replies \in Seq(Possible) /\ n \in Nat /\ DOMAIN replies = 1 .. n
    BY <1>2 DEF RowAnswered, McpOK, Rows
  <2>2. replies' = replies \o s
    BY <1>2 DEF RowAnswered
  <2>3. legacy' = IF Readable(m) THEN Agreed(m, legacy) ELSE legacy
    BY <1>2 DEF RowAnswered
  <2>4. /\ ~(Owed(m) /\ m.len > 0) => s = <<>>
        /\ Owed(m) /\ m.len > 0 => s = <<s[1]>> /\ s[1].row = row
    BY <2>1, LineIs, Saying DEF McpOK, Rows
  <2>5. s[1] \in Possible
    BY <2>1 DEF Possible
  <2>6. legacy' \in Versions /\ (legacy' = Absent <=> legacy = Absent /\ ~Handshake(m))
    BY <2>1, <2>3, NoVersion DEF Agreed, initialize, Versions, LEGACY, Handshake, ToSet
  <2>7. \A r : 1 <= r /\ r <= row /\ r \in Nat => (r \in 1 .. row - 1 \/ r = row)
    BY <2>1
  <2>8. 1 .. row = (1 .. row - 1) \cup {row} /\ row' - 1 = row /\ row \notin 1 .. row - 1
    BY <2>1 DEF Rows
  <2> HIDE DEF s, m
  <2>9. Knows(lines', row', legacy') 
    <3>1. Knows(lines, row, legacy)
      BY DEF RepliesInv
    <3> QED
      BY <3>1, <2>1, <2>6, <2>8 DEF Knows, m
  <2>10. CASE ~(Owed(m) /\ m.len > 0)
    <3>1. replies' = replies
      BY <2>1, <2>2, <2>4, <2>10
    <3> QED
      BY <3>1, <2>1, <2>6, <2>8, <2>9, <2>10 DEF RepliesInv, Knows, m
  <2>11. CASE Owed(m) /\ m.len > 0
    <3>1. s = <<s[1]>> /\ s[1].row = row
      BY <2>4, <2>11
    <3>2. /\ replies' \in Seq(Possible) /\ DOMAIN replies' = 1 .. n + 1
          /\ \A k \in 1 .. n : replies'[k] = replies[k]
          /\ replies'[n + 1] = s[1]
      <4> DEFINE x == s[1]
      <4>1. replies' = replies \o <<x>> /\ x \in Possible
        BY <2>2, <2>5, <3>1
      <4> HIDE DEF x
      <4>2. <<x>> \in Seq(Possible) /\ Len(<<x>>) = 1 /\ <<x>>[1] = x
        BY <4>1
      <4>3. /\ replies' \in Seq(Possible) /\ Len(replies') = n + 1
            /\ \A k \in 1 .. n + 1 : replies'[k] = IF k <= n THEN replies[k] ELSE <<x>>[k - n]
        <5> DEFINE t == <<x>>
        <5> HIDE DEF t
        <5>1. t \in Seq(Possible) /\ Len(t) = 1 /\ replies' = replies \o t
          BY <4>1, <4>2 DEF t
        <5>2. /\ replies \o t \in Seq(Possible) /\ Len(replies \o t) = Len(replies) + Len(t)
              /\ \A k \in 1 .. Len(replies) + Len(t) :
                   (replies \o t)[k] = IF k <= Len(replies) THEN replies[k] ELSE t[k - Len(replies)]
          BY <5>1, <2>1, ConcatProperties
        <5> QED
          BY <5>1, <5>2 DEF t
      <4>4. DOMAIN replies' = 1 .. n + 1 /\ replies'[n + 1] = x /\ \A k \in 1 .. n : replies'[k] = replies[k]
        BY <4>2, <4>3, <2>1
      <4> QED
        BY <4>3, <4>4 DEF x
    <3>3. \A k \in 1 .. n : replies[k].row \in 1 .. row - 1
      BY <2>1 DEF RepliesInv
    <3>4. {replies'[k].row : k \in DOMAIN replies'} = {replies[k].row : k \in DOMAIN replies} \cup {row}
      BY <2>1, <3>1, <3>2
    <3>5. {replies'[k].row : k \in DOMAIN replies'}
            = {r \in 1 .. row' - 1 : Owed(lines'[r]) /\ lines'[r].len > 0}
      BY <2>1, <2>8, <2>11, <3>4 DEF RepliesInv, m
    <3>6. \A k, l \in DOMAIN replies' : k < l => replies'[k].row < replies'[l].row
      <4> SUFFICES ASSUME NEW k \in 1 .. n + 1, NEW l \in 1 .. n + 1, k < l
                   PROVE  replies'[k].row < replies'[l].row
        BY <3>2
      <4>1. k \in 1 .. n
        BY <2>1
      <4>2. CASE l = n + 1
        BY <4>1, <4>2, <2>1, <3>1, <3>2, <3>3
      <4>3. CASE l # n + 1
        <5>1. l \in 1 .. n
          BY <4>3, <2>1
        <5> QED
          BY <4>1, <5>1, <2>1, <3>2 DEF RepliesInv
      <4> QED
        BY <4>2, <4>3
    <3>7. \A k \in DOMAIN replies' : \E r \in 1 .. row' - 1, g \in Versions :
            Knows(lines', r, g) /\ Said(lines'[r], r, g) = <<replies'[k]>>
      <4> SUFFICES ASSUME NEW k \in 1 .. n + 1
                   PROVE  \E r \in 1 .. row' - 1, g \in Versions :
                            Knows(lines', r, g) /\ Said(lines'[r], r, g) = <<replies'[k]>>
        BY <3>2
      <4>1. CASE k = n + 1
        <5>1. Said(lines'[row], row, legacy) = <<replies'[k]>>
          BY <4>1, <2>1, <3>1, <3>2 DEF s, m
        <5>2. Knows(lines', row, legacy)
          BY <2>1 DEF RepliesInv
        <5> QED
          BY <5>1, <5>2, <2>1, <2>8
      <4>2. CASE k # n + 1
        <5>1. k \in 1 .. n
          BY <4>2, <2>1
        <5>2. PICK r \in 1 .. row - 1, g \in Versions : Knows(lines, r, g) /\ Said(lines[r], r, g) = <<replies[k]>>
          BY <5>1, <2>1 DEF RepliesInv
        <5> QED
          BY <5>1, <5>2, <2>1, <2>8, <3>2
      <4> QED
        BY <4>1, <4>2
    <3> QED
      BY <2>6, <2>9, <3>2, <3>5, <3>6, <3>7 DEF RepliesInv
  <2> QED
    BY <2>10, <2>11
<1> QED
  BY <1>1, <1>2

LEMMA McpStarts == MInit => McpInv
<1> SUFFICES ASSUME MInit PROVE McpInv
  OBVIOUS
<1>1. /\ lines \in Sent /\ ends \in BOOLEAN /\ row = 1 /\ col = 0 /\ buffered = 0 /\ held = 0 /\ over = FALSE
      /\ legacy = Absent /\ replies = <<>> /\ Len(lines) \in Nat /\ LINE_CAP \in Nat
  BY SentValues DEF MInit
<1>2. 1 .. row - 1 = {} /\ row \in 1 .. Len(lines) + 1
  BY <1>1
<1>3. McpOK
  <2>1. legacy \in Versions
    BY <1>1 DEF Versions
  <2>2. <<>> \in Seq(Possible)
    OBVIOUS
  <2>3. over \in BOOLEAN
    BY <1>1
  <2> QED
    BY <1>1, <1>2, <2>1, <2>2, <2>3 DEF McpOK
<1>4. ReaderInv
  <2>1. Left \in Nat
    <3>1. Left = BytesTo(lines, ends)[Len(lines)] - BytesTo(lines, ends)[0] - 0
      BY LeftIs, <1>1
    <3>2. BytesTo(lines, ends) \in [0 .. Len(lines) -> Nat] /\ BytesTo(lines, ends)[0] = 0
      BY <1>1, BytesToAre
    <3> QED
      BY <3>1, <3>2, <1>1
  <2> QED
    BY <1>1, <2>1, LineIs DEF ReaderInv, Rows, LineOK
<1>5. RepliesInv
  BY <1>1, <1>2 DEF RepliesInv, Knows
<1> QED
  BY <1>3, <1>4, <1>5 DEF McpInv

LEMMA McpSteps == McpInv /\ [MNext]_mcpVars => McpInv'
<1> SUFFICES ASSUME McpInv, [MNext]_mcpVars PROVE McpInv'
  OBVIOUS
<1>1. McpOK /\ ReaderInv /\ RepliesInv
  BY DEF McpInv
<1>2. /\ UNCHANGED <<lines, ends>>
      /\ row' \in 1 .. Len(lines) + 1 /\ col' \in Nat /\ buffered' \in Nat /\ over' \in BOOLEAN
      /\ ReaderInv'
      /\ UNCHANGED <<row, legacy, replies>> \/ RowAnswered
  BY <1>1, ReaderStep
<1>3. legacy' \in Versions /\ replies' \in Seq(Possible) /\ RepliesInv'
  BY <1>1, <1>2, RepliesStep
<1>4. Possible' = Possible
  BY <1>2 DEF Possible, Rows
<1>5. McpOK'
  BY <1>1, <1>2, <1>3, <1>4 DEF McpOK
<1> QED
  BY <1>2, <1>3, <1>5 DEF McpInv

\* What the invariant says of a reply.
LEMMA ReplyIs ==
  ASSUME McpInv, NEW k \in DOMAIN replies
  PROVE  LET l == lines[replies[k].row]
         IN  \E g \in Versions :
               /\ LineOK(l) /\ replies[k].row \in Rows /\ Knows(lines, replies[k].row, g)
               /\ Said(l, replies[k].row, g) = <<replies[k]>> /\ Owed(l) /\ l.len > 0
<1>1. PICK r \in 1 .. row - 1, g \in Versions : Knows(lines, r, g) /\ Said(lines[r], r, g) = <<replies[k]>>
  BY DEF McpInv, RepliesInv
<1>2. r \in 1 .. Len(lines)
  BY SentValues DEF McpInv, McpOK
<1>3. LineOK(lines[r])
  BY <1>2, LineIs DEF McpInv, McpOK
<1>4. Owed(lines[r]) /\ lines[r].len > 0
  <2>1. Said(lines[r], r, g) # <<>>
    BY <1>1
  <2> QED
    BY <1>3, <2>1, Saying
<1>5. replies[k].row = r
  BY <1>1, <1>3, <1>4, Saying
<1> QED
  BY <1>1, <1>2, <1>3, <1>4, <1>5 DEF Rows

LEMMA InOrder == McpInv => AnsweredInOrder
<1> SUFFICES ASSUME McpInv PROVE AnsweredInOrder
  OBVIOUS
<1>1. /\ {replies[k].row : k \in DOMAIN replies} = {r \in 1 .. row - 1 : Owed(lines[r]) /\ lines[r].len > 0}
      /\ \A k, l \in DOMAIN replies : k < l => replies[k].row < replies[l].row
  BY DEF McpInv, RepliesInv
<1>2. ASSUME NEW k \in DOMAIN replies
      PROVE  LET l == lines[replies[k].row]
                 known == Readable(l) /\ l.json = "object" /\ l.id = "ok"
             IN  /\ replies[k].id = IF known THEN replies[k].row ELSE Null
                 /\ Readable(l) /\ Acts(l) /\ l.method # "initialize" =>
                      /\ l.meta = "modern" => replies[k].body = request(l, Absent)
                      /\ l.meta = "none" =>
                           (replies[k].body = [error |-> "INVALID_PARAMS"]
                              <=> \/ ~\E r \in 1 .. replies[k].row - 1 : Handshake(lines[r])
                                  \/ l.method = "tools/call" /\ (l.call = Absent \/ l.call.tool \notin Tools))
  <2> DEFINE q == replies[k].row
             l == lines[q]
  <2>1. PICK g \in Versions : /\ LineOK(l) /\ Knows(lines, q, g)
                              /\ Said(l, q, g) = <<replies[k]>> /\ Owed(l) /\ l.len > 0
    BY ReplyIs
  <2>2. l.meta \in {"modern", "bare", "other", "none"}
    BY <2>1 DEF LineOK
  <2> HIDE DEF l
  <2>3. /\ replies[k].id = IF Readable(l) /\ l.json = "object" /\ l.id = "ok" THEN q ELSE Null
        /\ Readable(l) /\ Acts(l) /\ l.method # "initialize" => replies[k].body = request(l, g)
    BY <2>1, Saying
  <2>4. g = Absent <=> ~\E r \in 1 .. q - 1 : Handshake(lines[r])
    BY <2>1 DEF Knows
  <2>5. /\ l.meta = "modern" => request(l, g) = request(l, Absent)
        /\ l.meta = "none" =>
             (request(l, g) = [error |-> "INVALID_PARAMS"]
                <=> \/ g = Absent
                    \/ l.method = "tools/call" /\ (l.call = Absent \/ l.call.tool \notin Tools))
    BY <2>2, Requested
  <2> QED
    BY <2>3, <2>4, <2>5 DEF l
<1> QED
  BY <1>1, <1>2 DEF AnsweredInOrder

\* A sum over files with sizes is a size, and there is none in no files.
LEMMA SummedIs ==
  ASSUME NEW F, NEW files \in Seq(F), NEW what, \A f \in F : f[what] \in Nat
  PROVE  Summed(files, what) \in Nat /\ (Len(files) = 0 => Summed(files, what) = 0)
<1> DEFINE n == Len(files)
           z == 0
           G == [k \in 1 .. n |-> [a \in Nat |-> a + files[k][what]]]
           Folds(it) == it = [t \in SUBSET (1 .. n) |-> IF t = {} THEN z ELSE it[t \ {Max(t)}] + files[Max(t)][what]]
           iter == CHOOSE it : Folds(it)
<1>1. n \in Nat /\ DOMAIN files = 1 .. n /\ z \in Nat /\ \A k \in 1 .. n : files[k][what] \in Nat
  OBVIOUS
<1>2. G \in [1 .. n -> [Nat -> Nat]]
  BY <1>1
<1>3. PICK it : Iterates(it, n, Nat, z, G)
  <2> HIDE DEF G, n, z
  <2> QED
    BY <1>1, <1>2, Iteration
<1>4. \E i : Folds(i)
  <2>1. it = [t \in SUBSET (1 .. n) |-> it[t]] /\ \A t \in SUBSET (1 .. n) : it[t] \in Nat
    BY <1>3 DEF Iterates
  <2>2. ASSUME NEW t \in SUBSET (1 .. n)
        PROVE  it[t] = IF t = {} THEN z ELSE it[t \ {Max(t)}] + files[Max(t)][what]
    <3>1. CASE t = {}
      BY <3>1, <1>3 DEF Iterates
    <3>2. CASE t # {}
      <4>1. Max(t) \in 1 .. n
        BY <3>2, <1>1, Greatest
      <4>2. it[t \ {Max(t)}] \in Nat
        BY <2>1
      <4>3. it[t] = G[Max(t)][it[t \ {Max(t)}]]
        BY <3>2, <1>3 DEF Iterates
      <4> QED
        BY <3>2, <4>1, <4>2, <4>3
    <3> QED
      BY <3>1, <3>2
  <2> QED
    BY <2>1, <2>2
<1>5. Summed(files, what) = iter[1 .. n]
  BY <1>1 DEF Summed, FoldLeft, MapThenFoldSet
<1> HIDE DEF iter
<1>6. Folds(iter)
  BY <1>4 DEF iter
<1>7. Folding(iter, n, Nat, z, G)
  BY <1>1, <1>6, Greatest DEF Folding
<1>8. StepsTo(n, Nat, z, G, iter[1 .. n])
  <2> HIDE DEF G, n, z
  <2> QED
    BY <1>1, <1>2, <1>7, FoldSteps
<1> QED
  BY <1>1, <1>5, <1>8 DEF StepsFrom, StepsTo

\* The files at some of the paths are files.
LEMMA FilesAtAre ==
  ASSUME NEW F, NEW files \in Seq(F), NEW paths
  PROVE  FilesAt(files, paths) \in Seq(F)
<1> DEFINE ss == [k \in 1 .. Len(files) |-> IF Contains(paths, files[k].path) THEN <<files[k]>> ELSE <<>>]
<1>1. ss \in Seq(Seq(F))
  <2>1. \A k \in 1 .. Len(files) : ss[k] \in Seq(F)
    OBVIOUS
  <2>2. Len(files) \in Nat
    OBVIOUS
  <2> HIDE DEF ss
  <2>3. ss = [k \in 1 .. Len(files) |-> ss[k]]
    BY DEF ss
  <2> QED
    BY <2>1, <2>2, <2>3
<1>2. FilesAt(files, paths) = FlattenSeq(ss)
  BY DEF FilesAt
<1> HIDE DEF ss
<1> QED
  BY <1>1, <1>2, FlattenedType

\* The first of some files, and what they leave out.
LEMMA FirstOf ==
  ASSUME NEW F, NEW files \in Seq(F), NEW n \in 0 .. Len(files)
  PROVE  /\ SubSeq(files, 1, n) \in Seq(F) /\ Len(SubSeq(files, 1, n)) = n
         /\ IsPrefix(SubSeq(files, 1, n), files)
         /\ n = Len(files) => SubSeq(files, 1, n) = files
<1>1. SubSeq(files, 1, n) \in Seq(F) /\ Len(SubSeq(files, 1, n)) = n
  BY SubSeqProperties
<1>2. SubSeq(SubSeq(files, 1, n), 1, n) = SubSeq(files, 1, n)
  BY <1>1, SubSeqProperties
<1>3. n = Len(files) => SubSeq(files, 1, n) = files
  BY SubSeqProperties
<1> QED
  BY <1>1, <1>2, <1>3 DEF IsPrefix

\* The files a call asks for, and what a document in answer to it says of them.
Asked(call) == IF "paths" \in DOMAIN call.args THEN FilesAt(call.files, call.args.paths) ELSE call.files
SaysWhatItIs(call, doc) ==
  /\ IsPrefix(doc.files, Asked(call)) /\ Len(doc.files) + doc.omitted = Len(Asked(call))
  /\ doc.summary = line_counts(Asked(call))
  /\ doc.form = "full" => doc.omitted = 0 /\ Summed(doc.files, "size") <= REVIEW_FULL_CAP
  /\ doc.seal = call.files

CallOK(call) ==
  /\ call.engine \in {"value", "refused", "failed", "panicked", "gone"}
  /\ call.files \in Seq(ToSet(call.files))
  /\ \A f \in ToSet(call.files) : f.size \in Nat

LEMMA ReviewSays ==
  ASSUME NEW call, CallOK(call), review_tool_with(call).ok
  PROVE  SaysWhatItIs(call, review_tool_with(call).doc)
<1> DEFINE F == ToSet(call.files)
           wanted == Asked(call)
           paths == Arg(call, "paths", <<>>)
           missing == \E k \in DOMAIN paths : \A f \in ToSet(call.files) : f.path # paths[k]
           all == [form |-> "full", files |-> call.files, omitted |-> 0, seal |-> call.files,
                   summary |-> line_counts(call.files)]
           review == IF "paths" \in DOMAIN call.args THEN Only(all, paths) ELSE all
           doc == review_tool_with(call).doc
<1>1. call.engine = "value" /\ ~missing
  <2>1. call.engine # "value" => ~daemon_value_in(call).ok
    BY DEF CallOK, daemon_value_in, tool_error
  <2>2. CASE call.engine # "value"
    BY <2>1, <2>2 DEF review_tool_with
  <2>3. CASE call.engine = "value" /\ missing
    BY <2>3 DEF review_tool_with, tool_error
  <2> QED
    BY <2>2, <2>3
<1>2. doc = IF Arg(call, "detail", "auto") = "summary" \/ Summed(review.files, "size") > REVIEW_FULL_CAP
            THEN summarize(review) ELSE review
  BY <1>1 DEF review_tool_with, structured
<1>3. review = [form |-> "full", files |-> wanted, omitted |-> 0, seal |-> call.files,
                summary |-> line_counts(wanted)]
  BY DEF Only, Asked, Arg
<1>4. wanted \in Seq(F) /\ \A f \in F : f["size"] \in Nat
  BY FilesAtAre DEF CallOK, Asked
<1>5. Summed(wanted, "size") \in Nat /\ REVIEW_FULL_CAP \in Nat /\ SUMMARY_FILE_LIMIT \in Nat
  BY <1>4, SummedIs, SentValues
<1> HIDE DEF review, doc, wanted, F
<1>6. wanted = Asked(call)
  BY DEF wanted
<1>7. CASE doc = review
  <2>1. IsPrefix(wanted, wanted)
    BY <1>4 DEF IsPrefix
  <2>2. Summed(wanted, "size") <= REVIEW_FULL_CAP \/ doc.form # "full"
    BY <1>2, <1>3, <1>5, <1>7 DEF summarize
  <2>3. /\ doc.files = wanted /\ doc.omitted = 0 /\ doc.seal = call.files /\ doc.summary = line_counts(wanted)
        /\ Len(wanted) + 0 = Len(wanted)
    BY <1>3, <1>4, <1>7
  <2> QED
    BY <1>6, <2>1, <2>2, <2>3 DEF SaysWhatItIs, doc
<1>8. CASE doc = summarize(review)
  <2> DEFINE n == Min({Len(wanted), SUMMARY_FILE_LIMIT})
  <2>1. n \in 0 .. Len(wanted)
    BY <1>4, <1>5, MinOfTwo
  <2>2. doc = [form |-> "summary", files |-> SubSeq(wanted, 1, n), omitted |-> Len(wanted) - n,
               seal |-> call.files, summary |-> line_counts(wanted)]
    BY <1>3, <1>8 DEF summarize
  <2> HIDE DEF n
  <2>3. Len(SubSeq(wanted, 1, n)) = n /\ IsPrefix(SubSeq(wanted, 1, n), wanted)
    BY <1>4, <2>1, FirstOf
  <2>4. Len(wanted) \in Nat /\ n + (Len(wanted) - n) = Len(wanted)
    BY <1>4, <2>1
  <2>5. /\ doc.files = SubSeq(wanted, 1, n) /\ doc.omitted = Len(wanted) - n /\ doc.seal = call.files
        /\ doc.summary = line_counts(wanted) /\ doc.form # "full"
    BY <2>2
  <2> QED
    BY <1>6, <2>3, <2>4, <2>5 DEF SaysWhatItIs, doc
<1> QED
  BY <1>2, <1>7, <1>8 DEF doc

LEMMA RankSays ==
  ASSUME NEW call, CallOK(call), "paths" \notin DOMAIN call.args, rank_tool_with(call).ok
  PROVE  /\ SaysWhatItIs(call, rank_tool_with(call).doc)
         /\ Summed(rank_tool_with(call).doc.files, "size") <= REVIEW_FULL_CAP
<1> DEFINE F == ToSet(call.files)
           files == call.files
           budget == IF REVIEW_FULL_CAP > RANK_SUMMARY_OVERHEAD
                     THEN REVIEW_FULL_CAP - RANK_SUMMARY_OVERHEAD ELSE 0
           fit == {n \in 0 .. Len(files) : Summed(SubSeq(files, 1, n), "size") <= budget}
           n == IF Summed(files, "size") <= REVIEW_FULL_CAP THEN Len(files) ELSE Max(fit)
           doc == rank_tool_with(call).doc
<1>1. call.engine = "value"
  BY DEF CallOK, daemon_value_in, tool_error, rank_tool_with
<1>2. doc = [form |-> IF Summed(files, "size") <= REVIEW_FULL_CAP THEN "full" ELSE "summary",
             files |-> SubSeq(files, 1, n), omitted |-> Len(files) - n,
             seal |-> files, summary |-> line_counts(files)]
  BY <1>1 DEF rank_tool_with, structured
<1>3. files \in Seq(F) /\ Len(files) \in Nat /\ \A f \in F : f["size"] \in Nat
  BY DEF CallOK
<1>4. budget \in Nat /\ budget <= REVIEW_FULL_CAP /\ REVIEW_FULL_CAP \in Nat
  BY SentValues
<1>5. Asked(call) = files
  BY DEF Asked
<1> HIDE DEF files, budget, F, doc
<1>6. 0 \in fit
  <2>1. 0 \in 0 .. Len(files)
    BY <1>3
  <2>2. SubSeq(files, 1, 0) \in Seq(F) /\ Len(SubSeq(files, 1, 0)) = 0
    BY <1>3, <2>1, FirstOf
  <2>3. Summed(SubSeq(files, 1, 0), "size") = 0
    BY <1>3, <2>2, SummedIs
  <2> QED
    BY <2>1, <2>3, <1>4
<1>7. n \in 0 .. Len(files) /\ Summed(SubSeq(files, 1, n), "size") <= REVIEW_FULL_CAP
  <2>1. CASE Summed(files, "size") <= REVIEW_FULL_CAP
    <3>1. Len(files) \in 0 .. Len(files)
      BY <1>3
    <3>2. SubSeq(files, 1, Len(files)) = files
      BY <1>3, <3>1, FirstOf
    <3> QED
      BY <2>1, <3>1, <3>2
  <2>2. CASE ~(Summed(files, "size") <= REVIEW_FULL_CAP)
    <3>1. Max(fit) \in fit
      <4>1. fit \in SUBSET (0 .. Len(files)) /\ fit # {}
        BY <1>6
      <4> HIDE DEF fit
      <4> QED
        BY <4>1, <1>3, GreatestFromZero
    <3> DEFINE m == Max(fit)
    <3>2. m \in 0 .. Len(files) /\ Summed(SubSeq(files, 1, m), "size") <= budget
      BY <3>1
    <3> HIDE DEF m
    <3>3. SubSeq(files, 1, m) \in Seq(F)
      BY <1>3, <3>2, FirstOf
    <3>4. Summed(SubSeq(files, 1, m), "size") \in Nat
      BY <1>3, <3>3, SummedIs
    <3>5. Summed(SubSeq(files, 1, m), "size") <= REVIEW_FULL_CAP
      BY <3>2, <3>4, <1>4
    <3> QED
      BY <2>2, <3>2, <3>5 DEF m
  <2> QED
    BY <2>1, <2>2
<1>8. Summed(files, "size") <= REVIEW_FULL_CAP => n = Len(files)
  OBVIOUS
<1> HIDE DEF n, fit
<1>9. Len(SubSeq(files, 1, n)) = n /\ IsPrefix(SubSeq(files, 1, n), files)
  BY <1>3, <1>7, FirstOf
<1>10. n + (Len(files) - n) = Len(files) /\ (n = Len(files) => Len(files) - n = 0)
  BY <1>3, <1>7
<1>11. /\ doc.files = SubSeq(files, 1, n) /\ doc.omitted = Len(files) - n /\ doc.seal = files
       /\ doc.summary = line_counts(files)
       /\ doc.form = "full" => Summed(files, "size") <= REVIEW_FULL_CAP
  BY <1>2
<1>12. SaysWhatItIs(call, doc)
  BY <1>5, <1>7, <1>8, <1>9, <1>10, <1>11 DEF SaysWhatItIs, files
<1> QED
  BY <1>7, <1>11, <1>12 DEF doc

\* A call that is answered with a document has no argument but those of its tool.
LEMMA Called ==
  ASSUME NEW m, "result" \in DOMAIN call_tool(m), call_tool(m).result.ok,
         m.call.tool \in {"review_patch", "rank_patch"}
  PROVE  /\ m.call # Absent /\ DOMAIN m.call.args \subseteq Arguments(m.call.tool)
         /\ m.call.tool = "review_patch" => call_tool(m).result = review_tool_with(m.call)
         /\ m.call.tool = "rank_patch" => call_tool(m).result = rank_tool_with(m.call)
<1> DEFINE call == m.call
           extra == DOMAIN call.args \ Arguments(call.tool)
           wrong == {k \in DOMAIN call.args : /\ Enumerated(call.tool, k) # {}
                                              /\ call.args[k] \notin Enumerated(call.tool, k)}
<1>1. call # Absent
  <2>1. CASE call = Absent
    <3>1. call_tool(m) = [error |-> "INVALID_PARAMS"]
      BY <2>1 DEF call_tool
    <3> QED
      BY <3>1
  <2> QED
    BY <2>1
<1>2. call.tool \in Tools
  BY DEF Tools
<1>3. extra = {}
  <2>1. CASE extra # {}
    <3> DEFINE e == tool_error("unknown argument")
    <3>1. call_tool(m) = [result |-> e]
      BY <1>1, <1>2, <2>1 DEF call_tool
    <3>2. e.ok = FALSE
      BY DEF tool_error
    <3> HIDE DEF e
    <3> QED
      BY <3>1, <3>2
  <2> QED
    BY <2>1
<1>4. wrong = {}
  <2>1. CASE wrong # {}
    <3> DEFINE e == tool_error("must be one of")
    <3>1. call_tool(m) = [result |-> e]
      BY <1>1, <1>2, <1>3, <2>1 DEF call_tool
    <3>2. e.ok = FALSE
      BY DEF tool_error
    <3> HIDE DEF e
    <3> QED
      BY <3>1, <3>2
  <2> QED
    BY <2>1
<1>5. CASE call.tool = "review_patch"
  <2>1. call_tool(m) = [result |-> review_tool_with(call)]
    BY <1>1, <1>2, <1>3, <1>4, <1>5 DEF call_tool
  <2> QED
    BY <1>1, <1>3, <1>5, <2>1
<1>6. CASE call.tool = "rank_patch"
  <2>1. call_tool(m) = [result |-> rank_tool_with(call)]
    BY <1>1, <1>2, <1>3, <1>4, <1>6 DEF call_tool
  <2> QED
    BY <1>1, <1>3, <1>6, <2>1
<1> QED
  BY <1>5, <1>6

LEMMA SaysItAll == McpInv => DocumentSaysWhatItIs
<1> SUFFICES ASSUME McpInv, NEW k \in DOMAIN replies,
                    "result" \in DOMAIN replies[k].body,
                    lines[replies[k].row].method = "tools/call",
                    lines[replies[k].row].call.tool \in {"review_patch", "rank_patch"},
                    replies[k].body.result.ok
             PROVE  LET call == lines[replies[k].row].call
                        doc == replies[k].body.result.doc
                    IN  /\ SaysWhatItIs(call, doc)
                        /\ call.tool = "rank_patch" => Summed(doc.files, "size") <= REVIEW_FULL_CAP
  BY Zenon DEF DocumentSaysWhatItIs, SaysWhatItIs, Asked
<1> DEFINE q == replies[k].row
           l == lines[q]
           call == l.call
           body == replies[k].body
<1>1. PICK g \in Versions : LineOK(l) /\ Said(l, q, g) = <<replies[k]>> /\ Owed(l) /\ l.len > 0
  BY ReplyIs
<1> HIDE DEF l
<1>2. Readable(l) /\ Acts(l) /\ l.method = "tools/call" /\ body = request(l, g)
  BY <1>1, Saying DEF l
<1>3. request(l, g) = call_tool(l)
  BY <1>1, <1>2 DEF request, era_of, LineOK
<1>4. /\ call # Absent /\ DOMAIN call.args \subseteq Arguments(call.tool)
      /\ call.tool = "review_patch" => body.result = review_tool_with(call)
      /\ call.tool = "rank_patch" => body.result = rank_tool_with(call)
  <2>1. "result" \in DOMAIN call_tool(l) /\ call_tool(l).result.ok /\ call.tool \in {"review_patch", "rank_patch"}
    BY <1>2, <1>3 DEF l
  <2> QED
    BY <1>2, <1>3, <2>1, Called
<1>5. CallOK(call) /\ body.result.ok
  BY <1>1, <1>4 DEF LineOK, CallOK
<1>6. CASE call.tool = "review_patch"
  BY <1>4, <1>5, <1>6, ReviewSays DEF l
<1>7. CASE call.tool = "rank_patch"
  <2>1. "paths" \notin DOMAIN call.args
    BY <1>4, <1>7 DEF Arguments
  <2> QED
    BY <1>4, <1>5, <1>7, <2>1, RankSays DEF l
<1> QED
  BY <1>6, <1>7 DEF l

\* Every line a client sends that asks for an answer gets one, in order and under its id,
\* whatever the chunks it arrives in, and a document in an answer says how much of the
\* review it is (mcp.rs: serve_server, read_line, handle_line, call_tool).
THEOREM EveryLineAlwaysAnswered == MSpec => []OneAnswerPerLine
<1>1. McpInv => OneAnswerPerLine
  BY InOrder, SaysItAll DEF OneAnswerPerLine
<1> QED
  BY McpStarts, McpSteps, <1>1, PTL DEF MSpec
=============================================================================
