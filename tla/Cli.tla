-------------------------------- MODULE Cli ----------------------------------
(***************************************************************************)
(* The command line, crates/deep-diff-forge-cli/src: what a command line   *)
(* says (args.rs, validate_review_options_or_exit), and what a command     *)
(* does stage by stage until it exits (main.rs and the modules it calls).  *)
(*                                                                         *)
(* A command is the sequence of its fallible stages, each with the exit    *)
(* codes it may leave with; what a stage computes is left to the modules   *)
(* of the component it calls.  Standard output may be closed by its reader *)
(* or full at every write.                                                 *)
(*                                                                         *)
(* Then `envelope -- <command>` (contract.rs): the command runs as a child *)
(* whose stdout and stderr are pipes; one thread reads each, keeps at most *)
(* its cap and drains the rest, and the child's end is then wrapped in one *)
(* document.  The child writes its bytes to the two pipes in any order,    *)
(* blocks on a full one, and may be ended by a signal at any byte.         *)
(***************************************************************************)
EXTENDS ExitCodes, SequencesExt, FiniteSetsExt

CONSTANTS MaxWords,  \* a command line has at most this many words
          MaxOptions, \* and a review at most this many options
          Running

VARIABLES words,     \* the words of a command line, for args.rs
          source, opts,   \* where a review comes from, and the options given with it
          command, stage, \* the command that runs, and its stage
          wrote, kept,    \* writes to stdout, something lasting done
          code            \* Running, or the exit code

cliVars == <<words, source, opts, command, stage, wrote, kept, code>>

Family(c) == IF c[1] = "council" THEN "council" ELSE "engine"
-----------------------------------------------------------------------------
(* args.rs, for a specification with a flag, an option that may be given once and  *)
(* one that may be repeated.                                                         *)
Flags == {"--json"}
Valued == {"--layout", "--path"}
REPEATABLE == {"--path"}
Words == Flags \cup Valued \cup {"--bogus", "-h", "a", "b"}
IsLong(w) == w \in Flags \cup Valued \cup {"--bogus"}
IsOption(w) == IsLong(w) \/ w = "-h"

\* The word can be the value of the option before it.
TakesValue(w) == ~IsLong(w)

\* admit: the words from the left, each an option's value, a flag, an option or a
\* positional; the first that does not fit ends it.  What was read is kept with it.
Unread == [ok |-> TRUE, want |-> "", values |-> <<>>, seen |-> {}, flags |-> {}, rest |-> <<>>]
Admitting(s, w, positionals) ==
  CASE ~s.ok -> s
    [] s.ok /\ s.want # "" -> [s EXCEPT !.ok = TakesValue(w), !.want = "",
                                         !.values = Append(@, <<s.want, w>>)]
    [] s.ok /\ s.want = "" /\ w \in Valued ->
         [s EXCEPT !.want = w, !.ok = w \notin s.seen \/ w \in REPEATABLE, !.seen = @ \cup {w}]
    [] s.ok /\ s.want = "" /\ w \in Flags -> [s EXCEPT !.flags = @ \cup {w}]
    [] s.ok /\ s.want = "" /\ w \notin Valued \cup Flags ->
         [s EXCEPT !.ok = ~IsOption(w) /\ Len(s.rest) < positionals, !.rest = Append(@, w)]
admit(ws, positionals) ==
  LET end == FoldLeft(LAMBDA s, w : Admitting(s, w, positionals), Unread, ws)
  IN  [end EXCEPT !.ok = @ /\ end.want = ""]

\* help_requested: a -h that is not the value of the option before it.
help_requested(ws) ==
  \E k \in DOMAIN ws : ws[k] = "-h" /\ (k = 1 \/ ws[k - 1] \notin Valued)

\* flag_values and flag_value: the words after each occurrence of the name, and the first.
flag_values(ws, name) ==
  FlattenSeq([k \in 1 .. Len(ws) - 1 |-> IF ws[k] = name THEN <<ws[k + 1]>> ELSE <<>>])
flag_value(ws, name) ==
  LET at == {k \in DOMAIN ws : ws[k] = name}
  IN  IF at = {} \/ Min(at) = Len(ws) THEN <<>> ELSE <<ws[Min(at) + 1]>>
-----------------------------------------------------------------------------
(* The options of a review, from stdin, two files or Git.                           *)
Modes == {"--acquisition-json", "--outline", "--hunks", "--cluster", "--rank", "--jsonl", "--layout"}
Guards == {"--require-files", "--require-hunks"}
Sources == {"stdin", "files", "working tree", "staged"}
OptionNames == Modes \cup Guards \cup {"--json", "--parallel", "--address", "--path", "--max-bytes",
                                       "--cursor", "--include-untracked"}

\* The options the sources' own argument sets know, and git_input::run's further rule.
REVIEW_FLAGS(src) ==
  OptionNames \ CASE src \in {"stdin", "files"} -> {"--acquisition-json", "--include-untracked"}
                  [] src = "working tree" -> {}
                  [] src = "staged" -> {"--include-untracked"}

\* A fault of JsonIsAMode: --json is always the format of something else.
JsonIsAFormat(o) == FALSE

\* --json is a mode of its own unless a mode prints JSON with it.
JsonIsAMode(o) == "--json" \in o /\ o \cap {"--rank", "--cluster", "--outline", "--hunks"} = {}

\* validate_review_options_or_exit.
validate_review_options(o) ==
  LET modes == (o \cap Modes) \cup (IF JsonIsAMode(o) THEN {"--json"} ELSE {})
      view == o \cap {"--outline", "--hunks"} # {}
  IN  /\ ~ {"--json", "--jsonl"} \subseteq o
      /\ Cardinality(modes) <= 1
      /\ "--outline" \in o => o \cap {"--address", "--path"} = {}
      /\ ~view => o \cap {"--address", "--path", "--max-bytes", "--cursor"} = {}
      /\ ~ {"--address", "--path"} \subseteq o
      /\ "--parallel" \in o => "--cluster" \in o

\* The options the branches read that run and emit_review take, in their order.
emit_review(o) ==
  CASE "--outline" \in o -> {"--outline", "--max-bytes", "--cursor"}
    [] "--outline" \notin o /\ "--hunks" \in o ->
         {"--hunks", "--max-bytes", "--cursor", IF "--address" \in o THEN "--address" ELSE "--path"}
    [] o \cap {"--outline", "--hunks"} = {} /\ "--cluster" \in o -> {"--cluster", "--parallel", "--json"}
    [] o \cap {"--outline", "--hunks", "--cluster"} = {} /\ "--rank" \in o -> {"--rank", "--json"}
    [] o \cap {"--outline", "--hunks", "--cluster", "--rank"} = {} /\ "--json" \in o -> {"--json"}
    [] OTHER -> {"--layout"}

Consulted(src, o) ==
  Guards \cup (IF src = "working tree" THEN {"--include-untracked"} ELSE {}) \cup
  CASE src \in {"working tree", "staged"} /\ "--acquisition-json" \in o -> {"--acquisition-json"}
    [] "--acquisition-json" \notin o /\ "--jsonl" \in o -> {"--jsonl"}
    [] OTHER -> emit_review(o)
-----------------------------------------------------------------------------
(* The commands.                                                                     *)
Stage(does, codes) == [does |-> does, codes |-> codes]
Check(codes) == Stage("check", codes)      \* fails or goes on, and changes nothing
Admit == Check({USAGE})
Stdin == Stage("stdin", {IO, INVALID_INPUT})
Keep(codes) == Stage("keep", codes)        \* does something lasting
Write == Stage("write", {})                \* emit: a document or a line on stdout
Judge(codes) == Stage("judge", codes)      \* a verdict on what was written
Serve(codes) == Stage("serve", codes)      \* answers until it is over
\* watch_signals, once the daemon is stopping: a second signal ends it, with a code that the
\* registry leaves out; or it has drained, and the loop may have failed.
StopSignals == {2, 15} \* SIGINT, SIGTERM
Forced == {SIGNAL_BASE + n : n \in StopSignals}
Drain == Stage("drain", Forced \cup {DAEMON_OR_TERMINAL})

read_source_file == Check({IO, INVALID_INPUT})
sealed_review == <<Check({IO, INVALID_INPUT}), Check({INPUT_CONTRACT_REFUSED})>>

\* What emit_review prints, by mode.  A printout for people is several writes.
emit_view == <<Check({USAGE}), Write>>
print_rank == <<Write, Write>>
run_cluster == <<Check({USAGE})>> \o print_rank
print_patch_summary == <<Write, Write>>
layout == <<Check({USAGE}), Write>>
Prints(mode) == CASE mode = "view" -> emit_view
                  [] mode = "cluster" -> run_cluster
                  [] mode = "rank" -> print_rank
                  [] mode = "json" -> <<Write>>
                  [] mode = "layout" -> layout
                  [] mode = "summary" -> print_patch_summary
PrintModes == {"view", "cluster", "rank", "json", "layout", "summary"}

\* stdin_patch; for --jsonl the guards are asked before the pipeline parses on its own.
stdin_patch == <<Admit, Check({USAGE}), Stdin>> \o sealed_review
run_jsonl_pipeline == <<Check({INVALID_INPUT}), Write>>
git_input == <<Admit, Check({USAGE}), Check({USAGE, IO, INVALID_INPUT}), Check({IO, INVALID_INPUT}),
               Check({INPUT_CONTRACT_REFUSED})>>
file_pair == <<Admit, Check({USAGE}), Check({USAGE, IO, INVALID_INPUT})>> \o sealed_review
review_cmd == <<Admit, Check({IO, INVALID_INPUT}), Check({USAGE}), Stdin, Check({INVALID_INPUT}),
                Check({INVALID_INPUT})>>

\* A fault of findings_cmd: the verdict on the findings goes first.
FindingsJudgedFirst == <<Admit, Check({IO, INVALID_INPUT}), Stdin>> \o sealed_review
                       \o <<Write, Check({INPUT_CONTRACT_REFUSED}), Write>>

findings_cmd == <<Admit, Check({IO, INVALID_INPUT}), Stdin>> \o sealed_review
                \o <<Write, Judge({INPUT_CONTRACT_REFUSED})>>
analyze == <<Admit, Check({IO, INVALID_INPUT}), Write>>
structural_cmd == <<Admit, read_source_file, read_source_file, Check({USAGE}), Write, Write>>
highlight_cmd == <<Admit, read_source_file, Write>>
semantic_cmd == <<Admit, read_source_file, Write, Write>>
bench_cmd == <<Admit, Check({USAGE}), Write, Write>>
eval_cmd == <<Admit, Check({IO, INVALID_INPUT}), Write, Judge({INPUT_CONTRACT_REFUSED})>>
deploy_cmd == <<Admit, Check({USAGE})>>
deploy_status == deploy_cmd \o <<Write, Write>>
deploy_release == deploy_cmd \o <<Write, Write>>
deploy_doctor == deploy_cmd \o <<Write, Judge({DAEMON_OR_TERMINAL})>>
learn_status == <<Admit, Check({IO}), Check({IO}), Write, Write>>
learn_record == <<Admit, Stdin, Check({INVALID_INPUT}), Keep({IO, INVALID_INPUT}), Write>>

daemon_cmd == <<Admit, Check({USAGE})>>
daemon_start == daemon_cmd \o <<Check({USAGE}), Serve({DAEMON_OR_TERMINAL}), Drain>>
daemon_client == daemon_cmd \o <<Check({DAEMON_OR_TERMINAL}), Write>>
daemon_metrics_prometheus == daemon_cmd \o <<Check({DAEMON_OR_TERMINAL}), Check({DAEMON_OR_TERMINAL}),
                                             Keep({IO})>>
\* The answer of the daemon is written before its exit is waited for.
daemon_stop == daemon_cmd \o <<Keep({DAEMON_OR_TERMINAL}), Write, Judge({DAEMON_OR_TERMINAL})>>

council == <<Keep({COUNCIL_REFUSED}), Write, Judge({COUNCIL_REFUSED, COUNCIL_HOLD})>>
agent_setup == <<Admit, Check({USAGE}), Check({IO}), Check({USAGE}), Write>>
agent_doctor == <<Admit, Write, Judge({PANIC})>>
contract_output == <<Check({USAGE}), Write>>
\* The bare commands: an argument is refused, and the text is theirs.
print_help == <<Admit, Write>>
doctor == <<Admit, Write, Write>>
allowed_repos == <<Admit>>
run_rpc == allowed_repos \o <<Check({USAGE}), Serve({IO})>>
run_mcp == allowed_repos \o <<Check({USAGE}), Serve({IO})>>
\* An unknown command, and the withdrawn ones.
refuse_withdrawn == <<Stage("refuse", {USAGE})>>

\* main: the stages of each command.
Named == [findings |-> findings_cmd, analyze |-> analyze, structural |-> structural_cmd,
          highlight |-> highlight_cmd, semantic |-> semantic_cmd, bench |-> bench_cmd,
          eval |-> eval_cmd, deploy |-> deploy_status, release |-> deploy_release,
          deployDoctor |-> deploy_doctor, learn |-> learn_status, record |-> learn_record,
          start |-> daemon_start, client |-> daemon_client, metrics |-> daemon_metrics_prometheus,
          stop |-> daemon_stop, council |-> council, setup |-> agent_setup, agents |-> agent_doctor,
          contract |-> contract_output, help |-> print_help, doctor |-> doctor, rpc |-> run_rpc,
          mcp |-> run_mcp, unknown |-> refuse_withdrawn,
          probe |-> review_cmd \o <<Write>>, cockpit |-> review_cmd \o <<Serve({DAEMON_OR_TERMINAL})>>]
Sourced == [stdin |-> stdin_patch, git |-> git_input, files |-> file_pair]
Commands == ((DOMAIN Named) \X {""}) \cup ((DOMAIN Sourced) \X PrintModes) \cup {<<"stdin", "jsonl">>}
Script(c) == IF c[2] = "" THEN Named[c[1]]
             ELSE Sourced[c[1]] \o (IF c[2] = "jsonl" THEN run_jsonl_pipeline ELSE Prints(c[2]))
-----------------------------------------------------------------------------
NoCommand == <<"none", "">>
Idle == /\ command = NoCommand /\ stage = 1 /\ wrote = 0 /\ kept = FALSE /\ code = Running
CInit == /\ words = <<>> /\ source = "stdin" /\ opts = {} /\ Idle

\* The words of a command line, one after the other.
Type(w) == /\ Len(words) < MaxWords
           /\ words' = Append(words, w)
           /\ UNCHANGED <<source, opts, command, stage, wrote, kept, code>>

\* The options of a review.
Choose(src, o) == /\ source' = src /\ opts' = o
                  /\ UNCHANGED <<words, command, stage, wrote, kept, code>>

\* argv_or_exit: a word that is not UTF-8 ends it before any command.
Start(c) == /\ command = NoCommand
            /\ command' = c
            /\ code' \in {Running, IO}
            /\ UNCHANGED <<words, source, opts, stage, wrote, kept>>

At == Script(command)[stage]
Runs == command # NoCommand /\ code = Running

\* A stage fails, with one of its codes.
Fail == /\ Runs /\ stage <= Len(Script(command))
        /\ code' \in At.codes
        /\ UNCHANGED <<words, source, opts, command, stage, wrote, kept>>

\* A stage is done; of the unknown command's, only the refusal is.
Done == /\ Runs /\ stage <= Len(Script(command)) /\ At.does \notin {"write", "refuse"}
        /\ stage' = stage + 1
        /\ kept' = (kept \/ At.does = "keep")
        /\ UNCHANGED <<words, source, opts, command, wrote, code>>

\* emit: written and flushed; or the reader is gone, a success; or the write failed.
emit == /\ Runs /\ stage <= Len(Script(command)) /\ At.does = "write"
        /\ \/ stage' = stage + 1 /\ wrote' = wrote + 1 /\ UNCHANGED code
           \/ code' = SUCCESS /\ UNCHANGED <<stage, wrote>>
           \/ code' = IO /\ UNCHANGED <<stage, wrote>>
        /\ UNCHANGED <<words, source, opts, command, kept>>

\* The process returns from main.
Return == /\ Runs /\ stage > Len(Script(command))
          /\ code' = SUCCESS
          /\ UNCHANGED <<words, source, opts, command, stage, wrote, kept>>

CNext == \/ \E w \in Words : Type(w)
         \/ /\ opts = {}
            /\ \E src \in Sources, n \in 1 .. MaxOptions : \E o \in kSubset(n, OptionNames) : Choose(src, o)
         \/ \E c \in Commands : Start(c)
         \/ Fail \/ Done \/ emit \/ Return

CSpec == CInit /\ [][CNext]_cliVars
-----------------------------------------------------------------------------
\* The values of an option, as admit took them.
Given(values, name) ==
  FlattenSeq([k \in DOMAIN values |-> IF values[k][1] = name THEN <<values[k][2]>> ELSE <<>>])

\* The words a command was admitted with mean to it what they were admitted as: its scans
\* for a flag, a value or all values of an option find what admit took for one, and none
\* of them asks for help (args.rs: "a command never rescans args for them").
ReadAsAdmitted ==
  LET a == admit(words, 1)
  IN  a.ok => /\ \A f \in Flags : f \in a.flags <=> Contains(words, f)
              /\ \A n \in Valued : /\ flag_values(words, n) = Given(a.values, n)
                                   /\ n \notin REPEATABLE => flag_value(words, n) = Given(a.values, n)
              /\ ~help_requested(words)

\* Of a review's options that were let through, each is read by the branch that is taken,
\* except a --json for a view, which is JSON anyway (main.rs:363-366: "A recognized option
\* that cannot affect the selected mode is more dangerous than an unknown one").
OptionsAreRead ==
  opts \subseteq REVIEW_FLAGS(source) /\ validate_review_options(opts) =>
    opts \ (IF opts \cap {"--outline", "--hunks"} # {} THEN {"--json"} ELSE {})
      \subseteq Consulted(source, opts)

\* No word of an admitted command line is read otherwise than it was admitted, or not at all.
EveryOptionCounts == ReadAsAdmitted /\ OptionsAreRead

\* A stage in which a daemon is stopping.
Drains(script, k) == k \in DOMAIN script /\ script[k].does = "drain"

\* What the exit code of an engine command says is so: it is in the registry, or of a daemon
\* that a second signal ended while it was stopping, and then only; 0 means the
\* command did all of it, or its reader went away; a refused command line or input (2, 4)
\* leaves nothing behind; and a failed command has written nothing, unless it failed
\* writing or all of the document it was judged by (main.rs, exit.rs, serve.rs watch_signals).
ExitTellsOutcome ==
  code # Running /\ Family(command) = "engine" =>
    LET script == Script(command)
        writes == {k \in DOMAIN script : script[k].does = "write"}
    IN  /\ code \in EXIT_CODES("engine") \cup (IF Drains(script, stage) THEN Forced ELSE {})
        /\ code = SUCCESS => stage > Len(script) \/ stage \in writes
        /\ code \in {USAGE, INVALID_INPUT} => ~kept
        /\ code # SUCCESS /\ wrote > 0 => stage \in writes \/ Max(writes) < stage
-----------------------------------------------------------------------------
(* The envelope of a command.                                                       *)
CONSTANTS PIPE,          \* the bytes a pipe holds
          STDOUT_CAP, STDERR_CAP,
          MaxOutput,     \* a child writes at most this many bytes to a stream
          Alive, Signal

\* The two that are no exit codes are told from those the child has, and from each other.
ASSUME EnvelopeValues ==
  /\ MaxOutput \in Nat /\ STDOUT_CAP \in Nat /\ STDERR_CAP \in Nat
  /\ Alive # Signal /\ Alive \notin {0, 3, 7, 101} /\ Signal \notin {0, 3, 7, 101}

Streams == {"stdout", "stderr"}
Cap(s) == IF s = "stdout" THEN STDOUT_CAP ELSE STDERR_CAP

VARIABLES will,     \* will[s]: the bytes the child still has to write
          status,   \* the child: Alive, its exit code, or Signal
          text,     \* the child's stdout: "json", "text", or "bytes" that are not UTF-8
          family,   \* family_of the wrapped command
          sent,     \* sent[s]: the bytes the child wrote
          pipe,     \* pipe[s]: the bytes in the pipe
          got,      \* got[s]: the bytes the reader took, those it drained included
          ended,    \* ended[s]: capture has "not" returned, is "read", or "failed"
          result    \* nothing yet, or the envelope and the code it exits with

envVars == <<will, status, text, family, sent, pipe, got, ended, result>>
NoResult == [done |-> FALSE]

EInit == /\ will \in [Streams -> 0 .. MaxOutput]
         /\ text \in {"json", "text", "bytes"} /\ family \in {"engine", "council"}
         /\ status = Alive
         /\ sent = [s \in Streams |-> 0] /\ pipe = [s \in Streams |-> 0]
         /\ got = [s \in Streams |-> 0] /\ ended = [s \in Streams |-> "not"]
         /\ result = NoResult

\* The child writes a byte.
ChildWrites(s) ==
  /\ status = Alive /\ will[s] > 0 /\ pipe[s] < PIPE /\ ended[s] # "failed"
  /\ will' = [will EXCEPT ![s] = @ - 1]
  /\ sent' = [sent EXCEPT ![s] = @ + 1]
  /\ pipe' = [pipe EXCEPT ![s] = @ + 1]
  /\ UNCHANGED <<status, text, family, got, ended, result>>

\* It exits when it has written everything, or a signal ends it.
CommandExits ==
  /\ status = Alive /\ \A s \in Streams : will[s] = 0
  /\ status' \in {0, 3, 7}
  /\ UNCHANGED <<will, text, family, sent, pipe, got, ended, result>>
ChildKilled ==
  /\ status = Alive /\ status' = Signal
  /\ UNCHANGED <<will, text, family, sent, pipe, got, ended, result>>

\* A fault of MayRead: stderr is read after stdout has ended.
OneAfterTheOther(s) == s = "stderr" => ended["stdout"] # "not"

\* capture goes on reading, past the cap too; each stream has its thread.
MayRead(s) == TRUE

\* capture: what is in the pipe is read.
Read(s) ==
  /\ ended[s] = "not" /\ pipe[s] > 0 /\ MayRead(s)
  /\ \E n \in 1 .. pipe[s] : /\ got' = [got EXCEPT ![s] = @ + n]
                             /\ pipe' = [pipe EXCEPT ![s] = @ - n]
  /\ UNCHANGED <<will, status, text, family, sent, ended, result>>

\* capture returns at the end of the stream, when the child has ended and it is empty.
ReadEnds(s) ==
  /\ ended[s] = "not" /\ pipe[s] = 0 /\ status # Alive
  /\ ended' = [ended EXCEPT ![s] = "read"]
  /\ UNCHANGED <<will, status, text, family, sent, pipe, got, result>>

\* capture fails and drops its end of the pipe.
ReadFails(s) ==
  /\ ended[s] = "not" /\ pipe[s] > 0
  /\ ended' = [ended EXCEPT ![s] = "failed"]
  /\ UNCHANGED <<will, status, text, family, sent, pipe, got, result>>

\* The child's next write there fails, and ends it.
ChildWriteFails(s) ==
  /\ status = Alive /\ will[s] > 0 /\ ended[s] = "failed"
  /\ status' \in {0, 101}
  /\ UNCHANGED <<will, text, family, sent, pipe, got, ended, result>>

Cut(s) == got[s] > Cap(s)
Kept(s) == IF Cut(s) THEN Cap(s) ELSE got[s]

\* wrap: the document of a child that has ended.
wrap ==
  [exit_code |-> status,
   outcome |-> IF status = Signal THEN "signal" ELSE lookup(family, status),
   ok |-> status = 0 /\ \A s \in Streams : ~Cut(s),
   format |-> CASE Kept("stdout") = 0 -> "empty"
                [] Kept("stdout") > 0 /\ (Cut("stdout") \/ text = "bytes") -> "text"
                [] OTHER -> text,
   kept |-> [s \in Streams |-> Kept(s)],
   truncated |-> {s \in Streams : Cut(s)}]

\* envelope, once stdout and then stderr have been read and the child has ended: the
\* document and the code to leave with, unless a reader failed.  run_envelope keeps the
\* code when the document's reader is gone, and leaves with IO when it cannot be written.
envelope ==
  /\ result = NoResult
  /\ ended["stdout"] # "not"
  /\ ended["stdout"] = "read" => ended["stderr"] # "not"
  /\ \/ /\ \E s \in Streams : ended[s] = "failed"
        /\ result' = [done |-> TRUE, out |-> "error", doc |-> <<>>, code |-> USAGE]
     \/ /\ \A s \in Streams : ended[s] = "read"
        /\ \E out \in {"written", "closed", "failed"} :
             result' = [done |-> TRUE, out |-> out, doc |-> wrap,
                        code |-> CASE out = "failed" -> IO
                                   [] out # "failed" /\ status = Signal -> SIGNAL_BASE + 9
                                   [] OTHER -> status]
  /\ UNCHANGED <<will, status, text, family, sent, pipe, got, ended>>

ENext == \/ \E s \in Streams : ChildWrites(s) \/ Read(s) \/ ReadEnds(s) \/ ReadFails(s) \/ ChildWriteFails(s)
         \/ CommandExits \/ ChildKilled \/ envelope

ESpec == EInit /\ [][ENext]_envVars

\* The child runs on by itself and so do the threads; no signal and no failure is owed.
EFairness ==
  /\ \A s \in Streams : /\ WF_envVars(ChildWrites(s)) /\ WF_envVars(ChildWriteFails(s))
                         /\ WF_envVars(Read(s)) /\ WF_envVars(ReadEnds(s))
  /\ WF_envVars(CommandExits) /\ WF_envVars(envelope)
-----------------------------------------------------------------------------
\* Whatever order the child writes in and the threads read in, nothing stalls and the
\* envelope ends; and its document says what the child did: its status, as much of each stream as the cap
\* allows and whether that is all; it is parsed
\* only when it is whole, ok only when nothing is missing, and a reader that has gone away
\* changes neither the child's end nor the code (contract.rs:112 "exit_code is 0 and
\* nothing was truncated").
Told == LET doc == result.doc
            Whole(s) == sent[s] <= Cap(s)
        IN  \/ result.out = "error"
            \/ /\ doc.kept = [s \in Streams |-> IF Whole(s) THEN sent[s] ELSE Cap(s)]
               /\ doc.ok <=> status = 0 /\ \A s \in Streams : Whole(s) /\ will[s] = 0
               /\ doc.format = "json" => Whole("stdout") /\ sent["stdout"] > 0
               /\ result.out # "failed" => (result.code = 0 <=> status = 0)
EnvelopeEndsWithAll == <>(result.done /\ Told)
=============================================================================
