----------------------------- MODULE MCFrontends ------------------------------
(* What stands between a user and the engine, for TLC: the command line, the MCP server,  *)
(* the envelope, the metrics file and the cockpit.  A behaviour is of one of them, the    *)
(* scene; the others stand still.                                                         *)
EXTENDS Cli, Mcp, Textfile, Cockpit, DiffView

VARIABLE scene

frontVars == <<scene, cliVars, mcpVars, envVars, textVars, cockpitVars, diffVars>>

Line == [len |-> 2, text |-> "utf8", json |-> "object", rpc |-> TRUE, id |-> "ok", method |-> "ping",
         params |-> "object", meta |-> "none", version |-> "2025-06-18", call |-> Absent]
Changed(path, size) == [path |-> path, size |-> size, additions |-> size, deletions |-> 1]
Calls(tool, args, engine, files) ==
  [Line EXCEPT !.method = "tools/call", !.meta = "modern",
               !.call = [tool |-> tool, args |-> args, engine |-> engine, files |-> files]]
Small == <<Changed("a", 1), Changed("b", 2)>>
Large == <<Changed("a", 2), Changed("b", 2), Changed("c", 1), Changed("a", 1)>>

ProtocolLines ==
  {Line, [Line EXCEPT !.method = "initialize"], [Line EXCEPT !.method = "initialize", !.id = "none"],
   [Line EXCEPT !.method = "initialize", !.params = "other"],
   [Line EXCEPT !.method = "initialize", !.len = 5], [Line EXCEPT !.len = 0, !.text = "blank"],
   [Line EXCEPT !.text = "bytes"], [Line EXCEPT !.json = "bad"], [Line EXCEPT !.rpc = FALSE],
   [Line EXCEPT !.id = "bad", !.len = 4], [Line EXCEPT !.meta = "modern", !.method = "server/discover"]}
ToolLines ==
  {[Calls("nothing", <<>>, "value", Small) EXCEPT !.meta = "none"],
   [Calls("review_patch", [detail |-> "auto"], "value", Small) EXCEPT !.meta = "none"],
   [Calls("review_patch", [detail |-> "all"], "value", Small) EXCEPT !.meta = "other"],
   [Calls("verify_findings", <<>>, "panicked", Small) EXCEPT !.meta = "bare"],
   [Line EXCEPT !.method = "tools/list"]}
  \cup {Calls("review_patch", args, "value", files) :
          args \in {<<>>, [detail |-> "summary"], [paths |-> <<"b", "a">>], [paths |-> <<"d">>],
                    [paths |-> <<"a">>, detail |-> "summary"]}, files \in {<<>>, Small, Large}}
  \cup {Calls("rank_patch", <<>>, "value", files) : files \in {<<>>, Small, Large}}
  \cup {Calls("review_outline", [max_bytes |-> n], engine, Small) : n \in {1, 3}, engine \in {"value", "refused"}}
  \cup {Calls("explain_exit_code", [code |-> 7, family |-> f], "value", Small) : f \in {"engine", "other"}}
Handshaken == [Line EXCEPT !.method = "initialize"]
MCSent == {<<a, b, c>> : a, b, c \in ProtocolLines} \cup {<<a, b>> : a \in {Line, Handshaken}, b \in ToolLines}

Ln(kind, graphemes) == [kind |-> kind, text |-> graphemes]
C == Ln("context", <<"a">>)
Tab == Ln("context", <<"t">>)
Wide == Ln("removed", <<"w", "a", "w">>)
R == Ln("removed", <<>>)
A == Ln("added", <<"t", "a", "a", "a">>)
HunkA == <<C, C, Tab, Wide, A, A, C>>
HunkB == <<A, C, Tab, R, A, R>>
PaneFiles == {[hunks |-> <<>>, notes |-> <<0>>], [hunks |-> <<HunkA>>, notes |-> <<1, 0>>],
              [hunks |-> <<HunkB, HunkA>>, notes |-> <<2>>], [hunks |-> <<<<Tab, Tab, C>>>>, notes |-> <<>>]}
Blocks == {[hunks |-> <<[i \in 1 .. Len(kinds) |-> Ln(kinds[i], <<>>)]>>, notes |-> <<>>] :
             kinds \in BoundedSeq({"context", "removed", "added"}, 5)}
MCReviews == BoundedSeq(PaneFiles, 2) \cup {<<b>> : b \in Blocks}
MCWindows == {[delta |-> d, height |-> h] : d \in {0, 1, 4, 9, 40}, h \in {0, 1, 5}}

MCInit ==
  /\ scene \in {"words", "options", "commands", "mcp", "envelope", "file", "cockpit", "diff"}
  /\ CInit
  /\ IF scene = "mcp" THEN MInit
     ELSE /\ lines = <<>> /\ ends = TRUE /\ row = 1 /\ col = 0 /\ buffered = 0
          /\ held = 0 /\ over = FALSE /\ legacy = Absent /\ replies = <<>>
  /\ IF scene = "envelope" THEN EInit
     ELSE /\ will = [s \in Streams |-> 0] /\ text = "text" /\ family = "engine" /\ status = 0
          /\ sent = will /\ pipe = will /\ got = will /\ ended = [s \in Streams |-> "read"]
          /\ result = [done |-> TRUE, out |-> "error", doc |-> <<>>, code |-> 0]
  /\ IF scene = "file" THEN TInit
     ELSE /\ at = Nothing /\ temp = [n \in Pids \X (0 .. TEMPORARY_ATTEMPTS - 1) |-> Nothing]
          /\ run = [r \in Writers |-> [pc |-> "new", pid |-> "none", try |-> 0]]
  /\ IF scene = "cockpit" THEN CockpitInit
     ELSE /\ dirs = <<>> /\ app = AppStart /\ clicked = NoClick /\ events = 0
          /\ frame = [rows |-> <<>>, hits |-> [rows |-> 0, scroll |-> 0], of |-> 0]
          /\ tty = [raw |-> FALSE, screen |-> FALSE, pc |-> "done", armed |-> FALSE, failed |-> {}, result |-> "error"]
  /\ IF scene = "diff"
     THEN /\ DiffInit
          /\ Len(view.review) = 1 /\ view.review[1] \in Blocks =>
               ~view.side /\ ~view.fold /\ ~view.wrap /\ ~view.notes /\ view.delta = 0 /\ view.height = 5
     ELSE /\ view = [review |-> <<>>, selected |-> 1, side |-> FALSE, fold |-> FALSE, wrap |-> FALSE,
                     notes |-> FALSE, delta |-> 0, height |-> 0]
          /\ walk = "none" /\ sections = <<>> /\ shown = [lines |-> <<>>, total |-> 0, offset |-> 0]

MCNext ==
  /\ UNCHANGED scene
  /\ \/ /\ \/ scene = "words" /\ \E w \in Words : Type(w)
           \/ /\ scene = "options" /\ opts = {}
              /\ \E src \in Sources, n \in 1 .. MaxOptions : \E o \in kSubset(n, OptionNames) : Choose(src, o)
           \/ scene = "commands" /\ (Fail \/ Done \/ emit \/ Return \/ \E c \in Commands : Start(c))
        /\ UNCHANGED <<mcpVars, envVars, textVars, cockpitVars, diffVars>>
     \/ scene = "mcp" /\ MNext /\ UNCHANGED <<cliVars, envVars, textVars, cockpitVars, diffVars>>
     \/ ENext /\ UNCHANGED <<cliVars, mcpVars, textVars, cockpitVars, diffVars>>
     \/ scene = "file" /\ TNext /\ UNCHANGED <<cliVars, mcpVars, envVars, cockpitVars, diffVars>>
     \/ CockpitNext /\ UNCHANGED <<cliVars, mcpVars, envVars, textVars, diffVars>>
     \/ scene = "diff" /\ DiffNext /\ UNCHANGED <<cliVars, mcpVars, envVars, textVars, cockpitVars>>

MCSpec == MCInit /\ [][MCNext]_frontVars /\ EFairness
=============================================================================
