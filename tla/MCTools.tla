------------------------------- MODULE MCTools -------------------------------
(***************************************************************************)
(* The parts that work on their own: a child process, the receipt store, the *)
(* lanes of the scheduler, the reading of a hunk's lines for code evidence,  *)
(* the ranking of a review, the learning loop, the check of agents'          *)
(* findings, the review service.  A behaviour is of one of them; the others  *)
(* have ended.                                                               *)
(***************************************************************************)
EXTENDS BoundedProcess, Receipts, Scheduler, CodeEvidence, Ranking, Learning, Findings,
  ReviewService

VARIABLE scene \* the part the behaviour is of

toolVars == <<scene, processVars, receiptVars, laneVars, evidenceVars, changes, learningVars, findingsVars, serviceVars>>

-----------------------------------------------------------------------------
(* Patches and sources for the review service. *)

Lined(chars) == Append(chars, "\n")
PairOf(path, old, new) == [path |-> path, old |-> old, new |-> new]
Patched(path, lang, status) ==
  [path |-> path, language |-> lang, status |-> status, copied |-> FALSE, hunks |-> <<>>]
\* Pairs of sources: an edit inside a comment, a block that moves, a reflow, an end of file that
\* gains its newline, lines around one that stays, too much to compare, a literal over two
\* lines, a line twice, a literal left open, too many tokens, too many bytes.
MCPairs ==
  {PairOf("p", {<<Lined(<<"/*">>), Lined(<<"w">>), Lined(<<"*/", "a">>)>>}, {<<Lined(<<"/*">>), Lined(<<"v">>), Lined(<<"*/", "a">>)>>}),
   PairOf("p", {<<Lined(<<"a", "b">>), Lined(<<"c", "d">>)>>}, {<<Lined(<<"c", "d">>), Lined(<<"a", " ", "b">>)>>}),
   PairOf("p", {<<Lined(<<"a", "//", "w", " ">>), Lined(<<"b">>)>>}, {<<Lined(<<"a", " ", "//", "w">>), <<"b">> >>}),
   PairOf("p", {<<Lined(<<"a", "b">>), Lined(<<"x">>), Lined(<<"c", "d">>)>>}, {<<Lined(<<"c", "a">>), Lined(<<"x">>), Lined(<<"e", "f">>)>>}),
   PairOf("p", {<<Lined(<<"x", "a", "b", "c">>), Lined(<<"d", "e">>)>>}, {<<Lined(<<"x", "b", "a", "e">>), Lined(<<"f", "d">>)>>}),
   PairOf("p", {<<Lined(<<"'", " ", "'">>)>>}, {<<Lined(<<"'", "a">>), Lined(<<"'", "b">>)>>}),
   PairOf("p", {<<Lined(<<"a">>)>>}, {<<Lined(<<"a">>), Lined(<<"a">>)>>}),
   PairOf("p", {<<Lined(<<"a">>)>>}, {<<Lined(<<"'", "a">>), Lined(<<"a">>)>>}),
   PairOf("p", {<<Lined(<<"a">>)>>}, {<<Lined(<<"a", "b", "c", "d", "e", "f", "g">>)>>}),
   PairOf("p", {<<Lined(<<"a">>)>>}, {<<Lined(<<"a", "b", "c", "d", "e", "f", "g", "h", "i">>)>>})}
\* Every two short lines of two tokens.
Short == {Lined(<<"a">> \o t) : t \in UNION {[1 .. n -> {"a", "b"}] : n \in 0 .. 2}} \cup {Lined(<<"b", "a">>)}
MCShort == {PairOf("p", {<<a>>}, {<<b>>}) : a, b \in Short}
Segment(source, from, count, kind) ==
  [i \in 1 .. count |-> LET next == source[from + i - 1]
                        IN [kind |-> kind, no_newline |-> Last(next) # "\n",
                            text |-> IF Last(next) = "\n" THEN Front(next) ELSE next]]
\* A line of the old source, or none, for one of the new, or none; the same with the lines
\* around them where they are the same; all for all; and the first at a line too far.
MCHunksBetween(pair) ==
  LET old == Content(pair.old)
      new == Content(pair.new)
      Placed(o, c, n, d, before, after, off) ==
        [old_start |-> IF c + before + after = 0 THEN o - 1 ELSE o - before,
         new_start |-> off + (IF d + before + after = 0 THEN n - 1 ELSE n - before),
         lines |-> Segment(old, o - before, before, "context") \o Segment(old, o, c, "removed")
                   \o Segment(new, n, d, "added") \o Segment(old, o + c, after, "context")]
      places == {p \in (1 .. Len(old) + 1) \X (0 .. 1) \X (1 .. Len(new) + 1) \X (0 .. 1) :
                   p[1] + p[2] <= Len(old) + 1 /\ p[3] + p[4] <= Len(new) + 1 /\ p[2] + p[4] > 0}
      single == {Placed(p[1], p[2], p[3], p[4], 0, 0, 0) : p \in places}
      wrong == {Placed(p[1], p[2], p[3], p[4], 0, 0, 1) : p \in {q \in places : q[1] = q[3]}}
      around == {Placed(p[1], p[2], p[3], p[4], 1, 0, 0) :
                   p \in {q \in places : q[1] > 1 /\ q[3] > 1 /\ q[1] = q[3] /\ old[q[1] - 1] = new[q[3] - 1]
                                          /\ Last(old[q[1] - 1]) = "\n"}}
      whole == IF old = <<>> \/ new = <<>> THEN {}
               ELSE {Placed(1, Len(old), 1, Len(new), 0, 0, 0)}
  IN single \cup wrong \cup around \cup whole
Other == [Patched("q", "rust", "modified") EXCEPT !.hunks = <<[old_start |-> 1, new_start |-> 1,
            lines |-> <<[kind |-> "removed", text |-> <<"a">>, no_newline |-> FALSE],
                        [kind |-> "added", text |-> <<"b">>, no_newline |-> FALSE]>>]>>]
OtherPair == PairOf("q", {<<Lined(<<"a">>)>>}, {<<Lined(<<"b">>)>>})
Alone(pair) == [files |-> <<Patched("p", "rust", "modified")>>, sources |-> <<pair>>]
MCReviewCases ==
  {Alone(pair) : pair \in MCPairs \cup MCShort}
    \cup {[files |-> <<Patched("p", "rust", "added"), Other>>, sources |-> <<PairOf("p", {}, {<<Lined(<<"a">>)>>}), OtherPair>>],
          [files |-> <<Patched("p", "rust", "deleted"), Other>>, sources |-> <<PairOf("p", {<<Lined(<<"a">>)>>}, {})>>],
          [files |-> <<Patched("p", "python", "modified"), Other>>, sources |-> <<OtherPair>>],
          [files |-> <<Patched("q", "rust", "renamed"), Other>>, sources |-> <<OtherPair>>],
          [files |-> <<[Patched("q", "python", "modified") EXCEPT !.copied = TRUE]>>, sources |-> <<OtherPair>>],
          [files |-> <<Patched("q", "python", "modified")>>, sources |-> <<OtherPair>>],
          [files |-> <<Patched("q", "rust", "renamed")>>, sources |-> <<OtherPair>>],
          [files |-> <<Patched("q", "rust", "modified")>>, sources |-> <<OtherPair, OtherPair>>]}
-----------------------------------------------------------------------------
(* Inputs of the other parts. *)

\* Lines in which a construct is opened, left open, resumed or closed, by language.
MCLines == [
  shell  |-> {<<"dq", "x">>, <<"x", "dq">>, <<"sq", "x">>, <<"dq", "in", "case", "x", "out", "x", "esac", "out", "dq">>,
              <<"lc", "dq">>, <<"bt", "x", "bt">>},
  js     |-> {<<"bt", "x">>, <<"x", "bt">>, <<"bt", "in", "x", "out", "bt">>, <<"dq", "esc">>, <<"co", "x">>,
              <<"cc", "x", "op">>, <<"sl", "bt", "sl", "x">>},
  go     |-> {<<"bt", "x">>, <<"x", "bt">>, <<"co", "x">>, <<"cc", "x", "lc", "bt">>, <<"bt", "esc", "bt", "x">>},
  python |-> {<<"tq", "x">>, <<"x", "tq", "x">>, <<"dq", "esc">>, <<"x", "dq">>, <<"x", "lc", "dq">>,
              <<"fq", "in", "x", "sp", "x", "out", "dq">>},
  rust   |-> {<<"dq", "x">>, <<"x", "dq">>, <<"co", "x">>, <<"cc", "x">>, <<"x", "lc", "dq">>, <<"sq", "dq", "sq", "x">>},
  yaml   |-> {<<"dq", "x">>, <<"x", "dq">>, <<"sq", "x">>, <<"x", "lc", "sq">>} ]

PathOf(id, dirs, name, ext, mark, hazard) ==
  [id |-> id, dirs |-> dirs, name |-> name, ext |-> ext, mark |-> mark, hazard |-> hazard]
File(path, status) ==
  [path |-> path, status |-> status, shebang |-> "none", old |-> {}, new |-> {}, fromHazard |-> FALSE, hunks |-> <<>>]
\* A file that grows and one it is ranked against, which is as long as it gets.
Plain == [kind |-> "added", text |-> [code |-> {"y"}, quoted |-> {}, hazard |-> FALSE]]
Readme == [File(PathOf(4, <<>>, "README", "md", "", FALSE), "modified") EXCEPT
             !.hunks = <<[i \in 1 .. MaxChangeLines |-> Plain]>>]
MCChanges ==
  {<<File(PathOf(1, <<"src">>, "lib", "rs", "", FALSE), "added"), Readme>>,
   <<[File(PathOf(9, <<"src", "generated">>, "x", "rs", "", FALSE), "added") EXCEPT !.new = {"executable"}], Readme>>,
   <<File(PathOf(9, <<"tests">>, "it", "py", "_test", FALSE), "modified"), Readme>>,
   <<File(PathOf(9, <<".github/workflows">>, "ci", "yml", "", FALSE), "modified"), Readme>>,
   <<File(PathOf(9, <<"pkg", "vendor">>, "package", "json", "", TRUE), "deleted"), Readme>>,
   <<File(PathOf(9, <<"a", "api">>, "build", "rs", "", FALSE), "modified"), Readme>>,
   <<[File(PathOf(9, <<>>, "run", "", "", FALSE), "binary") EXCEPT !.shebang = "shell", !.old = {"symlink"}],
     [Readme EXCEPT !.fromHazard = TRUE]>>}
Line(kind, code, quoted, hazard) ==
  [kind |-> kind, text |-> [code |-> code, quoted |-> quoted, hazard |-> hazard]]
MCChangeLines ==
  {Line("context", {"unsafe", "test"}, {}, TRUE), Line("added", {"unsafe", "spawn"}, {}, FALSE),
   Line("added", {"eval", "curl"}, {"secret", "unsafe"}, FALSE), Line("removed", {"test", "spawn"}, {"secret"}, FALSE),
   Line("added", {"write-all"}, {"allow", "postinstall"}, TRUE)}

Receipt(strategy, outcome, fallback, elapsed, revisited) ==
  [strategy |-> strategy, outcome |-> outcome, fallback |-> fallback, elapsed |-> elapsed, revisited |-> revisited]
MCReceipts ==
  {Receipt("patch", "accepted", "none", 1, FALSE), Receipt("patch", "rejected", "byte_budget", U64_MAX, TRUE),
   Receipt("patch", "accepted", "none", 300, FALSE), Receipt("patch", "pending", "none", 1, FALSE),
   Receipt("syntax", "accepted", "none", 1, FALSE), Receipt("syntax", "accepted", "parse_errors", 1, TRUE),
   Receipt("hybrid", "accepted", "none", 1, FALSE)}
Annotation(spans, accepted, contradicted, overridden) ==
  [spans |-> spans, accepted |-> accepted, contradicted |-> contradicted, overridden |-> overridden]
MCAnnotations ==
  {Annotation(1, TRUE, FALSE, FALSE), Annotation(0, TRUE, FALSE, FALSE), Annotation(2, TRUE, TRUE, FALSE)}
MCReviews ==
  {[signals |-> {"revisited", "wide_fanout"}, risk |-> TRUE], [signals |-> {"revisited"}, risk |-> FALSE],
   [signals |-> {"public_api_touch", "wide_fanout"}, risk |-> FALSE]}
MCPlans ==
  [large : BOOLEAN, useful : BOOLEAN, generated : BOOLEAN, previous : {"none", "node_budget"}, diff_lines : {0, 2000}]
Num(n) == [k |-> "num", v |-> n]
MCCandidates ==
  [benchmark : {Num(0), Num(6), [k |-> "nan", v |-> 0], [k |-> "-inf", v |-> 0]}, fallback : {Num(0), [k |-> "inf", v |-> 0]},
   corpus : {0, 1}, intentional : {FALSE}, supported : {TRUE}, inspectable : {TRUE}]
MCTrustPolicy ==
  [min_samples |-> 2, min_acceptance |-> Rate(7, 10), min_helpful |-> Rate(5, 10), max_fallback |-> Rate(3, 10),
   max_revisit |-> Rate(25, 100), max_elapsed |-> Rate(250, 1)]
MCPromotionPolicy == [benchmark |-> Num(5), fallback |-> Num(1), min_supporting |-> 2]

HunkLine(kind, old, new, text) == [kind |-> kind, old |-> old, new |-> new, text |-> text]
Twin(start, a, b) ==
  [ranges |-> start, lines |-> <<HunkLine("context", start, start, "c"), HunkLine("removed", start + 1, 0, a),
                                 HunkLine("added", 0, start + 1, b), HunkLine("added", 0, start + 2, a)>>]
\* A path twice, with a hunk twice.
MCReviewed ==
  {<<[path |-> "p", hunks |-> <<Twin(1, "x", "y")>>], [path |-> "q", hunks |-> <<Twin(1, "x", "y")>>],
     [path |-> "p", hunks |-> <<Twin(1, "x", "y"), Twin(7, "y", "x")>>]>>,
   <<[path |-> "p", hunks |-> <<>>], [path |-> "p", hunks |-> <<Twin(7, "y", "x")>>]>>}
Finding(path, place, side, number) ==
  [blank |-> FALSE, wellFormed |-> TRUE, agent |-> [says |-> "a", hidden |-> FALSE],
   title |-> [says |-> "t", hidden |-> FALSE], review |-> {}, long |-> FALSE,
   path |-> path, address |-> place, side |-> side, line |-> number]
There == address("p", Twin(7, "y", "x"))
MCFindings ==
  {Finding({"p"}, {}, "new", {2}), Finding({"p"}, {}, "old", {2}), Finding({"p"}, {}, "new", {8}), Finding({"p"}, {}, "new", {}),
   Finding({"r"}, {}, "new", {}), Finding({"p"}, {}, "old", {9}), Finding({}, {There}, "old", {8}), Finding({"q"}, {There}, "new", {}),
   [Finding({"p"}, {}, "new", {2}) EXCEPT !.title = [says |-> "t", hidden |-> TRUE], !.review = {"this"}],
   [Finding({}, {There}, "new", {3}) EXCEPT !.agent = [says |-> "", hidden |-> TRUE]],
   [Finding({"p"}, {}, "new", {}) EXCEPT !.review = {"other"}], [Finding({"p"}, {}, "new", {}) EXCEPT !.long = TRUE],
   [Finding({}, {}, "new", {}) EXCEPT !.wellFormed = FALSE], [Finding({}, {}, "new", {}) EXCEPT !.blank = TRUE]}

ProcessIdle == proc = [Spawned EXCEPT !.child = "exited", !.caller = "returned", !.stdoutDone = TRUE,
                                      !.stderrDone = TRUE, !.writerDone = TRUE, !.late = TRUE]
ReceiptsIdle ==
    /\ store = [kind |-> "absent", pieces |-> <<>>, dir |-> "secure"]
    /\ appender = [a \in Appenders |-> [pc |-> "end", saw |-> "", glue |-> FALSE,
                                        result |-> "none", alone |-> TRUE]]
LaneIdle == lane = [files |-> 0, workers |-> 1, panics |-> 0, done |-> {}, joined |-> 0, result |-> <<>>, end |-> "returned"]
EvidenceIdle == ReadingFrom("rust", MaxHunk)
RankingIdle == changes = <<>>
FindingsIdle == sections = <<>> /\ given = <<>> /\ verdict = [accepted |-> <<>>, refused |-> <<>>, overLimit |-> 0, index |-> 0]
ServiceIdle == captured = <<>> /\ supplied = <<>> /\ bundle = [answer |-> "idle", records |-> <<>>, written |-> <<>>]

MCInit ==
    /\ scene \in {"process", "receipts", "lane", "evidence", "ranking", "learning", "findings", "service"}
    /\ IF scene = "process" THEN ProcessInit ELSE ProcessIdle
    /\ IF scene = "receipts" THEN ReceiptsInit ELSE ReceiptsIdle
    /\ IF scene = "lane" THEN LaneInit ELSE LaneIdle
    /\ IF scene = "evidence" THEN EvidenceInit ELSE EvidenceIdle
    /\ IF scene = "ranking" THEN RankingInit ELSE RankingIdle
    /\ LearningInit
    /\ IF scene = "findings" THEN FindingsInit ELSE FindingsIdle
    /\ IF scene = "service" THEN ServiceInit ELSE ServiceIdle
MCNext ==
    /\ UNCHANGED scene
    /\ \/ ProcessNext /\ UNCHANGED <<receiptVars, laneVars, evidenceVars, changes, learningVars, findingsVars, serviceVars>>
       \/ ReceiptsNext /\ UNCHANGED <<processVars, laneVars, evidenceVars, changes, learningVars, findingsVars, serviceVars>>
       \/ LaneNext /\ UNCHANGED <<processVars, receiptVars, evidenceVars, changes, learningVars, findingsVars, serviceVars>>
       \/ EvidenceNext /\ UNCHANGED <<processVars, receiptVars, laneVars, changes, learningVars, findingsVars, serviceVars>>
       \/ RankingNext /\ UNCHANGED <<processVars, receiptVars, laneVars, evidenceVars, learningVars, findingsVars, serviceVars>>
       \/ /\ scene = "learning" /\ LearningNext
          /\ UNCHANGED <<processVars, receiptVars, laneVars, evidenceVars, changes, findingsVars, serviceVars>>
       \/ /\ scene = "findings" /\ FindingsNext
          /\ UNCHANGED <<processVars, receiptVars, laneVars, evidenceVars, changes, learningVars, serviceVars>>
       \/ /\ scene = "service" /\ ServiceNext
          /\ UNCHANGED <<processVars, receiptVars, laneVars, evidenceVars, changes, learningVars, findingsVars>>
MCSpec == MCInit /\ [][MCNext]_toolVars /\ OwnFairness

==============================================================================
