------------------------------- MODULE Ranking -------------------------------
(***************************************************************************)
(* The order a review is read in, crates/deep-diff-forge-graph: the rules    *)
(* of evidence.rs over the changed lines, the score of risk.rs, the order of *)
(* rank.rs.  A change grows line by line while it is worked on, and is       *)
(* ranked again each time.                                                  *)
(*                                                                         *)
(* A path is its directories, the file's name without and with its last      *)
(* extension.  A line's text is what tokens it has: in its code, and in its  *)
(* comments and strings.  Which is which is CodeEvidence's subject.          *)
(***************************************************************************)
EXTENDS Integers, Sequences, FiniteSets, SequencesExt, FiniteSetsExt, Functions

CONSTANTS
    Changes,               \* the files a behaviour may start from
    ChangeLines,           \* the lines it may get: what they are and their text
    MAX_EVIDENCE_PER_FILE, LARGE_CHANGE_LINES, MANY_HUNKS,
    MaxChangeLines         \* bound: the lines a change grows to

VARIABLE changes \* the files of the review, as parsed
-----------------------------------------------------------------------------
(* evidence.rs *)
ALL == <<"unsafe_added", "process_spawn", "network_fetch", "dynamic_eval", "ci_privilege", "build_hook",
         "secret_like", "check_suppressed", "test_removed">>
weight(signal) ==
    CASE signal = "secret_like" -> 5
      [] signal \in {"unsafe_added", "process_spawn", "dynamic_eval", "ci_privilege"} -> 4
      [] signal \in {"network_fetch", "build_hook", "test_removed"} -> 3
      [] signal = "check_suppressed" -> 2

rule(signal, side, view, scope, matches) ==
    [signal |-> signal, side |-> side, view |-> view, scope |-> scope, matches |-> matches]
Code4 == {"rust", "python", "js", "go"}
\* The table, a token standing for the tokens of its signal in that language.
RULES ==
    {rule("unsafe_added", "new", "code", {"rust"}, "unsafe")}
    \cup {rule("process_spawn", "new", "code", {l}, "spawn") : l \in Code4}
    \cup {rule("network_fetch", "new", "code", {l}, "fetch") : l \in Code4}
    \cup {rule("network_fetch", "new", "code", {"shell", "yaml"}, "curl")}
    \cup {rule("dynamic_eval", "new", "code", {l}, "eval") : l \in {"python", "js", "shell"}}
    \cup {rule("ci_privilege", "new", "code", {"CiWorkflow"}, "write-all"),
          rule("build_hook", "new", "code", {"BuildScript"}, "any code"),
          rule("build_hook", "new", "raw", {"PackageJson"}, "postinstall"),
          rule("secret_like", "new", "raw", {"Any"}, "secret")}
    \cup {rule("check_suppressed", "new", "raw", {l}, "allow") : l \in Code4}
    \cup {rule("test_removed", "old", "code", {l}, "test") : l \in Code4}

\* The language of an extension, else of the shebang of a new side that starts at line 1.
OfExtension(path) ==
    CASE path.name \in {"Dockerfile", "Makefile"} -> "shell"
      [] path.ext = "rs" -> "rust" [] path.ext = "py" -> "python" [] path.ext = "js" -> "js"
      [] path.ext = "go" -> "go" [] path.ext = "sh" -> "shell" [] path.ext \in {"yml", "yaml"} -> "yaml"
      [] OTHER -> "none"
LanguageOf(file) == IF OfExtension(file.path) = "none" THEN file.shebang ELSE OfExtension(file.path)

Within(path, dir) == dir \in Range(path.dirs)
is_generated_or_vendored(path) ==
    \/ \E dir \in {"vendor", "node_modules", "target", "generated", "dist"} :
          Within(path, dir) \/ (path.name = dir /\ path.ext = "")
    \/ <<path.mark, path.ext>> \in {<<"min", "js">>, <<"pb", "rs">>, <<"pb", "go">>}
Named(path, name, ext) == path.name = name /\ path.ext = ext /\ path.mark = ""

\* FileKind: the scopes of the rules that read a file.
FileKind(file) ==
    LET path == file.path IN
    ({"Any", LanguageOf(file)} \ {"none"})
    \cup {s \in {"CiWorkflow"} : (Within(path, ".github/workflows") /\ OfExtension(path) = "yaml")
                                 \/ Named(path, ".gitlab-ci", "yml")}
    \cup {s \in {"BuildScript"} : (Named(path, "build", "rs") \/ Named(path, "setup", "py")) /\ ~is_generated_or_vendored(path)}
    \cup {s \in {"PackageJson"} : Named(path, "package", "json") /\ ~is_generated_or_vendored(path)}
\* The rules a file's kind admits.
Admitted(file) == LET kind == FileKind(file) IN {r \in RULES : r.scope \cap kind # {}}

\* A line a rule hits: in code alone, or as written.
hits(r, text) ==
    LET read == IF r.view = "raw" THEN text.code \cup text.quoted ELSE text.code
    IN  IF r.matches = "any code" THEN read # {} ELSE r.matches \in read

\* hunk_matches: each signal once per changed line, in the order of ALL.
hunk_matches(file, h) ==
    LET rules == Admitted(file)
        Side(line) == CASE line.kind = "added" -> "new" [] line.kind = "removed" -> "old" [] OTHER -> "none"
        Hit(line) == {r.signal : r \in {r \in rules : r.side = Side(line) /\ hits(r, line.text)}}
        Found(i) == LET hit == Hit(file.hunks[h][i])
                        here == SelectSeq(ALL, LAMBDA signal : signal \in hit)
                    IN  [k \in 1 .. Len(here) |-> [signal |-> here[k], hunk |-> h, line |-> i]]
    IN  FlattenSeq([i \in 1 .. Len(file.hunks[h]) |-> Found(i)])
file_evidence(file) == FlattenSeq([h \in 1 .. Len(file.hunks) |-> hunk_matches(file, h)])
SignalsOf(found) == {found[k].signal : k \in DOMAIN found}
hunk_signals(file, h) == SignalsOf(hunk_matches(file, h))
-----------------------------------------------------------------------------
(* risk.rs *)
Below(path, dir) == \E i \in 2 .. Len(path.dirs) : path.dirs[i] = dir
is_test(path) ==
    \/ Within(path, "tests") \/ Below(path, "test")
    \/ path.mark \in {"_test", ".test"}
is_public_api(path) == Named(path, "lib", "rs") \/ Named(path, "mod", "rs") \/ Below(path, "api")
is_config_or_lockfile(path) ==
    \/ path.ext \in {"toml", "yaml", "yml", "ini", "cfg", "lock"}
    \/ Named(path, "package", "json") \/ Named(path, "package-lock", "json")

\* The score and the signals so far, with one more signal and its weight if it applies.
Plus(acc, applies, signal, points) ==
    IF applies THEN [score |-> acc.score + points, signals |-> acc.signals \cup {signal}] ELSE acc
status_weight(file, acc) ==
    Plus(Plus(Plus(acc, file.status = "added", "new_file", 2), file.status = "deleted", "deleted_file", 3),
         file.status = "binary", "binary_change", 1)
Changed(file) == {line \in UNION {Range(file.hunks[h]) : h \in DOMAIN file.hunks} : line.kind # "context"}
hazard_weight(file, acc) ==
    Plus(acc, (\E line \in Changed(file) : line.text.hazard) \/ file.fromHazard \/ file.path.hazard, "hazardous_text", 3)
mode_weight(file, acc) ==
    Plus(Plus(acc, "symlink" \in file.old \cup file.new, "symlink_change", 3),
         "executable" \in file.new /\ "executable" \notin file.old, "executable_bit", 2)
change_counts(file) ==
    SumFunction([h \in DOMAIN file.hunks |-> Cardinality({i \in DOMAIN file.hunks[h] : file.hunks[h][i].kind # "context"})])

score_path_and_shape(file) ==
    LET path == file.path
        test == is_test(path)
        config == is_config_or_lockfile(path)
        base == [score |-> 1, signals |-> {}]
        Facts(acc) == mode_weight(file, hazard_weight(file, status_weight(file, acc)))
        source == [base EXCEPT !.score = @ + IF test \/ config THEN 0 ELSE 1]
        role == Plus(Plus(Plus(source, is_public_api(path), "public_api_surface", 5), test, "test_only", 0),
                     config /\ ~test, "config_or_lockfile", 1)
        size == Plus(Facts(role), change_counts(file) >= LARGE_CHANGE_LINES, "large_change", 3)
    IN  IF is_generated_or_vendored(path) THEN Facts(Plus(base, TRUE, "generated_or_vendored", 0))
        ELSE Plus(size, Len(file.hunks) >= MANY_HUNKS, "many_hunks", 2)

Halved(n) == (n + 1) \div 2
\* A fault of assess_file: only the evidence that is printed is scored.
PrintedOnly(file) ==
    LET shape == score_path_and_shape(file)
        evidence == file_evidence(file)
        found == SignalsOf(SubSeq(evidence, 1, Min({Len(evidence), MAX_EVIDENCE_PER_FILE})))
        Points(signal) == IF is_test(file.path) /\ signal # "test_removed" THEN Halved(weight(signal)) ELSE weight(signal)
    IN  [score |-> shape.score + MapThenSumSet(Points, found), signals |-> shape.signals \cup found, evidence |-> evidence]
assess_file(file) ==
    LET shape == score_path_and_shape(file)
        evidence == file_evidence(file)
        found == SignalsOf(evidence)
        Points(signal) == IF is_test(file.path) /\ signal # "test_removed" THEN Halved(weight(signal)) ELSE weight(signal)
    IN  [score |-> shape.score + MapThenSumSet(Points, found), signals |-> shape.signals \cup found, evidence |-> evidence]

(* rank.rs *)
scored(file) ==
    LET found == assess_file(file)
        shown == Min({Len(found.evidence), MAX_EVIDENCE_PER_FILE})
    IN  [id |-> file.path.id, score |-> found.score, signals |-> found.signals,
         evidence |-> SubSeq(found.evidence, 1, shown), truncated |-> Len(found.evidence) > MAX_EVIDENCE_PER_FILE]
\* Falling score, then path.
sort_ranked(ranked) ==
    SortSeq(ranked, LAMBDA a, b : a.score > b.score \/ (a.score = b.score /\ a.id < b.id))
rank(files) == sort_ranked([k \in 1 .. Len(files) |-> scored(files[k])])
-----------------------------------------------------------------------------
RankingInit == changes \in Changes

Grown(file) == Len(FlattenSeq(file.hunks)) < MaxChangeLines
\* The change gets another line at the end of a hunk, or another hunk.
AddLine(k, h, line) ==
    /\ Grown(changes[k])
    /\ changes' = [changes EXCEPT ![k].hunks[h] = Append(@, line)]
AddHunk(k, line) ==
    /\ Grown(changes[k])
    /\ changes' = [changes EXCEPT ![k].hunks = Append(@, <<line>>)]

RankingNext ==
    \E k \in DOMAIN changes, line \in ChangeLines :
        \/ AddHunk(k, line)
        \/ \E h \in DOMAIN changes[k].hunks : AddLine(k, h, line)
-----------------------------------------------------------------------------
\* A change hides nothing by growing or by where it is.  Another line never lowers a file's score or
\* takes one of its signals away, and so never moves it down past a file that did not change; what
\* the ranking says of a file is what its hunks' views say of them, however much of it is printed;
\* and code it carries weighs at least half at any path (risk.rs assess_file, evidence.rs
\* hunk_signals, rank.rs scored).
GrowthHidesNothing ==
    LET was == rank(changes)
        now == rank(changes')
        At(ranked, k) == CHOOSE i \in DOMAIN ranked : ranked[i].id = changes[k].path.id
    IN  \A k \in {j \in DOMAIN changes : changes'[j] # changes[j]} :
          LET old  == was[At(was, k)]
              new  == now[At(now, k)]
              file == changes'[k]
              told == UNION {hunk_signals(file, h) : h \in DOMAIN file.hunks}
          IN  /\ new.score >= old.score /\ old.signals \subseteq new.signals
              /\ At(now, k) <= At(was, k)
              /\ new.signals \cap Range(ALL) = told
              /\ new.truncated => Len(new.evidence) = MAX_EVIDENCE_PER_FILE
              /\ 2 * (new.score - score_path_and_shape(file).score) >= MapThenSumSet(weight, told)
RankingHidesNothing == [][GrowthHidesNothing]_changes
==============================================================================
