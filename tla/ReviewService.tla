---------------------------- MODULE ReviewService ----------------------------
(***************************************************************************)
(* The shared review service (pipeline/src/review.rs): a captured patch and  *)
(* the sources a caller says it goes between are checked against each other, *)
(* the changed tokens are attributed to the hunks that hold them, and every  *)
(* file gets a record that says how much of its change the spans show.       *)
(*                                                                           *)
(* A hunk line has a kind, a text (a line without its end) and the "\ No     *)
(* newline" mark; a source that is absent is {}, one that is there {lines}.  *)
(***************************************************************************)
EXTENDS Naturals, Sequences, FiniteSets, FiniteSetsExt, SequencesExt, TLC

(***************************************************************************)
(* The structural diff of two sources (syntax/src/structural.rs): the leaves *)
(* of the syntax tree as tokens, a longest-common-subsequence script over    *)
(* them, a script anchored on unchanged lines when the table is too large,   *)
(* a coarse one when that is too large as well, and blocks that moved.       *)
(*                                                                           *)
(* A source is a sequence of lines and a line a sequence of characters, all  *)
(* but perhaps the last ended by "\n".  " " is a blank; "/*" opens and "*/"  *)
(* closes a block comment; "//" opens a line comment; "'" opens and closes a *)
(* string literal; every other character is a token.                         *)
(***************************************************************************)

CONSTANTS
  LCS_CELL_BUDGET, \* the cells of a table of tokens, or of lines
  MIN_MOVE_RUN,    \* the shortest run of tokens that is a moved block
  TREE_NODES,      \* the most nodes of a tree that are visited
  SOURCE_BYTES     \* the longest source that is parsed

ASSUME StructuralAssumption ==
  {LCS_CELL_BUDGET, MIN_MOVE_RUN, TREE_NODES, SOURCE_BYTES} \subseteq Nat

\* The text of a comment without the blanks its lines end in, or its last line's end.
comment_token(text) ==
  LET Trim(kept, c) ==
        CASE c = " " -> [kept EXCEPT !.blanks = Append(@, c)]
          [] c = "\n" -> [out |-> Append(kept.out, c), blanks |-> <<>>]
          [] OTHER -> [out |-> Append(kept.out \o kept.blanks, c), blanks |-> <<>>]
      out == FoldLeft(Trim, [out |-> <<>>, blanks |-> <<>>], text).out
  IN IF Last(text) = "\n" THEN Front(out) ELSE out

\* What ends a node that is one token whole: a comment, a string literal.
is_whole_token(c) == c \in {"/*", "//", "'"}
is_comment(c) == c \in {"/*", "//"}
Closes(c) == CASE c = "/*" -> "*/" [] c = "//" -> "\n" [] c = "'" -> "'"

\* What tree-sitter makes of a source: its leaves, and whether the tree has an error,
\* here a comment or a literal that nothing closes.
ParseTree(source) ==
  LET Leaf(node) ==
        [text |-> IF is_comment(node.text[1]) THEN comment_token(node.text) ELSE node.text, line |-> node.line]
      Read(tree, c) ==
        LET below == IF c = "\n" THEN tree.line + 1 ELSE tree.line
            grown == [text |-> Append(tree.open, c), line |-> tree.at]
        IN CASE tree.open # <<>> /\ c = Closes(tree.open[1]) ->
                  [tree EXCEPT !.leaves = Append(@, Leaf(grown)), !.open = <<>>, !.line = below]
             [] tree.open # <<>> /\ c # Closes(tree.open[1]) -> [tree EXCEPT !.open = grown.text, !.line = below]
             [] tree.open = <<>> /\ is_whole_token(c) -> [tree EXCEPT !.open = <<c>>, !.at = tree.line]
             [] tree.open = <<>> /\ c \in {" ", "\n"} -> [tree EXCEPT !.line = below]
             [] OTHER -> [tree EXCEPT !.leaves = Append(@, [text |-> <<c>>, line |-> tree.line])]
      End(tree) ==
        IF tree.open # <<>> /\ tree.open[1] = "//"
        THEN [leaves |-> Append(tree.leaves, Leaf([text |-> tree.open, line |-> tree.at])), error |-> FALSE]
        ELSE [leaves |-> tree.leaves, error |-> tree.open # <<>>]
  IN End(FoldLeft(Read, [leaves |-> <<>>, open |-> <<>>, at |-> 1, line |-> 1], FlattenSeq(source)))

\* The tokens of a source, or why there are none.  slow: the parse was cancelled.
tokenize_checked(language, source, slow) ==
  LET Refuse(reason) == [reason |-> reason, tokens |-> <<>>]
      Walk(tree) == IF tree.error THEN Refuse("parse_errors")
                    ELSE IF Len(tree.leaves) + 1 > TREE_NODES THEN Refuse("node_budget")
                    ELSE [reason |-> "none", tokens |-> tree.leaves]
  IN CASE language # "rust" -> Refuse("unsupported_language")
       [] language = "rust" /\ Len(FlattenSeq(source)) > SOURCE_BYTES -> Refuse("byte_budget")
       [] language = "rust" /\ Len(FlattenSeq(source)) <= SOURCE_BYTES ->
            IF slow THEN Refuse("time_budget") ELSE Walk(ParseTree(source))

Texts(tokens) == [i \in 1 .. Len(tokens) |-> tokens[i].text]

\* How many elements two sequences begin with, and of the rest end with, in common.
common_affixes(a, b) ==
  LET Same(n) == {k \in 0 .. n : \A i \in 1 .. k : a[i] = b[i]}
      prefix == Max(Same(Min({Len(a), Len(b)})))
      rest == Min({Len(a), Len(b)}) - prefix
  IN [prefix |-> prefix,
      suffix |-> Max({k \in 0 .. rest : \A i \in 0 .. k - 1 : a[Len(a) - i] = b[Len(b) - i]})]

Equal(i, j) == [op |-> "equal", i |-> i, j |-> j]
Delete(i) == [op |-> "delete", i |-> i, j |-> 0]
Insert(j) == [op |-> "insert", i |-> 0, j |-> j]
Shifted(op, i, j) ==
  CASE op.op = "equal" -> Equal(op.i + i, op.j + j)
    [] op.op = "delete" -> Delete(op.i + i)
    [] op.op = "insert" -> Insert(op.j + j)
ShiftAll(ops, i, j) == [k \in 1 .. Len(ops) |-> Shifted(ops[k], i, j)]
Diagonal(n) == [k \in 1 .. n |-> Equal(k, k)]

\* table[i][j]: the longest common subsequence of a from i on and b from j on.
LcsTable(a, b) ==
  LET Cell(x, below, j, row) ==
        <<IF x = b[j] THEN below[j + 1] + 1 ELSE Max({below[j], row[1]})>> \o row
      Row(x, rows) ==
        <<FoldRight(LAMBDA j, row : Cell(x, rows[1], j, row), [j \in 1 .. Len(b) |-> j], <<0>>)>> \o rows
  IN FoldRight(Row, a, <<[j \in 1 .. Len(b) + 1 |-> 0]>>)

\* The script the table leads to: equal where it can, else a deletion before an insertion.
Backtrack(a, b) ==
  LET table == LcsTable(a, b)
      Step(at, n) ==
        LET i == at.i  j == at.j
        IN CASE i > Len(a) /\ j > Len(b) -> at
             [] i <= Len(a) /\ j <= Len(b) /\ a[i] = b[j] ->
                  [i |-> i + 1, j |-> j + 1, ops |-> Append(at.ops, Equal(i, j))]
             [] i <= Len(a) /\ (j > Len(b) \/ (a[i] # b[j] /\ table[i + 1][j] >= table[i][j + 1])) ->
                  [at EXCEPT !.i = i + 1, !.ops = Append(@, Delete(i))]
             [] OTHER -> [at EXCEPT !.j = j + 1, !.ops = Append(@, Insert(j))]
  IN FoldLeft(Step, [i |-> 1, j |-> 1, ops |-> <<>>], [n \in 1 .. Len(a) + Len(b) |-> n]).ops

lcs_ops(a, b) ==
  LET affix == common_affixes(a, b)
      n == Len(a) - affix.suffix
      m == Len(b) - affix.suffix
      middle == Backtrack(SubSeq(a, affix.prefix + 1, n), SubSeq(b, affix.prefix + 1, m))
  IN Diagonal(affix.prefix) \o ShiftAll(middle, affix.prefix, affix.prefix)
     \o ShiftAll(Diagonal(affix.suffix), n, m)

\* The first token of each line and the last, of tokens in the order of the source.
line_runs(tokens) ==
  LET Starts(k) == k = 1 \/ tokens[k - 1].line # tokens[k].line
      starts == SelectSeq([k \in 1 .. Len(tokens) |-> k], Starts)
  IN [r \in 1 .. Len(starts) |-> <<starts[r], IF r = Len(starts) THEN Len(tokens) ELSE starts[r + 1] - 1>>]

\* The token script of the gap that ends before to, if the gaps together still fit.
gap_ops(old, new, script, to) ==
  LET spent == script.spent + (to[1] - script.at[1]) * (to[2] - script.at[2])
      gap == lcs_ops(SubSeq(old, script.at[1] + 1, to[1]), SubSeq(new, script.at[2] + 1, to[2]))
  IN IF ~script.fits \/ spent > LCS_CELL_BUDGET THEN [script EXCEPT !.fits = FALSE, !.spent = spent]
     ELSE [script EXCEPT !.spent = spent, !.at = to, !.ops = @ \o ShiftAll(gap, script.at[1], script.at[2])]

\* A line of as many tokens kept from to on, after the gap before it.
KeepLine(script, to, size) ==
  IF ~script.fits THEN script
  ELSE [script EXCEPT !.ops = @ \o ShiftAll(Diagonal(size), to[1], to[2]), !.at = <<to[1] + size, to[2] + size>>]
Middle(tokens, affix) == SubSeq(tokens, affix.prefix + 1, Len(tokens) - affix.suffix)
\* The texts of the lines of a run of tokens.
LineTexts(texts, runs) == [r \in 1 .. Len(runs) |-> SubSeq(texts, runs[r][1], runs[r][2])]

\* Unchanged lines between the common affixes as anchors, and a script of tokens between them.
Anchored(a, b, affix, oldRuns, newRuns) ==
  LET Line(script, line) ==
        LET to == <<affix.prefix + oldRuns[line.i][1] - 1, affix.prefix + newRuns[line.j][1] - 1>>
        IN IF line.op # "equal" THEN script
           ELSE KeepLine(gap_ops(a, b, script, to), to, oldRuns[line.i][2] - oldRuns[line.i][1] + 1)
      lines == Backtrack(LineTexts(Middle(a, affix), oldRuns), LineTexts(Middle(b, affix), newRuns))
      first == [fits |-> Len(oldRuns) * Len(newRuns) <= LCS_CELL_BUDGET, spent |-> 0,
                at |-> <<affix.prefix, affix.prefix>>, ops |-> Diagonal(affix.prefix)]
      ends == <<Len(a) - affix.suffix, Len(b) - affix.suffix>>
  IN KeepLine(gap_ops(a, b, FoldLeft(Line, first, lines), ends), ends, affix.suffix)
line_anchored_ops(old, new, affix) ==
  Anchored(Texts(old), Texts(new), affix, line_runs(Middle(old, affix)), line_runs(Middle(new, affix)))

\* The operations of a script that are of a block that moved: a run of deletions and the
\* first run of insertions of the same text that no other run has taken.
MovedOps(ops, a, b) ==
  LET Of(k) == ops[k].op
      Runs(op) ==
        LET Starts(k) == Of(k) = op /\ (k = 1 \/ Of(k - 1) # op)
            End(k) == Max({e \in k .. Len(ops) : \A x \in k .. e : Of(x) = op})
            starts == SelectSeq([k \in 1 .. Len(ops) |-> k], Starts)
        IN [r \in 1 .. Len(starts) |-> starts[r] .. End(starts[r])]
      Text(k) == IF Of(k) = "delete" THEN a[ops[k].i] ELSE b[ops[k].j]
      RunText(run) == [x \in 1 .. Cardinality(run) |-> Text(Min(run) + x - 1)]
      inserts == Runs("insert")
      Pair(moved, run) ==
        LET alike == {r \in 1 .. Len(inserts) : /\ inserts[r] \cap moved = {}
                                                /\ Cardinality(inserts[r]) >= MIN_MOVE_RUN
                                                /\ RunText(inserts[r]) = RunText(run)}
        IN IF alike = {} THEN moved ELSE moved \cup run \cup inserts[Min(alike)]
  IN FoldLeft(Pair, {}, Runs("delete"))

\* The change each operation of a script stands for.
mark_moves(ops, old, new) ==
  LET moved == MovedOps(ops, Texts(old), Texts(new))
      Kind(k) == CASE ops[k].op = "equal" -> "unchanged"
                   [] ops[k].op # "equal" /\ k \in moved -> "moved"
                   [] ops[k].op = "delete" /\ k \notin moved -> "removed"
                   [] ops[k].op = "insert" /\ k \notin moved -> "added"
  IN [k \in 1 .. Len(ops) |->
        [kind |-> Kind(k), text |-> IF ops[k].i # 0 THEN old[ops[k].i].text ELSE new[ops[k].j].text,
         old |-> IF ops[k].i # 0 THEN old[ops[k].i].line ELSE 0,
         new |-> IF ops[k].j # 0 THEN new[ops[k].j].line ELSE 0]]

CountOf(changed, kind) == Cardinality({k \in 1 .. Len(changed) : changed[k].kind = kind})
\* Every token of the old source removed and every token of the new one added.
coarse_diff(old, new) ==
  [changed |-> [k \in 1 .. Len(old) |-> [kind |-> "removed", text |-> old[k].text, old |-> old[k].line, new |-> 0]]
               \o [k \in 1 .. Len(new) |-> [kind |-> "added", text |-> new[k].text, old |-> 0, new |-> new[k].line]],
   unchanged |-> 0, state |-> "degraded"]
\* What a script says, or that every token was kept.
MarkedDiff(marked, state) ==
  IF CountOf(marked, "unchanged") = Len(marked)
  THEN [changed |-> <<>>, unchanged |-> Len(marked), state |-> "reformat_only"]
  ELSE [changed |-> marked, unchanged |-> CountOf(marked, "unchanged"), state |-> state]
diff_tokens(old, new) ==
  LET affix == common_affixes(Texts(old), Texts(new))
      Cells(a, b) == Len(a) * Len(b)
      FromLines(script) ==
        IF ~script.fits THEN coarse_diff(old, new) ELSE MarkedDiff(mark_moves(script.ops, old, new), "line_anchored")
  IN IF Cells(Middle(old, affix), Middle(new, affix)) <= LCS_CELL_BUDGET
     THEN MarkedDiff(mark_moves(lcs_ops(Texts(old), Texts(new)), old, new), "minimal")
     ELSE FromLines(line_anchored_ops(old, new, affix))

structural_diff(language, old, new, slow) ==
  LET Diff(was, is) ==
        IF was.reason = "none" /\ is.reason = "none" THEN diff_tokens(was.tokens, is.tokens)
        ELSE [changed |-> <<>>, unchanged |-> 0, state |-> IF was.reason # "none" THEN was.reason ELSE is.reason]
  IN Diff(tokenize_checked(language, old, slow), tokenize_checked(language, new, slow))

unavailable(diff) == diff.state \in {"unsupported_language", "byte_budget", "time_budget", "parse_errors", "node_budget"}
\* No full script of tokens: a coarse one, or none.
degraded(diff) == unavailable(diff) \/ diff.state = "degraded"

\* The longest sequence of tokens both have, by trying every one.
LongestCommon(a, b) ==
  LET Picked(s) == [i \in 1 .. Cardinality(s) |-> CHOOSE x \in s : Cardinality({y \in s : y < x}) = i - 1]
      Taken(s, t) == [i \in 1 .. Cardinality(s) |-> t[Picked(s)[i]]]
      inA == {Taken(s, a) : s \in SUBSET (1 .. Len(a))}
      inB == {Taken(s, b) : s \in SUBSET (1 .. Len(b))}
  IN Max({Len(t) : t \in inA \cap inB})

\* What a diff says of two sequences of tokens is a script from one to the other: it goes
\* through each in order, what moved is on both sides, "reformat only" is said of the same
\* tokens and of no others, and a script said to be minimal keeps as much as can be kept.
IsScript(diff, old, new) ==
  LET Side(Kept(_)) == SelectSeq(diff.changed, Kept)
      was == Side(LAMBDA c : c.old # 0)
      is == Side(LAMBDA c : c.new # 0)
      moved == SelectSeq(diff.changed, LAMBDA c : c.kind = "moved")
      Count(s, t) == Cardinality({i \in 1 .. Len(s) : s[i].text = t})
  IN IF diff.state = "reformat_only" THEN Texts(old) = Texts(new) /\ diff.unchanged = Len(old)
     ELSE /\ Texts(old) # Texts(new)
          /\ [i \in 1 .. Len(was) |-> [text |-> was[i].text, line |-> was[i].old]] = old
          /\ [i \in 1 .. Len(is) |-> [text |-> is[i].text, line |-> is[i].new]] = new
          /\ \A i \in 1 .. Len(moved) : Count(SelectSeq(moved, LAMBDA c : c.old # 0), moved[i].text)
                                          = Count(SelectSeq(moved, LAMBDA c : c.new # 0), moved[i].text)
          /\ diff.state = "minimal" => diff.unchanged = LongestCommon(Texts(old), Texts(new))
-----------------------------------------------------------------------------
(* The service *)

CONSTANTS
  ReviewCases,     \* the patches, hunks of the first file still to come, and their sources
  HunksBetween(_), \* the hunks a file's pair of sources may be given
  PATCH_BYTES,     \* the bytes of all sources together
  SPAN_BUDGET,     \* the most spans that are written out one by one
  MaxPatchHunks    \* bound: the hunks of a file

ASSUME ServiceAssumption == {PATCH_BYTES, SPAN_BUDGET, MaxPatchHunks} \subseteq Nat

VARIABLES
  captured, \* the files of the patch
  supplied, \* the source pairs
  bundle    \* what the service answered: "none" yet, "refused" or "ok", and its records
serviceVars == <<captured, supplied, bundle>>

Content(side) == IF side = {} THEN <<>> ELSE CHOOSE lines \in side : TRUE
Size(side) == Len(FlattenSeq(Content(side)))
Body(line) == IF line.no_newline THEN line.text ELSE Append(line.text, "\n")
OldSide(h) == SelectSeq(h.lines, LAMBDA l : l.kind # "added")
NewSide(h) == SelectSeq(h.lines, LAMBDA l : l.kind # "removed")
Bodies(lines) == [i \in 1 .. Len(lines) |-> Body(lines[i])]

\* Whether the hunks, in their order and at their line numbers, make new out of old.
patch_matches(hunks, old, new) ==
  LET Line(run, l) ==
        LET held == l.kind # "added" => run.cursor < Len(old) /\ old[run.cursor + 1] = Body(l)
        IN [ok |-> run.ok /\ held,
            cursor |-> IF l.kind # "added" THEN run.cursor + 1 ELSE run.cursor,
            output |-> IF l.kind # "removed" THEN Append(run.output, Body(l)) ELSE run.output]
      Hunk(run, h) ==
        LET start == IF OldSide(h) = <<>> THEN h.old_start ELSE Max({h.old_start, 1}) - 1
            begins == Len(run.output) + start - run.cursor
            expected == IF NewSide(h) = <<>> THEN begins ELSE begins + 1
        IN IF ~run.ok \/ start < run.cursor \/ start > Len(old) \/ h.new_start # expected
           THEN [run EXCEPT !.ok = FALSE]
           ELSE FoldLeft(Line, [ok |-> TRUE, cursor |-> start,
                                output |-> run.output \o SubSeq(old, run.cursor + 1, start)], h.lines)
      run == FoldLeft(Hunk, [ok |-> TRUE, cursor |-> 0, output |-> <<>>], hunks)
  IN run.ok /\ FlattenSeq(run.output \o SubSeq(old, run.cursor + 1, Len(old))) = FlattenSeq(new)

\* The lines of a side a hunk holds.
Held(h, side) ==
  IF side = "old" THEN h.old_start .. h.old_start + Len(OldSide(h)) - 1
  ELSE h.new_start .. h.new_start + Len(NewSide(h)) - 1

\* The first hunk that holds any of the lines a token of a side is on: a token may span lines.
in_hunk(line, text, hunks, side) ==
  LET extra == Cardinality({i \in 1 .. Len(text) : text[i] = "\n"})
      At(n) == {k \in 1 .. Len(hunks) : n \in Held(hunks[k], side)}
      held == {n \in line .. line + extra : At(n) # {}}
  IN IF line = 0 \/ held = {} THEN 0 ELSE Max(At(Min(held)))

RangeOf(line, count) == IF line \in 1 .. count THEN <<line, line>> ELSE <<>>
NodeKind(kind) == CASE kind = "added" -> 0 [] kind = "removed" -> 1 [] kind = "moved" -> 3

\* FAULT: a token is looked up by its first line alone, and one found nowhere is left out.
FirstLineOnly(file, old, new, diff, span_id) ==
  LET Hunk(c) == LET was == in_hunk(c.old, <<>>, file.hunks, "old")
                 IN IF was # 0 THEN was ELSE in_hunk(c.new, <<>>, file.hunks, "new")
      spanned == SelectSeq(diff.changed, LAMBDA c : c.kind # "unchanged" /\ Hunk(c) # 0)
  IN [path |-> file.path,
      coverage |-> IF unavailable(diff) THEN "unavailable" ELSE IF degraded(diff) THEN "partial_lcs" ELSE "analyzed",
      diff |-> {diff},
      spans |-> [i \in 1 .. Len(spanned) |->
                   [id |-> span_id + i - 1, hunk |-> Hunk(spanned[i]), kind |-> NodeKind(spanned[i].kind),
                    old |-> RangeOf(spanned[i].old, Len(old)), new |-> RangeOf(spanned[i].new, Len(new))]]]

\* The record of a diffed file: a span for every changed token some hunk holds; a changed
\* token that none holds makes the coverage partial.
RecordOf(file, old, new, diff, span_id) ==
  LET Hunk(c) == LET was == in_hunk(c.old, c.text, file.hunks, "old")
                 IN IF was # 0 THEN was ELSE in_hunk(c.new, c.text, file.hunks, "new")
      edits == SelectSeq(diff.changed, LAMBDA c : c.kind # "unchanged")
      spanned == SelectSeq(edits, LAMBDA c : Hunk(c) # 0)
      whole == ~degraded(diff) /\ Len(spanned) = Len(edits)
  IN [path |-> file.path,
      coverage |-> IF unavailable(diff) THEN "unavailable" ELSE IF whole THEN "analyzed" ELSE "partial_lcs",
      diff |-> {diff},
      spans |-> [i \in 1 .. Len(spanned) |->
                   [id |-> span_id + i - 1, hunk |-> Hunk(spanned[i]), kind |-> NodeKind(spanned[i].kind),
                    old |-> RangeOf(spanned[i].old, Len(old)), new |-> RangeOf(spanned[i].new, Len(new))]]]

\* The record of a file whose sources fit its patch.
enrich_file(file, old, new, slow, span_id) ==
  RecordOf(file, old, new, structural_diff(file.language, old, new, slow), span_id)

\* Whether a range goes on from a run of lines, and the run with it.
adjoins(run, next) ==
  \/ run = <<>> /\ next = <<>>
  \/ run # <<>> /\ next # <<>> /\ run[1] <= next[1] /\ next[1] <= run[2] + 1
widen(run, next) == IF run = <<>> \/ next = <<>> THEN run ELSE <<run[1], Max({run[2], next[2]})>>

\* The spans as contiguous regions of changed lines, by hunk and kind.
regions_json(spans) ==
  LET Start(range) == IF range = <<>> THEN 0 ELSE range[1]
      Key(s) == <<s.hunk, s.kind, Start(s.old), Start(s.new)>>
      Before(s, t) == \E k \in 1 .. 4 : Key(s)[k] < Key(t)[k] /\ \A i \in 1 .. k - 1 : Key(s)[i] = Key(t)[i]
      Join(regions, s) ==
        LET last == Last(regions)
            fits == /\ regions # <<>>
                    /\ last.hunk = s.hunk /\ last.kind = s.kind
                    /\ adjoins(last.old, s.old) /\ adjoins(last.new, s.new)
        IN IF fits THEN Front(regions) \o <<[last EXCEPT !.old = widen(@, s.old), !.new = widen(@, s.new), !.spans = @ + 1]>>
           ELSE Append(regions, [hunk |-> s.hunk, kind |-> s.kind, old |-> s.old, new |-> s.new, spans |-> 1])
  IN FoldLeft(Join, <<>>, SortSeq(spans, Before))

\* What is written of a file: its coverage, its regions, and its spans if they are not too many.
to_json(record) ==
  [path |-> record.path, coverage |-> record.coverage, regions |-> regions_json(record.spans),
   spans |-> IF Len(record.spans) <= SPAN_BUDGET THEN {record.spans} ELSE {},
   omitted |-> IF Len(record.spans) > SPAN_BUDGET THEN Len(record.spans) ELSE 0]

\* Sources no file of the patch has, the same path twice, too much of them.
SourcesRefused ==
  LET paths == {captured[i].path : i \in 1 .. Len(captured)}
      Bytes(total, pair) == total + Size(pair.old) + Size(pair.new)
  IN \/ Cardinality(paths) # Len(captured)
     \/ FoldLeft(Bytes, 0, supplied) > PATCH_BYTES
     \/ \E i \in 1 .. Len(supplied) : \/ supplied[i].path \notin paths
                                      \/ \E j \in 1 .. i - 1 : supplied[j].path = supplied[i].path
PairsOf(file) == {i \in 1 .. Len(supplied) : supplied[i].path = file.path}
Unsupported(file) ==
  file.status \notin {"added", "deleted", "modified"} \/ file.hunks = <<>> \/ file.copied
AbsenceValid(file, pair) ==
  /\ (pair.old = {}) <=> (file.status = "added")
  /\ (pair.new = {}) <=> (file.status = "deleted")

\* The files one by one; one whose patch does not fit its sources refuses the whole review.
analyze_review(slow) ==
  LET Add(out, record) == [out EXCEPT !.records = Append(@, record), !.span_id = @ + Len(record.spans)]
      Answer(out) ==
        IF SourcesRefused \/ out.answer = "refused" THEN [answer |-> "refused", records |-> <<>>, written |-> <<>>]
        ELSE [answer |-> "ok", records |-> out.records,
              written |-> [i \in 1 .. Len(out.records) |-> to_json(out.records[i])]]
      Skipped(file, why) == [path |-> file.path, coverage |-> why, diff |-> {}, spans |-> <<>>]
      File(out, file) ==
        LET pair == supplied[CHOOSE i \in PairsOf(file) : TRUE]
        IN CASE PairsOf(file) = {} -> Add(out, Skipped(file, "missing_source"))
             [] PairsOf(file) # {} /\ Unsupported(file) -> Add(out, Skipped(file, "unsupported_change"))
             [] PairsOf(file) # {} /\ ~Unsupported(file) ->
                  IF ~AbsenceValid(file, pair) \/ ~patch_matches(file.hunks, Content(pair.old), Content(pair.new))
                  THEN [out EXCEPT !.answer = "refused"]
                  ELSE Add(out, enrich_file(file, Content(pair.old), Content(pair.new), slow, out.span_id))
  IN Answer(FoldLeft(File, [answer |-> "ok", records |-> <<>>, span_id |-> 0], captured))

ServiceInit ==
    /\ \E case \in ReviewCases : captured = case.files /\ supplied = case.sources
    /\ bundle = [answer |-> "none", records |-> <<>>, written |-> <<>>]
\* The caller's patch has one more hunk.
OneMoreHunk ==
    /\ bundle.answer = "none" /\ Len(captured[1].hunks) < MaxPatchHunks
    /\ \E hunk \in HunksBetween(supplied[1]) : captured' = [captured EXCEPT ![1].hunks = Append(@, hunk)]
    /\ UNCHANGED <<supplied, bundle>>
Analyze ==
    /\ bundle.answer = "none"
    /\ \E slow \in BOOLEAN : bundle' = analyze_review(slow)
    /\ UNCHANGED <<captured, supplied>>
ServiceNext == OneMoreHunk \/ Analyze

\* Hunks in order that do not meet, each where it says on both sides, and the same lines
\* between them: a patch from old to new, said without applying it.
GoesBetween(hunks, old, new) ==
  LET n == Len(hunks)
      OldFrom(k) == IF OldSide(hunks[k]) = <<>> THEN hunks[k].old_start ELSE hunks[k].old_start - 1
      NewFrom(k) == IF NewSide(hunks[k]) = <<>> THEN hunks[k].new_start ELSE hunks[k].new_start - 1
      OldTo(k) == IF k = 0 THEN 0 ELSE OldFrom(k) + Len(OldSide(hunks[k]))
      NewTo(k) == IF k = 0 THEN 0 ELSE NewFrom(k) + Len(NewSide(hunks[k]))
      Between(k) == LET oldTo == IF k = n + 1 THEN Len(old) ELSE OldFrom(k)
                        newTo == IF k = n + 1 THEN Len(new) ELSE NewFrom(k)
                    IN /\ OldTo(k - 1) <= oldTo /\ NewTo(k - 1) <= newTo
                       /\ SubSeq(old, OldTo(k - 1) + 1, oldTo) = SubSeq(new, NewTo(k - 1) + 1, newTo)
  IN /\ \A k \in 1 .. n : /\ OldTo(k) <= Len(old) /\ NewTo(k) <= Len(new)
                          /\ SubSeq(old, OldFrom(k) + 1, OldTo(k)) = Bodies(OldSide(hunks[k]))
                          /\ SubSeq(new, NewFrom(k) + 1, NewTo(k)) = Bodies(NewSide(hunks[k]))
     /\ \A k \in 1 .. n + 1 : Between(k)

\* The lines of a side that ranges cover, with their hunk and kind.
Covered(ranges, Side(_)) ==
  UNION {{<<r.hunk, r.kind, n>> : n \in IF Side(r) = <<>> THEN {} ELSE Side(r)[1] .. Side(r)[2]} : r \in ranges}

\* A review that is given shows every changed token or says that it does not: a file's patch
\* goes from its base to its candidate, and no patch that does is refused; the diff is a script
\* between their tokens; where the coverage is "analyzed", each line of each side has a span for
\* every token that was not kept, and what both sources begin and end with is kept, as it is not
\* in the coarse script that removes and adds everything; the regions cover the lines of the
\* spans and no others; no two spans have an id (pipeline/src/review.rs analyze_review,
\* patch_matches, enrich_file, regions_json; syntax/src/structural.rs).
SpansTellAll ==
  LET OldOf(r) == r.old
      NewOf(r) == r.new
      Tokens(side) == ParseTree(Content(side)).leaves
      Fits(file) == LET pair == supplied[CHOOSE i \in PairsOf(file) : TRUE]
                    IN AbsenceValid(file, pair) /\ GoesBetween(file.hunks, Content(pair.old), Content(pair.new))
      Judged(file) == PairsOf(file) # {} /\ ~Unsupported(file)
      SpansOn(record, Side(_), n) == Cardinality({s \in 1 .. Len(record.spans) : Side(record.spans[s]) = <<n, n>>})
      KeptOn(diff, Side(_), n) == Cardinality({k \in 1 .. Len(diff.changed) :
                                                 diff.changed[k].kind = "unchanged" /\ Side(diff.changed[k]) = n})
      TokensOn(tokens, n) == Cardinality({k \in 1 .. Len(tokens) : tokens[k].line = n})
      AllShown(record, diff, old, new) ==
        record.coverage = "analyzed" /\ diff.state # "reformat_only" =>
          \A n \in 1 .. Max({Len(old), Len(new)}) :
             /\ SpansOn(record, OldOf, n) + KeptOn(diff, OldOf, n) = TokensOn(old, n)
             /\ SpansOn(record, NewOf, n) + KeptOn(diff, NewOf, n) = TokensOn(new, n)
      EndsKept(diff, old, new) ==
        LET affix == common_affixes(Texts(old), Texts(new))
        IN diff.unchanged >= affix.prefix + affix.suffix
      ids == FlattenSeq([i \in 1 .. Len(bundle.records) |->
                           [s \in 1 .. Len(bundle.records[i].spans) |-> bundle.records[i].spans[s].id]])
  IN /\ bundle.answer = "ok" => /\ Len(bundle.records) = Len(captured)
                                /\ \A i \in 1 .. Len(captured) : Judged(captured[i]) => Fits(captured[i])
     /\ bundle.answer = "refused" => SourcesRefused \/ \E i \in 1 .. Len(captured) : Judged(captured[i]) /\ ~Fits(captured[i])
     /\ \A i \in 1 .. Len(bundle.records) :
          LET record == bundle.records[i]
              regions == ToSet(bundle.written[i].regions)
              spans == ToSet(record.spans)
              pair == supplied[CHOOSE p \in PairsOf(captured[i]) : TRUE]
          IN /\ \A diff \in record.diff : ~unavailable(diff) =>
                  LET old == Tokens(pair.old)
                      new == Tokens(pair.new)
                  IN /\ IsScript(diff, old, new)
                     /\ AllShown(record, diff, old, new)
                     /\ record.coverage = "analyzed" => EndsKept(diff, old, new)
             /\ record.coverage = "analyzed" =>
                  \A diff \in record.diff : diff.state \in {"minimal", "line_anchored", "reformat_only"}
             /\ Covered(regions, OldOf) = Covered(spans, OldOf)
             /\ Covered(regions, NewOf) = Covered(spans, NewOf)
     /\ IsInjective(ids)

==============================================================================
