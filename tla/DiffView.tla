------------------------------- MODULE DiffView -------------------------------
(***************************************************************************)
(* The diff pane, crates/deep-diff-forge-tui/src/diffview.rs: the review is  *)
(* one document, every file's section after the other, and a frame builds    *)
(* only the rows of its window.  A first walk counts rows and finds the      *)
(* sections; a second one fills the window, skipping what ends before it     *)
(* and stopping once it is full.  With the pairing of removed and added      *)
(* lines the two layouts share with crates/deep-diff-forge-projection.       *)
(*                                                                         *)
(* A row is a tuple that names what it shows: a line of a hunk is            *)
(* <<"line", file, hunk, line, chunk>>.  A text is a sequence of graphemes:  *)
(* "a" is ASCII and one cell, "t" a tab, "w" two cells wide.                 *)
(***************************************************************************)
EXTENDS Integers, Sequences, FiniteSets, SequencesExt, FiniteSetsExt

CONSTANTS Reviews,      \* sequences of files [hunks, notes]
          Windows,      \* [delta, height] of a frame
          FOLD_CONTEXT, \* context runs longer than this fold to one row
          TextWidth     \* inline_text_width of the pane

VARIABLES view,     \* what is shown: [review, selected, side, fold, wrap, notes, delta, height]
          walk,     \* the walks made: "none", "counted", "filled"
          sections, \* each file's section, from the first walk: [start, end]
          shown     \* the DocumentWindow: [lines, total, offset]

diffVars == <<view, walk, sections, shown>>
-----------------------------------------------------------------------------
(* projection/src/width.rs *)
expand_tabs(text) == FlattenSeq([i \in 1 .. Len(text) |-> IF text[i] = "t" THEN <<"a", "a", "a", "a">>
                                                                           ELSE <<text[i]>>])
cell_width(g) == IF g = "w" THEN 2 ELSE 1

\* A grapheme wider than the line is shown as one cell.
wrap_cells(text, width) ==
  LET Take(acc, g) ==
        LET cells == cell_width(g)
            full  == acc.used + cells > width /\ acc.line # <<>>
            fit   == IF cells > width THEN 1 ELSE cells
        IN  IF full THEN [done |-> Append(acc.done, acc.line), line |-> <<g>>, used |-> fit]
            ELSE [acc EXCEPT !.line = Append(@, g), !.used = @ + fit]
      end == FoldLeft(Take, [done |-> <<>>, line |-> <<>>, used |-> 0], expand_tabs(text))
  IN  IF end.line # <<>> \/ end.done = <<>> THEN Append(end.done, end.line) ELSE end.done

\* A fault of chunk_count: a tab is one cell.
TabIsOneCell(text, width) ==
  IF "w" \notin Range(text) THEN Max({(Len(text) + width - 1) \div width, 1}) ELSE Len(wrap_cells(text, width))

\* The rows of a text, counted without splitting it when it is ASCII.
chunk_count(text, width) ==
  IF "w" \notin Range(text)
  THEN Max({(Len(text) + 3 * Len(SelectSeq(text, LAMBDA g : g = "t")) + width - 1) \div width, 1})
  ELSE Len(wrap_cells(text, width))
-----------------------------------------------------------------------------
(* Pairing: the k-th removed line of a change block beside its k-th added line. *)
RunFrom(lines, kind, i) ==
  Cardinality({j \in i .. Len(lines) : \A k \in i .. j : lines[k].kind = kind})

LongerOf(m, n) == Max({m, n})

\* pair_hunk, and side_rows of the projection: 0 is a side with no line.
pair_hunk(lines) ==
  LET from[i \in 1 .. Len(lines) + 1] ==
        IF i > Len(lines) THEN <<>>
        ELSE IF lines[i].kind = "context" THEN <<<<i, i>>>> \o from[i + 1]
        ELSE LET m == RunFrom(lines, "removed", i)
                 n == RunFrom(lines, "added", i + m)
             IN  [k \in 1 .. LongerOf(m, n) |-> <<IF k <= m THEN i + k - 1 ELSE 0,
                                                  IF k <= n THEN i + m + k - 1 ELSE 0>>]
                 \o from[i + m + n]
  IN  from[1]

\* pairs of the inline layout, in one pass: for each line, the removed line it is judged against.
pairs(lines) ==
  LET Step(acc, line) ==
        LET i == Len(acc.paired) + 1 IN
        [paired  |-> Append(acc.paired,
                       LET n == IF acc.prev = "added" THEN acc.next ELSE 1
                       IN  IF line.kind = "added" /\ n <= Len(acc.removed) THEN acc.removed[n] ELSE 0),
         removed |-> CASE line.kind = "removed" -> Append(IF acc.prev = "removed" THEN acc.removed ELSE <<>>, i)
                       [] line.kind = "added" -> acc.removed
                       [] OTHER -> <<>>,
         next    |-> IF line.kind = "added" THEN (IF acc.prev = "added" THEN acc.next ELSE 1) + 1 ELSE acc.next,
         prev    |-> line.kind]
  IN  FoldLeft(Step, [paired |-> <<>>, removed |-> <<>>, next |-> 1, prev |-> "context"], lines).paired
-----------------------------------------------------------------------------
(* Rows: a sink that counts every row and keeps those in its window. *)
Rows(start, end, stop) == [next |-> 0, start |-> start, end |-> end, stop |-> stop, lines |-> <<>>]
push(rows, row) ==
  [rows EXCEPT !.next = @ + 1,
               !.lines = IF rows.start <= rows.next /\ rows.next < rows.end THEN Append(@, row) ELSE @]
extend(rows, new) == FoldLeft(push, rows, new)
wants(rows, n) == rows.next < rows.end /\ rows.next + n > rows.start
done(rows) == rows.stop /\ rows.next >= rows.end

LineRows(i, h, j, n) == [k \in 1 .. n |-> <<"line", i, h, j, k>>]
Text(i, h, j) == view.review[i].hunks[h][j].text

\* One row, or the chunks of a wrapped line; chunks before the window are only counted.
inline_rows(rows, i, h, j) ==
  IF ~view.wrap THEN push(rows, <<"line", i, h, j, 1>>)
  ELSE LET count == chunk_count(Text(i, h, j), TextWidth) IN
       IF ~wants(rows, count) THEN [rows EXCEPT !.next = @ + count]
       ELSE extend(rows, LineRows(i, h, j, Len(wrap_cells(Text(i, h, j), TextWidth))))

\* What a hunk is pushed as: its lines, or the pairs of them side by side.
Items(lines) == IF view.side THEN pair_hunk(lines) ELSE [j \in 1 .. Len(lines) |-> j]
is_context(lines, item) ==
  LET j == IF view.side THEN item[1] ELSE item IN j # 0 /\ lines[j].kind = "context"
item_rows(rows, i, h, item) ==
  IF view.side THEN push(rows, <<"pair", i, h, item[1], item[2]>>) ELSE inline_rows(rows, i, h, item)

\* flush_inline_ctx, flush_side_ctx: the context held back, folded or row by row.
flush(rows, ctx, i, h) ==
  IF view.fold /\ Len(ctx) > FOLD_CONTEXT THEN push(rows, <<"fold", i, h, Len(ctx), 0>>)
  ELSE FoldLeft(LAMBDA r, item : item_rows(r, i, h, item), rows, ctx)

\* The context that is left after the last item, unless the walk was done before it.
FlushLeft(end, i, h) == IF end.out THEN end.rows ELSE flush(end.rows, end.ctx, i, h)

\* push_inline and push_side: a walk that is done returns.
push_rows(start, i, h) ==
  LET lines == view.review[i].hunks[h]
      Item(acc, item) ==
        IF acc.out \/ done(acc.rows) THEN [acc EXCEPT !.out = TRUE]
        ELSE IF is_context(lines, item) THEN [acc EXCEPT !.ctx = Append(@, item)]
        ELSE [acc EXCEPT !.rows = item_rows(flush(@, acc.ctx, i, h), i, h, item), !.ctx = <<>>]
  IN  FlushLeft(FoldLeft(Item, [rows |-> start, ctx |-> <<>>, out |-> FALSE], Items(lines)), i, h)

\* note_box: a title, the body, a bottom and a blank row, for each note of a file (0) or hunk.
NoteRows(i, h) ==
  IF ~view.notes THEN <<>>
  ELSE FlattenSeq([n \in 1 .. Len(view.review[i].notes) |->
         IF view.review[i].notes[n] = h THEN [k \in 1 .. 4 |-> <<"note", i, h, n, k>>] ELSE <<>>])

file_section(start, i) ==
  LET file == view.review[i]
      Hunk(acc, h) ==
        IF done(acc) THEN acc
        ELSE LET headed == push(extend(acc, NoteRows(i, h)), <<"hunk", i, h, 0, 0>>)
             IN  push_rows(headed, i, h)
      top == extend(start, <<<<"header", i, 0, 0, 0>>, <<"rule", i, 0, 0, 0>>>> \o NoteRows(i, 0))
  IN  IF file.hunks = <<>> THEN push(top, <<"no text", i, 0, 0, 0>>)
      ELSE FoldLeft(Hunk, top, [h \in 1 .. Len(file.hunks) |-> h])

\* A section known to end before the window is skipped without being walked.
Skip(section, rows) == section.end <= rows.start

document(start, known) ==
  LET Section(rows, i) == IF i \in DOMAIN known /\ Skip(known[i], rows) THEN [rows EXCEPT !.next = known[i].end]
                          ELSE file_section(rows, i)
      Ended(acc, rows, after) ==
        [acc EXCEPT !.rows = after, !.sections = Append(@, [start |-> rows.next, end |-> after.next])]
      File(acc, i) ==
        IF acc.out \/ done(acc.rows) THEN [acc EXCEPT !.out = TRUE]
        ELSE LET rows == IF i > 1 THEN push(acc.rows, <<"blank", i, 0, 0, 0>>) ELSE acc.rows
             IN  Ended(acc, rows, Section(rows, i))
  IN  IF view.review = <<>> THEN [rows |-> push(start, <<"no files", 0, 0, 0, 0>>), sections |-> <<>>, out |-> FALSE]
      ELSE FoldLeft(File, [rows |-> start, sections |-> <<>>, out |-> FALSE], [i \in 1 .. Len(view.review) |-> i])
-----------------------------------------------------------------------------
DiffInit ==
  /\ \E review \in Reviews, w \in Windows, side, fold, wrap, notes \in BOOLEAN :
       \E selected \in 1 .. Max({Len(review), 1}) :
         view = [review |-> review, selected |-> selected, side |-> side, fold |-> fold, wrap |-> wrap,
                 notes |-> notes, delta |-> w.delta, height |-> w.height]
  /\ walk = "none" /\ sections = <<>> /\ shown = [lines |-> <<>>, total |-> 0, offset |-> 0]

\* diff_window: count the document, then fill the window from the selected file's section.
CountRows ==
  /\ walk = "none" /\ walk' = "counted"
  /\ \E counted \in {document(Rows(0, 0, FALSE), <<>>)} :
     LET base == IF view.selected \in DOMAIN counted.sections THEN counted.sections[view.selected].start ELSE 0
     IN  /\ sections' = counted.sections
         /\ shown' = [shown EXCEPT !.total = counted.rows.next,
                                   !.offset = Min({base + view.delta, Max({counted.rows.next - 1, 0})})]
  /\ UNCHANGED view
FillWindow ==
  /\ walk = "counted" /\ walk' = "filled"
  /\ shown' = [shown EXCEPT !.lines = document(Rows(shown.offset, shown.offset + view.height, TRUE), sections).rows.lines]
  /\ UNCHANGED <<view, sections>>

DiffNext == CountRows \/ FillWindow
-----------------------------------------------------------------------------
(* The document as a reader means it: each file's rows in order, each context run that is    *)
(* too long as one row where it begins.                                                     *)
Whole(items, i, h, Context(_), RowsOf(_)) ==
  LET InRun(k) == Context(items[k])
      Runs(k) == {j \in 1 .. Len(items) : \A m \in Min({j, k}) .. Max({j, k}) : InRun(m)}
      Folded(k) == view.fold /\ InRun(k) /\ Cardinality(Runs(k)) > FOLD_CONTEXT
  IN  FlattenSeq([k \in 1 .. Len(items) |->
        IF ~Folded(k) THEN RowsOf(items[k])
        ELSE IF k = Min(Runs(k)) THEN <<<<"fold", i, h, Cardinality(Runs(k)), 0>>>> ELSE <<>>])

HunkRows(i, h) ==
  LET lines == view.review[i].hunks[h]
      LineContext(j) == lines[j].kind = "context"
      PairContext(p) == p[1] # 0 /\ LineContext(p[1])
      PairRow(p) == <<<<"pair", i, h, p[1], p[2]>>>>
      Wrapped(j) == LineRows(i, h, j, IF view.wrap THEN Len(wrap_cells(lines[j].text, TextWidth)) ELSE 1)
  IN  NoteRows(i, h) \o <<<<"hunk", i, h, 0, 0>>>>
      \o IF view.side THEN Whole(pair_hunk(lines), i, h, PairContext, PairRow)
         ELSE Whole([j \in 1 .. Len(lines) |-> j], i, h, LineContext, Wrapped)

SectionRows(i) ==
  LET hunks == view.review[i].hunks
  IN  <<<<"header", i, 0, 0, 0>>, <<"rule", i, 0, 0, 0>>>> \o NoteRows(i, 0)
      \o IF hunks = <<>> THEN <<<<"no text", i, 0, 0, 0>>>>
         ELSE FlattenSeq([h \in 1 .. Len(hunks) |-> HunkRows(i, h)])

Document ==
  IF view.review = <<>> THEN <<<<"no files", 0, 0, 0, 0>>>>
  ELSE FlattenSeq([i \in 1 .. Len(view.review) |->
         (IF i > 1 THEN <<<<"blank", i, 0, 0, 0>>>> ELSE <<>>) \o SectionRows(i)])

\* The window a frame shows is that part of the whole document: nothing is missing, repeated or
\* moved by the count of the first walk, the sections that are skipped, the chunks that are only
\* counted or the early stop; unscrolled it begins at the selected file's header (diff_window).
FrameIsSlice ==
  walk = "filled" =>
    /\ shown.total = Len(Document)
    /\ shown.lines = SubSeq(Document, shown.offset + 1, Min({shown.offset + view.height, Len(Document)}))
    /\ view.delta = 0 /\ view.review # <<>> =>
         Document[shown.offset + 1] = <<"header", view.selected, 0, 0, 0>>

\* Both layouts tell the same change: the left column is every line of the old file once and in
\* order, the right column every line of the new one, and an added line is judged against the
\* removed line it stands beside (pair_hunk, side_rows and pairs).
LayoutsAgree ==
  \A i \in DOMAIN view.review : \A h \in DOMAIN view.review[i].hunks :
    LET lines == view.review[i].hunks[h]
        rows  == pair_hunk(lines)
        Column(s) == SelectSeq([k \in 1 .. Len(rows) |-> rows[k][s]], LAMBDA j : j # 0)
        Side(gone) == SelectSeq([j \in 1 .. Len(lines) |-> j], LAMBDA j : lines[j].kind # gone)
    IN  /\ Column(1) = Side("added") /\ Column(2) = Side("removed")
        /\ \A r \in Range(rows) : r[2] # 0 /\ lines[r[2]].kind = "added" => pairs(lines)[r[2]] = r[1]

\* Every frame is a slice of one document, and either layout of it tells the same change.
WindowIsSlice == FrameIsSlice /\ LayoutsAgree
=============================================================================
