----------------------------- MODULE CodeEvidence -----------------------------
(***************************************************************************)
(* Code evidence, crates/deep-diff-forge-graph/src/lexical.rs and           *)
(* evidence.rs: which parts of a hunk's lines are code, found line by line   *)
(* without parsing.  A string a line leaves open may go on on the next line  *)
(* or may have been misread: the next line is read both ways, up to a cap,   *)
(* and what any reading finds code is code.                                  *)
(*                                                                         *)
(* A line is a sequence of lexemes: "x" a token of some rule, the quotes     *)
(* "dq", "sq", "bt" and Python's triple "tq", "esc" a backslash, "lc" a line *)
(* comment, "co" and "cc" a block comment's ends, "in" and "out" what opens  *)
(* an interpolation in a string and closes it, "fq" a quote with Python's    *)
(* f or t before it, "sp" the colon of a format spec, "sl" and "op" a slash  *)
(* and an operator in JS, "case" and "esac" in command position.  A hunk is  *)
(* read line by line, each side with a state of its own.                     *)
(***************************************************************************)
EXTENDS Integers, Sequences, FiniteSets, SequencesExt, FiniteSetsExt

CONSTANTS Languages, SourceLines, MORE_READINGS,
          MaxHunk \* bound: the lines of a hunk

ASSUME ReadingsCapped == MORE_READINGS \in Nat

VARIABLES language, \* of the file
          scan,     \* scan[side]: ScanState, the readings, the plain one first
          truth,    \* truth[side]: the reading that is right
          bare,     \* bare[side]: the plain reading of a scan that carries no string
          missed,   \* the last line: tokens that are code and were not found, tokens a bare scan finds and this does not
          dropped,  \* dropped[side]: a reading was past the cap
          lines     \* the lines of the hunk read

evidenceVars == <<language, scan, truth, bare, missed, dropped, lines>>

Sides == {"old", "new"}
NoString == [f |-> "none"]
Fresh == [block |-> FALSE, triple |-> FALSE, last |-> "none", string |-> NoString]
-----------------------------------------------------------------------------
(* Language *)
c_like == language \in {"rust", "js", "go"}
opens_string(lex) ==
  CASE language = "rust" -> lex = "dq"
    [] language = "python" -> lex \in {"dq", "sq", "fq"}
    [] language \in {"shell", "yaml"} -> lex \in {"dq", "sq"}
    [] OTHER -> lex \in {"dq", "sq", "bt"}
raw_quote(quote) == <<language, quote>> \in {<<"go", "bt">>, <<"yaml", "sq">>}
\* What opens code inside a string.
interpolates(frame, lex) ==
  \/ language = "shell" /\ frame.quote = "dq" /\ lex \in {"in", "bt"}
  \/ language = "js" /\ frame.quote = "bt" /\ lex = "in"
  \/ language = "python" /\ frame.fstring /\ lex = "in"
\* A slash starts a regex after an operator or an opener, or with nothing before it on its line and
\* the one before.
starts_regex(before) == before \in {"none", "op", "in", "out", "sp"}
\* A line in which the string may really go on on the next one.
Spans(quote, escaped) ==
  \/ escaped
  \/ <<language, quote>> \in {<<"shell", "dq">>, <<"shell", "sq">>, <<"js", "bt">>, <<"go", "bt">>, <<"rust", "dq">>,
                              <<"yaml", "dq">>, <<"yaml", "sq">>}
-----------------------------------------------------------------------------
(* One line: the lexemes it keeps, the frames open, and the reading it leaves. *)
Str(lex, start) == [f |-> "str", quote |-> IF lex = "fq" THEN "dq" ELSE lex, start |-> start,
                    fstring |-> lex = "fq", escaped |-> FALSE]
Code(lex) == [f |-> "code", open |-> IF lex = "bt" THEN "none" ELSE lex,
              close |-> IF lex = "bt" THEN "bt" ELSE "out", depth |-> 1, cases |-> 0, spec |-> FALSE]
Comment == [f |-> "comment"]

Keep(s, kept) == [s EXCEPT !.out = Append(@, kept)]
Push(s, frame) == [s EXCEPT !.stack = Append(@, frame)]
Pop(s) == [s EXCEPT !.stack = Front(@)]
SetTop(s, frame) == [s EXCEPT !.stack[Len(s.stack)] = frame]

in_string(s, lex) ==
  LET frame  == Last(s.stack)
      blank  == Keep(s, language = "yaml")
  IN  IF frame.escaped THEN SetTop(blank, [frame EXCEPT !.escaped = FALSE])
      ELSE IF lex = frame.quote THEN Keep(Pop(s), TRUE)
      ELSE IF interpolates(frame, lex) THEN Keep(Push(s, Code(lex)), TRUE)
      ELSE IF lex = "esc" /\ ~raw_quote(frame.quote) /\ <<language, frame.quote>> # <<"shell", "sq">>
           THEN SetTop(blank, [frame EXCEPT !.escaped = TRUE])
      ELSE blank

\* The interpolation a lexeme is code in: its nesting, open shell cases, whose closing parenthesis is
\* a pattern's, and Python's format spec.
track_code(s, lex) ==
  IF s.stack = <<>> THEN s
  ELSE LET frame == [Last(s.stack) EXCEPT
                       !.cases = CASE language = "shell" /\ lex = "case" -> @ + 1
                                   [] language = "shell" /\ lex = "esac" -> Max({@ - 1, 0})
                                   [] OTHER -> @,
                       !.spec = @ \/ (language = "python" /\ lex = "sp" /\ Last(s.stack).depth = 1)]
       IN  IF lex = frame.open THEN SetTop(s, [frame EXCEPT !.depth = @ + 1])
           ELSE IF lex # frame.close \/ (lex = "out" /\ frame.cases > 0) THEN SetTop(s, frame)
           ELSE IF frame.depth = 1 THEN Pop(s) ELSE SetTop(s, [frame EXCEPT !.depth = @ - 1])

KeptAt(out) == {i \in 1 .. Len(out) : out[i]}
\* The last code of the line so far, or of the line before.
LastCode(s, line) == IF KeptAt(s.out) = {} THEN s.left.last ELSE line[Max(KeptAt(s.out))]
\* Where the literal that starts at i ends: a regex at the next slash, a Rust char at its quote.
RegexEnd(line, i) == {j \in i + 1 .. Len(line) : line[j] = "sl" /\ line[j - 1] # "esc"}
CharEnd(line, i) ==
  LET close == i + (IF i < Len(line) /\ line[i + 1] = "esc" THEN 3 ELSE 2)
  IN  {j \in 1 .. Len(line) : j = close /\ line[j] = "sq"}

in_code(s, line, i) ==
  LET lex    == line[i]
      nested == s.stack # <<>>
      regex  == language = "js" /\ lex = "sl" /\ ~s.noRegex /\ starts_regex(LastCode(s, line))
      char   == language = "rust" /\ lex = "sq" /\ CharEnd(line, i) # {}
  IN
  IF lex = "esc" /\ (nested \/ language \in {"shell", "js"}) THEN Keep([s EXCEPT !.copy = 1], TRUE)
  ELSE IF lex = "lc" /\ (c_like \/ ~nested) THEN [s EXCEPT !.stop = TRUE]
  ELSE IF lex = "co" /\ c_like
       THEN Keep(IF nested THEN Push(s, Comment) ELSE [s EXCEPT !.left.block = TRUE], FALSE)
  ELSE IF regex /\ RegexEnd(line, i) # {}
       THEN Keep([s EXCEPT !.blank = Min(RegexEnd(line, i)) - i - 1, !.copy = 1], TRUE)
  ELSE IF regex THEN Keep(track_code([s EXCEPT !.noRegex = TRUE], lex), TRUE)
  ELSE IF lex = "tq" /\ language = "python"
       THEN Keep(IF nested THEN Push(s, Str("tq", i)) ELSE [s EXCEPT !.left.triple = TRUE], TRUE)
  ELSE IF char THEN Keep([s EXCEPT !.blank = Min(CharEnd(line, i)) - i], FALSE)
  ELSE IF opens_string(lex) THEN Keep(Push(s, Str(lex, i)), TRUE)
  ELSE Keep(track_code(s, lex), TRUE)

\* A format spec is text in which only a nested field runs.
in_spec(s, lex) ==
  CASE lex = "in"  -> Keep(Push(s, Code(lex)), TRUE)
    [] lex = "out" -> Keep(Pop(s), TRUE)
    [] OTHER       -> Keep(s, FALSE)

InFrame(s, line, i) ==
  LET lex == line[i] IN
  IF s.stack = <<>> THEN in_code(s, line, i)
  ELSE LET frame == Last(s.stack) IN
       CASE frame.f = "comment" -> Keep(IF lex = "cc" THEN Pop(s) ELSE s, FALSE)
         [] frame.f = "str" -> in_string(s, lex)
         [] frame.f = "code" -> IF frame.spec THEN in_spec(s, lex) ELSE in_code(s, line, i)

step(s, line, i) ==
  IF s.stop THEN s
  ELSE IF s.blank > 0 THEN Keep([s EXCEPT !.blank = @ - 1], FALSE)
  ELSE IF s.copy > 0 THEN Keep([s EXCEPT !.copy = @ - 1], TRUE)
  ELSE IF s.left.block THEN Keep([s EXCEPT !.left.block = line[i] # "cc"], FALSE)
  ELSE IF s.left.triple THEN Keep([s EXCEPT !.left.triple = line[i] # "tq"], line[i] = "tq")
  ELSE InFrame(s, line, i)

Scanned(line, reading, open) ==
  LET start == [out |-> <<>>, stack |-> IF open = NoString THEN <<>> ELSE <<open>>, blank |-> 0, copy |-> 0,
                stop |-> FALSE, noRegex |-> FALSE,
                left |-> [reading EXCEPT !.string = NoString]]
      Take(s, i) == step(s, line, i)
  IN  FoldLeft(Take, start, [i \in 1 .. Len(line) |-> i])

Kept(s) == KeptAt(s.out)
OpenStrings(s) == {k \in DOMAIN s.stack : s.stack[k].f = "str"}

\* finish: a string open at the end is code from its quote on, except in Rust; one open at the top
\* level is carried.
finish(s, line) ==
  [kept |-> Kept(s) \cup
            (IF OpenStrings(s) # {} /\ language # "rust"
             THEN Max({s.stack[Min(OpenStrings(s))].start, 1}) .. Len(line) ELSE {}),
   left |-> [s.left EXCEPT
               !.last = IF language = "js" /\ Kept(s) # {} THEN line[Max(Kept(s))] ELSE @,
               !.string = IF Len(s.stack) = 1 /\ s.stack[1].f = "str"
                          THEN [s.stack[1] EXCEPT !.start = 0, !.escaped = FALSE] ELSE NoString]]
scan_line(line, reading, open) == finish(Scanned(line, reading, open), line)

\* A fault of Readings: a line after an open string is read as resuming it only.
ResumedOnly(reading) == <<reading.string>>
\* What a line is read as from one reading: as code, and as resuming the string it left open.
Readings(reading) == IF reading.string = NoString THEN <<NoString>> ELSE <<NoString, reading.string>>

\* code_view: the line from every reading carried.
code_view(line, state) ==
  FlattenSeq([k \in 1 .. Len(state) |->
    [r \in 1 .. Len(Readings(state[k])) |-> scan_line(line, state[k], Readings(state[k])[r])]])
union_views(views) == UNION {v.kept : v \in Range(views)}

\* from_readings: without repeats, the plain one first, and no more than the cap.
Distinct(views) ==
  FlattenSeq([k \in 1 .. Len(views) |->
    IF \E j \in 1 .. k - 1 : views[j].left = views[k].left THEN <<>> ELSE <<views[k].left>>])
from_readings(views) == SubSeq(Distinct(views), 1, Min({Len(Distinct(views)), 1 + MORE_READINGS}))
-----------------------------------------------------------------------------
ReadingFrom(l, n) ==
  /\ language = l /\ lines = n
  /\ scan = [s \in Sides |-> <<Fresh>>] /\ truth = [s \in Sides |-> Fresh] /\ bare = truth
  /\ missed = [code |-> {}, bare |-> {}] /\ dropped = [s \in Sides |-> FALSE]
EvidenceInit == \E l \in Languages : ReadingFrom(l, 0)

Tokens(line, at) == {i \in at : line[i] = "x"}

\* A line that the right reading takes on the sides it is on: a string that is open spans lines, an
\* interpolation does not.
Read(kind, line, sides, right, views, plain) ==
  /\ \A s \in sides : right[s].stack = <<>>
                      \/ /\ Len(right[s].stack) = 1 /\ right[s].stack[1].f = "str"
                         /\ Spans(right[s].stack[1].quote, right[s].stack[1].escaped)
  /\ scan' = [s \in Sides |-> IF s \in sides THEN from_readings(views[s]) ELSE scan[s]]
  /\ truth' = [s \in Sides |-> IF s \in sides THEN finish(right[s], line).left ELSE truth[s]]
  /\ bare' = [s \in Sides |-> IF s \in sides THEN plain[s].left ELSE bare[s]]
  /\ dropped' = [s \in Sides |-> dropped[s] \/ (s \in sides /\ Len(Distinct(views[s])) > 1 + MORE_READINGS)]
  /\ missed' = IF kind = "context" THEN [code |-> {}, bare |-> {}]
               ELSE LET s == CHOOSE side \in sides : TRUE
                        found == Tokens(line, union_views(views[s]))
                    IN  [code |-> IF dropped[s] THEN {} ELSE Tokens(line, Kept(right[s])) \ found,
                         bare |-> Tokens(line, plain[s].kept) \ found]

\* hunk_matches: a context line moves both sides and is not matched, a removed or added line its own.
ReadLine(kind, line) ==
  LET sides == CASE kind = "context" -> Sides [] kind = "removed" -> {"old"} [] kind = "added" -> {"new"}
  IN  /\ lines < MaxHunk /\ lines' = lines + 1
      /\ Read(kind, line, sides,
              [s \in sides |-> Scanned(line, truth[s], truth[s].string)],
              [s \in sides |-> code_view(line, scan[s])],
              [s \in sides |-> scan_line(line, [bare[s] EXCEPT !.string = NoString], NoString)])
      /\ UNCHANGED language

EvidenceNext == \E kind \in {"context", "removed", "added"}, line \in SourceLines[language] : ReadLine(kind, line)

EvidenceSpec == EvidenceInit /\ [][EvidenceNext]_evidenceVars
-----------------------------------------------------------------------------
\* Reading errs toward code, however long the hunk: a token that is code on a changed line of a
\* well-formed hunk is found on its side, unless a reading was dropped at the cap before it; and a
\* token that a scan carrying no strings finds is always found (lexical.rs ScanState, code_view;
\* evidence.rs hunk_matches).
CodeIsFound == missed.code = {} /\ missed.bare = {}
=============================================================================
