----------------------------- MODULE PatchReview -----------------------------
(***************************************************************************)
(* Feeding a patch to the parser line by line, and what must hold of a      *)
(* patch it accepts.  `fed` is the input so far.  A run of the program reads *)
(* one input, drawn from the lines of one theme; the themes keep apart the   *)
(* parts of the format that do not meet in one section.                      *)
(***************************************************************************)
EXTENDS PatchParser, FiniteSets

CONSTANTS
    Themes,     \* a function: name of a theme -> the set of lines inputs are made of
    MaxLines    \* a function: name of a theme -> the length of its inputs

VARIABLES theme, fed, parser, finished

patchVars == <<theme, fed, parser, finished>>

PatchInit ==
    /\ theme \in DOMAIN Themes
    /\ fed = <<>>
    /\ parser = Start
    /\ finished = FALSE

\* `parser.feed` of one more line; only the last line can lack its line feed.
FeedLine ==
    /\ ~finished /\ Ok(parser)
    /\ Len(fed) < MaxLines[theme]
    /\ \A i \in DOMAIN fed : fed[i].eol
    /\ \E line \in Themes[theme] :
          /\ fed' = Append(fed, line)
          /\ parser' = feed(parser, line)
    /\ UNCHANGED <<theme, finished>>

\* The end of the input.
EndInput ==
    /\ ~finished /\ Ok(parser)
    /\ finished' = TRUE
    /\ parser' = finish(parser)
    /\ UNCHANGED <<theme, fed>>

PatchNext == FeedLine \/ EndInput

PatchSpec == PatchInit /\ [][PatchNext]_patchVars

------------------------------------------------------------------------------
Accepted == finished /\ Ok(parser)

\* The positions of hunk headers, and the lines that the counts of the one at i cover.
HunkHeads == {i \in DOMAIN fed : fed[i].k = "at"}
OldSide(i, j) == Cardinality({n \in i + 1 .. j : BodyKind(fed[n]) \in {"Context", "Removed"}})
NewSide(i, j) == Cardinality({n \in i + 1 .. j : BodyKind(fed[n]) \in {"Context", "Added"}})
Covers(i, j) ==
    /\ OldSide(i, j) = fed[i].oc /\ NewSide(i, j) = fed[i].nc
    /\ \A n \in i + 1 .. j : BodyKind(fed[n]) # "None" \/ fed[n].k = "eof"
    /\ fed[j].k # "eof"
Segment(i) == UNION {i + 1 .. j : j \in {n \in i + 1 .. Len(fed) : Covers(i, n)}}
InHunk == UNION {Segment(i) : i \in HunkHeads}

AllHunks == FlattenSeq([n \in DOMAIN parser.files |-> parser.files[n].hunks])

\* Nothing is lost, moved or made up: the hunks of an accepted patch are, in order, the stretches
\* of input that the counts of their headers cover, with consecutive line numbers, and no line
\* that adds or removes lies outside them (`feed`, `consume_body`, `close_hunk`).
HunksAreSegments ==
    Accepted =>
        LET heads == SetToSortSeq(HunkHeads, <)
            Body(i) == SelectSeq([n \in DOMAIN fed |-> IF n \in Segment(i) THEN BodyKind(fed[n]) ELSE "None"],
                                 LAMBDA k : k # "None")
            Numbers(h, side) == SelectSeq([n \in DOMAIN h.lines |-> h.lines[n][side]], LAMBDA x : x # -1)
            Consecutive(from, numbers) == \A n \in DOMAIN numbers :
                numbers[n] = IF from + n - 1 > MaxU32 THEN MaxU32 ELSE from + n - 1
        IN  /\ Len(AllHunks) = Len(heads)
            /\ \A n \in DOMAIN heads :
                  /\ AllHunks[n].id = n - 1
                  /\ [m \in DOMAIN AllHunks[n].lines |-> AllHunks[n].lines[m].kind] = Body(heads[n])
                  /\ Consecutive(fed[heads[n]].os, Numbers(AllHunks[n], "old"))
                  /\ Consecutive(fed[heads[n]].ns, Numbers(AllHunks[n], "new"))
            /\ \A i \in DOMAIN fed : fed[i].k \in {"add", "del"} => i \in InHunk

\* A marker ends its side of the file, whichever hunk comes after: Git would join a later line of
\* that side onto the marked one (`ended_side`).
MarkedSideEnds ==
    Accepted =>
        \A n \in DOMAIN parser.files :
            LET all == Lines(parser.files[n])
            IN  \A i, j \in DOMAIN all :
                    i < j /\ all[i].no_newline =>
                        /\ all[i].kind # "Added" => all[j].kind = "Added"
                        /\ all[i].kind # "Removed" => all[j].kind = "Removed"

\* The hunks of an accepted patch are what the input says, and no line follows a side's end.
HunksAreTheirSegments == HunksAreSegments /\ MarkedSideEnds

\* Rendering an accepted patch gives a patch that is accepted and says the same: paths, old
\* paths, statuses, hunks (`render_unified` is the patch a caller applies).
Facts(file) ==
    [path |-> file.path, old |-> old_path(file), status |-> file.status,
     hunks |-> [h \in DOMAIN file.hunks |->
        [file.hunks[h] EXCEPT !.lines = [l \in DOMAIN file.hunks[h].lines |->
            [file.hunks[h].lines[l] EXCEPT !.lossy = FALSE]]]]]
RenderingSaysTheSame ==
    Accepted =>
        \A again \in {parse_lines(render_unified(parser.files))} :
            /\ Ok(again)
            /\ [n \in DOMAIN again.files |-> Facts(again.files[n])]
                 = [n \in DOMAIN parser.files |-> Facts(parser.files[n])]
            /\ render_unified(again.files) = render_unified(parser.files)

\* Where the sections of the input begin: at a `diff --git` line, and at a `---` that its section
\* already had or that no section is open for.
HeaderAt(i, k) == fed[i].k = k /\ i \notin InHunk
BeginsSection(i) ==
    \/ fed[i].k = "git"
    \/ /\ HeaderAt(i, "old")
       /\ LET before == {n \in 1 .. i - 1 : fed[n].k = "git"}
              last   == IF before = {} THEN 0 ELSE CHOOSE n \in before : \A m \in before : m <= n
          IN  last = 0 \/ \E n \in last .. i - 1 : HeaderAt(n, "new") \/ fed[n].k = "at"
SectionOf(i) == LET s == {n \in 1 .. i : BeginsSection(n)}
                IN  IF s = {} THEN 0 ELSE CHOOSE n \in s : \A m \in s : m <= n
\* Git guesses -p0 at the first traditional section whose new name has one component, for that
\* section and every later one.
GuessedP0(s) == \E n \in DOMAIN fed :
    /\ HeaderAt(n, "new") /\ fed[SectionOf(n)].k = "old" /\ Len(fed[n].path) = 1
    /\ SectionOf(n) <= s

\* Each accepted file is one section of the input, in order, and its path is a name that this
\* section's own headers give, stripped as Git strips them: no header of one section names the
\* file of another (`start_git_file`, `on_old_header`, `on_new_header`, `resolve_path`).
PathsOfSections ==
    Accepted =>
        LET begins == SetToSortSeq({i \in DOMAIN fed : BeginsSection(i)}, <)
            Own(s) == {n \in DOMAIN fed : SectionOf(n) = s /\ n \notin InHunk}
            \* `/dev/null` names a file only where both sides say it
            Real(s) == {n \in Own(s) : fed[n].k \in {"old", "new"} /\
                          (fed[n].path = DevNull => \A m \in Own(s) : fed[m].k \in {"old", "new"} => fed[m].path = DevNull)}
            Names(s) ==
                {squash_slashes(fed[n].path) : n \in {m \in Own(s) : fed[m].k = "rento"}}
                \cup {p_name(fed[n].path, GuessedP0(s)) : n \in Real(s)}
                \cup {p_name(fed[n].other, GuessedP0(s)) : n \in {m \in Own(s) : fed[m].k = "git"}}
        IN  /\ Len(begins) = Len(parser.files)
            /\ \A n \in DOMAIN begins : parser.files[n].path \in Names(begins[n])

\* What a status claims, the lines bear out: an added file has only added lines, a deleted one
\* only removed lines, and a move names its source (`flush_file`, `complete_move_headers`).
StatusBorneOut ==
    Accepted =>
        \A n \in DOMAIN parser.files :
            LET f == parser.files[n]
            IN  /\ f.status = "Added" => OnlyKind(f, "Added")
                /\ f.status = "Deleted" => OnlyKind(f, "Removed")
                /\ f.status \in {"Renamed", "Copied"} => old_path(f) # Absent
                /\ f.status = "BinaryChanged" => f.hunks = <<>>
                /\ f.status # "Unknown"

\* Each accepted file is its own section of the input, under its own name and with a status that
\* its lines bear out.
PathsFromTheirSections == PathsOfSections /\ StatusBorneOut
==============================================================================
