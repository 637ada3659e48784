----------------------------- MODULE PatchParser -----------------------------
(***************************************************************************)
(* The patch parser of deep-diff-forge-patch: a machine that is fed one     *)
(* line at a time (parser.rs), and the renderer that writes its result back *)
(* as a patch (render.rs).                                                  *)
(*                                                                          *)
(* A line is a token: its kind, and what its kind carries.  A path is the   *)
(* sequence of its components, so a doubled slash is an empty component and *)
(* an absolute path begins with one.  Quoting, spaces inside names, CR line *)
(* ends and the spelling of hunk headers are decoding and are left to the   *)
(* tokens; a hunk header that does not have Git's spelling is a token of    *)
(* its own ("badat"), and so are a bad marker and a bad mode.               *)
(***************************************************************************)
EXTENDS Integers, Sequences, SequencesExt

CONSTANTS
    NameExtends,  \* pairs <<x, y>> of components: the text of y starts with that of x, y # x
    MaxU32        \* stands for u32::MAX, where line numbers saturate

ASSUME MaxU32Assumption == MaxU32 \in Nat \ {0}

------------------------------------------------------------------------------
(* Lines *)

Absent == <<>>                       \* no path
DevNull == <<"", "dev", "null">>
NoStamp == [day |-> 0, hour |-> 0, minute |-> 0, zone |-> 0]
BadMode == -1

Line(k) == [k |-> k, path |-> Absent, other |-> Absent, quoted |-> FALSE, stamp |-> NoStamp,
            mode |-> BadMode, os |-> 0, oc |-> 0, ns |-> 0, nc |-> 0, lossy |-> FALSE, eol |-> TRUE]
GitLine(old, new) == [Line("git") EXCEPT !.path = old, !.other = new]
Header(k, path) == [Line(k) EXCEPT !.path = path]
ModeLine(k, mode) == [Line(k) EXCEPT !.mode = mode]
BinaryData == Line("data")
HunkLine(os, oc, ns, nc) == [Line("at") EXCEPT !.os = os, !.oc = oc, !.ns = ns, !.nc = nc]

MODE_PREFIXES == {"oldmode", "newmode", "newfile", "delfile"}
MOVE_PREFIXES == {"renfrom", "rento", "copyfrom", "copyto"}
META_PREFIXES == MODE_PREFIXES \cup MOVE_PREFIXES \cup {"index", "bingit", "binfiles"}

\* The side a line is on when it is read as a body line: lines that begin with a space or are
\* empty are context, and inside a hunk a header that begins with a sign is content.
BodyKind(line) ==
    CASE line.k \in {"ctx", "blank"}               -> "Context"
      [] line.k \in {"add", "new"}                 -> "Added"
      [] line.k \in {"del", "old", "rule", "sig"}  -> "Removed"
      [] OTHER                                     -> "None"

------------------------------------------------------------------------------
(* Modes, timestamps and names *)

ObjectType(mode) == ((mode \div 4096) % 16) * 4096

\* 33261 is 0o100755, 33188 is 0o100644, 40960 is 0o120000, 16384 is 0o040000.
canon_mode(mode) ==
    CASE ObjectType(mode) = 32768 /\ (mode \div 64) % 2 = 1 -> 33261
      [] ObjectType(mode) = 32768 /\ (mode \div 64) % 2 = 0 -> 33188
      [] ObjectType(mode) = 40960                           -> 40960
      [] ObjectType(mode) = 16384                           -> 16384
      [] OTHER                                              -> 57344

has_epoch_timestamp(stamp) ==
    /\ stamp.day \in {1969, 1970}
    /\ stamp.hour * 60 + stamp.minute - stamp.zone = (IF stamp.day = 1969 THEN 24 ELSE 0) * 60

squash_slashes(path) ==
    IF path = Absent THEN path
    ELSE <<Head(path)>> \o SelectSeq(Tail(path), LAMBDA c : c # "")

Stripped(path, p0) == IF p0 \/ Len(path) < 2 THEN path ELSE Tail(path)
p_name(path, p0) == squash_slashes(Stripped(path, p0))
strip_p(path, p0) == IF p0 THEN path ELSE IF Len(path) < 2 THEN Absent ELSE Tail(path)

\* The name both halves of a `diff --git` line give once their first components are gone.
skip_tree_prefix(path, p0) ==
    IF path = Absent \/ Head(path) = "" \/ (~p0 /\ Len(path) < 2) THEN Absent
    ELSE Stripped(path, p0)
SameName(line, p0) ==
    LET old == skip_tree_prefix(line.path, p0)
    IN  IF old = skip_tree_prefix(line.other, p0) THEN old ELSE Absent

git_refuses_path(path) ==
    path = Absent \/ Head(path) = "" \/ \E i \in DOMAIN path : path[i] \in {".", "..", ".git"}

\* The text of path q starts with that of p.
StartsWith(q, p) ==
    /\ p # Absent /\ Len(p) <= Len(q)
    /\ SubSeq(q, 1, Len(p) - 1) = Front(p)
    /\ q[Len(p)] = Last(p) \/ (Len(q) = Len(p) /\ <<Last(p), Last(q)>> \in NameExtends)

------------------------------------------------------------------------------
(* The parser's state: FileBuf, HunkBuf and Parser.  A section or hunk that *)
(* is not open has open = FALSE.                                            *)

NoFile == [open |-> FALSE, git |-> FALSE, git_old |-> Absent, git_new |-> Absent,
           old_raw |-> Absent, new_raw |-> Absent, rename_from |-> Absent, rename_to |-> Absent,
           metadata |-> <<>>, binary_body |-> <<>>, in_binary_body |-> FALSE, hunks |-> <<>>,
           lossy_lines |-> 0, awaiting |-> FALSE, past_headers |-> FALSE, header_ended |-> FALSE,
           eof_old |-> FALSE, eof_new |-> FALSE, p0 |-> FALSE, old_epoch |-> FALSE,
           traditional_path |-> Absent]
NoHunk == [open |-> FALSE, id |-> 0, os |-> 0, ns |-> 0, old_line |-> 0, new_line |-> 0,
           rem_old |-> 0, rem_new |-> 0, lines |-> <<>>]
Start == [files |-> <<>>, file |-> NoFile, hunk |-> NoHunk, next_hunk_id |-> 0,
          can_mark_eof |-> FALSE, hunk_may_open |-> FALSE, p0 |-> FALSE, err |-> "none"]

Fail(p, error) == [p EXCEPT !.err = error]
Ok(p) == p.err = "none"

says(file, k) == \E i \in DOMAIN file.metadata : file.metadata[i].k = k
saysAny(file, ks) == \E k \in ks : says(file, k)
\* The canonical mode of the first header of that kind, if any.
HeaderMode(file, k) ==
    IF says(file, k)
    THEN canon_mode(SelectSeq(file.metadata, LAMBDA m : m.k = k)[1].mode) ELSE BadMode

------------------------------------------------------------------------------
(* What a finished section is *)

resolve_status(file) ==
    LET old == HeaderMode(file, "oldmode")
        new == HeaderMode(file, "newmode")
    IN  IF saysAny(file, {"binfiles", "bingit"}) THEN "BinaryChanged"
        ELSE IF file.rename_from # Absent \/ file.rename_to # Absent THEN "Renamed"
        ELSE IF saysAny(file, {"copyfrom", "copyto"}) THEN "Copied"
        ELSE IF says(file, "newfile") \/ file.old_raw = DevNull THEN "Added"
        ELSE IF says(file, "delfile") \/ file.new_raw = DevNull THEN "Deleted"
        ELSE IF saysAny(file, {"oldmode", "newmode"}) /\ file.hunks = <<>>
             THEN IF old # BadMode /\ new # BadMode /\ ObjectType(old) = ObjectType(new)
                  THEN "ModeChanged" ELSE "TypeChanged"
        ELSE IF file.hunks = <<>> /\ file.metadata = <<>> /\ file.old_raw = Absent
                /\ file.new_raw = Absent /\ file.git_new = Absent THEN "Unknown"
        ELSE "Modified"

Side(file, raw) == IF raw \in {Absent, DevNull} THEN Absent ELSE p_name(raw, file.p0)

resolve_path(file) ==
    LET candidates == <<file.rename_to, file.traditional_path, Side(file, file.new_raw),
                        Side(file, file.old_raw), file.git_new, file.git_old>>
        named == SelectSeq(candidates, LAMBDA c : c # Absent)
    IN  IF named = <<>> THEN Absent ELSE named[1]

\* The names of a traditional section, chosen once both headers are known.
name_traditional(file, newEpoch, newQuoted) ==
    LET first  == squash_slashes(strip_p(file.old_raw, file.p0))
        second == strip_p(file.new_raw, file.p0)
        both   == file.old_raw # DevNull /\ file.new_raw # DevNull
        name   == CASE file.old_raw = DevNull -> squash_slashes(second)
                    [] file.old_raw # DevNull /\ file.new_raw = DevNull -> first
                    [] both /\ second = Absent -> first
                    [] both /\ second # Absent ->
                         IF ~newQuoted /\ StartsWith(second, first)
                         THEN first ELSE squash_slashes(second)
    IN  [file EXCEPT !.traditional_path = name,
                     !.old_raw = IF both /\ file.old_epoch THEN DevNull ELSE @,
                     !.new_raw = IF both /\ ~file.old_epoch /\ newEpoch THEN DevNull ELSE @]

Lines(file) == FlattenSeq([i \in DOMAIN file.hunks |-> file.hunks[i].lines])
OnlyKind(file, kind) == \A i \in DOMAIN Lines(file) : Lines(file)[i].kind = kind

Inconsistent(file) ==
    LET new   == says(file, "newfile")
        del   == says(file, "delfile")
        moved == saysAny(file, MOVE_PREFIXES)
        status == resolve_status(file)
    IN  \/ new /\ del
        \/ (new \/ del) /\ moved
        \/ (new \/ (~file.git /\ status = "Added")) /\ ~OnlyKind(file, "Added")
        \/ (del \/ (~file.git /\ status = "Deleted")) /\ ~OnlyKind(file, "Removed")
        \/ file.hunks # <<>> /\ ((new /\ status # "Added") \/ (del /\ status # "Deleted"))
        \/ new /\ file.old_raw \notin {Absent, DevNull}
        \/ del /\ file.new_raw \notin {Absent, DevNull}
        \/ file.git /\ ~moved /\ file.new_raw = DevNull /\ ~del
        \/ file.git /\ ~moved /\ file.old_raw = DevNull /\ ~new

\* Record the side of a move that only `---` or `+++` names; NoFile when there is none to record.
complete_move_headers(file) ==
    LET rename == saysAny(file, {"renfrom", "rento"})
        from   == IF rename THEN "renfrom" ELSE "copyfrom"
        to     == IF rename THEN "rento" ELSE "copyto"
        Add(f, k, raw) ==
            LET name == Side(f, raw)
            IN  IF ~f.open \/ says(f, k) THEN f
                ELSE IF git_refuses_path(name) THEN NoFile
                ELSE [f EXCEPT !.metadata = Append(@, Header(k, name)),
                               !.rename_from = IF k = "renfrom" THEN name ELSE @,
                               !.rename_to = IF k = "rento" THEN name ELSE @]
    IN  IF ~saysAny(file, MOVE_PREFIXES) THEN file
        ELSE Add(Add(file, from, file.old_raw), to, file.new_raw)

\* A Git section with two different names and no move header is a rename to Git.
record_implied_rename(file) ==
    LET old == Side(file, file.old_raw)
        new == Side(file, file.new_raw)
    IN  IF ~file.git \/ old = Absent \/ new = Absent \/ old = new THEN file
        ELSE IF git_refuses_path(old) \/ git_refuses_path(new) THEN NoFile
        ELSE [file EXCEPT !.metadata = @ \o <<Header("renfrom", old), Header("rento", new)>>,
                          !.rename_from = old, !.rename_to = new]

\* The sources that move headers declare, which must agree with each other and with `---`.
ContradictoryMove(file) ==
    LET froms == {squash_slashes(file.metadata[i].path) :
                     i \in {j \in DOMAIN file.metadata : file.metadata[j].k \in {"renfrom", "copyfrom"}}}
    IN  /\ froms # {}
        /\ \/ \E x, y \in froms : x # y
           \/ \E x \in froms : file.old_raw # Absent /\ p_name(file.old_raw, file.p0) # x
           \/ file.new_raw = DevNull
           \/ saysAny(file, {"newfile", "delfile"})

only_an_unchanged_mode(file) ==
    /\ HeaderMode(file, "oldmode") # BadMode \/ HeaderMode(file, "newmode") # BadMode
    /\ \/ BadMode \in {HeaderMode(file, "oldmode"), HeaderMode(file, "newmode")}
       \/ HeaderMode(file, "oldmode") = HeaderMode(file, "newmode")
    /\ file.hunks = <<>>
    /\ ~saysAny(file, {"newfile", "delfile", "binfiles", "bingit"} \cup MOVE_PREFIXES)

refuse_what_git_reads_nothing_from(file) ==
    IF resolve_path(file) = Absent THEN "InvalidPath"
    ELSE IF only_an_unchanged_mode(file) THEN "InvalidMode"
    ELSE IF file.hunks = <<>> /\ (~file.git \/ file.metadata = <<>>) THEN "SectionWithoutPatch"
    ELSE "none"

into_review_file(file) ==
    [path |-> resolve_path(file), status |-> resolve_status(file), metadata |-> file.metadata,
     binary_body |-> file.binary_body, hunks |-> file.hunks, lossy_lines |-> file.lossy_lines]

------------------------------------------------------------------------------
(* Closing a hunk and a section *)

\* A fault of close_hunk: a hunk counts as complete when one of its sides is.
CloseHalfHunk(p) ==
    LET h == p.hunk
    IN  IF ~h.open THEN p
        ELSE IF h.rem_old # 0 /\ h.rem_new # 0 THEN Fail(p, "TruncatedHunk")
        ELSE [p EXCEPT !.hunk = NoHunk,
                       !.file.hunks = Append(@, [id |-> h.id, os |-> h.os, ns |-> h.ns, lines |-> h.lines])]

close_hunk(p) ==
    LET h == p.hunk
    IN  IF ~h.open THEN p
        ELSE IF h.rem_old # 0 \/ h.rem_new # 0 THEN Fail(p, "TruncatedHunk")
        ELSE IF \A i \in DOMAIN h.lines : h.lines[i].kind = "Context" THEN Fail(p, "HunkWithoutChange")
        ELSE [p EXCEPT !.hunk = NoHunk,
                       !.file.hunks = Append(@, [id |-> h.id, os |-> h.os, ns |-> h.ns, lines |-> h.lines])]

\* The section with the names its headers imply.
Named(file) ==
    IF saysAny(file, MOVE_PREFIXES) THEN complete_move_headers(file) ELSE record_implied_rename(file)
\* The section as a file of the review, unless Git would read nothing from it.
StoreFile(p, named) ==
    LET Keep(nothing) ==
            IF nothing # "none" THEN Fail(p, nothing)
            ELSE [p EXCEPT !.file = NoFile, !.files = Append(@, into_review_file(named))]
    IN  IF ~named.open \/ ContradictoryMove(named) THEN Fail(p, "InvalidPath")
        ELSE Keep(refuse_what_git_reads_nothing_from(named))
flush_file(p) ==
    LET file == p.file
    IN  IF ~Ok(p) \/ ~file.open THEN p
        ELSE IF file.awaiting THEN Fail(p, "MisplacedHeader")
        ELSE IF Inconsistent(file) THEN Fail(p, "InconsistentHeader")
        ELSE IF file.hunks # <<>> /\ saysAny(file, {"bingit", "binfiles"}) THEN Fail(p, "UnsupportedFormat")
        ELSE StoreFile(p, Named(file))

finish(p) == IF Ok(p) THEN flush_file(close_hunk(p)) ELSE p

------------------------------------------------------------------------------
(* Headers *)

\* A fault of start_git_file: the section before is not flushed.
StartUnflushed(p, line) ==
    [p EXCEPT !.file = [NoFile EXCEPT !.open = TRUE, !.git = TRUE, !.p0 = p.p0,
                                      !.git_old = SameName(line, p.p0), !.git_new = SameName(line, p.p0)]]

start_git_file(p, line) ==
    LET same == SameName(line, p.p0)
        names == IF line.quoted THEN <<Stripped(line.path, p.p0), Stripped(line.other, p.p0)>>
                ELSE IF same # Absent THEN <<same, same>>
                ELSE IF line.other # Absent /\ Head(line.other) = "b" /\ Len(line.other) > 1
                THEN <<p_name(line.path, p.p0), p_name(line.other, p.p0)>>
                ELSE <<Absent, Absent>>
        Open(q, pair) ==
            IF ~Ok(q) THEN q
            ELSE [q EXCEPT !.file = [NoFile EXCEPT !.open = TRUE, !.git = TRUE, !.p0 = p.p0,
                                                   !.git_old = pair[1], !.git_new = pair[2]]]
    IN  Open(flush_file(close_hunk(p)), names)

\* The section a `---` belongs to: the open one, unless it has its names or hunks already.
SectionFor(closed, open) ==
    IF ~open \/ closed.file.new_raw # Absent \/ closed.file.hunks # <<>>
    THEN [flush_file(closed) EXCEPT !.file = [NoFile EXCEPT !.open = TRUE]] ELSE closed
OldHeader(q, line) ==
        IF ~Ok(q) THEN q
        ELSE IF q.file.old_raw # Absent \/ q.file.header_ended THEN Fail(q, "MisplacedHeader")
        ELSE [q EXCEPT !.file.old_raw = line.path,
                       !.file.old_epoch = ~q.file.git /\ has_epoch_timestamp(line.stamp),
                       !.file.awaiting = TRUE,
                       !.file.past_headers = TRUE]
on_old_header(p, line) == OldHeader(SectionFor(close_hunk(p), p.file.open), line)

on_new_header(p, line) ==
    LET guess == p.p0 \/ (line.path \notin {DevNull, Absent} /\ Len(line.path) = 1)
        f == [p.file EXCEPT !.awaiting = FALSE, !.new_raw = line.path]
    IN  IF ~p.file.awaiting THEN Fail(p, "MisplacedHeader")
        ELSE IF p.file.git THEN [p EXCEPT !.file = f, !.hunk_may_open = TRUE]
        ELSE [p EXCEPT !.p0 = guess,
                       !.file = name_traditional([f EXCEPT !.p0 = guess],
                                                 has_epoch_timestamp(line.stamp), line.quoted),
                       !.hunk_may_open = TRUE]

open_hunk(p, line, mayOpen) ==
    IF line.k = "badat" THEN Fail(p, "MalformedHunkHeader")
    ELSE IF ~p.file.open \/ ~mayOpen THEN Fail(p, "MisplacedHunk")
    ELSE [p EXCEPT !.file.past_headers = TRUE,
                   !.next_hunk_id = @ + 1,
                   !.hunk = [open |-> TRUE, id |-> p.next_hunk_id, os |-> line.os, ns |-> line.ns,
                             old_line |-> line.os, new_line |-> line.ns,
                             rem_old |-> line.oc, rem_new |-> line.nc, lines |-> <<>>]]

\* What an extended header does; the caller knows the line is one.
try_metadata(p, line) ==
    LET path == squash_slashes(line.path)
    IN  IF p.file.past_headers \/ p.file.header_ended THEN Fail(p, "MisplacedHeader")
        ELSE IF line.k \in MOVE_PREFIXES /\ git_refuses_path(line.path) THEN Fail(p, "InvalidPath")
        ELSE IF line.k \in MODE_PREFIXES /\ line.mode = BadMode THEN Fail(p, "InvalidMode")
        ELSE [p EXCEPT !.file.metadata = Append(@, line),
                       !.file.rename_from = IF line.k = "renfrom" THEN path ELSE @,
                       !.file.rename_to = IF line.k = "rento" THEN path ELSE @,
                       !.file.in_binary_body = @ \/ line.k = "bingit",
                       !.hunk_may_open = TRUE]

\* A line that is read as nothing ends the extended header of a Git section.
Ignored(p) ==
    [p EXCEPT !.file.header_ended = @ \/ (p.file.open /\ p.file.git /\ ~p.file.past_headers)]

\* A line the parser reads meaning from must be exact and complete.
Interpreted(p, line) ==
    IF ~Ok(p) THEN p
    ELSE IF line.lossy THEN Fail(p, "LossyHeader")
    ELSE IF ~line.eol THEN Fail(p, "UnterminatedLine")
    ELSE p

dispatch_non_body(p, line, mayOpen) ==
    IF line.k = "cc" THEN Fail(p, "UnsupportedFormat")
    ELSE IF line.k = "git" THEN Interpreted(start_git_file(p, line), line)
    ELSE IF p.file.in_binary_body
         THEN IF line.k \in {"data", "blank"}
              THEN Interpreted([p EXCEPT !.file.binary_body = Append(@, line)], line)
              ELSE Fail(p, "UnsupportedFormat")
    ELSE IF p.file.awaiting /\ line.k # "new" THEN Fail(p, "MisplacedHeader")
    ELSE IF line.k = "old" THEN Interpreted(on_old_header(p, line), line)
    ELSE IF line.k = "new" THEN Interpreted(on_new_header(p, line), line)
    ELSE IF line.k \in {"at", "badat"} THEN Interpreted(open_hunk(p, line, mayOpen), line)
    ELSE IF p.file.open /\ line.k \in META_PREFIXES THEN Interpreted(try_metadata(p, line), line)
    ELSE IF p.file.open /\ line.k = "renold" /\ ~p.file.past_headers THEN Fail(p, "UnsupportedFormat")
    ELSE IF line.k \in {"add", "del"} THEN Fail(p, "BodyLineOutsideHunk")
    ELSE Ignored(p)

------------------------------------------------------------------------------
(* Hunk bodies *)

AddU32(n) == IF n < MaxU32 THEN n + 1 ELSE MaxU32

\* Line numbers a body line does not have are -1.
consume_body(h, line) ==
    LET kind == BodyKind(line)
        old  == kind \in {"Context", "Removed"}
        new  == kind \in {"Context", "Added"}
    IN  [h EXCEPT !.lines = Append(@, [kind |-> kind, no_newline |-> FALSE, lossy |-> line.lossy,
                                       old |-> IF old THEN h.old_line ELSE -1,
                                       new |-> IF new THEN h.new_line ELSE -1]),
                  !.old_line = IF old THEN AddU32(@) ELSE @,
                  !.new_line = IF new THEN AddU32(@) ELSE @,
                  !.rem_old = IF old THEN @ - 1 ELSE @,
                  !.rem_new = IF new THEN @ - 1 ELSE @]

Overfills(h, line) ==
    \/ BodyKind(line) \in {"Context", "Removed"} /\ h.rem_old = 0
    \/ BodyKind(line) \in {"Context", "Added"} /\ h.rem_new = 0

\* The line adds to a side of the file that a marker has ended.
ended_side(file, line) ==
    \/ BodyKind(line) \in {"Context", "Removed"} /\ file.eof_old
    \/ BodyKind(line) \in {"Context", "Added"} /\ file.eof_new

feed_body(p, line) ==
    LET h == consume_body(p.hunk, line)
        full == h.rem_old = 0 /\ h.rem_new = 0
        Closed(q, closed) ==
            IF ~Ok(closed) THEN closed
            ELSE IF ~line.eol THEN Fail(q, "UnterminatedLine") ELSE [closed EXCEPT !.hunk_may_open = TRUE]
        q == [p EXCEPT !.hunk = h, !.can_mark_eof = TRUE,
                       !.file.lossy_lines = IF line.lossy THEN @ + 1 ELSE @]
    IN  IF Overfills(p.hunk, line) THEN Fail(p, "HunkLineCountMismatch")
        ELSE IF ended_side(p.file, line) THEN Fail(p, "InvalidEofMarker")
        ELSE IF full THEN Closed(q, close_hunk(q))
        ELSE IF ~line.eol THEN Fail(q, "UnterminatedLine")
        ELSE q

feed_marker(p, line, canMark, mayOpen) ==
    LET inHunk == p.hunk.open /\ p.hunk.lines # <<>>
        body   == IF inHunk THEN p.hunk.lines ELSE Last(p.file.hunks).lines
        marked == [body EXCEPT ![Len(body)].no_newline = TRUE]
    IN  IF ~canMark \/ line.k = "badeof" THEN Fail(p, "InvalidEofMarker")
        ELSE [p EXCEPT !.hunk.lines = IF inHunk THEN marked ELSE @,
                       !.file.hunks = IF inHunk THEN @ ELSE [@ EXCEPT ![Len(@)].lines = marked],
                       !.file.metadata = Append(@, line),
                       !.file.eof_old = @ \/ Last(body).kind # "Added",
                       !.file.eof_new = @ \/ Last(body).kind # "Removed",
                       !.hunk_may_open = mayOpen]

feed(p0, line) ==
    LET p == [p0 EXCEPT !.can_mark_eof = FALSE, !.hunk_may_open = FALSE]
        inBody == p.hunk.open /\ (p.hunk.rem_old > 0 \/ p.hunk.rem_new > 0) /\ BodyKind(line) # "None"
        Counted(q) == IF Ok(q) /\ line.lossy /\ q.file.open THEN [q EXCEPT !.file.lossy_lines = @ + 1] ELSE q
        Outside(closed) ==
            IF ~Ok(closed) THEN closed ELSE Counted(dispatch_non_body(closed, line, p0.hunk_may_open))
    IN  IF line.k \in {"eof", "badeof"} THEN feed_marker(p, line, p0.can_mark_eof, p0.hunk_may_open)
        ELSE IF inBody THEN feed_body(p, line)
        ELSE Outside(close_hunk(p))

parse_lines(lines) == finish(FoldLeft(LAMBDA p, line : IF Ok(p) THEN feed(p, line) ELSE p, Start, lines))

------------------------------------------------------------------------------
(* Writing the parsed files back as a patch, and the contracts on them *)

old_path(file) ==
    LET froms == SelectSeq(file.metadata, LAMBDA m : m.k \in {"renfrom", "copyfrom"})
    IN  IF froms = <<>> THEN Absent ELSE froms[1].path
\* A fault of old_label: the new path on both sides.
NewLabel(file) == file.path
old_label(file) == IF old_path(file) = Absent THEN file.path ELSE old_path(file)

render_hunk(hunk) ==
    LET Count(kinds) == Len(SelectSeq(hunk.lines, LAMBDA l : l.kind \in kinds))
        Body(l) == <<Line(CASE l.kind = "Context" -> "ctx" [] l.kind = "Added" -> "add"
                            [] l.kind = "Removed" -> "del")>>
                   \o (IF l.no_newline THEN <<Line("eof")>> ELSE <<>>)
    IN  <<HunkLine(hunk.os, Count({"Context", "Removed"}), hunk.ns, Count({"Context", "Added"}))>>
        \o FlattenSeq([i \in DOMAIN hunk.lines |-> Body(hunk.lines[i])])

render_file(file) ==
    LET mode(status, k) == IF file.hunks # <<>> /\ file.status = status /\ ~says(file, k)
                           THEN <<ModeLine(k, 33188)>> ELSE <<>>
        names == <<Header("old", IF file.status = "Added" THEN DevNull ELSE <<"a">> \o old_label(file)),
                   Header("new", IF file.status = "Deleted" THEN DevNull ELSE <<"b">> \o file.path)>>
    IN  <<GitLine(<<"a">> \o old_label(file), <<"b">> \o file.path)>>
        \o mode("Added", "newfile") \o mode("Deleted", "delfile")
        \o SelectSeq(file.metadata, LAMBDA m : m.k # "eof")
        \o file.binary_body
        \o (IF file.hunks = <<>> THEN <<>>
            ELSE names \o FlattenSeq([i \in DOMAIN file.hunks |-> render_hunk(file.hunks[i])]))

render_unified(files) == FlattenSeq([i \in DOMAIN files |-> render_file(files[i])])

has_reviewable_hunks(files) ==
    \E i \in DOMAIN files : \E j \in DOMAIN Lines(files[i]) : Lines(files[i])[j].kind # "Context"

refusal(guards, files) ==
    IF "files" \in guards /\ files = <<>> THEN "no files"
    ELSE IF "hunks" \in guards /\ ~has_reviewable_hunks(files) THEN "no hunks"
    ELSE "none"

exit_code(error) == IF error = "LossyHeader" THEN 3 ELSE 4
==============================================================================
