----------------------------- MODULE GitAcquire ------------------------------
(***************************************************************************)
(* Git acquisition (git_acquire.rs): one deadline over a fixed series of    *)
(* Git calls (top level, configuration, base, target, diff, listing, one    *)
(* call per untracked file), while other programs edit, stage and commit;   *)
(* and `diff_files`, which checks two files and then lets Git read them.    *)
(*                                                                          *)
(* Git is external: a call is one step that reads the repository as it is,  *)
(* and may fail instead.  BoundedProcess is what happens inside a call.     *)
(* Contents are names, and are their own object IDs; a length is a number   *)
(* of lines.  "none" is a file that is not there, "dir" a nested repository.*)
(***************************************************************************)
EXTENDS PatchParser, FiniteSets

(***************************************************************************)
(* Structured Git output (git_raw.rs): the raw records of                   *)
(* `git diff --raw -z --patch` and the patch blocks they are paired with.   *)
(*                                                                          *)
(* A stream is its raw fields, whether the separator follows them, and the  *)
(* lines of its patch.  A record is a token: its fields after decoding; a   *)
(* header that does not decode is the record Malformed.  Object IDs are     *)
(* model strings, NullOid is the all-zero one.  Lines are PatchParser's.    *)
(***************************************************************************)

NullOid == "0"
Record(kind, path, to, oldMode, newMode, oldOid, newOid) ==
    [kind |-> kind, path |-> path, to |-> to, old_mode |-> oldMode, new_mode |-> newMode,
     old_oid |-> oldOid, new_oid |-> newOid]
Malformed == Record("malformed", Absent, Absent, 0, 0, NullOid, NullOid)

\* An `index` line carries the IDs it names in its two paths.
IndexLine(old, new) == [Line("index") EXCEPT !.path = <<old>>, !.other = <<new>>]

block_count(kind) == IF kind = "TypeChanged" THEN 2 ELSE 1

OldPath(r) == IF r.kind = "Added" THEN Absent ELSE r.path
NewPath(r) == CASE r.kind = "Deleted" -> Absent
                [] r.kind \in {"Renamed", "Copied"} -> r.to
                [] OTHER -> r.path
\* The path a review names: the new one, or the old one of a deletion.
review_path(r) == IF NewPath(r) # Absent THEN NewPath(r) ELSE OldPath(r)

\* What the raw section gives, or why it gives nothing.
parse_raw_section(stream) ==
    LET bad == {i \in DOMAIN stream.records : stream.records[i].kind \notin
                   {"Added", "Deleted", "Modified", "Renamed", "Copied", "TypeChanged"}}
    IN  IF \E i \in bad : stream.records[i].kind = "malformed" THEN "MalformedRaw"
        ELSE IF bad # {} THEN "UnsupportedStatus"
        ELSE IF ~stream.separator /\ (stream.records # <<>> \/ stream.patch # <<>>) THEN "MalformedRaw"
        ELSE "none"

\* The first and last line of each block of the patch.
split_blocks(patch) ==
    LET starts == SetToSortSeq({i \in DOMAIN patch : patch[i].k = "git"}, <)
    IN  [n \in DOMAIN starts |->
            <<starts[n], IF n < Len(starts) THEN starts[n + 1] - 1 ELSE Len(patch)>>]

\* The exact `diff --git` line Git writes for a record.
header_line(r) ==
    LET old == IF OldPath(r) # Absent THEN OldPath(r) ELSE NewPath(r)
    IN  GitLine(<<"a">> \o old, <<"b">> \o review_path(r))

\* Extended headers run until the first line that is not one.
Extended(block) ==
    LET ends == {i \in DOMAIN block : i > 1 /\ block[i].k \in {"blank", "old", "at", "badat", "binfiles", "bingit"}}
    IN  {block[i] : i \in {n \in DOMAIN block : n > 1 /\ \A e \in ends : n < e}}

\* The block says about its record what Git says of such a record; role "deletion" and
\* "creation" are the two blocks of a type change.
check_block(r, role, block) ==
    LET ext == Extended(block)
        Has(k, mode) == \E l \in ext : l.k = k /\ l.mode = mode
        HasAny(ks) == \E l \in ext : l.k \in ks
        Names(k, path) == \E l \in ext : l.k = k /\ l.path = path
        wantNew == r.kind = "Added" \/ role = "creation"
        wantDel == ~wantNew /\ (r.kind = "Deleted" \/ role = "deletion")
    IN  /\ block[1] = header_line(r)
        /\ IF wantNew THEN Has("newfile", r.new_mode) ELSE ~HasAny({"newfile"})
        /\ IF wantDel THEN Has("delfile", r.old_mode) ELSE ~HasAny({"delfile"})
        /\ CASE r.kind = "Renamed" -> Names("renfrom", OldPath(r)) /\ Names("rento", NewPath(r))
             [] r.kind = "Copied" -> Names("copyfrom", OldPath(r)) /\ Names("copyto", NewPath(r))
             [] OTHER -> ~HasAny(MOVE_PREFIXES)
        /\ role = "whole" /\ ~wantNew /\ ~wantDel /\ r.old_mode # r.new_mode =>
              Has("oldmode", r.old_mode) /\ Has("newmode", r.new_mode)

\* The IDs of the block's last `index` line.
index_ids(block) ==
    LET lines == {i \in DOMAIN block : block[i] \in Extended(block) /\ block[i].k = "index"}
    IN  IF lines = {} THEN <<NullOid, NullOid>>
        ELSE LET i == CHOOSE n \in lines : \A m \in lines : m <= n
             IN  <<block[i].path[1], block[i].other[1]>>

\* A null ID is one that is not known; two known ones must agree.
Agree(known, named) == NullOid \in {known, named} \/ known = named
Known(known, named) == IF known # NullOid THEN known ELSE named

\* Pair a record with its blocks; `from` is where the blocks begin in the whole patch.
Paired(r, blocks) ==
    IF r.kind = "TypeChanged"
    THEN /\ check_block(r, "deletion", blocks[1]) /\ check_block(r, "creation", blocks[2])
         /\ Agree(r.old_oid, index_ids(blocks[1])[1]) /\ Agree(r.new_oid, index_ids(blocks[2])[2])
    ELSE /\ check_block(r, "whole", blocks[1])
         /\ Agree(r.old_oid, index_ids(blocks[1])[1]) /\ Agree(r.new_oid, index_ids(blocks[1])[2])

pair(r, blocks, origin, from) ==
    LET size == Len(FlattenSeq(blocks))
        ids  == <<index_ids(blocks[1])[1], index_ids(Last(blocks))[2]>>
    IN  [kind |-> r.kind, old_path |-> OldPath(r), new_path |-> NewPath(r), origin |-> origin,
         old_blob |-> IF r.kind = "Added" THEN NullOid ELSE Known(r.old_oid, ids[1]),
         new_blob |-> IF r.kind = "Deleted" THEN NullOid ELSE Known(r.new_oid, ids[2]),
         binary |-> \E i \in DOMAIN blocks : \E j \in DOMAIN blocks[i] : blocks[i][j].k \in {"bingit", "binfiles"},
         range |-> <<from + 1, from + size>>, block_count |-> block_count(r.kind)]

NoDiff == [patch |-> <<>>, changes |-> <<>>]

\* Append a stream to a diff: <<the error, the diff>>, the diff unchanged on error.
append_stream(diff, stream, origin) ==
    LET raw    == parse_raw_section(stream)
        blocks == split_blocks(stream.patch)
        Body(n) == SubSeq(stream.patch, blocks[n][1], blocks[n][2])
        Before(n) == FoldLeft(LAMBDA sum, r : sum + block_count(r.kind), 0, SubSeq(stream.records, 1, n - 1))
        Owned(n) == [b \in 1 .. block_count(stream.records[n].kind) |-> Body(Before(n) + b)]
        From(n) == Len(diff.patch) + blocks[Before(n) + 1][1] - 1
    IN  IF raw # "none" THEN <<raw, diff>>
        ELSE IF stream.patch # <<>> /\ stream.patch[1].k # "git" THEN <<"MalformedRaw", diff>>
        ELSE IF Before(Len(stream.records) + 1) # Len(blocks) THEN <<"CountMismatch", diff>>
        ELSE IF \E n \in DOMAIN stream.records : ~Paired(stream.records[n], Owned(n)) THEN <<"IdentityMismatch", diff>>
        ELSE <<"none", [patch |-> diff.patch \o stream.patch,
                        changes |-> diff.changes \o [n \in DOMAIN stream.records |->
                            pair(stream.records[n], Owned(n), origin, From(n))]]>>

Blocks(diff) == FoldLeft(LAMBDA sum, c : sum + c.block_count, 0, diff.changes)

\* Seal the patch: DDF's own parser must see one file per block.
capture(diff) ==
    LET Sealed(parsed) ==
            IF ~Ok(parsed) THEN <<"Parse", <<>>>>
            ELSE IF Len(parsed.files) # Blocks(diff) THEN <<"ParsedFileCountMismatch", <<>>>>
            ELSE <<"none", parsed.files>>
    IN  Sealed(parse_lines(diff.patch))

\* The captured files under the paths of the records.
review_files(diff, files) ==
    LET owner == FlattenSeq([n \in DOMAIN diff.changes |-> [b \in 1 .. diff.changes[n].block_count |-> n]])
        Path(c) == IF c.new_path # Absent THEN c.new_path ELSE c.old_path
    IN  [i \in DOMAIN files |-> [files[i] EXCEPT !.path = Path(diff.changes[owner[i]])]]
------------------------------------------------------------------------------
(* The acquisition *)

CONSTANTS
    Paths,        \* names of files
    Revs,         \* names of revisions, "HEAD" among them
    ByteBudget,   \* GitAcquireOptions::byte_budget
    CallerConfig, \* the GIT_CONFIG entries of the caller's environment
    MaxEdits      \* how often other programs change the repository

VARIABLES repo, acq, seen

acquireVars == <<repo, acq, seen>>

Contents == {"x", "y"}
Tree == [Paths -> Contents \cup {"none"}]
EmptyTree == [p \in Paths |-> "none"]
Name(p) == <<p>>

PROTECTED_SCOPES == {"system", "global", "command"}
ConfigKeys == {"clean", "smudge", "process", "required"}

\* `git config --list`: entries <<scope, filter>>; names that are not UTF-8 cannot be switched off.
unprotected_filter_names(listing) == {e[2] : e \in {l \in listing : l[1] \notin PROTECTED_SCOPES}}
\* The numbered entries Git sees: the caller's, then four for each filter that is switched off.
neutral_filters(caller, names) ==
    caller \o FlattenSeq([i \in 1 .. Cardinality(names) |->
        LET name == SetToSeq(names)[i] IN SetToSeq({<<name, k, k = "required">> : k \in ConfigKeys})])
repository_filters_off(r) ==
    LET names == unprotected_filter_names(r.filters)
    IN  IF "not-utf8" \in names THEN "InvalidSelection" ELSE "none"

------------------------------------------------------------------------------
(* What Git prints *)

GitBlock(p, old, new) ==
    LET kind == CASE old = "none" -> "Added" [] new = "none" -> "Deleted" [] OTHER -> "Modified"
        Oid(c) == IF c = "none" THEN NullOid ELSE c
    IN  <<GitLine(<<"a", p>>, <<"b", p>>)>>
        \o (IF kind = "Added" THEN <<ModeLine("newfile", 33188)>> ELSE <<>>)
        \o (IF kind = "Deleted" THEN <<ModeLine("delfile", 33188)>> ELSE <<>>)
        \o <<IndexLine(Oid(old), Oid(new)),
             Header("old", IF kind = "Added" THEN DevNull ELSE <<"a", p>>),
             Header("new", IF kind = "Deleted" THEN DevNull ELSE <<"b", p>>),
             HunkLine(IF kind = "Added" THEN 0 ELSE 1, IF kind = "Added" THEN 0 ELSE 1,
                      IF kind = "Deleted" THEN 0 ELSE 1, IF kind = "Deleted" THEN 0 ELSE 1)>>
        \o (IF kind # "Added" THEN <<Line("del")>> ELSE <<>>)
        \o (IF kind # "Deleted" THEN <<Line("add")>> ELSE <<>>)

\* The raw record leaves out the ID of a file of the working tree.
GitRecord(p, old, new, hashed) ==
    LET Oid(c) == IF c = "none" THEN NullOid ELSE c
        newOid == IF hashed THEN Oid(new) ELSE NullOid
    IN  CASE old = "none" -> Record("Added", Name(p), Absent, 0, 33188, NullOid, newOid)
          [] new = "none" -> Record("Deleted", Name(p), Absent, 33188, 0, old, NullOid)
          [] OTHER        -> Record("Modified", Name(p), Absent, 33188, 33188, old, newOid)

Stream(paths, old, new, hashed) ==
    [records |-> [i \in DOMAIN paths |-> GitRecord(paths[i], old[paths[i]], new[paths[i]], hashed)],
     separator |-> paths # <<>>,
     patch |-> FlattenSeq([i \in DOMAIN paths |-> GitBlock(paths[i], old[paths[i]], new[paths[i]])])]
GitDiff(old, new, hashed) ==
    Stream(SetToSeq({p \in Paths : old[p] # new[p]}), old, new, hashed)

\* The new side of a comparison with the index or with the working tree.  Git compares the
\* working tree only at the paths that are in the index.
Plain(r, p) == IF r.work[p] = "dir" THEN "none" ELSE r.work[p]
Tracked(r) == [p \in Paths |-> IF r.index[p] = "none" THEN "none" ELSE Plain(r, p)]

\* Streams no Git at hand prints, which pairing is there to refuse.
Quirks(s) ==
    IF s.records = <<>> THEN {}
    ELSE {[s EXCEPT !.records = Front(@)],
          [s EXCEPT !.separator = FALSE],
          [s EXCEPT !.records[1] = Malformed],
          [s EXCEPT !.records[1].new_oid = "other"],
          [s EXCEPT !.records[1].new_mode = 33261],
          [s EXCEPT !.patch = Tail(@)]}
         \cup {[s EXCEPT !.records[1].path = Name(q)] : q \in Paths}
         \cup {[s EXCEPT !.patch = SubSeq(@, 1, n)] : n \in 1 .. 2}

------------------------------------------------------------------------------
NotBegun == [pc |-> "begin", selection |-> "working_tree", untracked |-> FALSE, revs |-> <<"HEAD", "HEAD">>,
             base |-> 0, target |-> 0, diff |-> NoDiff, listing |-> <<>>, omitted |-> {}, err |-> "none",
             quirk |-> FALSE, env |-> <<>>, files |-> <<>>, old |-> "none", new |-> "none", code |-> 0]

AcquireInit ==
    /\ repo \in [refs: {[r \in Revs |-> 0], [r \in Revs |-> IF r = "HEAD" THEN 1 ELSE 0]},
                 commits: {<<t>> : t \in Tree}, index: Tree, work: [Paths -> Contents \cup {"none", "dir"}],
                 filters: {{<<"worktree", "not-utf8">>}, {<<"local", "f">>, <<"global", "g">>}}, edits: {0}]
    /\ repo.filters = {<<"worktree", "not-utf8">>} => repo.work = EmptyTree
    /\ repo.index \in {EmptyTree, repo.commits[1]}
    /\ seen = [p \in Paths |-> {}]
    /\ acq = NotBegun

TreeOf(r, commit) == IF commit = 0 THEN EmptyTree ELSE r.commits[commit]
Going == acq.pc \notin {"begin", "done", "failed"}
Stop(error) == acq' = [acq EXCEPT !.pc = "failed", !.err = error]
Goto(pc) == acq' = [acq EXCEPT !.pc = pc]

\* Other programs, while an acquisition is under way.
Change(r) ==
    /\ Going /\ repo.edits < MaxEdits
    /\ repo' = [r EXCEPT !.edits = @ + 1]
    /\ seen' = [p \in Paths |-> seen[p] \cup {r.work[p]}]
    /\ UNCHANGED acq
Edit(p) == \E c \in Contents \cup {"none", "dir"} : c # repo.work[p] /\ Change([repo EXCEPT !.work[p] = c])
Stage(p) == Plain(repo, p) # repo.index[p] /\ Change([repo EXCEPT !.index[p] = Plain(repo, p)])
Commit ==
    Change([repo EXCEPT !.commits = Append(@, repo.index), !.refs["HEAD"] = Len(repo.commits) + 1])

\* `acquire`: the options are checked, then `rev-parse --show-toplevel` runs.
Begin ==
    /\ acq.pc = "begin"
    /\ \E selection \in {"working_tree", "staged", "range"}, untracked \in BOOLEAN, revs \in Revs \X Revs :
          /\ selection # "range" => revs = <<"HEAD", "HEAD">>
          /\ acq' = [acq EXCEPT !.selection = selection, !.untracked = untracked, !.revs = revs,
                        !.pc = IF untracked /\ selection # "working_tree" THEN "failed" ELSE "filters",
                        !.err = IF untracked /\ selection # "working_tree" THEN "InvalidSelection" ELSE "none"]
    /\ seen' = [p \in Paths |-> {repo.work[p]}]
    /\ UNCHANGED repo

ListFilters ==
    /\ acq.pc = "filters"
    /\ IF repository_filters_off(repo) # "none" THEN Stop("InvalidSelection")
       ELSE acq' = [acq EXCEPT !.pc = "base",
                       !.env = neutral_filters(CallerConfig, unprotected_filter_names(repo.filters))]
    /\ UNCHANGED <<repo, seen>>

\* commit_id, and for an unborn HEAD the empty tree.
ResolveBase ==
    /\ acq.pc = "base"
    /\ LET id == repo.refs[acq.revs[1]]
       IN  IF acq.selection = "range" /\ id = 0 THEN Stop("InvalidSelection")
           ELSE acq' = [acq EXCEPT !.base = id, !.pc = IF acq.selection = "range" THEN "target" ELSE "diff"]
    /\ UNCHANGED <<repo, seen>>
ResolveTarget ==
    /\ acq.pc = "target"
    /\ LET id == repo.refs[acq.revs[2]]
       IN  IF id = 0 THEN Stop("InvalidSelection") ELSE acq' = [acq EXCEPT !.target = id, !.pc = "diff"]
    /\ UNCHANGED <<repo, seen>>

DiffHead(r, a) == r.refs["HEAD"]
\* The object the diff is taken from: the one that was resolved, not the name.
diff_base(r, a) == a.base

\* What the diff call printed, kept if it can be paired and fits.
Took(a, s, parsed) ==
    CASE Len(s.patch) > ByteBudget -> [a EXCEPT !.pc = "failed", !.err = "BudgetExceeded"]
      [] Len(s.patch) <= ByteBudget /\ parsed[1] # "none" -> [a EXCEPT !.pc = "failed", !.err = parsed[1]]
      [] OTHER -> [a EXCEPT !.pc = IF a.untracked THEN "list" ELSE "seal", !.diff = parsed[2]]

RunDiff ==
    /\ acq.pc = "diff"
    /\ LET old  == TreeOf(repo, diff_base(repo, acq))
           true == CASE acq.selection = "range" -> GitDiff(old, TreeOf(repo, acq.target), TRUE)
                     [] acq.selection = "staged" -> GitDiff(old, repo.index, TRUE)
                     [] OTHER -> GitDiff(old, Tracked(repo), FALSE)
       IN  \E s \in {true} \cup Quirks(true) :
             acq' = Took([acq EXCEPT !.quirk = s # true], s, append_stream(NoDiff, s, "Tracked"))
    /\ UNCHANGED <<repo, seen>>

ListUntracked ==
    /\ acq.pc = "list"
    /\ LET others == {p \in Paths : repo.index[p] = "none" /\ repo.work[p] # "none"}
       IN  acq' = [acq EXCEPT !.pc = "file",
                      !.listing = SetToSeq({<<p, repo.work[p] = "dir">> : p \in others})]
    /\ UNCHANGED <<repo, seen>>

remaining(a) == IF Len(a.diff.patch) > ByteBudget THEN 0 ELSE ByteBudget - Len(a.diff.patch)

\* One untracked file: `git diff --no-index -- /dev/null <path>`.  For a file that is gone Git
\* exits 1 with nothing on its output, and that code is accepted.
CaptureUntracked ==
    /\ acq.pc = "file" /\ acq.listing # <<>>
    /\ LET p == Head(acq.listing)[1]
           s == IF Plain(repo, p) = "none" THEN Stream(<<>>, EmptyTree, EmptyTree, FALSE)
                ELSE Stream(<<p>>, EmptyTree, [EmptyTree EXCEPT ![p] = Plain(repo, p)], FALSE)
           Taken(parsed) ==
              LET added == SubSeq(parsed[2].changes, Len(acq.diff.changes) + 1, Len(parsed[2].changes))
              IN  IF parsed[1] # "none" THEN Stop(parsed[1])
                  ELSE IF Len(added) # 1 \/ added[1].kind # "Added" \/ added[1].new_path # Name(p)
                  THEN Stop("IdentityMismatch")
                  ELSE acq' = [acq EXCEPT !.diff = parsed[2], !.listing = Tail(@)]
       IN  IF Head(acq.listing)[2] THEN acq' = [acq EXCEPT !.omitted = @ \cup {p}, !.listing = Tail(@)]
           ELSE IF Len(s.patch) > remaining(acq) THEN Stop("BudgetExceeded")
           ELSE Taken(append_stream(acq.diff, s, "Untracked"))
    /\ UNCHANGED <<repo, seen>>

\* After the last call the capture is sealed by parsing it.
CallsDone == acq.pc = "seal" \/ (acq.pc = "file" /\ acq.listing = <<>>)
Seal ==
    /\ CallsDone
    /\ \E sealed \in {capture(acq.diff)} :
          acq' = [acq EXCEPT !.pc = IF sealed[1] = "none" THEN "done" ELSE "failed",
                             !.err = sealed[1], !.files = sealed[2]]
    /\ UNCHANGED <<repo, seen>>

------------------------------------------------------------------------------
(* diff_files on the files of two paths *)

FileSize == [x |-> 1, y |-> ByteBudget]
Pair == <<CHOOSE p \in Paths : TRUE, CHOOSE q \in Paths : q # CHOOSE p \in Paths : TRUE>>

regular_file(p) ==
    CASE repo.work[p] = "none" -> "FileUnreadable" [] repo.work[p] = "dir" -> "FileRefused" [] OTHER -> "none"

BeginPair ==
    /\ acq.pc = "begin"
    /\ IF regular_file(Pair[1]) # "none" THEN Stop(regular_file(Pair[1]))
       ELSE acq' = [acq EXCEPT !.pc = "new", !.old = repo.work[Pair[1]]]
    /\ seen' = [p \in Paths |-> {repo.work[p]}]
    /\ UNCHANGED repo
CheckNew ==
    /\ acq.pc = "new"
    /\ IF regular_file(Pair[2]) # "none" THEN Stop(regular_file(Pair[2]))
       ELSE IF FileSize[acq.old] + FileSize[repo.work[Pair[2]]] > ByteBudget THEN Stop("FileRefused")
       ELSE Goto("pair")
    /\ UNCHANGED <<repo, seen>>

\* Git's two shapes: 0 and silence for identical files, 1 and a patch for different ones.
pair_failed(code, stdout, stderr) == stderr \/ (code = 1) = (stdout = <<>>)

ReadPair ==
    /\ acq.pc = "pair"
    /\ LET old == Plain(repo, Pair[1])
           new == Plain(repo, Pair[2])
           gone == "none" \in {old, new}
           code == IF old = new /\ ~gone THEN 0 ELSE 1
           \* What the exit leaves on standard error when a side cannot be opened is Git's own.
           stdout == IF gone \/ code = 0 THEN <<>> ELSE GitBlock(Pair[1], old, new)
       IN  \E stderr \in IF gone THEN BOOLEAN ELSE {FALSE} :
              IF Len(stdout) > ByteBudget THEN Stop("BudgetExceeded")
              ELSE IF pair_failed(code, stdout, stderr) THEN Stop("CommandFailed")
              ELSE acq' = [acq EXCEPT !.pc = "done", !.code = code, !.old = old, !.new = new,
                               !.selection = "pair", !.diff.patch = stdout]
    /\ UNCHANGED <<repo, seen>>

\* Any call can fail: it cannot be started, times out, exits with another code.
GitFails ==
    /\ Going /\ ~CallsDone
    /\ Stop("GitFailed")
    /\ UNCHANGED <<repo, seen>>

AcquireNext ==
    \/ \E p \in Paths : Edit(p) \/ Stage(p)
    \/ Commit
    \/ Begin \/ ListFilters \/ ResolveBase \/ ResolveTarget \/ RunDiff \/ ListUntracked
    \/ CaptureUntracked \/ Seal
    \/ BeginPair \/ CheckNew \/ ReadPair
    \/ GitFails

------------------------------------------------------------------------------
Captured == acq.pc = "done" /\ acq.selection # "pair"
ChangesOf(p) == {i \in DOMAIN acq.diff.changes : Name(p) = review_path(
                    [kind |-> acq.diff.changes[i].kind, path |-> IF acq.diff.changes[i].new_path # Absent
                        THEN acq.diff.changes[i].new_path ELSE acq.diff.changes[i].old_path, to |-> Absent])}
Blob(c) == IF c = "none" THEN NullOid ELSE c

\* A finished acquisition is the comparison it names.  Every change goes from the resolved base
\* to a content the path had while acquisition ran (to the resolved target in a range); a path
\* that stayed as it was and differs is captured once, or reported as omitted; the patch is
\* within the budget, and the calls ran under every entry of the caller's configuration.  A pair of files
\* is reported as unchanged only when Git read both and found them equal: never because one of
\* them went away after it was checked.
ComparisonIsNamed ==
    /\ Captured /\ ~acq.quirk =>
          /\ Len(acq.diff.patch) <= ByteBudget
          /\ IsPrefix(CallerConfig, acq.env)
          /\ \A p \in Paths, i \in DOMAIN acq.diff.changes : i \in ChangesOf(p) =>
                /\ acq.diff.changes[i].origin = "Tracked" => acq.diff.changes[i].old_blob = Blob(TreeOf(repo, acq.base)[p])
                /\ acq.selection = "range" => acq.diff.changes[i].new_blob = Blob(TreeOf(repo, acq.target)[p])
                /\ acq.selection = "working_tree" =>
                      acq.diff.changes[i].new_blob \in {Blob(c) : c \in seen[p] \cup {"none"}}
          /\ repo.edits = 0 =>
                \A p \in Paths :
                   LET new == CASE acq.selection = "range" -> TreeOf(repo, acq.target)[p]
                                [] acq.selection = "staged" -> repo.index[p]
                                [] OTHER -> Tracked(repo)[p]
                       other == acq.untracked /\ repo.index[p] = "none" /\ repo.work[p] \in Contents
                   IN  Cardinality(ChangesOf(p)) = (IF TreeOf(repo, acq.base)[p] # new THEN 1 ELSE 0)
                                                   + (IF other THEN 1 ELSE 0)
                       /\ acq.untracked /\ repo.work[p] = "dir" /\ repo.index[p] = "none" => p \in acq.omitted
    /\ acq.pc = "done" /\ acq.selection = "pair" =>
          /\ "none" \notin {acq.old, acq.new}
          /\ (acq.diff.patch = <<>>) = (acq.old = acq.new)

\* A review shows every file under the name its raw record gives it, and that is also the name
\* its block has on its own, whatever Git printed; the blocks of the changes follow one another
\* and make up the whole patch.
ReviewedIsRecorded ==
    Captured =>
        /\ \A i \in DOMAIN acq.files : review_files(acq.diff, acq.files)[i].path = acq.files[i].path
        /\ \A n \in DOMAIN acq.diff.changes :
              acq.diff.changes[n].range[1] = IF n = 1 THEN 1 ELSE acq.diff.changes[n - 1].range[2] + 1
        /\ acq.diff.changes = <<>> => acq.diff.patch = <<>>
        /\ acq.diff.changes # <<>> => Last(acq.diff.changes).range[2] = Len(acq.diff.patch)

\* A finished acquisition is the comparison it names, and a review shows all of it as recorded.
CapturedIsCompared == ComparisonIsNamed /\ ReviewedIsRecorded
==============================================================================
