------------------------------ MODULE GateInputs ------------------------------
(***************************************************************************)
(* What a council gate works on (crates/deep-diff-forge-review): the container *)
(* it runs in (sandbox.rs, execution.rs) and, for the mutation gate, the lines *)
(* of a changed file that are mutated (mutation_scope.rs).                    *)
(***************************************************************************)
EXTENDS Integers, Sequences, FiniteSets, SequencesExt, FiniteSetsExt

CONSTANTS Inventories,      \* sets of paths a repository may have
          Trees,            \* outputs of the vendoring job
          SEAL_ENTRIES, SEAL_BYTES,
          LINE_CELL_BUDGET, TOTAL_CELL_BUDGET,
          OldFiles, NewFiles     \* files the mutation gate is asked about (sequences of lines)

\* What a walk finds at a path; a symbolic link or a special file is there to be refused.
TreeEntries == [path : STRING, kind : {"dir", "file", "executable", "symlink", "special"}, bytes : Nat]
ASSUME TreesAreEntries == \A tree \in Trees : tree \subseteq TreeEntries

VARIABLES box,     \* [inventory, deleted, gate, tree]: one launch, and what vendoring left
          scope    \* [old, new, spent]: one file of the diff and the cells spent before it
-----------------------------------------------------------------------------
(***************************************************************************)
(* The container: the paths that are refused before a job exists, the private  *)
(* copy of the sealed snapshot, the mounts and the environment, and the        *)
(* sealing of the vendored dependencies.                                      *)
(*                                                                           *)
(* The inventory is a set of paths; `deleted' are those of them that the      *)
(* snapshot lacks.  A path is a sequence of names.                            *)
(***************************************************************************)
TOOLCHAIN_CONFIG == {<<".cargo", "config">>, <<".cargo", "config.toml">>, <<"rust-toolchain">>, <<"rust-toolchain.toml">>}
FUZZ_ARTIFACTS == <<"fuzz", "artifacts">>

\* Toolchain files at any depth that are there, and any inventoried path at or under the fuzz
\* artifacts, there or deleted.
Toolchain(p) == \E name \in TOOLCHAIN_CONFIG : IsSuffix(name, p)
Artifact(p) == IsPrefix(FUZZ_ARTIFACTS, p)
\* Mutant: a deleted path under the mount point is let through.
RefusePresent(b) == \E p \in b.inventory \ b.deleted : Artifact(p) \/ Toolchain(p)
refuse_snapshot_paths(b) == \E p \in b.inventory : Artifact(p) \/ (Toolchain(p) /\ p \notin b.deleted)

(***************************************************************************)
(* The slot of a gate: the copy has the files the snapshot has; the mount     *)
(* point of the fuzz artifacts is made when there is a fuzz directory.        *)
(***************************************************************************)
Copied(b) == b.inventory \ b.deleted
HasDir(paths, d) == \E p \in paths : IsStrictPrefix(d, p)
prepare_work(b) == IF b.gate = "fuzz" /\ HasDir(Copied(b), <<"fuzz">>) THEN {FUZZ_ARTIFACTS} ELSE {}
stage_inputs(b) == b.gate = "fuzz" /\ prepare_work(b) # {}

\* The job of a gate: vendoring has the network and no vendored crates, the oracle has the
\* mutation gate's launch, antipatterns runs no Cargo.
Launch(b) == [network |-> b.gate = "vendor", mutation |-> b.gate \in {"mutation", "oracle"},
              vendor |-> b.gate \notin {"vendor", "antipatterns"}, fuzz |-> stage_inputs(b)]
env(l) == {"HOME", "TMPDIR", "RUSTUP_TOOLCHAIN"}
             \cup {IF l.vendor THEN "CARGO_HOME=/cargo-home" ELSE "CARGO_HOME=/work/cargo-home"}
             \cup (IF l.network THEN {} ELSE {"CARGO_NET_OFFLINE"})
             \cup (IF l.mutation THEN {"CARGO_ENCODED_RUSTFLAGS"} ELSE {"CARGO_TARGET_DIR"})
argv(l) == [network |-> l.network, env |-> env(l), writable |-> {"/work"},
            readOnly |-> {"/src"} \cup (IF l.vendor THEN {"/cargo-home", "/vendor"} ELSE {}),
            tmpfs |-> IF l.fuzz THEN {FUZZ_ARTIFACTS} ELSE {}]

\* What the process in the container finds under /src.
Visible(b) == {p \in Copied(b) : ~\E m \in argv(Launch(b)).tmpfs : IsPrefix(m, p)}

(***************************************************************************)
(* The vendored tree is walked three times: before it is copied, while it is   *)
(* copied and as the copy.  Only directories and regular files are accepted,    *)
(* within a budget of entries and of bytes.                                     *)
(***************************************************************************)
Bytes(tree) == FoldSet(LAMBDA e, sum : sum + e.bytes, 0, {e \in tree : e.kind \in {"file", "executable"}})
walk_tree(tree) ==
    [ok |-> /\ Cardinality(tree) <= SEAL_ENTRIES /\ Bytes(tree) <= SEAL_BYTES
            /\ \A e \in tree : e.kind \in {"dir", "file", "executable"},
     copy |-> {IF e.kind \in {"dir", "file"} THEN e ELSE [e EXCEPT !.kind = "executable"] : e \in tree}]
\* The walk before, the copy and the walk of the copy agree.
seal_tree(tree) == walk_tree(tree).ok /\ walk_tree(walk_tree(tree).copy) = walk_tree(tree)

BoxInit ==
    \/ \E inv \in Inventories : \E deleted \in SUBSET inv,
          g \in {"tests", "fuzz", "mutation", "oracle", "antipatterns", "vendor"} :
             box = [inventory |-> inv, deleted |-> deleted, gate |-> g, tree |-> {}]
    \/ \E tree \in Trees : box = [inventory |-> {}, deleted |-> {}, gate |-> "tests", tree |-> tree]

(***************************************************************************)
(* A gate that is admitted works on the sealed bytes and on nothing of the     *)
(* candidate's choosing: every file of the snapshot is visible to it (no        *)
(* mount hides one), none of them selects a toolchain or a Cargo                *)
(* configuration, no mount point takes the place of a sealed deletion, only     *)
(* the vendoring job has the network, the oracle builds in the environment of   *)
(* the mutation gate, and vendored crates that are mounted were all regular     *)
(* files within the budget.                                                     *)
(***************************************************************************)
GatesSeeTheSealedBytes ==
    /\ ~refuse_snapshot_paths(box) =>
          /\ Visible(box) = box.inventory \ box.deleted
          /\ \A p \in Visible(box) : ~Toolchain(p)
          /\ \A m \in prepare_work(box) , p \in box.deleted : ~IsPrefix(m, p)
          /\ argv(Launch(box)).network => box.gate = "vendor"
          /\ argv(Launch([box EXCEPT !.gate = "oracle"])) = argv(Launch([box EXCEPT !.gate = "mutation"]))
    /\ seal_tree(box.tree) => walk_tree(box.tree).copy = box.tree /\ \A e \in box.tree : e.kind # "symlink"
-----------------------------------------------------------------------------
(***************************************************************************)
(* The lines the mutation gate mutates: the changed regions of a file against *)
(* its base, widened where they hold no code, as hunks without context.       *)
(* Lines are numbered from 0 and a region is [o1, o2) of the old file against *)
(* [n1, n2) of the new one.  A line is a sequence of tokens.                   *)
(***************************************************************************)
Line(file, i) == file[i + 1]
Region(o1, o2, n1, n2) == [o1 |-> o1, o2 |-> o2, n1 |-> n1, n2 |-> n2]

(***************************************************************************)
(* The pairs of a longest common subsequence, read off the table of lengths   *)
(* the way the code does: at each old line, skip the new lines up to a match  *)
(* or to where leaving the old line out loses nothing.                        *)
(***************************************************************************)
LcsTable(old, new) ==
    LET n == Len(old)
        m == Len(new)
        t[i \in 0..n, j \in 0..m] ==
            IF i = n \/ j = m THEN 0
            ELSE IF Line(old, i) = Line(new, j) THEN t[i + 1, j + 1] + 1
            ELSE IF t[i + 1, j] >= t[i, j + 1] THEN t[i + 1, j] ELSE t[i, j + 1]
    IN  t
lcs_pairs(old, new) ==
    LET t == LcsTable(old, new)
        m == Len(new)
        step(acc, i) ==
            LET stops == {k \in acc.j..m - 1 : Line(old, i) = Line(new, k) \/ t[i + 1, k] = t[i, k]}
                j == IF stops = {} THEN m ELSE CHOOSE k \in stops : \A l \in stops : k <= l
            IN  IF j < m /\ Line(old, i) = Line(new, j)
                THEN [j |-> j + 1, pairs |-> Append(acc.pairs, <<i, j>>)]
                ELSE [acc EXCEPT !.j = j]
    IN  FoldLeft(step, [j |-> 0, pairs |-> <<>>], [i \in 1..Len(old) |-> i - 1]).pairs

\* How many lines two files share at their start (take_while).
Common(a, b) == CHOOSE k \in 0..Len(a) : /\ k <= Len(b) /\ \A i \in 1..k : a[i] = b[i]
                                         /\ k = Len(a) \/ k = Len(b) \/ a[k + 1] # b[k + 1]
regions(old, new, spent) ==
    LET prefix == Common(old, new)
        suffix == Common(Reverse(SubSeq(old, prefix + 1, Len(old))), Reverse(SubSeq(new, prefix + 1, Len(new))))
        middleOld == SubSeq(old, prefix + 1, Len(old) - suffix)
        middleNew == SubSeq(new, prefix + 1, Len(new) - suffix)
        cells == Len(middleOld) * Len(middleNew)
        exact == cells <= LINE_CELL_BUDGET /\ spent + cells <= TOTAL_CELL_BUDGET
        anchors == (IF exact THEN lcs_pairs(middleOld, middleNew) ELSE <<>>)
                      \o << <<Len(middleOld), Len(middleNew)>> >>
        step(acc, a) ==
            [i |-> a[1] + 1, j |-> a[2] + 1,
             found |-> IF a[1] > acc.i \/ a[2] > acc.j
                       THEN Append(acc.found, Region(prefix + acc.i, prefix + a[1], prefix + acc.j, prefix + a[2]))
                       ELSE acc.found]
    IN  FoldLeft(step, [i |-> 0, j |-> 0, found |-> <<>>], anchors).found

(***************************************************************************)
(* Which lines hold code outside comments and attributes; comments nest, and   *)
(* comments, attributes and strings run over line ends.  The tokens are the   *)
(* pairs and bytes the scanner tells apart.                                    *)
(***************************************************************************)
Scan(st, token) ==
    CASE st.rest -> st                                          \* after // the line is over
      [] st.string /\ token = "quote" -> [st EXCEPT !.string = FALSE]
      [] st.string -> st
      [] st.comment > 0 -> [st EXCEPT !.comment = @ + (IF token = "/*" THEN 1 ELSE IF token = "*/" THEN -1 ELSE 0)]
      [] token = "//" -> [st EXCEPT !.rest = TRUE]
      [] token = "/*" -> [st EXCEPT !.comment = 1]
      [] token = "quote" -> [st EXCEPT !.string = TRUE, !.code = @ \/ st.attribute = 0]
      [] token = "'x'" -> [st EXCEPT !.code = @ \/ st.attribute = 0]
      [] st.attribute > 0 -> [st EXCEPT !.attribute = @ + (IF token = "[" THEN 1 ELSE IF token = "]" THEN -1 ELSE 0)]
      [] token = "#[" -> [st EXCEPT !.attribute = 1]
      [] token = "space" -> st
      [] OTHER -> [st EXCEPT !.code = TRUE]
code_lines(new) ==
    LET line(acc, l) == LET end == FoldLeft(Scan, [acc.st EXCEPT !.code = FALSE, !.rest = FALSE], l)
                        IN  [st |-> end, code |-> Append(acc.code, end.code)]
        start == [comment |-> 0, attribute |-> 0, string |-> FALSE, code |-> FALSE, rest |-> FALSE]
    IN  FoldLeft(line, [st |-> start, code |-> <<>>], new).code

(***************************************************************************)
(* A region whose new lines hold no code selects no mutant: it is widened to   *)
(* the nearest code line on each side, at most to its neighbours, and regions  *)
(* that then overlap, or touch where a side is empty, become one.              *)
(***************************************************************************)
\* Mutant: a deletion is widened up to the code before it only.
WidenUp(found, k, code, size) ==
    LET r == found[k]
        above == {l \in (IF k = 1 THEN 0 ELSE found[k - 1].n2)..r.n1 - 1 : code[l + 1]}
        before == IF above = {} THEN r.n1 ELSE CHOOSE l \in above : \A x \in above : x <= l
    IN  IF \A l \in r.n1..r.n2 - 1 : ~code[l + 1] THEN [r EXCEPT !.o1 = @ - (r.n1 - before), !.n1 = before] ELSE r
Widened(found, k, code, size) ==
    LET r == found[k]
        floor == IF k = 1 THEN 0 ELSE found[k - 1].n2
        ceiling == IF k = Len(found) THEN size ELSE found[k + 1].n1
        above == {l \in floor..r.n1 - 1 : code[l + 1]}
        below == {l \in r.n2..ceiling - 1 : code[l + 1]}
        before == IF above = {} THEN floor ELSE CHOOSE l \in above : \A x \in above : x <= l
        after == IF below = {} THEN ceiling ELSE 1 + CHOOSE l \in below : \A x \in below : l <= x
    IN  IF size > 0 /\ \A l \in r.n1..r.n2 - 1 : ~code[l + 1]
        THEN Region(r.o1 - (r.n1 - before), r.o2 + (after - r.n2), before, after)
        ELSE r
Merges(last, r) == last.o2 > r.o1 \/ (last.o2 = r.o1 /\ (r.o1 = r.o2 \/ r.n1 = r.n2))
Larger(a, b) == IF a >= b THEN a ELSE b
widen_deletions(found, new) ==
    LET code == code_lines(new)
        step(acc, k) ==
            LET r == Widened(found, k, code, Len(new))
                last == Last(acc)
            IN  IF acc # <<>> /\ Merges(last, r)
                THEN Append(Front(acc), [last EXCEPT !.o2 = Larger(@, r.o2), !.n2 = Larger(@, r.n2)])
                ELSE Append(acc, r)
    IN  FoldLeft(step, <<>>, [k \in 1..Len(found) |-> k])

\* The headers: an empty side names the line it follows, another one its first line.
hunk(r) == [old |-> r.o1 + (IF r.o1 < r.o2 THEN 1 ELSE 0), oldLen |-> r.o2 - r.o1,
            new |-> r.n1 + (IF r.n1 < r.n2 THEN 1 ELSE 0), newLen |-> r.n2 - r.n1]
Hunks(wide) == [k \in DOMAIN wide |-> hunk(wide[k])]
unified(old, new, spent) == Hunks(widen_deletions(regions(old, new, spent), new))

ScopeInit == \E old \in OldFiles, new \in NewFiles, spent \in {0, TOTAL_CELL_BUDGET} :
                scope = [old |-> old, new |-> new, spent |-> spent]
ScopeIdle == scope = [old |-> <<>>, new |-> <<>>, spent |-> 0]

(***************************************************************************)
(* The scope leaves no change out.  Its hunks are in order and apart on both   *)
(* sides, their headers agree on how far the sides have drifted, outside them  *)
(* the files are equal line for line (so the hunks turn the base into the      *)
(* candidate), and a change that left no code of its own still selects code:   *)
(* the run of touching hunks it falls in holds a code line, unless the file    *)
(* has none.                                                                   *)
(***************************************************************************)
FirstLine(start, len) == IF len = 0 THEN start ELSE start - 1
ScopeLeavesNothingOut ==
    \A h \in {unified(scope.old, scope.new, scope.spent)} :
    LET o1(k) == FirstLine(h[k].old, h[k].oldLen)
        n1(k) == FirstLine(h[k].new, h[k].newLen)
        o2(k) == IF k = 0 THEN 0 ELSE o1(k) + h[k].oldLen
        n2(k) == IF k = 0 THEN 0 ELSE n1(k) + h[k].newLen
        oEnd(k) == IF k > Len(h) THEN Len(scope.old) ELSE o1(k)
        nEnd(k) == IF k > Len(h) THEN Len(scope.new) ELSE n1(k)
        code == code_lines(scope.new)
        touching(k) == {l \in 1..Len(h) : \A x \in 1..Len(h) : (x > k /\ x <= l => n2(x - 1) = n1(x))
                                                            /\ (x <= k /\ x > l => n2(x - 1) = n1(x))}
    IN  /\ \A k \in 0..Len(h) :
              /\ oEnd(k + 1) - o2(k) = nEnd(k + 1) - n2(k) /\ oEnd(k + 1) >= o2(k)
              /\ \A d \in 0..oEnd(k + 1) - o2(k) - 1 : Line(scope.old, o2(k) + d) = Line(scope.new, n2(k) + d)
        /\ \A k \in 1..Len(h) :
              /\ h[k].oldLen + h[k].newLen > 0
              \* Two hunks that meet on both sides would be one change written twice.
              /\ k > 1 => ~(o2(k - 1) = o1(k) /\ n2(k - 1) = n1(k) /\ (h[k].oldLen = 0 \/ h[k].newLen = 0))
              /\ (\E i \in DOMAIN code : code[i]) =>
                    \E l \in touching(k) : \E i \in n1(l)..n2(l) - 1 : code[i + 1]
=============================================================================
