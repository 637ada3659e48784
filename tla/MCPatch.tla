------------------------------- MODULE MCPatch -------------------------------
(***************************************************************************)
(* Reviewing a patch from a stream and acquiring one from Git: the two ways *)
(* a patch reaches the parser.  A behaviour is of one of the two.           *)
(***************************************************************************)
EXTENDS PatchReview, GitAcquire

PatchIdle == theme = "none" /\ fed = <<>> /\ parser = Start /\ finished = TRUE
AcquireIdle ==
    /\ repo = [refs |-> [r \in Revs |-> 0], commits |-> <<EmptyTree>>, index |-> EmptyTree,
               work |-> EmptyTree, filters |-> {}, edits |-> 0]
    /\ acq = [NotBegun EXCEPT !.pc = "failed"]
    /\ seen = [p \in Paths |-> {}]

MCInit == (PatchInit /\ AcquireIdle) \/ (PatchIdle /\ AcquireInit)
MCNext ==
    \/ PatchNext /\ UNCHANGED acquireVars
    \/ AcquireNext /\ UNCHANGED patchVars
MCSpec == MCInit /\ [][MCNext]_<<patchVars, acquireVars>>

MCCaller == <<<<"user", "clean", FALSE>>>>


ax == <<"a", "x">>
bx == <<"b", "x">>
by == <<"b", "y">>
hunk11 == HunkLine(1, 1, 1, 1)
Signs == {Line("add"), Line("del")}
Epoch == [day |-> 1969, hour |-> 19, minute |-> 0, zone |-> -300]

MCThemes == [
  body |-> {Header("old", ax), Header("new", bx), HunkLine(1, 2, 1, 1), HunkLine(2, 0, 3, 1), hunk11,
            Line("ctx"), Line("eof"), Line("rule"), Line("text")} \cup Signs,
  marks |-> {GitLine(ax, bx), Line("index"), HunkLine(1, 1, 1, 2), Line("eof"), Line("badeof"), Line("badat"), Line("blank"),
            [Line("del") EXCEPT !.eol = FALSE], [Line("add") EXCEPT !.lossy = TRUE],
            [Line("text") EXCEPT !.lossy = TRUE], [Line("index") EXCEPT !.lossy = TRUE]} \cup Signs,
  names |-> {Header("old", ax), Header("old", <<"x">>), Header("old", DevNull), Header("new", bx),
             Header("new", <<"b", "xx">>), Header("new", <<"x">>), Header("new", DevNull),
             [Header("new", <<"b", "", "x">>) EXCEPT !.stamp = Epoch],
             GitLine(ax, bx), Line("index"), HunkLine(0, 0, 1, 1), HunkLine(1, 1, 0, 0)} \cup Signs,
  twice |-> {Header("old", ax), Header("old", <<"x">>), Header("old", DevNull), Header("new", bx),
             Header("new", <<"x">>), Header("new", DevNull), HunkLine(0, 0, 1, 1), HunkLine(1, 1, 0, 0)} \cup Signs,
  heads |-> {GitLine(ax, bx), GitLine(ax, by), ModeLine("newfile", 33188), ModeLine("delfile", 33188),
             ModeLine("oldmode", 33188), ModeLine("newmode", 33204), ModeLine("newmode", 33261),
             ModeLine("newmode", 40960), ModeLine("newmode", BadMode), Line("bingit"), Line("binfiles"),
             BinaryData, Line("blank"), Line("text"), Line("cc"), Line("renold")},
  moves |-> {GitLine(ax, by), GitLine(ax, <<"i", "y">>), Header("renfrom", <<"x">>), Header("rento", <<"y">>),
             Header("copyfrom", <<"x">>), Header("copyto", <<"y">>), Header("rento", <<"..", "y">>),
             Header("old", ax), Header("new", by), Header("new", bx), HunkLine(0, 0, 1, 1), Line("add")} ]
MCMaxLines == [body |-> 8, marks |-> 6, names |-> 7, twice |-> 8, heads |-> 4, moves |-> 6]
MCNameExtends == {<<"x", "xx">>}
==============================================================================
