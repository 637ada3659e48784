------------------------------- MODULE Views ---------------------------------
(***************************************************************************)
(* The paged views of a sealed review,                                     *)
(* crates/deep-diff-forge-daemon/src/views.rs: an outline lists files and  *)
(* their hunks, a hunks view lists the lines of selected hunks; an answer  *)
(* keeps to a byte budget and says where the next one goes on.             *)
(*                                                                         *)
(* A client asks page after page, with any budget and any patch, since the *)
(* daemon keeps nothing between two calls.  What is rendered is its size:  *)
(* a file is its path, score and size with its hunks, a hunk its address   *)
(* and size with its lines, a line its size.  Equal patches have equal     *)
(* seals.                                                                  *)
(***************************************************************************)
EXTENDS Integers, SequencesExt, FiniteSetsExt

CONSTANTS Patches,       \* the files of each review
          Selections,    \* by "addresses" or "paths", with their names
          MIN_MAX_BYTES, MAX_MAX_BYTES, ENVELOPE_BYTES, FIT_ATTEMPTS,
          Copies         \* how often an emitted answer holds the view

ASSUME PageBounds == /\ ENVELOPE_BYTES \in Nat /\ FIT_ATTEMPTS \in Nat \ {0}
                     /\ ENVELOPE_BYTES < MIN_MAX_BYTES /\ MIN_MAX_BYTES <= MAX_MAX_BYTES
                     /\ MIN_MAX_BYTES \in Nat /\ MAX_MAX_BYTES \in Nat
                     /\ Copies \subseteq Nat \ {0}

\* Whatever is rendered has a size; a hunk has a line.
ASSUME ReviewsAreFiles ==
  /\ \A p \in DOMAIN Patches :
       /\ Patches[p] \in Seq(ToSet(Patches[p]))
       /\ \A file \in ToSet(Patches[p]) :
            /\ file.path \in Nat /\ file.score \in Nat /\ file.size \in Nat \ {0}
            /\ file.hunks \in Seq(ToSet(file.hunks))
            /\ \A hunk \in ToSet(file.hunks) :
                 hunk.size \in Nat \ {0} /\ hunk.lines \in Seq(Nat) \ {<<>>}
  /\ \A sel \in Selections : sel.by \in {"addresses", "paths"} /\ sel.names \in Seq(ToSet(sel.names))

VARIABLES query,  \* the review, the view and the selection the client is after
          place,  \* the cursor it was given last; items count from one, and item 0 is no cursor
          got,    \* what it has been given: <<file, hunk, line>> or <<file, 0, hunk>>
          page,   \* the last answer, with the budget it was asked under
          ended   \* there is no next page

viewVars == <<query, place, got, page, ended>>

Files(p) == Patches[p]
NoCursor == [item |-> 0, inner |-> 0]
All == [by |-> "all", names |-> <<>>]
Queries == [patch : DOMAIN Patches, view : {"outline"}, sel : {All}]
             \cup [patch : DOMAIN Patches, view : {"hunks"}, sel : Selections \cup {All}]

VInit == /\ query \in Queries
         /\ place = [of |-> query, item |-> 0, inner |-> 0] /\ got = <<>> /\ ended = FALSE
         /\ page = [out |-> <<>>, next |-> NoCursor, size |-> 0, max |-> 0, over |-> FALSE]
-----------------------------------------------------------------------------
\* The files with the highest score first, then by path; the sort is stable.
Precedes(files, a, b) ==
  \/ files[a].score > files[b].score
  \/ files[a].score = files[b].score /\ files[a].path < files[b].path
  \/ files[a].score = files[b].score /\ files[a].path = files[b].path /\ a < b
risk_order(files) ==
  [k \in DOMAIN files |-> CHOOSE f \in DOMAIN files :
                            Cardinality({g \in DOMAIN files : Precedes(files, g, f)}) = k - 1]

HunksOf(files, f) == [h \in DOMAIN files[f].hunks |-> <<f, h>>]
Distinct(s) == FlattenSeq([k \in DOMAIN s |-> IF \E j \in 1 .. k - 1 : s[j] = s[k] THEN <<>> ELSE <<s[k]>>])

\* hunks_by_address: all the hunks with the address, in review order.
hunks_by_address(files, a) ==
  FlattenSeq([f \in DOMAIN files |->
    FlattenSeq([h \in DOMAIN files[f].hunks |-> IF files[f].hunks[h].address = a THEN <<<<f, h>>>> ELSE <<>>])])

\* All the sections with the path, in review order.
ByPath(files, p) ==
  FlattenSeq([f \in DOMAIN files |-> IF files[f].path = p THEN HunksOf(files, f) ELSE <<>>])

\* select: the hunks of a selection.
select(files, sel) ==
  LET order == risk_order(files)
      names == Distinct(sel.names)
  IN  CASE sel.by = "all" -> FlattenSeq([k \in DOMAIN files |-> HunksOf(files, order[k])])
        [] sel.by = "addresses" -> FlattenSeq([k \in DOMAIN names |-> hunks_by_address(files, names[k])])
        [] sel.by = "paths" -> FlattenSeq([k \in DOMAIN names |-> ByPath(files, names[k])])

\* A name that selects nothing is UnknownAddress or UnknownPath.
Known(files, sel) ==
  \A k \in DOMAIN sel.names : /\ sel.by = "addresses" => hunks_by_address(files, sel.names[k]) # <<>>
                              /\ sel.by = "paths" => \E f \in DOMAIN files : files[f].path = sel.names[k]

\* What a view is made of: its items, each with the size of its head and of its parts.
hunk_head(files, u) == files[u[1]].hunks[u[2]].size
FileItems(files, order) ==
  [k \in DOMAIN order |->
     [at |-> <<order[k], 0>>, head |-> files[order[k]].size,
      parts |-> [h \in DOMAIN files[order[k]].hunks |-> hunk_head(files, <<order[k], h>>)]]]
HunkItems(files, units) ==
  [k \in DOMAIN units |->
     [at |-> units[k], head |-> hunk_head(files, units[k]),
      parts |-> files[units[k][1]].hunks[units[k][2]].lines]]
Items(q) ==
  LET files == Files(q.patch)
  IN  IF q.view = "outline" THEN FileItems(files, risk_order(files)) ELSE HunkItems(files, select(files, q.sel))
-----------------------------------------------------------------------------
Sum(s, from, to) ==
  LET S[k \in 0 .. to] == IF k < from THEN 0 ELSE S[k - 1] + s[k] IN S[to]
MonusOf(a, b) == IF a > b THEN a - b ELSE 0

\* How many parts after `from` fit beside the head; the first of a page always does.
Taken(item, from, budget, first) ==
  LET Fits(n) == \/ item.head + Sum(item.parts, from + 1, from + n) <= budget
                 \/ first /\ n = 1
  IN  Max({n \in 0 .. Len(item.parts) - from : \A m \in 1 .. n : Fits(m)})

\* A turn of the loops of outline and hunks, for item k, when the page begins at part j of item i.
Turn(items, i, j, k, s) ==
  LET from == IF k = i THEN j ELSE 0
      t == Taken(items[k], from, s.left, s.out = <<>>)
      used == items[k].head + Sum(items[k].parts, from + 1, from + t)
      whole == from + t = Len(items[k].parts)
      entry == [item |-> k, from |-> from, upto |-> from + t]
  IN  CASE s.next # NoCursor -> s
        [] s.next = NoCursor /\ whole /\ (used <= s.left \/ s.out = <<>>) ->
             [out |-> Append(s.out, entry), left |-> MonusOf(s.left, used), next |-> NoCursor]
        [] OTHER ->
             [out |-> IF t > 0 /\ ~whole THEN Append(s.out, entry) ELSE s.out,
              left |-> MonusOf(s.left, used),
              next |-> [item |-> k, inner |-> from + (IF whole THEN 0 ELSE t)]]

\* The loops: entries until one is cut, or a later file's own entry does not fit.
Filled(items, i, j, budget) ==
  LET S[k \in 0 .. Len(items)] ==
        IF k < i THEN [out |-> <<>>, left |-> budget, next |-> NoCursor]
        ELSE LET s == S[k - 1] IN Turn(items, i, j, k, s)
  IN  S[Len(items)]

EntrySize(items, e) == items[e.item].head + Sum(items[e.item].parts, e.from + 1, e.upto)
SizeOf(items, out) ==
  LET S[k \in 0 .. Len(out)] == IF k = 0 THEN ENVELOPE_BYTES ELSE S[k - 1] + EntrySize(items, out[k])
  IN  S[Len(out)]

\* The answer of outline or hunks to a request for q at <<i, j>>.
Measured(items, filled) == [out |-> filled.out, next |-> filled.next, size |-> SizeOf(items, filled.out)]
Answer(q, i, j, max) ==
  LET Of(items) == Measured(items, Filled(items, i, j, max - ENVELOPE_BYTES)) IN Of(Items(q))

\* A fault of resume: a cursor is good for any review and selection.
ResumeAnything(q, c) ==
  c.item # 0 => c.item \in DOMAIN Items(q) /\ c.inner <= Len(Items(q)[c.item].parts)

\* resume: the cursor is of this patch and selection and points into it.
resume(q, c) ==
  c.item # 0 => /\ c.of = q
                /\ c.item \in DOMAIN Items(q)
                /\ c.inner = 0 \/ c.inner < Len(Items(q)[c.item].parts)

\* fit_emitted: the budget is lowered until what is emitted, `copies` times the view,
\* fits, or cannot be lowered any more.
fit_emitted(q, i, j, max, copies) ==
  LET Lowered(inner, emitted) ==
        IF emitted <= max THEN inner
        ELSE Max({MIN_MAX_BYTES, Min({(inner * max) \div emitted, inner - (inner \div 4)})})
      Inner[a \in 0 .. FIT_ATTEMPTS - 1] ==
        IF a = 0 THEN Max({MIN_MAX_BYTES, Min({max, max \div copies})})
        ELSE LET inner == Inner[a - 1] IN Lowered(inner, copies * Answer(q, i, j, inner).size)
  IN  Inner[FIT_ATTEMPTS - 1]
-----------------------------------------------------------------------------
\* What an entry shows: parts, and the head of a file whose entry begins with it.
Shown(q, at, from, upto) ==
  LET listed == [x \in 1 .. upto - from |-> <<at[1], at[2], from + x>>]
  IN  IF q.view = "outline" /\ from = 0 THEN <<<<at[1], 0, 0>>>> \o listed ELSE listed
Parts(q, items, out) ==
  FlattenSeq([k \in DOMAIN out |-> Shown(q, items[out[k].item].at, out[k].from, out[k].upto)])

\* An answer that is given.
Give(q, a, inner) ==
  /\ page' = [out |-> a.out, next |-> a.next, size |-> a.size, max |-> inner,
              over |-> \E k \in DOMAIN a.out : a.out[k].upto - a.out[k].from > 1]
  /\ got' = got \o Parts(q, Items(q), a.out)
  /\ ended' = (a.next = NoCursor)
  /\ place' = [of |-> q, item |-> a.next.item, inner |-> a.next.inner]

\* The client asks for the page at its cursor, under max bytes, of the review q: the one
\* it is after, or, by mistake, another.  A refused request changes nothing.
Ask(q, max, copies) ==
  LET i == IF place.item = 0 THEN 1 ELSE place.item
      j == place.inner
  IN  /\ ~ended
      /\ place.item = 0 => q = query
      /\ Known(Files(q.patch), q.sel) /\ resume(q, place)
      /\ \E inner \in {IF copies = 1 THEN max ELSE fit_emitted(q, i, j, max, copies)} :
           Give(q, Answer(q, i, j, inner), inner)
      /\ UNCHANGED query

VNext == \E q \in Queries, max \in MIN_MAX_BYTES .. MAX_MAX_BYTES, c \in Copies : Ask(q, max, c)
VSpec == VInit /\ [][VNext]_viewVars
-----------------------------------------------------------------------------
\* What the client is after, told without pages.
Selected(files, sel, u) ==
  CASE sel.by = "all" -> TRUE
    [] sel.by = "addresses" -> Contains(sel.names, files[u[1]].hunks[u[2]].address)
    [] sel.by = "paths" -> Contains(sel.names, files[u[1]].path)
AllHunks(files) == UNION {{f} \X DOMAIN files[f].hunks : f \in DOMAIN files}
Wanted ==
  LET files == Files(query.patch)
  IN  IF query.view = "outline"
      THEN UNION {{<<f, 0, h>> : h \in 0 .. Len(files[f].hunks)} : f \in DOMAIN files}
      ELSE UNION {{<<u[1], u[2], l>> : l \in DOMAIN files[u[1]].hunks[u[2]].lines} :
                  u \in {v \in AllHunks(files) : Selected(files, query.sel, v)}}

\* Whatever budgets the client asks under, the pages hold what it is after once, the
\* parts of an item in their order with nothing between them, and all of it at the end;
\* no page of another patch or selection is mixed in (views.rs: Filled, resume, select).
CoveredOnce ==
  /\ Cardinality(ToSet(got)) = Len(got)
  /\ ToSet(got) \subseteq Wanted
  /\ \A k \in DOMAIN got :
       got[k][3] > (IF query.view = "outline" THEN 0 ELSE 1) =>
         k > 1 /\ got[k - 1] = <<got[k][1], got[k][2], got[k][3] - 1>>
  /\ ended => ToSet(got) = Wanted

\* Every page moves on, and one over its budget holds a single part, which no budget
\* would have let in (views.rs:350-356, 440: "A page always makes progress").
PageFits ==
  page.max > 0 => /\ page.out # <<>> \/ Wanted = {}
                  /\ page.size <= page.max \/ (Len(page.out) = 1 /\ ~page.over)

\* A client that pages through a view gets all of it once, in pages that fit.
PagesCoverOnce == CoveredOnce /\ PageFits
=============================================================================
