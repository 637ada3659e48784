------------------------------ MODULE Findings ------------------------------
(***************************************************************************)
(* Verified agent findings, crates/deep-diff-forge-agent/src/findings.rs:    *)
(* what agents say they found, checked one by one for where it points, and   *)
(* the notes the cockpit shows of what is accepted.                         *)
(*                                                                         *)
(* A finding is a record of its fields as given, one that may be left out a  *)
(* set of at most one; an untrusted text is what it says and whether it      *)
(* carries characters that are not shown.  A hunk's address is what it       *)
(* hashes: the path, the ranges and the body.                               *)
(***************************************************************************)
EXTENDS Integers, Sequences, FiniteSets, FiniteSetsExt

CONSTANTS
    Reviews,      \* the reviews: sequences of sections, each a path and its hunks
    GivenFindings,
    MAX_FINDINGS,
    MaxGiven      \* bound: the findings of a file

\* A review is numbered from one, and what a finding may leave out is there at most once.
ASSUME FindingValues ==
    /\ MAX_FINDINGS \in Nat
    /\ \A review \in Reviews : \A f \in DOMAIN review :
          /\ f \in Nat \ {0}
          /\ \A h \in DOMAIN review[f].hunks : h \in Nat \ {0} /\ DOMAIN review[f].hunks[h].lines \subseteq Nat
    /\ \A found \in GivenFindings :
          /\ found.blank \in BOOLEAN
          /\ \A p, q \in found.path : p = q

VARIABLES sections, \* the review
          given,    \* the lines of the findings file so far
          verdict   \* Verdict, and the findings counted

findingsVars == <<sections, given, verdict>>
-----------------------------------------------------------------------------
address(path, hunk) == [path |-> path, ranges |-> hunk.ranges, body |-> hunk.lines]

\* The hunks of the review with their section, in review order.
Before(p, q) == p[1] < q[1] \/ (p[1] = q[1] /\ p[2] < q[2])
Places == UNION {{<<f, h>> : h \in DOMAIN sections[f].hunks} : f \in DOMAIN sections}
HunkAt(p) == sections[p[1]].hunks[p[2]]
AddressAt(p) == address(sections[p[1]].path, HunkAt(p))
First(places) == CHOOSE p \in places : \A q \in places : p = q \/ Before(p, q)

\* A fault of line_in: a number is looked for on both sides.
EitherSide(hunk, side, number) == {l \in DOMAIN hunk.lines : number \in {hunk.lines[l].new, hunk.lines[l].old}}
\* The lines of a hunk with that number on that side: at most one.
line_in(hunk, side, number) ==
    {l \in DOMAIN hunk.lines : number = IF side = "new" THEN hunk.lines[l].new ELSE hunk.lines[l].old}
AcceptedLine(hunk, side, number) ==
    LET line == hunk.lines[Min(line_in(hunk, side, number))]
    IN  [side |-> side, number |-> number, kind |-> line.kind, text |-> line.text]

Refused(why) == [refusal |-> why]
Resolved(path, anchor, place) == [refusal |-> "none", path |-> path, anchor |-> anchor, place |-> place]
PathOfSection(named) == sections[Min(named)].path
resolve(found) ==
    LET places == {p \in Places : AddressAt(p) \in found.address}
        named == {f \in DOMAIN sections : sections[f].path \in found.path}
        holding == {p \in Places : p[1] \in named /\ \E n \in found.line : line_in(HunkAt(p), found.side, n) # {}}
    IN  IF found.address # {}
        THEN IF places # {} /\ found.path \subseteq {sections[First(places)[1]].path}
             THEN Resolved(sections[First(places)[1]].path, "address", First(places))
             ELSE Refused("unknown_address")
        ELSE IF named = {} THEN Refused("unknown_path")
        ELSE IF found.line = {} THEN Resolved(PathOfSection(named), "file", <<0, 0>>)
        ELSE IF holding = {} THEN Refused("line_outside_hunk")
        ELSE Resolved(PathOfSection(named), "line", First(holding))

\* sanitize_body: what is not shown is dropped.
clean(text) == text.says

check(found) ==
    IF ~found.wellFormed \/ found.agent = [says |-> "", hidden |-> FALSE] \/ (found.address = {} /\ found.path = {})
    THEN Refused("malformed")
    ELSE IF ~(found.review \subseteq {"this"}) THEN Refused("stale_review")
    ELSE IF found.long THEN Refused("too_long")
    ELSE LET at == resolve(found) IN
         IF at.refusal # "none" THEN at
         ELSE IF \E n \in found.line : at.place = <<0, 0>> \/ line_in(HunkAt(at.place), found.side, n) = {}
         THEN Refused("line_outside_hunk")
         ELSE [refusal |-> "none", agent |-> clean(found.agent), title |-> clean(found.title),
               path |-> at.path, anchor |-> at.anchor,
               address |-> {AddressAt(p) : p \in {at.place} \ {<<0, 0>>}},
               line |-> {AcceptedLine(HunkAt(at.place), found.side, n) : n \in found.line}]

DuplicateKey(a) ==
    [agent |-> a.agent, title |-> a.title, path |-> a.path, address |-> a.address,
     line |-> {<<l.side, l.number>> : l \in a.line}]

FindingsInit ==
    /\ sections \in Reviews
    /\ given = <<>>
    /\ verdict = [accepted |-> <<>>, refused |-> <<>>, overLimit |-> 0, index |-> 0]

\* The verdict with one more finding, checked.
Judge(found, checked) ==
    LET seen == {DuplicateKey(verdict.accepted[k].found) : k \in DOMAIN verdict.accepted}
        Refuse(why) == [verdict EXCEPT !.refused = Append(@, [index |-> verdict.index, reason |-> why]), !.index = @ + 1]
    IN  IF found.blank THEN verdict
        ELSE IF verdict.index >= MAX_FINDINGS THEN [verdict EXCEPT !.overLimit = @ + 1]
        ELSE IF checked.refusal # "none" THEN Refuse(checked.refusal)
        ELSE IF DuplicateKey(checked) \in seen THEN Refuse("duplicate")
        ELSE [verdict EXCEPT !.accepted = Append(@, [index |-> verdict.index, found |-> checked]), !.index = @ + 1]
\* One line of the file.
verify(found) ==
    /\ Len(given) < MaxGiven
    /\ given' = Append(given, found)
    /\ verdict' = Judge(found, check(found))
    /\ UNCHANGED sections

FindingsNext == \E found \in GivenFindings : verify(found)
FindingsSpec == FindingsInit /\ [][FindingsNext]_findingsVars

\* annotations: the note of an accepted finding, at the first hunk of its path with its address.
SystemAgent == <<"deep-diff-forge/system">>
annotation(a) ==
    LET places == {p \in Places : sections[p[1]].path = a.found.path /\ AddressAt(p) \in a.found.address}
    IN  [id |-> <<"finding", a.found.agent, a.index>>, hunk |-> IF places = {} THEN <<0, 0>> ELSE First(places),
         agent |-> <<"agent:", a.found.agent>>, grounded |-> FALSE]
source_of(note) == IF note.agent = SystemAgent THEN "system" ELSE "agent"
-----------------------------------------------------------------------------
\* What is accepted is where it says, however often the review names a path or repeats a hunk: every
\* finding is counted once, nothing is accepted of another review or twice, and the note of an
\* accepted finding is at a hunk of its path that holds the line it names, on its side and with its
\* text, under an id of its own and never as the engine's (findings.rs verify, resolve, annotations).
NotesPointTrue ==
    LET real == {k \in DOMAIN given : ~given[k].blank}
        accepted == verdict.accepted
        Note(k) == annotation(accepted[k])
    IN  /\ Len(accepted) + Len(verdict.refused) + verdict.overLimit = Cardinality(real)
        /\ {accepted[k].index : k \in DOMAIN accepted} \cup {verdict.refused[k].index : k \in DOMAIN verdict.refused}
             = 0 .. Min({Cardinality(real), MAX_FINDINGS}) - 1
        /\ \A k \in DOMAIN accepted : LET a == accepted[k].found IN
              /\ (a.address = {}) <=> (Note(k).hunk = <<0, 0>>)
              /\ \A line \in a.line : \E l \in DOMAIN HunkAt(Note(k).hunk).lines :
                    LET shown == HunkAt(Note(k).hunk).lines[l] IN
                    /\ line.number = IF line.side = "new" THEN shown.new ELSE shown.old
                    /\ line.text = shown.text /\ line.kind = shown.kind
              /\ source_of(Note(k)) = "agent" /\ ~Note(k).grounded
              /\ \A j \in DOMAIN accepted \ {k} : Note(j).id # Note(k).id /\ DuplicateKey(accepted[j].found) # DuplicateKey(a)
=============================================================================
