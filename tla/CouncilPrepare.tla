--------------------------- MODULE CouncilPrepare ---------------------------
(***************************************************************************)
(* council prepare: the captured text, the fingerprint and the sealed        *)
(* snapshot are taken from a workspace that someone may be editing.  Every    *)
(* pass over the tree reads one file at a time; a content is a version.       *)
(* `analysed' is the version of the candidate the analysis was made of.       *)
(***************************************************************************)
EXTENDS Integers, FiniteSets, Sequences

CONSTANTS Paths,          \* the inventory, in order: a sequence of paths
          Candidate,      \* the changed file among them
          Requests,       \* requests a caller may bring
          MaxPrepareEdits

VARIABLE prep
Versions == {1, 2}
analysed == 1
Files == {Paths[i] : i \in DOMAIN Paths}
NoTree == [f \in Files |-> 0]

\* The inventory is a set of paths, gone through in its order; a candidate that is not in it is refused.
ASSUME PrepareAssumption == /\ Paths \in Seq(Files) /\ Candidate \in Files
                            /\ \A i, k \in DOMAIN Paths : Paths[i] = Paths[k] => i = k

Personas == {"correctness", "security", "architecture", "falsifier"}

(***************************************************************************)
(* A request: its roster as a function from ids to a family and a persona    *)
(* (a list with an id twice is refused), the profile, and whether its        *)
(* budgets, scopes and names are within bounds.                              *)
(***************************************************************************)
validate_request(q) ==
    /\ Cardinality(DOMAIN q.roster) \in 2..12
    /\ q.bounded /\ ~q.repeatedId
    /\ Cardinality({q.roster[r].family : r \in DOMAIN q.roster}) >= 2
    /\ q.profile = "important_decision" => Personas \subseteq {q.roster[r].persona : r \in DOMAIN q.roster}

PrepareStart(q, live) ==
    [pc |-> "request", at |-> 1, live |-> live, before |-> NoTree, after |-> NoTree, text |-> 0,
     snapshot |-> NoTree, dir |-> "absent", request |-> q, edits |-> 0, touched |-> 0, mutation_diff |-> NoTree]
Refuse == prep' = [prep EXCEPT !.pc = "refused"]
\* A refusal after the directory was made removes it.
RefuseRemoving == prep' = [prep EXCEPT !.pc = "refused", !.dir = "absent"]

Admit ==
    /\ prep.pc = "request"
    /\ IF validate_request(prep.request) THEN prep' = [prep EXCEPT !.pc = "before", !.at = 1] ELSE Refuse

\* One file of a pass over the inventory; the last one ends the pass.
ReadInto(t, next) == IF prep.at = Len(Paths) THEN [t EXCEPT !.pc = next, !.at = 1] ELSE [t EXCEPT !.at = @ + 1]
fingerprint_tree ==
    LET f == Paths[prep.at]
    IN  \/ prep.pc = "before" /\ prep' = ReadInto([prep EXCEPT !.before[f] = prep.live[f]], "capture")
        \/ prep.pc = "after" /\ prep' = ReadInto([prep EXCEPT !.after[f] = prep.live[f]], "compare")

\* The candidate's bytes are captured and must be the ones that were analysed; a file the analysis
\* did not cover whole is refused for an important decision.
verify_analysis(complete) == prep.request.profile = "important_decision" => complete
verify_candidate == prep.live[Candidate] = analysed
Capture(complete) ==
    /\ prep.pc = "capture"
    /\ IF verify_analysis(complete) /\ verify_candidate
       THEN prep' = [prep EXCEPT !.pc = "after", !.text = prep.live[Candidate]]
       ELSE Refuse

Compare(baseIsAncestor) ==
    /\ prep.pc = "compare"
    /\ IF prep.after = prep.before /\ baseIsAncestor
       THEN prep' = [prep EXCEPT !.pc = "copy", !.dir = "made"]
       ELSE Refuse

copy_tree ==
    LET f == Paths[prep.at]
    IN  prep.pc = "copy" /\ prep' = ReadInto([prep EXCEPT !.snapshot[f] = prep.live[f]], "seal")

\* Mutant: the copy is sealed without being fingerprinted.
SealUnverified == TRUE
SnapshotVerified == prep.snapshot = prep.before
seal_run(readable) ==
    /\ prep.pc = "seal"
    /\ IF SnapshotVerified /\ readable
       THEN prep' = [prep EXCEPT !.pc = "done", !.dir = "sealed", !.mutation_diff = prep.snapshot]
       ELSE RefuseRemoving

\* A preparation that dies leaves a directory without a manifest, which nothing loads.
PrepareCrash == prep.pc \notin {"done", "refused"} /\ Refuse

EditFile(f) ==
    /\ prep.pc \notin {"done", "refused", "request"} /\ prep.edits < MaxPrepareEdits
    /\ \E v \in Versions \ {prep.live[f]} :
          prep' = [prep EXCEPT !.live[f] = v, !.edits = @ + 1, !.touched = @ + (IF f = Candidate THEN 1 ELSE 0)]

PrepareInit == \E q \in Requests, live \in [Files -> Versions] : prep = PrepareStart(q, live)
PrepareNext ==
    \/ Admit \/ fingerprint_tree \/ copy_tree \/ PrepareCrash
    \/ \E ok \in BOOLEAN : Capture(ok) \/ Compare(ok) \/ seal_run(ok)
    \/ \E f \in Files : EditFile(f)
PrepareSpec == PrepareInit /\ [][PrepareNext]_prep

(***************************************************************************)
(* A sealed run reviews and tests the same bytes: the snapshot the gates run  *)
(* on (and the mutation scope read from it) is the tree the manifest names,   *)
(* file for file, and the candidate text the reviewers are shown is that      *)
(* snapshot's, unless the candidate was edited and put back (or put forward   *)
(* and back) while the run was prepared: two edits of it, which the two       *)
(* fingerprints cannot see.                                                   *)
(***************************************************************************)
SealedTogether ==
    prep.dir = "sealed" =>
        /\ prep.snapshot = prep.before /\ prep.mutation_diff = prep.snapshot
        /\ prep.touched < 2 => prep.text = prep.snapshot[Candidate]

=============================================================================
