------------------------------ MODULE MCCouncil ------------------------------
(***************************************************************************)
(* A council run from its preparation to its status, in four behaviours: a    *)
(* run being prepared, a sealed run being worked on, the mutation scope of    *)
(* one file, the launch of one gate.                                          *)
(***************************************************************************)
EXTENDS Council, CouncilPrepare, GateInputs

Member(f, p) == [family |-> f, persona |-> p]
MCRoster == ("ann" :> Member("openai", "correctness")) @@ ("ben" :> Member("anthropic", "falsifier"))
MCWatched == {ReviewJob("ann", "independent"), ReviewJob("ann", "challenge"), ReviewJob("ben", "challenge"),
              GateJob("fuzz"), TargetJob("t1"), GateJob("mutation"), Oracle, Vendor}
\* A clean report, one that asks for a gate, one that answers the others, one that is refused.
MCReports ==
    [j \in ReviewJobs |->
        {Clean, [Clean EXCEPT !.severity = "low", !.checks = {"fuzz"}], [Clean EXCEPT !.severity = "high"],
         [Clean EXCEPT !.answers = IF j[3] = "challenge" THEN Reviewers \ {j[2]} ELSE {}]}]
\* Any two of them, or three that are all reviews or all gates.
MCStillOpen == {open \in SUBSET MCWatched : \/ Cardinality(open) <= 2
                                            \/ Cardinality(open) = 3 /\ Cardinality({IsReview(j) : j \in open}) = 1}
Request(roster, profile, bounded) ==
    [roster |-> roster, profile |-> profile, bounded |-> bounded, repeatedId |-> FALSE]
Four == MCRoster @@ ("cid" :> Member("openai", "security")) @@ ("dot" :> Member("openai", "architecture"))
MCRequests == {Request(MCRoster, "roster", TRUE), Request(MCRoster, "important_decision", TRUE),
               Request(Four, "important_decision", TRUE), Request(MCRoster, "roster", FALSE),
               Request(("ann" :> Member("openai", "falsifier")), "roster", TRUE)}
MCPaths == <<"cand", "other">>

\* A code line, another one, a blank line, an attribute, one half of a comment over two lines.
SomeLines == {<<"x">>, <<"y", "'x'">>, <<"space">>, <<"#[", "x", "[", "]", "]">>, <<"/*", "x">>, <<"quote", "*/", "quote", "//">>}
MCNewFiles == UNION {[1..n -> SomeLines] : n \in 0..3}
MCOldFiles == UNION {[1..n -> {<<"x">>, <<"y", "'x'">>, <<"space">>, <<"#[", "x", "[", "]", "]">>}] : n \in 0..3}

MCInventories == SUBSET {<<"a">>, <<"rust-toolchain">>, <<"m", ".cargo", "config">>, <<"fuzz", "f">>,
                         <<"fuzz", "artifacts">>, <<"fuzz", "artifacts", "seed">>, <<"fuzz", "artifacts2">>}
Entry(p, k, n) == [path |-> p, kind |-> k, bytes |-> n]
MCTrees == {{Entry("d", "dir", 0), Entry("d/f", k, n)} \cup extra :
               k \in {"file", "executable", "symlink"}, n \in {2, 3}, extra \in {{}, {Entry("g", "file", 1)}}}

ControllerSymmetry == Permutations(Controllers)

BoxIdle == box = [inventory |-> {}, deleted |-> {}, gate |-> "tests", tree |-> {}]
RunIdle == CouncilIdle({}) /\ reader = [NewReader EXCEPT !.pc = "done"]
PrepareIdle == prep = [PrepareStart(Request(MCRoster, "roster", TRUE), NoTree) EXCEPT !.pc = "refused"]
MCInit ==
    \/ CouncilInit /\ PrepareIdle /\ ScopeIdle /\ BoxIdle
    \/ RunIdle /\ PrepareInit /\ ScopeIdle /\ BoxIdle
    \/ RunIdle /\ PrepareIdle /\ ScopeInit /\ BoxIdle
    \/ RunIdle /\ PrepareIdle /\ ScopeIdle /\ BoxInit
MCNext ==
    \/ prep.pc = "refused" /\ reader.pc # "done" /\ CouncilNext /\ UNCHANGED <<prep, scope, box>>
    \/ PrepareNext /\ UNCHANGED <<councilVars, scope, box>>
MCSpec == MCInit /\ [][MCNext]_<<councilVars, prep, scope, box>>
=============================================================================
