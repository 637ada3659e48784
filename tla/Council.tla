------------------------------- MODULE Council -------------------------------
(***************************************************************************)
(* One sealed run of the review council: controllers run reviewers and gates *)
(* into write-once job slots, someone edits the workspace, imports a report  *)
(* by hand, asks for the status, and a controller can be killed between any  *)
(* two files it writes.                                                      *)
(*                                                                           *)
(* The run directory is `slots' (one write-once directory for each job, its  *)
(* execution receipt, its refusal marker and its qualification), `reports'   *)
(* and `lock' (controller.lock).  `fresh' says that the workspace has the     *)
(* tree the run was sealed with.  A file a controller dies writing is "torn". *)
(* What really happened is kept beside it: `worked' are the jobs whose        *)
(* process ended well after doing its work, `shown' what a challenge's prompt *)
(* contained, `imported' the reports a hand wrote.                            *)
(***************************************************************************)
EXTENDS Integers, FiniteSets, Sequences, SequencesExt

CONSTANTS Reviewers,     \* ids of the reviewers of the run
          Targets,       \* fuzz targets of the request
          Profile,       \* "roster" or "important_decision"
          Controllers,
          Roster,        \* the roster and
          Builder,       \* the builder's family, of the sealed request
          MaxEdits,      \* edits of the workspace
          MaxStarts,     \* commands started
          Watched,       \* the jobs that may still be to do at the start (the others have passed)
          StillOpen,     \* and the sets of them that are
          Reports        \* by review job, the reports a provider or a hand may bring

(***************************************************************************)
(* What the council admits and how it reaches a verdict: the rules for a     *)
(* provider's report, and the assessment of what a run directory holds.  A   *)
(* reviewer has at most one finding, so a finding is named by its owner;     *)
(* lengths, citations and identities that are in or out of bounds are one    *)
(* flag, `sound'.                                                            *)
(***************************************************************************)

Rounds == {"independent", "challenge"}
Required(profile) == {"format", "check", "clippy", "pedantic", "tests", "antipatterns"}
                         \cup (IF profile = "important_decision" THEN {"fuzz", "mutation"} ELSE {})

ReviewJob(r, round) == <<"review", r, round>>
GateJob(g) == <<"gate", g>>
TargetJob(t) == <<"gate-fuzz", t>>
ReviewJobs == {ReviewJob(r, round) : r \in Reviewers, round \in Rounds}
AllGates == Required("important_decision")

(***************************************************************************)
(* A report is [verdict, severity, checks, answers, needs_test, sound]: the  *)
(* severity of its finding ("none": it has none), the gates the finding asks *)
(* for, the owners whose findings it answers and those of them it wants      *)
(* tested.  The severities high and critical are one, and so are the lower.  *)
(***************************************************************************)
Report == [verdict : {"no_blockers", "changes_requested", "abstain"}, severity : {"none", "low", "high"},
           checks : SUBSET AllGates, answers : SUBSET Reviewers, needs_test : SUBSET Reviewers, sound : BOOLEAN]

\* The fuzz scope of a request is explicit and not empty; what is brought has the form of a report.
ASSUME CouncilAssumption == /\ IsFiniteSet(Targets) /\ Targets # {}
                            /\ Reports \in [ReviewJobs -> SUBSET Report]

validate_report(round, report) ==
    /\ report.sound
    /\ ~(report.verdict = "no_blockers" /\ report.severity = "high")
    /\ round = "independent" => report.answers = {}

check_execution(receipts, job) == job \in DOMAIN receipts /\ receipts[job].outcome = "passed"
                                                          /\ receipts[job].fresh
                                                          /\ receipts[job].exit_zero

check_challenge(reports, r) ==
    LET needed == {o \in Reviewers \ {r} : /\ ReviewJob(o, "independent") \in DOMAIN reports
                                           /\ reports[ReviewJob(o, "independent")].severity # "none"}
        mine == reports[ReviewJob(r, "challenge")]
    IN  mine.answers = needed /\ mine.needs_test = {}

check_lineage(roster, builder) == \E r \in DOMAIN roster : roster[r].family # builder

\* No reason to hold: the only way to be ready for the human.
assess(reports, receipts, treeUnchanged, lineage) ==
    /\ treeUnchanged
    /\ \A r \in Reviewers, round \in Rounds :
          /\ check_execution(receipts, ReviewJob(r, round))
          /\ ReviewJob(r, round) \in DOMAIN reports
          /\ reports[ReviewJob(r, round)].verdict = "no_blockers"
          /\ round = "challenge" => check_challenge(reports, r)
    /\ \A g \in Required(Profile) \cup UNION {reports[j].checks : j \in DOMAIN reports} :
          check_execution(receipts, GateJob(g))
    /\ lineage
    /\ \A r \in Reviewers : ReviewJob(r, "independent") \in DOMAIN reports
                               => reports[ReviewJob(r, "independent")].severity # "high"
-----------------------------------------------------------------------------
(* The run *)

VARIABLES slots, reports, lock, fresh, edits, starts, ctl, reader, worked, shown, imported
councilVars == <<slots, reports, lock, fresh, edits, starts, ctl, reader, worked, shown, imported>>

Vendor == <<"sandbox-vendor">>
Oracle == <<"sandbox-exemption-oracle">>
Gates == Required(Profile)
\* With one fuzz target the gate is its only job; with more each has its own and an aggregate.
FuzzJobs == IF Cardinality(Targets) = 1 THEN {GateJob("fuzz")} ELSE {TargetJob(t) : t \in Targets}
Aggregated == Cardinality(Targets) > 1
Jobs == ReviewJobs \cup {GateJob(g) : g \in AllGates} \cup FuzzJobs \cup {Vendor, Oracle}
IsReview(j) == j[1] = "review"
\* The jobs that can end well without having done their work.
Measurable == {GateJob(g) : g \in {"mutation", "tests", "antipatterns"}} \cup FuzzJobs \cup {Vendor}

Free == [dir |-> FALSE, receipt |-> "none", refusal |-> "none", qualification |-> "none"]
Idle == [pc |-> "idle", todo |-> <<>>, job |-> Vendor, prior |-> {}, result |-> "none", gate |-> "none"]
NoReport == [verdict |-> "none"]
TornReport == [verdict |-> "torn"]

(***************************************************************************)
(* Asking for a job.  The manifest and the reports are read before the lock   *)
(* is taken; a challenge needs every independent report.                      *)
(***************************************************************************)
Independent == {r \in Reviewers : reports[ReviewJob(r, "independent")] # NoReport}
AllIndependent == Independent = Reviewers
run_reviewer(c, r, round) ==
    /\ ctl[c].pc = "idle" /\ starts < MaxStarts /\ starts' = starts + 1
    /\ round = "challenge" => AllIndependent
    /\ \A j \in ReviewJobs : reports[j] # TornReport
    /\ ctl' = [ctl EXCEPT ![c] = [Idle EXCEPT !.pc = "admit", !.todo = <<ReviewJob(r, round)>>,
                                   !.prior = {<<o, reports[ReviewJob(o, "independent")]>> :
                                                 o \in IF round = "challenge" THEN Independent \ {r} ELSE {}}]]
    /\ UNCHANGED <<slots, reports, lock, fresh, edits, reader, worked, shown, imported>>

gate_argv(g) == IF g = "fuzz" THEN SetToSeq(FuzzJobs) ELSE <<GateJob(g)>>
run_gate(c, g) ==
    /\ ctl[c].pc = "idle" /\ starts < MaxStarts /\ starts' = starts + 1
    /\ ctl' = [ctl EXCEPT ![c] = [Idle EXCEPT !.pc = "admit", !.gate = g,
                 !.todo = (IF g = "antipatterns" THEN <<>> ELSE <<Vendor>>)
                             \o (IF g = "mutation" THEN <<Oracle>> ELSE <<>>) \o gate_argv(g)]]
    /\ UNCHANGED <<slots, reports, lock, fresh, edits, reader, worked, shown, imported>>

\* The lock is created new; a workspace that has changed gives it back.
admit(c) ==
    /\ ctl[c].pc = "admit"
    /\ IF lock = "free" /\ fresh
       THEN lock' = c /\ ctl' = [ctl EXCEPT ![c].pc = "next"]
       ELSE lock' = lock /\ ctl' = [ctl EXCEPT ![c] = Idle]
    /\ UNCHANGED <<slots, reports, fresh, edits, starts, reader, worked, shown, imported>>

Release(c) == lock' = "free" /\ ctl' = [ctl EXCEPT ![c] = Idle]

(***************************************************************************)
(* The next job.  The vendoring and the oracle run once for a run: a slot     *)
(* that is there is only read, and anything but a pass ends the gate.         *)
(***************************************************************************)
Earlier(c) ==
    LET j == Head(ctl[c].todo)
        s == slots[j]
    IN  /\ ctl[c].pc = "next" /\ ctl[c].todo # <<>>
        /\ j \in {Vendor, Oracle} /\ s.dir
        /\ IF s.qualification = "passed" /\ (j = Vendor => s.refusal = "none")
           THEN lock' = lock /\ ctl' = [ctl EXCEPT ![c].todo = Tail(@)]
           ELSE Release(c)
        /\ UNCHANGED <<slots, reports, fresh, edits, starts, reader, worked, shown, imported>>

\* The tree is checked again before every slot, and the slot is a new directory.
CanBegin(c, j) == fresh /\ ~slots[j].dir
Begin(c) ==
    LET j == Head(ctl[c].todo)
    IN  /\ ctl[c].pc = "next" /\ ctl[c].todo # <<>>
        /\ ~(j \in {Vendor, Oracle} /\ slots[j].dir)
        /\ IF CanBegin(c, j)
           THEN /\ slots' = [slots EXCEPT ![j].dir = TRUE]
                /\ ctl' = [ctl EXCEPT ![c].pc = "run", ![c].todo = Tail(@), ![c].job = j]
                /\ shown' = [shown EXCEPT ![j] = ctl[c].prior]
                /\ lock' = lock
           ELSE Release(c) /\ UNCHANGED <<slots, shown>>
        /\ UNCHANGED <<reports, fresh, edits, starts, reader, worked, imported>>

(***************************************************************************)
(* The process ends, is stopped at a limit, or never starts.  A provider is   *)
(* judged by the workspace, a gate by its private copy, which it cannot       *)
(* write.  A container that cannot be shown to be gone leaves a refusal.      *)
(***************************************************************************)
supervise == {"passed", "failed", "stopped", "unavailable"}   \* stopped: timed out, or its output too long
remove(outcome, gone) == IF ~gone /\ outcome = "passed" THEN "inconclusive" ELSE outcome
run(c, outcome, didWork, gone) ==
    LET j == ctl[c].job
        after == IF IsReview(j) /\ ~fresh THEN "stale" ELSE remove(outcome, gone)
    IN  /\ ctl[c].pc = "run"
        /\ IsReview(j) => gone
        /\ slots' = [slots EXCEPT ![j].receipt = after, ![j].refusal = IF gone THEN @ ELSE "inconclusive"]
        /\ j \notin Measurable \cup {Oracle} => didWork
        /\ worked' = IF after = "passed" /\ didWork THEN worked \cup {j} ELSE worked
        /\ ctl' = [ctl EXCEPT ![c].pc = "judge", ![c].result = after]
        /\ UNCHANGED <<reports, lock, fresh, edits, starts, reader, shown, imported>>

(***************************************************************************)
(* The judgement.  A provider that passed has its answer parsed, validated    *)
(* and written, a new file; anything else is a protocol error.  A gate that   *)
(* passed without measuring its work is inconclusive; vendored output that    *)
(* cannot be sealed too; the oracle passes only with a verdict that says so.  *)
(***************************************************************************)
provider_report(j, report) == validate_report(j[3], report) /\ reports[j] = NoReport
JudgeReview(c, report) ==
    LET j == ctl[c].job
    IN  /\ ctl[c].pc = "judge" /\ IsReview(j)
        /\ IF ctl[c].result # "passed"
           THEN Release(c) /\ UNCHANGED <<slots, reports>>   \* no qualification is written
           ELSE /\ lock' = lock
                /\ IF provider_report(j, report)
                   THEN reports' = [reports EXCEPT ![j] = report] /\ slots' = slots
                        /\ ctl' = [ctl EXCEPT ![c].pc = "qualify"]
                   ELSE reports' = reports /\ slots' = [slots EXCEPT ![j].refusal = "failed"]
                        /\ ctl' = [ctl EXCEPT ![c].pc = "qualify", ![c].result = "failed"]
        /\ UNCHANGED <<fresh, edits, starts, reader, worked, shown, imported>>

qualify_gate(c) ==
    LET j == ctl[c].job
        passed == ctl[c].result = "passed"
        lowered == IF j = Oracle THEN ~(passed /\ j \in worked)
                                 ELSE passed /\ j \in Measurable /\ j \notin worked
        verdict == IF j = Oracle THEN "failed" ELSE "inconclusive"
    IN  /\ ctl[c].pc = "judge" /\ ~IsReview(j)
        \* A refusal marker is a new file: a second one is an error, and the job gets no qualification.
        /\ IF lowered /\ slots[j].refusal # "none"
           THEN slots' = slots /\ Release(c)
           ELSE /\ slots' = [slots EXCEPT ![j].refusal = IF lowered THEN "inconclusive" ELSE @]
                /\ ctl' = [ctl EXCEPT ![c].pc = "qualify", ![c].result = IF lowered THEN verdict ELSE @]
                /\ lock' = lock
        /\ UNCHANGED <<reports, fresh, edits, starts, reader, worked, shown, imported>>

Qualify(c) ==
    /\ ctl[c].pc = "qualify"
    /\ slots' = [slots EXCEPT ![ctl[c].job].qualification = ctl[c].result]
    /\ IF ctl[c].job \in {Vendor, Oracle} /\ ctl[c].result # "passed"
       THEN Release(c)
       ELSE lock' = lock /\ ctl' = [ctl EXCEPT ![c].pc = "next"]
    /\ UNCHANGED <<reports, fresh, edits, starts, reader, worked, shown, imported>>

\* The targets of the fuzz gate are summed up: never the first success alone.
FuzzOutcome == IF \A j \in FuzzJobs : slots[j].qualification = "passed" THEN "passed" ELSE "failed"
AtAggregate(c) == /\ ctl[c].pc = "next" /\ ctl[c].todo = <<>>
                  /\ ctl[c].gate = "fuzz" /\ Aggregated /\ ~slots[GateJob("fuzz")].dir
AggregateLeft(text) == [slots EXCEPT ![GateJob("fuzz")].dir = TRUE, ![GateJob("fuzz")].receipt = text]
Finish(c) ==
    /\ ctl[c].pc = "next" /\ ctl[c].todo = <<>>
    /\ Release(c)
    /\ slots' = IF AtAggregate(c) THEN AggregateLeft(FuzzOutcome) ELSE slots
    /\ UNCHANGED <<reports, fresh, edits, starts, reader, worked, shown, imported>>

(***************************************************************************)
(* A controller dies; the file it was writing may be there and incomplete.    *)
(* Its lock stays until the operator removes it (the code has no command for  *)
(* that).                                                                     *)
(***************************************************************************)
Crash(c, torn) ==
    LET j == ctl[c].job
    IN  /\ lock = c /\ ctl[c].pc # "dead"
        /\ ctl' = [ctl EXCEPT ![c] = [Idle EXCEPT !.pc = "dead"]]
        /\ reports' = IF torn /\ ctl[c].pc = "judge" /\ IsReview(j) /\ ctl[c].result = "passed" /\ reports[j] = NoReport
                      THEN [reports EXCEPT ![j] = TornReport] ELSE reports
        /\ \/ ~torn /\ slots' = slots
           \/ torn /\ ctl[c].pc = "run" /\ slots' = [slots EXCEPT ![j].receipt = "torn"]
           \/ torn /\ ctl[c].pc = "judge" /\ slots' = slots
           \/ torn /\ ctl[c].pc = "qualify" /\ slots' = [slots EXCEPT ![j].qualification = "torn"]
           \/ torn /\ AtAggregate(c) /\ \E text \in {"none", "torn"} : slots' = AggregateLeft(text)
        /\ UNCHANGED <<lock, fresh, edits, starts, reader, worked, shown, imported>>
RemoveLock ==
    /\ lock # "free" /\ ctl[lock].pc = "dead"
    /\ lock' = "free" /\ ctl' = [ctl EXCEPT ![lock] = Idle]
    /\ UNCHANGED <<slots, reports, fresh, edits, starts, reader, worked, shown, imported>>

Edit ==
    /\ edits < MaxEdits
    /\ edits' = edits + 1 /\ fresh' \in BOOLEAN
    /\ UNCHANGED <<slots, reports, lock, starts, ctl, reader, worked, shown, imported>>

(***************************************************************************)
(* A report brought in by hand: no lock is taken, so the slot may be          *)
(* qualified between the check and the write of the (new) file.               *)
(***************************************************************************)
import(c, j, report) ==
    /\ ctl[c].pc = "idle" /\ starts < MaxStarts /\ starts' = starts + 1
    /\ validate_report(j[3], report) /\ slots[j].qualification = "none" /\ fresh
    /\ ctl' = [ctl EXCEPT ![c] = [Idle EXCEPT !.pc = "import", !.job = j, !.prior = {<<j[2], report>>}]]
    /\ UNCHANGED <<slots, reports, lock, fresh, edits, reader, worked, shown, imported>>
ImportWrite(c) ==
    LET j == ctl[c].job
    IN  /\ ctl[c].pc = "import"
        /\ IF reports[j] = NoReport
           THEN \E p \in ctl[c].prior : reports' = [reports EXCEPT ![j] = p[2]] /\ imported' = imported \cup {j}
           ELSE UNCHANGED <<reports, imported>>
        /\ ctl' = [ctl EXCEPT ![c] = Idle]
        /\ UNCHANGED <<slots, lock, fresh, edits, starts, reader, worked, shown>>

(***************************************************************************)
(* council status: the reports, the receipts, the workspace and the lock are  *)
(* read one after the other.                                                  *)
(***************************************************************************)
\* Mutant: a receipt without its qualification counts as it was written.
ReceiptAsRun(j) == IF slots[j].qualification # "none" THEN slots[j].qualification ELSE slots[j].receipt
\* What the slot of a job says: a qualification settles the outcome, without one a pass is not
\* one, and neither restores a pass over a refusal.
receipt(j) ==
    LET s == slots[j]
        aggregate == j = GateJob("fuzz") /\ Aggregated
        settled == IF s.qualification # "none" THEN s.qualification
                   ELSE IF s.receipt = "passed" /\ ~aggregate THEN "inconclusive" ELSE s.receipt
    IN  IF settled = "passed" /\ s.refusal # "none" THEN s.refusal ELSE settled
executions ==
    LET found == {j \in Jobs : slots[j].receipt # "none"}
    IN  [j \in found |->
            [outcome |-> IF j = GateJob("fuzz") /\ Aggregated
                         THEN IF \A t \in FuzzJobs : t \in found /\ receipt(t) = "passed" THEN "passed" ELSE "inconclusive"
                         ELSE receipt(j),
             fresh |-> slots[j].receipt # "stale", exit_zero |-> slots[j].receipt # "failed"]]

\* A file that cannot be parsed fails the command.
Readable == \A j \in Jobs : slots[j].receipt # "torn" /\ (slots[j].receipt = "none" \/ slots[j].qualification # "torn")
ReadReports ==
    /\ reader.pc = "reports" /\ starts = MaxStarts
    /\ reader' = IF \E j \in ReviewJobs : reports[j] = TornReport
                 THEN [reader EXCEPT !.pc = "done"] ELSE [reader EXCEPT !.pc = "receipts", !.reports = reports]
    /\ UNCHANGED <<slots, reports, lock, fresh, edits, starts, ctl, worked, shown, imported>>
ReadReceipts ==
    /\ reader.pc = "receipts"
    /\ reader' = IF ~Readable THEN [reader EXCEPT !.pc = "done"]
                 ELSE [reader EXCEPT !.pc = "lock",
                         !.ready = LET there == {j \in ReviewJobs : reader.reports[j] # NoReport}
                                   IN  assess([j \in there |-> reader.reports[j]], executions, fresh,
                                              check_lineage(Roster, Builder)),
                         !.fresh = fresh]
    /\ UNCHANGED <<slots, reports, lock, fresh, edits, starts, ctl, worked, shown, imported>>
ReadLock ==
    /\ reader.pc = "lock"
    /\ reader' = [reader EXCEPT !.pc = "done", !.ready = @ /\ lock = "free"]
    /\ UNCHANGED <<slots, reports, lock, fresh, edits, starts, ctl, worked, shown, imported>>
NewReader == [pc |-> "reports", reports |-> [j \in ReviewJobs |-> NoReport], ready |-> FALSE, fresh |-> FALSE]

\* The report of a reviewer who found nothing.
Clean == [verdict |-> "no_blockers", severity |-> "none", checks |-> {}, answers |-> {}, needs_test |-> {},
          sound |-> TRUE]
Passed(j) == [dir |-> TRUE, receipt |-> "passed", refusal |-> "none",
              qualification |-> IF Aggregated /\ j = GateJob("fuzz") THEN "none" ELSE "passed"]
CouncilIdle(open) ==
    /\ slots = [j \in Jobs |-> IF j \in open THEN Free ELSE Passed(j)]
    /\ reports = [j \in ReviewJobs |-> IF j \in open THEN NoReport ELSE Clean]
    /\ worked = Jobs \ open
    /\ shown = [j \in Jobs |-> IF j[1] = "review" /\ j \notin open /\ j[3] = "challenge"
                               THEN {<<r, Clean>> : r \in Reviewers \ {j[2]}} ELSE {}]
    /\ lock = "free" /\ fresh = TRUE /\ edits = 0 /\ starts = 0 /\ imported = {}
    /\ ctl = [c \in Controllers |-> Idle]
\* An aggregate is written after its targets and a challenge after the independent round, so a
\* run can stand with these slots empty.
Standing(open) ==
    /\ open \cap FuzzJobs # {} => GateJob("fuzz") \in open
    /\ Vendor \in open => {GateJob(g) : g \in AllGates \ {"antipatterns"}} \cap Watched \subseteq open
    /\ Oracle \in open => GateJob("mutation") \in open
    /\ \A r \in Reviewers : ReviewJob(r, "independent") \in open =>
          \A o \in Reviewers : ReviewJob(o, "challenge") \in open
CouncilInit ==
    /\ \E open \in StillOpen : Standing(open) /\ CouncilIdle(open)
    /\ reader = NewReader
CouncilNext ==
    \/ \E c \in Controllers :
          \/ \E j \in Watched \cap ReviewJobs : run_reviewer(c, j[2], j[3])
          \/ \E g \in AllGates : GateJob(g) \in Watched /\ run_gate(c, g)
          \/ \E j \in Watched \cap ReviewJobs : \E report \in Reports[j] : import(c, j, report)
          \/ admit(c) \/ Earlier(c) \/ Begin(c)
          \/ \E o \in supervise, w, gone \in BOOLEAN : run(c, o, w, gone)
          \/ ctl[c].pc = "judge" /\ IsReview(ctl[c].job)
                /\ \E report \in Reports[ctl[c].job] : JudgeReview(c, report)
          \/ qualify_gate(c) \/ Qualify(c) \/ Finish(c) \/ ImportWrite(c)
          \/ \E torn \in BOOLEAN : Crash(c, torn)
    \/ RemoveLock \/ Edit
    \/ ReadReports \/ ReadReceipts \/ ReadLock
CouncilSpec == CouncilInit /\ [][CouncilNext]_councilVars

-----------------------------------------------------------------------------
(***************************************************************************)
(* status answers "ready for human review" only for a run whose every review  *)
(* and every required or requested gate did its work, whatever was edited,     *)
(* imported, killed or asked for meanwhile: each report read is the one a     *)
(* provider's run wrote, each gate's process ended well and measured what it  *)
(* must (every fuzz target), the workspace was the sealed one, and a          *)
(* reviewer's challenge was shown exactly the independent reports the others  *)
(* are judged by.                                                             *)
(***************************************************************************)
GateWork(g) == IF g = "fuzz" THEN FuzzJobs ELSE {GateJob(g)}
ReadyIsEarned ==
    reader.pc = "done" /\ reader.ready =>
        /\ reader.fresh
        /\ ReviewJobs \subseteq worked /\ imported = {}
        /\ \A g \in Gates \cup UNION {reader.reports[j].checks : j \in ReviewJobs} : GateWork(g) \subseteq worked
        /\ \A r \in Reviewers : shown[ReviewJob(r, "challenge")] =
              {<<o, reader.reports[ReviewJob(o, "independent")]>> : o \in Reviewers \ {r}}

=============================================================================
