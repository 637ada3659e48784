---------------------------- MODULE CouncilProofs ----------------------------
(***************************************************************************)
(* What the status of a council run says of it, what a preparation seals and  *)
(* what a gate is given, for every roster, set of fuzz targets, profile,      *)
(* number of controllers and of edits, and any reports a provider or a hand   *)
(* may bring.                                                                *)
(*                                                                           *)
(* The lock plays no part in the argument: what matters is that nothing is    *)
(* written twice (WriteOnce), so what a controller or the reader saw of a     *)
(* report or of a slot stays true.                                            *)
(***************************************************************************)
EXTENDS Council, CouncilPrepare, GateInputs, TLAPS, FiniteSetTheorems, FunctionTheorems, SequenceTheorems

-----------------------------------------------------------------------------
(* The run *)

Outcomes == supervise \cup {"none", "inconclusive", "stale", "torn"}
Slot == [dir : BOOLEAN, receipt : Outcomes, refusal : {"none", "failed", "inconclusive"},
         qualification : Outcomes]
Controller == [pc : {"idle", "admit", "next", "run", "judge", "qualify", "import", "dead"},
               todo : Seq(Jobs), job : Jobs, prior : SUBSET (Reviewers \X Report),
               result : Outcomes, gate : AllGates \cup {"none"}]
Reader == [pc : {"reports", "receipts", "lock", "done"},
           reports : [ReviewJobs -> Report \cup {NoReport}], ready : BOOLEAN, fresh : BOOLEAN]

\* Every file of the run directory, and every process at work on it, has its form.
CouncilTypeOK ==
    /\ slots \in [Jobs -> Slot]
    /\ reports \in [ReviewJobs -> Report \cup {NoReport, TornReport}]
    /\ lock \in Controllers \cup {"free"}
    /\ fresh \in BOOLEAN
    /\ ctl \in [Controllers -> Controller]
    /\ reader \in Reader
    /\ worked \subseteq Jobs /\ imported \subseteq ReviewJobs
    /\ shown \in [Jobs -> SUBSET (Reviewers \X Report)]

\* What the others say: the reports a reviewer's challenge is to answer.
Said(r) == {<<o, reports[ReviewJob(o, "independent")]>> : o \in Reviewers \ {r}}

\* The job did its work, and a review's report is the one its run wrote.
Earned(j) == j \in worked /\ (j \in ReviewJobs => reports[j] # NoReport /\ j \notin imported)

\* A qualification that says passed was earned; a challenge that was begun was shown
\* what the others say.
SlotsInv ==
    /\ \A j \in Jobs : slots[j].qualification = "passed" => Earned(j)
    /\ \A j \in worked : slots[j].dir
    /\ \A j \in imported : reports[j] # NoReport
    /\ \A r \in Reviewers : slots[ReviewJob(r, "challenge")].dir =>
          AllIndependent /\ shown[ReviewJob(r, "challenge")] = Said(r)

\* What a controller took from the run directory is still there.
ControllerInv(c) ==
    /\ ctl[c].pc \in {"run", "judge", "qualify"} => slots[ctl[c].job].dir
    /\ ctl[c].pc = "judge" /\ ctl[c].result = "passed" /\ ctl[c].job \notin Measurable \cup {Oracle}
          => ctl[c].job \in worked
    /\ ctl[c].pc = "qualify" /\ ctl[c].result = "passed" => Earned(ctl[c].job)
    /\ ctl[c].pc = "import" => ctl[c].job \in ReviewJobs
    /\ \A i \in DOMAIN ctl[c].todo, r \in Reviewers :
          ctl[c].todo[i] = ReviewJob(r, "challenge") => AllIndependent /\ ctl[c].prior = Said(r)

\* The gates a run needs by its profile and by the findings read.
Needed == Gates \cup UNION {reader.reports[j].checks : j \in ReviewJobs}

\* What the reader read of the reports is still there, and it says ready of a run
\* that earned it.
ReaderInv ==
    /\ reader.pc \in {"reports", "receipts"} => ~reader.ready
    /\ \A j \in ReviewJobs : reader.reports[j] # NoReport => reports[j] = reader.reports[j]
    /\ reader.ready => /\ reader.fresh
                       /\ \A j \in ReviewJobs : reader.reports[j] # NoReport /\ Earned(j)
                       /\ \A g \in Needed : GateWork(g) \subseteq worked

CouncilInv == CouncilTypeOK /\ SlotsInv /\ (\A c \in Controllers : ControllerInv(c)) /\ ReaderInv
-----------------------------------------------------------------------------
\* The jobs of a run are told apart by their names.
LEMMA JobForms ==
  /\ ReviewJobs \subseteq Jobs /\ FuzzJobs \subseteq Jobs /\ Vendor \in Jobs /\ Oracle \in Jobs
  /\ \A g \in AllGates : GateJob(g) \in Jobs
  /\ "fuzz" \in AllGates /\ Gates \subseteq AllGates
  /\ \A j \in Jobs : IsReview(j) <=> j \in ReviewJobs
  /\ \A j \in Measurable \cup {Vendor, Oracle} : j \notin ReviewJobs
  /\ \A g : GateJob(g) \notin ReviewJobs
  /\ \A j \in ReviewJobs : j[2] \in Reviewers /\ j[3] \in Rounds /\ j = ReviewJob(j[2], j[3])
  /\ \A r \in Reviewers, round \in Rounds : ReviewJob(r, round) \in ReviewJobs
  /\ \A r, s, x, y : ReviewJob(r, x) = ReviewJob(s, y) => r = s /\ x = y
<1> USE DEF ReviewJob, GateJob, TargetJob, Vendor, Oracle
<1>1. /\ ReviewJobs \subseteq Jobs /\ FuzzJobs \subseteq Jobs /\ Vendor \in Jobs /\ Oracle \in Jobs
      /\ \A g \in AllGates : GateJob(g) \in Jobs
      /\ "fuzz" \in AllGates /\ Gates \subseteq AllGates
  BY DEF Jobs, AllGates, Gates, Required
<1>2. \A j \in FuzzJobs : j[1] \in {"gate", "gate-fuzz"}
  BY DEF FuzzJobs
<1>3. \A j \in ReviewJobs : j[1] = "review"
  BY DEF ReviewJobs
<1>4. \A j \in Jobs : IsReview(j) <=> j \in ReviewJobs
  BY <1>2, <1>3 DEF Jobs, IsReview
<1>5. \A j \in Measurable \cup {Vendor, Oracle} : j \notin ReviewJobs
  BY <1>2, <1>3 DEF Measurable
<1>6. \A g : GateJob(g) \notin ReviewJobs
  BY <1>3
<1>7. \A j \in ReviewJobs : j[2] \in Reviewers /\ j[3] \in Rounds /\ j = ReviewJob(j[2], j[3])
  BY DEF ReviewJobs
<1>8. \A r \in Reviewers, round \in Rounds : ReviewJob(r, round) \in ReviewJobs
  BY DEF ReviewJobs
<1>9. \A r, s, x, y : ReviewJob(r, x) = ReviewJob(s, y) => r = s /\ x = y
  OBVIOUS
<1> QED
  BY <1>1, <1>4, <1>5, <1>6, <1>7, <1>8, <1>9

\* A report that is there is neither missing nor torn.
LEMMA ReportForms ==
  /\ NoReport \notin Report /\ TornReport \notin Report /\ NoReport # TornReport /\ Clean \in Report
  /\ \A j \in ReviewJobs : Reports[j] \subseteq Report
<1>1. \A x \in Report : x.verdict \in {"no_blockers", "changes_requested", "abstain"}
  BY DEF Report
<1>2. NoReport.verdict = "none" /\ TornReport.verdict = "torn"
  BY DEF NoReport, TornReport
<1>3. Clean \in Report
  BY DEF Clean, Report
<1>4. \A j \in ReviewJobs : Reports[j] \subseteq Report
  BY CouncilAssumption
<1> QED
  BY <1>1, <1>2, <1>3, <1>4

\* The fuzz gate's jobs in some order.
LEMMA FuzzOrder == SetToSeq(FuzzJobs) \in Seq(FuzzJobs)
<1>1. IsFiniteSet(FuzzJobs)
  <2>1. IsFiniteSet({TargetJob(t) : t \in Targets})
    <3> DEFINE T == {TargetJob(t) : t \in Targets}
               h == [t \in Targets |-> TargetJob(t)]
    <3>1. h \in Surjection(Targets, T)
      BY DEF Surjection
    <3> HIDE DEF h, T
    <3> QED
      BY <3>1, CouncilAssumption, FS_Surjection DEF T
  <2>2. IsFiniteSet({GateJob("fuzz")})
    BY FS_Singleton
  <2> QED
    BY <2>1, <2>2 DEF FuzzJobs
<1> DEFINE n == Cardinality(FuzzJobs)
<1>2. n \in Nat /\ ExistsBijection(1 .. n, FuzzJobs)
  BY <1>1, FS_CardinalityType
<1>3. PICK f \in Bijection(1 .. n, FuzzJobs) : TRUE
  BY <1>2 DEF ExistsBijection
<1>4. f \in [1 .. n -> FuzzJobs] /\ IsInjective(f)
  BY <1>3 DEF Bijection, Injection, Surjection, IsInjective
<1>5. SetToSeq(FuzzJobs) \in [1 .. n -> FuzzJobs]
  BY <1>4 DEF SetToSeq
<1> QED
  BY <1>2, <1>5
-----------------------------------------------------------------------------
(* Types *)

\* A slot one of whose files is written is a slot.
LEMMA SlotWritten ==
  ASSUME NEW s \in Slot
  PROVE  /\ [s EXCEPT !.dir = TRUE] \in Slot
         /\ \A o \in Outcomes : /\ [s EXCEPT !.receipt = o] \in Slot
                                /\ [s EXCEPT !.qualification = o] \in Slot
                                /\ [s EXCEPT !.dir = TRUE, !.receipt = o] \in Slot
         /\ \A o \in {"none", "failed", "inconclusive"} : [s EXCEPT !.refusal = o] \in Slot
         /\ \A o \in Outcomes, p \in {"none", "failed", "inconclusive"} :
              [s EXCEPT !.receipt = o, !.refusal = p] \in Slot
  BY DEF Slot

\* A step of one controller writes at most its own state.
LEMMA ControllerWritten ==
  ASSUME NEW f \in [Controllers -> Controller], NEW c \in Controllers
  PROVE  /\ Idle \in Controller
         /\ \A k \in Controller : [f EXCEPT ![c] = k] \in [Controllers -> Controller]
         /\ \A p \in {"next", "qualify"} : [f EXCEPT ![c].pc = p] \in [Controllers -> Controller]
         /\ \A p \in {"judge", "qualify"}, o \in Outcomes :
               [f EXCEPT ![c].pc = p, ![c].result = o] \in [Controllers -> Controller]
         /\ \A q \in Seq(Jobs) : [f EXCEPT ![c].todo = q] \in [Controllers -> Controller]
         /\ \A q \in Seq(Jobs), j \in Jobs :
               [f EXCEPT ![c].pc = "run", ![c].todo = q, ![c].job = j] \in [Controllers -> Controller]
<1>1. Idle \in Controller
  BY JobForms DEF Idle, Controller, Outcomes
<1>2. \A k \in Controller : /\ \A p \in {"next", "qualify"} : [k EXCEPT !.pc = p] \in Controller
                            /\ \A p \in {"judge", "qualify"}, o \in Outcomes :
                                  [k EXCEPT !.pc = p, !.result = o] \in Controller
                            /\ \A q \in Seq(Jobs) : [k EXCEPT !.todo = q] \in Controller
                            /\ \A q \in Seq(Jobs), j \in Jobs :
                                  [k EXCEPT !.pc = "run", !.todo = q, !.job = j] \in Controller
  BY ZenonT(40) DEF Controller
<1>3. f[c] \in Controller
  OBVIOUS
<1> QED
  BY <1>1, <1>2, <1>3

\* What a controller is at and has to do.
LEMMA ControllerTypes ==
  ASSUME CouncilTypeOK, NEW c \in Controllers
  PROVE  /\ ctl[c].job \in Jobs /\ ctl[c].todo \in Seq(Jobs) /\ ctl[c].result \in Outcomes
         /\ ctl[c].prior \subseteq Reviewers \X Report
         /\ slots[ctl[c].job] \in Slot
         /\ ctl[c].todo # <<>> => Head(ctl[c].todo) \in Jobs /\ Tail(ctl[c].todo) \in Seq(Jobs)
<1>1. ctl[c] \in Controller
  BY DEF CouncilTypeOK
<1>2. /\ ctl[c].job \in Jobs /\ ctl[c].todo \in Seq(Jobs) /\ ctl[c].result \in Outcomes
      /\ ctl[c].prior \subseteq Reviewers \X Report
  BY <1>1 DEF Controller
<1> QED
  BY <1>2, HeadTailProperties DEF CouncilTypeOK
-----------------------------------------------------------------------------
(* What stays true *)

\* Nothing is written twice: a job that worked did, a slot is never given back, and a
\* report is neither replaced nor, once it is there, taken for an imported one.
WriteOnce ==
    /\ worked \subseteq worked'
    /\ \A j \in Jobs : slots[j].dir => slots'[j].dir
    /\ \A j \in ReviewJobs : reports[j] # NoReport =>
          reports'[j] = reports[j] /\ (j \in imported' => j \in imported)

\* So what was earned stays earned, and what the others say stays what they say.
LEMMA StaysTrue ==
  ASSUME CouncilTypeOK, WriteOnce
  PROVE  /\ \A j : Earned(j) => Earned(j)'
         /\ AllIndependent => AllIndependent' /\ \A r : Said(r)' = Said(r)
<1>1. \A j : Earned(j) => Earned(j)'
  BY DEF WriteOnce, Earned
<1>2. ASSUME AllIndependent
      PROVE  \A o \in Reviewers : /\ reports[ReviewJob(o, "independent")] # NoReport
                                  /\ reports'[ReviewJob(o, "independent")] = reports[ReviewJob(o, "independent")]
  <2> SUFFICES ASSUME NEW o \in Reviewers
               PROVE  /\ reports[ReviewJob(o, "independent")] # NoReport
                      /\ reports'[ReviewJob(o, "independent")] = reports[ReviewJob(o, "independent")]
    OBVIOUS
  <2>1. ReviewJob(o, "independent") \in ReviewJobs
    BY JobForms DEF Rounds
  <2>2. o \in Independent
    BY <1>2 DEF AllIndependent
  <2> QED
    BY <2>1, <2>2 DEF Independent, WriteOnce
<1>3. ASSUME AllIndependent PROVE AllIndependent' /\ \A r : Said(r)' = Said(r)
  BY <1>2, <1>3 DEF AllIndependent, Independent, Said
<1> QED
  BY <1>1, <1>3

\* What a controller that does not move knows.
LEMMA ControllerKept ==
  ASSUME CouncilInv, WriteOnce, NEW c \in Controllers, ctl'[c] = ctl[c]
  PROVE  ControllerInv(c)'
<1>1. ctl[c].job \in Jobs
  BY ControllerTypes DEF CouncilInv
<1>2. ControllerInv(c) /\ CouncilTypeOK
  BY DEF CouncilInv
<1>3. ctl[c].pc \in {"run", "judge", "qualify"} => slots'[ctl[c].job].dir
  BY <1>1, <1>2 DEF ControllerInv, WriteOnce
<1>4. ctl[c].pc = "judge" /\ ctl[c].result = "passed" /\ ctl[c].job \notin Measurable \cup {Oracle}
          => ctl[c].job \in worked'
  BY <1>2 DEF ControllerInv, WriteOnce
<1>5. ctl[c].pc = "qualify" /\ ctl[c].result = "passed" => Earned(ctl[c].job)'
  BY <1>1, <1>2, StaysTrue DEF ControllerInv, Earned
<1>6. \A i \in DOMAIN ctl[c].todo, r \in Reviewers :
          ctl[c].todo[i] = ReviewJob(r, "challenge") => AllIndependent' /\ ctl[c].prior = Said(r)'
  BY <1>2, StaysTrue DEF ControllerInv
<1> QED
  BY <1>2, <1>3, <1>4, <1>5, <1>6 DEF ControllerInv, Earned

\* What the slots say stays right when no challenge begins and nothing is qualified
\* that was not earned.
LEMMA SlotsKept ==
  ASSUME CouncilInv, WriteOnce, UNCHANGED shown,
         \A j \in Jobs : slots'[j].qualification = "passed" =>
            slots[j].qualification = "passed" \/ Earned(j)',
         \A j \in ReviewJobs : slots'[j].dir => slots[j].dir,
         \A j \in worked' : slots'[j].dir,
         \A j \in imported' : reports'[j] # NoReport
  PROVE  SlotsInv'
<1>1. CouncilTypeOK /\ SlotsInv
  BY DEF CouncilInv
<1>2. \A j \in Jobs : slots'[j].qualification = "passed" => Earned(j)'
  BY <1>1, StaysTrue DEF SlotsInv
<1>3. \A r \in Reviewers : slots'[ReviewJob(r, "challenge")].dir =>
          AllIndependent' /\ shown'[ReviewJob(r, "challenge")] = Said(r)'
  <2> SUFFICES ASSUME NEW r \in Reviewers, slots'[ReviewJob(r, "challenge")].dir
               PROVE  AllIndependent' /\ shown'[ReviewJob(r, "challenge")] = Said(r)'
    OBVIOUS
  <2>1. ReviewJob(r, "challenge") \in ReviewJobs
    BY JobForms DEF Rounds
  <2> QED
    BY <1>1, <2>1, StaysTrue DEF SlotsInv
<1> QED
  BY <1>2, <1>3 DEF SlotsInv

\* What a reader that does not move knows.
LEMMA ReaderKept ==
  ASSUME CouncilInv, WriteOnce, UNCHANGED reader
  PROVE  ReaderInv'
<1>1. CouncilTypeOK /\ ReaderInv
  BY DEF CouncilInv
<1>2. Needed' = Needed
  BY DEF Needed
<1>3. \A g \in Needed' : GateWork(g) \subseteq worked => GateWork(g) \subseteq worked'
  BY DEF WriteOnce
<1> QED
  BY <1>1, <1>2, <1>3, StaysTrue DEF ReaderInv, WriteOnce

\* A step of one controller.
LEMMA OneMoves ==
  ASSUME CouncilInv, CouncilTypeOK', WriteOnce, UNCHANGED reader, SlotsInv',
         NEW c \in Controllers, \A d \in Controllers \ {c} : ctl'[d] = ctl[d], ControllerInv(c)'
  PROVE  CouncilInv'
<1>1. \A d \in Controllers : ControllerInv(d)'
  BY ControllerKept
<1> QED
  BY <1>1, ReaderKept DEF CouncilInv
-----------------------------------------------------------------------------
(* The steps *)

\* A step that leaves the run directory alone.
LEMMA QuietStep ==
  ASSUME CouncilInv, UNCHANGED <<slots, reports, worked, shown, imported>>
  PROVE  WriteOnce /\ SlotsInv'
<1>1. WriteOnce
  BY DEF WriteOnce
<1> QED
  BY <1>1 DEF CouncilInv, SlotsInv, Earned, AllIndependent, Independent, Said

\* A controller with nothing to do knows nothing.
LEMMA IdleKnows ==
  ASSUME NEW c \in Controllers, ctl'[c].pc \in {"idle", "dead"}, ctl'[c].todo = <<>>
  PROVE  ControllerInv(c)'
  BY DEF ControllerInv

\* What a controller gives back.
LEMMA Released ==
  ASSUME CouncilInv, NEW c \in Controllers, Release(c)
  PROVE  /\ ctl' \in [Controllers -> Controller] /\ lock' \in Controllers \cup {"free"}
         /\ ControllerInv(c)' /\ \A d \in Controllers \ {c} : ctl'[d] = ctl[d]
<1>1. ctl \in [Controllers -> Controller]
  BY DEF CouncilInv, CouncilTypeOK
<1>2. ctl' \in [Controllers -> Controller]
  BY <1>1, ControllerWritten DEF Release
<1>3. ctl'[c].pc = "idle" /\ ctl'[c].todo = <<>>
  BY <1>1 DEF Release, Idle
<1> QED
  BY <1>1, <1>2, <1>3, IdleKnows DEF Release

\* A reviewer is asked for.
LEMMA RunReviewerStep ==
  ASSUME CouncilInv, NEW c \in Controllers, NEW r \in Reviewers, NEW round \in Rounds,
         run_reviewer(c, r, round)
  PROVE  CouncilInv'
<1> DEFINE prior == {<<o, reports[ReviewJob(o, "independent")]>> :
                        o \in IF round = "challenge" THEN Independent \ {r} ELSE {}}
           k == [Idle EXCEPT !.pc = "admit", !.todo = <<ReviewJob(r, round)>>, !.prior = prior]
<1>1. CouncilTypeOK /\ ctl' = [ctl EXCEPT ![c] = k]
  BY DEF CouncilInv, run_reviewer
<1>2. prior \subseteq Reviewers \X Report
  <2>1. \A o \in Independent : o \in Reviewers /\ reports[ReviewJob(o, "independent")] \in Report
    <3> SUFFICES ASSUME NEW o \in Independent
                 PROVE  o \in Reviewers /\ reports[ReviewJob(o, "independent")] \in Report
      OBVIOUS
    <3>1. o \in Reviewers /\ reports[ReviewJob(o, "independent")] # NoReport
      BY DEF Independent
    <3>2. ReviewJob(o, "independent") \in ReviewJobs
      BY <3>1, JobForms DEF Rounds
    <3> QED
      BY <1>1, <3>1, <3>2 DEF CouncilTypeOK, run_reviewer
  <2> QED
    BY <2>1
<1> HIDE DEF prior
<1>3. k \in Controller /\ k.pc = "admit" /\ k.prior = prior /\ k.todo = <<ReviewJob(r, round)>>
  <2> DEFINE q == <<ReviewJob(r, round)>>
  <2>1. ReviewJob(r, round) \in Jobs
    BY JobForms
  <2>2. q \in Seq(Jobs)
    BY <2>1
  <2> HIDE DEF q
  <2>3. [Idle EXCEPT !.pc = "admit", !.todo = q, !.prior = prior] \in Controller
    BY <1>2, <2>2, JobForms DEF Controller, Idle, Outcomes
  <2> QED
    BY <2>3 DEF q, Idle
<1> HIDE DEF k
<1>4. CouncilTypeOK'
  BY <1>1, <1>3 DEF CouncilTypeOK, run_reviewer
<1>5. ctl'[c] = k /\ \A d \in Controllers \ {c} : ctl'[d] = ctl[d]
  BY <1>1 DEF CouncilTypeOK
<1>6. WriteOnce /\ SlotsInv'
  BY QuietStep DEF run_reviewer
<1>7. ControllerInv(c)'
  <2>1. ASSUME NEW s \in Reviewers, ReviewJob(r, round) = ReviewJob(s, "challenge")
        PROVE  AllIndependent /\ prior = Said(s)
    <3>1. r = s /\ round = "challenge"
      BY <2>1, JobForms
    <3>2. AllIndependent
      BY <3>1 DEF run_reviewer
    <3> QED
      BY <3>1, <3>2 DEF prior, Said, AllIndependent
  <2>2. AllIndependent' = AllIndependent /\ \A s : Said(s)' = Said(s)
    BY DEF run_reviewer, AllIndependent, Independent, Said
  <2>3. ctl'[c].pc = "admit" /\ ctl'[c].prior = prior /\ ctl'[c].todo = <<ReviewJob(r, round)>>
    BY <1>3, <1>5
  <2>4. \A i \in DOMAIN ctl'[c].todo, s \in Reviewers :
          ctl'[c].todo[i] = ReviewJob(s, "challenge") => AllIndependent' /\ ctl'[c].prior = Said(s)'
    <3>1. \A i \in DOMAIN ctl'[c].todo : ctl'[c].todo[i] = ReviewJob(r, round)
      BY <2>3
    <3> QED
      BY <2>1, <2>2, <2>3, <3>1
  <2> QED
    BY <2>3, <2>4 DEF ControllerInv
<1> QED
  BY <1>4, <1>5, <1>6, <1>7, OneMoves DEF run_reviewer

\* A gate is asked for: no job of it is a review.
LEMMA RunGateStep ==
  ASSUME CouncilInv, NEW c \in Controllers, NEW g \in AllGates, run_gate(c, g)
  PROVE  CouncilInv'
<1> DEFINE first == IF g = "antipatterns" THEN <<>> ELSE <<Vendor>>
           second == IF g = "mutation" THEN <<Oracle>> ELSE <<>>
           q == first \o second \o gate_argv(g)
           k == [Idle EXCEPT !.pc = "admit", !.gate = g, !.todo = q]
           Others == Jobs \ ReviewJobs
<1>1. CouncilTypeOK /\ ctl' = [ctl EXCEPT ![c] = k]
  BY DEF CouncilInv, run_gate
<1>2. q \in Seq(Others)
  <2>1. Vendor \in Others /\ Oracle \in Others /\ GateJob(g) \in Others
    BY JobForms
  <2>3. FuzzJobs \subseteq Others
    BY JobForms DEF Measurable
  <2>4. SetToSeq(FuzzJobs) \in Seq(Others)
    BY <2>3, FuzzOrder
  <2> HIDE DEF Others
  <2>a. <<>> \in Seq(Others) /\ \A j \in Others : <<j>> \in Seq(Others)
    OBVIOUS
  <2>2. first \in Seq(Others) /\ second \in Seq(Others)
    BY <2>1, <2>a, Zenon
  <2>5. gate_argv(g) \in Seq(Others)
    BY <2>1, <2>4, <2>a, Zenon DEF gate_argv
  <2> HIDE DEF first, second
  <2> QED
    BY <2>2, <2>5
<1>3. q \in Seq(Jobs) /\ \A i \in DOMAIN q : q[i] \notin ReviewJobs
  <2> HIDE DEF q
  <2> QED
    BY <1>2
<1> HIDE DEF q
<1>4. k \in Controller /\ k.pc = "admit" /\ k.todo = q
  BY <1>3, JobForms DEF Controller, Idle, Outcomes
<1> HIDE DEF k
<1>5. CouncilTypeOK'
  BY <1>1, <1>4 DEF CouncilTypeOK, run_gate
<1>6. ctl'[c] = k /\ \A d \in Controllers \ {c} : ctl'[d] = ctl[d]
  BY <1>1 DEF CouncilTypeOK
<1>7. WriteOnce /\ SlotsInv'
  BY QuietStep DEF run_gate
<1>8. ControllerInv(c)'
  <2>1. \A r \in Reviewers : ReviewJob(r, "challenge") \in ReviewJobs
    BY JobForms DEF Rounds
  <2> QED
    BY <1>3, <1>4, <1>6, <2>1 DEF ControllerInv
<1> QED
  BY <1>5, <1>6, <1>7, <1>8, OneMoves DEF run_gate

\* The lock is taken, or not.
LEMMA AdmitStep ==
  ASSUME CouncilInv, NEW c \in Controllers, admit(c)
  PROVE  CouncilInv'
<1>1. CouncilTypeOK /\ ControllerInv(c)
  BY DEF CouncilInv
<1>2. WriteOnce /\ SlotsInv'
  BY QuietStep DEF admit
<1>3. CASE lock = "free" /\ fresh
  <2>1. lock' = c /\ ctl' = [ctl EXCEPT ![c].pc = "next"]
    BY <1>3 DEF admit
  <2>2. CouncilTypeOK'
    BY <1>1, <2>1, ControllerWritten DEF CouncilTypeOK, admit
  <2>3. /\ \A d \in Controllers \ {c} : ctl'[d] = ctl[d]
        /\ ctl'[c].pc = "next" /\ ctl'[c].todo = ctl[c].todo /\ ctl'[c].prior = ctl[c].prior
    BY <1>1, <2>1 DEF CouncilTypeOK, Controller
  <2>4. AllIndependent' = AllIndependent /\ \A r : Said(r)' = Said(r)
    BY DEF admit, AllIndependent, Independent, Said
  <2>5. ControllerInv(c)'
    BY <1>1, <2>3, <2>4 DEF ControllerInv
  <2> QED
    BY <1>2, <2>2, <2>3, <2>5, OneMoves DEF admit
<1>4. CASE ~(lock = "free" /\ fresh)
  <2>1. lock' = lock /\ ctl' = [ctl EXCEPT ![c] = Idle]
    BY <1>4 DEF admit
  <2>2. CouncilTypeOK'
    BY <1>1, <2>1, ControllerWritten DEF CouncilTypeOK, admit
  <2>3. ctl'[c] = Idle /\ \A d \in Controllers \ {c} : ctl'[d] = ctl[d]
    BY <1>1, <2>1 DEF CouncilTypeOK
  <2>4. ControllerInv(c)'
    BY <2>3, IdleKnows DEF Idle
  <2> QED
    BY <1>2, <2>2, <2>3, <2>4, OneMoves DEF admit
<1> QED
  BY <1>3, <1>4

\* What is left to do after the next job.
LEMMA TailTodo ==
  ASSUME CouncilTypeOK, NEW c \in Controllers, ctl[c].todo # <<>>
  PROVE  /\ Head(ctl[c].todo) \in Jobs /\ Tail(ctl[c].todo) \in Seq(Jobs)
         /\ 1 \in DOMAIN ctl[c].todo /\ Head(ctl[c].todo) = ctl[c].todo[1]
         /\ \A i \in DOMAIN Tail(ctl[c].todo) : /\ i + 1 \in DOMAIN ctl[c].todo
                                                /\ Tail(ctl[c].todo)[i] = ctl[c].todo[i + 1]
<1>1. ctl[c].todo \in Seq(Jobs)
  BY ControllerTypes
<1> QED
  BY <1>1, HeadTailProperties

\* The vendoring or the oracle ran before.
LEMMA EarlierStep ==
  ASSUME CouncilInv, NEW c \in Controllers, Earlier(c)
  PROVE  CouncilInv'
<1>1. CouncilTypeOK /\ ControllerInv(c)
  BY DEF CouncilInv
<1>2. WriteOnce /\ SlotsInv'
  BY QuietStep DEF Earlier
<1>3. CASE Release(c)
  <2>1. CouncilTypeOK'
    BY <1>1, <1>3, Released DEF CouncilTypeOK, Earlier
  <2> QED
    BY <1>2, <1>3, <2>1, Released, OneMoves DEF Earlier
<1>4. CASE lock' = lock /\ ctl' = [ctl EXCEPT ![c].todo = Tail(@)]
  <2> DEFINE q == Tail(ctl[c].todo)
  <2>1. /\ q \in Seq(Jobs)
        /\ \A i \in DOMAIN q : i + 1 \in DOMAIN ctl[c].todo /\ q[i] = ctl[c].todo[i + 1]
    BY <1>1, TailTodo DEF Earlier
  <2>2. ctl' = [ctl EXCEPT ![c].todo = q]
    BY <1>4
  <2> HIDE DEF q
  <2>3. CouncilTypeOK'
    <3>1. ctl' \in [Controllers -> Controller]
      BY <1>1, <2>1, <2>2, ControllerWritten, ZenonT(40) DEF CouncilTypeOK
    <3> QED
      BY <1>1, <1>4, <3>1 DEF CouncilTypeOK, Earlier
  <2>4. /\ \A d \in Controllers \ {c} : ctl'[d] = ctl[d]
        /\ ctl'[c].pc = ctl[c].pc /\ ctl'[c].todo = q /\ ctl'[c].prior = ctl[c].prior
    BY <1>1, <2>2 DEF CouncilTypeOK, Controller
  <2>5. AllIndependent' = AllIndependent /\ \A r : Said(r)' = Said(r)
    BY DEF Earlier, AllIndependent, Independent, Said
  <2>6. ctl[c].pc = "next"
    BY DEF Earlier
  <2>7. ControllerInv(c)'
    BY <1>1, <2>1, <2>4, <2>5, <2>6 DEF ControllerInv
  <2> QED
    BY <1>2, <2>3, <2>4, <2>7, OneMoves DEF Earlier
<1> QED
  BY <1>3, <1>4 DEF Earlier

\* A slot is taken, and a challenge's prompt made of what the others said.
LEMMA BeginStep ==
  ASSUME CouncilInv, NEW c \in Controllers, Begin(c)
  PROVE  CouncilInv'
<1> DEFINE j == Head(ctl[c].todo)
           q == Tail(ctl[c].todo)
<1>1. CouncilTypeOK /\ ControllerInv(c) /\ SlotsInv /\ ctl[c].pc = "next" /\ ctl[c].todo # <<>>
  BY DEF CouncilInv, Begin
<1>2. /\ j \in Jobs /\ q \in Seq(Jobs) /\ 1 \in DOMAIN ctl[c].todo /\ j = ctl[c].todo[1]
      /\ \A i \in DOMAIN q : i + 1 \in DOMAIN ctl[c].todo /\ q[i] = ctl[c].todo[i + 1]
  BY <1>1, TailTodo
<1>3. UNCHANGED <<reports, fresh, edits, starts, reader, worked, imported>>
  BY DEF Begin
<1>4. CASE CanBegin(c, j)
  <2>1. /\ slots' = [slots EXCEPT ![j].dir = TRUE]
        /\ ctl' = [ctl EXCEPT ![c].pc = "run", ![c].todo = q, ![c].job = j]
        /\ shown' = [shown EXCEPT ![j] = ctl[c].prior]
        /\ lock' = lock
    BY <1>4 DEF Begin
  <2> HIDE DEF j, q
  <2>2. CouncilTypeOK'
    <3>1. slots' \in [Jobs -> Slot]
      BY <1>1, <1>2, <2>1, SlotWritten DEF CouncilTypeOK
    <3>2. ctl' \in [Controllers -> Controller]
      BY <1>1, <1>2, <2>1, ControllerWritten, ZenonT(40) DEF CouncilTypeOK
    <3>3. shown' \in [Jobs -> SUBSET (Reviewers \X Report)]
      BY <1>1, <1>2, <2>1, ControllerTypes DEF CouncilTypeOK
    <3> QED
      BY <1>1, <1>3, <2>1, <3>1, <3>2, <3>3 DEF CouncilTypeOK
  <2>3. /\ \A d \in Controllers \ {c} : ctl'[d] = ctl[d]
        /\ ctl'[c].pc = "run" /\ ctl'[c].todo = q /\ ctl'[c].prior = ctl[c].prior /\ ctl'[c].job = j
    BY <1>1, <2>1 DEF CouncilTypeOK, Controller
  <2>4. /\ slots'[j].dir
        /\ \A i \in Jobs : slots'[i].qualification = slots[i].qualification /\ (slots[i].dir => slots'[i].dir)
        /\ \A i \in Jobs \ {j} : slots'[i] = slots[i] /\ shown'[i] = shown[i]
        /\ shown'[j] = ctl[c].prior
    BY <1>1, <1>2, <2>1 DEF CouncilTypeOK, Slot
  <2>5. WriteOnce
    BY <1>3, <2>4 DEF WriteOnce
  <2>6. /\ AllIndependent' = AllIndependent /\ \A r : Said(r)' = Said(r)
        /\ \A i : Earned(i)' = Earned(i)
    BY <1>3 DEF AllIndependent, Independent, Said, Earned
  <2>7. \A r \in Reviewers : slots'[ReviewJob(r, "challenge")].dir =>
          AllIndependent' /\ shown'[ReviewJob(r, "challenge")] = Said(r)'
    <3> SUFFICES ASSUME NEW r \in Reviewers, slots'[ReviewJob(r, "challenge")].dir
                 PROVE  AllIndependent /\ shown'[ReviewJob(r, "challenge")] = Said(r)
      BY <2>6
    <3>1. ReviewJob(r, "challenge") \in Jobs
      BY JobForms DEF Rounds
    <3>2. CASE ReviewJob(r, "challenge") = j
      BY <1>1, <1>2, <2>4, <3>2 DEF ControllerInv
    <3>3. CASE ReviewJob(r, "challenge") # j
      BY <1>1, <2>4, <3>1, <3>3 DEF SlotsInv
    <3> QED
      BY <3>2, <3>3
  <2>8. SlotsInv'
    <3>1. \A i \in Jobs : slots'[i].qualification = "passed" => Earned(i)'
      BY <1>1, <2>4, <2>6 DEF SlotsInv
    <3>2. \A i \in worked' : slots'[i].dir
      BY <1>1, <1>3, <2>4 DEF SlotsInv, CouncilTypeOK
    <3>3. \A i \in imported' : reports'[i] # NoReport
      BY <1>1, <1>3 DEF SlotsInv
    <3> QED
      BY <2>7, <3>1, <3>2, <3>3 DEF SlotsInv
  <2>9. ControllerInv(c)'
    BY <1>1, <1>2, <2>3, <2>4, <2>6 DEF ControllerInv
  <2> QED
    BY <1>3, <2>2, <2>3, <2>5, <2>8, <2>9, OneMoves
<1>5. CASE ~CanBegin(c, j)
  <2>1. Release(c) /\ UNCHANGED <<slots, shown>>
    BY <1>5 DEF Begin
  <2>2. WriteOnce /\ SlotsInv'
    BY <1>3, <2>1, QuietStep
  <2>3. CouncilTypeOK'
    BY <1>1, <1>3, <2>1, Released DEF CouncilTypeOK
  <2> QED
    BY <1>3, <2>1, <2>2, <2>3, Released, OneMoves
<1> QED
  BY <1>4, <1>5

\* A process ends, and its receipt is written.
LEMMA RunStep ==
  ASSUME CouncilInv, NEW c \in Controllers, NEW outcome \in supervise,
         NEW didWork \in BOOLEAN, NEW gone \in BOOLEAN, run(c, outcome, didWork, gone)
  PROVE  CouncilInv'
<1> DEFINE j == ctl[c].job
           after == IF IsReview(j) /\ ~fresh THEN "stale" ELSE remove(outcome, gone)
           mark == IF gone THEN slots[j].refusal ELSE "inconclusive"
<1>1. CouncilTypeOK /\ ControllerInv(c) /\ SlotsInv /\ ctl[c].pc = "run"
  BY DEF CouncilInv, run
<1>2. /\ slots' = [slots EXCEPT ![j].receipt = after, ![j].refusal = mark]
      /\ j \notin Measurable \cup {Oracle} => didWork
      /\ worked' = IF after = "passed" /\ didWork THEN worked \cup {j} ELSE worked
      /\ ctl' = [ctl EXCEPT ![c].pc = "judge", ![c].result = after]
      /\ UNCHANGED <<reports, lock, fresh, edits, starts, reader, shown, imported>>
  BY DEF run
<1>3. j \in Jobs /\ slots[j] \in Slot
  BY <1>1, ControllerTypes
<1>4. after \in Outcomes /\ mark \in {"none", "failed", "inconclusive"}
  BY <1>3 DEF remove, Outcomes, Slot, supervise
<1> HIDE DEF j, after, mark
<1>5. CouncilTypeOK'
  <2>1. slots' \in [Jobs -> Slot]
    BY <1>1, <1>2, <1>3, <1>4, SlotWritten DEF CouncilTypeOK
  <2>2. ctl' \in [Controllers -> Controller]
    BY <1>1, <1>2, <1>4, ControllerWritten DEF CouncilTypeOK
  <2> QED
    BY <1>1, <1>2, <1>3, <2>1, <2>2 DEF CouncilTypeOK
<1>6. /\ \A d \in Controllers \ {c} : ctl'[d] = ctl[d]
      /\ ctl'[c].pc = "judge" /\ ctl'[c].job = j /\ ctl'[c].result = after
      /\ ctl'[c].todo = ctl[c].todo /\ ctl'[c].prior = ctl[c].prior
  BY <1>1, <1>2 DEF CouncilTypeOK, Controller, j
<1>7. \A i \in Jobs : slots'[i].qualification = slots[i].qualification /\ slots'[i].dir = slots[i].dir
  BY <1>1, <1>2, <1>3 DEF CouncilTypeOK, Slot
<1>8. slots[j].dir
  BY <1>1 DEF ControllerInv, j
<1>9. WriteOnce
  BY <1>2, <1>7 DEF WriteOnce
<1>10. SlotsInv'
  <2>1. \A i \in worked' : slots'[i].dir
    BY <1>1, <1>2, <1>3, <1>7, <1>8 DEF SlotsInv, CouncilTypeOK
  <2>2. \A i \in imported' : reports'[i] # NoReport
    BY <1>1, <1>2 DEF SlotsInv
  <2>3. \A i \in ReviewJobs : slots'[i].dir => slots[i].dir
    BY <1>7, JobForms
  <2> QED
    BY <1>2, <1>7, <1>9, <2>1, <2>2, <2>3, SlotsKept
<1>11. ControllerInv(c)'
  <2>1. AllIndependent' = AllIndependent /\ \A r : Said(r)' = Said(r)
    BY <1>2 DEF AllIndependent, Independent, Said
  <2>2. after = "passed" /\ j \notin Measurable \cup {Oracle} => j \in worked'
    BY <1>2
  <2> QED
    BY <1>1, <1>3, <1>6, <1>7, <1>8, <2>1, <2>2 DEF ControllerInv
<1> QED
  BY <1>2, <1>5, <1>6, <1>9, <1>10, <1>11, OneMoves

\* A provider's answer is judged: a report is written where there was none.
LEMMA JudgeReviewStep ==
  ASSUME CouncilInv, NEW c \in Controllers, NEW report \in Reports[ctl[c].job], JudgeReview(c, report)
  PROVE  CouncilInv'
<1>0. PICK j : j = ctl[c].job
  OBVIOUS
<1>1. /\ CouncilTypeOK /\ ControllerInv(c) /\ SlotsInv /\ ctl[c].pc = "judge"
      /\ UNCHANGED <<fresh, edits, starts, reader, worked, shown, imported>>
  BY DEF CouncilInv, JudgeReview
<1>2. j \in Jobs /\ j \in ReviewJobs /\ slots[j] \in Slot
  BY <1>0, <1>1, ControllerTypes, JobForms DEF JudgeReview
<1>3. report \in Report
  BY <1>0, <1>2, ReportForms
<1>4. CASE ctl[c].result # "passed"
  <2>1. Release(c) /\ UNCHANGED <<slots, reports>>
    BY <1>4 DEF JudgeReview
  <2>2. WriteOnce /\ SlotsInv'
    BY <1>1, <2>1, QuietStep
  <2>3. CouncilTypeOK'
    BY <1>1, <2>1, Released DEF CouncilTypeOK
  <2> QED
    BY <1>1, <2>1, <2>2, <2>3, Released, OneMoves
<1>5. CASE ctl[c].result = "passed" /\ provider_report(j, report)
  <2>1. /\ lock' = lock /\ reports' = [reports EXCEPT ![j] = report] /\ slots' = slots
        /\ ctl' = [ctl EXCEPT ![c].pc = "qualify"] /\ reports[j] = NoReport
    BY <1>0, <1>5 DEF JudgeReview, provider_report
  <2>2. CouncilTypeOK'
    <3>1. ctl' \in [Controllers -> Controller]
      BY <1>1, <2>1, ControllerWritten DEF CouncilTypeOK
    <3> QED
      BY <1>1, <1>2, <1>3, <2>1, <3>1 DEF CouncilTypeOK
  <2>3. /\ \A d \in Controllers \ {c} : ctl'[d] = ctl[d]
        /\ ctl'[c].pc = "qualify" /\ ctl'[c].job = j /\ ctl'[c].result = "passed"
        /\ ctl'[c].todo = ctl[c].todo /\ ctl'[c].prior = ctl[c].prior
    BY <1>0, <1>1, <1>5, <2>1 DEF CouncilTypeOK, Controller
  <2>4. reports'[j] # NoReport /\ \A i \in ReviewJobs \ {j} : reports'[i] = reports[i]
    BY <1>1, <1>2, <1>3, <2>1, ReportForms DEF CouncilTypeOK
  <2>5. WriteOnce
    BY <1>1, <1>2, <2>1, <2>4 DEF WriteOnce
  <2>6. j \notin imported /\ j \in worked
    <3>1. j \notin Measurable \cup {Oracle}
      BY <1>2, JobForms
    <3> QED
      BY <1>0, <1>1, <1>5, <2>1, <3>1 DEF SlotsInv, ControllerInv
  <2>7. Earned(j)'
    BY <1>1, <2>4, <2>6 DEF Earned
  <2>8. SlotsInv'
    <3>1. \A i \in imported' : reports'[i] # NoReport
      BY <1>1, <2>4, <2>6 DEF SlotsInv, CouncilTypeOK
    <3> QED
      BY <1>1, <2>1, <2>5, <3>1, SlotsKept DEF SlotsInv
  <2>9. ControllerInv(c)'
    <3>1. \A i \in DOMAIN ctl[c].todo, r \in Reviewers :
             ctl[c].todo[i] = ReviewJob(r, "challenge") => AllIndependent' /\ ctl[c].prior = Said(r)'
      BY <1>1, <2>5, StaysTrue DEF ControllerInv
    <3>2. slots'[j].dir
      BY <1>0, <1>1, <2>1 DEF ControllerInv
    <3> QED
      BY <2>3, <2>7, <3>1, <3>2 DEF ControllerInv, Earned
  <2> QED
    BY <1>1, <2>2, <2>3, <2>5, <2>8, <2>9, OneMoves
<1>6. CASE ctl[c].result = "passed" /\ ~provider_report(j, report)
  <2>1. /\ lock' = lock /\ reports' = reports /\ slots' = [slots EXCEPT ![j].refusal = "failed"]
        /\ ctl' = [ctl EXCEPT ![c].pc = "qualify", ![c].result = "failed"]
    BY <1>0, <1>6 DEF JudgeReview
  <2>2. CouncilTypeOK'
    <3>1. slots' \in [Jobs -> Slot]
      BY <1>1, <1>2, <2>1, SlotWritten DEF CouncilTypeOK
    <3>2. ctl' \in [Controllers -> Controller]
      BY <1>1, <2>1, ControllerWritten DEF CouncilTypeOK, Outcomes, supervise
    <3> QED
      BY <1>1, <2>1, <3>1, <3>2 DEF CouncilTypeOK
  <2>3. /\ \A d \in Controllers \ {c} : ctl'[d] = ctl[d]
        /\ ctl'[c].pc = "qualify" /\ ctl'[c].job = j /\ ctl'[c].result = "failed"
        /\ ctl'[c].todo = ctl[c].todo /\ ctl'[c].prior = ctl[c].prior
    BY <1>0, <1>1, <2>1 DEF CouncilTypeOK, Controller
  <2>4. \A i \in Jobs : slots'[i].qualification = slots[i].qualification /\ slots'[i].dir = slots[i].dir
    BY <1>1, <1>2, <2>1 DEF CouncilTypeOK, Slot
  <2>5. WriteOnce
    BY <1>1, <2>1, <2>4 DEF WriteOnce
  <2>6. SlotsInv'
    <3>1. \A i \in worked' : slots'[i].dir
      BY <1>1, <2>4 DEF SlotsInv, CouncilTypeOK
    <3>2. \A i \in imported' : reports'[i] # NoReport
      BY <1>1, <2>1 DEF SlotsInv
    <3>3. \A i \in ReviewJobs : slots'[i].dir => slots[i].dir
      BY <2>4, JobForms
    <3> QED
      BY <1>1, <2>4, <2>5, <3>1, <3>2, <3>3, SlotsKept
  <2>7. ControllerInv(c)'
    <3>1. AllIndependent' = AllIndependent /\ \A r : Said(r)' = Said(r)
      BY <2>1 DEF AllIndependent, Independent, Said
    <3>2. slots'[j].dir
      BY <1>0, <1>1, <1>2, <2>4 DEF ControllerInv
    <3> QED
      BY <1>1, <2>3, <3>1, <3>2 DEF ControllerInv
  <2> QED
    BY <1>1, <2>1, <2>2, <2>3, <2>5, <2>6, <2>7, OneMoves
<1> QED
  BY <1>4, <1>5, <1>6

\* A gate is judged: it passes only with its work measured.
LEMMA QualifyGateStep ==
  ASSUME CouncilInv, NEW c \in Controllers, qualify_gate(c)
  PROVE  CouncilInv'
<1>0. PICK j : j = ctl[c].job
  OBVIOUS
<1> DEFINE passed == ctl[c].result = "passed"
           lowered == IF j = Oracle THEN ~(passed /\ j \in worked)
                                    ELSE passed /\ j \in Measurable /\ j \notin worked
           verdict == IF j = Oracle THEN "failed" ELSE "inconclusive"
<1>1. /\ CouncilTypeOK /\ ControllerInv(c) /\ SlotsInv /\ ctl[c].pc = "judge"
      /\ UNCHANGED <<reports, fresh, edits, starts, reader, worked, shown, imported>>
  BY DEF CouncilInv, qualify_gate
<1>2. j \in Jobs /\ j \notin ReviewJobs /\ slots[j] \in Slot /\ ctl[c].result \in Outcomes
  BY <1>0, <1>1, ControllerTypes, JobForms DEF qualify_gate
<1>3. CASE lowered /\ slots[j].refusal # "none"
  <2>1. slots' = slots /\ Release(c)
    BY <1>0, <1>3 DEF qualify_gate
  <2>2. WriteOnce /\ SlotsInv'
    BY <1>1, <2>1, QuietStep
  <2>3. CouncilTypeOK'
    BY <1>1, <2>1, Released DEF CouncilTypeOK
  <2> QED
    BY <1>1, <2>1, <2>2, <2>3, Released, OneMoves
<1>4. CASE ~(lowered /\ slots[j].refusal # "none")
  <2> DEFINE mark == IF lowered THEN "inconclusive" ELSE slots[j].refusal
             result == IF lowered THEN verdict ELSE ctl[c].result
  <2>1. /\ slots' = [slots EXCEPT ![j].refusal = mark]
        /\ ctl' = [ctl EXCEPT ![c].pc = "qualify", ![c].result = result]
        /\ lock' = lock
    BY <1>0, <1>4 DEF qualify_gate
  <2>2. mark \in {"none", "failed", "inconclusive"} /\ result \in Outcomes
    BY <1>2 DEF Slot, Outcomes, supervise
  <2>3. result = "passed" => j \in worked
    <3>1. CASE j \in Measurable \cup {Oracle}
      BY <3>1
    <3>2. CASE j \notin Measurable \cup {Oracle}
      BY <1>0, <1>1, <3>2 DEF ControllerInv
    <3> QED
      BY <3>1, <3>2
  <2> HIDE DEF mark, result
  <2>4. CouncilTypeOK'
    <3>1. slots' \in [Jobs -> Slot]
      BY <1>1, <1>2, <2>1, <2>2, SlotWritten DEF CouncilTypeOK
    <3>2. ctl' \in [Controllers -> Controller]
      BY <1>1, <2>1, <2>2, ControllerWritten DEF CouncilTypeOK
    <3> QED
      BY <1>1, <2>1, <3>1, <3>2 DEF CouncilTypeOK
  <2>5. /\ \A d \in Controllers \ {c} : ctl'[d] = ctl[d]
        /\ ctl'[c].pc = "qualify" /\ ctl'[c].job = j /\ ctl'[c].result = result
        /\ ctl'[c].todo = ctl[c].todo /\ ctl'[c].prior = ctl[c].prior
    BY <1>0, <1>1, <2>1 DEF CouncilTypeOK, Controller
  <2>6. \A i \in Jobs : slots'[i].qualification = slots[i].qualification /\ slots'[i].dir = slots[i].dir
    BY <1>1, <1>2, <2>1 DEF CouncilTypeOK, Slot
  <2>7. WriteOnce
    BY <1>1, <2>6 DEF WriteOnce
  <2>8. SlotsInv'
    <3>1. \A i \in worked' : slots'[i].dir
      BY <1>1, <2>6 DEF SlotsInv, CouncilTypeOK
    <3>2. \A i \in imported' : reports'[i] # NoReport
      BY <1>1 DEF SlotsInv
    <3>3. \A i \in ReviewJobs : slots'[i].dir => slots[i].dir
      BY <2>6, JobForms
    <3> QED
      BY <1>1, <2>6, <2>7, <3>1, <3>2, <3>3, SlotsKept
  <2>9. ControllerInv(c)'
    <3>1. AllIndependent' = AllIndependent /\ \A r : Said(r)' = Said(r)
      BY <1>1 DEF AllIndependent, Independent, Said
    <3>2. slots'[j].dir
      BY <1>0, <1>1, <1>2, <2>6 DEF ControllerInv
    <3>3. result = "passed" => Earned(j)'
      BY <1>1, <1>2, <2>3 DEF Earned
    <3> QED
      BY <1>1, <2>5, <3>1, <3>2, <3>3 DEF ControllerInv, Earned
  <2> QED
    BY <1>1, <2>4, <2>5, <2>7, <2>8, <2>9, OneMoves
<1> QED
  BY <1>3, <1>4

\* The qualification is written: passed only where it was earned.
LEMMA QualifyStep ==
  ASSUME CouncilInv, NEW c \in Controllers, Qualify(c)
  PROVE  CouncilInv'
<1>0. PICK j : j = ctl[c].job
  OBVIOUS
<1>a. PICK result : result = ctl[c].result
  OBVIOUS
<1>1. /\ CouncilTypeOK /\ ControllerInv(c) /\ SlotsInv /\ ctl[c].pc = "qualify"
      /\ slots' = [slots EXCEPT ![j].qualification = result]
      /\ UNCHANGED <<reports, fresh, edits, starts, reader, worked, shown, imported>>
  BY <1>0, <1>a DEF CouncilInv, Qualify
<1>2. j \in Jobs /\ slots[j] \in Slot /\ result \in Outcomes
  BY <1>0, <1>a, <1>1, ControllerTypes
<1>3. slots' \in [Jobs -> Slot]
  BY <1>1, <1>2, SlotWritten DEF CouncilTypeOK
<1>4. /\ \A i \in Jobs : slots'[i].dir = slots[i].dir
      /\ \A i \in Jobs \ {j} : slots'[i] = slots[i]
      /\ slots'[j].qualification = result
  BY <1>1, <1>2 DEF CouncilTypeOK, Slot
<1>5. result = "passed" => Earned(j)'
  BY <1>0, <1>a, <1>1 DEF ControllerInv, Earned
<1>6. WriteOnce
  BY <1>1, <1>4 DEF WriteOnce
<1>7. SlotsInv'
  <2>1. \A i \in worked' : slots'[i].dir
    BY <1>1, <1>4 DEF SlotsInv, CouncilTypeOK
  <2>2. \A i \in imported' : reports'[i] # NoReport
    BY <1>1 DEF SlotsInv
  <2>3. \A i \in ReviewJobs : slots'[i].dir => slots[i].dir
    BY <1>4, JobForms
  <2>4. \A i \in Jobs : slots'[i].qualification = "passed" =>
            slots[i].qualification = "passed" \/ Earned(i)'
    BY <1>4, <1>5
  <2> QED
    BY <1>1, <1>6, <2>1, <2>2, <2>3, <2>4, SlotsKept
<1>8. CASE Release(c)
  <2>1. CouncilTypeOK'
    BY <1>1, <1>3, <1>8, Released DEF CouncilTypeOK
  <2> QED
    BY <1>1, <1>6, <1>7, <1>8, <2>1, Released, OneMoves
<1>9. CASE lock' = lock /\ ctl' = [ctl EXCEPT ![c].pc = "next"]
  <2>1. CouncilTypeOK'
    <3>1. ctl' \in [Controllers -> Controller]
      BY <1>1, <1>9, ControllerWritten DEF CouncilTypeOK
    <3> QED
      BY <1>1, <1>3, <1>9, <3>1 DEF CouncilTypeOK
  <2>2. /\ \A d \in Controllers \ {c} : ctl'[d] = ctl[d]
        /\ ctl'[c].pc = "next" /\ ctl'[c].todo = ctl[c].todo /\ ctl'[c].prior = ctl[c].prior
    BY <1>1, <1>9 DEF CouncilTypeOK, Controller
  <2>3. AllIndependent' = AllIndependent /\ \A r : Said(r)' = Said(r)
    BY <1>1 DEF AllIndependent, Independent, Said
  <2>4. ControllerInv(c)'
    BY <1>1, <2>2, <2>3 DEF ControllerInv
  <2> QED
    BY <1>1, <1>6, <1>7, <2>1, <2>2, <2>4, OneMoves
<1> QED
  BY <1>8, <1>9 DEF Qualify

\* The aggregate of the fuzz gate is written, or left behind: it is no review, and no
\* qualification.
LEMMA AggregateWritten ==
  ASSUME CouncilInv, NEW text \in Outcomes, slots' = AggregateLeft(text),
         UNCHANGED <<reports, worked, shown, imported>>
  PROVE  slots' \in [Jobs -> Slot] /\ WriteOnce /\ SlotsInv'
<1>0. PICK j : j = GateJob("fuzz")
  OBVIOUS
<1>1. CouncilTypeOK /\ SlotsInv /\ j \in Jobs /\ j \notin ReviewJobs
  BY <1>0, JobForms DEF CouncilInv
<1>2. slots' = [slots EXCEPT ![j].dir = TRUE, ![j].receipt = text]
  BY <1>0 DEF AggregateLeft
<1>3. slots' \in [Jobs -> Slot]
  <2>1. slots[j] \in Slot
    BY <1>1 DEF CouncilTypeOK
  <2>2. [slots[j] EXCEPT !.dir = TRUE, !.receipt = text] \in Slot
    BY <2>1, SlotWritten
  <2> QED
    BY <1>1, <1>2, <2>2 DEF CouncilTypeOK
<1>4. /\ \A i \in Jobs : slots'[i].qualification = slots[i].qualification
      /\ \A i \in Jobs \ {j} : slots'[i] = slots[i]
      /\ slots'[j].dir
  BY <1>1, <1>2 DEF CouncilTypeOK, Slot
<1>5. WriteOnce
  BY <1>4 DEF WriteOnce
<1>6. SlotsInv'
  <2>1. \A i \in worked' : slots'[i].dir
    BY <1>1, <1>4 DEF SlotsInv, CouncilTypeOK
  <2>2. \A i \in imported' : reports'[i] # NoReport
    BY <1>1 DEF SlotsInv
  <2>3. \A i \in ReviewJobs : slots'[i].dir => slots[i].dir
    BY <1>1, <1>4, JobForms
  <2> QED
    BY <1>4, <1>5, <2>1, <2>2, <2>3, SlotsKept
<1> QED
  BY <1>3, <1>5, <1>6

\* The last job is done.
LEMMA FinishStep ==
  ASSUME CouncilInv, NEW c \in Controllers, Finish(c)
  PROVE  CouncilInv'
<1>1. CouncilTypeOK /\ Release(c) /\ UNCHANGED <<reports, fresh, edits, starts, reader, worked, shown, imported>>
  BY DEF CouncilInv, Finish
<1>2. slots' \in [Jobs -> Slot] /\ WriteOnce /\ SlotsInv'
  <2>1. CASE AtAggregate(c)
    <3>1. FuzzOutcome \in Outcomes
      BY DEF FuzzOutcome, Outcomes, supervise
    <3>2. slots' = AggregateLeft(FuzzOutcome)
      BY <2>1 DEF Finish
    <3> QED
      BY <1>1, <3>1, <3>2, AggregateWritten
  <2>2. CASE ~AtAggregate(c)
    <3>1. slots' = slots
      BY <2>2 DEF Finish
    <3> QED
      BY <1>1, <3>1, QuietStep DEF CouncilTypeOK
  <2> QED
    BY <2>1, <2>2
<1>3. CouncilTypeOK'
  BY <1>1, <1>2, Released DEF CouncilTypeOK
<1> QED
  BY <1>1, <1>2, <1>3, Released, OneMoves

\* A controller dies: what it leaves torn is no pass, and no report that is read.
LEMMA CrashStep ==
  ASSUME CouncilInv, NEW c \in Controllers, NEW torn \in BOOLEAN, Crash(c, torn)
  PROVE  CouncilInv'
<1>0. PICK j : j = ctl[c].job
  OBVIOUS
<1>1. /\ CouncilTypeOK /\ ControllerInv(c) /\ SlotsInv
      /\ ctl' = [ctl EXCEPT ![c] = [Idle EXCEPT !.pc = "dead"]]
      /\ UNCHANGED <<lock, fresh, edits, starts, reader, worked, shown, imported>>
  BY DEF CouncilInv, Crash
<1>2. j \in Jobs /\ slots[j] \in Slot
  BY <1>0, <1>1, ControllerTypes
<1>3. ctl' \in [Controllers -> Controller] /\ ControllerInv(c)' /\ \A d \in Controllers \ {c} : ctl'[d] = ctl[d]
  <2> DEFINE k == [Idle EXCEPT !.pc = "dead"]
  <2>0. Idle \in Controller /\ \A x \in Controller : [x EXCEPT !.pc = "dead"] \in Controller
    BY <1>1, ControllerWritten DEF CouncilTypeOK, Controller
  <2>1. k \in Controller /\ k.pc = "dead" /\ k.todo = <<>>
    BY <2>0 DEF Idle
  <2> HIDE DEF k
  <2>2. ctl' = [ctl EXCEPT ![c] = k]
    BY <1>1 DEF k
  <2>3. ctl' \in [Controllers -> Controller] /\ ctl'[c] = k /\ \A d \in Controllers \ {c} : ctl'[d] = ctl[d]
    BY <1>1, <2>1, <2>2 DEF CouncilTypeOK
  <2> QED
    BY <2>1, <2>3, IdleKnows
<1>4. /\ reports' \in [ReviewJobs -> Report \cup {NoReport, TornReport}]
      /\ \A i \in ReviewJobs : reports[i] # NoReport => reports'[i] = reports[i]
  <2>1. CASE reports' = reports
    BY <1>1, <2>1 DEF CouncilTypeOK
  <2>2. CASE reports' = [reports EXCEPT ![j] = TornReport] /\ reports[j] = NoReport
    BY <1>1, <2>2 DEF CouncilTypeOK
  <2> QED
    BY <1>0, <2>1, <2>2 DEF Crash
<1>5. \A i \in imported' : reports'[i] # NoReport
  BY <1>1, <1>4 DEF SlotsInv, CouncilTypeOK
<1>6. /\ slots' \in [Jobs -> Slot]
      /\ \A i \in Jobs : /\ slots'[i].qualification = "passed" => slots[i].qualification = "passed"
                         /\ slots[i].dir => slots'[i].dir
      /\ \A i \in ReviewJobs : slots'[i].dir => slots[i].dir
  <2>1. CASE slots' = slots
    BY <1>1, <2>1 DEF CouncilTypeOK
  <2>2. CASE slots' = [slots EXCEPT ![j].receipt = "torn"]
    <3>1. "torn" \in Outcomes
      BY DEF Outcomes
    <3>2. slots' \in [Jobs -> Slot]
      BY <1>1, <1>2, <2>2, <3>1, SlotWritten DEF CouncilTypeOK
    <3>3. \A i \in Jobs : slots'[i].qualification = slots[i].qualification /\ slots'[i].dir = slots[i].dir
      BY <1>1, <1>2, <2>2 DEF CouncilTypeOK, Slot
    <3> QED
      BY <3>2, <3>3, JobForms
  <2>3. CASE slots' = [slots EXCEPT ![j].qualification = "torn"]
    <3>1. "torn" \in Outcomes
      BY DEF Outcomes
    <3>2. slots' \in [Jobs -> Slot]
      BY <1>1, <1>2, <2>3, <3>1, SlotWritten DEF CouncilTypeOK
    <3>3. /\ \A i \in Jobs \ {j} : slots'[i] = slots[i]
          /\ slots'[j].qualification = "torn" /\ slots'[j].dir = slots[j].dir
      BY <1>1, <1>2, <2>3 DEF CouncilTypeOK, Slot
    <3> QED
      BY <3>2, <3>3, JobForms
  <2>4. CASE \E text \in {"none", "torn"} : slots' = AggregateLeft(text)
    <3>1. PICK text \in {"none", "torn"} : slots' = AggregateLeft(text)
      BY <2>4
    <3>2. text \in Outcomes
      BY DEF Outcomes
    <3>3. PICK g : g = GateJob("fuzz")
      OBVIOUS
    <3>4. g \in Jobs /\ g \notin ReviewJobs
      BY <3>3, JobForms
    <3>5. slots' = [slots EXCEPT ![g].dir = TRUE, ![g].receipt = text]
      BY <3>1, <3>3 DEF AggregateLeft
    <3>6. slots' \in [Jobs -> Slot]
      <4>1. slots[g] \in Slot
        BY <1>1, <3>4 DEF CouncilTypeOK
      <4>2. [slots[g] EXCEPT !.dir = TRUE, !.receipt = text] \in Slot
        BY <3>2, <4>1, SlotWritten
      <4> QED
        BY <1>1, <3>4, <3>5, <4>2 DEF CouncilTypeOK
    <3>7. /\ \A i \in Jobs : slots'[i].qualification = slots[i].qualification
          /\ \A i \in Jobs \ {g} : slots'[i] = slots[i]
          /\ slots'[g].dir
      BY <1>1, <3>4, <3>5 DEF CouncilTypeOK, Slot
    <3> QED
      BY <3>4, <3>6, <3>7, JobForms
  <2> QED
    BY <1>0, <2>1, <2>2, <2>3, <2>4 DEF Crash
<1>7. WriteOnce
  BY <1>1, <1>4, <1>6 DEF WriteOnce
<1>8. SlotsInv'
  <2>1. \A i \in worked' : slots'[i].dir
    BY <1>1, <1>6 DEF SlotsInv, CouncilTypeOK
  <2> QED
    BY <1>1, <1>5, <1>6, <1>7, <2>1, SlotsKept
<1>9. CouncilTypeOK'
  BY <1>1, <1>3, <1>4, <1>6 DEF CouncilTypeOK
<1> QED
  BY <1>1, <1>3, <1>7, <1>8, <1>9, OneMoves

\* A report is brought by hand, and checked.
LEMMA ImportCheckStep ==
  ASSUME CouncilInv, NEW c \in Controllers, NEW j \in ReviewJobs, NEW report \in Reports[j],
         import(c, j, report)
  PROVE  CouncilInv'
<1> DEFINE brought == {<<j[2], report>>}
           k == [Idle EXCEPT !.pc = "import", !.job = j, !.prior = brought]
<1>1. CouncilTypeOK /\ ctl' = [ctl EXCEPT ![c] = k]
  BY DEF CouncilInv, import
<1>2. j \in Jobs /\ brought \subseteq Reviewers \X Report
  BY JobForms, ReportForms
<1> HIDE DEF brought
<1>3. k \in Controller /\ k.pc = "import" /\ k.job = j /\ k.todo = <<>>
  <2>1. Idle \in Controller
    BY <1>1, ControllerWritten DEF CouncilTypeOK
  <2>2. \A x \in Controller : [x EXCEPT !.pc = "import", !.job = j, !.prior = brought] \in Controller
    BY <1>2 DEF Controller
  <2> QED
    BY <2>1, <2>2 DEF Idle
<1> HIDE DEF k
<1>4. CouncilTypeOK'
  BY <1>1, <1>3 DEF CouncilTypeOK, import
<1>5. ctl'[c] = k /\ \A d \in Controllers \ {c} : ctl'[d] = ctl[d]
  BY <1>1 DEF CouncilTypeOK
<1>6. WriteOnce /\ SlotsInv'
  BY QuietStep DEF import
<1>7. ControllerInv(c)'
  BY <1>3, <1>5 DEF ControllerInv
<1> QED
  BY <1>4, <1>5, <1>6, <1>7, OneMoves DEF import

\* The report brought by hand is written, a new file, or refused.
LEMMA ImportWriteStep ==
  ASSUME CouncilInv, NEW c \in Controllers, ImportWrite(c)
  PROVE  CouncilInv'
<1>0. PICK j : j = ctl[c].job
  OBVIOUS
<1>1. /\ CouncilTypeOK /\ ControllerInv(c) /\ SlotsInv /\ ctl[c].pc = "import"
      /\ ctl' = [ctl EXCEPT ![c] = Idle]
      /\ UNCHANGED <<slots, lock, fresh, edits, starts, reader, worked, shown>>
  BY DEF CouncilInv, ImportWrite
<1>2. j \in ReviewJobs
  BY <1>0, <1>1 DEF ControllerInv
<1>3. /\ ctl' \in [Controllers -> Controller] /\ ctl'[c] = Idle
      /\ \A d \in Controllers \ {c} : ctl'[d] = ctl[d]
  BY <1>1, ControllerWritten, ZenonT(40) DEF CouncilTypeOK
<1>4. ControllerInv(c)'
  BY <1>3, IdleKnows DEF Idle
<1>5. CASE reports[j] # NoReport
  <2>1. UNCHANGED <<reports, imported>>
    BY <1>0, <1>5 DEF ImportWrite
  <2>2. WriteOnce /\ SlotsInv'
    BY <1>1, <2>1, QuietStep
  <2>3. CouncilTypeOK'
    BY <1>1, <1>3, <2>1 DEF CouncilTypeOK
  <2> QED
    BY <1>1, <1>3, <1>4, <2>2, <2>3, OneMoves
<1>6. CASE reports[j] = NoReport
  <2>1. PICK p \in ctl[c].prior : reports' = [reports EXCEPT ![j] = p[2]] /\ imported' = imported \cup {j}
    BY <1>0, <1>6 DEF ImportWrite
  <2>2. p[2] \in Report
    BY <1>1, ControllerTypes
  <2>3. CouncilTypeOK'
    BY <1>1, <1>2, <1>3, <2>1, <2>2 DEF CouncilTypeOK
  <2>4. reports'[j] # NoReport /\ \A i \in ReviewJobs \ {j} : reports'[i] = reports[i]
    BY <1>1, <1>2, <2>1, <2>2, ReportForms DEF CouncilTypeOK
  <2>5. WriteOnce
    BY <1>1, <1>6, <2>1, <2>4 DEF WriteOnce
  <2>6. SlotsInv'
    <3>1. \A i \in imported' : reports'[i] # NoReport
      BY <1>1, <2>1, <2>4 DEF SlotsInv, CouncilTypeOK
    <3> QED
      BY <1>1, <2>5, <3>1, SlotsKept DEF SlotsInv
  <2> QED
    BY <1>1, <1>3, <1>4, <2>3, <2>5, <2>6, OneMoves
<1> QED
  BY <1>5, <1>6

\* The operator removes the lock of a controller that is dead.
LEMMA RemoveLockStep ==
  ASSUME CouncilInv, RemoveLock
  PROVE  CouncilInv'
<1>0. PICK c : c = lock
  OBVIOUS
<1>1. /\ CouncilTypeOK /\ c \in Controllers /\ ctl' = [ctl EXCEPT ![c] = Idle] /\ lock' = "free"
      /\ UNCHANGED <<slots, reports, fresh, edits, starts, reader, worked, shown, imported>>
  BY <1>0 DEF CouncilInv, RemoveLock, CouncilTypeOK
<1>2. Release(c)
  BY <1>1 DEF Release
<1>3. CouncilTypeOK'
  BY <1>1, <1>2, Released DEF CouncilTypeOK
<1> QED
  BY <1>1, <1>2, <1>3, Released, QuietStep, OneMoves

\* Someone edits the workspace.
LEMMA EditStep ==
  ASSUME CouncilInv, Edit
  PROVE  CouncilInv'
<1>1. CouncilTypeOK'
  BY DEF CouncilInv, CouncilTypeOK, Edit
<1>2. WriteOnce /\ SlotsInv' /\ UNCHANGED <<ctl, reader>>
  BY QuietStep DEF Edit
<1>3. \A c \in Controllers : ControllerInv(c)'
  BY <1>2, ControllerKept
<1> QED
  BY <1>1, <1>2, <1>3, ReaderKept DEF CouncilInv
-----------------------------------------------------------------------------
(* The status *)

\* A slot that counts as passed was earned; the aggregate of several fuzz targets only
\* stands for them.
LEMMA ReceiptEarned ==
  ASSUME CouncilInv, NEW j \in Jobs, receipt(j) = "passed", ~(j = GateJob("fuzz") /\ Aggregated)
  PROVE  Earned(j)
<1>1. slots[j] \in Slot /\ SlotsInv
  BY DEF CouncilInv, CouncilTypeOK
<1>2. slots[j].refusal # "passed"
  BY <1>1 DEF Slot
<1>3. slots[j].qualification = "passed"
  BY <1>2 DEF receipt
<1> QED
  BY <1>1, <1>3 DEF SlotsInv

\* A job whose execution counts did its work, the fuzz gate with every target.
LEMMA ExecutionEarned ==
  ASSUME CouncilInv, NEW j, check_execution(executions, j)
  PROVE  /\ j \in ReviewJobs => Earned(j)
         /\ \A g \in AllGates : j = GateJob(g) => GateWork(g) \subseteq worked
<1> DEFINE found == {i \in Jobs : slots[i].receipt # "none"}
           aggregate == j = GateJob("fuzz") /\ Aggregated
           AllPassed == \A t \in FuzzJobs : t \in found /\ receipt(t) = "passed"
<1>1. /\ j \in found
      /\ executions[j].outcome = IF aggregate THEN IF AllPassed THEN "passed" ELSE "inconclusive"
                                 ELSE receipt(j)
      /\ executions[j].outcome = "passed"
  BY DEF check_execution, executions
<1>2. j \in Jobs
  BY <1>1
<1>3. CASE aggregate
  <2>1. AllPassed
    BY <1>1, <1>3
  <2>2. \A t \in FuzzJobs : t \in Jobs /\ t # GateJob("fuzz")
    <3>1. Cardinality(Targets) # 1
      BY <1>3, CouncilAssumption, FS_CardinalityType DEF Aggregated
    <3> QED
      BY <3>1, JobForms DEF FuzzJobs, GateJob, TargetJob
  <2>3. \A t \in FuzzJobs : Earned(t)
    BY <2>1, <2>2, ReceiptEarned
  <2>4. FuzzJobs \subseteq worked
    BY <2>3 DEF Earned
  <2>5. j \notin ReviewJobs /\ \A g \in AllGates : j = GateJob(g) => g = "fuzz"
    BY <1>3, JobForms DEF GateJob
  <2> QED
    BY <2>4, <2>5 DEF GateWork
<1>4. CASE ~aggregate
  <2>1. receipt(j) = "passed"
    BY <1>1, <1>4
  <2>2. Earned(j)
    BY <1>2, <1>4, <2>1, ReceiptEarned
  <2>3. ASSUME NEW g \in AllGates, j = GateJob(g) PROVE GateWork(g) \subseteq worked
    <3>1. CASE g = "fuzz"
      <4>1. Cardinality(Targets) = 1
        <5>1. ~Aggregated /\ Cardinality(Targets) \in Nat
          BY <1>4, <2>3, <3>1, CouncilAssumption, FS_CardinalityType
        <5>2. Cardinality(Targets) # 0
          BY CouncilAssumption, FS_EmptySet
        <5> QED
          BY <5>1, <5>2 DEF Aggregated
      <4> QED
        BY <2>2, <2>3, <3>1, <4>1 DEF GateWork, FuzzJobs, Earned
    <3>2. CASE g # "fuzz"
      BY <2>2, <2>3, <3>2 DEF GateWork, Earned
    <3> QED
      BY <3>1, <3>2
  <2> QED
    BY <2>2, <2>3
<1> QED
  BY <1>3, <1>4

\* The reports that were read, as the assessment takes them.
There == {j \in ReviewJobs : reader.reports[j] # NoReport}
Assessed == assess([j \in There |-> reader.reports[j]], executions, fresh, check_lineage(Roster, Builder))

\* A run assessed as ready earned it.
LEMMA AssessedEarned ==
  ASSUME CouncilInv, Assessed
  PROVE  /\ fresh = TRUE
         /\ \A j \in ReviewJobs : reader.reports[j] # NoReport /\ Earned(j)
         /\ \A g \in Needed : GateWork(g) \subseteq worked
<1> DEFINE read == [j \in There |-> reader.reports[j]]
<1>1. /\ fresh
      /\ \A r \in Reviewers, round \in Rounds :
            check_execution(executions, ReviewJob(r, round)) /\ ReviewJob(r, round) \in DOMAIN read
      /\ \A g \in Required(Profile) \cup UNION {read[j].checks : j \in DOMAIN read} :
            check_execution(executions, GateJob(g))
  BY DEF Assessed, assess
<1>2. fresh = TRUE
  BY <1>1 DEF CouncilInv, CouncilTypeOK
<1>3. \A j \in ReviewJobs : check_execution(executions, j) /\ j \in DOMAIN read
  BY <1>1, JobForms
<1>4. \A j \in ReviewJobs : reader.reports[j] # NoReport /\ j \in There
  BY <1>3 DEF There
<1>5. \A j \in ReviewJobs : Earned(j)
  BY <1>3, ExecutionEarned
<1>6. There = ReviewJobs
  BY <1>4 DEF There
<1>7. \A j \in ReviewJobs : reader.reports[j] \in Report /\ reader.reports[j].checks \subseteq AllGates
  BY <1>4 DEF CouncilInv, CouncilTypeOK, Reader, Report
<1>8. ASSUME NEW g \in Needed PROVE g \in AllGates /\ check_execution(executions, GateJob(g))
  BY <1>1, <1>6, <1>7, JobForms DEF Needed, Gates
<1>9. ASSUME NEW g \in Needed PROVE GateWork(g) \subseteq worked
  BY <1>8, ExecutionEarned
<1> QED
  BY <1>2, <1>4, <1>5, <1>9

\* The parts of the reader.
LEMMA ReaderParts ==
  ASSUME CouncilTypeOK
  PROVE  /\ reader.pc \in {"reports", "receipts", "lock", "done"}
         /\ reader.reports \in [ReviewJobs -> Report \cup {NoReport}]
         /\ reader.ready \in BOOLEAN /\ reader.fresh \in BOOLEAN
         /\ \A p \in {"receipts", "lock", "done"} : [reader EXCEPT !.pc = p] \in Reader
         /\ \A R \in [ReviewJobs -> Report \cup {NoReport}] :
               [reader EXCEPT !.pc = "receipts", !.reports = R] \in Reader
         /\ \A a, b \in BOOLEAN : [reader EXCEPT !.pc = "lock", !.ready = a, !.fresh = b] \in Reader
         /\ \A a \in BOOLEAN : [reader EXCEPT !.pc = "done", !.ready = a] \in Reader
<1>1. reader \in Reader
  BY DEF CouncilTypeOK
<1> QED
  BY <1>1 DEF Reader

\* A step of the reader changes nothing else.
LEMMA ReaderMoves ==
  ASSUME CouncilInv, reader' \in Reader, ReaderInv',
         UNCHANGED <<slots, reports, lock, fresh, edits, starts, ctl, worked, shown, imported>>
  PROVE  CouncilInv'
<1>1. CouncilTypeOK'
  BY DEF CouncilInv, CouncilTypeOK
<1>2. WriteOnce /\ SlotsInv'
  BY QuietStep
<1>3. \A c \in Controllers : ControllerInv(c)'
  BY <1>2, ControllerKept
<1> QED
  BY <1>1, <1>2, <1>3 DEF CouncilInv

\* The reports are read.
LEMMA ReadReportsStep ==
  ASSUME CouncilInv, ReadReports
  PROVE  CouncilInv'
<1>1. /\ CouncilTypeOK /\ ReaderInv /\ reader.pc = "reports"
      /\ UNCHANGED <<slots, reports, lock, fresh, edits, starts, ctl, worked, shown, imported>>
  BY DEF CouncilInv, ReadReports
<1>2. ~reader.ready
  BY <1>1 DEF ReaderInv
<1>3. CASE \E j \in ReviewJobs : reports[j] = TornReport
  <2>1. reader' = [reader EXCEPT !.pc = "done"]
    BY <1>3 DEF ReadReports
  <2>2. reader' \in Reader
    BY <1>1, <2>1, ReaderParts
  <2>3. reader'.ready = reader.ready /\ reader'.reports = reader.reports
    BY <1>1, <2>1 DEF CouncilTypeOK, Reader
  <2>4. ReaderInv'
    BY <1>1, <1>2, <2>3 DEF ReaderInv
  <2> QED
    BY <1>1, <2>2, <2>4, ReaderMoves
<1>4. CASE ~\E j \in ReviewJobs : reports[j] = TornReport
  <2>1. reader' = [reader EXCEPT !.pc = "receipts", !.reports = reports]
    BY <1>4 DEF ReadReports
  <2>2. reports \in [ReviewJobs -> Report \cup {NoReport}]
    BY <1>1, <1>4 DEF CouncilTypeOK
  <2>3. reader' \in Reader
    BY <1>1, <2>1, <2>2, ReaderParts
  <2>4. reader'.ready = reader.ready /\ reader'.reports = reports
    BY <1>1, <2>1 DEF CouncilTypeOK, Reader
  <2>5. ReaderInv'
    BY <1>1, <1>2, <2>4 DEF ReaderInv
  <2> QED
    BY <1>1, <2>3, <2>5, ReaderMoves
<1> QED
  BY <1>3, <1>4

\* The receipts and the workspace are read, and the run is assessed.
LEMMA ReadReceiptsStep ==
  ASSUME CouncilInv, ReadReceipts
  PROVE  CouncilInv'
<1>1. /\ CouncilTypeOK /\ ReaderInv /\ reader.pc = "receipts"
      /\ UNCHANGED <<slots, reports, lock, fresh, edits, starts, ctl, worked, shown, imported>>
  BY DEF CouncilInv, ReadReceipts
<1>2. ~reader.ready
  BY <1>1 DEF ReaderInv
<1>3. CASE ~Readable
  <2>1. reader' = [reader EXCEPT !.pc = "done"]
    BY <1>3 DEF ReadReceipts
  <2>2. reader' \in Reader
    BY <1>1, <2>1, ReaderParts
  <2>3. reader'.ready = reader.ready /\ reader'.reports = reader.reports
    BY <1>1, <2>1 DEF CouncilTypeOK, Reader
  <2>4. ReaderInv'
    BY <1>1, <1>2, <2>3 DEF ReaderInv
  <2> QED
    BY <1>1, <2>2, <2>4, ReaderMoves
<1>4. CASE Readable
  <2>1. reader' = [reader EXCEPT !.pc = "lock", !.ready = Assessed, !.fresh = fresh]
    BY <1>4 DEF ReadReceipts, Assessed, There
  <2>2. Assessed \in BOOLEAN
    BY Zenon DEF Assessed, assess
  <2>3. PICK a \in BOOLEAN : a = Assessed
    BY <2>2
  <2>4. PICK b \in BOOLEAN : b = fresh
    BY <1>1 DEF CouncilTypeOK
  <2>5. reader' = [reader EXCEPT !.pc = "lock", !.ready = a, !.fresh = b]
    BY <2>1, <2>3, <2>4
  <2>6. reader' \in Reader
    BY <1>1, <2>5, ReaderParts
  <2>7. reader'.pc = "lock" /\ reader'.ready = a /\ reader'.fresh = b /\ reader'.reports = reader.reports
    BY <1>1, <2>5 DEF CouncilTypeOK, Reader
  <2>8. Needed' = Needed /\ \A j : Earned(j)' = Earned(j)
    BY <1>1, <2>7 DEF Needed, Earned
  <2>9. a => /\ b
             /\ \A j \in ReviewJobs : reader.reports[j] # NoReport /\ Earned(j)
             /\ \A g \in Needed : GateWork(g) \subseteq worked
    BY <2>3, <2>4, AssessedEarned
  <2>10. ReaderInv'
    BY <1>1, <2>7, <2>8, <2>9 DEF ReaderInv
  <2> QED
    BY <1>1, <2>6, <2>10, ReaderMoves
<1> QED
  BY <1>3, <1>4

\* The lock is looked at.
LEMMA ReadLockStep ==
  ASSUME CouncilInv, ReadLock
  PROVE  CouncilInv'
<1>1. /\ CouncilTypeOK /\ ReaderInv
      /\ UNCHANGED <<slots, reports, lock, fresh, edits, starts, ctl, worked, shown, imported>>
      /\ reader' = [reader EXCEPT !.pc = "done", !.ready = reader.ready /\ lock = "free"]
  BY DEF CouncilInv, ReadLock
<1>2. PICK a \in BOOLEAN : a = (reader.ready /\ lock = "free")
  BY Zenon
<1>3. reader' = [reader EXCEPT !.pc = "done", !.ready = a]
  BY <1>1, <1>2
<1>4. reader' \in Reader
  BY <1>1, <1>3, ReaderParts
<1>5. reader'.pc = "done" /\ reader'.ready = a /\ reader'.fresh = reader.fresh /\ reader'.reports = reader.reports
  BY <1>1, <1>3 DEF CouncilTypeOK, Reader
<1>6. Needed' = Needed /\ \A j : Earned(j)' = Earned(j)
  BY <1>1, <1>5 DEF Needed, Earned
<1>7. a => reader.ready
  BY <1>2
<1>8. ReaderInv'
  BY <1>1, <1>5, <1>6, <1>7 DEF ReaderInv
<1> QED
  BY <1>1, <1>4, <1>8, ReaderMoves
-----------------------------------------------------------------------------
\* A run stands at its start as if what is done had been done in order.
LEMMA CouncilStarts == CouncilInit => CouncilInv
<1> SUFFICES ASSUME NEW open \in StillOpen, Standing(open), CouncilIdle(open), reader = NewReader
             PROVE  CouncilInv
  BY DEF CouncilInit
<1> USE DEF CouncilIdle
<1>1. CouncilTypeOK
  <2>1. \A j \in Jobs : Free \in Slot /\ Passed(j) \in Slot
    BY DEF Free, Passed, Slot, Outcomes, supervise
  <2>2. slots \in [Jobs -> Slot]
    BY <2>1
  <2>3. reports \in [ReviewJobs -> Report \cup {NoReport, TornReport}]
    BY ReportForms
  <2>4. ctl \in [Controllers -> Controller]
    <3>1. Idle \in Controller
      BY JobForms DEF Idle, Controller, Outcomes
    <3> QED
      BY <3>1
  <2>5. reader \in Reader
    BY DEF NewReader, Reader
  <2>6. shown \in [Jobs -> SUBSET (Reviewers \X Report)]
    BY ReportForms
  <2> QED
    BY <2>2, <2>3, <2>4, <2>5, <2>6 DEF CouncilTypeOK
<1>2. SlotsInv
  <2>1. \A j \in Jobs : /\ j \in open => ~slots[j].dir /\ slots[j].qualification = "none"
                        /\ j \notin open => slots[j].dir /\ j \in worked
    BY DEF Free, Passed
  <2>2. \A j \in ReviewJobs : j \notin open => reports[j] = Clean /\ Clean # NoReport
    BY ReportForms
  <2>3. \A j \in Jobs : slots[j].qualification = "passed" => Earned(j)
    BY <2>1, <2>2 DEF Earned
  <2>4. \A j \in worked : slots[j].dir
    BY <2>1
  <2>5. ASSUME NEW r \in Reviewers, slots[ReviewJob(r, "challenge")].dir
        PROVE  AllIndependent /\ shown[ReviewJob(r, "challenge")] = Said(r)
    <3>1. ReviewJob(r, "challenge") \in Jobs /\ ReviewJob(r, "challenge") \notin open
      BY <2>1, <2>5, JobForms DEF Rounds
    <3>2. \A o \in Reviewers : ReviewJob(o, "independent") \in ReviewJobs /\ ReviewJob(o, "independent") \notin open
      BY <3>1, JobForms DEF Standing, Rounds
    <3>3. \A o \in Reviewers : reports[ReviewJob(o, "independent")] = Clean
      BY <2>2, <3>2
    <3>4. AllIndependent
      BY <2>2, <3>2, <3>3 DEF AllIndependent, Independent
    <3>5. shown[ReviewJob(r, "challenge")] = {<<o, Clean>> : o \in Reviewers \ {r}}
      BY <3>1 DEF ReviewJob
    <3> QED
      BY <3>3, <3>4, <3>5 DEF Said
  <2> QED
    BY <2>3, <2>4, <2>5 DEF SlotsInv
<1>3. ASSUME NEW c \in Controllers PROVE ControllerInv(c)
  BY DEF ControllerInv, Idle
<1>4. ReaderInv
  BY DEF ReaderInv, NewReader
<1> QED
  BY <1>1, <1>2, <1>3, <1>4 DEF CouncilInv

\* Every step keeps what is known of the run.
LEMMA CouncilSteps ==
  ASSUME CouncilInv, [CouncilNext]_councilVars
  PROVE  CouncilInv'
<1>1. ASSUME NEW c \in Controllers, NEW j \in Watched \cap ReviewJobs, run_reviewer(c, j[2], j[3])
      PROVE  CouncilInv'
  BY <1>1, RunReviewerStep, JobForms
<1>2. ASSUME NEW c \in Controllers, NEW g \in AllGates, run_gate(c, g) PROVE CouncilInv'
  BY <1>2, RunGateStep
<1>3. ASSUME NEW c \in Controllers, NEW j \in Watched \cap ReviewJobs, NEW report \in Reports[j],
             import(c, j, report)
      PROVE  CouncilInv'
  BY <1>3, ImportCheckStep
<1>4. ASSUME NEW c \in Controllers, admit(c) \/ Earlier(c) \/ Begin(c) PROVE CouncilInv'
  BY <1>4, AdmitStep, EarlierStep, BeginStep
<1>5. ASSUME NEW c \in Controllers, NEW o \in supervise, NEW w \in BOOLEAN, NEW gone \in BOOLEAN,
             run(c, o, w, gone)
      PROVE  CouncilInv'
  BY <1>5, RunStep
<1>6. ASSUME NEW c \in Controllers, NEW report \in Reports[ctl[c].job], JudgeReview(c, report)
      PROVE  CouncilInv'
  BY <1>6, JudgeReviewStep
<1>7. ASSUME NEW c \in Controllers, qualify_gate(c) \/ Qualify(c) \/ Finish(c) \/ ImportWrite(c)
      PROVE  CouncilInv'
  BY <1>7, QualifyGateStep, QualifyStep, FinishStep, ImportWriteStep
<1>8. ASSUME NEW c \in Controllers, NEW torn \in BOOLEAN, Crash(c, torn) PROVE CouncilInv'
  BY <1>8, CrashStep
<1>9. ASSUME RemoveLock \/ Edit \/ ReadReports \/ ReadReceipts \/ ReadLock PROVE CouncilInv'
  BY <1>9, RemoveLockStep, EditStep, ReadReportsStep, ReadReceiptsStep, ReadLockStep
<1>10. ASSUME UNCHANGED councilVars PROVE CouncilInv'
  <2>1. UNCHANGED <<slots, reports, lock, fresh, edits, starts, ctl, worked, shown, imported>> /\ UNCHANGED reader
    BY <1>10 DEF councilVars
  <2>2. ReaderInv' /\ reader' \in Reader
    BY <2>1, QuietStep, ReaderKept DEF CouncilInv, CouncilTypeOK
  <2> QED
    BY <2>1, <2>2, ReaderMoves
<1> QED
  BY <1>1, <1>2, <1>3, <1>4, <1>5, <1>6, <1>7, <1>8, <1>9, <1>10 DEF CouncilNext

\* The run directory, the controllers and the reader always have their form.
THEOREM CouncilTypeCorrect == CouncilSpec => []CouncilTypeOK
<1>1. CouncilInv => CouncilTypeOK
  BY DEF CouncilInv
<1> QED
  BY <1>1, CouncilStarts, CouncilSteps, PTL DEF CouncilSpec

\* status says "ready for human review" only of a run whose every review and every
\* required or requested gate did its work, whatever is edited, imported, killed or
\* asked for meanwhile, and the challenges were shown what the others said.
THEOREM ReadyOnlyWhenEarned == CouncilSpec => []ReadyIsEarned
<1>1. ASSUME CouncilInv PROVE ReadyIsEarned
  <2> SUFFICES ASSUME reader.ready
               PROVE  /\ reader.fresh
                      /\ ReviewJobs \subseteq worked /\ imported = {}
                      /\ \A g \in Needed : GateWork(g) \subseteq worked
                      /\ \A r \in Reviewers : shown[ReviewJob(r, "challenge")] =
                            {<<o, reader.reports[ReviewJob(o, "independent")]>> : o \in Reviewers \ {r}}
    BY DEF ReadyIsEarned, Needed
  <2>1. CouncilTypeOK /\ SlotsInv /\ ReaderInv
    BY <1>1 DEF CouncilInv
  <2>2. \A j \in ReviewJobs : /\ j \in worked /\ j \notin imported
                              /\ reports[j] = reader.reports[j]
    BY <2>1 DEF ReaderInv, Earned
  <2>3. imported = {}
    BY <2>1, <2>2 DEF CouncilTypeOK
  <2>4. ASSUME NEW r \in Reviewers
        PROVE  shown[ReviewJob(r, "challenge")] =
                 {<<o, reader.reports[ReviewJob(o, "independent")]>> : o \in Reviewers \ {r}}
    <3>1. ReviewJob(r, "challenge") \in worked
      BY <2>2, JobForms DEF Rounds
    <3>2. shown[ReviewJob(r, "challenge")] = Said(r)
      BY <2>1, <3>1 DEF SlotsInv
    <3>3. \A o \in Reviewers : reports[ReviewJob(o, "independent")] = reader.reports[ReviewJob(o, "independent")]
      BY <2>2, JobForms DEF Rounds
    <3> QED
      BY <3>2, <3>3 DEF Said
  <2> QED
    BY <2>1, <2>2, <2>3, <2>4 DEF ReaderInv
<1> QED
  BY <1>1, CouncilStarts, CouncilSteps, PTL DEF CouncilSpec
-----------------------------------------------------------------------------
(* The preparation *)

Tree == [Files -> 0 .. 2]
Preparation ==
    [pc : {"request", "before", "capture", "after", "compare", "copy", "seal", "done", "refused"},
     at : 1 .. Len(Paths), live : Tree, before : Tree, after : Tree, text : 0 .. 2, snapshot : Tree,
     dir : {"absent", "made", "sealed"}, request : Requests, edits : Nat, touched : Nat, mutation_diff : Tree]

\* The pass that is going on has read the candidate.
HasRead == \E i \in 1 .. prep.at - 1 : Paths[i] = Candidate

\* How far an edit of the candidate can have come between the two fingerprints: one that
\* was seen by the first and by the text is seen by neither, one in between is seen by the
\* second.
CandidateInv ==
    LET b == prep.before[Candidate]
        a == prep.after[Candidate]
        l == prep.live[Candidate]
    IN  /\ prep.pc = "capture" => prep.at = 1
        /\ prep.pc = "capture" \/ (prep.pc = "before" /\ HasRead) => (prep.touched = 0 => l = b)
        /\ prep.pc = "after" /\ ~HasRead =>
              /\ prep.touched = 0 => prep.text = b /\ l = b
              /\ prep.touched = 1 => prep.text \in {b, l}
        /\ prep.pc = "compare" \/ (prep.pc = "after" /\ HasRead) => (prep.touched < 2 => prep.text \in {b, a})
        /\ prep.pc \in {"copy", "seal", "done"} => (prep.touched < 2 => prep.text = b)

\* What is sealed is what was fingerprinted.
SealInv == prep.dir = "sealed" => /\ prep.pc = "done"
                                  /\ prep.snapshot = prep.before /\ prep.mutation_diff = prep.snapshot

PrepareInv == prep \in Preparation /\ CandidateInv /\ SealInv

\* The candidate has one place in the inventory.
LEMMA CandidatePlace ==
  \E p \in 1 .. Len(Paths) : /\ Paths[p] = Candidate
                             /\ \A i \in 1 .. Len(Paths) : Paths[i] = Candidate => i = p
<1>1. Paths \in Seq(Files) /\ DOMAIN Paths = 1 .. Len(Paths) /\ Candidate \in Files
  BY PrepareAssumption
<1>2. PICK p \in DOMAIN Paths : Paths[p] = Candidate
  BY <1>1 DEF Files
<1> QED
  BY <1>1, <1>2, PrepareAssumption

LEMMA Inventory == Len(Paths) \in Nat /\ \A i \in 1 .. Len(Paths) : Paths[i] \in Files
  BY PrepareAssumption

\* The fields of a preparation.
LEMMA PreparationParts ==
  ASSUME prep \in Preparation
  PROVE  /\ prep.pc \in {"request", "before", "capture", "after", "compare", "copy", "seal", "done", "refused"}
         /\ prep.at \in 1 .. Len(Paths) /\ prep.text \in 0 .. 2 /\ prep.touched \in Nat /\ prep.edits \in Nat
         /\ prep.live \in Tree /\ prep.before \in Tree /\ prep.after \in Tree /\ prep.snapshot \in Tree
         /\ prep.mutation_diff \in Tree /\ prep.dir \in {"absent", "made", "sealed"}
         /\ prep.request \in Requests
  BY DEF Preparation

\* A pass writes what it read, and where it is.
LEMMA PassWritten ==
  ASSUME prep \in Preparation, NEW T \in Tree, NEW m \in 1 .. Len(Paths)
  PROVE  /\ [prep EXCEPT !.before = T, !.pc = "capture", !.at = m] \in Preparation
         /\ [prep EXCEPT !.before = T, !.at = m] \in Preparation
         /\ [prep EXCEPT !.after = T, !.pc = "compare", !.at = m] \in Preparation
         /\ [prep EXCEPT !.after = T, !.at = m] \in Preparation
         /\ [prep EXCEPT !.snapshot = T, !.pc = "seal", !.at = m] \in Preparation
         /\ [prep EXCEPT !.snapshot = T, !.at = m] \in Preparation
  BY DEF Preparation

\* The first fingerprint reads a file.
LEMMA BeforeStep ==
  ASSUME PrepareInv, prep.pc = "before",
         prep' = ReadInto([prep EXCEPT !.before[Paths[prep.at]] = prep.live[Paths[prep.at]]], "capture")
  PROVE  PrepareInv'
<1>1. PICK p \in 1 .. Len(Paths) : /\ Paths[p] = Candidate
                                   /\ \A i \in 1 .. Len(Paths) : Paths[i] = Candidate => i = p
  BY CandidatePlace
<1>2. PICK f \in Files : f = Paths[prep.at]
  BY Inventory, PreparationParts DEF PrepareInv
<1>3. PICK n \in 1 .. Len(Paths) : n = prep.at
  BY PreparationParts DEF PrepareInv
<1>4. PICK T \in Tree : T = [prep.before EXCEPT ![f] = prep.live[f]]
  BY <1>2, PreparationParts DEF PrepareInv, Tree
<1>5. prep' = IF n = Len(Paths) THEN [prep EXCEPT !.before = T, !.pc = "capture", !.at = 1]
                                ELSE [prep EXCEPT !.before = T, !.at = n + 1]
  BY <1>2, <1>3, <1>4, PreparationParts DEF PrepareInv, ReadInto, Preparation
<1>6. prep' \in Preparation
  <2>0. prep \in Preparation
    BY DEF PrepareInv
  <2>1. CASE n = Len(Paths)
    <3>1. 1 \in 1 .. Len(Paths)
      BY <1>3, Inventory
    <3>2. [prep EXCEPT !.before = T, !.pc = "capture", !.at = 1] \in Preparation
      BY ONLY <2>0, <3>1, T \in Tree, PassWritten
    <3> QED
      BY <1>5, <2>1, <3>2
  <2>2. CASE n # Len(Paths)
    <3>1. n + 1 \in 1 .. Len(Paths)
      BY <1>3, <2>2, Inventory
    <3>2. [prep EXCEPT !.before = T, !.at = n + 1] \in Preparation
      BY ONLY <2>0, <3>1, T \in Tree, PassWritten
    <3> QED
      BY <1>5, <2>2, <3>2
  <2> QED
    BY <2>1, <2>2
<1>7. /\ prep'.before = T /\ prep'.live = prep.live /\ prep'.touched = prep.touched /\ prep'.dir = prep.dir
      /\ prep'.pc \in {"before", "capture"}
      /\ prep'.pc = "capture" => n = Len(Paths) /\ prep'.at = 1
      /\ prep'.pc = "before" => prep'.at = n + 1
  BY <1>3, <1>5 DEF PrepareInv, Preparation
<1>8. HasRead <=> p < n
  BY <1>1, <1>3, Inventory DEF HasRead
<1>9. HasRead' /\ prep'.pc = "before" => p <= n
  BY <1>1, <1>3, <1>7, Inventory DEF HasRead
<1>10. prep'.pc = "capture" \/ (prep'.pc = "before" /\ HasRead') => p <= n
  BY <1>3, <1>7, <1>9, Inventory
<1>11. Candidate \in Files
  BY PrepareAssumption
<1>12. p = n => T[Candidate] = prep.live[Candidate]
  BY <1>1, <1>2, <1>3, <1>4, <1>11, PreparationParts DEF PrepareInv, Tree
<1>13. p < n => T[Candidate] = prep.before[Candidate]
  <2>1. p < n => f # Candidate
    BY <1>1, <1>2, <1>3, Inventory
  <2> QED
    BY <2>1, <1>4, <1>11, PreparationParts DEF PrepareInv, Tree
<1>14. CandidateInv'
  <2>1. prep'.pc = "capture" \/ (prep'.pc = "before" /\ HasRead') =>
           (prep.touched = 0 => prep.live[Candidate] = T[Candidate])
    <3>1. CASE p < n
      BY <1>8, <1>13, <3>1 DEF PrepareInv, CandidateInv
    <3>2. CASE p = n
      BY <1>12, <3>2
    <3> QED
      BY <1>1, <1>3, <1>10, <3>1, <3>2, Inventory
  <2>2. prep'.pc = "capture" => prep'.at = 1
    BY <1>7
  <2>3. prep'.pc \notin {"after", "compare", "copy", "seal", "done"}
    BY <1>7
  <2> QED
    BY <1>7, <2>1, <2>2, <2>3 DEF CandidateInv
<1>15. SealInv'
  BY <1>7 DEF PrepareInv, SealInv
<1> QED
  BY <1>6, <1>14, <1>15 DEF PrepareInv

\* The second fingerprint reads a file.
LEMMA AfterStep ==
  ASSUME PrepareInv, prep.pc = "after",
         prep' = ReadInto([prep EXCEPT !.after[Paths[prep.at]] = prep.live[Paths[prep.at]]], "compare")
  PROVE  PrepareInv'
<1>1. PICK p \in 1 .. Len(Paths) : /\ Paths[p] = Candidate
                                   /\ \A i \in 1 .. Len(Paths) : Paths[i] = Candidate => i = p
  BY CandidatePlace
<1>2. PICK f \in Files : f = Paths[prep.at]
  BY Inventory, PreparationParts DEF PrepareInv
<1>3. PICK n \in 1 .. Len(Paths) : n = prep.at
  BY PreparationParts DEF PrepareInv
<1>4. PICK T \in Tree : T = [prep.after EXCEPT ![f] = prep.live[f]]
  BY <1>2, PreparationParts DEF PrepareInv, Tree
<1>5. prep' = IF n = Len(Paths) THEN [prep EXCEPT !.after = T, !.pc = "compare", !.at = 1]
                                ELSE [prep EXCEPT !.after = T, !.at = n + 1]
  BY <1>2, <1>3, <1>4, PreparationParts DEF PrepareInv, ReadInto, Preparation
<1>6. prep' \in Preparation
  <2>0. prep \in Preparation
    BY DEF PrepareInv
  <2>1. CASE n = Len(Paths)
    <3>1. 1 \in 1 .. Len(Paths)
      BY <1>3, Inventory
    <3>2. [prep EXCEPT !.after = T, !.pc = "compare", !.at = 1] \in Preparation
      BY ONLY <2>0, <3>1, T \in Tree, PassWritten
    <3> QED
      BY <1>5, <2>1, <3>2
  <2>2. CASE n # Len(Paths)
    <3>1. n + 1 \in 1 .. Len(Paths)
      BY <1>3, <2>2, Inventory
    <3>2. [prep EXCEPT !.after = T, !.at = n + 1] \in Preparation
      BY ONLY <2>0, <3>1, T \in Tree, PassWritten
    <3> QED
      BY <1>5, <2>2, <3>2
  <2> QED
    BY <2>1, <2>2
<1>7. /\ prep'.after = T /\ prep'.live = prep.live /\ prep'.before = prep.before /\ prep'.text = prep.text
      /\ prep'.touched = prep.touched /\ prep'.dir = prep.dir
      /\ prep'.pc \in {"after", "compare"}
      /\ prep'.pc = "compare" => n = Len(Paths)
      /\ prep'.pc = "after" => prep'.at = n + 1
  BY <1>3, <1>5 DEF PrepareInv, Preparation
<1>8. HasRead <=> p < n
  BY <1>1, <1>3, Inventory DEF HasRead
<1>9. prep'.pc = "after" => (HasRead' <=> p < n + 1)
  BY <1>1, <1>3, <1>7, Inventory DEF HasRead
<1>10. Candidate \in Files
  BY PrepareAssumption
<1>11. p = n => T[Candidate] = prep.live[Candidate]
  BY <1>1, <1>2, <1>3, <1>4, <1>10, PreparationParts DEF PrepareInv, Tree
<1>12. p < n => T[Candidate] = prep.after[Candidate]
  <2>1. p < n => f # Candidate
    BY <1>1, <1>2, <1>3, Inventory
  <2> QED
    BY <2>1, <1>4, <1>10, PreparationParts DEF PrepareInv, Tree
<1>13. CASE prep'.pc = "after" /\ ~HasRead'
  <2>1. ~HasRead
    BY <1>1, <1>3, <1>8, <1>9, <1>13, Inventory
  <2>2. /\ prep.touched = 0 => prep.text = prep.before[Candidate] /\ prep.live[Candidate] = prep.before[Candidate]
        /\ prep.touched = 1 => prep.text \in {prep.before[Candidate], prep.live[Candidate]}
    BY <2>1 DEF PrepareInv, CandidateInv
  <2>3. CandidateInv'
    BY <1>7, <1>13, <2>2 DEF CandidateInv
  <2>4. SealInv'
    BY <1>7, <1>13 DEF PrepareInv, SealInv
  <2> QED
    BY <1>6, <2>3, <2>4 DEF PrepareInv
<1>14. CASE prep'.pc = "compare" \/ HasRead'
  <2>1. p <= n
    BY <1>3, <1>7, <1>9, <1>14, Inventory
  <2>2. prep.touched < 2 => prep.text \in {prep.before[Candidate], T[Candidate]}
    <3>1. CASE p = n
      <4>1. ~HasRead /\ prep.touched \in Nat
        BY <1>8, <3>1, PreparationParts DEF PrepareInv
      <4>2. /\ prep.touched = 0 => prep.text = prep.before[Candidate]
            /\ prep.touched = 1 => prep.text \in {prep.before[Candidate], prep.live[Candidate]}
        BY <4>1 DEF PrepareInv, CandidateInv
      <4> QED
        BY <1>11, <3>1, <4>1, <4>2
    <3>2. CASE p < n
      BY <1>8, <1>12, <3>2 DEF PrepareInv, CandidateInv
    <3> QED
      BY <1>3, <2>1, <3>1, <3>2, Inventory
  <2> QED
    BY <1>6, <1>7, <1>14, <2>2 DEF PrepareInv, CandidateInv, SealInv
<1> QED
  BY <1>7, <1>13, <1>14

\* The copy takes a file.
LEMMA CopyStep ==
  ASSUME PrepareInv, copy_tree
  PROVE  PrepareInv'
<1>1. PICK f \in Files : f = Paths[prep.at]
  BY Inventory, PreparationParts DEF PrepareInv
<1>2. PICK n \in 1 .. Len(Paths) : n = prep.at
  BY PreparationParts DEF PrepareInv
<1>3. PICK T \in Tree : T = [prep.snapshot EXCEPT ![f] = prep.live[f]]
  BY <1>1, PreparationParts DEF PrepareInv, Tree
<1>4. prep' = IF n = Len(Paths) THEN [prep EXCEPT !.snapshot = T, !.pc = "seal", !.at = 1]
                                ELSE [prep EXCEPT !.snapshot = T, !.at = n + 1]
  BY <1>1, <1>2, <1>3, PreparationParts DEF PrepareInv, ReadInto, Preparation, copy_tree
<1>5. prep' \in Preparation
  <2>0. prep \in Preparation
    BY DEF PrepareInv
  <2>1. CASE n = Len(Paths)
    <3>1. 1 \in 1 .. Len(Paths)
      BY <1>2, Inventory
    <3>2. [prep EXCEPT !.snapshot = T, !.pc = "seal", !.at = 1] \in Preparation
      BY ONLY <2>0, <3>1, T \in Tree, PassWritten
    <3> QED
      BY <1>4, <2>1, <3>2
  <2>2. CASE n # Len(Paths)
    <3>1. n + 1 \in 1 .. Len(Paths)
      BY <1>2, <2>2, Inventory
    <3>2. [prep EXCEPT !.snapshot = T, !.at = n + 1] \in Preparation
      BY ONLY <2>0, <3>1, T \in Tree, PassWritten
    <3> QED
      BY <1>4, <2>2, <3>2
  <2> QED
    BY <2>1, <2>2
<1>6. /\ prep.pc = "copy" /\ prep'.pc \in {"copy", "seal"}
      /\ prep'.before = prep.before /\ prep'.text = prep.text /\ prep'.touched = prep.touched /\ prep'.dir = prep.dir
  BY <1>4 DEF PrepareInv, Preparation, copy_tree
<1>7. CandidateInv' /\ SealInv'
  BY <1>6 DEF PrepareInv, CandidateInv, SealInv
<1> QED
  BY <1>5, <1>7 DEF PrepareInv

\* A refusal says nothing of the run.
LEMMA RefuseStep ==
  ASSUME PrepareInv, prep.pc # "done", Refuse \/ RefuseRemoving
  PROVE  PrepareInv'
<1>1. prep' \in Preparation
  BY ZenonT(40) DEF PrepareInv, Preparation, Refuse, RefuseRemoving
<1>2. prep'.pc = "refused" /\ prep'.dir \in {prep.dir, "absent"}
  BY DEF PrepareInv, Preparation, Refuse, RefuseRemoving
<1>3. CandidateInv' /\ SealInv'
  BY <1>2 DEF PrepareInv, CandidateInv, SealInv
<1> QED
  BY <1>1, <1>3 DEF PrepareInv

\* The request is admitted.
LEMMA AdmitRequestStep ==
  ASSUME PrepareInv, Admit
  PROVE  PrepareInv'
<1>1. CASE Refuse
  BY <1>1, RefuseStep DEF Admit
<1>2. CASE prep' = [prep EXCEPT !.pc = "before", !.at = 1]
  <2>1. 1 \in 1 .. Len(Paths)
    BY CandidatePlace, Inventory
  <2>2. prep' \in Preparation
    BY <1>2, <2>1 DEF PrepareInv, Preparation
  <2>3. prep'.pc = "before" /\ prep'.at = 1 /\ prep'.dir = prep.dir /\ prep.pc = "request"
    BY <1>2 DEF PrepareInv, Preparation, Admit
  <2>4. ~HasRead'
    BY <2>3 DEF HasRead
  <2>5. CandidateInv' /\ SealInv'
    BY <2>3, <2>4 DEF PrepareInv, CandidateInv, SealInv
  <2> QED
    BY <2>2, <2>5 DEF PrepareInv
<1> QED
  BY <1>1, <1>2 DEF Admit

\* The candidate's text is captured.
LEMMA CaptureStep ==
  ASSUME PrepareInv, NEW complete \in BOOLEAN, Capture(complete)
  PROVE  PrepareInv'
<1>1. CASE Refuse
  BY <1>1, RefuseStep DEF Capture
<1>2. CASE prep' = [prep EXCEPT !.pc = "after", !.text = prep.live[Candidate]]
  <2>1. PICK v \in 0 .. 2 : v = prep.live[Candidate]
    BY PreparationParts, PrepareAssumption DEF PrepareInv, Tree
  <2>2. prep' = [prep EXCEPT !.pc = "after", !.text = v]
    BY <1>2, <2>1
  <2>3. prep' \in Preparation
    BY <2>2 DEF PrepareInv, Preparation
  <2>4. /\ prep.pc = "capture" /\ prep'.pc = "after" /\ prep'.text = v /\ prep'.dir = prep.dir
        /\ prep'.before = prep.before /\ prep'.after = prep.after /\ prep'.live = prep.live
        /\ prep'.touched = prep.touched
    BY <2>2 DEF PrepareInv, Preparation, Capture
  <2>5. ~HasRead'
    <3>1. prep'.at = 1
      BY <2>2, <2>4 DEF PrepareInv, Preparation, CandidateInv
    <3> QED
      BY <3>1 DEF HasRead
  <2>6. CandidateInv' /\ SealInv'
    BY <2>1, <2>4, <2>5 DEF PrepareInv, CandidateInv, SealInv
  <2> QED
    BY <2>3, <2>6 DEF PrepareInv
<1> QED
  BY <1>1, <1>2 DEF Capture

\* The two fingerprints are compared: the text is then what the first one saw.
LEMMA CompareStep ==
  ASSUME PrepareInv, NEW baseIsAncestor \in BOOLEAN, Compare(baseIsAncestor)
  PROVE  PrepareInv'
<1>1. CASE Refuse
  BY <1>1, RefuseStep DEF Compare
<1>2. CASE prep.after = prep.before /\ prep' = [prep EXCEPT !.pc = "copy", !.dir = "made"]
  <2>1. prep' \in Preparation
    BY <1>2 DEF PrepareInv, Preparation
  <2>2. /\ prep.pc = "compare" /\ prep'.pc = "copy" /\ prep'.dir = "made" /\ prep'.text = prep.text
        /\ prep'.before = prep.before /\ prep'.touched = prep.touched
    BY <1>2 DEF PrepareInv, Preparation, Compare
  <2>3. CandidateInv' /\ SealInv'
    BY <1>2, <2>2 DEF PrepareInv, CandidateInv, SealInv
  <2> QED
    BY <2>1, <2>3 DEF PrepareInv
<1> QED
  BY <1>1, <1>2 DEF Compare

\* The copy is fingerprinted and the run sealed.
LEMMA SealStep ==
  ASSUME PrepareInv, NEW readable \in BOOLEAN, seal_run(readable)
  PROVE  PrepareInv'
<1>1. CASE RefuseRemoving
  BY <1>1, RefuseStep DEF seal_run
<1>2. CASE /\ prep.snapshot = prep.before
           /\ prep' = [prep EXCEPT !.pc = "done", !.dir = "sealed", !.mutation_diff = prep.snapshot]
  <2>1. prep' \in Preparation
    BY <1>2 DEF PrepareInv, Preparation
  <2>2. /\ prep.pc = "seal" /\ prep'.pc = "done" /\ prep'.text = prep.text /\ prep'.before = prep.before
        /\ prep'.snapshot = prep.snapshot /\ prep'.mutation_diff = prep.snapshot /\ prep'.touched = prep.touched
    BY <1>2 DEF PrepareInv, Preparation, seal_run
  <2>3. CandidateInv' /\ SealInv'
    BY <1>2, <2>2 DEF PrepareInv, CandidateInv, SealInv
  <2> QED
    BY <2>1, <2>3 DEF PrepareInv
<1> QED
  BY <1>1, <1>2 DEF seal_run, SnapshotVerified

\* Someone edits a file.
LEMMA EditFileStep ==
  ASSUME PrepareInv, NEW f \in Files, EditFile(f)
  PROVE  PrepareInv'
<1>1. PICK v \in Versions :
        prep' = [prep EXCEPT !.live[f] = v, !.edits = @ + 1, !.touched = @ + (IF f = Candidate THEN 1 ELSE 0)]
  BY DEF EditFile
<1>2. PICK T \in Tree : T = [prep.live EXCEPT ![f] = v]
  <2>1. v \in 0 .. 2 /\ prep.live \in [Files -> 0 .. 2]
    BY PreparationParts DEF PrepareInv, Tree, Versions
  <2> QED
    BY <2>1 DEF Tree
<1>3. PICK t \in Nat : t = prep.touched + (IF f = Candidate THEN 1 ELSE 0)
  BY PreparationParts DEF PrepareInv
<1>4. PICK e \in Nat : e = prep.edits + 1
  BY PreparationParts DEF PrepareInv
<1>5. prep' = [prep EXCEPT !.live = T, !.edits = e, !.touched = t]
  BY <1>1, <1>2, <1>3, <1>4 DEF PrepareInv, Preparation
<1>6. prep' \in Preparation
  BY <1>5 DEF PrepareInv, Preparation
<1>7. /\ prep'.pc = prep.pc /\ prep.pc # "done" /\ prep'.at = prep.at /\ prep'.before = prep.before
      /\ prep'.after = prep.after /\ prep'.text = prep.text /\ prep'.dir = prep.dir
      /\ prep'.live = T /\ prep'.touched = t
  BY <1>5 DEF PrepareInv, Preparation, EditFile
<1>8. HasRead' = HasRead
  BY <1>7 DEF HasRead
<1>9. f # Candidate => T[Candidate] = prep.live[Candidate] /\ t = prep.touched
  BY <1>2, <1>3, PreparationParts, PrepareAssumption DEF PrepareInv, Tree
<1>10. f = Candidate => t = prep.touched + 1
  BY <1>3
<1>11. prep.touched \in Nat
  BY PreparationParts DEF PrepareInv
<1>12. CandidateInv'
  <2>1. CASE f # Candidate
    BY <1>7, <1>8, <1>9, <2>1 DEF PrepareInv, CandidateInv
  <2>2. CASE f = Candidate
    BY <1>7, <1>8, <1>10, <1>11, <2>2 DEF PrepareInv, CandidateInv
  <2> QED
    BY <2>1, <2>2
<1>13. SealInv'
  BY <1>7 DEF PrepareInv, SealInv
<1> QED
  BY <1>6, <1>12, <1>13 DEF PrepareInv

\* A preparation starts with nothing read.
LEMMA PrepareStarts == PrepareInit => PrepareInv
<1> SUFFICES ASSUME NEW q \in Requests, NEW live \in [Files -> Versions], prep = PrepareStart(q, live)
             PROVE  PrepareInv
  BY DEF PrepareInit
<1>1. 1 \in 1 .. Len(Paths)
  BY CandidatePlace, Inventory
<1>2. live \in Tree /\ NoTree \in Tree
  BY DEF Tree, Versions, NoTree
<1>3. prep \in Preparation
  BY <1>1, <1>2 DEF PrepareStart, Preparation
<1>4. prep.pc = "request" /\ prep.dir = "absent"
  BY DEF PrepareStart
<1> QED
  BY <1>3, <1>4 DEF PrepareInv, CandidateInv, SealInv

\* Every step keeps what is known of the preparation.
LEMMA PrepareSteps ==
  ASSUME PrepareInv, [PrepareNext]_prep
  PROVE  PrepareInv'
<1>1. CASE Admit
  BY <1>1, AdmitRequestStep
<1>2. CASE fingerprint_tree
  BY <1>2, BeforeStep, AfterStep DEF fingerprint_tree
<1>3. CASE copy_tree
  BY <1>3, CopyStep
<1>4. CASE PrepareCrash
  BY <1>4, RefuseStep DEF PrepareCrash
<1>5. ASSUME NEW ok \in BOOLEAN, Capture(ok) \/ Compare(ok) \/ seal_run(ok) PROVE PrepareInv'
  BY <1>5, CaptureStep, CompareStep, SealStep
<1>6. ASSUME NEW f \in Files, EditFile(f) PROVE PrepareInv'
  BY <1>6, EditFileStep
<1>7. CASE UNCHANGED prep
  BY <1>7 DEF PrepareInv, CandidateInv, SealInv, HasRead
<1> QED
  BY <1>1, <1>2, <1>3, <1>4, <1>5, <1>6, <1>7 DEF PrepareNext

\* A sealed run reviews and tests the same bytes: the snapshot is the fingerprinted tree
\* and, unless the candidate was edited twice meanwhile, its text is the snapshot's.
THEOREM SealsWhatItShows == PrepareSpec => []SealedTogether
<1>1. PrepareInv => SealedTogether
  BY DEF PrepareInv, CandidateInv, SealInv, SealedTogether
<1> QED
  BY <1>1, PrepareStarts, PrepareSteps, PTL DEF PrepareSpec

-----------------------------------------------------------------------------
(* What a gate is given *)

\* A tree that the walk accepts has nothing in it that the copy would change.
LEMMA CopyIsTree ==
    ASSUME NEW tree, tree \subseteq TreeEntries, walk_tree(tree).ok
    PROVE  walk_tree(tree).copy = tree /\ \A e \in tree : e.kind # "symlink"
<1>1. \A e \in tree : e.kind \in {"dir", "file", "executable"}
  BY DEF walk_tree
<1>2. \A e \in tree : e.kind = "executable" => [e EXCEPT !.kind = "executable"] = e
  BY DEF TreeEntries
<1>3. walk_tree(tree).copy = {IF e.kind \in {"dir", "file"} THEN e ELSE [e EXCEPT !.kind = "executable"] : e \in tree}
  BY DEF walk_tree
<1>4. \A e \in tree : (IF e.kind \in {"dir", "file"} THEN e ELSE [e EXCEPT !.kind = "executable"]) = e
  BY <1>1, <1>2
<1> QED
  BY <1>1, <1>3, <1>4

\* Of every repository and every vendored tree: a gate that is admitted sees the snapshot, all of
\* it and nothing else (sandbox.rs refuse_snapshot_paths, argv; execution.rs seal_tree).
THEOREM GatesAlwaysSeeSealedBytes == BoxInit => GatesSeeTheSealedBytes
<1> SUFFICES ASSUME BoxInit PROVE GatesSeeTheSealedBytes
  OBVIOUS
<1>1. box.deleted \subseteq box.inventory /\ box.tree \subseteq TreeEntries
  BY TreesAreEntries DEF BoxInit
<1>2. ASSUME ~refuse_snapshot_paths(box)
      PROVE  Visible(box) = box.inventory \ box.deleted
  <2>1. \A p \in Copied(box), m \in argv(Launch(box)).tmpfs : ~IsPrefix(m, p)
    BY <1>2 DEF argv, Copied, refuse_snapshot_paths, Artifact
  <2> QED
    BY <2>1 DEF Visible, Copied
<1>3. ASSUME ~refuse_snapshot_paths(box), NEW p \in Visible(box) PROVE ~Toolchain(p)
  BY <1>2, <1>3 DEF refuse_snapshot_paths
<1>4. ASSUME ~refuse_snapshot_paths(box), NEW m \in prepare_work(box), NEW p \in box.deleted
      PROVE  ~IsPrefix(m, p)
  BY <1>1, <1>4 DEF refuse_snapshot_paths, prepare_work, Artifact
<1>5. argv(Launch(box)).network => box.gate = "vendor"
  BY DEF argv, Launch
<1>6. argv(Launch([box EXCEPT !.gate = "oracle"])) = argv(Launch([box EXCEPT !.gate = "mutation"]))
  <2>1. [box EXCEPT !.gate = "oracle"].gate = "oracle" /\ [box EXCEPT !.gate = "mutation"].gate = "mutation"
    BY DEF BoxInit
  <2> QED
    BY <2>1 DEF Launch, stage_inputs
<1>7. ASSUME seal_tree(box.tree) PROVE walk_tree(box.tree).copy = box.tree /\ \A e \in box.tree : e.kind # "symlink"
  BY <1>1, <1>7, CopyIsTree DEF seal_tree
<1> QED
  BY <1>2, <1>3, <1>4, <1>5, <1>6, <1>7 DEF GatesSeeTheSealedBytes
=============================================================================
