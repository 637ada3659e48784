----------------------------- MODULE TuicrExport ------------------------------
(***************************************************************************)
(* export-tuicr, crates/deep-diff-forge-review/src/tuicr.rs: the admitted  *)
(* reports of a run become draft notes of a tuicr session.                 *)
(*                                                                         *)
(* Exporters may run at once and die anywhere; the `tuicr review add` they *)
(* start outlives them.  A note is known by its content, so the session is *)
(* the number of comments with the content of each note; a human removes   *)
(* or rewrites a comment, an operator clears a marker that an interrupted  *)
(* export left.  What a finding cites, a report's standing and the state   *)
(* of the session file are chosen at the start.                            *)
(***************************************************************************)
EXTENDS Naturals, SequencesExt

CONSTANTS Exporters, \* processes that run export-tuicr --execute
          XNotes,    \* the notes of the plan; each is one finding's
          NoNote

ASSUME NoNoteIsNone == NoNote \notin XNotes

VARIABLES cited,     \* cited[n]: what there is behind the citation of n
          standing,  \* the report the notes come from
          sessionKind,\* the session file
          lenient,   \* --allow-review-level
          markers,   \* notes with a .pending file
          ledger,    \* notes with a .json record
          copies,    \* comments of the session with the content of each note
          inFlight,  \* notes whose tuicr process is running
          xpc,       \* where each exporter is
          todo       \* the notes it still has to write, the current one first

xvars == <<cited, standing, sessionKind, lenient, markers, ledger, copies, inFlight, xpc, todo>>
facts == <<cited, standing, sessionKind, lenient>>

Citations == {"none", "unsealed", "unlisted", "unreadable", "changed", "out_of_range", "good"}
Standings == {"manual", "invalid", "unqualified", "transcript_differs", "admitted"}
SessionKinds == {"working_tree", "index", "commit", "forge", "unknown_version",
                 "other_repository", "commit_not_newest"}

\* anchor: a range of lines of the file, on its new side.
anchor(c) == IF c = "out_of_range" THEN "AnchorOutOfRange" ELSE "lines"

\* Binding::target: the first citation of a candidate file must be of sealed bytes
\* and of bytes that the session shows.
target(c) == CASE c = "none" -> "review"
               [] c = "unsealed" -> "refused"
               [] c \in {"unlisted", "unreadable", "changed"} -> "Unanchored"
               [] OTHER -> anchor(c)

\* plan: what it could not anchor becomes a note on the review, if that is allowed.
plan(c, allow) == IF target(c) \in {"Unanchored", "AnchorOutOfRange"}
                  THEN (IF allow THEN "review" ELSE "refused") ELSE target(c)

\* admitted_reports: a report without a qualification is skipped, one that does not
\* match its qualification, or whose transcript differs, stops the export.
admitted_reports(s) == CASE s = "manual" -> {}
                         [] s = "admitted" -> XNotes
                         [] OTHER -> {NoNote}

\* open_session and revision.
open_session(k) == k \in {"working_tree", "index", "commit"}

NoteSeq == SetToSeq(XNotes)
Planned == SelectSeq(NoteSeq, LAMBDA n : n \in admitted_reports(standing) /\ n \notin ledger)

XInit == /\ standing \in Standings /\ sessionKind \in SessionKinds /\ lenient \in BOOLEAN
         /\ \E c \in Citations, m \in XNotes : cited = [n \in XNotes |-> IF n = m THEN c ELSE "good"]
         /\ markers = {} /\ ledger = {} /\ inFlight = {}
         /\ copies = [n \in XNotes |-> 0]
         /\ xpc = [e \in Exporters |-> "idle"]
         /\ todo = [e \in Exporters |-> <<>>]
-----------------------------------------------------------------------------
Step(e, to) == xpc' = [xpc EXCEPT ![e] = to]
Stop(e) == Step(e, "idle") /\ todo' = [todo EXCEPT ![e] = <<>>]
Current(e) == Head(todo[e])
AtNote(e, at) == xpc[e] = at /\ todo[e] # <<>>

\* export_tuicr up to execute: the identity checks, the plan and the ledger's records.
\* A refusal or a dry run changes nothing.
export_tuicr(e) ==
  /\ xpc[e] = "idle"
  /\ NoNote \notin admitted_reports(standing)
  /\ open_session(sessionKind)
  /\ \A n \in admitted_reports(standing) : plan(cited[n], lenient) # "refused"
  /\ Planned # <<>>
  /\ todo' = [todo EXCEPT ![e] = Planned]
  /\ Step(e, "preflight")
  /\ UNCHANGED <<facts, markers, ledger, copies, inFlight>>

\* tuicr_binary and preflight: there is a tuicr, and it stores this session; a first
\* tuicr run that fails ends the export.
preflight(e) ==
  /\ xpc[e] = "preflight"
  /\ Stop(e) \/ (Step(e, "note") /\ UNCHANGED todo)
  /\ UNCHANGED <<facts, markers, ledger, copies, inFlight>>

\* A marker that exists: adopt the comment with the note's content, or give up.
Adopt(e) ==
  /\ AtNote(e, "note") /\ Current(e) \in markers
  /\ IF copies[Current(e)] > 0 THEN Step(e, "verify") /\ UNCHANGED todo ELSE Stop(e)
  /\ UNCHANGED <<facts, markers, ledger, copies, inFlight>>

\* No marker: one will be created.
SeeNoMarker(e) ==
  /\ AtNote(e, "note") /\ Current(e) \notin markers
  /\ Step(e, "mark")
  /\ UNCHANGED <<facts, markers, ledger, copies, inFlight, todo>>

\* write_new: another exporter may have made the marker meanwhile, and then it fails.
\* Otherwise tuicr is started.
WriteMarker(e) ==
  /\ AtNote(e, "mark")
  /\ IF Current(e) \in markers
     THEN Stop(e) /\ UNCHANGED <<markers, inFlight>>
     ELSE /\ markers' = markers \cup {Current(e)}
          /\ inFlight' \in {inFlight \cup {Current(e)}, inFlight} \* tuicr may not start
          /\ Step(e, "add") /\ UNCHANGED todo
  /\ UNCHANGED <<facts, ledger, copies>>

\* tuicr itself, a process of its own: the comment lands, or it does not.
TuicrEnds(n) ==
  /\ n \in inFlight
  /\ inFlight' = inFlight \ {n}
  /\ copies' \in {copies, [copies EXCEPT ![n] = @ + 1]}
  /\ UNCHANGED <<facts, markers, ledger, xpc, todo>>

\* tuicr has ended, or was killed at its deadline: created_id accepts its answer, which
\* it only gives when the comment is there, or the export has an error to clean up for.
AddReturns(e) ==
  /\ AtNote(e, "add") /\ Current(e) \notin inFlight
  /\ \/ copies[Current(e)] > 0 /\ Step(e, "verify")
     \/ Step(e, "failed")
  /\ UNCHANGED <<facts, markers, ledger, copies, inFlight, todo>>

\* A fault of FindAfterError: every error takes the marker back.
FindNothing(e) ==
  /\ AtNote(e, "failed")
  /\ Step(e, "unmark") /\ UNCHANGED todo
  /\ UNCHANGED <<facts, markers, ledger, copies, inFlight>>

\* The marker goes only once the session provably lacks the comment.
FindAfterError(e) ==
  /\ AtNote(e, "failed")
  /\ IF copies[Current(e)] = 0 THEN Step(e, "unmark") /\ UNCHANGED todo ELSE Stop(e)
  /\ UNCHANGED <<facts, markers, ledger, copies, inFlight>>

RemoveMarker(e) ==
  /\ AtNote(e, "unmark")
  /\ markers' = markers \ {Current(e)}
  /\ Stop(e)
  /\ UNCHANGED <<facts, ledger, copies, inFlight>>

\* The session, read again, must hold the comment: otherwise SessionDiverged.
VerifySession(e) ==
  /\ AtNote(e, "verify")
  /\ IF copies[Current(e)] > 0 THEN Step(e, "record") /\ UNCHANGED todo ELSE Stop(e)
  /\ UNCHANGED <<facts, markers, ledger, copies, inFlight>>

\* write_json creates the record; the next note is taken.
WriteRecord(e) ==
  /\ AtNote(e, "record")
  /\ ledger' = ledger \cup {Current(e)}
  /\ IF Current(e) \in ledger \/ Len(todo[e]) = 1 THEN Stop(e)
     ELSE Step(e, "note") /\ todo' = [todo EXCEPT ![e] = Tail(@)]
  /\ UNCHANGED <<facts, markers, copies, inFlight>>

\* Any file error, or the death of the process: what is on disk stays.
ExporterDies(e) ==
  /\ xpc[e] # "idle"
  /\ Stop(e)
  /\ UNCHANGED <<facts, markers, ledger, copies, inFlight>>

HumanRemoves(n) ==
  /\ copies[n] > 0
  /\ copies' = [copies EXCEPT ![n] = @ - 1]
  /\ UNCHANGED <<facts, markers, ledger, inFlight, xpc, todo>>

\* InterruptedExport tells the operator to look at the session and remove the marker.
OperatorClears(n) ==
  /\ n \in markers \ (ledger \cup inFlight) /\ copies[n] = 0
  /\ \A e \in Exporters : todo[e] = <<>>
  /\ markers' = markers \ {n}
  /\ UNCHANGED <<facts, ledger, copies, inFlight, xpc, todo>>

XNext == \/ \E e \in Exporters :
              \/ export_tuicr(e) \/ preflight(e) \/ Adopt(e) \/ SeeNoMarker(e) \/ WriteMarker(e)
              \/ AddReturns(e) \/ FindAfterError(e) \/ RemoveMarker(e)
              \/ VerifySession(e) \/ WriteRecord(e) \/ ExporterDies(e)
         \/ \E n \in XNotes : TuicrEnds(n) \/ HumanRemoves(n) \/ OperatorClears(n)

XSpec == XInit /\ [][XNext]_xvars
-----------------------------------------------------------------------------
\* However exporters overlap, die and are run again, and whatever tuicr answered, the
\* session never holds a council note twice (execute: create-new markers, adoption of a
\* note that landed, the marker kept unless the session lacks it).
FiledOnce == \A n \in XNotes : copies[n] <= 1
=============================================================================
