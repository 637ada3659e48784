------------------------------ MODULE Journal --------------------------------
(***************************************************************************)
(* The decision journal of a council run,                                  *)
(* crates/deep-diff-forge-review/src/journal.rs: `council import-tuicr`    *)
(* compares a tuicr session with the export ledger and the journal, and    *)
(* appends what changed, under a lock file, with a checkpoint per append.  *)
(*                                                                         *)
(* Imports run beside a human who edits the session, an export that files  *)
(* council notes in it, crashes of a process and power losses.  A dry run  *)
(* changes nothing and is left out.  Hashes stand for what they digest: an *)
(* event is its content, its place in the sequence and the place of the    *)
(* event it supersedes, and a checkpoint is the prefix of the journal that *)
(* its head hash digests.  A comment is its text and its lifecycle state;  *)
(* a file is its review mark and the hash of the diff it shows.  A note is *)
(* a comment of the session: when the export gives it up and is run again, *)
(* it files another one.  Nobody writes a note that was given up back word *)
(* for word: the export, which knows its notes by their text, would take   *)
(* it for the new one.  Bounds: JournalCap events, MaxChanges changes of   *)
(* the session.                                                            *)
(***************************************************************************)
EXTENDS Naturals, SequencesExt

CONSTANTS Importers,  \* processes that run import-tuicr --execute
          Notes,      \* comments that the council's export files
          Humans,     \* comments that humans write
          Files,      \* the session's files
          Texts,      \* comment texts; Filed is one of them
          Filed,      \* the text the export gave its notes
          Hashes,     \* tuicr content hashes
          JournalCap, \* JOURNAL_CAP, in events
          MaxChanges, \* bound: the changes of the session
          None

ASSUME DistinctIds == Notes \cap Humans = {} /\ Files \cap (Notes \cup Humans) = {}
ASSUME FiledIsText == Filed \in Texts /\ None \notin Texts
ASSUME IdsFinite == IsFiniteSet(Notes \cup Humans) /\ IsFiniteSet(Files)
ASSUME BoundsNat == JournalCap \in Nat /\ MaxChanges \in Nat

VARIABLES session,    \* session[c]: the comment, or None
          marks,      \* marks[f]: the review mark and the content hash of f
          changes,    \* the changes that humans made to the session
          filed,      \* filed[n]: how far the export of n has come
          journal,    \* the complete lines of decisions.jsonl
          torn,       \* its last line is incomplete
          synced,     \* the lines that survive a power loss
          checkpoints,\* the prefixes of the journal that a checkpoint names
          spoilt,     \* a checkpoint file is incomplete
          lock,       \* decisions.lock exists
          pc,         \* where each import is
          loc         \* its locals: the session it saw, ledger, journal, plan

disk == <<journal, torn, synced, checkpoints, spoilt>>
tuicr == <<session, marks, changes>>
vars == <<session, marks, changes, filed,
          journal, torn, synced, checkpoints, spoilt, lock,
          pc, loc>>

Comments == Notes \cup Humans
Lives == {"draft", "submitted"}
Content == [text : Texts, life : Lives]
Unmarked == [mark |-> "off", hash |-> None] \* whatever the hash
Marks == [mark : {"hunks", "file"}, hash : Hashes \cup {None}] \cup {Unmarked}
Original == [text |-> Filed, life |-> "draft"]

PCs == {"idle", "read", "bound", "locked", "planned", "checked", "written",
        "synced"}

NoLocals == [seen |-> None, ledger |-> {}, base |-> <<>>, plan |-> <<>>]

Init == /\ session = [c \in Comments |-> None]
        /\ marks = [f \in Files |-> Unmarked]
        /\ changes = 0
        /\ filed = [n \in Notes |-> "no"]
        /\ journal = <<>> /\ torn = FALSE /\ synced = 0
        /\ checkpoints = {} /\ spoilt = FALSE
        /\ lock = FALSE
        /\ pc = [i \in Importers |-> "idle"]
        /\ loc = [i \in Importers |-> NoLocals]
-----------------------------------------------------------------------------
(* Outside the importer: the session's users and the export. *)

\* The notes with a .pending marker, those with a ledger record, and those that have
\* neither though they were in the session.
intents == {n \in Notes : filed[n] \in {"pending", "added", "recorded"}}
records == {n \in Notes : filed[n] = "recorded"}
abandoned == {n \in Notes : filed[n] = "given_up"}

\* A human adds, edits or removes a comment; only the export adds a note, but
\* a human may bring a removed one back.
ChangeComment(c, v) ==
  /\ changes < MaxChanges
  /\ v # session[c]
  /\ c \in Notes => filed[c] \in {"added", "recorded", "given_up"}
  /\ (c \in Notes /\ filed[c] = "given_up") => (v # None => v.text # Filed)
  /\ session' = [session EXCEPT ![c] = v]
  /\ changes' = changes + 1
  /\ UNCHANGED <<marks, filed, disk, lock, pc, loc>>

\* A human marks a file or takes the mark back, or its diff changes.
ChangeMark(f, m) ==
  /\ changes < MaxChanges
  /\ m # marks[f]
  /\ marks' = [marks EXCEPT ![f] = m]
  /\ changes' = changes + 1
  /\ UNCHANGED <<session, filed, disk, lock, pc, loc>>

\* export-tuicr for one note: the marker, the comment, the record once the
\* session is seen to hold the note as it was filed.
ExportIntent(n) ==
  /\ filed[n] = "no"
  /\ filed' = [filed EXCEPT ![n] = "pending"]
  /\ UNCHANGED <<tuicr, disk, lock, pc, loc>>

ExportAdds(n) ==
  /\ filed[n] = "pending"
  /\ filed' = [filed EXCEPT ![n] = "added"]
  /\ session' = [session EXCEPT ![n] = Original]
  /\ UNCHANGED <<marks, changes, disk, lock, pc, loc>>

\* tuicr fails, or the export dies and an operator is asked to look at the session: the
\* marker is taken back, as the session lacks the note.
ExportFails(n) ==
  /\ filed[n] = "pending"
  /\ filed' = [filed EXCEPT ![n] = "no"]
  /\ UNCHANGED <<tuicr, disk, lock, pc, loc>>

\* find: the session holds the note n with the text that the export gave it.
HoldsAsFiled(n) == session[n] \in [text : {Filed}, life : Lives]

\* The session lacks a note with this text, and the marker is taken back in the same way,
\* but the note had landed before tuicr failed: a human has rewritten or removed it since.
ExportGivesUp(n) ==
  /\ filed[n] = "added"
  /\ ~HoldsAsFiled(n)
  /\ filed' = [filed EXCEPT ![n] = "given_up"]
  /\ UNCHANGED <<tuicr, disk, lock, pc, loc>>

ExportRecords(n) ==
  /\ filed[n] = "added"
  /\ HoldsAsFiled(n)
  /\ filed' = [filed EXCEPT ![n] = "recorded"]
  /\ UNCHANGED <<tuicr, disk, lock, pc, loc>>
-----------------------------------------------------------------------------
(* What the journal j replays to, and what an import plans. *)

Of(j, x) == {k \in DOMAIN j : j[k].id = x}
LastOf(j, x) == IF Of(j, x) = {} THEN 0 ELSE Max(Of(j, x))
Deleted(j, c) == LastOf(j, c) # 0 /\ j[LastOf(j, c)].kind = "deleted"

\* A fault of Recorded: a note is always compared with the export ledger.
RecordedInLedger(j, c) ==
  IF c \in Notes \/ Of(j, c) = {} THEN Original ELSE j[LastOf(j, c)].value

\* The content of c that the journal, or else the ledger, last recorded.
Recorded(j, c) ==
  LET told == {k \in Of(j, c) : j[k].kind # "deleted"}
  IN  IF told = {} THEN Original ELSE j[Max(told)].value

Known(j, led, c) == Of(j, c) # {} \/ c \in led

Event(kind, x, value, prior, conflict) ==
  [kind |-> kind, id |-> x, value |-> value, supersedes |-> prior, conflict |-> conflict]

\* plan_comments for one comment with content v: added, restored, or revised and
\* moved on in its lifecycle.
CommentEvents(j, v, led, c) ==
  LET last == LastOf(j, c)
      old == Recorded(j, c)
      revised == IF old.text # v.text
                 THEN <<Event("revised", c, v, last, c \in led)>> ELSE <<>>
      moved == IF old.life # v.life
               THEN <<Event("lifecycle", c, v,
                            IF revised # <<>> THEN Len(j) + 1 ELSE last, FALSE)>>
               ELSE <<>>
  IN  CASE v = None -> <<>>
        [] v # None /\ ~Known(j, led, c) -> <<Event("added", c, v, 0, FALSE)>>
        [] v # None /\ Deleted(j, c) -> <<Event("restored", c, v, last, FALSE)>>
        [] OTHER -> revised \o moved

\* plan_tombstones for one comment that is not in the session.
TombstoneEvents(j, v, led, c) ==
  IF v = None /\ Known(j, led, c) /\ ~Deleted(j, c)
  THEN <<Event("deleted", c, None, LastOf(j, c), FALSE)>> ELSE <<>>

\* plan_files for one file with mark m: a hash that changes under an unchanged
\* mark is no event.
MarkOf(j, f) == IF Of(j, f) = {} THEN "off" ELSE j[LastOf(j, f)].value.mark
FileEvents(j, m, f) ==
  IF m.mark = MarkOf(j, f) THEN <<>>
  ELSE <<Event("file_review", f, m, LastOf(j, f), FALSE)>>

\* The content hash of the first positive mark of f, as a set.
Positive(j, f) == {k \in Of(j, f) : j[k].value.mark # "off"}
Pinned(j, f) == IF Positive(j, f) = {} THEN {} ELSE {j[Min(Positive(j, f))].value.hash}

\* plan_files refuses a new positive mark with no hash, or not the pinned one.
StaleMark(j, m, f) ==
  /\ m.mark \notin {"off", MarkOf(j, f)}
  /\ m.hash = None \/ Pinned(j, f) \ {m.hash} # {}

\* What an import goes through: the session's comments, what may be gone from it, its files.
Agenda == LET For(phase, ids) == [k \in DOMAIN ids |-> [phase |-> phase, id |-> ids[k]]]
          IN  For("comment", SetToSeq(Comments)) \o For("tombstone", SetToSeq(Comments))
                \o For("file", SetToSeq(Files))

\* The events of one item of the agenda, the journal being j so far.
ItemEvents(j, s, led, item) ==
  CASE item.phase = "comment" -> CommentEvents(j, s.comments[item.id], led, item.id)
    [] item.phase = "tombstone" -> TombstoneEvents(j, s.comments[item.id], led, item.id)
    [] item.phase = "file" -> FileEvents(j, s.marks[item.id], item.id)

\* The journal j with the events of an import that saw s, in the order they are planned.
Extended(j, s, led) ==
  LET e[k \in 0 .. Len(Agenda)] ==
        IF k = 0 THEN j ELSE LET sofar == e[k - 1]
                             IN  sofar \o ItemEvents(sofar, s, led, Agenda[k])
  IN  e[Len(Agenda)]

Plan(j, s, led) == LET x == Extended(j, s, led)
                   IN  SubSeq(x, Len(j) + 1, Len(x))
-----------------------------------------------------------------------------
(* An import, import_tuicr. *)

Goto(i, s) == pc' = [pc EXCEPT ![i] = s]

\* The import ends, with a report, refused (exit 4) or killed: its locals are gone.
Leave(i) == Goto(i, "idle") /\ loc' = [loc EXCEPT ![i] = NoLocals]

\* observed_comments: what an import takes from the session.
Observed == [comments |-> session, marks |-> marks]

\* The session file is read, before the lock is taken.
ReadSession(i) ==
  /\ pc[i] = "idle"
  /\ loc' = [loc EXCEPT ![i].seen = Observed]
  /\ Goto(i, "read")
  /\ UNCHANGED <<tuicr, filed, disk, lock>>

\* A fault of LoadLedger: markers of unfinished exports are ignored.
LoadAnyLedger(i) ==
  /\ pc[i] = "read"
  /\ Goto(i, "bound")
  /\ loc' = [loc EXCEPT ![i].ledger = records]
  /\ UNCHANGED <<tuicr, filed, disk, lock>>

\* Ledger::load refuses an export that was interrupted.
LoadLedger(i) ==
  /\ pc[i] = "read"
  /\ IF intents \subseteq records
     THEN Goto(i, "bound") /\ loc' = [loc EXCEPT ![i].ledger = records]
     ELSE Leave(i)
  /\ UNCHANGED <<tuicr, filed, disk, lock>>

\* A fault of Acquire: the lock file's presence is no obstacle.
AcquireAnyway(i) ==
  /\ pc[i] = "bound"
  /\ lock' = TRUE
  /\ Goto(i, "locked")
  /\ UNCHANGED <<tuicr, filed, disk, loc>>

\* Lock::acquire creates the lock file; one that exists is a refusal, and so is a pid
\* that cannot be written to it, which leaves the file there.
Acquire(i) ==
  /\ pc[i] = "bound"
  /\ lock' = TRUE
  /\ Leave(i) \/ (~lock /\ Goto(i, "locked") /\ UNCHANGED loc)
  /\ UNCHANGED <<tuicr, filed, disk>>

\* load_journal: every line is complete and every checkpoint names an event of
\* this very chain.
Verified == /\ ~torn /\ ~spoilt
            /\ \A p \in checkpoints : IsPrefix(p, journal)

\* encode: the journal j may take the lines of p.
Capped(j, p) == Len(j) + Len(p) <= JournalCap

\* load_journal, the planners and encode.
MakePlan(i) ==
  LET p == Plan(journal, loc[i].seen, loc[i].ledger)
  IN  /\ pc[i] = "locked"
      /\ Verified
      /\ \A f \in Files : ~StaleMark(journal, loc[i].seen.marks[f], f)
      /\ Capped(journal, p)
      /\ IF p = <<>>
         THEN Leave(i) /\ lock' = FALSE
         ELSE /\ Goto(i, "planned")
              /\ loc' = [loc EXCEPT ![i].base = journal, ![i].plan = p]
              /\ UNCHANGED lock
      /\ UNCHANGED <<tuicr, filed, disk>>

\* Any check refuses: the journal, a mark, the cap, or a file whose bytes are not
\* the sealed ones (check_file, check_scope).
RefusePlan(i) ==
  /\ pc[i] = "locked"
  /\ Leave(i) /\ lock' = FALSE
  /\ UNCHANGED <<tuicr, filed, disk>>

\* append: the file must still be as long as when it was verified.
CheckLength(i) ==
  /\ pc[i] = "planned"
  /\ IF Len(journal) = Len(loc[i].base)
     THEN Goto(i, "checked") /\ UNCHANGED <<lock, loc>>
     ELSE Leave(i) /\ lock' = FALSE
  /\ UNCHANGED <<tuicr, filed, disk>>

WriteAll(i) ==
  /\ pc[i] = "checked"
  /\ journal' = journal \o loc[i].plan
  /\ Goto(i, "written")
  /\ UNCHANGED <<tuicr, filed, torn, synced, checkpoints, spoilt, lock, loc>>

\* k lines of the plan of i are in the file, the next one perhaps in part.
Partly(i, k) ==
  /\ journal' = journal \o SubSeq(loc[i].plan, 1, k)
  /\ torn' \in {torn, k < Len(loc[i].plan)}

\* write_all or a sync fails, the disk being full: some of the lines are there.
WriteFails(i) ==
  /\ pc[i] = "checked"
  /\ \E k \in 0 .. Len(loc[i].plan) : Partly(i, k)
  /\ Leave(i) /\ lock' = FALSE
  /\ UNCHANGED <<tuicr, filed, synced, checkpoints, spoilt>>

Sync(i) ==
  /\ pc[i] = "written"
  /\ synced' = Len(journal)
  /\ Goto(i, "synced")
  /\ UNCHANGED <<tuicr, filed, journal, torn, checkpoints, spoilt, lock, loc>>

\* What the checkpoint of i names: the head of the chain it planned.
NewHead(i) == loc[i].base \o loc[i].plan

WriteCheckpoint(i) ==
  /\ pc[i] = "synced"
  /\ checkpoints' = checkpoints \cup {NewHead(i)}
  /\ Leave(i) /\ lock' = FALSE
  /\ UNCHANGED <<tuicr, filed, journal, torn, synced, spoilt>>

\* The checkpoint of i is missing, incomplete or, its own sync failing, complete.
Unfinished(i) == \/ UNCHANGED <<checkpoints, spoilt>>
                 \/ spoilt' = TRUE /\ UNCHANGED checkpoints
                 \/ checkpoints' = checkpoints \cup {NewHead(i)} /\ UNCHANGED spoilt

\* The checkpoint cannot be written: an error exit after the append.
CheckpointFails(i) ==
  /\ pc[i] = "synced"
  /\ Unfinished(i)
  /\ Leave(i) /\ lock' = FALSE
  /\ UNCHANGED <<tuicr, filed, journal, torn, synced>>

\* The process dies; the lock file stays.
Dies(i) ==
  /\ pc[i] # "idle"
  /\ Leave(i)
  /\ IF pc[i] = "checked"
     THEN (\E k \in 0 .. Len(loc[i].plan) : Partly(i, k)) ELSE UNCHANGED <<journal, torn>>
  /\ IF pc[i] = "synced" THEN Unfinished(i) ELSE UNCHANGED <<checkpoints, spoilt>>
  /\ UNCHANGED <<tuicr, filed, synced, lock>>

\* Everything stops, and what was not synced may be lost.
PowerLoss ==
  /\ \E k \in synced .. Len(journal) :
       /\ journal' = SubSeq(journal, 1, k)
       /\ torn' \in {FALSE, torn \/ k < Len(journal)}
  /\ synced' = Len(journal')
  /\ spoilt' \in {spoilt, spoilt \/ \E i \in Importers : pc[i] = "synced"}
  /\ pc' = [i \in Importers |-> "idle"]
  /\ loc' = [i \in Importers |-> NoLocals]
  /\ UNCHANGED <<tuicr, filed, checkpoints, lock>>

\* An operator removes the lock that a dead import left.
OperatorUnlocks ==
  /\ lock
  /\ \A i \in Importers : pc[i] \in {"idle", "read", "bound"}
  /\ lock' = FALSE
  /\ UNCHANGED <<tuicr, filed, disk, pc, loc>>

Next == \/ \E c \in Comments, v \in Content \cup {None} : ChangeComment(c, v)
        \/ \E f \in Files, m \in Marks : ChangeMark(f, m)
        \/ \E n \in Notes : \/ ExportIntent(n) \/ ExportAdds(n)
                          \/ ExportFails(n) \/ ExportGivesUp(n) \/ ExportRecords(n)
        \/ \E i \in Importers :
             \/ ReadSession(i) \/ LoadLedger(i) \/ Acquire(i) \/ MakePlan(i)
             \/ RefusePlan(i) \/ CheckLength(i) \/ WriteAll(i) \/ WriteFails(i)
             \/ Sync(i) \/ WriteCheckpoint(i) \/ CheckpointFails(i) \/ Dies(i)
        \/ PowerLoss
        \/ OperatorUnlocks

Spec == Init /\ [][Next]_vars
-----------------------------------------------------------------------------
Fates == {"no", "pending", "added", "recorded", "given_up"}
Kinds == {"added", "revised", "restored", "lifecycle", "deleted", "file_review"}

\* Type invariant; the journal never grows past what the next import can read.
TypeOK ==
  /\ session \in [Comments -> Content \cup {None}]
  /\ marks \in [Files -> Marks]
  /\ filed \in [Notes -> Fates]
  /\ \A k \in DOMAIN journal : /\ journal[k].kind \in Kinds
                                /\ journal[k].supersedes \in 0 .. k - 1
  /\ Len(journal) <= JournalCap /\ synced <= Len(journal)
  /\ torn \in BOOLEAN /\ spoilt \in BOOLEAN /\ lock \in BOOLEAN
  /\ pc \in [Importers -> PCs]

\* Whatever imports overlap, fail or die, the events about one comment or file form
\* one line: each supersedes the latest one before it (journal.rs, the `supersedes`
\* of the three planners, under decisions.lock).
EventsLinear ==
  \A k \in DOMAIN journal :
    journal[k].supersedes = LastOf(SubSeq(journal, 1, k - 1), journal[k].id)

\* A checkpoint never names an event the journal does not hold, even after a power
\* loss: otherwise every later import of the run would be refused (append syncs the
\* journal before it writes the checkpoint).
CheckpointsHeld == \A p \in checkpoints : IsPrefix(p, journal)

\* The journal stays readable for the next import: one linear chain within the
\* reader's cap, which every checkpoint names a part of.
ChainLinear == TypeOK /\ EventsLinear /\ CheckpointsHeld

\* A comment is journaled as a human's only if a human wrote it, however the export and
\* an import interleave, or if it is a note that the export gave up, never while it has a
\* marker or a record (Ledger::load refuses open intents); and the export gives up none
\* that no human has touched (execute: the marker goes only if the session lacks the note).
AddedByHumans ==
  /\ \A k \in DOMAIN journal :
       journal[k].kind = "added" => journal[k].id \in Humans \cup abandoned
  /\ abandoned # {} => changes > 0

\* All the positive review marks journaled for a file were made on one diff
\* (plan_files: the pinned content hash), across off and on again.
PinnedOnce ==
  \A f \in Files : \A j, k \in Positive(journal, f) :
    journal[j].value.hash = journal[k].value.hash

\* What the journal says is attributed to who said it and to what it was said about.
AttributedRight == AddedByHumans /\ PinnedOnce

\* Re-running against the same session plans nothing (docs/REVIEW_COUNCIL.md,
\* Idempotency): once the lines of a plan are all written, planning again from what
\* the import saw is empty.
Idempotent ==
  \A i \in Importers :
    pc[i] \in {"written", "synced"} => Plan(journal, loc[i].seen, loc[i].ledger) = <<>>

\* journal.rs, EventKind::Deleted: "Tombstone: a journaled or exported comment is no
\* longer in the session": as long as no human has touched the session, nothing is
\* gone from it.
TombstonesTrue ==
  changes = 0 => \A k \in DOMAIN journal : journal[k].kind # "deleted"
=============================================================================
