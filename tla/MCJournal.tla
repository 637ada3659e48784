----------------------------- MODULE MCJournal -------------------------------
(* Journal and TuicrExport for TLC.  The scene of a behaviour says what goes on in  *)
(* it: imports of comments, beside the export of a note, with CommentChanges        *)
(* changes of the session; imports of review marks, with MaxChanges; or exports.    *)
EXTENDS Journal, TuicrExport, TLC

CONSTANTS i1, i2, CommentChanges

VARIABLE scene

TwoImporters == {i1, i2}
ImporterSymmetry == Permutations(TwoImporters)

MCInit == /\ Init /\ XInit
          /\ scene \in {"comments", "files", "export"}
          /\ scene # "export" => /\ standing = "manual" /\ sessionKind = "forge"
                                 /\ ~lenient /\ \A n \in XNotes : cited[n] = "good"

\* What a comment is told to be.  The text of a note alone is edited (an edit of it is a
\* conflict, one of a human's comment is not), and with it submitted: enough for an edit, a
\* new lifecycle and both at once.
Told(c) == {v \in Content : \/ v.text = Filed
                            \/ c \in Notes /\ v.life = "submitted"}

Imports == \/ /\ scene = "comments" /\ UNCHANGED marks /\ Next
              /\ changes' <= CommentChanges
              /\ \A c \in Comments : session'[c] \in Told(c) \cup {None}
           \/ scene = "files" /\ UNCHANGED <<session, filed>> /\ Next

MCNext == /\ UNCHANGED scene
          /\ \/ Imports /\ UNCHANGED xvars
             \/ scene = "export" /\ XNext /\ UNCHANGED vars

MCSpec == MCInit /\ [][MCNext]_<<scene, vars, xvars>>
=============================================================================
