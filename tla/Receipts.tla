------------------------------ MODULE Receipts -------------------------------
(***************************************************************************)
(* The learning store (learning store.rs): receipts appended as lines to a  *)
(* file, by processes that take no lock.                                    *)
(*                                                                          *)
(* The file is a sequence of pieces: two for the text of a receipt and one  *)
(* newline.  A write is one append to the end of the file, which a crash    *)
(* can cut short.                                                           *)
(***************************************************************************)
EXTENDS Integers, Sequences, FiniteSets

CONSTANTS
    Appenders,    \* processes that append; each brings a receipt of its own
    BadReceipts,  \* appenders whose receipt does not validate
    MaxPieces,    \* MAX_RECEIPTS_BYTES, in pieces
    MaxReceipts   \* MAX_RECEIPTS

ASSUME StoreLimits == /\ IsFiniteSet(Appenders) /\ Appenders # {}
                      /\ MaxPieces \in Nat /\ MaxReceipts \in Nat

VARIABLES store, appender

receiptVars == <<store, appender>>

Newline == <<"newline", 0>>
Text(a) == <<<<a, 1>>, <<a, 2>>>>

ReceiptsInit ==
    /\ store \in [kind: {"absent", "private", "shared", "link"}, pieces: {<<>>}, dir: {"secure", "foreign"}]
    /\ appender = [a \in Appenders |-> [pc |-> "begin", saw |-> "", glue |-> FALSE,
                                        result |-> "none", alone |-> TRUE]]

Step(a, pc) == appender' = [appender EXCEPT ![a].pc = pc]
Refuse(a, why) == appender' = [appender EXCEPT ![a].pc = "end", ![a].result = why]
\* The appends that are between their check and their write.
InFlight == {a \in Appenders : appender[a].pc \in {"look", "open", "check", "write"}}

validate_receipt_for_storage(a) == a \notin BadReceipts

\* The receipt is validated and the directories are secured.
BeginAppend(a) ==
    /\ appender[a].pc = "begin"
    /\ IF ~validate_receipt_for_storage(a) THEN Refuse(a, "InvalidReceipt")
       ELSE IF store.dir # "secure" THEN Refuse(a, "InvalidData")
       ELSE appender' = [b \in Appenders |->
                IF b = a THEN [appender[a] EXCEPT !.pc = "look", !.alone = InFlight = {}]
                ELSE IF b \in InFlight THEN [appender[b] EXCEPT !.alone = FALSE] ELSE appender[b]]
    /\ UNCHANGED store

validate_receipts_file == store.kind = "private" /\ Len(store.pieces) <= MaxPieces

\* existing_receipts_file: the path is looked at, and opened and validated when it is there.
Look(a) ==
    /\ appender[a].pc = "look"
    /\ IF store.kind # "absent" /\ ~validate_receipts_file THEN Refuse(a, "InvalidData")
       ELSE appender' = [appender EXCEPT ![a].pc = "open", ![a].saw = store.kind]
    /\ UNCHANGED store
\* open_receipts_for_append: opened again to append, or created where nothing was.
Open(a) ==
    /\ appender[a].pc = "open"
    /\ IF appender[a].saw = "absent"
       THEN IF store.kind # "absent" THEN Refuse(a, "Io") /\ UNCHANGED store
            ELSE Step(a, "check") /\ store' = [store EXCEPT !.kind = "private"]
       ELSE IF ~validate_receipts_file THEN Refuse(a, "InvalidData") /\ UNCHANGED store
            ELSE Step(a, "check") /\ UNCHANGED store

\* What is written: a newline first when the last byte of the store is none.
PlainLine(a, glue) == Text(a) \o <<Newline>>
line(a, glue) == IF glue THEN <<Newline, <<a, 1>>, <<a, 2>>, Newline>> ELSE <<<<a, 1>>, <<a, 2>>, Newline>>

\* The size and the last byte.
CheckSize(a) ==
    /\ appender[a].pc = "check"
    /\ LET glue == store.pieces # <<>> /\ store.pieces[Len(store.pieces)] # Newline
       IN  IF Len(store.pieces) + Len(line(a, glue)) > MaxPieces THEN Refuse(a, "InvalidData")
           ELSE appender' = [appender EXCEPT ![a].pc = "write", ![a].glue = glue]
    /\ UNCHANGED store

\* write_all, to the end; the process may be killed part of the way.
WriteLine(a) ==
    /\ appender[a].pc = "write"
    /\ \E n \in 0 .. Len(line(a, appender[a].glue)) :
          /\ store' = [store EXCEPT !.pieces = @ \o SubSeq(line(a, appender[a].glue), 1, n)]
          /\ appender' = [appender EXCEPT ![a].pc = "end", ![a].result =
                             IF n = Len(line(a, appender[a].glue)) THEN "ok" ELSE "crashed"]

ReceiptsNext == \E a \in Appenders : BeginAppend(a) \/ Look(a) \/ Open(a) \/ CheckSize(a) \/ WriteLine(a)
ReceiptsSpec == ReceiptsInit /\ [][ReceiptsNext]_receiptVars

------------------------------------------------------------------------------
(* Reading the store *)

\* A line, by its first piece and the newline or the end after its last one.
StoreLines ==
    LET all == store.pieces
    IN  {l \in (1 .. Len(all) + 1) \X (1 .. Len(all) + 1) :
            /\ l[1] <= l[2] /\ (l[1] = 1 \/ all[l[1] - 1] = Newline)
            /\ \A i \in l[1] .. l[2] - 1 : all[i] # Newline
            /\ l[2] = Len(all) + 1 \/ all[l[2]] = Newline}
Holds(l, a) == SubSeq(store.pieces, l[1], l[2] - 1) = Text(a)

\* Blank lines are skipped; any other line is a receipt, or the load fails.
records == {l \in StoreLines : l[1] < l[2]}

load_receipts ==
    IF store.kind = "absent" THEN [ok |-> TRUE, receipts |-> {}]
    ELSE IF ~validate_receipts_file \/ Cardinality(records) > MaxReceipts THEN [ok |-> FALSE, receipts |-> {}]
    ELSE [ok |-> \A l \in records : \E a \in Appenders : Holds(l, a) /\ validate_receipt_for_storage(a),
          receipts |-> records]
\* How many there are, of a store within its limits.
count_receipts == Cardinality(records)

\* What the store gives back is what was put in: a load that succeeds has every receipt whose
\* append reported success, once, and as many as are counted; an append that overlapped no other
\* is a line of its own, whatever a crash left behind before it; overlapping appends take the
\* store over its size by less than a line for each of them.
ReceiptsKept ==
    LET kept == {a \in Appenders : appender[a].result = "ok"}
    IN  /\ load_receipts.ok =>
              /\ \A a \in kept : \E l \in load_receipts.receipts :
                    /\ Holds(l, a)
                    /\ \A m \in load_receipts.receipts : Holds(m, a) => m = l
              /\ Cardinality(load_receipts.receipts) = count_receipts
        /\ \A a \in kept : appender[a].alone => \E l \in StoreLines : Holds(l, a)
        /\ Len(store.pieces) <= MaxPieces + 4 * (Cardinality(Appenders) - 1)
==============================================================================
