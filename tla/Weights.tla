------------------------------- MODULE Weights -------------------------------
(***************************************************************************)
(* Sums of byte weights.  The daemon's budgets add up the bytes that       *)
(* several holders hold.  The sum is defined as the cardinality of the set *)
(* of the bytes themselves, byte i of holder h being <<h, i>>, so that     *)
(* facts about sums follow from the library's facts about finite sets.     *)
(***************************************************************************)
EXTENDS Naturals, FiniteSets

\* The bytes held by the members of S, each h holding w[h] of them.
Bytes(S, w) == UNION {{h} \X (1 .. w[h]) : h \in S}

\* The sum of w[h] over the members h of S.
Total(S, w) == Cardinality(Bytes(S, w))
=============================================================================
