----------------------------- MODULE MCRequests ------------------------------
(* Sessions, Handlers over them, and Views for TLC: the scene says which one of the  *)
(* three a behaviour is about.                                                       *)
EXTENDS Handlers, Views, TLC

VARIABLE scene

allVars == <<scene, vars, handlerVars, viewVars>>

MCFiles == <<
  <<[path |-> 2, score |-> 1, size |-> 1, hunks |-> <<
        [address |-> "a", size |-> 1, lines |-> <<1, 9, 1>>], [address |-> "b", size |-> 2, lines |-> <<2>>]>>],
    [path |-> 1, score |-> 0, size |-> 9, hunks |-> <<>>],
    [path |-> 2, score |-> 1, size |-> 1, hunks |-> <<[address |-> "a", size |-> 1, lines |-> <<1, 1>>]>>]>>,
  <<[path |-> 1, score |-> 0, size |-> 1, hunks |-> <<
        [address |-> "a", size |-> 9, lines |-> <<1, 1>>], [address |-> "b", size |-> 1, lines |-> <<1>>],
        [address |-> "c", size |-> 1, lines |-> <<1, 2>>]>>],
    [path |-> 2, score |-> 1, size |-> 2, hunks |-> <<>>]>> >>

MCSelections == {[by |-> "addresses", names |-> <<"b", "a", "b">>],
                 [by |-> "addresses", names |-> <<"c">>],
                 [by |-> "paths", names |-> <<2, 1, 2>>]}

RequestSymmetry == Permutations(Requests)

MCInit == /\ Init /\ HInit /\ VInit
          /\ scene \in {"table", "requests", "views"}
          /\ scene # "views" => query = [patch |-> 1, view |-> "outline", sel |-> All]

MCNext == /\ UNCHANGED scene
          /\ \/ scene = "table" /\ Next /\ UNCHANGED <<handlerVars, viewVars>>
             \/ scene = "requests" /\ HNext /\ UNCHANGED viewVars
             \/ scene = "views" /\ VNext /\ UNCHANGED <<vars, handlerVars>>

MCSpec == MCInit /\ [][MCNext]_allVars
=============================================================================
