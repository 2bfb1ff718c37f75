---------------------------- MODULE RetainedLog ----------------------------
(***************************************************************************)
(* What the chain of files of a sink promises as a whole: for every file,  *)
(* a log of numbered records that grows at its new end and is forgotten    *)
(* only from its old end.                                                  *)
(***************************************************************************)
EXTENDS Integers

CONSTANTS
    Files,
    Records   \* record numbers, in the order of their arrival

VARIABLE kept   \* kept[f]: the records file f holds

Init == kept = [f \in Files |-> {}]

\* A record newer than everything held is added to one file.
Append(f) ==
    \E r \in Records :
        /\ \A x \in kept[f] : x < r
        /\ kept' = [kept EXCEPT ![f] = @ \cup {r}]

\* Some of the records of one file are forgotten: all of them older than any
\* that stays.
Forget(f) ==
    \E gone \in SUBSET kept[f] :
        /\ \A x \in gone, y \in kept[f] \ gone : x < y
        /\ kept' = [kept EXCEPT ![f] = @ \ gone]

Next == \E f \in Files : Append(f) \/ Forget(f)

Spec == Init /\ [][Next]_kept
=============================================================================
