-------------------------- MODULE MCStreamConsumer -------------------------
(***************************************************************************)
(* Instances of StreamConsumer for TLC: a stream whose third entry is of a *)
(* type nobody handles.                                                    *)
(***************************************************************************)
EXTENDS StreamConsumer

CONSTANTS p1, p2

MCWanted == (1..Length) \ {3}

MCTwo == {p1, p2}
MCOne == {p1}
=============================================================================
