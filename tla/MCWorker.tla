------------------------------ MODULE MCWorker ------------------------------
(***************************************************************************)
(* Instances of Worker for TLC: registrations of different users, relayed  *)
(* in one batch, and workers that come and go.                             *)
(***************************************************************************)
EXTENDS Worker

CONSTANTS w1, w2

MCOne == {w1}
MCTwo == {w1, w2}

MCEvent == {1}
MCEvents == {1, 2}

MCOwner == [e \in MCEvents |-> e]
=============================================================================
