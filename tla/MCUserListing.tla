--------------------------- MODULE MCUserListing ---------------------------
(***************************************************************************)
(* An instance of UserListing for TLC: four users, two of them registered  *)
(* at the same instant, pages of one or two, and requests out of bounds.   *)
(***************************************************************************)
EXTENDS UserListing

MCUsers == 1..4
MCStamp == [u \in MCUsers |-> IF u \in {1, 3} THEN 1 ELSE u]

MCOffsets == {-1, 0, 2, 4}
MCLimits == 0..3
=============================================================================
