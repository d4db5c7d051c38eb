--------------------------- MODULE MCOutboxRelay ---------------------------
(***************************************************************************)
(* Instances of OutboxRelay for TLC: three events, the first and last of   *)
(* one aggregate.                                                          *)
(***************************************************************************)
EXTENDS OutboxRelay, TLC

CONSTANTS u1, u2, w1, w2

MCThree == 1..3
MCInterleaved == [e \in MCThree |-> IF e = 2 THEN u2 ELSE u1]

MCRelays == {w1, w2}
RelaysAlike == Permutations(MCRelays)
=============================================================================
