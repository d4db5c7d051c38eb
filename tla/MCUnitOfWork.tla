--------------------------- MODULE MCUnitOfWork ----------------------------
(***************************************************************************)
(* Instances of UnitOfWork for TLC.                                        *)
(***************************************************************************)
EXTENDS UnitOfWork

CONSTANTS r1, r2, r3, r4, e1, e2, a, b, root

MCEmails == {e1, e2}
MCNames == {a, b, root}
MCReserved == {root}

Register(r, e, n) == [op |-> "register", id |-> r, email |-> e, name |-> n]
On(op, u, n) == [op |-> op, id |-> u, email |-> e1, name |-> n]

(* Two registrations that may race for one email, and two more requests    *)
(* that rename, deactivate or read the first one's user.                   *)
Writes(u) == {On("rename", u, a), On("rename", u, b), On("deactivate", u, a)}

MCFour == {r1, r2, r3, r4}
MCFourWorkload ==
    [r \in MCFour |->
       CASE r = r1 -> {Register(r1, e1, a)}
         [] r = r2 -> {Register(r2, e1, a), Register(r2, e2, root)} \cup Writes(r1)
         [] r = r3 -> Writes(r1) \cup {On("get", r1, a), On("rename", r2, root)}
         [] r = r4 -> Writes(r1) \ {On("rename", r1, a)}]
=============================================================================
