------------------------- MODULE MCRequestPipeline -------------------------
(***************************************************************************)
(* Instances of RequestPipeline for TLC: three requests each, chosen so    *)
(* that every check, refusal, retry and replay is met.                     *)
(***************************************************************************)
EXTENDS RequestPipeline

CONSTANTS r1, r2, r3, e1, E1, a, aPadded, b, root

MCRequests == {r1, r2, r3}
MCEmails == {e1, E1}
MCLower == [e \in MCEmails |-> e1]
MCNames == {a, aPadded, b, root}
MCStripped == [n \in MCNames |-> IF n = aPadded THEN a ELSE n]
MCReserved == {root}

Plain(op, u, e, n) == [op |-> op, id |-> u, email |-> e, name |-> n, uuid |-> TRUE,
                       body |-> "ok", token |-> "writer", keyed |-> FALSE]
WithKey(i) == [i EXCEPT !.keyed = TRUE]
WithToken(i, t) == [i EXCEPT !.token = t]
WithBody(i, x) == [i EXCEPT !.body = x]

Register(r, n) == Plain("register", r, e1, n)
SpeltE1(i) == [i EXCEPT !.email = E1]
On(op, n) == Plain(op, r1, e1, n)
Three(x, y, z) == [r \in MCRequests |-> CASE r = r1 -> x [] r = r2 -> y [] r = r3 -> z]

MCWorkloads ==
    {\* a registration, its retry under the key, and a race for the email
     Three(WithKey(Register(r1, a)), WithKey(Register(r2, a)), SpeltE1(Register(r3, b))),
     \* one command under the key in two spellings
     Three(WithKey(Register(r1, a)), WithKey(SpeltE1(Register(r2, a))),
           On("get", a)),
     \* a keyed change, repeated by a caller who may not make it
     Three(Register(r1, a), WithKey(On("rename", b)),
           WithToken(WithKey(On("rename", b)), "reader")),
     \* two commands under one key, one of them a retry
     Three(Register(r1, a), WithKey(On("deactivate", a)), WithKey(On("deactivate", a))),
     Three(Register(r1, a), WithKey(On("deactivate", a)), WithKey(On("rename", b))),
     \* a read and a write of one user without idempotency, the write in
      \* another spelling of the same name
     Three(Register(r1, a), WithKey(On("get", a)), On("rename", aPadded)),
     \* refusals: by the policy, by the path, by the token, by the body
     Three(WithKey(Register(r1, root)), [WithKey(On("rename", b)) EXCEPT !.uuid = FALSE],
           WithToken(On("get", a), "invalid")),
     Three(WithToken(Register(r1, a), "none"), WithToken(On("rename", root), "none"),
           WithBody(WithToken(On("rename", b), "none"), "blank")),
     Three(WithBody(WithToken(Register(r1, a), "invalid"), "malformed"),
           WithBody(WithKey(On("deactivate", a)), "invalid"), On("rename", root))}
=============================================================================
