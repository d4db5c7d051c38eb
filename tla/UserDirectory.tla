--------------------------- MODULE UserDirectory ---------------------------
(***************************************************************************)
(* What the user API promises its clients, without sessions, rows under    *)
(* lock, versions checked or events staged: a request takes effect in one  *)
(* indivisible step, on the directory as it is at that step, together with *)
(* the event that records it, and is answered once.  UnitOfWork.tla is     *)
(* shown to implement this module.                                         *)
(***************************************************************************)
EXTENDS Naturals, Sequences

CONSTANTS
    Requests,   \* the HTTP requests; a registration's request names its user
    Emails,
    Names,      \* display names
    Workload,   \* Workload[r]: the commands that request r may carry
    NoUser      \* "no row with this id", None in the code

Ops == {"register", "rename", "deactivate", "get"}

(* name is the display name or, for a deactivation, the reason given.      *)
Command == [op : Ops, id : Requests, email : Emails, name : Names]

Status == {"active", "deactivated"}

User == [email : Emails, name : Names, status : Status, version : Nat]

EventTypes == {"UserRegistered", "UserRenamed", "UserDeactivated"}

EventType(op) == CASE op = "register"   -> "UserRegistered"
                   [] op = "rename"     -> "UserRenamed"
                   [] op = "deactivate" -> "UserDeactivated"

Event == [user : Requests, type : EventTypes, name : Names]

(* "failed" is the answer to a request that met an infrastructure error:   *)
(* its client cannot tell whether the request took effect.                 *)
Refusals == {"reserved", "email_taken", "not_found", "deactivated", "conflict"}

Reply == [code : {"ok", "failed"} \cup Refusals, user : User \cup {NoUser}]

NoReply == [code |-> "none", user |-> NoUser]

VARIABLES
    users,  \* the directory: users[u] is u's row or NoUser
    log,    \* the events of the changes made so far, in order
    reply   \* reply[r]: the answer to r, or NoReply

vars == <<users, log, reply>>

Init == /\ users = [u \in Requests |-> NoUser]
        /\ log = <<>>
        /\ reply = [r \in Requests |-> NoReply]

EmailTaken(email) ==
    \E u \in Requests : users[u] # NoUser /\ users[u].email = email

IsActive(u) == users[u] # NoUser /\ users[u].status = "active"

(* Whether c can be carried out on the directory as it is.                 *)
Allowed(c) == CASE c.op = "register" -> users[c.id] = NoUser /\ ~EmailTaken(c.email)
                [] c.op = "get"      -> users[c.id] # NoUser
                [] OTHER             -> IsActive(c.id)

(* The row of c's user once c is carried out.                              *)
Result(c) ==
    CASE c.op = "register"   -> [email |-> c.email, name |-> c.name,
                                 status |-> "active", version |-> 0]
      [] c.op = "rename"     -> [users[c.id] EXCEPT !.name = c.name, !.version = @ + 1]
      [] c.op = "deactivate" -> [users[c.id] EXCEPT !.status = "deactivated",
                                                    !.version = @ + 1]
      [] c.op = "get"        -> users[c.id]

(* The event that records c: none for a read, none for a rename to the     *)
(* name the user already has.                                              *)
Recorded(c) ==
    IF c.op = "get" \/ (c.op = "rename" /\ users[c.id].name = c.name)
    THEN <<>>
    ELSE <<[user |-> c.id, type |-> EventType(c.op), name |-> c.name]>>

Answer(r, code, user) ==
    /\ reply[r] = NoReply
    /\ reply' = [reply EXCEPT ![r] = [code |-> code, user |-> user]]

CarryOut(c) == /\ Allowed(c)
               /\ users' = [users EXCEPT ![c.id] = Result(c)]
               /\ log' = log \o Recorded(c)

Serve(r, c) == CarryOut(c) /\ Answer(r, "ok", Result(c))

(* The change is made and its acknowledgement lost.                        *)
ServeUnacknowledged(r, c) == CarryOut(c) /\ Answer(r, "failed", NoUser)

(* A refusal leaves the directory alone and says why it was refused.       *)
Refuse(r, c, code) ==
    /\ \/ code = "email_taken" /\ c.op = "register" /\ EmailTaken(c.email)
       \/ code = "not_found" /\ c.op # "register" /\ users[c.id] = NoUser
       \/ code = "deactivated" /\ c.op \in {"rename", "deactivate"}
            /\ users[c.id] # NoUser /\ ~IsActive(c.id)
       \/ code = "conflict" /\ c.op \in {"rename", "deactivate"} /\ users[c.id] # NoUser
       \/ code = "reserved" /\ c.op \in {"register", "rename"}
       \/ code = "failed"
    /\ Answer(r, code, NoUser)
    /\ UNCHANGED <<users, log>>

Next == \E r \in Requests : \E c \in Workload[r] :
            \/ Serve(r, c)
            \/ ServeUnacknowledged(r, c)
            \/ \E code \in {"failed"} \cup Refusals : Refuse(r, c, code)

Spec == Init /\ [][Next]_vars
=============================================================================
