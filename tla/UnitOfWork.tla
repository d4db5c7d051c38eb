---------------------------- MODULE UnitOfWork -----------------------------
(***************************************************************************)
(* The write side of the user service: the command handlers, the User      *)
(* aggregate, the repository's version-checked save and the SQLAlchemy     *)
(* unit of work, over a READ COMMITTED PostgreSQL.                         *)
(*                                                                         *)
(* A request is a process.  Each of its actions is what a handler does     *)
(* between two awaits, so that requests interleave exactly where the event *)
(* loop, or another API instance, may run in between:                      *)
(*                                                                         *)
(*   idle -> pool -> load -> (save ->) stage -> flush -> commit -> done    *)
(*                                                                         *)
(* Definitions that end in Without, Cleared, Unindexed and the like stand  *)
(* right before the definition they are faulty variants of, and are used   *)
(* only to test that the properties notice the fault.                      *)
(*                                                                         *)
(* Every exception leaves through __aexit__: the session is rolled back    *)
(* and closed, so a request that finishes holds no row, no unflushed       *)
(* event and no connection.                                                *)
(***************************************************************************)
EXTENDS Naturals, Sequences, FiniteSets

CONSTANTS
    Requests,   \* the HTTP requests; a registration's request names its user
    Emails,
    Names,      \* display names
    Reserved,   \* the names ReservedDisplayNamePolicy refuses
    Workload,   \* Workload[r]: the commands that request r may carry
    PoolSize,   \* pool_size + max_overflow of the engine
    NoUser      \* "no row with this id", None in the code

Ops == {"register", "rename", "deactivate", "get"}

(* name is the display name or, for a deactivation, the reason given.      *)
Command == [op : Ops, id : Requests, email : Emails, name : Names]

Status == {"active", "deactivated"}

(* A row of the users table, and the aggregate it is mapped to.            *)
User == [email : Emails, name : Names, status : Status, version : Nat]

EventTypes == {"UserRegistered", "UserRenamed", "UserDeactivated"}

(* An outbox row; created_at is 0 until commit() stamps it.                *)
OutboxRow == [user : Requests, type : EventTypes, name : Names, created_at : Nat]

Codes == {"ok", "reserved", "email_taken", "not_found", "deactivated",
          "conflict", "failed"}

Phases == {"idle", "pool", "load", "save", "stage", "flush", "commit", "done"}

NoReply == [code |-> "none", user |-> NoUser]

Reply == [code : Codes, user : User \cup {NoUser}]

(* UserId.new() draws an id nobody else has: the request's own.            *)
ASSUME WorkloadAssumption ==
    /\ Workload \in [Requests -> SUBSET Command]
    /\ \A r \in Requests : \A c \in Workload[r] : c.op = "register" => c.id = r

ASSUME PoolAssumption == PoolSize \in Nat \ {0}

ASSUME NoUserAssumption == NoUser \notin User

VARIABLES
    users,      \* the committed users table
    outbox,     \* the committed outbox_messages, in the order of their commits
    clock,      \* the wall clock, as the created_at stamps see it
    pc,         \* where each request's handler is
    cmd,        \* the command each request carries
    aggregate,  \* the User each handler has in memory, or NoUser
    events,     \* the events raised on it and not yet committed
    reply       \* the answer to each request

vars == <<users, outbox, clock, pc, cmd, aggregate, events, reply>>

Init == /\ users = [u \in Requests |-> NoUser]
        /\ outbox = <<>>
        /\ clock = 0
        /\ pc = [r \in Requests |-> "idle"]
        /\ cmd \in [Requests -> UNION {Workload[r] : r \in Requests}]
        /\ \A r \in Requests : cmd[r] \in Workload[r]
        /\ aggregate = [r \in Requests |-> NoUser]
        /\ events = [r \in Requests |-> <<>>]
        /\ reply = [r \in Requests |-> NoReply]
-----------------------------------------------------------------------------
(* PostgreSQL.                                                             *)

(* The unique index on users.email, over the committed rows.               *)
EmailTaken(email) ==
    \E u \in Requests : users[u] # NoUser /\ users[u].email = email

(* A transaction that updated a row keeps it locked until it ends.         *)
HoldsRow(r, u) == /\ cmd[r].op \in {"rename", "deactivate"}
                  /\ cmd[r].id = u
                  /\ pc[r] \in {"stage", "flush", "commit"}

(* An insertion of a row whose email another transaction has inserted and  *)
(* not committed waits for that transaction to end.                        *)
HoldsEmail(r, email) == /\ cmd[r].op = "register"
                        /\ cmd[r].email = email
                        /\ pc[r] = "commit"

(* The requests whose session has checked out a connection.                *)
ConnectedLeaking ==
    {r \in Requests : \/ pc[r] \in {"load", "save", "stage", "flush", "commit"}
                      \/ pc[r] = "done" /\ reply[r].code \notin {"ok", "reserved"}}
Connected == {r \in Requests : pc[r] \in {"load", "save", "stage", "flush", "commit"}}
-----------------------------------------------------------------------------
(* Leaving the handler: the answer, and __aexit__.                         *)
FinishKeepingEvents(r, code, user) ==
    /\ pc' = [pc EXCEPT ![r] = "done"]
    /\ aggregate' = [aggregate EXCEPT ![r] = NoUser]
    /\ reply' = [reply EXCEPT ![r] = [code |-> code, user |-> user]]
    /\ UNCHANGED <<clock, cmd, events>>

Finish(r, code, user) ==
    /\ pc' = [pc EXCEPT ![r] = "done"]
    /\ aggregate' = [aggregate EXCEPT ![r] = NoUser]
    /\ events' = [events EXCEPT ![r] = <<>>]
    /\ reply' = [reply EXCEPT ![r] = [code |-> code, user |-> user]]
    /\ UNCHANGED <<clock, cmd>>

Refuse(r, code) == Finish(r, code, NoUser) /\ UNCHANGED <<users, outbox>>

Goto(r, phase) == pc' = [pc EXCEPT ![r] = phase]

Raise(r, type, name) ==
    events' = [events EXCEPT ![r] =
                 Append(@, [user |-> cmd[r].id, type |-> type, name |-> name,
                            created_at |-> 0])]
-----------------------------------------------------------------------------
(* The handler starts: value objects, then the reserved-name policy.       *)
Begin(r) ==
    /\ pc[r] = "idle"
    /\ IF cmd[r].op \in {"register", "rename"} /\ cmd[r].name \in Reserved
       THEN Refuse(r, "reserved")
       ELSE Goto(r, "pool") /\ UNCHANGED <<users, outbox, clock, cmd, aggregate, events, reply>>

Checkout(r) ==
    /\ pc[r] = "pool"
    /\ Cardinality(Connected) < PoolSize
    /\ Goto(r, "load")
    /\ UNCHANGED <<users, outbox, clock, cmd, aggregate, events, reply>>

(* User.register.                                                          *)
NewUser(c) == [email |-> c.email, name |-> c.name, status |-> "active", version |-> 0]

(* RegisterUserHandler up to uow.commit(): get_by_email, User.register and *)
(* add; the row is not written before the flush.                           *)
RegisterUser(r) ==
    /\ pc[r] = "load"
    /\ cmd[r].op = "register"
    /\ IF EmailTaken(cmd[r].email)
       THEN Refuse(r, "email_taken")
       ELSE /\ aggregate' = [aggregate EXCEPT ![r] = NewUser(cmd[r])]
            /\ Raise(r, "UserRegistered", cmd[r].name)
            /\ Goto(r, "stage")
            /\ UNCHANGED <<users, outbox, clock, cmd, reply>>

(* What the three other handlers start with: get_by_id.                    *)
Loaded(r) == users[cmd[r].id]

LoadUser(r, op) == pc[r] = "load" /\ cmd[r].op = op

(* User._ensure_active, on the aggregate just loaded.                      *)
Anyone(r) == TRUE
EnsureActive(r) == Loaded(r).status = "active"

(* User.rename returns early, without an event, when the name is the same. *)
NeverSame(r) == FALSE
SameName(r) == Loaded(r).name = cmd[r].name

UserMissing(r, op) ==
    /\ LoadUser(r, op)
    /\ Loaded(r) = NoUser
    /\ Refuse(r, "not_found")

GetUser(r) ==
    \/ UserMissing(r, "get")
    \/ /\ LoadUser(r, "get")
       /\ Loaded(r) # NoUser
       /\ Finish(r, "ok", Loaded(r))
       /\ UNCHANGED <<users, outbox>>

(* The aggregate that User.rename, and User.deactivate, leave.             *)
Renamed(r) == [Loaded(r) EXCEPT !.name = cmd[r].name]
Deactivated(r) == [Loaded(r) EXCEPT !.status = "deactivated"]

(* RenameUserHandler up to save: a rename to the present name raises no    *)
(* event, and is saved all the same.                                       *)
RenameUser(r) ==
    \/ UserMissing(r, "rename")
    \/ /\ LoadUser(r, "rename")
       /\ Loaded(r) # NoUser
       /\ IF ~EnsureActive(r)
          THEN Refuse(r, "deactivated")
          ELSE /\ aggregate' = [aggregate EXCEPT ![r] = Renamed(r)]
               /\ IF SameName(r)
                  THEN UNCHANGED events
                  ELSE Raise(r, "UserRenamed", cmd[r].name)
               /\ Goto(r, "save")
               /\ UNCHANGED <<users, outbox, clock, cmd, reply>>

(* DeactivateUserHandler up to save.                                       *)
DeactivateUser(r) ==
    \/ UserMissing(r, "deactivate")
    \/ /\ LoadUser(r, "deactivate")
       /\ Loaded(r) # NoUser
       /\ IF ~EnsureActive(r)
          THEN Refuse(r, "deactivated")
          ELSE /\ aggregate' = [aggregate EXCEPT ![r] = Deactivated(r)]
               /\ Raise(r, "UserDeactivated", cmd[r].name)
               /\ Goto(r, "save")
               /\ UNCHANGED <<users, outbox, clock, cmd, reply>>

Saved(r) == /\ aggregate' = [aggregate EXCEPT ![r].version = @ + 1]
            /\ Goto(r, "stage")
            /\ UNCHANGED <<users, outbox, clock, cmd, events, reply>>

SaveWithoutVersion(r) ==
    /\ pc[r] = "save"
    /\ \A q \in Requests : ~HoldsRow(q, cmd[r].id)
    /\ Saved(r)

SaveCheckedInMemory(r) ==
    /\ pc[r] = "save"
    /\ IF Loaded(r).version = aggregate[r].version THEN Saved(r) ELSE Refuse(r, "conflict")

(* SqlAlchemyUserRepository.save: UPDATE ... WHERE id AND version.  It     *)
(* waits for a transaction that holds the row, and then meets the row that *)
(* transaction left.                                                       *)
Save(r) ==
    /\ pc[r] = "save"
    /\ \A q \in Requests : ~HoldsRow(q, cmd[r].id)
    /\ IF Loaded(r).version = aggregate[r].version THEN Saved(r) ELSE Refuse(r, "conflict")

StageCleared(r) ==
    /\ pc[r] = "stage"
    /\ clock' = clock + 1
    /\ events' = [events EXCEPT ![r] = <<>>]
    /\ Goto(r, "flush")
    /\ UNCHANGED <<users, outbox, cmd, aggregate, reply>>

(* SqlAlchemyUnitOfWork.commit() up to session.commit(): the outbox rows.  *)
Stage(r) ==
    /\ pc[r] = "stage"
    /\ clock' = clock + 1
    /\ events' = [events EXCEPT ![r] =
                    [i \in DOMAIN @ |-> [@[i] EXCEPT !.created_at = clock']]]
    /\ Goto(r, "flush")
    /\ UNCHANGED <<users, outbox, cmd, aggregate, reply>>

FlushUnindexed(r) ==
    /\ pc[r] = "flush"
    /\ Goto(r, "commit")
    /\ UNCHANGED <<users, outbox, clock, cmd, aggregate, events, reply>>

(* session.commit() flushes: the INSERTs.  A second row with the email is  *)
(* refused by the index; nothing maps that IntegrityError.                 *)
Flush(r) ==
    /\ pc[r] = "flush"
    /\ cmd[r].op = "register" => \A q \in Requests : ~HoldsEmail(q, cmd[r].email)
    /\ IF cmd[r].op = "register" /\ EmailTaken(cmd[r].email)
       THEN Refuse(r, "failed")
       ELSE /\ Goto(r, "commit")
            /\ UNCHANGED <<users, outbox, clock, cmd, aggregate, events, reply>>

(* COMMIT: the user's row and the events become visible together.          *)
Publish(r) ==
    /\ pc[r] = "commit"
    /\ users' = [users EXCEPT ![cmd[r].id] = aggregate[r]]
    /\ outbox' = outbox \o events[r]

Commit(r) == Publish(r) /\ Finish(r, "ok", aggregate[r])

(* The COMMIT is done and the connection lost before its acknowledgement.  *)
CommitUnacknowledged(r) == Publish(r) /\ Finish(r, "failed", NoUser)

(* A statement fails, the pool times out, the client or the API process    *)
(* goes away: the transaction is rolled back.                              *)
Fail(r) == pc[r] \in Phases \ {"idle", "done"} /\ Refuse(r, "failed")

Advance(r) == \/ Begin(r) \/ Checkout(r)
              \/ RegisterUser(r) \/ GetUser(r) \/ RenameUser(r) \/ DeactivateUser(r)
              \/ Save(r) \/ Stage(r) \/ Flush(r) \/ Commit(r)

(* Every request is answered.                                              *)
Idle == (\A r \in Requests : pc[r] = "done") /\ UNCHANGED vars

Next == \/ \E r \in Requests : Advance(r) \/ CommitUnacknowledged(r) \/ Fail(r)
        \/ Idle

(* The event loop resumes every handler whose await has completed, and     *)
(* PostgreSQL lets the waiter go on when the holder of its row ends.       *)
Fairness == \A r \in Requests : WF_vars(Advance(r))

Spec == Init /\ [][Next]_vars

FairSpec == Spec /\ Fairness
-----------------------------------------------------------------------------
Written == {"save", "stage", "flush", "commit"}

(* The domains of the variables, and what each phase of a handler may have *)
(* in memory: an aggregate and at most its one event while a write is      *)
(* under way, nothing of it once the session is closed.                    *)
TypeOK ==
    /\ users \in [Requests -> User \cup {NoUser}]
    /\ outbox \in Seq(OutboxRow)
    /\ clock \in Nat
    /\ pc \in [Requests -> Phases]
    /\ cmd \in [Requests -> Command]
    /\ \A r \in Requests : cmd[r] \in Workload[r]
    /\ aggregate \in [Requests -> User \cup {NoUser}]
    /\ events \in [Requests -> Seq(OutboxRow)]
    /\ reply \in [Requests -> Reply \cup {NoReply}]
    /\ \A r \in Requests :
          /\ pc[r] \in Written <=> aggregate[r] # NoUser
          /\ pc[r] \in Written \/ events[r] = <<>>
          /\ Len(events[r]) <= 1
          /\ pc[r] = "done" <=> reply[r] # NoReply

(* No two users share an email, although the handler's own check of        *)
(* get_by_email and its INSERT are separate steps.                         *)
EmailsUnique ==
    \A u, v \in Requests :
        users[u] # NoUser /\ users[v] # NoUser /\ users[u].email = users[v].email
            => u = v

Naming == {"UserRegistered", "UserRenamed"}

LastNaming(u, i) ==
    /\ outbox[i].user = u /\ outbox[i].type \in Naming
    /\ \A j \in DOMAIN outbox :
          outbox[j].user = u /\ outbox[j].type \in Naming => j <= i

(* A consumer that replays the outbox in commit order ends with the users  *)
(* table: a user is there once it has an event, bears the name the last    *)
(* naming event gave it, and is deactivated iff an event says so.  No      *)
(* crash, conflict or rollback separates a row from its event.             *)
OutboxExplainsUsers ==
    \A u \in Requests :
        /\ users[u] = NoUser <=> \A i \in DOMAIN outbox : outbox[i].user # u
        /\ users[u] # NoUser =>
             /\ \E i \in DOMAIN outbox :
                   LastNaming(u, i) /\ outbox[i].name = users[u].name
             /\ users[u].status = "deactivated" <=>
                   \E i \in DOMAIN outbox :
                       outbox[i].user = u /\ outbox[i].type = "UserDeactivated"

(* The relay reads rows in the order of created_at, a stamp taken before   *)
(* the commit: for one user it is the order in which the changes committed.*)
CreatedInCommitOrder ==
    \A i, j \in DOMAIN outbox :
        i < j /\ outbox[i].user = outbox[j].user
            => outbox[i].created_at < outbox[j].created_at

Acknowledged == {r \in Requests : reply[r].code = "ok" /\ cmd[r].op # "get"}

(* No acknowledged write is lost under a later one: two acknowledged       *)
(* writes of a user answered with different versions, the row has at least *)
(* each of them, and is the answer itself if no write followed.            *)
NoAcknowledgedWriteLost ==
    /\ \A r, q \in Acknowledged :
          r # q /\ cmd[r].id = cmd[q].id => reply[r].user.version # reply[q].user.version
    /\ \A r \in Acknowledged :
          /\ users[cmd[r].id] # NoUser
          /\ users[cmd[r].id].version >= reply[r].user.version
          /\ users[cmd[r].id].version = reply[r].user.version
                => users[cmd[r].id] = reply[r].user

(* What a step may never do to a row: remove it, change its email, skip or *)
(* repeat a version, or touch it at all once its user is deactivated, even *)
(* when the change was computed before the deactivation committed.         *)
RowEvolves ==
    \A u \in Requests : users[u] # NoUser /\ users'[u] # users[u] =>
        /\ users[u].status = "active"
        /\ users'[u] # NoUser
        /\ users'[u].email = users[u].email
        /\ users'[u].version = users[u].version + 1

RowsEvolve == [][RowEvolves]_vars

(* Every request that arrives is answered: no cycle of waits on rows,      *)
(* emails and pooled connections.                                          *)
EveryRequestAnswered == \A r \in Requests : <>(pc[r] = "done")

(* The events of the directory: the outbox without its stamps.             *)
Log == [i \in DOMAIN outbox |->
          [user |-> outbox[i].user, type |-> outbox[i].type, name |-> outbox[i].name]]

Directory == INSTANCE UserDirectory WITH log <- Log

(* The unit of work implements the atomic directory: each answered request *)
(* read, checked, changed and recorded as if at one instant.               *)
ImplementsDirectory == Directory!Spec
=============================================================================
